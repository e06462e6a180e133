# A TLA+ model of the TrueNAS Terraform provider

This directory holds a verification development for `terraform-provider-truenas`: TLA+ modules
that model its concurrent and failure-prone parts, TLC configurations that check them on small
instances, and TLAPS proofs that hold for every instance. `PROJECT.json` is the index: components,
runs, mutants, the map from definitions to source lines, findings, hazards and theorems.

## The system and its parts

Terraform starts the provider once per command and calls its handlers concurrently. All handlers
share one client.

| Part | State | Operations | Talks to |
|---|---|---|---|
| `internal/client/client.go` | published connection, pending calls, id counter, slots of the limiter, `reconnectMu`; per websocket a reader | `Connect`, `Call`, `reconnect`, `dial`, `send`, `readLoop`, keepalive, `Close` | the server's websocket; used by everything |
| `internal/client/callread.go`, `jobs.go` | cached method metadata, `fsMutationMu` | `CallRead`, `CallJob`, `waitJob`, `methodIsJob`, `CallFilesystemMutation` | `Call`; the server's job list |
| `internal/client/auth.go`, `scram.go` | none between logins | `WithRetry`, `AuthAPIKeyAuto`, `AuthAPIKeySCRAM`, ... | `Call` on the connection being opened |
| `internal/client/version.go` | cached version | `ServerVersion`, `VersionAtLeast` | `CallRead` |
| `internal/provider` | clients by configuration | `Configure`, `sharedClient` | `Connect` |
| `internal/resources/*` (86) | Terraform's state of one object; `stagingMu` for interfaces | `Create`, `Read`, `Update`, `Delete`, `ImportState`, `ModifyPlan` | `Call`, `CallRead`, `CallJob` |
| `internal/actions/*` (25) | none | `Invoke` | `Call`, `CallJob` |
| `internal/planmod`, `writeonly` | marks in the private state | plan modifiers | Terraform's plan |
| `internal/listing`, `normalize`, `stateupgrade` | none | queries, conversions | `CallRead`, Terraform |

What is hard in it, and makes each part correct:

- **Client.** Callers, readers, the keepalive and a re-dial interleave on the same fields under
  three mutexes. Correct means: no caller is left waiting, no reader blocks, one session at a
  time, only an authenticated and live connection is published, a request is executed at most
  once, and every call returns.
- **Jobs.** A long operation is a job that is polled over connections that come and go, on a
  server that restarts. Correct means: a reported outcome is the job's outcome, a mutation is sent
  once, permission jobs do not overlap, and the wait ends.
- **Interface changes** are staged globally on the server, committed on probation and confirmed.
  Correct means: handlers do not touch each other's changes, a failure leaves nothing behind, a
  success stays.
- **Resource handlers** make several calls, and any of them can fail. Correct means: what was
  configured is on the appliance when an apply succeeds, what was not configured is left alone, the
  plan is empty exactly when state, configuration and appliance agree, and an object that exists is
  in Terraform's state or the user was told.
- **Plan modifiers** carry information from one plan to the next, in the state and in private
  data. Correct means: a removed value goes back to its default, once; a value somebody else
  manages stays; another spelling of the same value replaces nothing.

## Modules

| Module | Models |
|---|---|
| `RPC` | what `Client.Call` promises: at-most-once execution; an answer means executed, "not sent" means never executed, any other error leaves it open |
| `WSClient` | `client.go` |
| `MCWSClient` | instances of `WSClient` |
| `WSClientProofs`, `WSClientRefinement`, `WSClientSlots` | theorems about `WSClient`: its invariants; that it implements `RPC`; the limiter |
| `Jobs`, `MCJobs` | `callread.go`, `jobs.go`, on top of the promise of `RPC` |
| `JobsProofs` | theorems about `Jobs` |
| `InterfaceStaging`, `MCInterfaceStaging` | Create, Update, Delete of `network_interface/resource.go` |
| `InterfaceStagingProofs` | theorems about `InterfaceStaging` |
| `Steps` | the vocabulary of the catalog: kinds of attributes, rules of payloads and responses, steps of handlers |
| `Catalog` and `Catalog{Accounts,System,Services,Storage,Protection,Sharing,Block,Compute,Network}` | for every resource of `internal/resources`: its schema, payload builders, response conversions and handlers, in that vocabulary |
| `Lifecycle`, `MCLifecycle` | the plan modifiers, the meaning of every rule and step, and Terraform around them |
| `LifecycleProofs` | theorems about `Lifecycle`, for every well-formed catalog |
| `LifecycleClasses` | classes of attributes, told from their catalog entry without running it |
| `LifecyclePlans`, `LifecycleValues` | lemmas on rules and plan modifiers; theorems about the values of the attributes of a class, for every well-formed catalog |

### WSClient

One action is one critical section or one blocking operation of the Go code. Goroutines are `Cfg`
(`Connect`), `Callers` (one `Call` each) and `KA` (keepalive); every websocket `k` has a reader.

| Variable | Go |
|---|---|
| `conn`, `pending`, `seq`, `sem`, `reMu`, `stopped` | `c.conn`, `c.pending`, `c.seq`, `c.sem`, `c.reconnectMu`, `c.keepaliveStop` |
| `pc`, `role`, `tgt`, `sid`, `ch`, `res` | position and locals of `send`: why it sends, on which connection, its id, its channel, its result |
| `att`, `datt`, `rerr`, `ctx` | loop counters of `Call`/`Connect` and `dial`, the error of the last dial, the context |
| `link`, `reader`, `hand` | the socket, its `readLoop` (`exiting`: read failed; `failed`: `failPending` done; `done`: unpublished), the response in `deliver`'s hand |
| `wire`, `inbox`, `authed`, `applied` | the server: requests received, responses sent, logged-in sessions, how often a request was executed |

`connMu` and `pendingMu` are the atomicity of the actions; `writeMu` orders nothing that a
property can see. A response is `ok`, `err`, `big` (over `maxResponseBytes`) or `bad` (does not
parse). `send` is one set of actions used for four purposes: a call, a login, a keepalive ping and
the liveness ping of `dropIfUnresponsive`. A login is one exchange; a retry inside `WithRetry` is a
longer stay in the same place. All timers may fire at any time. After a loss the server may still
execute a call's request that was in flight.

### Jobs

An operation is one `CallJob` (`kind` "job"), one `CallFilesystemMutation` ("fs"), or a `CallJob`
of a method that is no job on this server ("plain"). `CallAnswered` and `CallFails` are the
mutating call as `RPC` allows it. The server's side (job ids, `core.get_jobs`, restarts) is
external: ids are handed out in order and not again, a restart fails the running jobs and empties
the list, job 1 belongs to somebody else. One service's metadata is modelled; whether
`core.get_methods` lists a method is a free choice. A request whose caller has given up may be executed
any time later (`LateCall`, `late`), also after its operation has returned. A poll whose answer does not parse
counts as a miss, as in the code.

### InterfaceStaging

Every handler manages an interface of its own. `live` is the configuration in effect, `db` the one
with the staged changes, `saved` what a rollback restores. A call is answered, refused, or gets no
answer, and then the server executed it, will execute it later (`late`), or never does. The server
is external: staging, commit, checkin, rollback and the timer are modelled as the handlers use
them, and checkin without a running timer is no error. History: `open`, whose change is staged or committed and not
checked in; `expired`, whose timer fired; `overtaken`, one of whose requests the server executed after the
handler had returned; `disturbed`, whose open change somebody else applied, kept or discarded.

### Lifecycle and the catalog

All resources are written in one style: a schema with plan modifiers, a function that builds a
payload, a function that takes a response into the model, and five handlers that call the server
and save the model. So the model is an interpreter and data. The data is the catalog: one definition
per schema, payload builder, response conversion and handler, each mapped to its function. The
interpreter is `Lifecycle`; a behaviour of it is the life of **one attribute of one object**, with
what happens to the other attributes reduced to a choice (`others`).

How to read a catalog entry:

- A *schema* gives every attribute a kind. `Required`, `Optional`, `Computed` are Terraform's;
  `Kept` is optional and computed with `UseStateForUnknown`, `Unkept` without it, `Volatile` is
  computed without it. `Mod(kind, <<...>>)` adds plan modifiers in the order they run; `Amend` adds
  what `ModifyPlan` does. `Spelt`: one value has several spellings (case, JSON, addresses);
  `Custom`: with a custom type on top; `Sentinel`: its other spelling is a request to Create and no
  setting to compare with (`version = "latest"` of `app`). `Secret` is write-only with a version attribute, `Unseen`
  write-only without one. `Local` and `Once` are knobs that are no setting of the object.
  `Initially("zero", ...)`: the server starts the field at zero, which matters where a payload sends
  zero for "not known".
- A *payload* gives every attribute it may carry a rule, defined by `Sent`: `always` is
  `m.X.ValueString()` unconditionally (zero for null and unknown), `known` the usual
  `!IsNull() && !IsUnknown()`, `nonzero` that and `!= ""`, `nil`/`nilZero`/`nullable` the ways to send
  JSON null, `changed` a comparison with the prior state, and so on.
- A *response* gives every attribute it sets a rule, defined by `Taken`: `value`, `pointer` (null stays
  null), `nullIfZero`, `ifUnknown`, `keepEquivalent`, `unlessRedacted`, ...
- A *handler* is a sequence of steps: calls (`Create`, `Update`, `Delete`, `Fetch`), `Take`, `Save`, private
  data (`RecordManaged`, `SetImported`), checks that may refuse (`Check`: version gates, blockers, jobs
  without a payload of their own), and the not-found branches (`FetchOrForget`, `FetchOrAsk`). Short
  handlers have no definition of their own; they stand in the definition of their resource.

What every resource of the repository keeps to, and the proofs rest on, is written down in
`Lifecycle` as `WellFormed`, a condition on one catalog entry, and assumed of all of them in
`CatalogAssumption`, which TLC evaluates on the catalog in every run of `Lifecycle`: every step and rule
belongs to its kind of handler; a response is taken only after a call that returned one; a handler
that asks `docker.status` does so right after the call that did not find the object; an attribute that may be
unknown in the plan is resolved from a response before a save (excepting on Create the attributes marked
below as deviations from `AppliedAsPlanned`); Create saves; Delete of what Create made deletes;
and where the code records a new object at once (`vm`, `container`), no call that may fail lies between.

| Variable | Stands for |
|---|---|
| `profile` | the catalog's entry for the attribute followed |
| `base`, `srv`, `serving` | the appliance: the field's own default, its value (or no object), the daemon behind it |
| `cfg`, `st`, `tainted`, `mark` | Terraform: configuration, state, taint, private data |
| `op`, `pc`, `then`, `others`, `plan`, `model`, `reply`, `saved`, `planMark`, `failed` | the running handler: position, request and response |
| `before`, `made`, `told`, `settled`, `stale`, `owned` | history the properties speak of |

Every call may fail without effect, or take effect and then fail (its answer lost); every check may
refuse. Between handlers the configuration is edited, the object changed or deleted by others, and
Docker stopped or started. A handler runs without interference on its own object; that matters for
one place, see `Restarts` below.

Assumed of Terraform and the plugin framework, which are external: a state is refreshed before it is
planned from; the framework marks every unconfigured computed attribute unknown as soon as anything
changes, then runs the modifiers in order; `UseStateForUnknown` keeps a null prior value too; a
custom type's semantic equality keeps the planned or prior spelling when a model is saved; a failed
Update keeps the prior state but stores the planned private data; Create starts with empty private
data; a failed Create that saved a state leaves a tainted object.

`stale` keeps the properties honest where the code cannot know: a change made since the last refresh
(`unread`), or one a refresh cannot show (`hidden`), because the appliance masks the field, never
returns it, or the daemon was down, or a call of Read failed whose failure the code ignores (`app.config` for
the `values` of a catalog app). `settled` is what `NoDiffAfterApply` speaks of: an apply reported success
knowing what it changed, and nothing was edited, changed or failed since.

**Deviations.** Attributes for which the code does not keep a property are marked in the catalog, and
only there and for that property:

| Attribute | Property | Why |
|---|---|---|
| `keychain_ssh_connection` port, username, connect_timeout; `webshare` enabled | `UnsetGetsServerDefault` | finding 6 |
| the `attributes` documents of `acme_dns_authenticator`, `alert_service`, `cloud_backup`, `cloudsync`, `cloudsync_credentials`, `container_device` | `NoDiffAfterApply` | every Update clears the import flag, also one that left the document alone; the next plan then rewrites the document. Only that is excused: a plan that puts back another spelling of the same document. `vm_device` keeps the flag and is checked |
| `app.custom_compose_config_string` | `NoDiffAfterApply` | left out of the configuration of a custom app without the write-only overlay, it is filled by every Read with the live document (`app/resource.go:236-262`, `compose.go:50-63`), and the plan proposes to drop it for ever. Only a plan without a configured document is excused |
| the root-dataset properties of `pool` | `AppliedAsPlanned` | a failed read of them is a warning, and null is saved |
| `system_general.ui_certificate`, `truecommand_config.api_key` | `AppliedAsPlanned` | a session with fewer rights reads a mask after its own apply |

`LosesZero` marks six attributes whose schema admits a zero (`""`, 0) that the provider does not send or
reads back as null: `user.home_mode`, `vm.bootloader_ovmf`, `network_interface.mtu`,
`replication.name_regex`, `replication.lifetime_value`, `system_advanced.overprovision`. They are followed with
nonzero values.

**Restarts.** `app` asks `docker.status` after a not-found. With `Restarts = TRUE` Docker may come up between
the two calls; then a Read that saw "not found" from a stopped Docker and "running" a moment later
drops a live app, and `NoSilentOrphan` fails. The run uses `FALSE`: Docker changes between handlers.

## Runs

| Run | Instance | Shows |
|---|---|---|
| `client_calls` | 2 callers, 2 slots, 3 websockets, drops at any time; symmetric callers | `NoLostWaiter`, `OneSession`, `LossIsMarked`; `CallKeepsPromise` (refinement of `RPC`) |
| `client_faults` | 1 caller, cancellable `Connect`, one login retry, keepalive, `Close`, errors and unreadable responses, 2 websockets | `TypeOK`, `PublishedIsUsable`, `ReaderNeverBlocks`, `OutstandingBounded` |
| `client_live` | 2 callers for 1 slot, one of them cancellable, oversized responses, one reconnect retry, 2 websockets, fairness | `EveryCallReturns` |
| `auth_loss` | 1 websocket | finding: `AuthLossRecognised` fails |
| `server_load` | 2 callers, 1 slot | finding: `ServerLoadBounded` fails |
| `jobs` | two fs operations, or one fs and one plain; 3 job ids, give up after 2 misses, 1 read retry, 1 restart, fairness | `TypeOK`, `KnownJobOutcomeIsTrue`, `MutationSentOnce`, `FsHeldUntilOver`, `FetchedOnce`, `EveryJobCallReturns` |
| `jobs_plain` | one plain operation | finding: `PlainResultIsRaw` fails |
| `fs_serial` | two fs operations | finding: `FsMutationsSerial` fails |
| `staging` | 2 handlers of any kind, up to 2 late requests | `TypeOK`, `StagedApart`, `FailureIsUndone`, `SuccessIsKept` |
| `staging_success` | 2 handlers, no late requests | finding: `SuccessIsFinal` fails |
| `lifecycle` | every resource, 2 values besides zero, null and another spelling | `TypeOK` and the properties below |
| `unset_defaults` | `keychain_ssh_connection`, `webshare` | finding: `DocumentedDefaultApplies` fails |

The properties of `staging` speak of every refused, lost, unanswered and late call and of every timer, and
name what they except:

- `StagedApart`: nobody gets at a change that another handler has open. Excepted: runs in which a handler has
  returned after its rollback or its checkin failed (it leaves a change behind, as its own message says), or in
  which a request was executed after its handler returned, which no client can prevent.
- `FailureIsUndone`: a failing handler whose rollback was answered leaves no trace, whether or not its failed
  calls were executed. Excepted: the handler itself `overtaken` or `disturbed`.
- `SuccessIsKept`: a reported success is in effect and stays. Excepted: a handler `disturbed`, and a Delete whose
  own timer fired, which is finding 5.

The properties of `lifecycle`:

- `AppliedAsPlanned`: a Create or Update that reports success saved a known value, the planned one where
  there was one (otherwise Terraform aborts with "inconsistent result after apply").
- `ConfigReachesServer`, `UnmanagedLeftAlone`, `UnsetGetsServerDefault`: after a success the appliance holds
  what is configured, what it held before, or its own default.
- `NoDiffAfterApply`, `QuietMeansInSync`: after a success the next plan is empty; and an empty plan means
  appliance and configuration agree, whatever failed on the way there.
- `NoNeedlessReplace`: an object that is as configured is not destroyed because of a spelling.
- `NoSilentOrphan`, `RecordedOnceCreated`: an object Terraform made is in the state, or an error said
  otherwise; `vm` and `container` record it even then.
- `RemovedIsReset`: a value that was configured, applied and removed is back at its default after the
  next successful apply.

**Why the bounds are enough.** Two websockets give a loss, a re-dial and a late answer of the old
connection, and three give two callers that might each open one; two callers give every race for the slot, for `reconnectMu` and for a dying
connection; further ones repeat these. One login retry and one reconnect retry show both the
repeated and the exhausted loop. Two misses in a row distinguish "not yet" from "given up"; one
restart is what makes a job disappear. Two handlers are what `stagingMu` is about. In
`lifecycle` two values, zero, null and a second spelling are all that rules and modifiers can tell
apart; attributes with the same kind and the same rules in the same handlers behave alike, so
one of each is followed: 986 attributes of 86 resources, 370 profiles. Nothing bounds the length of a life: the state
space is finite and searched to the end. Bounds are
CONSTANTS: `MaxConns`, `MaxPings`, `MaxCloses`, `MaxJobs`, `MaxRestarts`, `MaxLate`; the other
numbers are the code's own (`MaxInFlight`, `DialRetries`, `ReconnectRetries`, `MaxMisses`,
`ReadRetries`) at small values. The proofs leave all of them arbitrary.

**Deadlock** is not checked: the system stops when every operation has returned, and nobody has to
run Terraform. Liveness is stated instead where something must go on.

**Fairness.** `WSClient`: weak fairness of every goroutine and every reader, which Go's scheduler,
its starvation-free mutexes and its timers give; nothing is assumed of the server or the network.
`Jobs`: weak fairness of every operation, and of the end of every job on the server, because
`waitJob` has no limit of its own. `InterfaceStaging` and `Lifecycle` state no liveness: a user decides
whether anything happens next.

## Findings

1. `auth_loss`: dialOnce's comment calls its test for a dropped connection reliable. It is for a
   login that was waiting (`LossIsMarked`, proved), not for one whose write fails.
2. `server_load`: the limiter bounds the calls that are being waited for (`OutstandingBounded`
   holds), not the ones the server executes.
3. `jobs_plain`: without metadata, a plain integer that equals a listed job's id is waited for.
4. `fs_serial`: the lock serializes the calls, not the jobs; `FsHeldUntilOver` says exactly when
   it does.
5. `staging_success`: the comments say a checkin that gets through proves that the change stays. One that the server
   executes after the timer has fired cancels nothing and succeeds. Create and Update read the interface back and
   notice; Delete does not, reports success, and the interface is back.
6. `unset_defaults`: `port`, `username` and `connect_timeout` of a new SSH connection, and `enabled` of a new web
   share, are unknown in the plan when unset (`ResetWhenUnset` gives no default on create), and their
   payload builders send the Go zero value. The changelog and the schemas say 22, "root", 10 and true.

## Proofs

TLAPS checks every theorem to the last leaf. A theorem holds for every value of the constants that
meets the named assumptions; those only say what the constants are (the goroutines are distinct, counts
are naturals, `None` is no operation and no configuration, the special values of an attribute differ
from each other and from the ordinary ones), except `CatalogAssumption`, described above. No invariant
of the runs is inductive alone; the strengthenings below were checked by TLC on the runs' instances before
they were proved.

| Theorem | States | Run |
|---|---|---|
| `WSClientProofs`: `TypeCorrect`, `NobodyIsLeftWaiting`, `ReadersNeverBlock`, `OnlyUsableIsPublished`, `NeverTwoSessions`, `LossAlwaysMarked` | `TypeOK`, `NoLostWaiter`, `ReaderNeverBlocks`, `PublishedIsUsable`, `OneSession`, `LossIsMarked` | `client_calls`, `client_faults` |
| `WSClientRefinement`: `CallRefinesPromise` | `CallKeepsPromise`: `WSClient` implements `RPC` | `client_calls` |
| `WSClientSlots`: `OutstandingIsBounded` | `OutstandingBounded` | `client_faults` |
| `JobsProofs`: `TypeCorrect`, `KnownOutcomesAreTrue`, `SentAtMostOnce`, `FsMutexHeldUntilOver`, `MethodsFetchedOnce` | `TypeOK`, `KnownJobOutcomeIsTrue`, `MutationSentOnce`, `FsHeldUntilOver`, `FetchedOnce` | `jobs` |
| `JobsProofs`: `FsExclusion`, `FsJobsSerialUnlessErrors` | at most one permission operation is between its lock and its unlock; and no two of their jobs run at once as long as every operation that returned had its job's result | |
| `InterfaceStagingProofs`: `TypeCorrect`, `ChangesStayApart`, `FailuresAreUndone`, `SuccessesAreKept` | `TypeOK`, `StagedApart`, `FailureIsUndone`, `SuccessIsKept` | `staging` |
| `LifecycleProofs`: `TypeCorrect`, `RecordedAtOnce`, `NothingLostSilently` | `TypeOK`, `RecordedOnceCreated`, `NoSilentOrphan` (without `Restarts`) | `lifecycle` |
| `LifecycleProofs`: `AppliesAreKnown` | a Create or Update that reports success saved a known value: half of `AppliedAsPlanned` | |
| `LifecycleValues`: `ResultIsPlanned`, `ConfigIsDelivered`, `UnmanagedIsSpared`, `UnsetIsLeftOut` | `AppliedAsPlanned`, `ConfigReachesServer`, `UnmanagedLeftAlone`, `UnsetGetsServerDefault`, each for the attributes of a class | `lifecycle` |
| `LifecycleValues`: `AppliedPlansNothing`, `QuietIsInSync`, `SpellingReplacesNothing`, `RemovedIsPutBack` | `NoDiffAfterApply`, `QuietMeansInSync`, `NoNeedlessReplace`, `RemovedIsReset`, likewise | `lifecycle` |

**WSClient.**

- `Places`: which goroutine can be where; without it the keepalive might dial.
- `IdsInv`: a goroutine has an id exactly while its send is registered, and ids are unique.
  `PendingInv`: an entry belongs to its goroutine's current send, which has no answer yet, on a
  connection not marked closed. `HandInv`: a response on its way has left `pending`, and one reader
  has it. `RegisteredInv`: a registered send has its answer, or one on the way, or its entry. The
  four together (`SendInv`) are inductive and give `NoLostWaiter` and `ReaderNeverBlocks`: a value
  goes into a channel only with the removal of its entry or from the hand, never twice.
- `ConnInv`: websockets are opened in order. `DialInv`: who dials holds `reconnectMu`, or is
  `Connect` before anybody else runs, and nothing is published meanwhile. `LiveInv`: an open
  websocket that is being read is the published one or belongs to the one who dials. These give
  `OneSession`.
- `AuthInv`: a successful login on its way to its goroutine was made on that goroutine's own
  websocket, so what `Publish` publishes is logged in: `PublishedIsUsable`.
- Refinement. `PromiseInv` says where the one request of a caller is: not written (`Unwritten`, `Unsent`),
  then never executed; at one place on its way to the server; executed, then nowhere on its way
  (`NoRequest`); and an answer in the caller's hands or coming (`Answered`, `AnswerComes`) means executed.
  With it every step of `WSClient` is a step of `RPC` or changes nothing of what `RPC` sees, under the mapping
  `Phase`, `Out`, `applied`.
- Slots. `SlotsInv`: never more than `MaxInFlight` holders. `HolderInv`: who is inside `Call` or a keepalive
  ping holds a slot. By `PendingInv` the pending entries map one to one into the holders (or are the single
  one of `Connect`), hence `OutstandingBounded`.

Frame lemmas (`QuietPreserves`, `OverPreserves`, `AuthQuietPreserves`) treat the many actions that
touch nothing of an invariant together; each remaining action has a lemma or a step of its own.

**Jobs.** `CallInv`: an operation sends at most once, and only in its call. `MethodsInv`: the metadata is
fetched by the holder of `jobMethodsMu`, once. `MutexInv`: `fsMutationMu` is held from call to return.
`OwnerInv` and `RawInv` tie a job to the operation that started it: the integer an operation waits for is the
id of its own job, or the operation failed in the call. `WaitInv` and `OutcomeInv` follow that through the wait,
so an outcome is the outcome of one's own job. A method that is no job may return any integer, which is why
`KnownJobOutcomeIsTrue` needs the metadata (finding 3).

**InterfaceStaging.** `HandlerInv`: locks and outcomes. `LateInv`: a request is given up only by a handler that goes
on to fail. `TimerInv`: the timer belongs to a handler whose commit was executed. `ProgressInv` says what the
interface of a handler is at each of its labels, for every handler whose open change nobody got at and none of
whose requests came after its return: as before (`Neutral`), staged with the configuration to go back to intact
(`Staged`), in effect and not kept (`Committed`), or in effect for good (`Kept`). A failed call leaves open which;
a rollback or the timer ends in `Neutral` from all of the first three. This gives `FailureIsUndone` and
`SuccessIsKept`. `ApartInv`: until a handler returns with a change left behind or a request comes after its
handler's return (`Calm`), only the holder of `stagingMu` has a change open or a timer running, and it leaves
neither behind; this gives `StagedApart`.

**Lifecycle.** The invariant `IInv` is `CoreInv` and, without `Restarts`, `AskInv` and `OrphanInv`. Its parts:
`Typed` and `PcInv` (the handler is at one of its steps; an error ends it), `CalledInv` (which handler runs for
which state), `ModelInv` (there is a model to save and a response to take when a step needs one),
`KnownInv` (an unknown value is only where the schema allows it, until a response is taken),
`RecordInv` (between the answer that tells of a new `vm` and its record nothing can fail), `AskInv` (who is told
that Docker runs after a not-found may conclude that the app is gone) and `OrphanInv`. The argument for
`NoSilentOrphan`: a Create that ends without error has a Save behind it; a Read forgets only what
does not exist; a Delete ends without error only past its delete; everything else ended with an error, which
was told. The proofs use the catalog only through `WellFormed`, so they hold for any resource
written in this style. Lemmas on the way: `PlannedTyped` (what the modifiers make of a plan has its type
and is unknown only where `MayBeUnknown` says so; over any sequence of modifiers, by the
least position at which it would fail), `SentTyped` and `TakenTyped` (every rule of payloads and responses),
`EarlierNext`, `AtStep` and others on positions in a handler, and `ForwardKeeps`, `AbortKeeps`, `StopKeeps`, `ReturnKeeps`,
`CallKeeps`, which treat alike the many steps that advance, fail, return or start a handler.

**Lifecycle, values.** What happens to a value depends on how schema, payload, response and modifiers of its
attribute fit together. A catalog where they do not fit breaks the properties about values, so those cannot be
theorems about every catalog. They are theorems about every attribute of every catalog whose entry meets a
condition that can be read off the entry without running it. `LifecycleClasses` defines the conditions; they
are what a reviewer would ask of a new resource.

| Class | An attribute belongs to it when | Theorem |
|---|---|---|
| `Mirrored` | every handler saves only what a response has shown after its last call, by a rule that shows what the appliance holds (`Showing`); Update makes no call after a save; and no Read depends on a daemon | `QuietIsInSync` |
| `Delivered` | the last call of Create that mentions it sends every configured value (but for a zero that the server starts from), and so does that of Update; or it is mirrored and Update sends what differs from the state, or replaces instead | `ConfigIsDelivered` |
| `Spared`, `Untouched` | it is mirrored and every call of Update sends what the state has, or nothing; or no call mentions it | `UnmanagedIsSpared` |
| `LeftOut` | no call of Create sends anything of an unknown value, or zero is the server's default | `UnsetIsLeftOut` |
| `Respellable` | with `RequiresReplace`, no response turns zero into null; and a modifier that compares texts has `KeepStateIfEquivalent` beside it, when there are several spellings | `SpellingReplacesNothing` (with `Mirrored`) |
| `Reset` | Create marks it as owned, Reads keep the mark, and the last call of Update that mentions it sends what is planned | `RemovedIsPutBack` |
| `Steady` | it is mirrored; when it can be configured, it is delivered, and shown as it is (or zero cannot be configured); computed, without a schema default, when it can be left out; a modifier that resets it knows from a mark who owns it | `AppliedPlansNothing` |
| `Echoed` | it is mirrored, and shown as it is; something always provides a value (configuration, default or appliance); what the configuration, the default or a modifier provides is sent; several spellings have a custom type | `ResultIsPlanned` |

They are no empty hypotheses: `ClassesCover`, an assumption that TLC evaluates in the run `lifecycle`, says
that they hold most of the provider's profiles. Of the 370 profiles, 269 are `Mirrored`, 202 `Echoed`, 229
`Steady`. Of the 258 that can be configured and are settings of the object, 220 are `Delivered`; without the
write-only ones 257, of which 212 are `Mirrored`. Of the 228 that may be left to the appliance, 212 are
`Spared` or `Untouched` and 222 `LeftOut`. 46 of the 62 that may ask for a replacement are `Mirrored` and
`Respellable`. All 14 that are reset when they are no longer configured are `Reset`. TLC's search covers the
rest.

`LifecyclePlans` has the lemmas on the words of the catalog. `Setting` is what a value means to the appliance:
another spelling is the same setting, and so are null and zero (`SameSetting`). `TakenIsView` and
`ViewSetting` say what a response makes of it, `SentDelivers`, `SentCompares`, `SentSpares`, `SentSilent`,
`SentForwards` and others what a call sends of it. The modifiers run over a plan in any sequence:
`ModifiersKeep` shows, by the least position where it would fail, that what each of them keeps all of them
keep, and what one brings about and the others keep holds of the plan. From it follow what is planned of a
configured value (`PlannedConfigured`), of one no longer configured (`PlannedReset`), of one that is not
(`PlannedUnset`), which plans ask for no replacement (`PlannedInPlace`) and which change nothing
(`PlannedEquivalent`, `PlannedWritten`, `PlannedQuiet`).

`LifecycleValues` has two inductive invariants on top of `CoreInv`. `ValuesInv` is about a handler on its way:

- `PlanInv`: the plan that Terraform hands to a Create or Update still is the configured value, is unknown
  only where the modifiers allow it, and in an Update is a change the modifiers did not turn into a
  replacement.
- `SendInv`, over every set `S` of values: if the last call behind the handler that does not leave `S` alone
  leads into it, the appliance holds a value of `S`. With `S` the spellings of the configured value, of the
  one before, or of the default, this is how the rules of single calls add up to what a whole handler does.
- `MirrorInv`: the model shows the appliance from a response to the next call, what was saved shows it
  likewise, and an untainted state that is not `stale` shows what the appliance holds, or held when the
  running handler was called. A failed Update returns the prior state; that this is still sound is why taint
  and `stale` are in the invariant.
- `MarkInv`: Terraform's mark on an owned value arrives with every handler's result. `HandlerInv` and
  `GivenInv`: what a handler was given, and has saved before its first save.

`OutcomeInv` is about what is left behind: `UnsetInv` (what may be planned of a value that is not configured),
`SpeltInv` (the planned spelling survives a save), `AnsweredInv` (a refresh of a mirrored attribute hides
nothing) and `SettledInv` (after a success, and until something changes or fails, the appliance has what is
configured, and nothing is marked that is not). Every step of the machine is of one of five kinds (`AnyStep`),
and within a handler that has not failed of one of nine (`HandlingStep`), which is what keeps each invariant
to one lemma. TLC checked all parts on the whole catalog, for all attributes of each class, before they were
proved.

**Only model-checked.** The liveness properties `EveryCallReturns` and `EveryJobCallReturns`: fairness and
ENABLED are outside the prover's reach. The eight properties about values, for the attributes outside the
classes, which are claims about the concrete catalog; it has no parameter, and TLC's search of it is complete.
These attributes are: secrets and others that no response shows (nothing in the state tells whether they are
in sync; their properties rest on `stale`); what `app` keeps, whose Read depends on Docker; responses with
rules that show a value only under a condition (`ifUnknown`, `ifRead`, `unlessRedacted`), so that the state is
partly what was sent; for `Echoed` also pointers and `nullIfZero`, and for `Steady` those where zero can be
configured, which need null and zero to stay apart on the whole way; for both, optional attributes that are
null when left out, and for `Steady` schema defaults; and the deviations listed above.

## Not modelled

- The contents of requests and responses, JSON parsing beyond "parses or not", log texts, TLS and the
  cryptography of SCRAM. `New`'s options only choose `MaxInFlight`. The idle limit of the keepalive is
  a tick that does nothing.
- Login retries and their limits (`auth.go`), the cache of shared clients and of the server version:
  little state, no interaction that the client model does not already have.
- Actions: each is one call or one job, without Terraform state.
- Data sources and list resources: one read and a conversion each. State upgrades: functions of one
  stored document. Test code and developer tools.
- In `Lifecycle`: dependencies between attributes other than "follows", the inside of nested objects
  and lists (one value each, unless a resource sends their members separately), validators, what
  makes two texts equivalent, identities. The order of blockers and settling in the deletion of a
  dataset: a check that may refuse, before a delete that may fail.

## Plan

1. Larger classes for the theorems of `LifecycleValues`: `Echoed` and `Steady` with pointers and with schema defaults, and
   values that only some responses show.
2. `Auth`: `WithRetry` with its two limits, `AuthAPIKeyAuto`, `sharedClient` and `ServerVersion`.
3. Pure algorithms against reference definitions: `versionAtLeast`, list reordering and JSON projection
   of `internal/normalize`.
