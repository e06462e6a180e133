-------------------------------- MODULE Jobs --------------------------------
(***************************************************************************)
(* CallRead, CallJob, waitJob, methodIsJob and CallFilesystemMutation      *)
(* (internal/client/callread.go, internal/client/jobs.go) on top of        *)
(* Client.Call, of which only the promise of module RPC is used: a         *)
(* mutating call is answered, or it fails and may have been executed.      *)
(* The server runs jobs, lists them in core.get_jobs, and forgets them     *)
(* when its middleware restarts.                                           *)
(***************************************************************************)
EXTENDS Naturals, FiniteSets

CONSTANTS
    Ops,           \* invocations of CallJob or CallFilesystemMutation
    Kinds,         \* the mixes of "fs", "job" and "plain" operations considered
    None,
    MaxJobs,       \* bound: job ids; small object ids collide with them
    MaxMisses,     \* maxJobPollMisses
    ReadRetries,   \* len(readRetryDelays)
    MaxRestarts    \* bound: middleware restarts

ASSUME JobsAssumption ==
    /\ Kinds \subseteq [Ops -> {"fs", "job", "plain"}]
    /\ None \notin Ops
    /\ MaxJobs \in Nat /\ MaxMisses \in Nat \ {0} /\ ReadRetries \in Nat /\ MaxRestarts \in Nat

JobIds == 1 .. MaxJobs

VARIABLES
    kind,      \* "fs": through CallFilesystemMutation; "plain": its method is no job here
    pc,        \* where an operation is
    att,       \* attempt of its current CallRead
    misses,    \* polls that did not list its job, in a row
    known,     \* methodIsJob's second result
    raw,       \* the integer its call returned; 0: none, or not an integer
    out,       \* what it returned
    cancelled, \* its context
    fsMu,      \* holder of fsMutationMu
    jmMu,      \* holder of jobMethodsMu
    cached,    \* jobMethods holds the service's methods
    fetches,   \* successful core.get_methods calls
    \* the server
    sent,      \* how often it executed an operation's method
    job,       \* state of a job, "none" when the id is unused
    listed,    \* core.get_jobs knows the job
    owner,     \* the operation that started it, None for somebody else's
    late,      \* operations whose call was given up and may still be executed
    restarts

opVars     == <<kind, pc, att, misses, known, raw, out, cancelled>>
lockVars   == <<fsMu, jmMu, cached, fetches>>
serverVars == <<sent, job, listed, owner, late, restarts>>
vars == <<opVars, lockVars, serverVars>>

Errors == {"callerr", "failed", "notfound", "pollerr", "ctx"}

TypeOK ==
    /\ kind \in Kinds
    /\ pc \in [Ops -> {"start", "call", "meta", "fetch", "tick", "poll", "return", "done"}]
    /\ att \in [Ops -> 0 .. ReadRetries]
    /\ misses \in [Ops -> 0 .. MaxMisses]
    /\ known \in [Ops -> BOOLEAN]
    /\ raw \in [Ops -> 0 .. MaxJobs]
    /\ out \in [Ops -> {"none", "raw", "result"} \cup Errors]
    /\ cancelled \in [Ops -> BOOLEAN]
    /\ fsMu \in Ops \cup {None}
    /\ jmMu \in Ops \cup {None}
    /\ cached \in BOOLEAN
    /\ fetches \in Nat
    /\ sent \in [Ops -> Nat]
    /\ job \in [JobIds -> {"none", "RUNNING", "SUCCESS", "FAILED"}]
    /\ listed \in [JobIds -> BOOLEAN]
    /\ owner \in [JobIds -> Ops \cup {None}]
    /\ late \subseteq Ops
    /\ restarts \in 0 .. MaxRestarts

\* Job 1 is somebody else's: a scrub, an update.
Init ==
    /\ kind \in Kinds
    /\ pc = [o \in Ops |-> "start"]
    /\ att = [o \in Ops |-> 0]
    /\ misses = [o \in Ops |-> 0]
    /\ known = [o \in Ops |-> FALSE]
    /\ raw = [o \in Ops |-> 0]
    /\ out = [o \in Ops |-> "none"]
    /\ cancelled = [o \in Ops |-> FALSE]
    /\ fsMu = None /\ jmMu = None /\ cached = FALSE /\ fetches = 0
    /\ sent = [o \in Ops |-> 0]
    /\ job = [j \in JobIds |-> IF j = 1 THEN "RUNNING" ELSE "none"]
    /\ listed = [j \in JobIds |-> j = 1]
    /\ owner = [j \in JobIds |-> None]
    /\ late = {} /\ restarts = 0

(***************************************************************************)
(* Helpers.                                                                *)
(***************************************************************************)
Goto(o, l) == pc' = [pc EXCEPT ![o] = l]

\* o is about to return r.
Returns(o, r) == Goto(o, "return") /\ out' = [out EXCEPT ![o] = r]

\* The next job id: they are handed out in order and never again.
FreeJobs == {j \in 2 .. MaxJobs : job[j] = "none" /\ \A i \in 2 .. (j - 1) : job[i] # "none"}

\* The server starts o's job as job j.
Starts(o, j) ==
    /\ job' = [job EXCEPT ![j] = "RUNNING"]
    /\ listed' = [listed EXCEPT ![j] = TRUE]
    /\ owner' = [owner EXCEPT ![j] = o]

\* An attempt of CallRead fails with a transient error and is repeated after a
\* backoff, which a cancelled context ends.  Any other failure is final, and
\* so is the last attempt's.
CallRead(o) ==
    /\ pc[o] \in {"fetch", "poll"}
    /\ att[o] < ReadRetries /\ ~cancelled[o]
    /\ att' = [att EXCEPT ![o] = @ + 1]
    /\ UNCHANGED <<kind, pc, misses, known, raw, out, cancelled, lockVars, serverVars>>

\* CallRead is over; the next one starts at its first attempt.
Answers(o) == att' = [att EXCEPT ![o] = 0]

(***************************************************************************)
(* CallFilesystemMutation and CallJob.                                     *)
(***************************************************************************)
\* Take fsMutationMu, or start right away.
Start(o) ==
    /\ pc[o] = "start"
    /\ IF kind[o] = "fs" THEN fsMu = None /\ fsMu' = o ELSE UNCHANGED fsMu
    /\ Goto(o, "call")
    /\ UNCHANGED <<kind, att, misses, known, raw, out, cancelled, jmMu, cached, fetches, serverVars>>

\* Mutant: fsMutationMu is released as soon as the job has been submitted.
CallAnswered_Unlocks(o) ==
    /\ pc[o] = "call"
    /\ sent' = [sent EXCEPT ![o] = @ + 1]
    /\ IF kind[o] = "plain"
       THEN /\ \E r \in 0 .. MaxJobs : raw' = [raw EXCEPT ![o] = r]
            /\ UNCHANGED <<job, listed, owner>>
       ELSE \E j \in FreeJobs : raw' = [raw EXCEPT ![o] = j] /\ Starts(o, j)
    /\ Goto(o, "meta")
    /\ fsMu' = IF fsMu = o THEN None ELSE fsMu
    /\ UNCHANGED <<kind, att, misses, known, out, cancelled, jmMu, cached, fetches, late, restarts>>

\* The call is answered: with a job id, or with a plain method's own result,
\* which may be any small integer.
CallAnswered(o) ==
    /\ pc[o] = "call"
    /\ sent' = [sent EXCEPT ![o] = @ + 1]
    /\ IF kind[o] = "plain"
       THEN /\ \E r \in 0 .. MaxJobs : raw' = [raw EXCEPT ![o] = r]
            /\ UNCHANGED <<job, listed, owner>>
       ELSE \E j \in FreeJobs : raw' = [raw EXCEPT ![o] = j] /\ Starts(o, j)
    /\ Goto(o, "meta")
    /\ UNCHANGED <<kind, att, misses, known, out, cancelled, lockVars, late, restarts>>

\* Mutant: the mutating call is repeated the way CallRead repeats a read.
CallFails_Resends(o) ==
    /\ pc[o] = "call"
    /\ sent[o] < 2
    /\ sent' = [sent EXCEPT ![o] = @ + 1]
    /\ UNCHANGED <<opVars, lockVars, job, listed, owner, late, restarts>>

\* The server executes o's method without an answer: a job method starts its job.
Executes(o) ==
    /\ sent' = [sent EXCEPT ![o] = @ + 1]
    /\ IF kind[o] = "plain" THEN UNCHANGED <<job, listed, owner>>
                             ELSE \E j \in FreeJobs : Starts(o, j)

\* The call fails: refused or never sent, lost after the server executed it, or
\* given up while the server has still to execute it.  It is not sent again.
CallFails(o) ==
    /\ pc[o] = "call"
    /\ \/ UNCHANGED <<sent, job, listed, owner, late>>
       \/ Executes(o) /\ UNCHANGED late
       \/ late' = late \cup {o} /\ UNCHANGED <<sent, job, listed, owner>>
    /\ Returns(o, "callerr")
    /\ UNCHANGED <<kind, att, misses, known, raw, cancelled, lockVars, restarts>>

\* What CallJob does with the answer once methodIsJob has said whether it
\* knows the method: core.get_methods may not list it.
Dispatch(o, knows) ==
    /\ known' = [known EXCEPT ![o] = knows]
    /\ IF (knows /\ kind[o] = "plain") \/ raw[o] = 0
       THEN Returns(o, "raw")
       ELSE Goto(o, "tick") /\ UNCHANGED out

(***************************************************************************)
(* methodIsJob: jobMethodsMu is held across the read of core.get_methods.  *)
(***************************************************************************)
MethodCached(o) ==
    /\ pc[o] = "meta" /\ jmMu = None /\ cached
    /\ \E lists \in BOOLEAN : Dispatch(o, lists)
    /\ UNCHANGED <<kind, att, misses, raw, cancelled, lockVars, serverVars>>

\* Mutant: jobMethodsMu guards the map only, not the fetch.
MethodFetch_Unlocked(o) ==
    /\ pc[o] = "meta" /\ ~cached
    /\ Goto(o, "fetch")
    /\ UNCHANGED <<kind, att, misses, known, raw, out, cancelled, lockVars, serverVars>>

MethodFetch(o) ==
    /\ pc[o] = "meta" /\ jmMu = None /\ ~cached
    /\ jmMu' = o
    /\ Goto(o, "fetch")
    /\ UNCHANGED <<kind, att, misses, known, raw, out, cancelled, fsMu, cached, fetches, serverVars>>

FetchAnswered(o) ==
    /\ pc[o] = "fetch"
    /\ cached' = TRUE
    /\ fetches' = fetches + 1
    /\ jmMu' = None
    /\ \E lists \in BOOLEAN : Dispatch(o, lists)
    /\ Answers(o)
    /\ UNCHANGED <<kind, misses, raw, cancelled, fsMu, serverVars>>

\* The failure is not cached: a later call may succeed.
FetchFails(o) ==
    /\ pc[o] = "fetch"
    /\ jmMu' = None
    /\ Dispatch(o, FALSE)
    /\ Answers(o)
    /\ UNCHANGED <<kind, misses, raw, cancelled, fsMu, cached, fetches, serverVars>>

(***************************************************************************)
(* waitJob.                                                                *)
(***************************************************************************)
\* The ticker fires, or the context is done.
Tick(o) ==
    /\ pc[o] = "tick"
    /\ \/ Goto(o, "poll") /\ UNCHANGED out
       \/ cancelled[o] /\ Returns(o, "ctx")
    /\ UNCHANGED <<kind, att, misses, known, raw, cancelled, lockVars, serverVars>>

\* Mutant: only SUCCESS ends the wait.
PollFinds_NoFailed(o) ==
    /\ pc[o] = "poll" /\ listed[raw[o]]
    /\ misses' = [misses EXCEPT ![o] = 0]
    /\ IF job[raw[o]] = "SUCCESS" THEN Returns(o, "result") ELSE Goto(o, "tick") /\ UNCHANGED out
    /\ Answers(o)
    /\ UNCHANGED <<kind, known, raw, cancelled, lockVars, serverVars>>

\* core.get_jobs lists the job.
PollFinds(o) ==
    /\ pc[o] = "poll" /\ listed[raw[o]]
    /\ misses' = [misses EXCEPT ![o] = 0]
    /\ CASE job[raw[o]] = "SUCCESS" -> Returns(o, "result")
         [] job[raw[o]] = "FAILED"  -> Returns(o, "failed")
         [] OTHER                   -> Goto(o, "tick") /\ UNCHANGED out
    /\ Answers(o)
    /\ UNCHANGED <<kind, known, raw, cancelled, lockVars, serverVars>>

\* Mutant: a job that is not found is taken for a plain result, always.
PollMisses_IgnoresKnown(o) ==
    /\ pc[o] = "poll"
    /\ misses' = [misses EXCEPT ![o] = @ + 1]
    /\ IF misses[o] + 1 < MaxMisses
       THEN Goto(o, "tick") /\ UNCHANGED out
       ELSE Returns(o, "raw")
    /\ Answers(o)
    /\ UNCHANGED <<kind, known, raw, cancelled, lockVars, serverVars>>

\* Mutant: one poll too many before it gives up.
PollMisses_OffByOne(o) ==
    /\ pc[o] = "poll"
    /\ misses' = [misses EXCEPT ![o] = @ + 1]
    /\ IF misses[o] < MaxMisses
       THEN Goto(o, "tick") /\ UNCHANGED out
       ELSE Returns(o, IF known[o] THEN "notfound" ELSE "raw")
    /\ Answers(o)
    /\ UNCHANGED <<kind, known, raw, cancelled, lockVars, serverVars>>

\* core.get_jobs does not list it, or its answer does not decode, listed or not:
\* after MaxMisses such polls in a row the integer was no job id, unless the
\* metadata said that the method is a job.
PollMisses(o) ==
    /\ pc[o] = "poll"
    /\ misses' = [misses EXCEPT ![o] = @ + 1]
    /\ IF misses[o] + 1 < MaxMisses
       THEN Goto(o, "tick") /\ UNCHANGED out
       ELSE Returns(o, IF known[o] THEN "notfound" ELSE "raw")
    /\ Answers(o)
    /\ UNCHANGED <<kind, known, raw, cancelled, lockVars, serverVars>>

PollFails(o) ==
    /\ pc[o] = "poll"
    /\ Returns(o, "pollerr")
    /\ Answers(o)
    /\ UNCHANGED <<kind, misses, known, raw, cancelled, lockVars, serverVars>>

\* The operation returns and gives fsMutationMu back.
Finish(o) ==
    /\ pc[o] = "return"
    /\ Goto(o, "done")
    /\ fsMu' = IF fsMu = o THEN None ELSE fsMu
    /\ UNCHANGED <<kind, att, misses, known, raw, out, cancelled, jmMu, cached, fetches, serverVars>>

(***************************************************************************)
(* The server, and Terraform.                                              *)
(***************************************************************************)
JobEnds(j) ==
    /\ job[j] = "RUNNING"
    /\ \E s \in {"SUCCESS", "FAILED"} : job' = [job EXCEPT ![j] = s]
    /\ UNCHANGED <<opVars, lockVars, sent, listed, owner, late, restarts>>

\* The middleware restarts: running jobs die and the list is lost.
Restart ==
    /\ restarts < MaxRestarts
    /\ restarts' = restarts + 1
    /\ job' = [j \in JobIds |-> IF job[j] = "RUNNING" THEN "FAILED" ELSE job[j]]
    /\ listed' = [j \in JobIds |-> FALSE]
    /\ UNCHANGED <<opVars, lockVars, sent, owner, late>>

\* The server executes a call that its caller has given up.
LateCall(o) ==
    /\ o \in late
    /\ late' = late \ {o}
    /\ Executes(o)
    /\ UNCHANGED <<opVars, lockVars, restarts>>

Cancel(o) ==
    /\ ~cancelled[o] /\ pc[o] \notin {"return", "done"}
    /\ cancelled' = [cancelled EXCEPT ![o] = TRUE]
    /\ UNCHANGED <<kind, pc, att, misses, known, raw, out, lockVars, serverVars>>

OpStep(o) ==
    \/ Start(o) \/ CallAnswered(o) \/ CallFails(o)
    \/ MethodCached(o) \/ MethodFetch(o) \/ FetchAnswered(o) \/ FetchFails(o)
    \/ Tick(o) \/ PollFinds(o) \/ PollMisses(o) \/ PollFails(o)
    \/ CallRead(o) \/ Finish(o)

Next ==
    \/ \E o \in Ops : OpStep(o) \/ Cancel(o) \/ LateCall(o)
    \/ \E j \in JobIds : JobEnds(j)
    \/ Restart

Spec == Init /\ [][Next]_vars

\* The provider's goroutines run, and every job on the server ends.
FairSpec ==
    /\ Spec
    /\ \A o \in Ops : WF_vars(OpStep(o))
    /\ \A j \in JobIds : WF_vars(JobEnds(j))

(***************************************************************************)
(* Properties.                                                             *)
(***************************************************************************)
\* CallJob/waitJob: when the server's metadata says that the method is a job,
\* success is reported only for o's own job and only once that job succeeded,
\* a job failure only when that job failed, and a job id is never handed back
\* as if it were the result; when it says that the method is no job, its result
\* is, even if it equals a live job's id.  That holds whatever restarts, lost
\* polls and cancellations happen meanwhile.
KnownJobOutcomeIsTrue ==
    \A o \in Ops :
        known[o] /\ pc[o] \in {"return", "done"} =>
            /\ out[o] = "raw" <=> kind[o] = "plain"
            /\ out[o] = "result" => \E j \in JobIds : owner[j] = o /\ job[j] = "SUCCESS"
            /\ out[o] = "failed" => \E j \in JobIds : owner[j] = o /\ job[j] = "FAILED"

\* CallJob: the mutating call itself is never sent twice; only reads of the
\* metadata and of the job are repeated.
MutationSentOnce == \A o \in Ops : sent[o] <= 1

\* CallFilesystemMutation: a permission or ACL job still running on the server
\* belongs to the holder of fsMutationMu, unless its call ended in an error.
FsHeldUntilOver ==
    \A j \in JobIds :
        job[j] = "RUNNING" /\ owner[j] # None /\ kind[owner[j]] = "fs" =>
            \/ fsMu = owner[j]
            \/ out[owner[j]] \in Errors
            \/ out[owner[j]] = "raw" /\ ~known[owner[j]]

\* methodIsJob: the metadata of a service is fetched at most once per client,
\* however many operations ask for it at the same time and however often the
\* fetch failed before.
FetchedOnce == fetches <= 1

\* Every operation returns, provided that jobs on the server end.
EveryJobCallReturns == \A o \in Ops : pc[o] = "call" ~> pc[o] = "done"

\* CallJob's comment on its fallback: "If that int was really an object id,
\* core.get_jobs never returns a matching entry", so the plain result of a
\* method that is no job is returned as it is.
PlainResultIsRaw ==
    \A o \in Ops : kind[o] = "plain" => out[o] \notin {"result", "failed"}

\* MIDDLEWARE-FINDINGS.md on CallFilesystemMutation: "these mutations never run
\* concurrently within a Terraform apply".
FsMutationsSerial ==
    Cardinality({j \in JobIds : job[j] = "RUNNING" /\ owner[j] # None /\ kind[owner[j]] = "fs"}) <= 1
=============================================================================
