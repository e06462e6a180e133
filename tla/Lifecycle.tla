----------------------------- MODULE Lifecycle -----------------------------
(***************************************************************************)
(* One attribute of one managed object, through every Terraform operation  *)
(* the provider's resources serve: plan, create, read, update, delete,     *)
(* replace and import, in any order, with edits of the configuration,      *)
(* changes made to the appliance by others, and calls that fail before or  *)
(* after they took effect.                                                 *)
(*                                                                         *)
(* The handlers and schemas are data: Resources maps a resource type to    *)
(* its catalog entry (module Catalog), and the machine executes the        *)
(* entry's steps.  A behaviour follows one attribute; what the other       *)
(* attributes do is the choice "others" of Apply.  Attributes with the     *)
(* same kind and the same rules behave alike, so one of each suffices.     *)
(*                                                                         *)
(* Terraform core and the plugin framework are external: what they do with *)
(* plans, states and private data is modelled from how the provider's code *)
(* relies on it.                                                           *)
(***************************************************************************)
EXTENDS Steps, FiniteSets, SequencesExt

CONSTANTS Resources,           \* resource type -> catalog entry
          Restarts,            \* the daemon may come up or go down during a handler
          Value,               \* the nonzero values an attribute can have
          Null, Unknown, Zero, \* null, not known until apply, "" or 0 or false
          None,                \* no object, no state, not configured
          Omit                 \* left out of a payload

(* An attribute may have other spellings, which the server turns into its  *)
(* own: one value has two.                                                 *)
Some == CHOOSE v \in Value : TRUE
Respelt(v) == [of |-> v]

ASSUME SpecialValues ==
  /\ Restarts \in BOOLEAN
  /\ Value # {}
  /\ Null \notin {Unknown, Zero, None, Omit} /\ Unknown \notin {Zero, None, Omit}
  /\ Zero \notin {None, Omit} /\ None # Omit
  /\ Value \cap {Null, Unknown, Zero, None, Omit} = {}
  /\ Respelt(Some) \notin Value \cup {Null, Unknown, Zero, None, Omit}

VARIABLES
  profile,  \* what the catalog says of the attribute followed
  base,     \* the value the server gives the attribute by itself
  cfg,      \* the attribute in the configuration; None: the block is not there
  srv,      \* the attribute on the appliance; None: the object does not exist
  st,       \* the attribute in the Terraform state; None: not in the state
  tainted,  \* the object in the state is to be replaced
  mark,     \* private data: "Terraform owns this value" (planmod.managed)
  serving,  \* the daemon that serves the object (Docker, for an app) is running
  op,       \* the handler that runs, or "idle"
  pc,       \* its next step
  then,     \* the operation that follows it
  others,   \* what the plan does to the other attributes: "none" of them changes,
            \* "some" do, or one that this attribute is "followed" from
  plan,     \* the planned value
  model,    \* the handler's model: what it will save
  reply,    \* the object in the last response
  saved,    \* the state (None: none) the handler has written to its response
  planMark, \* the private data it returns
  failed,   \* it has reported an error
  before,   \* history: the appliance when the handler was called
  made,     \* history: the object was created or imported by Terraform
  told,     \* history: an error was reported since it was made
  settled,  \* history: nothing changed and nothing failed since an apply that knew
            \* what the appliance held
  stale,    \* history: "no"; "unread": the appliance may have changed since the
            \* state was refreshed; "hidden": it has, and a refresh did not show it
  owned     \* history: the last value applied came from the configuration

handler == <<op, pc, then, others, plan, model, reply, saved, planMark, failed, before>>
history == <<made, told, settled, stale, owned>>
vars == <<profile, base, cfg, srv, st, tainted, mark, serving, handler, history>>

-----------------------------------------------------------------------------
(* What the catalog says of one attribute of one resource.                 *)

Rule(rules, a) == IF a \in DOMAIN rules THEN rules[a] ELSE "none"

Restrict1(steps, a) ==
  <<>> \o [i \in DOMAIN steps |-> [steps[i] EXCEPT !.rule = Rule(@, a)]]

RulesOf(handlers) ==
  UNION { { steps[i].rule : i \in DOMAIN steps } : steps \in handlers }

Profile(r, a) ==
  LET of(steps) == Restrict1(steps, a) IN
  [kind   |-> r.schema[a], hosted |-> r.hosted, recorded |-> r.recorded,
   create |-> of(r.create), read |-> of(r.read), update |-> of(r.update),
   delete |-> of(r.delete), import |-> of(r.import),
   rules  |-> RulesOf({of(r.create), of(r.read), of(r.update), of(r.import)}),
   reads  |-> RulesOf({of(r.read)})]

(* Attributes with the same profile behave alike: one of each is followed. *)
Profiles ==
  UNION { { Profile(Resources[r], a) : a \in DOMAIN Resources[r].schema } : r \in DOMAIN Resources }

-----------------------------------------------------------------------------
(* What a catalog must be for its handlers to be executed, and what a      *)
(* handler needs for the object to be in the state when it has returned.   *)
(* TLC evaluates the condition on the provider's catalog.                  *)

Handlers == {"create", "read", "update", "delete", "import"}

Modifiers == {"keep", "keepUnlessFollowed", "keepSettled", "unknownIfFollowed", "zeroIfFollowed",
  "inferredOnCreate", "keepEquivalent", "keepImported", "refuse", "replace", "replaceFromKnown",
  "replaceFromKnownFold", "replaceUnlessEquivalent", "idmapReplace", "resetWhenUnset",
  "resetIfManaged"}

(* Payload rules: those that may send null, and the others.                *)
NullRules == {"nullable", "nil", "nilZero", "knownNilZero", "emptyIsNil", "nilZeroChanged",
  "knownNilZeroChanged", "maybeNull"}
SentRules == NullRules \cup {"none", "always", "known", "nonzero", "unlessUnknown", "configured",
  "cannotClear", "setOnly", "zero", "fixed", "original", "interim", "interimZero", "maybeZero",
  "knownOrImplied", "unlessAllSame", "changed", "nonzeroChanged", "changedOrFollowed",
  "upgrade"}

(* Response rules: those after which the model is known, and the others.   *)
KnownRules == {"value", "pointer", "nullIfZero", "fixed", "null", "zero", "orZero",
  "nullIfUnknown", "ifUnknown", "ifUnset", "ifSet", "keepEquivalent", "keepEquivalentOrNull",
  "unlessRedacted", "redactable", "unlessSentinel"}
TakenRules == KnownRules \cup {"none", "ifManaged", "ifManagedAndRead", "ifPresent",
  "equivalentOrRedacted", "ifRead"}

(* The steps of which each handler may consist.                            *)
Reporting == {"recordManaged", "setImported", "clearImported", "keepImported"}
Allowed(o) ==
  CASE o = "create" -> {"create", "update", "fetch", "fetchOrRecord", "take", "save", "check"}
                         \cup Reporting
    [] o = "read"   -> {"fetch", "fetchOrForget", "fetchOrAsk", "forgetIfRunning", "take", "save",
                        "check"} \cup Reporting
    [] o = "update" -> {"update", "fetch", "take", "save", "check"} \cup Reporting
    [] o = "delete" -> {"update", "undo", "delete", "deleteOrAsk", "goneIfRunning", "check",
                        "leaveInPlace"}
    [] o = "import" -> {"fetch", "take", "save", "saveId", "check"} \cup Reporting

Rules(do) == CASE do \in {"create", "update", "undo"} -> SentRules
               [] do = "take"   -> TakenRules
               [] do = "saveId" -> {"none", "value"}
               [] OTHER         -> {"none"}

KindTyped(k) ==
  /\ k.config \in {"none", "optional", "required"} /\ k.default \in {"none", "zero", "nonzero"}
  /\ {k.computed, k.spelt, k.custom, k.zero, k.local, k.secret, k.unseen, k.sentinel}
       \subseteq BOOLEAN
  /\ k.modifiers \in Seq(Modifiers)

StepTyped(o, step) ==
  step.do \in Allowed(o) /\ step.rule \in Rules(step.do) /\ step.restores \in BOOLEAN

(* A step of S comes before step i.                                        *)
Earlier(steps, i, S) == \E j \in 1..(i - 1) : steps[j].do \in S

(* A response is there when it is taken.                                   *)
Answering == {"create", "update", "fetch", "fetchOrForget", "fetchOrRecord", "fetchOrAsk"}
Answered(steps) ==
  \A i \in DOMAIN steps : steps[i].do = "take" => Earlier(steps, i, Answering)

(* The question whether the daemon runs follows the call that did not find *)
(* the object, and nothing else.                                           *)
Asking == {<<"fetchOrAsk", "forgetIfRunning">>, <<"deleteOrAsk", "goneIfRunning">>}
AskedInPairs(steps) ==
  \A q \in Asking : \A i \in DOMAIN steps :
    /\ steps[i].do = q[1] => i + 1 \in DOMAIN steps /\ steps[i + 1].do = q[2]
    /\ steps[i].do = q[2] => i - 1 \in DOMAIN steps /\ steps[i - 1].do = q[1]

(* An attribute whose planned value may be unknown is read from a response *)
(* before the model is saved.                                              *)
MayBeUnknown(k, o) ==
  \/ k.computed /\ k.default = "none" /\ (o = "create" \/ "keep" \notin Range(k.modifiers))
  \/ "unknownIfFollowed" \in Range(k.modifiers)

Resolved(steps) ==
  \A i \in DOMAIN steps : steps[i].do = "save" =>
    \E j \in 1..(i - 1) : steps[j].do = "take" /\ steps[j].rule \in KnownRules

(* Where a Create is to record the object at once, each call that may tell *)
(* of it comes after a save, or records it when it fails.                  *)
RecordsAtOnce(steps) ==
  \A i \in DOMAIN steps :
    /\ steps[i].do \in Answering => \/ Earlier(steps, i, {"save"})
                                   \/ steps[i].do \in {"create", "fetchOrRecord"}
    /\ steps[i].do = "create" => i + 1 \in DOMAIN steps /\ steps[i + 1].do = "fetchOrRecord"
    /\ steps[i].do = "fetchOrRecord" => /\ i + 2 \in DOMAIN steps
                                        /\ steps[i + 1].do = "take" /\ steps[i + 2].do = "save"

WellFormed(p) ==
  /\ KindTyped(p.kind) /\ p.hosted \in BOOLEAN /\ p.recorded \in BOOLEAN
  /\ \A o \in Handlers :
       /\ DOMAIN p[o] = 1..Len(p[o]) /\ Len(p[o]) \in Nat
       /\ \A i \in DOMAIN p[o] : /\ StepTyped(o, p[o][i])
                                 /\ p[o][i].rule \in NullRules => p[o][i].rule \in p.rules
       /\ Answered(p[o]) /\ AskedInPairs(p[o])
  /\ MayBeUnknown(p.kind, "create") => Resolved(p.create) \/ "AppliedAsPlanned" \in p.kind.excused
  /\ MayBeUnknown(p.kind, "update") => Resolved(p.update)
  /\ Earlier(p.create, Len(p.create) + 1, {"save"})
  /\ Earlier(p.create, Len(p.create) + 1, {"create"})
       => Earlier(p.delete, Len(p.delete) + 1, {"delete", "goneIfRunning"})
  /\ p.recorded => RecordsAtOnce(p.create)

ASSUME CatalogAssumption == \A p \in Profiles : WellFormed(p)

-----------------------------------------------------------------------------
kind == profile.kind
Handler(o) == profile[o]
Does(o, do) == \E i \in DOMAIN Handler(o) : Handler(o)[i].do = do

(* A singleton, or a view of something that exists by itself: its Create   *)
(* handler creates nothing.                                                *)
Standing == ~ Does("create", "create")

-----------------------------------------------------------------------------
(* Values.  Null and zero are one setting to the server.                   *)

Canon(v) == IF v = Respelt(Some) THEN Some ELSE v
Same(v, w) == Canon(v) = Canon(w) \/ {v, w} = {Null, Zero}

(* The appliance is as configured; a sentinel asks only Create for a value.*)
Satisfied == Same(srv, cfg) \/ (kind.sentinel /\ cfg = Respelt(Some))

Plain == Value \cup (IF kind.zero THEN {Zero} ELSE {})
Written == Plain \cup (IF kind.spelt THEN {Respelt(Some)} ELSE {})
Configs == (IF kind.config = "none" THEN {} ELSE Written)
             \cup (IF kind.config = "required" THEN {} ELSE {Null})

(* The server may hold null where a payload can send null or a response is *)
(* read through a pointer.                                                 *)
Nullable == profile.rules \cap {"pointer", "ifRead", "nullIfZero", "keepEquivalentOrNull", "nil",
                                "nullable", "nilZero", "knownNilZero", "nilZeroChanged",
                                "knownNilZeroChanged", "emptyIsNil", "maybeNull"} # {}
Held == Plain \cup (IF Nullable THEN {Null} ELSE {})
              \cup (IF kind.initial = "zero" THEN {Zero} ELSE {})
Bases == IF kind.initial = "zero" THEN {Zero} ELSE Held \ (Value \ {Some})

(* What a payload may say of an attribute whose planned value is v, whose  *)
(* value in the prior state is old and which is set to set in the          *)
(* configuration.  Nothing at all: the handler refuses.                    *)
Unset == {Null, Unknown}

(* Mutant: the payload is built without a look at null and unknown.       *)
Sent_AsPlanned(rule, v, old, set) == {v}

Sent(rule, v, old, set) ==
  CASE rule = "none"           -> {Omit}
    [] rule = "always"         -> {IF v \in Unset THEN Zero ELSE v}
    [] rule = "known"          -> {IF v \in Unset THEN Omit ELSE v}
    [] rule = "nullable"       -> {IF v = Unknown THEN Omit ELSE v}
    [] rule = "nil"            -> {IF v \in Unset THEN Null ELSE v}
    [] rule = "nonzero"        -> {IF v \in Unset \cup {Zero} THEN Omit ELSE v}
    [] rule = "nilZero"        -> {IF v \in Unset \cup {Zero} THEN Null ELSE v}
    [] rule = "knownNilZero"   -> {IF v \in Unset THEN Omit ELSE IF v = Zero THEN Null ELSE v}
    [] rule = "emptyIsNil"     -> {IF v = Unknown THEN Omit ELSE IF v = Zero THEN Null ELSE v}
    [] rule = "unlessUnknown"  -> {IF v = Unknown THEN Omit ELSE IF v = Null THEN Zero ELSE v}
    [] rule = "configured"     -> {IF set = Null THEN Omit ELSE set}
    [] rule = "cannotClear"    -> IF set = Null /\ old \notin {None, Null} THEN {}
                                  ELSE {IF set = Null THEN Omit ELSE set}
    [] rule = "setOnly"        -> IF v \in Unset \/ v = old THEN {Omit}
                                  ELSE IF v = Zero THEN (IF old = None THEN {Omit} ELSE {}) ELSE {v}
    [] rule = "zero"           -> {Zero}
    [] rule = "fixed"          -> {Some}
    [] rule = "original"       -> Held \cup {Omit}
    [] rule = "interim"        -> Plain \cup {Omit}
    [] rule = "interimZero"    -> IF old \in Value THEN {Omit, Zero} ELSE {Omit}
    [] rule = "maybeZero"      -> {Omit, Zero}
    [] rule = "maybeNull"      -> {Omit, Null}
    [] rule = "knownOrImplied" -> IF v \in Unset THEN {Omit, Some} ELSE {v}
    [] rule = "unlessAllSame"  -> IF v \in Unset THEN {Omit} ELSE IF v = old THEN {Omit, v} ELSE {v}
    [] rule = "changed"        -> {IF v \in Unset \/ Canon(v) = Canon(old) THEN Omit ELSE v}
    [] rule = "nonzeroChanged" ->
         {IF v \in Unset \cup {Zero} \/ Canon(v) = Canon(old) THEN Omit ELSE v}
    [] rule = "nilZeroChanged" ->
         {IF Canon(v) = Canon(old) THEN Omit ELSE IF v \in Unset \cup {Zero} THEN Null ELSE v}
    [] rule = "knownNilZeroChanged" ->
         {IF v \in Unset \/ Canon(v) = Canon(old) THEN Omit ELSE IF v = Zero THEN Null ELSE v}
    [] rule = "changedOrFollowed" ->
         IF others = "followed" THEN (IF v \in Unset THEN {Omit, Some} ELSE {v})
         ELSE {IF v \in Unset \/ v = old THEN Omit ELSE v}
    [] rule = "upgrade"        -> {IF v \in Unset \cup {old, Respelt(Some)} THEN Omit ELSE v}

(* What the handler's model m may hold after a response r is taken into it *)
Taken(rule, r, m) ==
  CASE rule = "none"           -> {m}
    [] rule = "value"          -> {IF r = Null THEN Zero ELSE r}
    [] rule = "pointer"        -> {r}
    [] rule = "nullIfZero"     -> {IF r = Zero THEN Null ELSE r}
    [] rule = "fixed"          -> {Some}
    [] rule = "null"           -> {Null}
    [] rule = "zero"           -> {Zero}
    [] rule = "orZero"         -> {IF m \in Unset THEN Zero ELSE m}
    [] rule = "nullIfUnknown"  -> {IF m = Unknown THEN Null ELSE m}
    [] rule = "ifUnknown"      -> {IF m = Unknown THEN r ELSE m}
    [] rule = "ifUnset"        -> {IF m \in Unset THEN r ELSE m}
    [] rule = "ifSet"          -> {IF r \notin {Null, Zero} THEN r ELSE IF m = Unknown THEN Null ELSE m}
    [] rule = "ifManaged"      -> {IF m \in Unset THEN m ELSE IF Canon(m) = r THEN m ELSE r}
    [] rule = "ifManagedAndRead" -> IF m \in Unset \/ Canon(m) = r THEN {m} ELSE {r, m}
    [] rule = "ifPresent"      -> IF r \in {Null, Zero} \/ Canon(m) = r THEN {m}
                                  ELSE IF m \in Unset THEN {r, m} ELSE {r}
    [] rule = "unlessSentinel" -> {IF m = Respelt(Some) THEN m ELSE IF r = Null THEN Zero ELSE r}
    [] rule = "keepEquivalent" -> {IF Canon(m) = r THEN m ELSE IF r = Null THEN Zero ELSE r}
    [] rule = "keepEquivalentOrNull" ->
         {IF Canon(m) = r THEN m ELSE r}
    [] rule = "unlessRedacted" -> {r, IF m = Unknown THEN Null ELSE m}
    [] rule = "equivalentOrRedacted" ->
         IF Canon(m) = r THEN {m} ELSE {r, m}
    [] rule = "ifRead"         -> {r, m}
    [] rule = "redactable"     -> IF m \in Unset THEN {Null} ELSE {m, r}

-----------------------------------------------------------------------------
(* Planning.  "others" says what the rest of the configuration does:       *)
(* nothing, some change, or a change of the attribute this one follows.    *)

Known(v) == v \notin {None, Null}

(* The server's default as the schema states it: never null.               *)
ServerDefault == IF base = Null THEN Zero ELSE base

(* The modifiers.  p is the plan so far, prior the value in the state.     *)
UseStateForUnknown(p, prior) ==
  [p EXCEPT !.val = IF @ = Unknown /\ prior # None THEN prior ELSE @]

(* The attribute is derived from another one, and unknown once that one    *)
(* changes.                                                                *)
KeepUnlessFollowed(p, prior, moved) ==
  IF moved = "followed" THEN p ELSE UseStateForUnknown(p, prior)

(* It is unknown as well while it has not settled (one value stands for    *)
(* the settled ones): any update may then move it.                         *)
KeepSettled(p, prior, moved) ==
  IF prior = Some THEN KeepUnlessFollowed(p, prior, moved) ELSE p

IfFollowed(p, prior, moved, v) ==
  [p EXCEPT !.val = IF prior # None /\ cfg = Null /\ moved = "followed" THEN v ELSE @]

InferredOnCreate(p, prior) ==
  [p EXCEPT !.val = IF prior = None /\ cfg = Null THEN Some ELSE @]

KeepStateIfEquivalent(p, prior) ==
  [p EXCEPT !.val = IF Known(prior) /\ cfg # Null /\ Canon(cfg) = Canon(prior) THEN prior ELSE @]

KeepImportedIfEquivalent(p, prior, imported) ==
  IF imported THEN KeepStateIfEquivalent(p, prior) ELSE p

(* A change that no call of the server can make: the plan is an error.     *)
RefuseChange(p, prior) ==
  [p EXCEPT !.refuse = @ \/ (Known(prior) /\ cfg # Null /\ p.val # prior)]

RequiresReplace(p, prior) ==
  [p EXCEPT !.replace = @ \/ (prior # None /\ p.val # prior)]

ReplaceFromKnown(p, prior) ==
  [p EXCEPT !.replace = @ \/ (Known(prior) /\ p.val # prior)]

ReplaceFromKnownFold_CaseMatters(p, prior) == ReplaceFromKnown(p, prior)

ReplaceFromKnownFold(p, prior) ==
  [p EXCEPT !.replace = @ \/ (Known(prior) /\ Canon(p.val) # Canon(prior))]

IdmapReplace(p, prior) ==
  IF p.val = Null THEN p ELSE ReplaceFromKnownFold(p, prior)

(* decide of planmod.resetWhenUnset: a value that was configured and no    *)
(* longer is goes back to the server's default, one that never was stays.  *)
ResetWhenUnset(p, prior, owns) ==
  [p EXCEPT !.val = IF cfg # Null THEN @
                    ELSE IF owns THEN ServerDefault
                    ELSE IF Known(prior) THEN prior ELSE @,
            !.mark = cfg # Null]

ResetIfManaged(p, prior, owns) ==
  [p EXCEPT !.val = IF prior # None /\ cfg = Null /\ owns THEN ServerDefault ELSE @,
            !.mark = cfg # Null]

Modify(p, m, prior, owns, moved) ==
  CASE m = "keep"                    -> UseStateForUnknown(p, prior)
    [] m = "keepUnlessFollowed"      -> KeepUnlessFollowed(p, prior, moved)
    [] m = "keepSettled"             -> KeepSettled(p, prior, moved)
    [] m = "unknownIfFollowed"       -> IfFollowed(p, prior, moved, Unknown)
    [] m = "zeroIfFollowed"          -> IfFollowed(p, prior, moved, Zero)
    [] m = "inferredOnCreate"        -> InferredOnCreate(p, prior)
    [] m = "keepEquivalent"          -> KeepStateIfEquivalent(p, prior)
    [] m = "keepImported"            -> KeepImportedIfEquivalent(p, prior, owns)
    [] m = "refuse"                  -> RefuseChange(p, prior)
    [] m = "replace"                 -> RequiresReplace(p, prior)
    [] m = "replaceFromKnown"        -> ReplaceFromKnown(p, prior)
    [] m \in {"replaceFromKnownFold",
              "replaceUnlessEquivalent"} -> ReplaceFromKnownFold(p, prior)
    [] m = "idmapReplace"            -> IdmapReplace(p, prior)
    [] m = "resetWhenUnset"          -> ResetWhenUnset(p, prior, owns)
    [] m = "resetIfManaged"          -> ResetIfManaged(p, prior, owns)

(* What Terraform proposes, and the framework marks unknown, before any    *)
(* modifier runs.                                                          *)
Proposed(prior, owns, moved) ==
  LET default  == IF kind.default = "zero" THEN Zero ELSE Some
      proposed == IF kind.unseen THEN Null
                  ELSE IF cfg # Null THEN cfg
                  ELSE IF kind.default # "none" THEN default
                  ELSE IF kind.computed /\ prior # None THEN prior ELSE Null
      dirty    == prior = None \/ moved # "none" \/ proposed # prior
      unknown  == dirty /\ cfg = Null /\ kind.computed /\ kind.default = "none"
  IN [val |-> IF unknown THEN Unknown ELSE proposed,
      replace |-> FALSE, refuse |-> FALSE, mark |-> owns]

(* The modifiers run in order, each on what the one before it has left.    *)
Planned(prior, owns, moved) ==
  LET n == Len(kind.modifiers)
      after[i \in 0..n] ==
        IF i = 0 THEN Proposed(prior, owns, moved)
        ELSE Modify(after[i - 1], kind.modifiers[i], prior, owns, moved)
  IN [after[n] EXCEPT !.replace = @ /\ after[n].val # prior]

Has(modifiers) == modifiers \cap Range(kind.modifiers) # {}

(* The appliance derives the attribute from another one, and moves it with *)
(* that one; or in any update, while it has not settled.                   *)
Follows == Has({"keepUnlessFollowed", "keepSettled", "unknownIfFollowed"})
Moving ==
  Follows /\ (others = "followed" \/ (Has({"keepSettled"}) /\ op = "update" /\ st # Some))
Managed == Has({"resetWhenUnset", "resetIfManaged"})

(* What else a plan may change: the attribute followed matters only to one *)
(* that follows.                                                           *)
Moves == {"none", "some"} \cup
         (IF Follows \/ Has({"zeroIfFollowed"}) \/ "changedOrFollowed" \in profile.rules
            THEN {"followed"} ELSE {})

-----------------------------------------------------------------------------
(* Operations.                                                             *)

Idle == op = "idle"

Call(o, next, moved, p, m, s, owns) ==
  /\ op' = o /\ pc' = 1 /\ then' = next /\ others' = moved
  /\ plan' = p /\ model' = m /\ saved' = s /\ planMark' = owns
  /\ reply' = None /\ failed' = FALSE /\ before' = srv

Return ==
  /\ op' = "idle" /\ pc' = 1 /\ then' = "idle" /\ others' = "none"
  /\ plan' = None /\ model' = None /\ saved' = None /\ planMark' = FALSE
  /\ reply' = None /\ failed' = FALSE /\ before' = None

object == <<profile, base, cfg, srv, st, tainted, mark, serving>>

Init ==
  /\ profile \in Profiles
  /\ base \in Bases
  /\ cfg = None
  /\ srv \in IF Standing THEN {base} ELSE {None, base}
  /\ st = None /\ tainted = FALSE /\ mark = FALSE /\ serving = TRUE
  /\ op = "idle" /\ pc = 1 /\ then = "idle" /\ others = "none" /\ plan = None /\ model = None
  /\ reply = None /\ saved = None /\ planMark = FALSE /\ failed = FALSE /\ before = None
  /\ made = FALSE /\ told = FALSE /\ settled = FALSE /\ stale = "no" /\ owned = FALSE

(* Somebody edits the configuration.                                       *)
Edit ==
  /\ Idle
  /\ cfg' \in (Configs \cup {None}) \ {cfg}
  /\ settled' = FALSE
  /\ UNCHANGED <<profile, base, srv, st, tainted, mark, serving, handler, made, told, stale, owned>>

(* A state that exists no longer shows the appliance as it is.             *)
Unread(s) == IF s = None THEN "no" ELSE "unread"

(* Somebody else changes the object, or deletes it.                        *)
Drift ==
  /\ Idle /\ srv # None /\ ~ kind.local
  /\ srv' \in Held \ {srv}
  /\ settled' = FALSE /\ stale' = Unread(st)
  /\ UNCHANGED <<profile, base, cfg, st, tainted, mark, serving, handler, made, told, owned>>

Vanish ==
  /\ Idle /\ srv # None
  /\ Does("read", "fetchOrForget") \/ Does("read", "forgetIfRunning")
  /\ srv' = None
  /\ settled' = FALSE /\ stale' = Unread(st) /\ made' = FALSE /\ told' = FALSE
  /\ UNCHANGED <<profile, base, cfg, st, tainted, mark, serving, handler, owned>>

(* The daemon that serves the object goes down, or is up again.            *)
Restart ==
  /\ profile.hosted
  /\ Idle \/ Restarts
  /\ serving' = ~ serving
  /\ stale' = IF stale = "hidden" THEN "unread" ELSE stale
  /\ UNCHANGED <<profile, base, cfg, srv, st, tainted, mark, handler, made, told, settled, owned>>

(* terraform refresh, and the refresh before every plan.                   *)
Refresh ==
  /\ Idle /\ st # None
  /\ Call("read", "idle", "none", st, st, st, mark)
  /\ UNCHANGED <<object, history>>

(* terraform apply for a block that is configured: create, update in       *)
(* place, or replace.  Terraform refreshes a state before it plans.        *)
CallCreate ==
  LET p == Planned(None, FALSE, "some") IN Call("create", "idle", "some", p.val, p.val, None, FALSE)

ApplyCreate ==
  /\ Idle /\ cfg # None /\ st = None
  /\ CallCreate
  /\ UNCHANGED <<object, history>>

ApplyUpdate(moved) ==
  /\ Idle /\ cfg # None /\ st # None /\ ~ tainted /\ stale # "unread"
  /\ LET p == Planned(st, mark, moved) IN
       /\ ~ p.replace /\ ~ p.refuse
       /\ p.val # st \/ moved # "none"
       /\ Call("update", "idle", moved, p.val, p.val, st, p.mark)
  /\ UNCHANGED <<object, history>>

ApplyReplace ==
  /\ Idle /\ cfg # None /\ st # None /\ stale # "unread"
  /\ tainted \/ Planned(st, mark, "none").replace
  /\ Call("delete", "create", "none", st, st, st, FALSE)
  /\ UNCHANGED <<object, history>>

Destroy ==
  /\ Idle /\ cfg = None /\ st # None
  /\ Call("delete", "idle", "none", st, st, st, FALSE)
  /\ UNCHANGED <<object, history>>

(* terraform import of an object the state does not hold.                  *)
Import ==
  /\ Idle /\ cfg # None /\ st = None /\ srv # None
  /\ Call("import", "read", "none", Null, Null, None, FALSE)
  /\ UNCHANGED <<object, history>>

-----------------------------------------------------------------------------
(* The steps of a handler.                                                 *)

Cur == Handler(op)[pc]
Doing == IF Idle \/ pc > Len(Handler(op)) THEN "nothing" ELSE Cur.do
At(do) == Doing = do

End == Len(Handler(op)) + 1
Goto(i) == pc' = i /\ UNCHANGED <<op, then, others, plan, before>>
NextStep == Goto(pc + 1) /\ failed' = FALSE
Stop == Goto(End) /\ model' = model

(* A diagnostic is added and the handler returns: it does not look at its  *)
(* plan and its model any more.                                            *)
Aborts ==
  /\ failed' = TRUE /\ pc' = End
  /\ others' = "none" /\ plan' = None /\ model' = None
  /\ UNCHANGED <<op, then, before>>

Proceed(fails) == IF fails THEN Aborts ELSE NextStep /\ model' = model

Carried == Sent(Cur.rule, IF kind.unseen THEN cfg ELSE plan, st, cfg)

(* A call that creates the object: it exists, with the value sent or the   *)
(* server's own, whether or not its reply arrives.                         *)
CreateCall(fails) ==
  /\ At("create") /\ serving
  /\ \E c \in Carried : srv' = IF c = Omit THEN base ELSE Canon(c)
  /\ made' = TRUE /\ told' = FALSE
  /\ stale' = IF fails THEN "unread" ELSE "no"
  /\ reply' = IF fails THEN None ELSE srv'
  /\ Proceed(fails)
  /\ UNCHANGED <<profile, base, cfg, st, tainted, mark, serving, saved, planMark, settled, owned>>

(* A call that changes the object.  An attribute that follows another one  *)
(* may change with it.  A handler that first suspended the object, where   *)
(* it was on, tries to turn it on again when the change fails.             *)
Restored ==
  IF Cur.restores /\ "interimZero" \in profile.rules /\ st \in Value THEN {srv, st} ELSE {srv}

UpdateCall(fails) ==
  /\ At("update") /\ srv # None /\ serving
  /\ \E c \in Carried :
       \/ c # Omit /\ srv' = Canon(c)
       \/ c = Omit /\ srv' = srv
       \/ c = Omit /\ Moving /\ srv' \in Held
       \/ fails /\ srv' \in Restored
  /\ reply' = IF fails THEN reply ELSE srv'
  /\ Proceed(fails)
  /\ UNCHANGED <<profile, base, cfg, st, tainted, mark, serving, saved, planMark, history>>

(* A Delete that puts something back; it is no error that it is gone.      *)
UndoCall ==
  /\ At("undo")
  /\ \E c \in Carried : srv' = IF srv = None \/ c = Omit THEN srv ELSE Canon(c)
  /\ NextStep
  /\ UNCHANGED <<profile, base, cfg, st, tainted, mark, serving, model, reply, saved, planMark,
                 history>>

(* A delete call; an object that is already gone is not an error.          *)
DeleteCall(fails) ==
  /\ At("delete") \/ (At("deleteOrAsk") /\ serving /\ srv # None)
  /\ srv' = None /\ made' = FALSE /\ told' = FALSE
  /\ IF fails THEN Aborts ELSE Stop /\ failed' = FALSE
  /\ UNCHANGED <<profile, base, cfg, st, tainted, mark, serving, reply, saved, planMark,
                 settled, stale, owned>>

(* A call or a check that fails without any effect.  Core keeps the state  *)
(* when a Read fails, and has none when an import does.                    *)
Fails ==
  /\ Doing \in {"create", "update", "undo", "delete", "deleteOrAsk", "check", "fetch",
               "fetchOrForget", "fetchOrAsk"}
  /\ srv' \in IF At("update") /\ srv # None THEN Restored ELSE {srv}
  /\ IF op \in {"read", "import"} THEN Return ELSE Aborts /\ UNCHANGED <<reply, saved, planMark>>
  /\ UNCHANGED <<profile, base, cfg, st, tainted, mark, serving, history>>

FetchStep ==
  /\ Doing \in {"fetch", "fetchOrForget", "fetchOrRecord", "fetchOrAsk"}
  /\ srv # None /\ serving
  /\ reply' = srv
  /\ Goto(IF At("fetchOrAsk") THEN pc + 2 ELSE pc + 1)
  /\ UNCHANGED <<object, model, saved, planMark, failed, history>>

(* The object is not there: the state forgets it.                          *)
Forget_NotAsking ==
  /\ (At("fetchOrForget") /\ srv = None) \/ At("forgetIfRunning")
  /\ saved' = None
  /\ Stop
  /\ UNCHANGED <<object, reply, planMark, failed, history>>

Forget ==
  /\ \/ At("fetchOrForget") /\ srv = None
     \/ At("forgetIfRunning") /\ serving
  /\ saved' = None
  /\ Stop
  /\ UNCHANGED <<object, reply, planMark, failed, history>>

(* The daemon is down, or the object is not there: the handler asks        *)
(* whether the daemon runs.                                                *)
NotFound ==
  /\ Doing \in {"fetchOrAsk", "deleteOrAsk"}
  /\ srv = None \/ ~ serving
  /\ NextStep
  /\ UNCHANGED <<object, model, reply, saved, planMark, history>>

(* It does not run, or does not say: a Read keeps the state, a Delete      *)
(* fails.  It runs: the object is gone.                                    *)
Asked ==
  /\ \/ At("forgetIfRunning") /\ Stop /\ failed' = FALSE
     \/ At("goneIfRunning") /\ serving /\ Stop /\ failed' = FALSE
     \/ At("goneIfRunning") /\ Aborts
  /\ UNCHANGED <<object, reply, saved, planMark, history>>

(* Mutant: nothing is recorded when the read after a create fails.         *)
Record_Nothing ==
  /\ At("fetchOrRecord")
  /\ Aborts
  /\ UNCHANGED <<object, reply, saved, planMark, history>>

(* The read after a create fails: what was planned is recorded, with what  *)
(* is not known as null.                                                   *)
Record ==
  /\ At("fetchOrRecord")
  /\ saved' = IF model = Unknown THEN Null ELSE model
  /\ Aborts
  /\ UNCHANGED <<object, reply, planMark, history>>

(* What resp.State.Set records of a model: under a custom type the         *)
(* framework keeps the planned, or prior, spelling.                        *)
AsSaved(m) == IF kind.custom /\ Canon(m) = Canon(plan) THEN plan ELSE m

(* A response is taken into the model; where the model is saved next, that *)
(* is the same step: nothing can come between the two.                     *)
TakeStep ==
  /\ At("take")
  /\ model' \in Taken(Cur.rule, reply, model)
  /\ IF pc < Len(Handler(op)) /\ Handler(op)[pc + 1].do = "save"
       THEN Goto(pc + 2) /\ saved' = AsSaved(model')
       ELSE Goto(pc + 1) /\ saved' = saved
  /\ UNCHANGED <<object, reply, planMark, failed, history>>

SaveStep ==
  /\ Doing \in {"save", "saveId"}
  /\ saved' = IF At("save") THEN AsSaved(model) ELSE IF Cur.rule = "value" THEN srv ELSE Null
  /\ NextStep
  /\ UNCHANGED <<object, model, reply, planMark, history>>

(* The private data a handler returns: what planmod.RecordManaged marks in *)
(* a Create, and the flag of an imported document.                         *)
RecordManagedStep_Nothing ==
  /\ At("recordManaged")
  /\ NextStep
  /\ UNCHANGED <<object, model, reply, saved, planMark, history>>

RecordManagedStep ==
  /\ At("recordManaged")
  /\ planMark' = IF Managed THEN cfg # Null ELSE planMark
  /\ NextStep
  /\ UNCHANGED <<object, model, reply, saved, history>>

ImportFlagStep ==
  /\ Doing \in {"setImported", "clearImported", "keepImported"}
  /\ planMark' = IF ~ Has({"keepImported"}) THEN planMark
                 ELSE IF At("keepImported") THEN planMark /\ plan = st
                 ELSE At("setImported")
  /\ NextStep
  /\ UNCHANGED <<object, model, reply, saved, history>>

(* A check that passes; a Delete that only warns.                          *)
PassStep ==
  /\ Doing \in {"check", "leaveInPlace"}
  /\ NextStep
  /\ UNCHANGED <<object, model, reply, saved, planMark, history>>

-----------------------------------------------------------------------------
(* The end of a handler: what core does with what it returned.             *)

Ended(o) == op = o /\ pc = End

(* Whether the state can be trusted after an apply.                        *)
Trust == IF failed THEN (IF srv = before THEN stale ELSE "unread")
         ELSE IF stale = "hidden" /\ srv = before THEN stale ELSE "no"

(* A failed Create that returned a state leaves a tainted object.  A       *)
(* result that is not known counts as failed, and is recorded as null.     *)
Rejected == failed \/ saved = Unknown

Created ==
  /\ Ended("create")
  /\ st' = IF saved = Unknown THEN Null ELSE saved
  /\ tainted' = (Rejected /\ saved # None) /\ mark' = planMark
  /\ told' = (st' = None /\ (told \/ Rejected))
  /\ stale' = IF st' = None THEN "no" ELSE Trust
  /\ settled' = ~ Rejected /\ owned' = (Managed /\ ~ Rejected /\ cfg # Null)
  /\ Return
  /\ UNCHANGED <<profile, base, cfg, srv, serving, made>>

(* A failed Update leaves the prior state, but the planned private data.   *)
Updated ==
  /\ Ended("update")
  /\ st' = saved /\ mark' = planMark
  /\ stale' = Trust
  /\ settled' = (~ failed /\ stale' = "no") /\ owned' = (Managed /\ ~ failed /\ cfg # Null)
  /\ Return
  /\ UNCHANGED <<profile, base, cfg, srv, tainted, serving, made, told>>

(* Whether a refresh may leave a change unseen: the daemon was down, or    *)
(* the appliance does not show the attribute, or not to this session.      *)
MayHide ==
  \/ reply = None
  \/ kind.secret
  \/ profile.reads \cap {"unlessRedacted", "equivalentOrRedacted", "redactable",
                         "ifRead", "ifManagedAndRead", "ifPresent", "ifSet", "nullIfUnknown"} # {}

WasRead ==
  /\ Ended("read")
  /\ st' = saved
  /\ stale' = IF \/ st' = None \/ ~ MayHide
                 \/ Same(st', srv) /\ (reply # None \/ (st # None /\ stale = "no"))
              THEN "no" ELSE "hidden"
  /\ made' = (made \/ (st = None /\ st' # None))
  /\ told' = (told /\ st' = None)
  /\ tainted' = (tainted /\ st' # None) /\ mark' = (planMark /\ st' # None)
  /\ settled' = (settled /\ st' # None) /\ owned' = (owned /\ st' # None)
  /\ Return
  /\ UNCHANGED <<profile, base, cfg, srv, serving>>

Imported ==
  /\ Ended("import")
  /\ Call("read", "idle", "none", saved, saved, saved, planMark)
  /\ UNCHANGED <<object, history>>

Deleted ==
  /\ Ended("delete")
  /\ st' = IF failed THEN saved ELSE None
  /\ tainted' = (failed /\ tainted) /\ mark' = (failed /\ mark)
  /\ told' = (st' = None /\ told) /\ settled' = FALSE /\ owned' = FALSE
  /\ stale' = IF failed THEN Trust ELSE "no"
  /\ IF failed \/ then = "idle" THEN Return ELSE CallCreate
  /\ UNCHANGED <<profile, base, cfg, srv, serving, made>>

Next ==
  \/ Edit \/ Drift \/ Vanish \/ Restart \/ Refresh \/ Import \/ Destroy
  \/ ApplyCreate \/ ApplyReplace
  \/ \E moved \in Moves : ApplyUpdate(moved)
  \/ \E fails \in BOOLEAN : CreateCall(fails) \/ UpdateCall(fails) \/ DeleteCall(fails)
  \/ UndoCall \/ Fails \/ FetchStep \/ Forget \/ NotFound \/ Asked \/ Record
  \/ TakeStep \/ SaveStep \/ RecordManagedStep \/ ImportFlagStep \/ PassStep
  \/ Created \/ Updated \/ WasRead \/ Imported \/ Deleted

Spec == Init /\ [][Next]_vars

-----------------------------------------------------------------------------
(* Every value a handler of the catalog sends, takes or saves is one the   *)
(* attribute can have; only a plan, a model or a handler's result can be   *)
(* unknown, never the state.                                               *)
TypeOK ==
  /\ base \in Held /\ cfg \in Configs \cup {None} /\ srv \in Held \cup {None, Zero}
  /\ op \in {"idle", "create", "read", "update", "delete", "import"}
  /\ then \in {"idle", "create", "read"} /\ others \in {"none", "some", "followed"}
  /\ st \in Written \cup {Null, None, Zero, Some} /\ reply \in Held \cup {None, Zero}
  /\ {plan, model, saved} \subseteq Written \cup {Null, Unknown, None, Zero, Some}
  /\ stale \in {"no", "unread", "hidden"}
  /\ {tainted, mark, serving, planMark, failed, made, told, settled, owned} \subseteq BOOLEAN

Applying == op \in {"create", "update"}
Succeeded == Applying /\ Ended(op) /\ ~ failed

(* A deviation of the code from the property, recorded in the catalog.     *)
Exempt(property) == property \in kind.excused

(* Terraform rejects an apply whose result is not what it planned, or is   *)
(* not known: a Create or Update handler that returns without an error has *)
(* saved a known value, the planned one if the plan had one.               *)
AppliedAsPlanned ==
  Succeeded /\ ~ Exempt("AppliedAsPlanned")
    => saved \notin {None, Unknown} /\ (plan # Unknown => saved = plan)

(* An apply that reports success has brought the configured value to the   *)
(* appliance.                                                              *)
ConfigReachesServer ==
  Succeeded /\ cfg # Null /\ ~ kind.local /\ stale # "hidden" => Satisfied

(* An attribute the configuration leaves to the appliance, and whose       *)
(* change the plan does not announce, is not touched by an update made for *)
(* other attributes.                                                       *)
UnmanagedLeftAlone ==
  Succeeded /\ op = "update" /\ cfg = Null /\ kind.computed /\ kind.default = "none"
            /\ stale # "hidden" /\ ~ Moving
            /\ plan \in {st, Unknown}
    => Same(srv, before)

(* An attribute that a new object's configuration leaves out gets the      *)
(* server's own default, not the zero value of a Go variable that a        *)
(* payload builder reads from an unknown plan (ValueString, ValueInt64).   *)
(* A nonzero value that the provider derives itself is allowed.            *)
DocumentedDefaultApplies ==
  Succeeded /\ op = "create" /\ cfg = Null /\ kind.computed /\ kind.default = "none"
            /\ ~ Standing /\ ~ kind.local /\ plan = Unknown
    => Same(srv, base) \/ srv \in Value

(* The same of every attribute whose payload builder tests for unknown:    *)
(* all but the ones of the catalog that are recorded as deviations.        *)
UnsetGetsServerDefault == Exempt("UnsetGetsServerDefault") \/ DocumentedDefaultApplies

(* After an apply, with or without a refresh, the next plan is empty.  Of  *)
(* an excused document, one that nobody configures may be planned away,    *)
(* and a spelling may be put back.                                         *)
NoDiffAfterApply ==
  Idle /\ settled /\ st # None
       /\ ~ (Exempt("NoDiffAfterApply") /\ (cfg = Null \/ Canon(st) = Canon(cfg))) =>
    LET p == Planned(st, mark, "none") IN p.val = st

(* When the plan is empty the appliance holds what is configured, whatever *)
(* failed on the way; except where it changed behind the provider's back   *)
(* and the state could not be refreshed since.                             *)
QuietMeansInSync ==
  Idle /\ cfg \notin {None, Null} /\ st # None /\ ~ tainted /\ stale = "no"
       /\ ~ kind.local /\ ~ kind.unseen
       /\ srv # None /\ Planned(st, mark, "none").val = st
    => Satisfied

(* An object that Terraform made or imported and that still exists is in   *)
(* the state, unless an error told the user so.                            *)
NoSilentOrphan ==
  Idle /\ ~ Standing /\ made /\ srv # None /\ st = None => told

(* A Create that got the new object's reply and fails later has recorded   *)
(* the object, where the handler is written to (vm, container).            *)
RecordedOnceCreated ==
  profile.recorded /\ Ended("create") /\ failed /\ reply # None => saved # None

(* An object that is as configured, made or imported, is not planned for   *)
(* replacement because of how its attributes are spelt or read.            *)
NoNeedlessReplace ==
  Idle /\ st # None /\ ~ tainted /\ stale = "no" /\ ~ kind.local /\ ~ kind.unseen
       /\ cfg \notin {None, Null} /\ Canon(cfg) = srv
    => ~ Planned(st, mark, "none").replace

(* A value that was configured, applied, and then removed from the         *)
(* configuration is back at the server's default after the next apply.     *)
RemovedIsReset ==
  Succeeded /\ op = "update" /\ cfg = Null /\ owned /\ Managed => Same(srv, base)
=============================================================================
