-------------------------- MODULE InterfaceStaging --------------------------
(***************************************************************************)
(* Create, Update and Delete of truenas_network_interface                  *)
(* (internal/resources/network_interface/resource.go).  The server stages  *)
(* interface changes globally: interface.commit applies everything staged  *)
(* and arms a timer that rolls it back, interface.checkin keeps it, and    *)
(* interface.rollback discards it.  Every handler works on an interface of *)
(* its own; stagingMu keeps the handlers apart.                            *)
(***************************************************************************)
EXTENDS Naturals, FiniteSets

CONSTANTS
    Ops,      \* handler invocations, and the interface each of them manages
    None,
    MaxLate   \* bound: abandoned requests the server has still to execute

ASSUME StagingAssumption ==
    /\ None \notin Ops /\ None \notin [Ops -> {"absent", "old", "new"}]
    /\ MaxLate \in Nat

VARIABLES
    kind,       \* which handler it is
    pc,         \* where it is
    out,        \* what it returned
    stagingMu,  \* its holder
    \* the server
    live,       \* the configuration in effect
    db,         \* the configuration with the staged changes
    saved,      \* what a rollback restores; None when nothing is open
    armed,      \* whose commit the rollback timer belongs to, None when stopped
    open,       \* handlers whose change is staged or committed, not checked in
    late,       \* requests given up by the client and not yet executed
    \* history
    expired,    \* handlers whose timer fired
    overtaken,  \* handlers one of whose requests was executed after they had returned
    disturbed   \* handlers whose open change somebody else applied, kept or discarded

handlerVars == <<kind, pc, out, stagingMu>>
serverVars  == <<live, db, saved, armed, open>>
vars == <<handlerVars, serverVars, late, expired, overtaken, disturbed>>

Configs == {"absent", "old", "new"}
Methods == {"stage", "commit", "checkin", "rollback"}

TypeOK ==
    /\ kind \in [Ops -> {"create", "update", "delete", "physical"}]
    /\ pc \in [Ops -> {"start", "read", "return", "done"} \cup Methods]
    /\ out \in [Ops -> {"none", "ok", "failed", "dirty", "unconfirmed", "unread"}]
    /\ stagingMu \in Ops \cup {None}
    /\ live \in [Ops -> Configs] /\ db \in [Ops -> Configs]
    /\ saved \in [Ops -> Configs] \cup {None}
    /\ armed \in Ops \cup {None}
    /\ open \subseteq Ops /\ expired \subseteq Ops /\ overtaken \subseteq Ops /\ disturbed \subseteq Ops
    /\ late \subseteq Ops \X Methods

\* What Terraform asked for, and from where: an interface to delete may be gone.
Target(o) == IF kind[o] = "delete" THEN "absent" ELSE "new"
Before(o) == CASE kind[o] = "create" -> {"absent"}
               [] kind[o] = "delete" -> {"absent", "old"}
               [] OTHER              -> {"old"}

\* The handler has returned, or only has to unlock.
Over(o) == pc[o] \in {"return", "done"}

Init ==
    /\ kind \in [Ops -> {"create", "update", "delete", "physical"}]
    /\ pc = [o \in Ops |-> "start"]
    /\ out = [o \in Ops |-> "none"]
    /\ stagingMu = None
    /\ live \in [Ops -> Configs] /\ \A o \in Ops : live[o] \in Before(o)
    /\ db = live
    /\ saved = None /\ armed = None /\ open = {}
    /\ late = {} /\ expired = {} /\ overtaken = {} /\ disturbed = {}

(***************************************************************************)
(* The server.                                                             *)
(***************************************************************************)
\* The server refuses to create what exists and to change what does not.
Refused(o) == IF kind[o] = "create" THEN db[o] # "absent" ELSE db[o] = "absent"

Stage(o) ==
    /\ ~Refused(o)
    /\ saved' = IF saved = None THEN db ELSE saved
    /\ db' = [db EXCEPT ![o] = Target(o)]
    /\ open' = open \cup {o}
    /\ UNCHANGED <<live, armed, disturbed>>

Commit(o) ==
    /\ live' = db
    /\ armed' = o
    /\ disturbed' = disturbed \cup (open \ {o})
    /\ UNCHANGED <<db, saved, open>>

Checkin(o) ==
    /\ saved' = None /\ armed' = None /\ open' = {}
    /\ disturbed' = disturbed \cup (open \ {o})
    /\ UNCHANGED <<live, db>>

\* Mutant: a rollback with nothing open restores what was never saved.
Rollback_NothingSaved(o) ==
    /\ live' = saved /\ db' = saved
    /\ saved' = None /\ armed' = None /\ open' = {}
    /\ disturbed' = disturbed \cup (open \ {o})

Rollback(o) ==
    /\ IF saved = None THEN UNCHANGED <<live, db>> ELSE live' = saved /\ db' = saved
    /\ saved' = None /\ armed' = None /\ open' = {}
    /\ disturbed' = disturbed \cup (open \ {o})

Executes(o, m) ==
    \/ m = "stage" /\ Stage(o)
    \/ m = "commit" /\ Commit(o)
    \/ m = "checkin" /\ Checkin(o)
    \/ m = "rollback" /\ Rollback(o)

\* checkin_timeout is over.
TimerFires ==
    /\ armed # None
    /\ Rollback(armed)
    /\ expired' = expired \cup {armed}
    /\ UNCHANGED <<handlerVars, late, overtaken>>

\* The server executes a request whose caller has stopped waiting.
LateRequest ==
    \E r \in late :
        /\ late' = late \ {r}
        /\ \/ /\ Executes(r[1], r[2])
              /\ overtaken' = IF Over(r[1]) THEN overtaken \cup {r[1]} ELSE overtaken
           \/ r[2] = "stage" /\ Refused(r[1]) /\ UNCHANGED <<serverVars, disturbed, overtaken>>
        /\ UNCHANGED <<handlerVars, expired>>

(***************************************************************************)
(* The handlers.                                                           *)
(***************************************************************************)
Goto(o, l) == pc' = [pc EXCEPT ![o] = l] /\ UNCHANGED <<kind, out, stagingMu>>
Returns(o, r) ==
    /\ pc' = [pc EXCEPT ![o] = "return"]
    /\ out' = [out EXCEPT ![o] = r]
    /\ UNCHANGED <<kind, stagingMu>>

\* Client.Call of m by o: answered with success; refused; or unanswered, when
\* the server executed it, will execute it later, or never.
Answered(o, m) == pc[o] = m /\ Executes(o, m) /\ UNCHANGED <<late, expired, overtaken>>
CallFails(o, m) ==
    /\ pc[o] = m
    /\ UNCHANGED <<expired, overtaken>>
    /\ \/ UNCHANGED <<serverVars, disturbed, late>>
       \/ /\ Cardinality(late) < MaxLate
          /\ late' = late \cup {<<o, m>>}
          /\ UNCHANGED <<serverVars, disturbed>>
       \/ Executes(o, m) /\ UNCHANGED late

\* A physical interface is only dropped from the state.
DeletePhysical(o) ==
    /\ pc[o] = "start" /\ kind[o] = "physical"
    /\ Returns(o, "ok")
    /\ UNCHANGED <<serverVars, late, expired, overtaken, disturbed>>

\* Mutant: stagingMu is not taken.
Begin_NoMutex(o) ==
    /\ pc[o] = "start" /\ kind[o] # "physical"
    /\ Goto(o, "stage")
    /\ UNCHANGED <<serverVars, late, expired, overtaken, disturbed>>

Begin(o) ==
    /\ pc[o] = "start" /\ kind[o] # "physical" /\ stagingMu = None
    /\ stagingMu' = o
    /\ pc' = [pc EXCEPT ![o] = "stage"]
    /\ UNCHANGED <<kind, out, serverVars, late, expired, overtaken, disturbed>>

\* interface.create, interface.update or interface.delete.
StageOK(o) == Answered(o, "stage") /\ Goto(o, "commit")

\* It fails: discard what is staged.
StageFails(o) == CallFails(o, "stage") /\ Goto(o, "rollback")

\* Delete takes "not found" for success: nothing was staged.
DeleteNotFound(o) ==
    /\ pc[o] = "stage" /\ kind[o] = "delete" /\ Refused(o)
    /\ Returns(o, "ok")
    /\ UNCHANGED <<serverVars, late, expired, overtaken, disturbed>>

\* commitAndCheckin.
CommitOK(o) == Answered(o, "commit") /\ Goto(o, "checkin")

\* Mutant: the staged changes stay when the commit fails.
CommitFails_NoRollback(o) == CallFails(o, "commit") /\ Returns(o, "failed")

CommitFails(o) == CallFails(o, "commit") /\ Goto(o, "rollback")

\* Mutant: checkin is left to somebody else, as if commit had confirmed.
CheckinOK_Skipped(o) ==
    /\ pc[o] = "checkin"
    /\ IF kind[o] = "delete" THEN Returns(o, "ok") ELSE Goto(o, "read")
    /\ UNCHANGED <<serverVars, late, expired, overtaken, disturbed>>

\* Delete is done; Create and Update read the interface back.
CheckinOK(o) ==
    /\ Answered(o, "checkin")
    /\ IF kind[o] = "delete" THEN Returns(o, "ok") ELSE Goto(o, "read")

CheckinFails(o) == CallFails(o, "checkin") /\ Returns(o, "unconfirmed")

RollbackOK(o) == Answered(o, "rollback") /\ Returns(o, "failed")

RollbackFails(o) == CallFails(o, "rollback") /\ Returns(o, "dirty")

\* getInstance and State.Set, or "Read-back after create failed".  What was
\* read is compared with the plan by Terraform: a different value is an error.
ReadBack(o) ==
    /\ pc[o] = "read"
    /\ \/ live[o] = Target(o) /\ Returns(o, "ok")
       \/ Returns(o, "unread")
    /\ UNCHANGED <<serverVars, late, expired, overtaken, disturbed>>

\* The handler returns and unlocks.
Finish(o) ==
    /\ pc[o] = "return"
    /\ pc' = [pc EXCEPT ![o] = "done"]
    /\ stagingMu' = IF stagingMu = o THEN None ELSE stagingMu
    /\ UNCHANGED <<kind, out, serverVars, late, expired, overtaken, disturbed>>

OpStep(o) ==
    \/ DeletePhysical(o) \/ Begin(o) \/ StageOK(o) \/ StageFails(o) \/ DeleteNotFound(o)
    \/ CommitOK(o) \/ CommitFails(o) \/ CheckinOK(o) \/ CheckinFails(o) \/ RollbackOK(o) \/ RollbackFails(o)
    \/ ReadBack(o) \/ Finish(o)

Next == (\E o \in Ops : OpStep(o)) \/ TimerFires \/ LateRequest

Spec == Init /\ [][Next]_vars

(***************************************************************************)
(* Properties.                                                             *)
(***************************************************************************)
\* stagingMu: no handler, and no timer, applies, keeps or discards the change
\* that another handler has open, unless some handler's rollback or checkin
\* failed, or the server executed a request after the handler that gave it up
\* had returned.  Calls without an answer and timers that fire are no excuse.
StagedApart ==
    disturbed # {} =>
        \E o \in Ops : o \in overtaken \/ out[o] \in {"dirty", "unconfirmed"}

\* A handler whose change was refused or not committed, and whose rollback was
\* answered, leaves no trace of the change, staged or live, whether or not the
\* server had executed the calls that failed (Create, commitAndCheckin).  Only
\* a request of its own that is executed after it has returned, or a handler
\* that got at its open change, can leave one.
FailureIsUndone ==
    \A o \in Ops \ (overtaken \cup disturbed) :
        out[o] = "failed" => db[o] = live[o] /\ live[o] \in Before(o) /\ o \notin open

\* The change of o is in effect and nothing of it waits to be kept.
InEffect(o) == live[o] = Target(o) /\ db[o] = Target(o) /\ o \notin open

\* A change reported as applied is applied and stays, whatever the timers, the
\* other handlers and their late requests do, unless one of them got at it while
\* it was open.  Create and Update read the interface back, so the change is
\* there even if their own timer fired; Delete does not, and is wrong in exactly
\* that case (SuccessIsFinal).
SuccessIsKept ==
    \A o \in Ops \ disturbed :
        out[o] = "ok" /\ kind[o] # "physical" => InEffect(o) \/ (kind[o] = "delete" /\ o \in expired)

\* "commit arms an auto-rollback timer, and checkin (reached over the same
\* connection) proves connectivity survived and cancels the timer": a handler
\* whose checkin was answered has its change in effect.
SuccessIsFinal ==
    \A o \in Ops \ disturbed : out[o] = "ok" /\ kind[o] # "physical" => InEffect(o)
=============================================================================
