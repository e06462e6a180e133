----------------------- MODULE InterfaceStagingProofs -----------------------
(***************************************************************************)
(* Proofs about InterfaceStaging, for every number of handlers and of      *)
(* abandoned requests.                                                     *)
(***************************************************************************)
EXTENDS InterfaceStaging, TLAPS

(***************************************************************************)
(* The inductive invariant.                                                *)
(***************************************************************************)
\* An outcome is set exactly when the handler is over, only a deletion of a
\* physical interface does without stagingMu, and only Create and Update read
\* the interface back.
HandlerInv ==
    /\ \A o \in Ops : out[o] = "none" <=> ~Over(o)
    /\ \A o \in Ops : kind[o] = "physical" => pc[o] \in {"start", "return", "done"}
    /\ \A o \in Ops : pc[o] = "read" => kind[o] # "delete"
    /\ \A o \in Ops : stagingMu = o <=> kind[o] # "physical" /\ pc[o] \notin {"start", "done"}

\* A request is abandoned only by a handler that goes on to fail, and before
\* its rollback only by one whose stage or commit failed.
LateInv ==
    \A r \in late : /\ pc[r[1]] \in {"rollback", "return", "done"}
                    /\ pc[r[1]] = "rollback" => r[2] \in {"stage", "commit"}
                    /\ out[r[1]] # "ok"

\* Only a commit that the server executed arms the timer.
TimerInv == \A o \in Ops : armed = o => pc[o] \notin {"start", "stage", "commit"}

\* Nothing of o waits to be applied, kept or rolled back.
Resting(o) ==
    /\ o \notin open
    /\ db[o] = live[o]
    /\ saved # None => saved[o] = live[o]

\* Something of o does, and a rollback restores what was there before o.
Pending(o) ==
    /\ o \in open
    /\ saved # None
    /\ saved[o] \in Before(o) /\ db[o] = Target(o)

\* The interface of o is as it was before o; its change is staged; its change
\* is in effect until a rollback; its change is in effect for good.
Neutral(o)   == Resting(o) /\ live[o] \in Before(o)
Staged(o)    == Pending(o) /\ live[o] = saved[o]
Committed(o) == Pending(o) /\ live[o] = Target(o)
Kept(o)      == Resting(o) /\ live[o] = Target(o)

\* How far the change of o is while o is at a label and once it has returned,
\* if no other handler got at it and none of o's requests came after its return.
ProgressInv ==
    \A o \in Ops \ (overtaken \cup disturbed) :
        /\ pc[o] \in {"start", "stage"} \/ out[o] = "failed" => Neutral(o)
        /\ pc[o] = "commit" => Staged(o)
        /\ pc[o] = "rollback" => Neutral(o) \/ Staged(o) \/ Committed(o)
        /\ pc[o] = "checkin" => Committed(o) \/ (Neutral(o) /\ o \in expired)
        /\ pc[o] = "read" => Kept(o) \/ Neutral(o)
        /\ out[o] = "ok" /\ kind[o] # "physical" =>
             Kept(o) \/ (kind[o] = "delete" /\ o \in expired)

\* No rollback and no checkin failed, and no request came too late.
Calm == overtaken = {} /\ \A o \in Ops : out[o] \notin {"dirty", "unconfirmed"}

\* Then only the holder of stagingMu has a change open or a timer running, and
\* leaves neither behind.
ApartInv ==
    Calm =>
        /\ disturbed = {}
        /\ open \subseteq {stagingMu} /\ armed \in {None, stagingMu}
        /\ \A o \in Ops : stagingMu = o /\ pc[o] \in {"stage", "read", "return"} =>
             open = {} /\ armed = None

IInv == TypeOK /\ HandlerInv /\ LateInv /\ TimerInv /\ ProgressInv /\ ApartInv

(***************************************************************************)
(* The server's operations.                                                *)
(***************************************************************************)
\* What the proofs need of the constants.
LEMMA StagingFacts ==
    /\ None \notin Ops /\ None \notin [Ops -> Configs]
  BY StagingAssumption DEF Configs

USE StagingFacts

TypeServer ==
    /\ live \in [Ops -> Configs] /\ db \in [Ops -> Configs]
    /\ saved \in [Ops -> Configs] \cup {None}
    /\ armed \in Ops \cup {None}
    /\ open \subseteq Ops /\ disturbed \subseteq Ops

\* What a request executed on behalf of p does to the server's state, for a
\* handler's own request, a late one and the timer alike.
Serves(p) ==
    \/ UNCHANGED <<serverVars, disturbed>>
    \/ \E m \in Methods : Executes(p, m)

\* Whatever the server executes leaves its state well typed.
LEMMA ServesTyped ==
    ASSUME TypeServer, NEW p \in Ops, Serves(p), kind' = kind
    PROVE  TypeServer' /\ disturbed \subseteq disturbed'
  <1> USE DEF TypeServer, serverVars
  <1>0. Target(p) \in Configs
    BY DEF Target, Configs
  <1>1. CASE UNCHANGED <<serverVars, disturbed>>
    BY <1>1
  <1>2. CASE Stage(p)
    BY <1>0, <1>2 DEF Stage
  <1>3. CASE Commit(p)
    BY <1>3 DEF Commit
  <1>4. CASE Checkin(p)
    BY <1>4 DEF Checkin
  <1>5. CASE Rollback(p)
    BY <1>5 DEF Rollback
  <1> QED
    BY <1>1, <1>2, <1>3, <1>4, <1>5 DEF Serves, Executes

\* What the server executes for other handlers changes nothing of a handler's
\* interface while nothing of it is open.
LEMMA OthersKeepResting ==
    ASSUME TypeServer, NEW o \in Ops, NEW p \in Ops, p # o, Serves(p), Resting(o)
    PROVE  Resting(o)' /\ live'[o] = live[o]
  <1> USE DEF TypeServer, Resting, serverVars
  <1>1. CASE UNCHANGED <<serverVars, disturbed>>
    BY <1>1
  <1>2. CASE Stage(p)
    BY <1>2 DEF Stage
  <1>3. CASE Commit(p)
    BY <1>3 DEF Commit
  <1>4. CASE Checkin(p)
    BY <1>4 DEF Checkin
  <1>5. CASE Rollback(p)
    BY <1>5 DEF Rollback
  <1> QED
    BY <1>1, <1>2, <1>3, <1>4, <1>5 DEF Serves, Executes

\* Neither does it while something is open, or the handler is disturbed.
LEMMA OthersKeepPending ==
    ASSUME TypeServer, NEW o \in Ops, NEW p \in Ops, p # o, Serves(p), kind' = kind, Pending(o)
    PROVE  (Pending(o)' /\ live'[o] = live[o] /\ saved'[o] = saved[o]) \/ o \in disturbed'
  <1> USE DEF TypeServer, Pending, serverVars
  <1>0. Before(o)' = Before(o) /\ Target(o)' = Target(o)
    BY DEF Before, Target
  <1>1. CASE UNCHANGED <<serverVars, disturbed>>
    BY <1>0, <1>1
  <1>2. CASE Stage(p)
    BY <1>0, <1>2 DEF Stage
  <1>3. CASE Commit(p)
    BY <1>3 DEF Commit
  <1>4. CASE Checkin(p)
    BY <1>4 DEF Checkin
  <1>5. CASE Rollback(p)
    BY <1>5 DEF Rollback
  <1> QED
    BY <1>1, <1>2, <1>3, <1>4, <1>5 DEF Serves, Executes

\* A rollback on behalf of o, its timer's too, undoes what o has open.
LEMMA RollbackUndoes ==
    ASSUME TypeServer, NEW o \in Ops, Rollback(o), kind' = kind,
           Neutral(o) \/ Staged(o) \/ Committed(o)
    PROVE  Neutral(o)'
  <1>0. Before(o)' = Before(o)
    BY DEF Before
  <1> QED
    BY <1>0 DEF TypeServer, Neutral, Staged, Committed, Resting, Pending, Rollback

\* It leaves a change alone that was kept.
LEMMA RollbackKeeps ==
    ASSUME TypeServer, NEW o \in Ops, Rollback(o), kind' = kind, Kept(o)
    PROVE  Kept(o)'
  BY DEF TypeServer, Kept, Resting, Rollback, Target

\* Staging changes nothing but the staged configuration, and can be undone.
LEMMA StageStages ==
    ASSUME TypeServer, NEW o \in Ops, Stage(o), kind' = kind
    PROVE  /\ Neutral(o) \/ Staged(o) => Staged(o)'
           /\ Committed(o) => Committed(o)'
  <1>0. Before(o)' = Before(o) /\ Target(o)' = Target(o)
    BY DEF Before, Target
  <1> QED
    BY <1>0 DEF TypeServer, Neutral, Staged, Committed, Resting, Pending, Stage

\* A commit puts what is staged into effect, and can be undone.
LEMMA CommitCommits ==
    ASSUME TypeServer, NEW o \in Ops, Commit(o), kind' = kind
    PROVE  /\ Neutral(o) => Neutral(o)'
           /\ Staged(o) \/ Committed(o) => Committed(o)'
  <1>0. Before(o)' = Before(o) /\ Target(o)' = Target(o)
    BY DEF Before, Target
  <1> QED
    BY <1>0 DEF TypeServer, Neutral, Staged, Committed, Resting, Pending, Commit

\* A checkin makes it final; what is gone already stays gone.
LEMMA CheckinKeeps ==
    ASSUME TypeServer, NEW o \in Ops, Checkin(o), kind' = kind
    PROVE  /\ Committed(o) => Kept(o)'
           /\ Neutral(o) => Neutral(o)'
  <1>0. Before(o)' = Before(o) /\ Target(o)' = Target(o)
    BY DEF Before, Target
  <1> QED
    BY <1>0 DEF TypeServer, Neutral, Committed, Kept, Resting, Pending, Checkin

\* A step that is none of the server's changes none of this.
LEMMA IdleKeeps ==
    ASSUME NEW o \in Ops, UNCHANGED serverVars, kind' = kind
    PROVE  /\ Neutral(o) => Neutral(o)'
           /\ Staged(o) => Staged(o)'
           /\ Committed(o) => Committed(o)'
           /\ Kept(o) => Kept(o)'
  <1>0. Before(o)' = Before(o) /\ Target(o)' = Target(o)
    BY DEF Before, Target
  <1> QED
    BY <1>0 DEF serverVars, Neutral, Staged, Committed, Kept, Resting, Pending

\* What another handler's request leaves of a handler's progress.
LEMMA OthersKeep ==
    ASSUME TypeServer, NEW o \in Ops, NEW p \in Ops, p # o, Serves(p), kind' = kind,
           o \notin disturbed'
    PROVE  /\ Neutral(o) => Neutral(o)'
           /\ Staged(o) => Staged(o)'
           /\ Committed(o) => Committed(o)'
           /\ Kept(o) => Kept(o)'
  <1>0. Before(o)' = Before(o) /\ Target(o)' = Target(o)
    BY DEF Before, Target
  <1>1. Resting(o) => Resting(o)' /\ live'[o] = live[o]
    BY OthersKeepResting
  <1>2. Pending(o) => Pending(o)' /\ live'[o] = live[o] /\ saved'[o] = saved[o]
    BY OthersKeepPending
  <1> QED
    BY <1>0, <1>1, <1>2 DEF Neutral, Staged, Committed, Kept

\* The requests of o whose calls may fail before its rollback leave its change
\* where a rollback undoes it.
LEMMA RetriesUndoable ==
    ASSUME TypeServer, NEW o \in Ops, NEW m \in {"stage", "commit", "rollback"}, Executes(o, m),
           kind' = kind, Neutral(o) \/ Staged(o) \/ Committed(o)
    PROVE  Neutral(o)' \/ Staged(o)' \/ Committed(o)'
  <1>1. CASE Stage(o)
    BY <1>1, StageStages
  <1>2. CASE Commit(o)
    BY <1>2, CommitCommits
  <1>3. CASE Rollback(o)
    BY <1>3, RollbackUndoes
  <1> QED
    BY <1>1, <1>2, <1>3 DEF Executes

(***************************************************************************)
(* Every step of a handler is one step of the server at most.              *)
(***************************************************************************)
\* A handler's step leaves the others' progress alone and makes the server
\* execute at most one request, on its behalf.
LEMMA OpStepServes ==
    ASSUME TypeOK, NEW p \in Ops, OpStep(p)
    PROVE  /\ Serves(p)
           /\ kind' = kind /\ expired' = expired
           /\ overtaken' = overtaken
           /\ \A o \in Ops : o # p => pc'[o] = pc[o] /\ out'[o] = out[o]
           /\ late \subseteq late' /\ late' \subseteq late \cup ({p} \X Methods)
  <1> USE DEF TypeOK, Serves, Methods, Answered, CallFails, Goto, Returns, serverVars
  <1>1. CASE DeletePhysical(p)
    BY <1>1 DEF DeletePhysical
  <1>2. CASE Begin(p)
    BY <1>2 DEF Begin
  <1>3. CASE StageOK(p)
    BY <1>3 DEF StageOK
  <1>4. CASE StageFails(p)
    BY <1>4 DEF StageFails
  <1>5. CASE DeleteNotFound(p)
    BY <1>5 DEF DeleteNotFound
  <1>6. CASE CommitOK(p)
    BY <1>6 DEF CommitOK
  <1>7. CASE CommitFails(p)
    BY <1>7 DEF CommitFails
  <1>8. CASE CheckinOK(p)
    BY <1>8 DEF CheckinOK
  <1>9. CASE CheckinFails(p)
    BY <1>9 DEF CheckinFails
  <1>10. CASE RollbackOK(p)
    BY <1>10 DEF RollbackOK
  <1>11. CASE RollbackFails(p)
    BY <1>11 DEF RollbackFails
  <1>12. CASE ReadBack(p)
    BY <1>12 DEF ReadBack
  <1>13. CASE Finish(p)
    BY <1>13 DEF Finish
  <1> QED
    BY <1>1, <1>2, <1>3, <1>4, <1>5, <1>6, <1>7, <1>8, <1>9, <1>10, <1>11, <1>12, <1>13
       DEF OpStep

\* A handler's step executes nothing, or the request it is at.
LEMMA OpExecutes ==
    ASSUME TypeOK, NEW p \in Ops, OpStep(p)
    PROVE  UNCHANGED <<serverVars, disturbed>> \/ (pc[p] \in Methods /\ Executes(p, pc[p]))
  <1> USE DEF Methods, Answered, CallFails, serverVars
  <1>1. CASE DeletePhysical(p)
    BY <1>1 DEF DeletePhysical
  <1>2. CASE Begin(p)
    BY <1>2 DEF Begin
  <1>3. CASE StageOK(p)
    BY <1>3 DEF StageOK
  <1>4. CASE StageFails(p)
    BY <1>4 DEF StageFails
  <1>5. CASE DeleteNotFound(p)
    BY <1>5 DEF DeleteNotFound
  <1>6. CASE CommitOK(p)
    BY <1>6 DEF CommitOK
  <1>7. CASE CommitFails(p)
    BY <1>7 DEF CommitFails
  <1>8. CASE CheckinOK(p)
    BY <1>8 DEF CheckinOK
  <1>9. CASE CheckinFails(p)
    BY <1>9 DEF CheckinFails
  <1>10. CASE RollbackOK(p)
    BY <1>10 DEF RollbackOK
  <1>11. CASE RollbackFails(p)
    BY <1>11 DEF RollbackFails
  <1>12. CASE ReadBack(p)
    BY <1>12 DEF ReadBack
  <1>13. CASE Finish(p)
    BY <1>13 DEF Finish
  <1> QED
    BY <1>1, <1>2, <1>3, <1>4, <1>5, <1>6, <1>7, <1>8, <1>9, <1>10, <1>11, <1>12, <1>13
       DEF OpStep

\* So does the timer, for the handler whose commit armed it.
LEMMA TimerServes ==
    ASSUME TypeOK, TimerFires
    PROVE  armed \in Ops /\ Rollback(armed) /\ Serves(armed) /\ UNCHANGED <<handlerVars, late, overtaken>>
  BY DEF TypeOK, TimerFires, Serves, Executes, Methods

\* So does an abandoned request, for the handler that gave it up.
LEMMA LateServes ==
    ASSUME TypeOK, LateRequest
    PROVE  \E r \in late :
             /\ r[1] \in Ops /\ r[2] \in Methods /\ Serves(r[1])
             /\ late' = late \ {r} /\ UNCHANGED <<handlerVars, expired>>
             /\ \/ UNCHANGED <<serverVars, disturbed, overtaken>>
                \/ /\ Executes(r[1], r[2])
                   /\ overtaken' = IF Over(r[1]) THEN overtaken \cup {r[1]} ELSE overtaken
  BY DEF TypeOK, LateRequest, Serves, Methods

(***************************************************************************)
(* The invariant holds initially and is kept by every step.                *)
(***************************************************************************)
\* The invariant holds before any handler has started.
LEMMA InitIInv == Init => IInv
  <1> SUFFICES ASSUME Init PROVE IInv
    OBVIOUS
  <1> USE DEF Init
  <1>1. TypeOK
    BY DEF TypeOK, Configs, Methods
  <1>2. HandlerInv
    BY DEF HandlerInv, Over
  <1>3. LateInv /\ TimerInv
    BY DEF LateInv, TimerInv
  <1>4. ProgressInv
    BY DEF ProgressInv, Neutral, Resting
  <1>5. ApartInv
    BY DEF ApartInv
  <1> QED
    BY <1>1, <1>2, <1>3, <1>4, <1>5 DEF IInv

\* Every step keeps the state well typed.
LEMMA NextTypeOK == TypeOK /\ [Next]_vars => TypeOK'
  <1> SUFFICES ASSUME TypeOK, [Next]_vars PROVE TypeOK'
    OBVIOUS
  <1>0. TypeServer
    BY DEF TypeOK, TypeServer
  <1>1. ASSUME NEW p \in Ops, OpStep(p) PROVE TypeOK'
    <2> DEFINE TypeHandler == /\ pc \in [Ops -> {"start", "read", "return", "done"} \cup Methods]
                              /\ out \in [Ops -> {"none", "ok", "failed", "dirty", "unconfirmed", "unread"}]
                              /\ stagingMu \in Ops \cup {None}
    <2>1. TypeHandler'
      <3> USE DEF TypeOK, Methods, Answered, CallFails, Goto, Returns
      <3>1. CASE DeletePhysical(p)
        BY <3>1 DEF DeletePhysical
      <3>2. CASE Begin(p)
        BY <3>2 DEF Begin
      <3>3. CASE StageOK(p)
        BY <3>3 DEF StageOK
      <3>4. CASE StageFails(p)
        BY <3>4 DEF StageFails
      <3>5. CASE DeleteNotFound(p)
        BY <3>5 DEF DeleteNotFound
      <3>6. CASE CommitOK(p)
        BY <3>6 DEF CommitOK
      <3>7. CASE CommitFails(p)
        BY <3>7 DEF CommitFails
      <3>8. CASE CheckinOK(p)
        BY <3>8 DEF CheckinOK
      <3>9. CASE CheckinFails(p)
        BY <3>9 DEF CheckinFails
      <3>10. CASE RollbackOK(p)
        BY <3>10 DEF RollbackOK
      <3>11. CASE RollbackFails(p)
        BY <3>11 DEF RollbackFails
      <3>12. CASE ReadBack(p)
        BY <3>12 DEF ReadBack
      <3>13. CASE Finish(p)
        BY <3>13 DEF Finish
      <3> QED
        BY <1>1, <3>1, <3>2, <3>3, <3>4, <3>5, <3>6, <3>7, <3>8,
           <3>9, <3>10, <3>11, <3>12, <3>13
           DEF OpStep
    <2>2. TypeServer'
      BY <1>0, <1>1, OpStepServes, ServesTyped
    <2>3. overtaken' \subseteq Ops /\ expired' \subseteq Ops /\ late' \subseteq Ops \X Methods /\ kind' = kind
      BY <1>1, OpStepServes DEF TypeOK
    <2> QED
      BY <2>1, <2>2, <2>3 DEF TypeOK, TypeServer
  <1>2. ASSUME TimerFires PROVE TypeOK'
    <2>1. armed \in Ops /\ Serves(armed) /\ UNCHANGED <<handlerVars, late, overtaken>> /\ kind' = kind
      BY <1>2, TimerServes DEF handlerVars
    <2>2. TypeServer'
      BY <1>0, <2>1, ServesTyped
    <2> QED
      BY <1>2, <2>1, <2>2 DEF TypeOK, TypeServer, TimerFires, handlerVars
  <1>3. ASSUME LateRequest PROVE TypeOK'
    <2>1. PICK r \in late : /\ r[1] \in Ops /\ Serves(r[1])
                            /\ late' = late \ {r} /\ UNCHANGED <<handlerVars, expired>>
                            /\ overtaken' \subseteq overtaken \cup {r[1]}
      BY <1>3, LateServes
    <2>2. TypeServer'
      BY <1>0, <2>1, ServesTyped DEF handlerVars
    <2> QED
      BY <2>1, <2>2 DEF TypeOK, TypeServer, handlerVars
  <1>4. ASSUME UNCHANGED vars PROVE TypeOK'
    BY <1>4 DEF TypeOK, vars, handlerVars, serverVars
  <1> QED
    BY <1>1, <1>2, <1>3, <1>4 DEF Next

\* stagingMu passes from one handler to the next.
LEMMA NextHandler == TypeOK /\ HandlerInv /\ [Next]_vars => HandlerInv'
  <1> SUFFICES ASSUME TypeOK, HandlerInv, [Next]_vars PROVE HandlerInv'
    OBVIOUS
  <1> USE DEF HandlerInv, Over
  <1>1. ASSUME NEW p \in Ops, OpStep(p) PROVE HandlerInv'
    <2>0. kind' = kind
      BY <1>1, OpStepServes
    <2>a. /\ pc \in [Ops -> {"start", "read", "return", "done"} \cup Methods]
          /\ out \in [Ops -> {"none", "ok", "failed", "dirty", "unconfirmed", "unread"}]
          /\ stagingMu \in Ops \cup {None}
      BY DEF TypeOK
    <2> USE DEF Methods, Answered, CallFails, Goto, Returns
    <2>1. CASE DeletePhysical(p)
      BY <2>0, <2>a, <2>1 DEF DeletePhysical
    <2>2. CASE Begin(p)
      BY <2>0, <2>a, <2>2 DEF Begin
    <2>3. CASE StageOK(p)
      BY <2>0, <2>a, <2>3 DEF StageOK
    <2>4. CASE StageFails(p)
      BY <2>0, <2>a, <2>4 DEF StageFails
    <2>5. CASE DeleteNotFound(p)
      BY <2>0, <2>a, <2>5 DEF DeleteNotFound
    <2>6. CASE CommitOK(p)
      BY <2>0, <2>a, <2>6 DEF CommitOK
    <2>7. CASE CommitFails(p)
      BY <2>0, <2>a, <2>7 DEF CommitFails
    <2>8. CASE CheckinOK(p)
      BY <2>0, <2>a, <2>8 DEF CheckinOK
    <2>9. CASE CheckinFails(p)
      BY <2>0, <2>a, <2>9 DEF CheckinFails
    <2>10. CASE RollbackOK(p)
      BY <2>0, <2>a, <2>10 DEF RollbackOK
    <2>11. CASE RollbackFails(p)
      BY <2>0, <2>a, <2>11 DEF RollbackFails
    <2>12. CASE ReadBack(p)
      BY <2>0, <2>a, <2>12 DEF ReadBack
    <2>13. CASE Finish(p)
      BY <2>0, <2>a, <2>13 DEF Finish
    <2> QED
      BY <1>1, <2>1, <2>2, <2>3, <2>4, <2>5, <2>6, <2>7, <2>8,
         <2>9, <2>10, <2>11, <2>12, <2>13
         DEF OpStep
  <1>2. ASSUME TimerFires PROVE HandlerInv'
    BY <1>2 DEF TimerFires, handlerVars
  <1>3. ASSUME LateRequest PROVE HandlerInv'
    BY <1>3 DEF LateRequest, handlerVars
  <1>4. ASSUME UNCHANGED vars PROVE HandlerInv'
    BY <1>4 DEF vars, handlerVars, serverVars
  <1> QED
    BY <1>1, <1>2, <1>3, <1>4 DEF Next

\* Only failing calls are abandoned, and a handler whose call failed reports it.
LEMMA NextLate == TypeOK /\ HandlerInv /\ LateInv /\ [Next]_vars => LateInv'
  <1> SUFFICES ASSUME TypeOK, HandlerInv, LateInv, [Next]_vars PROVE LateInv'
    OBVIOUS
  <1> USE DEF LateInv
  <1>1. ASSUME NEW p \in Ops, OpStep(p) PROVE LateInv'
    <2>0. /\ late \subseteq Ops \X Methods
          /\ \A r \in late : /\ pc[r[1]] \in {"rollback", "return", "done"}
                            /\ pc[r[1]] = "rollback" => r[2] \in {"stage", "commit"}
                            /\ out[r[1]] # "ok"
          /\ pc[p] \in Methods => out[p] = "none"
      BY DEF TypeOK, HandlerInv, Over, Methods
    <2>a. /\ pc \in [Ops -> {"start", "read", "return", "done"} \cup Methods]
          /\ out \in [Ops -> {"none", "ok", "failed", "dirty", "unconfirmed", "unread"}]
          /\ stagingMu \in Ops \cup {None}
      BY DEF TypeOK
    <2> USE DEF Methods, Answered, CallFails, Goto, Returns
    <2>1. CASE DeletePhysical(p)
      BY <2>0, <2>a, <2>1 DEF DeletePhysical
    <2>2. CASE Begin(p)
      BY <2>0, <2>a, <2>2 DEF Begin
    <2>3. CASE StageOK(p)
      BY <2>0, <2>a, <2>3 DEF StageOK
    <2>4. CASE StageFails(p)
      <3>1. /\ late' \subseteq late \cup {<<p, "stage">>} /\ pc' = [pc EXCEPT ![p] = "rollback"]
            /\ out' = out /\ out[p] = "none"
        BY <2>0, <2>4 DEF StageFails
      <3>2. pc'[p] = "rollback" /\ \A q \in Ops : q # p => pc'[q] = pc[q]
        BY <2>a, <3>1
      <3>3. ASSUME NEW r \in late', r \in late
            PROVE  /\ pc'[r[1]] \in {"rollback", "return", "done"}
                   /\ pc'[r[1]] = "rollback" => r[2] \in {"stage", "commit"}
                   /\ out'[r[1]] # "ok"
        <4>1. r[1] \in Ops /\ r[1] # p
          BY <2>0, <2>4, <3>3 DEF StageFails
        <4> QED
          BY <2>0, <3>1, <3>2, <3>3, <4>1
      <3>4. ASSUME NEW r \in late', r = <<p, "stage">>
            PROVE  /\ pc'[r[1]] \in {"rollback", "return", "done"}
                   /\ pc'[r[1]] = "rollback" => r[2] \in {"stage", "commit"}
                   /\ out'[r[1]] # "ok"
        BY <3>1, <3>2, <3>4
      <3> QED
        BY <3>1, <3>3, <3>4
    <2>5. CASE DeleteNotFound(p)
      BY <2>0, <2>a, <2>5 DEF DeleteNotFound
    <2>6. CASE CommitOK(p)
      BY <2>0, <2>a, <2>6 DEF CommitOK
    <2>7. CASE CommitFails(p)
      <3>1. /\ late' \subseteq late \cup {<<p, "commit">>} /\ pc' = [pc EXCEPT ![p] = "rollback"]
            /\ out' = out /\ out[p] = "none"
        BY <2>0, <2>7 DEF CommitFails
      <3>2. pc'[p] = "rollback" /\ \A q \in Ops : q # p => pc'[q] = pc[q]
        BY <2>a, <3>1
      <3>3. ASSUME NEW r \in late', r \in late
            PROVE  /\ pc'[r[1]] \in {"rollback", "return", "done"}
                   /\ pc'[r[1]] = "rollback" => r[2] \in {"stage", "commit"}
                   /\ out'[r[1]] # "ok"
        <4>1. r[1] \in Ops /\ r[1] # p
          BY <2>0, <2>7, <3>3 DEF CommitFails
        <4> QED
          BY <2>0, <3>1, <3>2, <3>3, <4>1
      <3>4. ASSUME NEW r \in late', r = <<p, "commit">>
            PROVE  /\ pc'[r[1]] \in {"rollback", "return", "done"}
                   /\ pc'[r[1]] = "rollback" => r[2] \in {"stage", "commit"}
                   /\ out'[r[1]] # "ok"
        BY <3>1, <3>2, <3>4
      <3> QED
        BY <3>1, <3>3, <3>4
    <2>8. CASE CheckinOK(p)
      BY <2>0, <2>a, <2>8 DEF CheckinOK
    <2>9. CASE CheckinFails(p)
      BY <2>0, <2>a, <2>9 DEF CheckinFails
    <2>10. CASE RollbackOK(p)
      BY <2>0, <2>a, <2>10 DEF RollbackOK
    <2>11. CASE RollbackFails(p)
      BY <2>0, <2>a, <2>11 DEF RollbackFails
    <2>12. CASE ReadBack(p)
      BY <2>0, <2>a, <2>12 DEF ReadBack
    <2>13. CASE Finish(p)
      BY <2>0, <2>a, <2>13 DEF Finish
    <2> QED
      BY <1>1, <2>1, <2>2, <2>3, <2>4, <2>5, <2>6, <2>7, <2>8,
         <2>9, <2>10, <2>11, <2>12, <2>13
         DEF OpStep
  <1>2. ASSUME TimerFires PROVE LateInv'
    BY <1>2 DEF TimerFires, handlerVars
  <1>3. ASSUME LateRequest PROVE LateInv'
    BY <1>3 DEF LateRequest, handlerVars
  <1>4. ASSUME UNCHANGED vars PROVE LateInv'
    BY <1>4 DEF vars, handlerVars, serverVars
  <1> QED
    BY <1>1, <1>2, <1>3, <1>4 DEF Next

\* The timer is armed by the commit of a handler that goes on from there.
LEMMA NextTimer == TypeOK /\ LateInv /\ TimerInv /\ [Next]_vars => TimerInv'
  <1> SUFFICES ASSUME TypeOK, LateInv, TimerInv, [Next]_vars PROVE TimerInv'
    OBVIOUS
  <1> USE DEF TimerInv
  <1>1. ASSUME NEW p \in Ops, OpStep(p) PROVE TimerInv'
    <2>0. /\ armed \in Ops \cup {None}
          /\ UNCHANGED armed \/ armed' = None \/ (armed' = p /\ pc[p] \notin {"start", "stage"})
      BY <1>1, OpExecutes DEF TypeOK, serverVars, Executes, Stage, Commit, Checkin, Rollback
    <2>a. /\ pc \in [Ops -> {"start", "read", "return", "done"} \cup Methods]
          /\ out \in [Ops -> {"none", "ok", "failed", "dirty", "unconfirmed", "unread"}]
          /\ stagingMu \in Ops \cup {None}
      BY DEF TypeOK
    <2> USE DEF Methods, Answered, CallFails, Goto, Returns
    <2>1. CASE DeletePhysical(p)
      BY <2>0, <2>a, <2>1 DEF DeletePhysical
    <2>2. CASE Begin(p)
      BY <2>0, <2>a, <2>2 DEF Begin
    <2>3. CASE StageOK(p)
      BY <2>0, <2>a, <2>3 DEF StageOK
    <2>4. CASE StageFails(p)
      BY <2>0, <2>a, <2>4 DEF StageFails
    <2>5. CASE DeleteNotFound(p)
      BY <2>0, <2>a, <2>5 DEF DeleteNotFound
    <2>6. CASE CommitOK(p)
      BY <2>0, <2>a, <2>6 DEF CommitOK
    <2>7. CASE CommitFails(p)
      BY <2>0, <2>a, <2>7 DEF CommitFails
    <2>8. CASE CheckinOK(p)
      BY <2>0, <2>a, <2>8 DEF CheckinOK
    <2>9. CASE CheckinFails(p)
      BY <2>0, <2>a, <2>9 DEF CheckinFails
    <2>10. CASE RollbackOK(p)
      BY <2>0, <2>a, <2>10 DEF RollbackOK
    <2>11. CASE RollbackFails(p)
      BY <2>0, <2>a, <2>11 DEF RollbackFails
    <2>12. CASE ReadBack(p)
      BY <2>0, <2>a, <2>12 DEF ReadBack
    <2>13. CASE Finish(p)
      BY <2>0, <2>a, <2>13 DEF Finish
    <2> QED
      BY <1>1, <2>1, <2>2, <2>3, <2>4, <2>5, <2>6, <2>7, <2>8,
         <2>9, <2>10, <2>11, <2>12, <2>13
         DEF OpStep
  <1>2. ASSUME TimerFires PROVE TimerInv'
    BY <1>2 DEF TimerFires, Rollback, handlerVars
  <1>3. ASSUME LateRequest PROVE TimerInv'
    <2>1. PICK r \in late :
             /\ r[1] \in Ops /\ pc' = pc /\ kind' = kind
             /\ UNCHANGED <<serverVars, disturbed, overtaken>> \/ Executes(r[1], r[2])
      BY <1>3, LateServes DEF handlerVars
    <2>2. UNCHANGED armed \/ armed' = None \/ armed' = r[1]
      BY <2>1 DEF serverVars, Executes, Stage, Commit, Checkin, Rollback
    <2>3. pc[r[1]] \in {"rollback", "return", "done"}
      BY DEF LateInv
    <2> QED
      BY <2>1, <2>2, <2>3
  <1>4. ASSUME UNCHANGED vars PROVE TimerInv'
    BY <1>4 DEF vars, handlerVars, serverVars
  <1> QED
    BY <1>1, <1>2, <1>3, <1>4 DEF Next

\* What is known of a handler's change follows its own steps, and nobody else
\* changes it without disturbing the handler or executing a request too late.
LEMMA NextProgress ==
    TypeOK /\ HandlerInv /\ LateInv /\ TimerInv /\ ProgressInv /\ [Next]_vars => ProgressInv'
  <1> SUFFICES ASSUME TypeOK, HandlerInv, LateInv, TimerInv, ProgressInv, [Next]_vars,
                      NEW o \in Ops, o \notin overtaken', o \notin disturbed'
               PROVE  /\ pc'[o] \in {"start", "stage"} \/ out'[o] = "failed" => Neutral(o)'
                      /\ pc'[o] = "commit" => Staged(o)'
                      /\ pc'[o] = "rollback" => Neutral(o)' \/ Staged(o)' \/ Committed(o)'
                      /\ pc'[o] = "checkin" => Committed(o)' \/ (Neutral(o)' /\ o \in expired')
                      /\ pc'[o] = "read" => Kept(o)' \/ Neutral(o)'
                      /\ out'[o] = "ok" /\ kind'[o] # "physical" =>
                           Kept(o)' \/ (kind'[o] = "delete" /\ o \in expired')
    BY DEF ProgressInv
  <1> DEFINE Goal == /\ pc'[o] \in {"start", "stage"} \/ out'[o] = "failed" => Neutral(o)'
                     /\ pc'[o] = "commit" => Staged(o)'
                     /\ pc'[o] = "rollback" => Neutral(o)' \/ Staged(o)' \/ Committed(o)'
                     /\ pc'[o] = "checkin" => Committed(o)' \/ (Neutral(o)' /\ o \in expired')
                     /\ pc'[o] = "read" => Kept(o)' \/ Neutral(o)'
                     /\ out'[o] = "ok" /\ kind'[o] # "physical" =>
                          Kept(o)' \/ (kind'[o] = "delete" /\ o \in expired')
  <1>0. TypeServer
    BY DEF TypeOK, TypeServer
  <1>a. /\ pc \in [Ops -> {"start", "read", "return", "done"} \cup Methods]
        /\ out \in [Ops -> {"none", "ok", "failed", "dirty", "unconfirmed", "unread"}]
        /\ kind \in [Ops -> {"create", "update", "delete", "physical"}]
        /\ out[o] = "none" <=> ~Over(o)
        /\ kind[o] = "physical" => pc[o] \in {"start", "return", "done"}
        /\ pc[o] = "read" => kind[o] # "delete"
    BY DEF TypeOK, HandlerInv
  <1>b. ASSUME o \notin overtaken, o \notin disturbed
        PROVE  /\ pc[o] \in {"start", "stage"} \/ out[o] = "failed" => Neutral(o)
               /\ pc[o] = "commit" => Staged(o)
               /\ pc[o] = "rollback" => Neutral(o) \/ Staged(o) \/ Committed(o)
               /\ pc[o] = "checkin" => Committed(o) \/ (Neutral(o) /\ o \in expired)
               /\ pc[o] = "read" => Kept(o) \/ Neutral(o)
               /\ out[o] = "ok" /\ kind[o] # "physical" =>
                    Kept(o) \/ (kind[o] = "delete" /\ o \in expired)
    BY <1>b DEF ProgressInv
  \* A request of somebody else.
  <1>1. ASSUME NEW p \in Ops, p # o, Serves(p), kind' = kind, o \notin overtaken,
               expired \subseteq expired', pc'[o] = pc[o], out'[o] = out[o]
        PROVE  Goal
    <2>1. o \notin disturbed
      BY <1>0, <1>1, ServesTyped
    <2>2. /\ Neutral(o) => Neutral(o)'
          /\ Staged(o) => Staged(o)'
          /\ Committed(o) => Committed(o)'
          /\ Kept(o) => Kept(o)'
      BY <1>0, <1>1, OthersKeep
    <2> QED
      BY <1>1, <1>b, <2>1, <2>2
  <1>2. ASSUME NEW p \in Ops, OpStep(p) PROVE Goal
    <2>0. /\ Serves(p) /\ kind' = kind /\ expired' = expired /\ overtaken' = overtaken
          /\ \A q \in Ops : q # p => pc'[q] = pc[q] /\ out'[q] = out[q]
      BY <1>2, OpStepServes
    <2>1. CASE p # o
      BY <1>1, <2>0, <2>1
    <2>2. CASE p = o
      <3>0. o \notin overtaken /\ o \notin disturbed
        BY <1>0, <2>0, <2>2, ServesTyped
      <3>1. /\ pc[o] \in {"start", "stage"} \/ out[o] = "failed" => Neutral(o)
            /\ pc[o] = "commit" => Staged(o)
            /\ pc[o] = "rollback" => Neutral(o) \/ Staged(o) \/ Committed(o)
            /\ pc[o] = "checkin" => Committed(o) \/ (Neutral(o) /\ o \in expired)
            /\ pc[o] = "read" => Kept(o) \/ Neutral(o)
            /\ out[o] = "ok" /\ kind[o] # "physical" =>
                 Kept(o) \/ (kind[o] = "delete" /\ o \in expired)
        BY <1>b, <3>0
      <3>2. UNCHANGED serverVars => /\ Neutral(o) => Neutral(o)'
                                    /\ Staged(o) => Staged(o)'
                                    /\ Committed(o) => Committed(o)'
                                    /\ Kept(o) => Kept(o)'
        BY <2>0, IdleKeeps
      <3>3. ASSUME NEW m \in {"stage", "commit"}, CallFails(o, m),
                   Neutral(o) \/ Staged(o) \/ Committed(o)
            PROVE  Neutral(o)' \/ Staged(o)' \/ Committed(o)'
        <4>1. UNCHANGED serverVars \/ Executes(o, m)
          BY <3>3 DEF CallFails
        <4> QED
          BY <1>0, <2>0, <3>2, <3>3, <4>1, RetriesUndoable
      <3> HIDE DEF Goal
      <3>4. CASE DeletePhysical(o)
        <4>1. UNCHANGED serverVars /\ pc'[o] = "return" /\ out'[o] = "ok" /\ kind[o] = "physical"
          BY <1>a, <3>4 DEF DeletePhysical, Returns
        <4> QED
          BY <2>0, <4>1 DEF Goal
      <3>5. CASE Begin(o)
        <4>1. UNCHANGED serverVars /\ pc[o] = "start" /\ pc'[o] = "stage" /\ out'[o] = "none"
          BY <1>a, <3>5 DEF Begin, Over
        <4> QED
          BY <2>0, <3>1, <3>2, <4>1 DEF Goal
      <3>6. CASE StageOK(o)
        <4>1. Stage(o) /\ pc[o] = "stage" /\ pc'[o] = "commit" /\ out'[o] = "none"
          BY <1>a, <3>6 DEF StageOK, Answered, Executes, Goto, Over
        <4>2. Staged(o)'
          BY <1>0, <2>0, <3>1, <4>1, StageStages
        <4> QED
          BY <4>1, <4>2 DEF Goal
      <3>7. CASE StageFails(o)
        <4>1. CallFails(o, "stage") /\ pc[o] = "stage" /\ pc'[o] = "rollback" /\ out'[o] = "none"
          BY <1>a, <3>7 DEF StageFails, CallFails, Goto, Over
        <4> QED
          BY <3>1, <3>3, <4>1 DEF Goal
      <3>8. CASE DeleteNotFound(o)
        <4>1. /\ UNCHANGED serverVars /\ pc[o] = "stage" /\ pc'[o] = "return" /\ out'[o] = "ok"
              /\ kind[o] = "delete" /\ db[o] = "absent"
          BY <1>a, <3>8 DEF DeleteNotFound, Refused, Returns
        <4>2. Kept(o)
          BY <3>1, <4>1 DEF Neutral, Kept, Resting, Target
        <4> QED
          BY <3>2, <4>1, <4>2 DEF Goal
      <3>9. CASE CommitOK(o)
        <4>1. Commit(o) /\ pc[o] = "commit" /\ pc'[o] = "checkin" /\ out'[o] = "none"
          BY <1>a, <3>9 DEF CommitOK, Answered, Executes, Goto, Over
        <4>2. Committed(o)'
          BY <1>0, <2>0, <3>1, <4>1, CommitCommits
        <4> QED
          BY <4>1, <4>2 DEF Goal
      <3>10. CASE CommitFails(o)
        <4>1. CallFails(o, "commit") /\ pc[o] = "commit" /\ pc'[o] = "rollback" /\ out'[o] = "none"
          BY <1>a, <3>10 DEF CommitFails, CallFails, Goto, Over
        <4> QED
          BY <3>1, <3>3, <4>1 DEF Goal
      <3>11. CASE CheckinOK(o)
        <4>1. Checkin(o) /\ pc[o] = "checkin"
          BY <3>11 DEF CheckinOK, Answered, Executes
        <4>2. Kept(o)' \/ (Neutral(o)' /\ o \in expired)
          BY <1>0, <2>0, <3>1, <4>1, CheckinKeeps
        <4>3. \/ kind[o] = "delete" /\ pc'[o] = "return" /\ out'[o] = "ok"
              \/ kind[o] # "delete" /\ pc'[o] = "read" /\ out'[o] = "none"
          BY <1>a, <3>11, <4>1 DEF CheckinOK, Goto, Returns, Over
        <4> QED
          BY <2>0, <4>2, <4>3 DEF Goal
      <3>12. CASE CheckinFails(o)
        <4>1. pc'[o] = "return" /\ out'[o] = "unconfirmed"
          BY <1>a, <3>12 DEF CheckinFails, Returns
        <4> QED
          BY <4>1 DEF Goal
      <3>13. CASE RollbackOK(o)
        <4>1. Rollback(o) /\ pc[o] = "rollback" /\ pc'[o] = "return" /\ out'[o] = "failed"
          BY <1>a, <3>13 DEF RollbackOK, Answered, Executes, Returns
        <4>2. Neutral(o)'
          BY <1>0, <2>0, <3>1, <4>1, RollbackUndoes
        <4> QED
          BY <4>1, <4>2 DEF Goal
      <3>14. CASE RollbackFails(o)
        <4>1. pc'[o] = "return" /\ out'[o] = "dirty"
          BY <1>a, <3>14 DEF RollbackFails, Returns
        <4> QED
          BY <4>1 DEF Goal
      <3>15. CASE ReadBack(o)
        <4>1. /\ UNCHANGED serverVars /\ pc[o] = "read" /\ pc'[o] = "return"
              /\ out'[o] = "unread" \/ (out'[o] = "ok" /\ live[o] = Target(o))
          BY <1>a, <3>15 DEF ReadBack, Returns
        <4>2. live[o] = Target(o) => Kept(o)
          BY <3>1, <4>1 DEF Neutral, Kept
        <4> QED
          BY <3>2, <4>1, <4>2 DEF Goal
      <3>16. CASE Finish(o)
        <4>1. UNCHANGED serverVars /\ pc'[o] = "done" /\ out'[o] = out[o]
          BY <1>a, <3>16 DEF Finish
        <4> QED
          BY <2>0, <3>1, <3>2, <4>1 DEF Goal
      <3> QED
        BY <1>2, <2>2, <3>4, <3>5, <3>6, <3>7, <3>8, <3>9, <3>10, <3>11, <3>12, <3>13, <3>14, <3>15,
           <3>16 DEF OpStep
    <2> QED
      BY <2>1, <2>2
  <1>3. ASSUME TimerFires PROVE Goal
    <2>1. /\ armed \in Ops /\ Rollback(armed) /\ Serves(armed)
          /\ kind' = kind /\ pc' = pc /\ out' = out /\ overtaken' = overtaken
          /\ expired' = expired \cup {armed}
      BY <1>3, TimerServes DEF handlerVars, TimerFires
    <2>2. CASE armed # o
      BY <1>1, <2>1, <2>2
    <2>3. CASE armed = o
      <3>1. o \notin disturbed
        BY <1>0, <2>1, ServesTyped
      <3>2. Neutral(o) \/ Staged(o) \/ Committed(o) => Neutral(o)'
        BY <1>0, <2>1, <2>3, RollbackUndoes
      <3>3. Kept(o) => Kept(o)'
        BY <1>0, <2>1, <2>3, RollbackKeeps
      <3>4. pc[o] # "commit"
        BY <2>3 DEF TimerInv
      <3> QED
        BY <1>b, <2>1, <2>3, <3>1, <3>2, <3>3, <3>4
    <2> QED
      BY <2>2, <2>3
  <1>4. ASSUME LateRequest PROVE Goal
    <2>1. PICK r \in late :
             /\ r[1] \in Ops /\ r[2] \in Methods /\ Serves(r[1])
             /\ late' = late \ {r} /\ UNCHANGED <<handlerVars, expired>>
             /\ \/ UNCHANGED <<serverVars, disturbed, overtaken>>
                \/ /\ Executes(r[1], r[2])
                   /\ overtaken' = IF Over(r[1]) THEN overtaken \cup {r[1]} ELSE overtaken
      BY <1>4, LateServes
    <2>2. o \notin overtaken /\ kind' = kind /\ pc' = pc /\ out' = out /\ expired' = expired
      BY <2>1 DEF handlerVars
    <2>3. CASE r[1] # o
      BY <1>1, <2>1, <2>2, <2>3
    <2>4. CASE r[1] = o /\ UNCHANGED <<serverVars, disturbed, overtaken>>
      <3>1. o \notin disturbed /\ UNCHANGED serverVars
        BY <2>4
      <3> QED
        BY <1>b, <2>2, <3>1, IdleKeeps
    <2>5. CASE r[1] = o /\ Executes(o, r[2]) /\ ~Over(o)
      <3>1. pc[o] = "rollback" /\ r[2] \in {"stage", "commit"} /\ out[o] = "none"
        BY <1>a, <2>5 DEF LateInv, Over
      <3>2. o \notin disturbed
        BY <1>0, <2>1, <2>2, <2>5, ServesTyped
      <3>3. Neutral(o)' \/ Staged(o)' \/ Committed(o)'
        BY <1>0, <1>b, <2>2, <2>5, <3>1, <3>2, RetriesUndoable
      <3> QED
        BY <2>2, <3>1, <3>3
    <2> QED
      BY <2>1, <2>2, <2>3, <2>4, <2>5
  <1>5. ASSUME UNCHANGED vars PROVE Goal
    <2>1. /\ UNCHANGED serverVars /\ kind' = kind /\ pc' = pc /\ out' = out /\ expired' = expired
          /\ o \notin overtaken /\ o \notin disturbed
      BY <1>5 DEF vars, handlerVars
    <2> QED
      BY <1>b, <2>1, IdleKeeps
  <1> QED
    BY <1>2, <1>3, <1>4, <1>5 DEF Next

\* What went wrong stays on record.
LEMMA CalmBefore == TypeOK /\ HandlerInv /\ [Next]_vars /\ Calm' => Calm
  <1> SUFFICES ASSUME TypeOK, HandlerInv, [Next]_vars, Calm' PROVE Calm
    OBVIOUS
  <1> USE DEF Calm
  <1>1. ASSUME NEW p \in Ops, OpStep(p) PROVE Calm
    <2>1. overtaken' = overtaken /\ \A o \in Ops : o # p => out'[o] = out[o]
      BY <1>1, OpStepServes
    <2>2. out[p] \in {"dirty", "unconfirmed"} => out'[p] = out[p]
      <3> SUFFICES ASSUME out[p] \in {"dirty", "unconfirmed"} PROVE out'[p] = out[p]
        OBVIOUS
      <3>1. Over(p)
        BY DEF HandlerInv
      <3>2. Finish(p)
        BY <1>1, <3>1 DEF Over, OpStep, DeletePhysical, Begin, StageOK, StageFails, DeleteNotFound,
              CommitOK, CommitFails, CheckinOK, CheckinFails, RollbackOK, RollbackFails, ReadBack,
              Answered, CallFails
      <3> QED
        BY <3>2 DEF Finish
    <2> QED
      BY <2>1, <2>2
  <1>2. ASSUME TimerFires PROVE Calm
    BY <1>2 DEF TimerFires, handlerVars
  <1>3. ASSUME LateRequest PROVE Calm
    <2>1. out' = out /\ overtaken \subseteq overtaken'
      BY <1>3, LateServes DEF handlerVars
    <2> QED
      BY <2>1
  <1>4. ASSUME UNCHANGED vars PROVE Calm
    BY <1>4 DEF vars, handlerVars
  <1> QED
    BY <1>1, <1>2, <1>3, <1>4 DEF Next

\* What the server executes for the holder of stagingMu stays with the holder.
LEMMA HolderServed ==
    ASSUME NEW p \in Ops, NEW m \in Methods, Executes(p, m), open \subseteq {p}, armed \in {None, p},
           disturbed = {}
    PROVE  /\ open' \subseteq {p} /\ armed' \in {None, p} /\ disturbed' = {}
           /\ m \in {"checkin", "rollback"} => open' = {} /\ armed' = None
  BY DEF Executes, Stage, Commit, Checkin, Rollback, Methods

\* As long as nothing went wrong, the holder of stagingMu has the staging area
\* and the timer to itself and leaves both empty.
LEMMA NextApart == TypeOK /\ HandlerInv /\ LateInv /\ ApartInv /\ [Next]_vars => ApartInv'
  <1> SUFFICES ASSUME TypeOK, HandlerInv, LateInv, ApartInv, [Next]_vars, Calm' PROVE ApartInv'
    BY DEF ApartInv
  <1>0. Calm
    BY CalmBefore
  <1>1. /\ disturbed = {}
        /\ open \subseteq {stagingMu} /\ armed \in {None, stagingMu}
        /\ \A o \in Ops : stagingMu = o /\ pc[o] \in {"stage", "read", "return"} =>
             open = {} /\ armed = None
    BY <1>0 DEF ApartInv
  <1>2. /\ pc \in [Ops -> {"start", "read", "return", "done"} \cup Methods]
        /\ out \in [Ops -> {"none", "ok", "failed", "dirty", "unconfirmed", "unread"}]
        /\ stagingMu \in Ops \cup {None} /\ open \subseteq Ops
        /\ \A o \in Ops : out[o] = "none" <=> ~Over(o)
        /\ \A o \in Ops : stagingMu = o <=> kind[o] # "physical" /\ pc[o] \notin {"start", "done"}
        /\ \A o \in Ops : kind[o] = "physical" => pc[o] \in {"start", "return", "done"}
    BY DEF TypeOK, HandlerInv
  <1>3. ASSUME NEW p \in Ops, OpStep(p) PROVE ApartInv'
    <2>1. out'[p] \notin {"dirty", "unconfirmed"}
      BY DEF Calm
    <2>2. UNCHANGED <<serverVars, disturbed>> \/ (pc[p] \in Methods /\ Executes(p, pc[p]))
      BY <1>3, OpExecutes
    \* A handler at a call holds stagingMu, and keeps it.
    <2>3. CASE pc[p] \in Methods
      <3>1. stagingMu = p
        BY <1>2, <2>3 DEF Methods
      <3>2. stagingMu' = stagingMu /\ \A q \in Ops : q # p => pc'[q] = pc[q]
        <4>1. \A q \in Ops : q # p => pc'[q] = pc[q]
          BY <1>3, OpStepServes
        <4>2. ~DeletePhysical(p) /\ ~Begin(p) /\ ~ReadBack(p) /\ ~Finish(p)
          BY <2>3 DEF Methods, DeletePhysical, Begin, ReadBack, Finish
        <4>3. stagingMu' = stagingMu
          BY <1>3, <4>2 DEF OpStep, StageOK, StageFails, DeleteNotFound, CommitOK, CommitFails,
                CheckinOK, CheckinFails, RollbackOK, RollbackFails, Goto, Returns
        <4> QED
          BY <4>1, <4>3
      <3>3. /\ open' \subseteq {p} /\ armed' \in {None, p} /\ disturbed' = {}
            /\ UNCHANGED serverVars \/ (pc[p] \in {"checkin", "rollback"} => open' = {} /\ armed' = None)
        BY <1>1, <2>2, <3>1, HolderServed DEF serverVars
      <3>4. pc'[p] \in {"stage", "read", "return"} =>
              \/ pc[p] = "stage" /\ UNCHANGED serverVars
              \/ pc[p] \in {"checkin", "rollback"} /\ Executes(p, pc[p])
        BY <1>2, <1>3, <2>1, <2>3 DEF Methods, OpStep, DeletePhysical, Begin, StageOK, StageFails,
              DeleteNotFound, CommitOK, CommitFails, CheckinOK, CheckinFails, RollbackOK,
              RollbackFails, ReadBack, Finish, Goto, Returns, Answered
      <3>5. pc'[p] \in {"stage", "read", "return"} => open' = {} /\ armed' = None
        <4>1. CASE pc[p] = "stage" /\ UNCHANGED serverVars
          BY <1>1, <3>1, <4>1 DEF serverVars
        <4>2. CASE pc[p] \in {"checkin", "rollback"} /\ Executes(p, pc[p])
          BY <1>1, <2>3, <3>1, <4>2, HolderServed
        <4> QED
          BY <3>4, <4>1, <4>2
      <3> QED
        BY <3>1, <3>2, <3>3, <3>5 DEF ApartInv
    <2>4. CASE pc[p] \notin Methods
      <3>0. UNCHANGED <<open, armed, disturbed>>
        BY <2>2, <2>4 DEF serverVars
      <3>1. CASE DeletePhysical(p)
        <4>1. stagingMu # p /\ stagingMu' = stagingMu /\ \A q \in Ops : q # p => pc'[q] = pc[q]
          BY <1>2, <3>1 DEF DeletePhysical, Returns
        <4> QED
          BY <1>1, <3>0, <4>1 DEF ApartInv
      <3>2. CASE Begin(p)
        <4>1. stagingMu = None /\ stagingMu' = p
          BY <3>2 DEF Begin
        <4>2. open = {} /\ armed = None
          BY <1>1, <1>2, <4>1
        <4> QED
          BY <1>1, <3>0, <4>1, <4>2 DEF ApartInv
      <3>3. CASE ReadBack(p)
        <4>1. pc[p] = "read" /\ stagingMu' = stagingMu /\ \A q \in Ops : q # p => pc'[q] = pc[q]
          BY <1>2, <3>3 DEF ReadBack, Returns
        <4>2. stagingMu = p
          BY <1>2, <4>1
        <4> QED
          BY <1>1, <3>0, <4>1, <4>2 DEF ApartInv
      <3>4. CASE Finish(p)
        <4>1. /\ pc[p] = "return" /\ pc'[p] = "done"
              /\ stagingMu' = (IF stagingMu = p THEN None ELSE stagingMu)
              /\ \A q \in Ops : q # p => pc'[q] = pc[q]
          BY <1>2, <3>4 DEF Finish
        <4>2. stagingMu = p => open = {} /\ armed = None
          BY <1>1, <4>1
        <4> QED
          BY <1>1, <3>0, <4>1, <4>2 DEF ApartInv
      <3> QED
        BY <1>3, <2>4, <3>1, <3>2, <3>3, <3>4 DEF OpStep, StageOK, StageFails, DeleteNotFound, CommitOK,
              CommitFails, CheckinOK, CheckinFails, RollbackOK, RollbackFails, Answered, CallFails,
              Methods
    <2> QED
      BY <2>3, <2>4
  <1>4. ASSUME TimerFires PROVE ApartInv'
    <2>1. /\ armed # None /\ Rollback(armed) /\ UNCHANGED <<pc, stagingMu>>
      BY <1>4 DEF TimerFires, handlerVars
    <2>2. open \subseteq {armed}
      BY <1>1, <2>1
    <2>3. open' = {} /\ armed' = None /\ disturbed' = {}
      BY <1>1, <2>1, <2>2 DEF Rollback
    <2> QED
      BY <2>3 DEF ApartInv
  <1>5. ASSUME LateRequest PROVE ApartInv'
    <2>1. PICK r \in late :
             /\ r[1] \in Ops /\ r[2] \in Methods /\ UNCHANGED <<pc, stagingMu>>
             /\ \/ UNCHANGED <<serverVars, disturbed, overtaken>>
                \/ /\ Executes(r[1], r[2])
                   /\ overtaken' = IF Over(r[1]) THEN overtaken \cup {r[1]} ELSE overtaken
      BY <1>5, LateServes DEF handlerVars
    <2>2. CASE UNCHANGED <<serverVars, disturbed, overtaken>>
      BY <1>1, <2>1, <2>2 DEF ApartInv, serverVars
    <2>3. CASE /\ Executes(r[1], r[2])
               /\ overtaken' = IF Over(r[1]) THEN overtaken \cup {r[1]} ELSE overtaken
      <3>1. pc[r[1]] = "rollback"
        BY <2>3 DEF Calm, LateInv, Over
      <3>2. stagingMu = r[1]
        BY <1>2, <2>1, <3>1
      <3>3. open' \subseteq {r[1]} /\ armed' \in {None, r[1]} /\ disturbed' = {}
        BY <1>1, <2>1, <2>3, <3>2, HolderServed
      <3> QED
        BY <2>1, <3>1, <3>2, <3>3 DEF ApartInv
    <2> QED
      BY <2>1, <2>2, <2>3
  <1>6. ASSUME UNCHANGED vars PROVE ApartInv'
    BY <1>1, <1>6 DEF ApartInv, vars, handlerVars, serverVars
  <1> QED
    BY <1>3, <1>4, <1>5, <1>6 DEF Next

\* The parts are kept together.
LEMMA NextIInv == IInv /\ [Next]_vars => IInv'
  BY NextTypeOK, NextHandler, NextLate, NextTimer, NextProgress, NextApart DEF IInv

\* The invariant holds in every reachable state.
LEMMA InvariantHolds == Spec => []IInv
  BY InitIInv, NextIInv, PTL DEF Spec

(***************************************************************************)
(* The properties.                                                         *)
(***************************************************************************)
\* Every reachable state of the handlers and of the server's staging area is
\* well typed.
THEOREM TypeCorrect == Spec => []TypeOK
  <1>1. IInv => TypeOK
    BY DEF IInv
  <1> QED
    BY <1>1, InvariantHolds, PTL

\* stagingMu keeps handlers and timers from applying, keeping or discarding
\* another handler's open change, until a rollback or a checkin fails or the
\* server executes a request of a handler that has returned.
THEOREM ChangesStayApart == Spec => []StagedApart
  <1>1. IInv => StagedApart
    BY DEF IInv, TypeOK, ApartInv, Calm, StagedApart
  <1> QED
    BY <1>1, InvariantHolds, PTL

\* A handler that returns its failure after an answered rollback leaves no
\* trace of its change, whether or not its failed calls were executed, unless
\* one of them is executed after its return or another handler got at its change.
THEOREM FailuresAreUndone == Spec => []FailureIsUndone
  <1>1. IInv => FailureIsUndone
    BY DEF IInv, ProgressInv, Neutral, Resting, FailureIsUndone
  <1> QED
    BY <1>1, InvariantHolds, PTL

\* A handler's request is executed after its return only if it failed.
LEMMA SucceededInTime == Spec => [](\A o \in overtaken : out[o] # "ok")
  <1> DEFINE Inv == \A o \in overtaken : Over(o) /\ out[o] # "ok"
  <1>1. Init => Inv
    BY DEF Init
  <1>2. TypeOK /\ LateInv /\ HandlerInv /\ Inv /\ [Next]_vars => Inv'
    <2> SUFFICES ASSUME TypeOK, LateInv, HandlerInv, Inv, [Next]_vars PROVE Inv'
      OBVIOUS
    <2>0. overtaken \subseteq Ops
      BY DEF TypeOK
    <2>1. ASSUME NEW p \in Ops, OpStep(p) PROVE Inv'
      <3>1. overtaken' = overtaken /\ \A o \in Ops : o # p => pc'[o] = pc[o] /\ out'[o] = out[o]
        BY <2>1, OpStepServes
      <3>2. ASSUME p \in overtaken PROVE Over(p)' /\ out'[p] # "ok"
        <4>1. Over(p) /\ out[p] # "ok" /\ out[p] # "none"
          BY <3>2 DEF HandlerInv
        <4>2. Finish(p)
          BY <2>1, <4>1 DEF Over, OpStep, DeletePhysical, Begin, StageOK, StageFails, DeleteNotFound,
                CommitOK, CommitFails, CheckinOK, CheckinFails, RollbackOK, RollbackFails, ReadBack,
                Answered, CallFails
        <4> QED
          BY <4>1, <4>2 DEF Finish, Over, TypeOK
      <3> QED
        BY <2>0, <3>1, <3>2 DEF Over
    <2>2. ASSUME TimerFires PROVE Inv'
      BY <2>2 DEF TimerFires, handlerVars, Over
    <2>3. ASSUME LateRequest PROVE Inv'
      <3>1. PICK r \in late : /\ pc' = pc /\ out' = out
                              /\ \/ overtaken' = overtaken
                                 \/ overtaken' = IF Over(r[1]) THEN overtaken \cup {r[1]} ELSE overtaken
        BY <2>3, LateServes DEF handlerVars
      <3> QED
        BY <3>1 DEF LateInv, Over
    <2>4. ASSUME UNCHANGED vars PROVE Inv'
      BY <2>4 DEF vars, handlerVars, Over
    <2> QED
      BY <2>1, <2>2, <2>3, <2>4 DEF Next
  <1>3. IInv => TypeOK /\ LateInv /\ HandlerInv
    BY DEF IInv
  <1>4. Inv => \A o \in overtaken : out[o] # "ok"
    OBVIOUS
  <1> QED
    BY <1>1, <1>2, <1>3, <1>4, InvariantHolds, PTL DEF Spec

\* A handler that reports success has its change in effect for good, whatever
\* its own timer, the others and their late requests did, if nobody got at the
\* change while it was open; only a Delete whose own timer fired may be wrong.
THEOREM SuccessesAreKept == Spec => []SuccessIsKept
  <1>1. IInv /\ (\A o \in overtaken : out[o] # "ok") => SuccessIsKept
    BY DEF IInv, ProgressInv, Kept, Resting, SuccessIsKept, InEffect
  <1> QED
    BY <1>1, InvariantHolds, SucceededInTime, PTL
=============================================================================
