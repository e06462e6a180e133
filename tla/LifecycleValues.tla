--------------------------- MODULE LifecycleValues ---------------------------
(***************************************************************************)
(* The values that travel between configuration, plan, appliance and       *)
(* state.  The catalog's entries are data, so what holds of an attribute   *)
(* depends on its entry: each theorem names the condition on the entry (a  *)
(* class of profiles, decided by looking at its schema and at the steps of *)
(* its handlers) under which the property holds in every behaviour.        *)
(***************************************************************************)
EXTENDS LifecyclePlans

-----------------------------------------------------------------------------
(* The steps of a Create, an Update or a Read that has not failed.         *)

Handling == op \in {"create", "update", "read"} /\ ~ failed

(* What no step of a handler touches.                                      *)
Frame ==
  /\ profile' = profile /\ base' = base /\ cfg' = cfg /\ st' = st /\ tainted' = tainted
  /\ mark' = mark /\ owned' = owned /\ op' = op /\ others' = others /\ plan' = plan
  /\ before' = before
  /\ op = "update" => stale' = stale \/ profile.hosted

(* Core calls a handler.                                                   *)
BeginsRead ==
  /\ op' = "read" /\ saved' = plan' /\ st' = st /\ mark' = mark /\ owned' = owned
  /\ st # None => saved' = st /\ planMark' = mark

BeginsCreate ==
  /\ op' = "create" /\ saved' = None /\ st' = None /\ others' = "some" /\ cfg # None
  /\ plan' = Planned(None, FALSE, "some").val

BeginsUpdate ==
  /\ op' = "update" /\ saved' = st /\ st' = st /\ mark' = mark /\ owned' = owned
  /\ tainted' = tainted /\ stale' = stale
  /\ cfg # None /\ st # None /\ ~ tainted /\ stale # "unread"
  /\ others' \in Moves
  /\ \E moved \in Moves :
       LET p == Planned(st, mark, moved) IN
         ~ p.replace /\ ~ p.refuse /\ plan' = p.val /\ planMark' = p.mark

Begins ==
  /\ pc' = 1 /\ reply' = None /\ model' = plan' /\ before' = srv /\ srv' = srv /\ failed' = FALSE
  /\ profile' = profile /\ base' = base /\ cfg' = cfg
  /\ BeginsRead \/ BeginsCreate \/ BeginsUpdate

(* Nothing happens, or the daemon comes up or goes down.                   *)
Pauses ==
  /\ Frame
  /\ UNCHANGED <<srv, pc, model, reply, saved, planMark, failed>>

(* A call that succeeds.                                                   *)
Effect(c) ==
  IF c # Omit THEN srv' = Canon(c)
  ELSE IF Doing = "create" THEN srv' = base
  ELSE srv' = srv \/ Moving

Calls ==
  /\ Frame /\ Doing \in {"create", "update"} /\ pc' = pc + 1
  /\ reply' = srv' /\ srv' # None /\ (Doing = "update" => srv # None)
  /\ \E c \in Carried : Effect(c)
  /\ UNCHANGED <<model, saved, planMark>>

Fetches ==
  /\ Frame /\ Doing \in {"fetch", "fetchOrForget", "fetchOrRecord"} /\ pc' = pc + 1
  /\ reply' = srv /\ srv # None
  /\ UNCHANGED <<srv, model, saved, planMark>>

Takes ==
  /\ Frame /\ Doing = "take"
  /\ model' \in Taken(Cur.rule, reply, model)
  /\ \/ pc' = pc + 1 /\ saved' = saved
     \/ /\ pc + 1 \in DOMAIN Handler(op) /\ Handler(op)[pc + 1].do = "save"
        /\ pc' = pc + 1 + 1 /\ saved' = AsSaved(model')
  /\ UNCHANGED <<srv, reply, planMark>>

Saves ==
  /\ Frame /\ Doing = "save" /\ pc' = pc + 1 /\ saved' = AsSaved(model)
  /\ UNCHANGED <<srv, model, reply, planMark>>

Passes ==
  /\ Frame /\ Doing \in {"check"} \cup Reporting /\ pc' = pc + 1
  /\ IF Doing = "recordManaged" THEN planMark' = (IF Managed THEN cfg # Null ELSE planMark)
     ELSE planMark' = planMark \/ Has({"keepImported"})
  /\ UNCHANGED <<srv, model, reply, saved>>

Forgets ==
  /\ Frame /\ op = "read" /\ saved' = None /\ pc' = End /\ UNCHANGED <<srv, planMark>>

(* The daemon of an app is asked whether it runs.                          *)
Asks ==
  /\ Frame /\ op = "read" /\ Doing \in {"fetchOrAsk", "forgetIfRunning"}
  /\ UNCHANGED <<srv, planMark>>

Advances == Calls \/ Fetches \/ Takes \/ Saves \/ Passes \/ Forgets \/ Asks

(* Core calls a handler with what the plan says.                           *)
LEMMA Beginning ==
  ASSUME CoreInv, op' \in {"create", "update", "read"},
         \/ Refresh \/ Import \/ Destroy \/ ApplyCreate \/ ApplyReplace
         \/ \E moved \in Moves : ApplyUpdate(moved)
         \/ Imported \/ Deleted
  PROVE  Begins
  <1>1. CASE Refresh
    <2>1. st # None
      BY <1>1 DEF Refresh
    <2> QED
      BY <1>1, <2>1 DEF Refresh, Call, object, history, Begins, BeginsRead
  <1>2. CASE Import \/ Destroy \/ ApplyReplace
    BY <1>2 DEF Import, Destroy, ApplyReplace, Call
  <1>3. CASE ApplyCreate
    BY <1>3 DEF ApplyCreate, CallCreate, Call, object, history, Begins, BeginsCreate
  <1>4. CASE \E moved \in Moves : ApplyUpdate(moved)
    BY <1>4 DEF ApplyUpdate, Call, object, history, Begins, BeginsUpdate
  <1>5. CASE Imported
    <2>1. op = "import" /\ st = None
      BY <1>5 DEF Imported, Ended, CoreInv, CalledInv
    <2> QED
      BY <1>5, <2>1 DEF Imported, Call, object, history, Begins, BeginsRead
  <1>6. CASE Deleted
    <2>1. ~ failed /\ then # "idle"
      BY <1>6 DEF Deleted, Return
    <2>2. CallCreate /\ st' = None /\ profile' = profile /\ base' = base /\ cfg' = cfg /\ srv' = srv
      BY <1>6, <2>1 DEF Deleted
    <2>3. cfg # None
      BY <1>6, <2>1 DEF Deleted, Ended, CoreInv, CalledInv
    <2> QED
      BY <2>2, <2>3 DEF CallCreate, Call, Begins, BeginsCreate
  <1> QED
    BY <1>1, <1>2, <1>3, <1>4, <1>5, <1>6

(* A call has been made.                                                   *)
LEMMA CallingStep ==
  ASSUME CoreInv, ~ failed', op \in {"create", "update"}, NEW fails \in BOOLEAN,
         CreateCall(fails) \/ UpdateCall(fails)
  PROVE  Calls /\ Doing # "nothing"
  <1>1. ~ fails
    BY DEF CreateCall, UpdateCall, Proceed, Aborts
  <1>2. CASE CreateCall(fails)
    <2>1. Doing = "create" /\ op = "create"
      BY <1>2, AtStep DEF CreateCall, At, CoreInv, Allowed, Handlers, Reporting
    <2>2. /\ Frame /\ pc' = pc + 1 /\ model' = model /\ saved' = saved /\ planMark' = planMark
      BY <1>1, <1>2, <2>1 DEF CreateCall, Proceed, NextStep, Goto, Frame
    <2>3. PICK c \in Carried : srv' = IF c = Omit THEN base ELSE Canon(c)
      BY <1>2 DEF CreateCall
    <2>4. srv' # None
      <3>1. \/ c = Omit
            \/ Canon(c) \in Held \cup {None, Zero} /\ Canon(c) # None
        BY <2>1, CarriedTyped
      <3> QED
        BY <2>3, <3>1, Types
    <2>5. Effect(c)
      BY <2>1, <2>3 DEF Effect
    <2>6. reply' = srv'
      BY <1>1, <1>2 DEF CreateCall
    <2> QED
      BY <2>1, <2>2, <2>4, <2>5, <2>6 DEF Calls
  <1>3. CASE UpdateCall(fails)
    <2>1. Doing = "update"
      BY <1>3 DEF UpdateCall, At
    <2>2. /\ Frame /\ pc' = pc + 1 /\ model' = model /\ saved' = saved /\ planMark' = planMark
      BY <1>1, <1>3 DEF UpdateCall, Proceed, NextStep, Goto, Frame, history
    <2>3. PICK c \in Carried :
            \/ c # Omit /\ srv' = Canon(c)
            \/ c = Omit /\ srv' = srv
            \/ c = Omit /\ Moving /\ srv' \in Held
      BY <1>1, <1>3 DEF UpdateCall
    <2>4. srv' # None
      <3>2. srv # None
        BY <1>3 DEF UpdateCall
      <3> QED
        BY <2>1, <2>3, <3>2, CarriedTyped, Types
    <2>5. Effect(c)
      BY <2>1, <2>3 DEF Effect
    <2>6. reply' = srv' /\ srv # None
      BY <1>1, <1>3 DEF UpdateCall
    <2> QED
      BY <2>1, <2>2, <2>4, <2>5, <2>6 DEF Calls
  <1> QED
    BY <1>2, <1>3

(* Every step of a Create, an Update or a Read that does not fail is one   *)
(* of those above.                                                         *)
LEMMA HandlingStep ==
  ASSUME CoreInv, [Next]_vars, Handling'
  PROVE  \/ Begins
         \/ Handling /\ Pauses
         \/ Handling /\ Doing # "nothing" /\ Advances
  <1>1. op' \in {"create", "update", "read"} /\ ~ failed'
    BY DEF Handling
  <1>2. Doing # "nothing" => ~ failed
    BY AtStep DEF CoreInv
  <1>3. CASE Edit \/ Drift \/ Vanish
    BY <1>1, <1>3 DEF Edit, Drift, Vanish, Idle, handler
  <1>4. CASE Restart
    <2>1. Pauses
      BY <1>4 DEF Restart, handler, Pauses, Frame
    <2> QED
      BY <1>1, <2>1 DEF Pauses, Frame, Handling
  <1>5. CASE \/ Refresh \/ Import \/ Destroy \/ ApplyCreate \/ ApplyReplace
             \/ \E moved \in Moves : ApplyUpdate(moved)
             \/ Imported \/ Deleted
    BY <1>1, <1>5, Beginning
  <1>6. CASE \E fails \in BOOLEAN : CreateCall(fails) \/ UpdateCall(fails)
    <2>1. PICK fails \in BOOLEAN : CreateCall(fails) \/ UpdateCall(fails)
      BY <1>6
    <2>2. Doing # "nothing" /\ op' = op /\ Doing \in {"create", "update"}
      BY <2>1 DEF CreateCall, UpdateCall, At, Proceed, Aborts, NextStep, Goto
    <2>3. op \in {"create", "update"}
      BY <1>1, <2>2, AtStep DEF CoreInv, Allowed, Handlers, Reporting
    <2> QED
      BY <1>1, <1>2, <2>1, <2>2, <2>3, CallingStep DEF Handling, Advances
  <1>7. CASE \E fails \in BOOLEAN : DeleteCall(fails) \/ UndoCall
    <2>1. Doing \in {"delete", "deleteOrAsk", "undo"} /\ op' = op
      BY <1>7 DEF DeleteCall, UndoCall, At, Aborts, Stop, NextStep, Goto
    <2> QED
      BY <1>1, <2>1, AtStep DEF CoreInv, Allowed, Handlers, Reporting
  <1>8. CASE Fails
    BY <1>1, <1>8 DEF Fails, Return, Aborts
  <1>9. CASE FetchStep
    <2>1. op' = op /\ Doing # "nothing"
      BY <1>9 DEF FetchStep, Goto
    <2>2. Frame /\ srv' = srv
      BY <1>9 DEF FetchStep, Goto, object, history, Frame
    <2>3. Doing = "fetchOrAsk" => op = "read"
      BY AtStep, <2>1 DEF CoreInv, Allowed, Handlers, Reporting
    <2>4. Asks \/ Fetches
      BY <1>9, <2>2, <2>3 DEF FetchStep, Goto, At, Asks, Fetches
    <2> QED
      BY <1>1, <1>2, <2>1, <2>4 DEF Handling, Advances
  <1>10. CASE Forget
    <2>1. op' = op /\ Doing \in {"fetchOrForget", "forgetIfRunning"}
      BY <1>10 DEF Forget, Stop, Goto, At
    <2>2. op = "read"
      BY <2>1, AtStep DEF CoreInv, Allowed, Handlers, Reporting
    <2>3. Forgets
      BY <1>10, <2>2 DEF Forget, Forgets, Stop, Goto, object, history, Frame
    <2> QED
      BY <1>1, <1>2, <2>1, <2>3 DEF Handling, Advances
  <1>11. CASE NotFound \/ Asked
    <2>1. op' = op /\ Doing \in {"fetchOrAsk", "deleteOrAsk", "forgetIfRunning", "goneIfRunning"}
      BY <1>11 DEF NotFound, Asked, NextStep, Stop, Goto, Aborts, At
    <2>2. op = "read" /\ Doing \in {"fetchOrAsk", "forgetIfRunning"}
      BY <1>1, <2>1, AtStep DEF CoreInv, Allowed, Handlers, Reporting
    <2>3. Asks
      BY <1>1, <1>11, <2>2
         DEF NotFound, Asked, Asks, NextStep, Stop, Goto, Aborts, object, history, Frame, At
    <2> QED
      BY <1>1, <1>2, <2>2, <2>3 DEF Handling, Advances
  <1>12. CASE Record
    BY <1>1, <1>12 DEF Record, Aborts
  <1>13. CASE TakeStep
    <2>1. Doing = "take" /\ op' = op /\ Frame
      BY <1>13 DEF TakeStep, At, Goto, object, history, Frame
    <2>2. /\ pc \in Nat /\ DOMAIN Handler(op) = 1..Len(Handler(op)) /\ Len(Handler(op)) \in Nat
          /\ pc >= 1
      BY <2>1, AtStep DEF CoreInv
    <2>3. pc + 2 = pc + 1 + 1 /\ (pc < Len(Handler(op)) => pc + 1 \in DOMAIN Handler(op))
      BY <2>2
    <2>4. Takes
      BY <1>13, <2>1, <2>3 DEF TakeStep, Goto, object, Takes
    <2> QED
      BY <1>1, <1>2, <2>1, <2>4 DEF Handling, Advances
  <1>14. CASE SaveStep
    <2>1. Doing \in {"save", "saveId"} /\ op' = op /\ Frame
      BY <1>14 DEF SaveStep, NextStep, Goto, object, history, Frame
    <2>2. Doing = "save"
      BY <1>1, <2>1, AtStep DEF CoreInv, Allowed, Handlers, Reporting
    <2>3. Saves
      BY <1>14, <2>1, <2>2 DEF SaveStep, NextStep, Goto, object, Saves, At
    <2> QED
      BY <1>1, <1>2, <2>1, <2>3 DEF Handling, Advances
  <1>15. CASE RecordManagedStep \/ ImportFlagStep \/ PassStep
    <2>1. /\ op' = op /\ Frame /\ pc' = pc + 1 /\ UNCHANGED <<srv, model, reply, saved>>
      BY <1>15 DEF RecordManagedStep, ImportFlagStep, PassStep, NextStep, Goto, object, history, Frame
    <2>2. Doing \in {"check"} \cup Reporting
      <3>1. Doing \in {"check", "leaveInPlace"} \cup Reporting
        BY <1>15 DEF RecordManagedStep, ImportFlagStep, PassStep, At, Reporting
      <3>2. Doing # "nothing"
        BY <3>1 DEF Reporting
      <3> QED
        BY <1>1, <2>1, <3>1, <3>2, AtStep DEF CoreInv, Allowed, Handlers, Reporting
    <2>3. IF Doing = "recordManaged" THEN planMark' = (IF Managed THEN cfg # Null ELSE planMark)
          ELSE planMark' = planMark \/ Has({"keepImported"})
      BY <1>15 DEF RecordManagedStep, ImportFlagStep, PassStep, At
    <2>4. Doing # "nothing" /\ Passes
      BY <2>1, <2>2, <2>3 DEF Passes, Reporting
    <2> QED
      BY <1>1, <1>2, <2>1, <2>4 DEF Handling, Advances
  <1>16. CASE Created \/ Updated \/ WasRead
    BY <1>1, <1>16 DEF Created, Updated, WasRead, Return
  <1>17. CASE UNCHANGED vars
    <2>1. Pauses
      BY <1>17 DEF vars, handler, history, Pauses, Frame
    <2> QED
      BY <1>1, <2>1 DEF Pauses, Frame, Handling
  <1> QED
    BY <1>3, <1>4, <1>5, <1>6, <1>7, <1>8, <1>9, <1>10, <1>11, <1>12, <1>13, <1>14, <1>15, <1>16,
       <1>17 DEF Next

-----------------------------------------------------------------------------
(* The plan that an apply executes.                                        *)

(* The planned value is the configured one; an attribute whose changes ask *)
(* for a replacement, or are refused, does not change in an update; and an *)
(* owned value that is no longer configured goes back to the default.      *)
PlanInv ==
  op \in {"create", "update"} /\ ~ failed =>
    /\ cfg # Null /\ ~ kind.unseen => Canon(plan) = Canon(cfg)
    /\ plan = Unknown => MayBeUnknown(kind, op)
    /\ op = "create" => others = "some"
    /\ op = "update" =>
         /\ ~ tainted /\ (profile.hosted \/ stale # "unread")
         /\ cfg # Null /\ ~ kind.unseen =>
              \A m \in Range(kind.modifiers) :
                m = "replace" \/ (m \in FixesKnown /\ st # Null) => Canon(st) = Canon(cfg)
         /\ cfg = Null /\ Managed /\ mark /\ Range(kind.modifiers) \cap Followers = {}
              => plan = ServerDefault

(* The plan that Terraform core hands to a Create or an Update.            *)
LEMMA BeginsPlan ==
  ASSUME CoreInv, Begins
  PROVE  PlanInv'
  <1>1. /\ kind' = kind /\ ServerDefault' = ServerDefault /\ failed' = FALSE /\ Managed' = Managed
        /\ \A o : MayBeUnknown(kind, o)' = MayBeUnknown(kind, o)
    BY DEF Begins, kind, ServerDefault, MayBeUnknown, Managed, Has
  <1>2. /\ KindTyped(kind) /\ base \in Held /\ mark \in BOOLEAN
        /\ cfg \in Configs \cup {None} /\ st \in Settable \cup {None}
    <2>1. WellFormed(profile)
      BY Formed DEF CoreInv
    <2> QED
      BY <2>1, Types DEF WellFormed, kind, Typed, ValuesTyped, FlagsTyped
  <1>3. CASE BeginsRead
    BY <1>3 DEF BeginsRead, PlanInv
  <1>4. CASE BeginsCreate
    <2>1. op' = "create" /\ others' = "some" /\ plan' = Planned(None, FALSE, "some").val /\ cfg' = cfg
          /\ cfg \in Configs
      BY <1>2, <1>4 DEF Begins, BeginsCreate
    <2>2. cfg # Null /\ ~ kind.unseen => Canon(plan') = Canon(cfg)
      BY <1>2, <2>1, PlannedConfigured
    <2>3. plan' = Unknown => MayBeUnknown(kind, "create")
      BY <1>2, <2>1, PlannedTyped
    <2>4. Canon(plan)' = Canon(plan') /\ Canon(cfg)' = Canon(cfg')
      BY DEF Canon
    <2> QED
      BY <1>1, <2>1, <2>2, <2>3, <2>4 DEF PlanInv
  <1>5. CASE BeginsUpdate
    <2>1. /\ op' = "update" /\ st' = st /\ mark' = mark /\ tainted' = FALSE /\ stale' = stale
          /\ stale # "unread" /\ cfg' = cfg /\ cfg \in Configs /\ st \in Settable /\ st # None
          /\ profile' = profile
      BY <1>2, <1>5, Types DEF Begins, BeginsUpdate, Typed, FlagsTyped
    <2>2. PICK moved \in Moves : /\ ~ Planned(st, mark, moved).replace
                                 /\ ~ Planned(st, mark, moved).refuse
                                 /\ plan' = Planned(st, mark, moved).val
      BY <1>5 DEF BeginsUpdate
    <2>3. cfg # Null /\ ~ kind.unseen => Canon(plan') = Canon(cfg)
      BY <1>2, <2>1, <2>2, PlannedConfigured
    <2>4. plan' = Unknown => MayBeUnknown(kind, "update")
      BY <1>2, <2>1, <2>2, PlannedTyped
    <2>5. ASSUME cfg # Null, ~ kind.unseen, NEW m \in Range(kind.modifiers),
                 m = "replace" \/ (m \in FixesKnown /\ st # Null)
          PROVE  Canon(st) = Canon(cfg)
      BY <1>2, <2>1, <2>2, <2>5, PlannedFixed
    <2>6. cfg = Null /\ Managed /\ mark /\ Range(kind.modifiers) \cap Followers = {}
             => plan' = ServerDefault
      <3> SUFFICES ASSUME cfg = Null, Managed, mark, Range(kind.modifiers) \cap Followers = {}
                   PROVE  plan' = ServerDefault
        OBVIOUS
      <3>1. PICK m \in Range(kind.modifiers) : m \in Resets
        BY DEF Managed, Has, Resets
      <3> QED
        BY <1>2, <2>1, <2>2, <3>1, PlannedReset
    <2>7. Canon(plan)' = Canon(plan') /\ Canon(cfg)' = Canon(cfg') /\ Canon(st)' = Canon(st')
      BY DEF Canon
    <2> QED
      BY <1>1, <2>1, <2>3, <2>4, <2>5, <2>6, <2>7 DEF PlanInv
  <1> QED
    BY <1>3, <1>4, <1>5 DEF Begins

(* No step of a handler changes what it is about.                          *)
LEMMA FramePlan ==
  ASSUME PlanInv, Handling, Frame
  PROVE  PlanInv'
  <1>1. /\ kind' = kind /\ ServerDefault' = ServerDefault /\ Managed' = Managed
        /\ \A o : MayBeUnknown(kind, o)' = MayBeUnknown(kind, o)
        /\ Canon(plan)' = Canon(plan) /\ Canon(cfg)' = Canon(cfg) /\ Canon(st)' = Canon(st)
    BY DEF Frame, kind, ServerDefault, MayBeUnknown, Managed, Has, Canon
  <1>2. /\ profile' = profile /\ cfg' = cfg /\ st' = st /\ tainted' = tainted /\ mark' = mark
        /\ op' = op /\ others' = others /\ plan' = plan
        /\ op = "update" => stale' = stale \/ profile.hosted
    BY DEF Frame
  <1>3. MayBeUnknown(kind, op)' = MayBeUnknown(kind, op)
    BY <1>1, <1>2 DEF MayBeUnknown
  <1> QED
    BY <1>1, <1>2, <1>3 DEF PlanInv, Handling

(* Every apply executes such a plan.                                       *)
LEMMA NextPlan == CoreInv /\ PlanInv /\ [Next]_vars => PlanInv'
  <1> SUFFICES ASSUME CoreInv, PlanInv, [Next]_vars, Handling' PROVE PlanInv'
    BY DEF PlanInv, Handling
  <1>1. Begins \/ (Handling /\ Frame)
    BY HandlingStep
       DEF Pauses, Advances, Calls, Fetches, Takes, Saves, Passes, Forgets, Asks
  <1> QED
    BY <1>1, BeginsPlan, FramePlan

-----------------------------------------------------------------------------
(* What the calls of a handler make of the appliance.  A call hits a set   *)
(* of values when it can only lead into it, and spares one when it cannot  *)
(* lead out of it.                                                         *)

Sends(step) == Sent(step.rule, IF kind.unseen THEN cfg ELSE plan, st, cfg)
Holdable == Held \cup {None, Zero}

HitsBy(step, S) ==
  \A c \in Sends(step) :
    IF c = Omit THEN step.do = "create" /\ base \in S ELSE Canon(c) \in S
SparesBy(step, S) ==
  /\ step.do = "update"
  /\ \A c \in Sends(step) :
       IF c = Omit THEN ~ Moving ELSE Canon(c) \in S

Hits(S)   == {i \in CallsOf(Handler(op)) : HitsBy(Handler(op)[i], S)}
Spoils(S) == {i \in CallsOf(Handler(op)) : ~ HitsBy(Handler(op)[i], S)
                                            /\ ~ SparesBy(Handler(op)[i], S)}
From(S)   == IF before \in S THEN {0} ELSE {}

(* Where the last call that does not spare a set of values hits it, or     *)
(* there is none and the appliance was in the set, it is in the set now.   *)
SendInv ==
  op \in {"create", "update"} /\ ~ failed =>
    \A S \in SUBSET Holdable : Since(pc, From(S) \cup Hits(S), Spoils(S)) => srv \in S

(* The steps of a handler are numbered from 1.                             *)
LEMMA StepsNumbered ==
  ASSUME CoreInv, NEW o \in Handlers
  PROVE  /\ DOMAIN Handler(o) = 1..Len(Handler(o)) /\ Len(Handler(o)) \in Nat
         /\ DOMAIN Handler(o) \subseteq Nat
         /\ \A i \in DOMAIN Handler(o) : i >= 1
  <1>1. DOMAIN Handler(o) = 1..Len(Handler(o)) /\ Len(Handler(o)) \in Nat
    BY Formed DEF CoreInv, WellFormed, Handler
  <1> QED
    BY <1>1

(* A step of a handler does not change what its calls hit and spare.       *)
LEMMA FrameSends ==
  ASSUME Frame
  PROVE  /\ Handler(op)' = Handler(op) /\ Holdable' = Holdable
         /\ \A S : Hits(S)' = Hits(S) /\ Spoils(S)' = Spoils(S) /\ From(S)' = From(S)
  <1>1. /\ profile' = profile /\ base' = base /\ cfg' = cfg /\ st' = st /\ op' = op
        /\ others' = others /\ plan' = plan /\ before' = before
    BY DEF Frame
  <1>2. /\ Held' = Held /\ kind' = kind /\ Plain' = Plain /\ (Moving <=> Moving')
        /\ Handler(op)' = Handler(op)
    BY <1>1, CatalogFixed DEF Plain, Moving, Follows, Has, kind, Handler
  <1>3. \A step : Sends(step)' = Sends(step)
    BY <1>1, <1>2 DEF Sends, Sent, Canon
  <1>4. \A step, S : /\ HitsBy(step, S)' <=> HitsBy(step, S)
                     /\ SparesBy(step, S)' <=> SparesBy(step, S)
    BY <1>1, <1>2, <1>3 DEF HitsBy, SparesBy, Canon
  <1>5. CallsOf(Handler(op))' = CallsOf(Handler(op))
    BY <1>2 DEF CallsOf
  <1>6. \A S : Hits(S)' = Hits(S) /\ Spoils(S)' = Spoils(S) /\ From(S)' = From(S)
    BY <1>1, <1>2, <1>4, <1>5 DEF Hits, Spoils, From
  <1>7. Holdable' = Holdable
    BY <1>2 DEF Holdable
  <1> QED
    BY <1>2, <1>6, <1>7

(* A step that is no call leaves the appliance as it is, and changes       *)
(* nothing about what the calls before it have done.                       *)
LEMMA PassingSends ==
  ASSUME CoreInv, Doing # "nothing", Doing \notin {"create", "update"}, NEW S,
         \/ pc' = pc + 1
         \/ /\ pc + 1 \in DOMAIN Handler(op) /\ Handler(op)[pc + 1].do = "save"
            /\ pc' = pc + 1 + 1,
         Since(pc', From(S) \cup Hits(S), Spoils(S))
  PROVE  Since(pc, From(S) \cup Hits(S), Spoils(S))
  <1> DEFINE G == From(S) \cup Hits(S)
             B == Spoils(S)
  <1>1. op \in Handlers /\ pc \in Nat /\ pc >= 1 /\ pc + 1 \in Nat /\ Doing = Handler(op)[pc].do
    BY AtStep DEF CoreInv, Cur
  <1>2. DOMAIN Handler(op) \subseteq Nat
    BY <1>1, StepsNumbered
  <1>3. G \in SUBSET Nat /\ B \in SUBSET Nat
    BY <1>2 DEF From, Hits, Spoils, CallsOf
  <1>4. \A i \in G \cup B : i = 0 \/ i \in CallsOf(Handler(op))
    BY DEF From, Hits, Spoils
  <1>5. pc \notin G
    <2>1. pc \notin CallsOf(Handler(op))
      BY <1>1 DEF CallsOf
    <2> HIDE DEF G, B
    <2> QED
      BY <1>1, <1>4, <2>1
  <1>6. pc + 1 \in DOMAIN Handler(op) /\ Handler(op)[pc + 1].do = "save" => pc + 1 \notin G
    <2>1. Handler(op)[pc + 1].do = "save" => pc + 1 \notin CallsOf(Handler(op))
      BY DEF CallsOf
    <2> HIDE DEF G, B
    <2> QED
      BY <1>1, <1>4, <2>1
  <1> HIDE DEF G, B
  <1>7. Since(pc + 1, G, B) => Since(pc, G, B)
    BY <1>1, <1>3, <1>5, SinceNext
  <1>8. Since(pc + 1 + 1, G, B) /\ pc + 1 \notin G => Since(pc + 1, G, B)
    BY <1>1, <1>3, SinceNext
  <1>9. Since(pc', G, B)
    BY DEF G, B
  <1>10. Since(pc, G, B)
    BY <1>6, <1>7, <1>8, <1>9
  <1> QED
    BY <1>10 DEF G, B

(* A call leads into a set that it hits, and not out of one that it spares.*)
LEMMA CallingSends ==
  ASSUME CoreInv, Doing # "nothing", Calls, NEW S,
         Since(pc, From(S) \cup Hits(S), Spoils(S)) => srv \in S,
         Since(pc', From(S) \cup Hits(S), Spoils(S))
  PROVE  srv' \in S
  <1> DEFINE G == From(S) \cup Hits(S)
             B == Spoils(S)
  <1>1. /\ op \in Handlers /\ pc \in Nat /\ pc >= 1 /\ Doing = Cur.do /\ Cur = Handler(op)[pc]
        /\ pc \in DOMAIN Handler(op)
    BY AtStep DEF CoreInv
  <1>2. DOMAIN Handler(op) \subseteq Nat
    BY <1>1, StepsNumbered
  <1>3. G \in SUBSET Nat /\ B \in SUBSET Nat
    BY <1>2 DEF From, Hits, Spoils, CallsOf
  <1>4. pc \in CallsOf(Handler(op)) /\ pc' = pc + 1 /\ (Doing = "create" \/ Doing = "update")
    BY <1>1 DEF Calls, CallsOf
  <1>5. pc \in G \/ (Since(pc, G, B) /\ pc \notin B)
    <2> HIDE DEF G, B
    <2>1. Since(pc + 1, G, B)
      BY <1>4 DEF G, B
    <2> QED
      BY <1>1, <1>3, <2>1, SinceNext
  <1>6. HitsBy(Cur, S) \/ (srv \in S /\ SparesBy(Cur, S))
    BY <1>1, <1>4, <1>5 DEF From, Hits, Spoils
  <1>7. PICK c \in Sends(Cur) : Effect(c)
    BY DEF Calls, Carried, Sends
  <1>8. CASE HitsBy(Cur, S)
    <2>1. IF c = Omit THEN Cur.do = "create" /\ base \in S ELSE Canon(c) \in S
      BY <1>7, <1>8 DEF HitsBy
    <2> QED
      BY <1>1, <1>7, <2>1 DEF Effect
  <1>9. CASE srv \in S /\ SparesBy(Cur, S)
    <2>1. /\ Cur.do = "update"
          /\ IF c = Omit THEN ~ Moving ELSE Canon(c) \in S
      BY <1>7, <1>9 DEF SparesBy
    <2> QED
      BY <1>1, <1>7, <1>9, <2>1 DEF Effect
  <1> QED
    BY <1>6, <1>8, <1>9

(* What the calls of every handler have made of the appliance.             *)
LEMMA NextSend == CoreInv /\ SendInv /\ [Next]_vars => SendInv'
  <1> SUFFICES ASSUME CoreInv, SendInv, [Next]_vars, op' \in {"create", "update"}, ~ failed',
                      NEW S \in SUBSET Holdable', Since(pc', (From(S) \cup Hits(S))', Spoils(S)')
               PROVE  srv' \in S
    BY DEF SendInv
  <1>0. Handling'
    BY DEF Handling
  <1>1. CASE Begins
    <2>1. pc' = 1 /\ before' = srv /\ srv' = srv /\ profile' = profile
      BY <1>1 DEF Begins
    <2>2. \A i \in DOMAIN Handler(op)' : i \in Nat /\ i >= 1
      <3>1. \A o \in Handlers : \A i \in DOMAIN Handler(o) : i \in Nat /\ i >= 1
        BY StepsNumbered
      <3>2. Handler(op)' = Handler(op') /\ op' \in Handlers
        BY <2>1 DEF Handler, Handlers
      <3> QED
        BY <3>1, <3>2
    <2>3. \A i \in Hits(S)' : i \in Nat /\ i >= 1
      BY <2>2 DEF Hits, CallsOf
    <2>4. PICK j \in (From(S) \cup Hits(S))' : j < 1
      BY <2>1 DEF Since
    <2>5. j \in From(S)'
      BY <2>3, <2>4
    <2> QED
      BY <2>1, <2>5 DEF From
  <1>2. ASSUME Handling, Frame
        PROVE  /\ S \in SUBSET Holdable /\ op' = op
               /\ Since(pc, From(S) \cup Hits(S), Spoils(S)) => srv \in S
               /\ Since(pc', From(S) \cup Hits(S), Spoils(S))
    <2>1. /\ Holdable' = Holdable /\ op' = op
          /\ Hits(S)' = Hits(S) /\ Spoils(S)' = Spoils(S) /\ From(S)' = From(S)
      BY <1>2, FrameSends DEF Frame
    <2> QED
      BY <1>2, <2>1 DEF SendInv, Handling
  <1>3. CASE Handling /\ Pauses
    BY <1>2, <1>3 DEF Pauses
  <1>4. CASE Handling /\ Doing # "nothing" /\ Advances
    <2>1. CASE Calls
      BY <1>2, <1>4, <2>1, CallingSends DEF Calls
    <2>2. CASE Fetches \/ Takes \/ Saves \/ Passes
      <3>1. /\ Frame /\ srv' = srv /\ Doing \notin {"create", "update"}
            /\ \/ pc' = pc + 1
               \/ /\ pc + 1 \in DOMAIN Handler(op) /\ Handler(op)[pc + 1].do = "save"
                  /\ pc' = pc + 1 + 1
        BY <2>2 DEF Fetches, Takes, Saves, Passes, Reporting
      <3> QED
        BY <1>2, <1>4, <3>1, PassingSends
    <2>3. CASE Forgets \/ Asks
      BY <2>3 DEF Forgets, Asks, Frame
    <2> QED
      BY <1>4, <2>1, <2>2, <2>3 DEF Advances
  <1> QED
    BY <1>0, <1>1, <1>3, <1>4, HandlingStep

-----------------------------------------------------------------------------
(* What a handler saves is what the appliance holds, for an attribute      *)
(* whose handlers save only what a response has shown (Mirrored).          *)

(* v is what a response makes of s.                                        *)
Shows(v, s) == \E t \in Viewed(profile) : Canon(v) \in View(t, s)

(* The model was read after the last call; the state was saved after it.   *)
Fresh     == LET h == Handler(op) IN Since(pc, ShowsOf(h), HidesOf(h) \cup CallsOf(h))
SavedLast == LET h == Handler(op) IN Since(pc, SavesOf(h), CallsOf(h))

ReplyInv   == Handling /\ Running /\ Past(Answering) => reply = srv /\ reply # None
ModelShows == Handling /\ Running /\ Fresh => Shows(model, srv)
SavedShows == Handling /\ SavedLast /\ saved # None => Shows(saved, srv)

(* What the state was last refreshed from, or an apply has left: what a    *)
(* handler that may change the appliance has found.                        *)
Seen == IF op \in {"update", "delete"} THEN before ELSE srv

CopyInv == ReplyInv /\ ModelShows /\ SavedShows

(* The catalog says what shows, and another spelling is shown no less.     *)
LEMMA ShowsFixed ==
  ASSUME profile' = profile
  PROVE  /\ \A v, s : Shows(v, s)' <=> Shows(v, s)
         /\ Shows(model, srv)' <=> Shows(model', srv')
         /\ Shows(saved, srv)' <=> Shows(saved', srv')
         /\ Shows(st, Seen)' <=> Shows(st', Seen')
         /\ \A v, w, s : Canon(v) = Canon(w) => (Shows(v, s) <=> Shows(w, s))
  <1>1. Viewed(profile)' = Viewed(profile)
    BY DEF Viewed, ShowsOf
  <1>2. \A v, s : Shows(v, s)' <=> Shows(v, s)
    BY <1>1 DEF Shows, Canon, View
  <1>3. Shows(model, srv)' <=> Shows(model', srv')
    BY <1>1 DEF Shows, Canon, View
  <1>4. Shows(saved, srv)' <=> Shows(saved', srv')
    BY <1>1 DEF Shows, Canon, View
  <1>5. Shows(st, Seen)' <=> Shows(st', Seen')
    BY <1>1 DEF Shows, Canon, View
  <1>6. \A v, w, s : Canon(v) = Canon(w) => (Shows(v, s) <=> Shows(w, s))
    BY DEF Shows
  <1> QED
    BY <1>2, <1>3, <1>4, <1>5, <1>6

(* A response that is taken by a rule that shows is in the model.          *)
LEMMA TakingShows ==
  ASSUME CoreInv, Handling, Doing = "take", Cur.rule \in Showing, reply = srv, reply # None,
         NEW m \in Taken(Cur.rule, reply, model)
  PROVE  Shows(m, srv)
  <1>1. srv \in Held \cup {Zero}
    BY Types
  <1>2. Canon(m) \in View(Cur.rule, srv)
    BY <1>1, TakenIsView
  <1>3. Cur.rule \in Viewed(profile)
    <2>1. pc \in DOMAIN profile[op] /\ Cur = profile[op][pc] /\ Cur.do = "take"
      BY AtStep DEF CoreInv, Handler
    <2>2. pc \in ShowsOf(profile[op])
      BY <2>1 DEF ShowsOf
    <2>3. op \in {"create", "read", "update"}
      BY DEF Handling
    <2> QED
      BY <2>1, <2>2, <2>3 DEF Viewed
  <1> QED
    BY <1>2, <1>3 DEF Shows

(* The positions of a handler that has been called.                        *)
LEMMA Positions ==
  ASSUME CoreInv, Doing # "nothing"
  PROVE  /\ pc \in Nat /\ pc >= 1 /\ pc + 1 \in Nat /\ Doing = Handler(op)[pc].do /\ Running
         /\ pc \in DOMAIN Handler(op) /\ Cur = Handler(op)[pc]
         /\ CallsOf(Handler(op)) \in SUBSET Nat /\ SavesOf(Handler(op)) \in SUBSET Nat
         /\ ShowsOf(Handler(op)) \in SUBSET Nat
         /\ HidesOf(Handler(op)) \cup CallsOf(Handler(op)) \in SUBSET Nat
         /\ pc \in CallsOf(Handler(op)) <=> Doing \in {"create", "update"}
         /\ pc \in SavesOf(Handler(op)) <=> Doing = "save"
         /\ pc \in ShowsOf(Handler(op)) <=> Doing = "take" /\ Cur.rule \in Showing
         /\ pc \in HidesOf(Handler(op)) <=> Doing = "take" /\ Cur.rule \notin Showing \cup {"none"}
  <1>1. op \in Handlers /\ pc \in Nat /\ pc >= 1 /\ pc + 1 \in Nat /\ Doing = Handler(op)[pc].do
        /\ Running /\ pc \in DOMAIN Handler(op) /\ Cur = Handler(op)[pc]
    BY AtStep DEF CoreInv
  <1>2. DOMAIN Handler(op) \subseteq Nat
    BY <1>1, StepsNumbered
  <1> QED
    BY <1>1, <1>2 DEF CallsOf, SavesOf, ShowsOf, HidesOf

(* Where the model is the appliance's after the step here, and when the    *)
(* state is, if the step is no call.                                       *)
LEMMA Onwards ==
  ASSUME CoreInv, Doing # "nothing"
  PROVE  LET h == Handler(op)
             Model(i) == Since(i, ShowsOf(h), HidesOf(h) \cup CallsOf(h))
             Saved(i) == Since(i, SavesOf(h), CallsOf(h)) IN
         /\ Model(pc) <=> Fresh
         /\ Saved(pc) <=> SavedLast
         /\ Model(pc + 1) <=> \/ Doing = "take" /\ Cur.rule \in Showing
                              \/ /\ Fresh /\ Doing \notin {"create", "update"}
                                 /\ Doing = "take" => Cur.rule \in {"none"}
         /\ Saved(pc + 1) <=> Doing = "save" \/ (SavedLast /\ Doing \notin {"create", "update"})
         /\ h[pc + 1].do = "save" => (Model(pc + 1 + 1) => Model(pc + 1))
  <1> DEFINE h == Handler(op)
             G == ShowsOf(h)
             B == HidesOf(h) \cup CallsOf(h)
             S == SavesOf(h)
             C == CallsOf(h)
  <1>1. /\ pc \in Nat /\ pc + 1 \in Nat /\ G \in SUBSET Nat /\ B \in SUBSET Nat
        /\ S \in SUBSET Nat /\ C \in SUBSET Nat
    BY Positions
  <1>2. /\ pc \in C <=> Doing \in {"create", "update"}
        /\ pc \in S <=> Doing = "save"
        /\ pc \in G <=> Doing = "take" /\ Cur.rule \in Showing
        /\ pc \in B <=> \/ Doing = "take" /\ Cur.rule \notin Showing \cup {"none"}
                        \/ Doing \in {"create", "update"}
    BY Positions
  <1>3. (Since(pc, G, B) <=> Fresh) /\ (Since(pc, S, C) <=> SavedLast)
    BY DEF Fresh, SavedLast
  <1>4. h[pc + 1].do = "save" => pc + 1 \notin G
    BY DEF ShowsOf
  <1> HIDE DEF G, B, S, C
  <1>5. /\ Since(pc + 1, G, B) <=> pc \in G \/ (Since(pc, G, B) /\ pc \notin B)
        /\ Since(pc + 1 + 1, G, B) /\ pc + 1 \notin G => Since(pc + 1, G, B)
        /\ Since(pc + 1, S, C) <=> pc \in S \/ (Since(pc, S, C) /\ pc \notin C)
    BY <1>1, SinceNext
  <1>6. /\ Since(pc + 1, G, B) <=> \/ Doing = "take" /\ Cur.rule \in Showing
                                   \/ /\ Fresh /\ Doing \notin {"create", "update"}
                                      /\ Doing = "take" => Cur.rule \in {"none"}
    BY <1>2, <1>3, <1>5 DEF Showing
  <1>7. /\ Since(pc + 1, S, C) <=> Doing = "save" \/ (SavedLast /\ Doing \notin {"create", "update"})
    BY <1>2, <1>3, <1>5
  <1>8. h[pc + 1].do = "save" => (Since(pc + 1 + 1, G, B) => Since(pc + 1, G, B))
    BY <1>4, <1>5
  <1> QED
    BY <1>3, <1>6, <1>7, <1>8 DEF G, B, S, C

(* Nothing is behind a handler that has just been called.                  *)
LEMMA BeginsCopy ==
  ASSUME CoreInv, Begins
  PROVE  CopyInv'
  <1>1. pc' = 1 /\ profile' = profile /\ op' \in Handlers /\ Handler(op)' = Handler(op')
    BY DEF Begins, BeginsRead, BeginsCreate, BeginsUpdate, Handlers, Handler
  <1>2. \A o \in Handlers : \A i \in DOMAIN Handler(o) : i \in Nat /\ i >= 1
    BY StepsNumbered
  <1>3. \A i \in DOMAIN Handler(op)' : i \in Nat /\ i >= 1
    BY <1>1, <1>2
  <1>4. ~ (Past(Answering))'
    BY <1>1, EarlierFirst DEF Past
  <1>5. ~ (Fresh)'
    <2>1. ~ Since(1, ShowsOf(Handler(op)'), HidesOf(Handler(op)') \cup CallsOf(Handler(op)'))
      <3>1. \A i \in ShowsOf(Handler(op)') : i \in Nat /\ i >= 1
        BY <1>3 DEF ShowsOf
      <3> QED
        BY <3>1, SinceFirst
    <2> QED
      BY <1>1, <2>1 DEF Fresh, ShowsOf, HidesOf, CallsOf
  <1>6. ~ (SavedLast)'
    <2>1. ~ Since(1, SavesOf(Handler(op)'), CallsOf(Handler(op)'))
      <3>1. \A i \in SavesOf(Handler(op)') : i \in Nat /\ i >= 1
        BY <1>3 DEF SavesOf
      <3> QED
        BY <3>1, SinceFirst
    <2> QED
      BY <1>1, <2>1 DEF SavedLast, SavesOf, CallsOf
  <1> QED
    BY <1>4, <1>5, <1>6 DEF CopyInv, ReplyInv, ModelShows, SavedShows

(* In the framework's spelling a model shows what it shows.                *)
LEMMA SavingShows ==
  ASSUME NEW m, Shows(m, srv)
  PROVE  Shows(AsSaved(m), srv)
  BY DEF AsSaved, Shows

(* Its Read does not ask whether the daemon runs.                          *)
LEMMA NeverAsks ==
  ASSUME CoreInv, Mirrored(profile), Doing # "nothing"
  PROVE  ~ Asks
  <1> DEFINE h == Handler(op)
  <1> SUFFICES ASSUME Asks PROVE FALSE
    OBVIOUS
  <1>1. op = "read" /\ Doing \in {"fetchOrAsk", "forgetIfRunning"}
    BY DEF Asks
  <1>2. DOMAIN h = 1..Len(h) /\ Doing = h[pc].do /\ pc \in DOMAIN h
    BY AtStep DEF CoreInv
  <1>3. Doing = "fetchOrAsk" => pc + 1 \in 1..Len(h) /\ h[pc + 1].do = "forgetIfRunning"
    BY InPairs DEF CoreInv
  <1>4. \E i \in DOMAIN h : h[i].do = "forgetIfRunning"
    BY <1>1, <1>2, <1>3
  <1> QED
    BY <1>1, <1>4 DEF Mirrored, Handler

(* A handler of such an attribute saves what the appliance holds.          *)
LEMMA NextCopy == CoreInv /\ Mirrored(profile) /\ CopyInv /\ [Next]_vars => CopyInv'
  <1> SUFFICES ASSUME CoreInv, Mirrored(profile), CopyInv, [Next]_vars, Handling'
               PROVE  CopyInv'
    BY DEF CopyInv, ReplyInv, ModelShows, SavedShows
  <1> DEFINE h == Handler(op)
             Model(i) == Since(i, ShowsOf(h), HidesOf(h) \cup CallsOf(h))
             Saved(i) == Since(i, SavesOf(h), CallsOf(h))
  <1>1. CASE Begins
    BY <1>1, BeginsCopy
  <1>2. ASSUME Handling, Frame
        PROVE  /\ Handling' /\ op' = op
               /\ Fresh' <=> Model(pc')
               /\ SavedLast' <=> Saved(pc')
               /\ (Past(Answering))' <=> Earlier(h, pc', Answering)
               /\ Running' <=> op # "idle" /\ pc' # End
               /\ Shows(model, srv)' <=> Shows(model', srv')
               /\ Shows(saved, srv)' <=> Shows(saved', srv')
    <2>1. profile' = profile /\ op' = op
      BY <1>2 DEF Frame
    <2>2. Handler(op)' = h
      BY <2>1 DEF Handler
    <2>3. Fresh' <=> Model(pc')
      BY <2>2 DEF Fresh, ShowsOf, HidesOf, CallsOf, Since
    <2>4. SavedLast' <=> Saved(pc')
      BY <2>2 DEF SavedLast, SavesOf, CallsOf, Since
    <2>5. (Past(Answering))' <=> Earlier(h, pc', Answering)
      BY <2>2 DEF Past, Earlier
    <2>6. Running' <=> op # "idle" /\ pc' # End
      BY <2>1, <2>2 DEF Running, End
    <2>7. Shows(model, srv)' <=> Shows(model', srv')
      BY <2>1, ShowsFixed
    <2>8. Shows(saved, srv)' <=> Shows(saved', srv')
      BY <2>1, ShowsFixed
    <2> HIDE DEF Model, Saved, h
    <2> QED
      BY <1>2, <2>1, <2>3, <2>4, <2>5, <2>6, <2>7, <2>8
  <1>3. CASE Handling /\ Pauses
    <2>1. /\ Frame /\ srv' = srv /\ pc' = pc /\ model' = model /\ reply' = reply /\ saved' = saved
      BY <1>3 DEF Pauses
    <2>2. /\ Fresh' <=> Fresh
          /\ SavedLast' <=> SavedLast
          /\ (Past(Answering))' <=> Past(Answering)
          /\ Running' <=> Running
      BY <1>2, <1>3, <2>1 DEF Fresh, SavedLast, Past, Running
    <2> QED
      BY <1>2, <1>3, <2>1, <2>2 DEF CopyInv, ReplyInv, ModelShows, SavedShows
  <1>4. CASE Handling /\ Doing # "nothing" /\ Advances
    <2> DEFINE Here == Running /\ (Doing = "take" => reply = srv /\ reply # None)
    <2>1. /\ Running /\ pc \in Nat /\ pc >= 1 /\ Doing = Cur.do /\ Cur = h[pc]
          /\ pc \in DOMAIN h /\ op \in {"create", "read", "update"} /\ ~ failed
      BY <1>4, Positions DEF Handling
    <2>2. Doing = "take" => reply = srv /\ reply # None
      BY <1>4, <2>1, InPairs DEF CoreInv, CopyInv, ReplyInv
    <2>3. /\ Model(pc) <=> Fresh
          /\ Saved(pc) <=> SavedLast
          /\ Model(pc + 1) <=> \/ Doing = "take" /\ Cur.rule \in Showing
                               \/ /\ Fresh /\ Doing \notin {"create", "update"}
                                  /\ Doing = "take" => Cur.rule \in {"none"}
          /\ Saved(pc + 1) <=> Doing = "save" \/ (SavedLast /\ Doing \notin {"create", "update"})
          /\ h[pc + 1].do = "save" => (Model(pc + 1 + 1) => Model(pc + 1))
      BY <1>4, Onwards
    <2>4. /\ Earlier(h, pc + 1, Answering) <=> Past(Answering) \/ Doing \in Answering
          /\ h[pc + 1].do = "save" =>
               (Earlier(h, pc + 1 + 1, Answering) <=> Earlier(h, pc + 1, Answering))
      <3>1. pc + 1 \in Nat /\ pc + 1 >= 1 /\ "save" \notin Answering
        BY <2>1 DEF Answering
      <3> QED
        BY <2>1, <3>1, EarlierNext DEF Past
    <2>5. \A i \in SavesOf(h) : Model(i)
      BY <2>1 DEF Mirrored, Reflects, Handler
    <2> HIDE DEF h, Model, Saved
    <2>6. CASE Calls
      <3>1. /\ Frame /\ pc' = pc + 1 /\ reply' = srv' /\ srv' # None
            /\ Doing \in {"create", "update"}
        BY <2>6 DEF Calls
      <3>2. ~ Fresh' /\ ~ SavedLast'
        BY <1>2, <1>4, <2>3, <3>1
      <3> QED
        BY <3>1, <3>2 DEF CopyInv, ReplyInv, ModelShows, SavedShows
    <2>7. CASE Fetches
      <3>1. /\ Frame /\ pc' = pc + 1 /\ reply' = srv /\ srv' = srv /\ srv # None
            /\ Doing \notin {"create", "update", "take", "save"}
            /\ model' = model /\ saved' = saved
        BY <2>7 DEF Fetches
      <3>2. (Fresh' => Fresh) /\ (SavedLast' => SavedLast)
        BY <1>2, <1>4, <2>3, <3>1
      <3> QED
        BY <1>2, <1>4, <2>1, <3>1, <3>2 DEF CopyInv, ReplyInv, ModelShows, SavedShows
    <2>8. CASE Takes
      <3>1. /\ Frame /\ Doing = "take" /\ srv' = srv /\ reply' = reply
            /\ model' \in Taken(Cur.rule, reply, model)
        BY <2>8 DEF Takes
      <3>2. Model(pc + 1) => Shows(model', srv)
        <4>1. CASE Cur.rule \in Showing
          BY <1>4, <2>2, <3>1, <4>1, TakingShows
        <4>2. CASE Cur.rule \notin Showing
          <5>1. SUFFICES ASSUME Fresh, Cur.rule = "none" PROVE Shows(model', srv)
            BY <2>3, <3>1, <4>2
          <5>2. model' = model
            BY <3>1, <5>1 DEF Taken
          <5> QED
            BY <1>4, <2>1, <5>1, <5>2 DEF CopyInv, ModelShows
        <4> QED
          BY <4>1, <4>2
      <3>3. reply' = srv' /\ reply' # None
        BY <2>2, <3>1
      <3>4. CASE pc' = pc + 1 /\ saved' = saved
        <4>1. (Fresh' => Model(pc + 1)) /\ (SavedLast' => SavedLast)
          BY <1>2, <1>4, <2>3, <3>1, <3>4
        <4> QED
          BY <1>2, <1>4, <3>1, <3>2, <3>3, <3>4, <4>1 DEF CopyInv, ReplyInv, ModelShows, SavedShows
      <3>5. CASE /\ pc + 1 \in DOMAIN Handler(op) /\ Handler(op)[pc + 1].do = "save"
                 /\ pc' = pc + 1 + 1 /\ saved' = AsSaved(model')
        <4>1. pc + 1 \in SavesOf(h) /\ h[pc + 1].do = "save"
          BY <3>5 DEF SavesOf, h
        <4>2. Shows(model', srv)
          BY <2>5, <3>2, <4>1
        <4>3. Shows(saved', srv)
          BY <3>5, <4>2 DEF AsSaved, Shows
        <4> QED
          BY <1>2, <1>4, <3>1, <3>3, <4>2, <4>3 DEF CopyInv, ReplyInv, ModelShows, SavedShows
      <3> QED
        BY <2>8, <3>4, <3>5 DEF Takes
    <2>9. CASE Saves
      <3>1. /\ Frame /\ Doing = "save" /\ pc' = pc + 1 /\ srv' = srv /\ reply' = reply
            /\ model' = model /\ saved' = AsSaved(model)
        BY <2>9 DEF Saves
      <3>2. pc \in SavesOf(h)
        BY <2>1, <3>1 DEF SavesOf, h
      <3>3. Shows(model, srv)
        BY <1>4, <2>1, <2>3, <2>5, <3>2 DEF CopyInv, ModelShows
      <3>4. Shows(saved', srv)
        BY <3>1, <3>3, SavingShows
      <3>5. Earlier(h, pc', Answering) => Past(Answering)
        BY <2>4, <3>1 DEF Answering
      <3> QED
        BY <1>2, <1>4, <2>1, <3>1, <3>3, <3>4, <3>5 DEF CopyInv, ReplyInv, ModelShows, SavedShows
    <2>10. CASE Passes
      <3>1. /\ Frame /\ pc' = pc + 1 /\ srv' = srv /\ reply' = reply /\ model' = model
            /\ saved' = saved /\ Doing \notin {"create", "update", "take", "save"} \cup Answering
        BY <2>10 DEF Passes, Reporting, Answering
      <3>2. (Fresh' => Fresh) /\ (SavedLast' => SavedLast) /\ ((Past(Answering))' => Past(Answering))
        BY <1>2, <1>4, <2>3, <2>4, <3>1
      <3> QED
        BY <1>2, <1>4, <2>1, <3>1, <3>2 DEF CopyInv, ReplyInv, ModelShows, SavedShows
    <2>11. CASE Forgets
      <3>1. Frame /\ saved' = None /\ pc' = End
        BY <2>11 DEF Forgets
      <3>2. ~ Running'
        BY <1>2, <1>4, <3>1
      <3> QED
        BY <3>1, <3>2 DEF CopyInv, ReplyInv, ModelShows, SavedShows
    <2>12. CASE Asks
      BY <1>4, <2>12, NeverAsks
    <2> QED
      BY <1>4, <2>6, <2>7, <2>8, <2>9, <2>10, <2>11, <2>12 DEF Advances
  <1> QED
    BY <1>1, <1>3, <1>4, HandlingStep

-----------------------------------------------------------------------------
(* The steps of the machine, by what they do to the state and to the marks *)
(* that go with it.                                                        *)

(* Nothing that runs is touched: edits, changes made by others, the daemon.*)
Lingers ==
  /\ UNCHANGED <<profile, base, op, st, tainted, mark, owned, before, saved, failed, pc, planMark>>
  /\ \/ st # None => stale' = "unread"
     \/ stale' = stale /\ srv' = srv
  /\ ~ Idle => cfg' = cfg /\ srv' = srv

(* Core calls a handler for an operation.                                  *)
Starts ==
  /\ Idle /\ op' \in Handlers /\ before' = srv /\ failed' = FALSE
  /\ UNCHANGED <<profile, base, cfg, srv, st, tainted, mark, stale, owned>>
  /\ op' \in {"update", "delete"} => saved' = st
  /\ op' = "read" => planMark' = mark

(* A handler does a step: a Read and an import only look, a Delete saves   *)
(* nothing, and an Update that fails saves nothing any more.               *)
Within ==
  /\ Doing # "nothing" /\ ~ failed
  /\ UNCHANGED <<profile, base, op, cfg, st, tainted, mark, owned, before>>
  /\ op # "create" => stale' = stale
  /\ op \in {"read", "import"} => srv' = srv /\ ~ failed'
  /\ op = "delete" => saved' = saved
  /\ op = "update" /\ failed' => saved' = saved /\ (srv' = srv \/ Doing = "update")

(* A Read or an import fails.                                              *)
Quits ==
  /\ op \in {"read", "import"} /\ op' = "idle"
  /\ UNCHANGED <<profile, base, cfg, srv, st, tainted, mark, stale, owned>>

Ends == Created \/ Updated \/ WasRead \/ Imported \/ Deleted

(* What the steps of each handler may do.                                  *)
LEMMA Permitted ==
  ASSUME CoreInv, Doing # "nothing"
  PROVE  /\ Doing \in Allowed(op) /\ op \in Handlers /\ ~ failed
         /\ Doing \in {"create", "fetchOrRecord"} => op = "create"
         /\ Doing = "update" => op \in {"create", "update", "delete"}
         /\ Doing \in {"undo", "delete", "deleteOrAsk", "goneIfRunning", "leaveInPlace"}
              => op = "delete"
         /\ Doing \in {"fetchOrForget", "fetchOrAsk", "forgetIfRunning"} => op = "read"
         /\ Doing = "saveId" => op = "import"
         /\ Doing \in {"fetch", "take", "save"} \cup Reporting => op # "delete"
  <1>1. Doing \in Allowed(op) /\ op \in Handlers /\ ~ failed
    BY AtStep DEF CoreInv
  <1> QED
    BY <1>1 DEF Allowed, Handlers, Reporting

(* The calls.                                                              *)
LEMMA CallsWithin ==
  ASSUME CoreInv, NEW fails \in BOOLEAN,
         CreateCall(fails) \/ UpdateCall(fails) \/ DeleteCall(fails) \/ UndoCall
  PROVE  Within
  <1>1. CASE CreateCall(fails)
    <2>1. Doing = "create" /\ Doing # "nothing"
      BY <1>1 DEF CreateCall, At
    <2>2. op = "create" /\ ~ failed
      BY <2>1, Permitted
    <2> QED
      BY <1>1, <2>1, <2>2 DEF CreateCall, Proceed, Aborts, NextStep, Goto, Within
  <1>2. CASE UpdateCall(fails)
    <2>1. Doing = "update" /\ Doing # "nothing"
      BY <1>2 DEF UpdateCall, At
    <2>2. op \in {"create", "update", "delete"} /\ ~ failed
      BY <2>1, Permitted
    <2> QED
      BY <1>2, <2>1, <2>2 DEF UpdateCall, Proceed, Aborts, NextStep, Goto, Within, history
  <1>3. CASE DeleteCall(fails)
    <2>1. Doing \in {"delete", "deleteOrAsk"} /\ Doing # "nothing"
      BY <1>3 DEF DeleteCall, At
    <2>2. op = "delete" /\ ~ failed
      BY <2>1, Permitted
    <2> QED
      BY <1>3, <2>1, <2>2 DEF DeleteCall, Aborts, Stop, Goto, Within
  <1>4. CASE UndoCall
    <2>1. Doing = "undo" /\ Doing # "nothing"
      BY <1>4 DEF UndoCall, At
    <2>2. op = "delete" /\ ~ failed
      BY <2>1, Permitted
    <2> QED
      BY <1>4, <2>1, <2>2 DEF UndoCall, NextStep, Goto, Within, history
  <1> QED
    BY <1>1, <1>2, <1>3, <1>4

(* The steps that do not change the appliance.                             *)
LEMMA RestWithin ==
  ASSUME CoreInv,
         \/ FetchStep \/ Forget \/ NotFound \/ Asked \/ Record \/ TakeStep \/ SaveStep
         \/ RecordManagedStep \/ ImportFlagStep \/ PassStep
  PROVE  Within
  <1>1. CASE FetchStep
    <2>1. Doing \in {"fetch", "fetchOrForget", "fetchOrRecord", "fetchOrAsk"} /\ Doing # "nothing"
      BY <1>1 DEF FetchStep
    <2> QED
      BY <1>1, <2>1, Permitted DEF FetchStep, Goto, Within, object, history
  <1>2. CASE Forget
    <2>1. Doing \in {"fetchOrForget", "forgetIfRunning"} /\ Doing # "nothing"
      BY <1>2 DEF Forget, At
    <2>2. op = "read" /\ ~ failed
      BY <2>1, Permitted
    <2> QED
      BY <1>2, <2>1, <2>2 DEF Forget, Stop, Goto, Within, object, history
  <1>3. CASE NotFound
    <2>1. Doing \in {"fetchOrAsk", "deleteOrAsk"} /\ Doing # "nothing"
      BY <1>3 DEF NotFound
    <2> QED
      BY <1>3, <2>1, Permitted DEF NotFound, NextStep, Goto, Within, object, history
  <1>4. CASE Asked
    <2>1. Doing \in {"forgetIfRunning", "goneIfRunning"} /\ Doing # "nothing"
      BY <1>4 DEF Asked, At
    <2>2. /\ op \in {"read", "delete"} /\ ~ failed
          /\ op = "read" => Doing = "forgetIfRunning"
      BY <2>1, Permitted
    <2>3. op = "read" => ~ failed'
      BY <1>4, <2>2 DEF Asked, At
    <2> QED
      BY <1>4, <2>1, <2>2, <2>3 DEF Asked, Aborts, Stop, Goto, Within, object, history
  <1>5. CASE Record
    <2>1. Doing = "fetchOrRecord" /\ Doing # "nothing"
      BY <1>5 DEF Record, At
    <2>2. op = "create" /\ ~ failed
      BY <2>1, Permitted
    <2> QED
      BY <1>5, <2>1, <2>2 DEF Record, Aborts, Within, object, history
  <1>6. CASE TakeStep
    <2>1. Doing = "take" /\ Doing # "nothing"
      BY <1>6 DEF TakeStep, At
    <2>2. op # "delete" /\ ~ failed
      BY <2>1, Permitted DEF Reporting
    <2> QED
      BY <1>6, <2>1, <2>2 DEF TakeStep, Goto, Within, object, history
  <1>7. CASE SaveStep
    <2>1. Doing \in {"save", "saveId"} /\ Doing # "nothing"
      BY <1>7 DEF SaveStep
    <2>2. op # "delete" /\ ~ failed
      BY <2>1, Permitted DEF Reporting
    <2> QED
      BY <1>7, <2>1, <2>2 DEF SaveStep, NextStep, Goto, Within, object, history
  <1>8. CASE RecordManagedStep \/ ImportFlagStep \/ PassStep
    <2>1. Doing # "nothing"
      BY <1>8 DEF RecordManagedStep, ImportFlagStep, PassStep, At
    <2>2. ~ failed
      BY <2>1, Permitted
    <2> QED
      BY <1>8, <2>1, <2>2
         DEF RecordManagedStep, ImportFlagStep, PassStep, NextStep, Goto, Within, object, history
  <1> QED
    BY <1>1, <1>2, <1>3, <1>4, <1>5, <1>6, <1>7, <1>8

(* A step fails.                                                           *)
LEMMA FailsWithin ==
  ASSUME CoreInv, Fails
  PROVE  Within \/ Quits
  <1>1. Doing # "nothing"
    BY DEF Fails
  <1>2. op \in Handlers /\ ~ failed /\ (Doing = "update" => op \notin {"read", "import"})
    BY <1>1, Permitted
  <1>3. At("update") <=> Doing = "update"
    BY DEF At
  <1>4. CASE op \in {"read", "import"}
    BY <1>2, <1>3, <1>4 DEF Fails, Return, Quits, history
  <1>5. CASE op \notin {"read", "import"}
    BY <1>1, <1>2, <1>3, <1>5 DEF Fails, Aborts, Within, history
  <1> QED
    BY <1>4, <1>5

(* Every step of the machine is one of these.                              *)
LEMMA AnyStep ==
  ASSUME CoreInv, [Next]_vars
  PROVE  Lingers \/ Starts \/ Within \/ Quits \/ Ends
  <1>1. CASE Edit \/ Drift \/ Vanish \/ Restart
    <2>1. CASE Edit
      BY <2>1 DEF Edit, handler, Lingers
    <2>2. CASE Drift
      BY <2>2 DEF Drift, handler, Unread, Lingers
    <2>3. CASE Vanish
      BY <2>3 DEF Vanish, handler, Unread, Lingers
    <2>4. CASE Restart
      BY <2>4 DEF Restart, handler, Lingers
    <2> QED
      BY <1>1, <2>1, <2>2, <2>3, <2>4
  <1>2. CASE \/ Refresh \/ Import \/ Destroy \/ ApplyCreate \/ ApplyReplace
             \/ \E moved \in Moves : ApplyUpdate(moved)
    <2>1. CASE Refresh
      BY <2>1 DEF Refresh, Call, object, history, Starts, Handlers
    <2>2. CASE Import
      BY <2>2 DEF Import, Call, object, history, Starts, Handlers
    <2>3. CASE Destroy
      BY <2>3 DEF Destroy, Call, object, history, Starts, Handlers
    <2>4. CASE ApplyCreate
      BY <2>4 DEF ApplyCreate, CallCreate, Call, object, history, Starts, Handlers
    <2>5. CASE ApplyReplace
      BY <2>5 DEF ApplyReplace, Call, object, history, Starts, Handlers
    <2>6. CASE \E moved \in Moves : ApplyUpdate(moved)
      BY <2>6 DEF ApplyUpdate, Call, object, history, Starts, Handlers
    <2> QED
      BY <1>2, <2>1, <2>2, <2>3, <2>4, <2>5, <2>6
  <1>3. CASE \/ \E fails \in BOOLEAN : CreateCall(fails) \/ UpdateCall(fails) \/ DeleteCall(fails)
             \/ UndoCall
    BY <1>3, CallsWithin
  <1>4. CASE Fails
    BY <1>4, FailsWithin
  <1>5. CASE \/ FetchStep \/ Forget \/ NotFound \/ Asked \/ Record \/ TakeStep \/ SaveStep
             \/ RecordManagedStep \/ ImportFlagStep \/ PassStep
    BY <1>5, RestWithin
  <1>6. CASE Created \/ Updated \/ WasRead \/ Imported \/ Deleted
    BY <1>6 DEF Ends
  <1>7. CASE UNCHANGED vars
    BY <1>7 DEF vars, handler, history, Lingers
  <1> QED
    BY <1>1, <1>2, <1>3, <1>4, <1>5, <1>6, <1>7 DEF Next

-----------------------------------------------------------------------------
(* What a handler keeps until it saves.                                    *)

(* A Read reports no error in the middle; a Delete, and an Update that has *)
(* not saved yet, keep the state.                                          *)
HandlerInv ==
  /\ op = "read" => ~ failed
  /\ op = "delete" => saved = st
  /\ op = "update" /\ ~ failed /\ ~ Past({"save"}) => saved = st

(* A save is behind the handler once it has done one.                      *)
LEMMA SavedPast ==
  ASSUME CoreInv, Doing # "nothing"
  PROVE  /\ Doing = "save" => Earlier(Handler(op), pc + 1, {"save"})
         /\ Handler(op)[pc + 1].do = "save" => Earlier(Handler(op), pc + 1 + 1, {"save"})
         /\ Past({"save"}) => Earlier(Handler(op), pc + 1, {"save"})
  <1>1. pc \in Nat /\ pc >= 1 /\ pc + 1 \in Nat /\ pc + 1 >= 1 /\ Doing = Handler(op)[pc].do
    BY Positions
  <1> QED
    BY <1>1, EarlierNext DEF Past

(* An Update saves the state that it was given, or one of its own.         *)
LEMMA UpdateKeeps ==
  ASSUME CoreInv, HandlerInv, [Next]_vars, op' = "update", ~ failed', ~ (Past({"save"}))'
  PROVE  saved' = st'
  <1>1. CASE Begins
    BY <1>1 DEF Begins, BeginsRead, BeginsCreate, BeginsUpdate
  <1>2. ASSUME Handling, Frame
        PROVE  /\ op = "update" /\ st' = st /\ ~ Earlier(Handler(op), pc', {"save"})
               /\ ~ Past({"save"}) => saved = st
    <2>1. op = "update" /\ st' = st /\ Handler(op)' = Handler(op)
      BY <1>2 DEF Frame, Handler
    <2> QED
      BY <1>2, <2>1 DEF Past, Earlier, HandlerInv, Handling
  <1>3. CASE Handling /\ Pauses
    BY <1>2, <1>3 DEF Pauses, Past
  <1>4. CASE Handling /\ Doing # "nothing" /\ Advances
    <2>1. CASE Calls \/ Fetches \/ Passes
      <3>1. Frame /\ saved' = saved /\ pc' = pc + 1
        BY <2>1 DEF Calls, Fetches, Passes
      <3> QED
        BY <1>2, <1>4, <3>1, SavedPast
    <2>2. CASE Takes
      <3>1. /\ Frame
            /\ \/ pc' = pc + 1 /\ saved' = saved
               \/ Handler(op)[pc + 1].do = "save" /\ pc' = pc + 1 + 1
        BY <2>2 DEF Takes
      <3> QED
        BY <1>2, <1>4, <3>1, SavedPast
    <2>3. CASE Saves
      <3>1. Frame /\ Doing = "save" /\ pc' = pc + 1
        BY <2>3 DEF Saves
      <3> QED
        BY <1>2, <1>4, <3>1, SavedPast
    <2>4. CASE Forgets \/ Asks
      BY <2>4 DEF Forgets, Asks, Frame
    <2> QED
      BY <1>4, <2>1, <2>2, <2>3, <2>4 DEF Advances
  <1> QED
    BY <1>1, <1>3, <1>4, HandlingStep DEF Handling

(* An Update saves nothing before its first save, a destroy saves nothing, *)
(* and a Read does not go on after a failure.                              *)
LEMMA NextHandler == CoreInv /\ HandlerInv /\ [Next]_vars => HandlerInv'
  <1> SUFFICES ASSUME CoreInv, HandlerInv, [Next]_vars PROVE HandlerInv'
    OBVIOUS
  <1>1. op' = "update" /\ ~ failed' /\ ~ (Past({"save"}))' => saved' = st'
    BY UpdateKeeps
  <1>2. (op' = "read" => ~ failed') /\ (op' = "delete" => saved' = st')
    <2>1. CASE Lingers
      BY <2>1 DEF Lingers, HandlerInv
    <2>2. CASE Starts
      BY <2>2 DEF Starts
    <2>3. CASE Within
      BY <2>3 DEF Within, HandlerInv
    <2>4. CASE Quits
      BY <2>4 DEF Quits
    <2>5. CASE Ends
      BY <2>5 DEF Ends, Created, Updated, WasRead, Imported, Deleted, CallCreate, Call, Return
    <2> QED
      BY <2>1, <2>2, <2>3, <2>4, <2>5, AnyStep
  <1> QED
    BY <1>1, <1>2 DEF HandlerInv

(* Where an Update makes no call after a save, what it has saved last is   *)
(* what the last call has left.                                            *)
LEMMA UpdateShows ==
  CoreInv /\ HandlerInv /\ CopyInv /\ Mirrored(profile) /\ op = "update" /\ ~ failed
    => saved = st \/ Shows(saved, srv)
  <1> SUFFICES ASSUME CoreInv, HandlerInv, CopyInv, Mirrored(profile), op = "update", ~ failed,
                      Past({"save"})
               PROVE  Shows(saved, srv)
    BY DEF HandlerInv
  <1> DEFINE h == Handler("update")
  <1>1. PICK j \in 1..(pc - 1) : h[j].do = "save"
    BY DEF Past, Earlier
  <1>2. /\ DOMAIN h = 1..Len(h) /\ Len(h) \in Nat /\ pc \in 1..(Len(h) + 1) /\ pc \in Nat
    BY StepsNumbered DEF Handlers, CoreInv, PcInv, End
  <1> HIDE DEF h
  <1>3. j \in DOMAIN h /\ j < pc /\ j \in Nat
    BY <1>1, <1>2
  <1>4. j \in SavesOf(h)
    BY <1>1, <1>3 DEF SavesOf
  <1>5. \A k \in CallsOf(h) : k < j /\ k \in Nat
    BY <1>2, <1>4 DEF Mirrored, Handler, h, CallsOf
  <1>6. SavedLast
    BY <1>3, <1>4, <1>5 DEF SavedLast, Since, h
  <1> QED
    BY <1>6 DEF CopyInv, SavedShows, Handling, CoreInv, ModelInv

-----------------------------------------------------------------------------
(* A state that is not stale shows the appliance.                          *)

(* A failed Update leaves the state as it was, or as it is.                *)
KeepInv == op = "update" => saved = st \/ Shows(saved, srv)

(* An untainted state shows what the appliance held when it was last read, *)
(* unless the appliance may have changed since.                            *)
SyncInv == stale = "no" /\ ~ tainted /\ st # None /\ Seen # None => Shows(st, Seen)

MirrorInv == Mirrored(profile) => CopyInv /\ KeepInv /\ SyncInv

(* A step of a mirrored attribute's Update leaves what is saved as it was, *)
(* or as the appliance is.                                                 *)
LEMMA NextKeep ==
  ASSUME CoreInv, HandlerInv, Mirrored(profile), CopyInv, KeepInv, [Next]_vars,
         CoreInv', HandlerInv', CopyInv', Mirrored(profile)'
  PROVE  KeepInv'
  <1> SUFFICES ASSUME op' = "update" PROVE saved' = st' \/ Shows(saved, srv)'
    BY DEF KeepInv
  <1>1. CASE ~ failed'
    <2>1. (CoreInv /\ HandlerInv /\ CopyInv /\ Mirrored(profile) /\ op = "update" /\ ~ failed
             => saved = st \/ Shows(saved, srv))'
      BY UpdateShows, PTL
    <2> QED
      BY <1>1, <2>1
  <1>2. CASE failed'
    <2>1. CASE Lingers
      <3>1. /\ profile' = profile /\ op = "update" /\ saved' = saved /\ st' = st /\ srv' = srv
        BY <2>1 DEF Lingers, Idle
      <3> QED
        BY <3>1, ShowsFixed DEF KeepInv
    <2>2. CASE Starts \/ Quits
      BY <1>2, <2>2 DEF Starts, Quits
    <2>3. CASE Within
      <3>1. /\ profile' = profile /\ op = "update" /\ saved' = saved /\ st' = st /\ ~ failed
            /\ srv' = srv \/ Doing = "update"
            /\ Doing # "nothing"
        BY <1>2, <2>3 DEF Within
      <3>2. CASE srv' = srv
        BY <3>1, <3>2, ShowsFixed DEF KeepInv
      <3>3. CASE Doing = "update"
        <4>1. pc \in CallsOf(Handler(op)) /\ pc \in Nat
          BY <3>1, <3>3, Positions
        <4>2. \A i \in SavesOf(Handler(op)) : pc < i
          BY <3>1, <4>1 DEF Mirrored, Handler
        <4>3. ~ Past({"save"})
          <5> SUFFICES ASSUME NEW j \in 1..(pc - 1), Handler(op)[j].do = "save" PROVE FALSE
            BY DEF Past, Earlier
          <5>1. DOMAIN Handler(op) = 1..Len(Handler(op)) /\ pc \in DOMAIN Handler(op)
                /\ Len(Handler(op)) \in Nat
            BY <3>1, AtStep DEF CoreInv
          <5>2. j \in DOMAIN Handler(op) /\ ~ (pc < j)
            BY <4>1, <5>1
          <5> QED
            BY <4>2, <5>2 DEF SavesOf
        <4> QED
          BY <3>1, <4>3 DEF HandlerInv
      <3> QED
        BY <3>1, <3>2, <3>3
    <2>4. CASE Ends
      BY <1>2, <2>4 DEF Ends, Created, Updated, WasRead, Imported, Deleted, CallCreate, Call, Return
    <2> QED
      BY <2>1, <2>2, <2>3, <2>4, AnyStep
  <1> QED
    BY <1>1, <1>2 DEF CoreInv, Typed, FlagsTyped

(* At the end of a handler its last save is behind its last call.          *)
LEMMA EndSaved ==
  ASSUME CoreInv, Mirrored(profile), op \in {"create", "read", "update"}, pc = End
  PROVE  SavedLast
  <1>1. Reflects(Handler(op))
    BY DEF Mirrored, Handler
  <1> QED
    BY <1>1 DEF Reflects, SavedLast, End

(* The handlers end.                                                       *)
LEMMA EndsSync ==
  ASSUME CoreInv, HandlerInv, Mirrored(profile), CopyInv, KeepInv, SyncInv, Ends,
         stale' = "no", ~ tainted', st' # None, Seen' # None
  PROVE  Shows(st', Seen')
  <1>1. CASE Created
    <2>1. /\ op = "create" /\ pc = End /\ op' = "idle" /\ srv' = srv
          /\ st' = IF saved = Unknown THEN Null ELSE saved
          /\ tainted' = (Rejected /\ saved # None)
      BY <1>1 DEF Created, Ended, Return
    <2>2. ~ failed /\ saved # None /\ st' = saved
      BY <2>1, SpecialValues, ValuesApart DEF Rejected
    <2>3. Shows(saved, srv)
      BY <2>1, <2>2, EndSaved DEF CopyInv, SavedShows, Handling
    <2> QED
      BY <2>1, <2>2, <2>3 DEF Seen
  <1>2. CASE Updated
    <2>1. /\ op = "update" /\ pc = End /\ op' = "idle" /\ srv' = srv
          /\ st' = saved /\ tainted' = tainted /\ stale' = Trust
      BY <1>2 DEF Updated, Ended, Return
    <2>2. CASE ~ failed
      BY <2>1, <2>2, EndSaved DEF CopyInv, SavedShows, Handling, Seen
    <2>3. CASE failed
      <3>1. srv = before /\ stale = "no"
        BY <2>1, <2>3 DEF Trust
      <3>2. Seen = before /\ Seen' = srv
        BY <2>1 DEF Seen
      <3> QED
        BY <2>1, <3>1, <3>2 DEF SyncInv, KeepInv
    <2> QED
      BY <2>2, <2>3
  <1>3. CASE WasRead
    <2>1. op = "read" /\ pc = End /\ op' = "idle" /\ srv' = srv /\ st' = saved
      BY <1>3 DEF WasRead, Ended, Return
    <2>2. ~ failed
      BY <2>1 DEF HandlerInv
    <2> QED
      BY <2>1, <2>2, EndSaved DEF CopyInv, SavedShows, Handling, Seen
  <1>4. CASE Imported
    BY <1>4 DEF Imported, Ended, object, CoreInv, CalledInv
  <1>5. CASE Deleted
    <2>1. /\ op = "delete" /\ op' \in {"idle", "create"} /\ srv' = srv
          /\ st' = (IF failed THEN saved ELSE None)
          /\ tainted' = (failed /\ tainted) /\ stale' = (IF failed THEN Trust ELSE "no")
      BY <1>5 DEF Deleted, Ended, Return, CallCreate, Call
    <2>2. failed /\ st' = st /\ srv = before /\ stale = "no" /\ ~ tainted
      BY <2>1 DEF HandlerInv, Trust
    <2>3. Seen = before /\ Seen' = srv
      BY <2>1 DEF Seen
    <2> QED
      BY <2>2, <2>3 DEF SyncInv
  <1> QED
    BY <1>1, <1>2, <1>3, <1>4, <1>5 DEF Ends

(* An untainted state of a mirrored attribute goes on showing what the     *)
(* appliance held.                                                         *)
LEMMA NextSync ==
  ASSUME CoreInv, HandlerInv, Mirrored(profile), CopyInv, KeepInv, SyncInv, [Next]_vars
  PROVE  SyncInv'
  <1> SUFFICES ASSUME stale' = "no", ~ tainted', st' # None, Seen' # None
               PROVE  Shows(st, Seen)'
    BY DEF SyncInv
  <1>1. CASE Ends
    <2>1. profile' = profile
      BY <1>1 DEF Ends, Created, Updated, WasRead, Imported, Deleted, object
    <2> QED
      BY <1>1, <2>1, EndsSync, ShowsFixed
  <1>2. ASSUME profile' = profile, st' = st, tainted' = tainted, stale = "no", Seen' = Seen
        PROVE  Shows(st, Seen)'
    <2>1. Shows(st, Seen)
      BY <1>2 DEF SyncInv
    <2>2. Shows(st', Seen')
      BY <1>2, <2>1
    <2> QED
      BY <1>2, <2>2, ShowsFixed
  <1>3. CASE Lingers
    <2>1. /\ profile' = profile /\ st' = st /\ tainted' = tainted /\ op' = op /\ before' = before
          /\ stale' = stale /\ srv' = srv
      BY <1>3 DEF Lingers
    <2> QED
      BY <1>2, <2>1 DEF Seen
  <1>4. CASE Starts
    <2>1. /\ profile' = profile /\ st' = st /\ tainted' = tainted /\ before' = srv
          /\ stale' = stale /\ srv' = srv /\ op = "idle"
      BY <1>4 DEF Starts, Idle
    <2> QED
      BY <1>2, <2>1 DEF Seen
  <1>5. CASE Within
    <2>1. /\ profile' = profile /\ st' = st /\ tainted' = tainted /\ op' = op /\ before' = before
          /\ op # "create" => stale' = stale
          /\ op \in {"read", "import"} => srv' = srv
          /\ Doing # "nothing"
      BY <1>5 DEF Within
    <2>2. op \in Handlers /\ op # "create"
      BY <2>1, Permitted DEF CoreInv, CalledInv
    <2> QED
      BY <1>2, <2>1, <2>2 DEF Seen, Handlers
  <1>6. CASE Quits
    <2>1. /\ profile' = profile /\ st' = st /\ tainted' = tainted /\ op' = "idle"
          /\ stale' = stale /\ srv' = srv /\ op \in {"read", "import"}
      BY <1>6 DEF Quits
    <2> QED
      BY <1>2, <2>1 DEF Seen
  <1> QED
    BY <1>1, <1>3, <1>4, <1>5, <1>6, AnyStep

(* What every step keeps of a mirrored attribute.                          *)
LEMMA NextMirror ==
  CoreInv /\ CoreInv' /\ HandlerInv /\ HandlerInv' /\ MirrorInv /\ [Next]_vars => MirrorInv'
  <1> SUFFICES ASSUME CoreInv, CoreInv', HandlerInv, HandlerInv', MirrorInv, [Next]_vars,
                      Mirrored(profile)'
               PROVE  (CopyInv /\ KeepInv /\ SyncInv)'
    BY DEF MirrorInv
  <1>1. profile' = profile
    <2>1. CASE Ends
      BY <2>1 DEF Ends, Created, Updated, WasRead, Imported, Deleted, object
    <2> QED
      BY <2>1, AnyStep DEF Lingers, Starts, Within, Quits
  <1>2. Mirrored(profile)
    BY <1>1 DEF Mirrored, Reflects, SavesOf, ShowsOf, HidesOf, CallsOf, Since
  <1>3. CopyInv /\ KeepInv /\ SyncInv
    BY <1>2 DEF MirrorInv
  <1>4. CopyInv'
    BY <1>2, <1>3, NextCopy
  <1> QED
    BY <1>2, <1>3, <1>4, NextKeep, NextSync

-----------------------------------------------------------------------------
(* The private data that says that Terraform owns a value.                 *)

(* An owned value is marked in the private data of the state; what a       *)
(* handler returns says whether the attribute is configured.               *)
OwnedMarked  == (st = None => ~ owned) /\ (owned => mark)
MarkReturned ==
  /\ op = "create" /\ ~ failed /\ Past({"recordManaged"}) => planMark = (cfg # Null)
  /\ op = "update" /\ ~ failed => planMark = (cfg # Null)
  /\ op = "read" /\ ~ failed /\ st # None => planMark = mark

MarkInv == Marking(profile) /\ Managed => OwnedMarked /\ MarkReturned

(* What a handler returns when it has just been called.                    *)
LEMMA BeginsMark ==
  ASSUME CoreInv, Managed, OwnedMarked, Begins
  PROVE  MarkReturned'
  <1>1. pc' = 1 /\ cfg' = cfg /\ failed' = FALSE
    BY DEF Begins
  <1>2. ~ (Past({"recordManaged"}))'
    BY <1>1, EarlierFirst DEF Past
  <1>3. CASE BeginsRead
    <2>1. op' = "read" /\ mark' = mark /\ st' = st /\ (st # None => planMark' = mark)
      BY <1>3 DEF BeginsRead
    <2> QED
      BY <2>1 DEF MarkReturned, OwnedMarked
  <1>4. CASE BeginsCreate
    BY <1>2, <1>4 DEF BeginsCreate, MarkReturned
  <1>5. CASE BeginsUpdate
    <2>1. /\ KindTyped(kind) /\ base \in Held /\ mark \in BOOLEAN
          /\ cfg \in Configs \cup {None} /\ st \in Settable \cup {None}
      <3>1. WellFormed(profile)
        BY Formed DEF CoreInv
      <3> QED
        BY <3>1, Types DEF WellFormed, kind, Typed, ValuesTyped, FlagsTyped
    <2>2. op' = "update" /\ cfg \in Configs
      BY <1>5, <2>1 DEF BeginsUpdate
    <2>3. PICK moved \in Moves : planMark' = Planned(st, mark, moved).mark
      BY <1>5 DEF BeginsUpdate
    <2>4. PICK m \in Range(kind.modifiers) : m \in Resets
      BY DEF Managed, Has, Resets
    <2>5. Planned(st, mark, moved).mark = (cfg # Null)
      BY <2>1, <2>2, <2>4, PlannedReset
    <2> QED
      BY <1>1, <2>2, <2>3, <2>5 DEF MarkReturned
  <1> QED
    BY <1>3, <1>4, <1>5 DEF Begins

(* What a handler returns, on its way.                                     *)
LEMMA HandlingMark ==
  ASSUME CoreInv, HandlerInv, Marking(profile), Managed, OwnedMarked, MarkReturned,
         [Next]_vars, Handling'
  PROVE  MarkReturned'
  <1>1. CASE Begins
    BY <1>1, BeginsMark
  <1>2. ASSUME Handling, Frame
        PROVE  /\ op' = op /\ cfg' = cfg /\ mark' = mark /\ st' = st
               /\ (Past({"recordManaged"}))' <=> Earlier(Handler(op), pc', {"recordManaged"})
    <2>1. op' = op /\ cfg' = cfg /\ mark' = mark /\ st' = st /\ Handler(op)' = Handler(op)
      BY <1>2 DEF Frame, Handler
    <2> QED
      BY <2>1 DEF Past, Earlier
  <1>3. CASE Handling /\ Pauses
    BY <1>2, <1>3 DEF Pauses, Past, MarkReturned, Handling
  <1>4. CASE Handling /\ Doing # "nothing" /\ Advances
    <2>1. /\ pc \in Nat /\ pc >= 1 /\ pc + 1 \in Nat /\ pc + 1 >= 1 /\ pc \in DOMAIN Handler(op)
          /\ Doing = Handler(op)[pc].do
      BY <1>4, Positions
    <2>2. /\ Earlier(Handler(op), pc + 1, {"recordManaged"})
               <=> Past({"recordManaged"}) \/ Doing = "recordManaged"
          /\ Handler(op)[pc + 1].do = "save" =>
               (Earlier(Handler(op), pc + 1 + 1, {"recordManaged"})
                  <=> Earlier(Handler(op), pc + 1, {"recordManaged"}))
      BY <2>1, EarlierNext DEF Past
    <2>3. CASE Calls \/ Fetches \/ Takes \/ Saves
      <3>1. /\ Frame /\ planMark' = planMark /\ Doing # "recordManaged"
            /\ \/ pc' = pc + 1
               \/ Handler(op)[pc + 1].do = "save" /\ pc' = pc + 1 + 1
        BY <2>3 DEF Calls, Fetches, Takes, Saves
      <3> QED
        BY <1>2, <1>4, <2>2, <3>1 DEF MarkReturned, Handling
    <2>4. CASE Passes
      <3>1. ~ Has({"keepImported"})
        BY DEF Marking, With, Has, kind
      <3>2. Frame /\ pc' = pc + 1
            /\ IF Doing = "recordManaged" THEN planMark' = (cfg # Null) ELSE planMark' = planMark
        BY <2>4, <3>1 DEF Passes
      <3>3. op = "read" => Doing # "recordManaged"
        BY <2>1 DEF Marking, Handler
      <3> QED
        BY <1>2, <1>4, <2>2, <3>2, <3>3 DEF MarkReturned, Handling
    <2>5. CASE Forgets \/ Asks
      <3>1. Frame /\ op = "read" /\ planMark' = planMark
        BY <2>5 DEF Forgets, Asks
      <3> QED
        BY <1>2, <1>4, <3>1 DEF MarkReturned, Handling
    <2> QED
      BY <1>4, <2>3, <2>4, <2>5 DEF Advances
  <1> QED
    BY <1>1, <1>3, <1>4, HandlingStep

(* The end of a handler.                                                   *)
LEMMA EndsMark ==
  ASSUME CoreInv, HandlerInv, Marking(profile), Managed, OwnedMarked, MarkReturned, Ends
  PROVE  OwnedMarked'
  <1>1. CASE Created
    <2>1. /\ op = "create" /\ pc = End /\ mark' = planMark /\ planMark \in BOOLEAN
          /\ st' = IF saved = Unknown THEN Null ELSE saved
          /\ owned' = (Managed /\ ~ Rejected /\ cfg # Null)
      BY <1>1, Types DEF Created, Ended
    <2>2. ASSUME ~ failed PROVE Past({"save"}) /\ Past({"recordManaged"})
      <3>1. WellFormed(profile)
        BY Formed DEF CoreInv
      <3>2. Past({"save"})
        BY <2>1, <3>1 DEF WellFormed, Past, End, Handler
      <3>3. DOMAIN profile.create = 1..Len(profile.create) /\ Len(profile.create) \in Nat
        BY <2>1, StepsNumbered DEF Handlers, Handler
      <3>4. PICK i \in DOMAIN profile.create : profile.create[i].do = "recordManaged"
        BY DEF Marking
      <3>5. i \in 1..(Len(profile.create) + 1 - 1)
        BY <3>3
      <3> QED
        BY <2>1, <3>2, <3>4, <3>5 DEF Past, Earlier, End, Handler
    <2>3. ~ failed => saved # None
      BY <2>1, <2>2 DEF CoreInv, ModelInv
    <2>4. ~ failed /\ cfg # Null => planMark = TRUE
      BY <2>1, <2>2 DEF MarkReturned
    <2> QED
      BY <2>1, <2>3, <2>4, SpecialValues DEF OwnedMarked, Rejected
  <1>2. CASE Updated
    <2>1. /\ op = "update" /\ mark' = planMark /\ st' = saved
          /\ owned' = (Managed /\ ~ failed /\ cfg # Null)
      BY <1>2 DEF Updated, Ended
    <2>2. saved # None
      BY <2>1 DEF CoreInv, ModelInv
    <2>3. ~ failed /\ cfg # Null => planMark = TRUE
      BY <2>1 DEF MarkReturned
    <2> QED
      BY <2>1, <2>2, <2>3 DEF OwnedMarked
  <1>3. CASE WasRead
    <2>1. op = "read" /\ (mark' <=> planMark /\ st' # None) /\ (owned' <=> owned /\ st' # None)
      BY <1>3 DEF WasRead, Ended
    <2>2. ~ failed
      BY <2>1 DEF HandlerInv
    <2>3. owned => planMark
      <3>1. mark \in BOOLEAN
        BY DEF CoreInv, Typed, FlagsTyped
      <3>2. owned => mark = TRUE /\ planMark = mark
        BY <2>1, <2>2, <3>1 DEF OwnedMarked, MarkReturned
      <3> QED
        BY <3>2
    <2>4. (st' = None => ~ owned') /\ (owned' => mark')
      BY <2>1, <2>3
    <2> QED
      BY <2>4 DEF OwnedMarked
  <1>4. CASE Imported
    BY <1>4 DEF Imported, object, history, OwnedMarked
  <1>5. CASE Deleted
    BY <1>5 DEF Deleted, OwnedMarked
  <1> QED
    BY <1>1, <1>2, <1>3, <1>4, <1>5 DEF Ends

(* The mark that Terraform owns the value follows the configuration        *)
(* through every handler.                                                  *)
LEMMA NextMark ==
  CoreInv /\ HandlerInv /\ HandlerInv' /\ MarkInv /\ [Next]_vars => MarkInv'
  <1> SUFFICES ASSUME CoreInv, HandlerInv, HandlerInv', MarkInv, [Next]_vars,
                      Marking(profile)', Managed'
               PROVE  OwnedMarked' /\ MarkReturned'
    BY DEF MarkInv
  <1>1. profile' = profile
    <2>1. CASE Ends
      BY <2>1 DEF Ends, Created, Updated, WasRead, Imported, Deleted, object
    <2> QED
      BY <2>1, AnyStep DEF Lingers, Starts, Within, Quits
  <1>2. Marking(profile) /\ Managed
    BY <1>1 DEF Marking, With, Managed, Has, kind
  <1>3. OwnedMarked /\ MarkReturned
    BY <1>2 DEF MarkInv
  <1>4. OwnedMarked'
    <2>1. CASE Ends
      BY <1>2, <1>3, <2>1, EndsMark
    <2>2. CASE ~ Ends
      <3>1. st' = st /\ mark' = mark /\ owned' = owned
        BY <2>2, AnyStep DEF Lingers, Starts, Within, Quits
      <3> QED
        BY <1>3, <3>1 DEF OwnedMarked
    <2> QED
      BY <2>1, <2>2
  <1>5. MarkReturned'
    <2>1. CASE Handling'
      BY <1>2, <1>3, <2>1, HandlingMark
    <2>2. CASE ~ Handling'
      BY <2>2 DEF Handling, MarkReturned
    <2> QED
      BY <2>1, <2>2
  <1> QED
    BY <1>4, <1>5

-----------------------------------------------------------------------------
(* What a handler is given: the server's default, and what the appliance   *)
(* held when it was called.                                                *)
GivenInv ==
  /\ base \in Bases
  /\ op \in {"create", "update"} /\ ~ failed =>
       before \in Holdable /\ (op = "update" /\ before = None => srv = None)

(* Every apply starts from something the appliance can hold.               *)
LEMMA NextGiven == CoreInv /\ GivenInv /\ [Next]_vars => GivenInv'
  <1> SUFFICES ASSUME CoreInv, GivenInv, [Next]_vars PROVE GivenInv'
    OBVIOUS
  <1>1. profile' = profile /\ base' = base
    <2>1. CASE Ends
      BY <2>1 DEF Ends, Created, Updated, WasRead, Imported, Deleted, object
    <2> QED
      BY <2>1, AnyStep DEF Lingers, Starts, Within, Quits
  <1>2. Bases' = Bases /\ Holdable' = Holdable
    BY <1>1, CatalogFixed DEF Bases, Holdable, kind
  <1>3. base' \in Bases'
    BY <1>1, <1>2 DEF GivenInv
  <1>4. ASSUME op' \in {"create", "update"}, ~ failed'
        PROVE  before' \in Holdable' /\ (op' = "update" /\ before' = None => srv' = None)
    <2>1. CASE Begins
      BY <1>2, <2>1, Types DEF Begins, Holdable
    <2>2. CASE Handling /\ Frame
      <3>1. before' = before /\ op' = op /\ before \in Holdable
            /\ (op = "update" /\ before = None => srv = None)
        BY <1>4, <2>2 DEF Frame, GivenInv, Handling
      <3>2. op = "update" /\ srv = None => srv' = None
        <4>1. CASE Pauses \/ Fetches \/ Takes \/ Saves \/ Passes \/ Forgets \/ Asks
          BY <4>1 DEF Pauses, Fetches, Takes, Saves, Passes, Forgets, Asks
        <4>2. CASE Doing # "nothing" /\ Calls
          BY <4>2, Permitted DEF Calls
        <4> QED
          BY <1>4, <2>2, <4>1, <4>2, HandlingStep DEF Handling, Advances, Begins
      <3> QED
        BY <1>2, <3>1, <3>2
    <2> QED
      BY <1>4, <2>1, <2>2, HandlingStep
         DEF Handling, Pauses, Advances, Calls, Fetches, Takes, Saves, Passes, Forgets, Asks
  <1> QED
    BY <1>3, <1>4 DEF GivenInv

-----------------------------------------------------------------------------
(* The inductive invariant.                                                *)
ValuesInv == HandlerInv /\ GivenInv /\ PlanInv /\ SendInv /\ MirrorInv /\ MarkInv

(* Nothing has been planned, sent or saved at first.                       *)
LEMMA InitValues == Init => ValuesInv
  <1> SUFFICES ASSUME Init PROVE ValuesInv
    OBVIOUS
  <1>1. op = "idle" /\ base \in Bases /\ st = None /\ owned = FALSE
    BY DEF Init
  <1>2. HandlerInv /\ GivenInv /\ PlanInv /\ SendInv
    BY <1>1 DEF HandlerInv, GivenInv, PlanInv, SendInv
  <1>3. CopyInv /\ KeepInv /\ SyncInv
    BY <1>1 DEF CopyInv, ReplyInv, ModelShows, SavedShows, Handling, KeepInv, SyncInv
  <1>4. OwnedMarked /\ MarkReturned
    BY <1>1 DEF OwnedMarked, MarkReturned
  <1> QED
    BY <1>2, <1>3, <1>4 DEF ValuesInv, MirrorInv, MarkInv

(* The steps keep what the handlers rely on.                               *)
LEMMA ValuesInductive == Spec => [](CoreInv /\ ValuesInv)
  <1>1. Init => CoreInv /\ ValuesInv
    BY InitCore, InitValues
  <1>2. (CoreInv /\ ValuesInv) /\ [Next]_vars => (CoreInv /\ ValuesInv)'
    <2> SUFFICES ASSUME CoreInv, ValuesInv, [Next]_vars PROVE (CoreInv /\ ValuesInv)'
      OBVIOUS
    <2>1. CoreInv'
      BY NextCore
    <2>2. HandlerInv' /\ GivenInv' /\ PlanInv' /\ SendInv'
      BY NextHandler, NextGiven, NextPlan, NextSend DEF ValuesInv
    <2>3. MirrorInv' /\ MarkInv'
      BY <2>1, <2>2, NextMirror, NextMark DEF ValuesInv
    <2> QED
      BY <2>1, <2>2, <2>3 DEF ValuesInv
  <1> QED
    BY <1>1, <1>2, PTL DEF Spec

-----------------------------------------------------------------------------
(* What an apply that reports success has made of the appliance.           *)

(* What a response shows is the setting, and another value than null where *)
(* every response is read by value.                                        *)
LEMMA ShowsSetting ==
  ASSUME NEW s \in Held \cup {Zero}, NEW v, Shows(v, s)
  PROVE  /\ Setting(v) = Setting(s) /\ v \notin {None, Unknown}
         /\ s # Null /\ ("nullIfZero" \in Viewed(profile) => s # Zero) => Canon(v) = s
         /\ Viewed(profile) = {"value"} => v # Null
  <1>1. Viewed(profile) \subseteq Showing
    BY DEF Viewed, ShowsOf
  <1>2. PICK t \in Viewed(profile) : Canon(v) \in View(t, s)
    BY DEF Shows
  <1>3. t \in Showing
    BY <1>1, <1>2
  <1> QED
    BY <1>2, <1>3, ViewSetting

(* The values that an apply works with.                                    *)
LEMMA Applied ==
  ASSUME CoreInv, ValuesInv, Succeeded
  PROVE  /\ op \in {"create", "update"} /\ op \in Handlers /\ ~ failed /\ Handling
         /\ pc = End /\ End = Len(Handler(op)) + 1 /\ End \in Nat
         /\ WellFormed(profile) /\ KindTyped(kind)
         /\ cfg \in Configs /\ cfg # None /\ cfg \in Settable /\ plan \in Plannable /\ plan # None
         /\ base \in Bases /\ base \in Held /\ before \in Holdable
         /\ op = "create" => st = None /\ others = "some"
         /\ op = "update" => st \in Settable /\ st # None
  <1>1. op \in {"create", "update"} /\ op \in Handlers /\ ~ failed /\ Handling /\ pc = End
    BY DEF Succeeded, Applying, Ended, Handlers, Handling
  <1>2. WellFormed(profile)
    BY Formed DEF CoreInv
  <1>3. End = Len(Handler(op)) + 1 /\ End \in Nat /\ KindTyped(kind)
    BY <1>1, <1>2 DEF End, WellFormed, Handler, kind
  <1>4. cfg \in Configs /\ cfg # None /\ cfg \in Settable
    BY <1>1, ValuesApart DEF CoreInv, CalledInv, Typed, ValuesTyped
  <1>5. plan \in Plannable /\ plan # None
    BY <1>1, ValuesApart DEF CoreInv, ModelInv, Modelling, Typed, ValuesTyped
  <1>6. base \in Bases /\ base \in Held /\ before \in Holdable
    BY <1>1 DEF ValuesInv, GivenInv, CoreInv, Typed, ValuesTyped
  <1>7. op = "create" => st = None /\ others = "some"
    BY <1>1 DEF CoreInv, CalledInv, ValuesInv, PlanInv
  <1>8. op = "update" => st \in Settable /\ st # None
    BY <1>1, ValuesApart DEF CoreInv, CalledInv, Typed, ValuesTyped
  <1> QED
    BY <1>1, <1>2, <1>3, <1>4, <1>5, <1>6, <1>7, <1>8

(* What a call sends is a value that the appliance can hold.               *)
LEMMA SendsTyped ==
  ASSUME CoreInv, ValuesInv, Succeeded, NEW i \in CallsOf(Handler(op))
  PROVE  /\ Handler(op)[i].do \in {"create", "update"} /\ Handler(op)[i].rule \in SentRules
         /\ op = "update" => Handler(op)[i].do = "update"
         /\ \A c \in Sends(Handler(op)[i]) : c = Omit \/ Canon(c) \in Holdable
  <1> DEFINE step == Handler(op)[i]
             v == IF kind.unseen THEN cfg ELSE plan
  <1>1. /\ op \in {"create", "update"} /\ op \in Handlers /\ WellFormed(profile)
        /\ cfg \in Settable /\ v \in Plannable
    BY Applied DEF Plannable
  <1>2. i \in DOMAIN Handler(op) /\ step.do \in {"create", "update"}
    BY DEF CallsOf
  <1>3. StepTyped(op, step) /\ (step.rule \in NullRules => step.rule \in profile.rules)
    BY <1>1, <1>2 DEF WellFormed, Handler
  <1>4. step.rule \in SentRules /\ (op = "update" => step.do # "create")
    BY <1>1, <1>2, <1>3 DEF StepTyped, Rules, Allowed, Reporting
  <1>5. step.rule \in NullRules => Null \in Held
    <2>1. NullRules \cap profile.rules # {} => Nullable
      BY DEF NullRules, Nullable
    <2> QED
      BY <1>3, <2>1 DEF Held
  <1>6. Sends(step) = Sent(step.rule, v, st, cfg)
    BY DEF Sends
  <1> HIDE DEF step, v
  <1>7. \A c \in Sends(step) : c = Omit \/ Canon(c) \in Held \cup {None, Zero}
    BY <1>1, <1>4, <1>5, <1>6, SentTyped
  <1> QED
    BY <1>2, <1>4, <1>7 DEF step, Holdable

(* A set of values in which the calls have left the appliance: the last    *)
(* one that does not spare the set hits it.                                *)
LEMMA Sending ==
  ASSUME CoreInv, ValuesInv, Succeeded, NEW S \in SUBSET Holdable, NEW G, NEW B,
         Since(Len(Handler(op)) + 1, G, B), G \subseteq From(S) \cup Hits(S), Spoils(S) \subseteq B
  PROVE  srv \in S
  <1>1. op \in {"create", "update"} /\ ~ failed /\ pc = Len(Handler(op)) + 1
    BY Applied
  <1>2. Since(pc, From(S) \cup Hits(S), Spoils(S))
    BY <1>1, SinceMore
  <1> QED
    BY <1>1, <1>2 DEF ValuesInv, SendInv

(* It was in the set, and every call spares it, or hits it.                *)
LEMMA Spares ==
  ASSUME CoreInv, ValuesInv, Succeeded, NEW S \in SUBSET Holdable, before \in S,
         \A i \in CallsOf(Handler(op)) :
           HitsBy(Handler(op)[i], S) \/ SparesBy(Handler(op)[i], S)
  PROVE  srv \in S
  <1>1. Spoils(S) = {} /\ From(S) = {0}
    BY DEF Spoils, From
  <1>2. Len(Handler(op)) + 1 \in Nat /\ Len(Handler(op)) \in Nat
    BY Applied DEF WellFormed, Handler
  <1>3. Since(Len(Handler(op)) + 1, {0}, {})
    BY <1>2 DEF Since
  <1> QED
    BY <1>1, <1>3, Sending

(* The last call by the rules of R hits it, and the updates by the rules   *)
(* of T spare it, or hit it.                                               *)
LEMMA Hit ==
  ASSUME CoreInv, ValuesInv, Succeeded, NEW S \in SUBSET Holdable, NEW R, NEW T,
         LastCall(Handler(op), R, T),
         \A i \in CallsOf(Handler(op)) : LET step == Handler(op)[i] IN
           /\ step.rule \in R => HitsBy(step, S)
           /\ step.do = "update" /\ step.rule \in T => HitsBy(step, S) \/ SparesBy(step, S)
  PROVE  srv \in S
  <1> DEFINE h == Handler(op)
             B == {i \in CallsOf(h) : h[i].rule \notin R /\ ~ (h[i].do = "update" /\ h[i].rule \in T)}
  <1>1. Since(Len(h) + 1, CallsBy(h, R), B)
    BY DEF LastCall
  <1>2. CallsBy(h, R) \subseteq From(S) \cup Hits(S)
    BY DEF CallsBy, Hits
  <1>3. Spoils(S) \subseteq B
    BY DEF Spoils
  <1> HIDE DEF B
  <1> QED
    BY <1>1, <1>2, <1>3, Sending

(* There is a call, and every one hits it.                                 *)
LEMMA AllHit ==
  ASSUME CoreInv, ValuesInv, Succeeded, NEW S \in SUBSET Holdable,
         NEW j \in CallsOf(Handler(op)), HitsBy(Handler(op)[j], S),
         \A i \in CallsOf(Handler(op)) :
           HitsBy(Handler(op)[i], S) \/ SparesBy(Handler(op)[i], S)
  PROVE  srv \in S
  <1>1. Spoils(S) = {} /\ j \in Hits(S)
    BY DEF Spoils, Hits
  <1>2. j \in 1..Len(Handler(op)) /\ Len(Handler(op)) \in Nat
    BY Applied, StepsNumbered DEF CallsOf
  <1>3. Since(Len(Handler(op)) + 1, Hits(S), {})
    BY <1>1, <1>2 DEF Since
  <1> QED
    BY <1>1, <1>3, Sending

(* What an Update of a mirrored attribute starts from: the state shows     *)
(* what the appliance has.                                                 *)
LEMMA InSync ==
  ASSUME CoreInv, ValuesInv, Succeeded, op = "update", Mirrored(profile), stale # "hidden"
  PROVE  /\ before \in Held \cup {Zero} /\ Setting(st) = Setting(before)
         /\ Viewed(profile) = {"value"} => st # Null
  <1>1. /\ ~ profile.hosted /\ ~ tainted /\ st # None /\ ~ failed /\ stale = "no" /\ pc = End
        /\ Handling /\ before \in Holdable
    BY Applied, Types DEF Mirrored, ValuesInv, PlanInv
  <1>2. CopyInv /\ SyncInv
    BY DEF ValuesInv, MirrorInv
  <1>3. before # None
    <2> SUFFICES ASSUME before = None PROVE FALSE
      OBVIOUS
    <2>1. srv = None /\ saved # None
      BY <1>1 DEF ValuesInv, GivenInv, CoreInv, ModelInv
    <2>2. Shows(saved, None)
      BY <1>1, <1>2, <2>1, EndSaved DEF CopyInv, SavedShows
    <2>3. PICK t \in Viewed(profile) : Canon(saved) \in View(t, None)
      BY <2>2 DEF Shows
    <2>4. t \in Showing
      BY <2>3 DEF Viewed, ShowsOf
    <2>5. Canon(saved) = None
      BY <2>3, <2>4, SpecialValues DEF Showing, View
    <2> QED
      BY <2>1, <2>5, CanonValues
  <1>4. before \in Held \cup {Zero} /\ Shows(st, before)
    BY <1>1, <1>2, <1>3 DEF SyncInv, Seen, Holdable
  <1> QED
    BY <1>4, ShowsSetting

-----------------------------------------------------------------------------
(* The configured value.                                                   *)

(* What the appliance may hold that is the setting w.                      *)
Like(w) == {s \in Holdable : Setting(s) = Setting(w)}

(* What is sent of a setting leaves the appliance at the setting.          *)
LEMMA LikeCanon ==
  ASSUME NEW c, NEW w, Canon(c) \in Holdable, Setting(c) = Setting(w)
  PROVE  Canon(c) \in Like(w)
  BY CanonSetting DEF Like

(* The calls carry what is configured.                                     *)
LEMMA CarriesConfigured ==
  ASSUME CoreInv, ValuesInv, Succeeded, cfg # Null
  PROVE  LET v == IF kind.unseen THEN cfg ELSE plan IN v \in Plannable /\ Canon(v) = Canon(cfg)
  <1>1. op \in {"create", "update"} /\ ~ failed /\ cfg \in Settable /\ plan \in Plannable
    BY Applied
  <1>2. ~ kind.unseen => Canon(plan) = Canon(cfg)
    BY <1>1 DEF ValuesInv, PlanInv
  <1> QED
    BY <1>1, <1>2 DEF Plannable

(* A rule that delivers sends what is configured; a rule that compares     *)
(* does, or the state has it.                                              *)
LEMMA DeliveringHits ==
  ASSUME CoreInv, ValuesInv, Succeeded, cfg # Null, NEW i \in CallsOf(Handler(op))
  PROVE  LET step == Handler(op)[i]
             v == IF kind.unseen THEN cfg ELSE plan IN
           /\ step.rule \in Delivering(kind) => HitsBy(step, Like(cfg))
           /\ step.rule \in Comparing(kind) =>
                /\ Canon(v) # Canon(st) => HitsBy(step, Like(cfg))
                /\ step.do = "update" /\ ~ Follows => SparesBy(step, Like(cfg))
  <1> DEFINE step == Handler(op)[i]
             v == IF kind.unseen THEN cfg ELSE plan
  <1>1. v \in Plannable /\ Canon(v) = Canon(cfg) /\ cfg \in Configs
    BY CarriesConfigured, Applied
  <1>2. /\ \A c \in Sends(step) : c = Omit \/ Canon(c) \in Holdable
        /\ Sends(step) = Sent(step.rule, v, st, cfg)
    BY SendsTyped DEF Sends
  <1> HIDE DEF step, v
  <1>3. ASSUME step.rule \in Delivering(kind) PROVE HitsBy(step, Like(cfg))
    <2>1. \A c \in Sends(step) : c # Omit /\ Setting(c) = Setting(cfg)
      BY <1>1, <1>2, <1>3, SentDelivers
    <2> QED
      BY <1>2, <2>1, LikeCanon DEF HitsBy
  <1>4. ASSUME step.rule \in Comparing(kind)
        PROVE  /\ Canon(v) # Canon(st) => HitsBy(step, Like(cfg))
               /\ step.do = "update" /\ ~ Follows => SparesBy(step, Like(cfg))
    <2>1. \A c \in Sends(step) :
            IF c = Omit THEN Canon(v) = Canon(st) ELSE Setting(c) = Setting(cfg)
      BY <1>1, <1>2, <1>4, SentCompares
    <2> QED
      BY <1>2, <2>1, LikeCanon DEF HitsBy, SparesBy, Moving
  <1> QED
    BY <1>3, <1>4 DEF step, v

(* A call that does not mention an attribute that follows no other, or not *)
(* now, spares every setting.                                              *)
LEMMA NoneSpares ==
  ASSUME NEW step, step.rule = "none", step.do = "update", ~ Moving,
         NEW S
  PROVE  SparesBy(step, S)
  BY DEF SparesBy, Sends, Sent

(* The class of the catalog's entry, and the schema's words.               *)
LEMMA WithHas ==
  /\ \A S : With(profile, S) <=> Has(S)
  /\ Following(profile) <=> Follows
  BY DEF With, Has, Following, Follows, kind

(* A Create delivers the configured value.                                 *)
LEMMA CreateDelivers ==
  ASSUME CoreInv, ValuesInv, Succeeded, op = "create", cfg # Null, DeliveredByCreate(profile)
  PROVE  srv \in Like(cfg)
  <1> DEFINE v == IF kind.unseen THEN cfg ELSE plan
             h == Handler(op)
  <1>1. /\ st = None /\ others = "some" /\ cfg \in Configs /\ v \in Plannable
        /\ Canon(v) = Canon(cfg) /\ h = profile.create /\ base \in Bases /\ base \in Held
    BY Applied, CarriesConfigured DEF Handler
  <1>2. Canon(v) # Canon(st)
    BY <1>1, ConfiguredValue, CanonValues, ValuesApart
  <1>3. Like(cfg) \in SUBSET Holdable
    BY DEF Like
  <1>4. CASE LastCall(profile.create, Delivering(kind) \cup Comparing(kind), {"none"})
    <2>1. ASSUME NEW i \in CallsOf(h)
          PROVE  /\ h[i].rule \in Delivering(kind) \cup Comparing(kind) => HitsBy(h[i], Like(cfg))
                 /\ h[i].do = "update" /\ h[i].rule \in {"none"} => SparesBy(h[i], Like(cfg))
      <3>1. h[i].rule \in Delivering(kind) \cup Comparing(kind) => HitsBy(h[i], Like(cfg))
        BY <1>2, DeliveringHits
      <3>2. h[i].do = "update" /\ h[i].rule = "none" => SparesBy(h[i], Like(cfg))
        BY <1>1, NoneSpares DEF Moving
      <3> QED
        BY <3>1, <3>2
    <2> HIDE DEF h
    <2>2. LastCall(Handler(op), Delivering(kind) \cup Comparing(kind), {"none"})
      BY <1>1, <1>4 DEF h
    <2>3. \A i \in CallsOf(Handler(op)) : LET step == Handler(op)[i] IN
            /\ step.rule \in Delivering(kind) \cup Comparing(kind) => HitsBy(step, Like(cfg))
            /\ step.do = "update" /\ step.rule \in {"none"}
                 => HitsBy(step, Like(cfg)) \/ SparesBy(step, Like(cfg))
      BY <2>1 DEF h
    <2> QED
      BY <1>3, <2>2, <2>3, Hit
  <1>5. CASE /\ kind.initial = "zero" /\ CallsOf(h) # {}
             /\ \A i \in CallsOf(h) : h[i].do = "create" /\ h[i].rule = "nonzero"
    <2>1. base = Zero
      BY <1>1, <1>5 DEF Bases
    <2>2. ASSUME NEW i \in CallsOf(h) PROVE HitsBy(h[i], Like(cfg))
      <3>1. v # Null /\ v # Unknown /\ v # Omit /\ Setting(v) = Setting(cfg)
        BY <1>1, ConfiguredValue
      <3>2. h[i].do = "create" /\ h[i].rule = "nonzero"
        BY <1>5
      <3>3. /\ \A c \in Sends(h[i]) : c = Omit \/ Canon(c) \in Holdable
            /\ Sends(h[i]) = Sent(h[i].rule, v, st, cfg)
        BY SendsTyped DEF Sends
      <3> HIDE DEF h, v
      <3>4. \A c \in Sends(h[i]) : c = v \/ (c = Omit /\ v = Zero)
        BY <3>1, <3>2, <3>3 DEF Sent, Unset
      <3>5. v = Zero => base \in Like(cfg)
        BY <1>1, <2>1, <3>1 DEF Like, Holdable
      <3> QED
        BY <3>1, <3>2, <3>3, <3>4, <3>5, LikeCanon DEF HitsBy
    <2>3. PICK j : j \in CallsOf(h)
      BY <1>5
    <2> QED
      BY <1>3, <2>2, <2>3, AllHit
  <1> QED
    BY <1>1, <1>4, <1>5 DEF DeliveredByCreate, kind

(* An Update delivers it, whatever the state holds.                        *)
LEMMA UpdateDelivers ==
  ASSUME CoreInv, ValuesInv, Succeeded, op = "update", cfg # Null, DeliveredByUpdate(profile)
  PROVE  srv \in Like(cfg)
  <1> DEFINE h == Handler(op)
             R == Delivering(kind)
             T == Passed(profile)
  <1>1. LastCall(Handler(op), R, T) /\ Like(cfg) \in SUBSET Holdable
    BY DEF DeliveredByUpdate, Handler, kind, Like
  <1>2. ASSUME NEW i \in CallsOf(Handler(op)) PROVE h[i].rule \in R => HitsBy(h[i], Like(cfg))
    BY <1>2, DeliveringHits
  <1>3. ASSUME NEW i \in CallsOf(Handler(op)), h[i].do = "update", h[i].rule \in T
        PROVE  SparesBy(h[i], Like(cfg))
    <2>1. h[i].rule = "none" /\ ~ Follows
      BY <1>3, WithHas DEF Passed
    <2> QED
      BY <1>3, <2>1, NoneSpares DEF Moving
  <1> HIDE DEF R, T
  <1> QED
    BY <1>1, <1>2, <1>3, Hit

(* An Update that sends what differs from the state delivers it, when the  *)
(* state shows the appliance.                                              *)
LEMMA ChangesDeliver ==
  ASSUME CoreInv, ValuesInv, Succeeded, op = "update", cfg # Null, DeliveredIfChanged(profile),
         stale # "hidden"
  PROVE  srv \in Like(cfg)
  <1> DEFINE h == Handler(op)
             R == Delivering(kind) \cup Comparing(kind)
  <1>1. /\ Mirrored(profile) /\ ~ Follows /\ ~ kind.unseen
        /\ \A i \in CallsOf(h) : h[i].rule \in R \cup {"none"}
        /\ Fixed(profile) \/ CallsBy(h, R) # {}
    BY WithHas DEF DeliveredIfChanged, Handler, kind
  <1>2. /\ before \in Held \cup {Zero} /\ Setting(st) = Setting(before)
        /\ Viewed(profile) = {"value"} => st # Null
    BY <1>1, InSync
  <1>3. Canon(plan) = Canon(cfg)
    BY <1>1, CarriesConfigured
  <1>4. Like(cfg) \in SUBSET Holdable
    BY DEF Like
  <1>5. ASSUME NEW i \in CallsOf(h)
        PROVE  /\ h[i].rule \in R =>
                    /\ HitsBy(h[i], Like(cfg)) \/ SparesBy(h[i], Like(cfg))
                    /\ Canon(plan) # Canon(st) => HitsBy(h[i], Like(cfg))
               /\ h[i].rule = "none" => SparesBy(h[i], Like(cfg))
    <2>1. h[i].do = "update"
      BY <1>5, SendsTyped
    <2>2. h[i].rule \in Delivering(kind) => HitsBy(h[i], Like(cfg))
      BY <1>5, DeliveringHits
    <2>3. h[i].rule \in Comparing(kind) =>
            /\ Canon(plan) # Canon(st) => HitsBy(h[i], Like(cfg))
            /\ SparesBy(h[i], Like(cfg))
      BY <1>1, <1>5, <2>1, DeliveringHits
    <2>4. h[i].rule = "none" => SparesBy(h[i], Like(cfg))
      BY <1>1, <2>1, NoneSpares DEF Moving
    <2> QED
      BY <2>2, <2>3, <2>4
  <1> HIDE DEF R
  <1>6. CASE before \in Like(cfg)
    BY <1>1, <1>4, <1>5, <1>6, Spares
  <1>7. CASE before \notin Like(cfg)
    <2>1. Setting(st) # Setting(cfg)
      BY <1>2, <1>7 DEF Like, Holdable
    <2>2. Canon(st) # Canon(cfg)
      BY <2>1, CanonSetting
    <2>3. ~ Fixed(profile)
      <3> SUFFICES ASSUME Fixed(profile) PROVE FALSE
        OBVIOUS
      <3>1. PICK m \in Range(kind.modifiers) : m = "replace" \/ (m \in FixesKnown /\ st # Null)
        BY <1>2 DEF Fixed, With, kind
      <3>2. Canon(st) = Canon(cfg)
        BY <1>1, <3>1, Applied DEF ValuesInv, PlanInv
      <3> QED
        BY <2>2, <3>2
    <2>4. PICK j \in CallsOf(h) : h[j].rule \in R
      BY <1>1, <2>3 DEF CallsBy
    <2>5. HitsBy(h[j], Like(cfg))
      BY <1>3, <1>5, <2>2, <2>4
    <2> QED
      BY <1>1, <1>4, <1>5, <2>4, <2>5, AllHit
  <1> QED
    BY <1>6, <1>7

(* An apply that reports success has delivered the configured value.       *)
LEMMA ApplyDelivers ==
  ASSUME CoreInv, ValuesInv, Succeeded, cfg # Null, Delivered(profile), stale # "hidden"
  PROVE  srv \in Like(cfg)
  <1>1. op \in {"create", "update"}
    BY Applied
  <1> QED
    BY <1>1, CreateDelivers, UpdateDelivers, ChangesDeliver DEF Delivered

(* An apply that reports success has brought the configured value to the   *)
(* appliance, for every attribute that the handlers deliver: the Create    *)
(* sends it, and the Update sends it, or sends what differs from a state   *)
(* that shows the appliance.                                               *)
THEOREM ConfigIsDelivered == Spec => [](Delivered(profile) => ConfigReachesServer)
  <1>1. CoreInv /\ ValuesInv => (Delivered(profile) => ConfigReachesServer)
    <2> SUFFICES ASSUME CoreInv, ValuesInv, Delivered(profile), Succeeded, cfg # Null,
                        stale # "hidden"
                 PROVE  Same(srv, cfg)
      BY DEF ConfigReachesServer, Satisfied
    <2>1. srv \in Like(cfg)
      BY ApplyDelivers
    <2> QED
      BY <2>1, SameSetting DEF Like
  <1> QED
    BY <1>1, ValuesInductive, PTL

-----------------------------------------------------------------------------
(* What the configuration leaves out.                                      *)

(* The server's default, or a value that the provider derives itself.      *)
DefaultOrImplied == {s \in Holdable : Setting(s) = Setting(base) \/ s \in Value}

(* A call that sends nothing of an unknown value, or what it implies, or   *)
(* zero where that is the default, leads nowhere else.                     *)
LEMMA LeavingOut ==
  ASSUME CoreInv, ValuesInv, Succeeded, op = "create", cfg = Null, plan = Unknown,
         LeftOut(profile), NEW i \in CallsOf(Handler(op))
  PROVE  LET step == Handler(op)[i] IN
           /\ step.do = "create" => HitsBy(step, DefaultOrImplied)
           /\ step.do = "update" => SparesBy(step, DefaultOrImplied)
  <1> DEFINE step == Handler(op)[i]
  <1>1. /\ others = "some" /\ base \in Bases /\ base \in Held /\ ~ kind.unseen
        /\ step.rule \in Silent \cup {"knownOrImplied"}
                           \cup (IF kind.initial = "zero" THEN Zeroing ELSE {})
    BY Applied DEF LeftOut, Handler, kind
  <1>2. \A c \in Sends(step) : c = Omit \/ Canon(c) \in Holdable
    BY SendsTyped
  <1>3. Sends(step) = Sent(step.rule, Unknown, st, cfg)
    BY <1>1 DEF Sends
  <1> HIDE DEF step
  <1>4. ASSUME NEW c \in Sends(step)
        PROVE  c = Omit \/ Canon(c) \in DefaultOrImplied
    <2>1. CASE step.rule \in Silent
      BY <1>3, <1>4, <2>1, SentSilent
    <2>2. CASE step.rule = "knownOrImplied"
      <3>1. c \in {Omit, Some}
        BY <1>3, <1>4, <2>2, SentImplies
      <3>2. Canon(Some) \in Value
        BY SomeIsValue DEF Canon
      <3> QED
        BY <1>2, <1>4, <3>1, <3>2 DEF DefaultOrImplied
    <2>3. CASE kind.initial = "zero" /\ step.rule \in Zeroing
      <3>1. base = Zero /\ Canon(Zero) = Zero /\ Zero # Null
        BY <1>1, <2>3, HeldCanon, SpecialValues DEF Bases
      <3>2. c = Omit \/ Setting(c) = Zero
        BY <1>3, <1>4, <2>3, SentZeroes
      <3>3. Setting(base) = Zero
        BY <3>1 DEF Setting
      <3> QED
        BY <1>2, <1>4, <3>2, <3>3, CanonSetting DEF DefaultOrImplied
    <2> QED
      BY <1>1, <2>1, <2>2, <2>3
  <1>5. base \in DefaultOrImplied
    BY <1>1 DEF DefaultOrImplied, Holdable
  <1>6. step.do = "create" => HitsBy(step, DefaultOrImplied)
    BY <1>4, <1>5 DEF HitsBy
  <1>7. step.do = "update" => SparesBy(step, DefaultOrImplied)
    BY <1>1, <1>4 DEF SparesBy, Moving
  <1> QED
    BY <1>6, <1>7 DEF step

(* An attribute that a new object's configuration leaves out gets the      *)
(* server's own default, not the zero value of a Go variable, where every  *)
(* payload of the Create tests for unknown, or zero is the default.        *)
THEOREM UnsetIsLeftOut == Spec => [](LeftOut(profile) => UnsetGetsServerDefault)
  <1>1. CoreInv /\ ValuesInv => (LeftOut(profile) => UnsetGetsServerDefault)
    <2> SUFFICES ASSUME CoreInv, ValuesInv, LeftOut(profile), Succeeded, op = "create", cfg = Null,
                        ~ Standing, plan = Unknown
                 PROVE  Same(srv, base) \/ srv \in Value
      BY DEF UnsetGetsServerDefault, DocumentedDefaultApplies
    <2>1. PICK j \in DOMAIN Handler("create") : Handler("create")[j].do = "create"
      BY DEF Standing, Does
    <2>2. j \in CallsOf(Handler(op)) /\ Handler(op)[j].do = "create"
      BY <2>1 DEF CallsOf
    <2>3. HitsBy(Handler(op)[j], DefaultOrImplied)
      BY <2>2, LeavingOut
    <2>4. \A i \in CallsOf(Handler(op)) :
            \/ HitsBy(Handler(op)[i], DefaultOrImplied)
            \/ SparesBy(Handler(op)[i], DefaultOrImplied)
      BY LeavingOut DEF CallsOf
    <2>5. DefaultOrImplied \in SUBSET Holdable
      BY DEF DefaultOrImplied
    <2>6. srv \in DefaultOrImplied
      BY <2>2, <2>3, <2>4, <2>5, AllHit
    <2> QED
      BY <2>6, SameSetting DEF DefaultOrImplied
  <1> QED
    BY <1>1, ValuesInductive, PTL

-----------------------------------------------------------------------------
(* What the configuration leaves to the appliance.                         *)

(* A call of an Update that plans what the state has, or an unknown that   *)
(* the modifiers allow, sends what the state has, or nothing.              *)
LEMMA SparingSpares ==
  ASSUME CoreInv, ValuesInv, Succeeded, op = "update", cfg = Null, plan \in {st, Unknown},
         ~ Moving, Spared(profile), stale # "hidden",
         NEW i \in CallsOf(Handler(op))
  PROVE  SparesBy(Handler(op)[i], Like(before))
  <1> DEFINE step == Handler(op)[i]
  <1>1. /\ Mirrored(profile) /\ ~ kind.unseen
        /\ step.rule \in Sparing \/ (step.rule = "changedOrFollowed" /\ Follows)
        /\ MayBeUnknown(kind, "update") => step.rule \in Silent
    BY WithHas DEF Spared, Handler, kind
  <1>2. /\ Setting(st) = Setting(before) /\ st \in Settable /\ st # Unknown
        /\ plan = Unknown => MayBeUnknown(kind, "update")
    <2>1. Setting(st) = Setting(before) /\ st \in Settable
      BY <1>1, InSync, Applied
    <2>2. plan = Unknown => MayBeUnknown(kind, "update")
      BY Applied DEF ValuesInv, PlanInv
    <2> QED
      BY <2>1, <2>2, ValuesApart
  <1>3. step.do = "update" /\ \A c \in Sends(step) : c = Omit \/ Canon(c) \in Holdable
    BY SendsTyped
  <1>4. Sends(step) = Sent(step.rule, plan, st, cfg)
    BY <1>1 DEF Sends
  <1> HIDE DEF step
  <1>5. ASSUME NEW c \in Sends(step) PROVE c = Omit \/ Setting(c) = Setting(st)
    <2>1. CASE plan = Unknown
      BY <1>1, <1>2, <1>4, <1>5, <2>1, SentSilent
    <2>2. CASE plan = st /\ step.rule \in Sparing
      BY <1>2, <1>4, <1>5, <2>2, SentSpares
    <2>3. CASE plan = st /\ step.rule = "changedOrFollowed" /\ Follows
      BY <1>4, <1>5, <2>3 DEF Sent, Moving
    <2> QED
      BY <1>1, <2>1, <2>2, <2>3
  <1>6. \A c \in Sends(step) : c = Omit \/ Canon(c) \in Like(before)
    BY <1>2, <1>3, <1>5, LikeCanon
  <1>7. SparesBy(step, Like(before))
    BY <1>3, <1>6 DEF SparesBy
  <1> QED
    BY <1>7 DEF step

(* An attribute that the configuration leaves to the appliance, and whose  *)
(* change the plan does not announce, is not touched by an update made for *)
(* other attributes, where the Update sends what a state that shows the    *)
(* appliance has, or does not mention it.                                  *)
THEOREM UnmanagedIsSpared ==
  Spec => [](Spared(profile) \/ Untouched(profile) => UnmanagedLeftAlone)
  <1>1. CoreInv /\ ValuesInv => (Spared(profile) \/ Untouched(profile) => UnmanagedLeftAlone)
    <2> SUFFICES ASSUME CoreInv, ValuesInv, Spared(profile) \/ Untouched(profile), Succeeded,
                        op = "update", cfg = Null, stale # "hidden",
                        ~ Moving, plan \in {st, Unknown}
                 PROVE  Same(srv, before)
      BY DEF UnmanagedLeftAlone
    <2>1. ASSUME NEW i \in CallsOf(Handler(op)) PROVE SparesBy(Handler(op)[i], Like(before))
      <3>1. Untouched(profile) => Handler(op)[i].rule = "none" /\ Handler(op)[i].do = "update"
        BY SendsTyped DEF Untouched, Handler
      <3> QED
        BY <3>1, SparingSpares, NoneSpares
    <2>2. before \in Like(before) /\ Like(before) \in SUBSET Holdable
      BY Applied DEF Like
    <2>3. srv \in Like(before)
      BY <2>1, <2>2, Spares
    <2> QED
      BY <2>3, SameSetting DEF Like
  <1> QED
    BY <1>1, ValuesInductive, PTL

-----------------------------------------------------------------------------
(* Planning from a state that shows the appliance.                         *)

(* What Terraform plans from while nothing runs.                           *)
LEMMA AtRest ==
  ASSUME CoreInv, ValuesInv, Idle, Mirrored(profile), cfg \notin {None, Null}, st # None,
         ~ tainted, stale = "no", srv # None
  PROVE  /\ KindTyped(kind) /\ st \in Settable /\ cfg \in Configs /\ base \in Held
         /\ mark \in BOOLEAN /\ srv \in Held \cup {Zero} /\ Shows(st, srv)
  <1>1. /\ st \in Settable /\ cfg \in Configs /\ base \in Held /\ mark \in BOOLEAN
        /\ srv \in Held \cup {Zero}
    BY DEF CoreInv, Typed, ValuesTyped, FlagsTyped
  <1>2. KindTyped(kind)
    BY Formed DEF CoreInv, WellFormed, kind
  <1>3. Shows(st, srv)
    BY DEF ValuesInv, MirrorInv, SyncInv, Seen, Idle
  <1> QED
    BY <1>1, <1>2, <1>3

(* When the plan is empty the appliance holds what is configured, whatever *)
(* failed on the way, for every attribute whose state is always read off   *)
(* the appliance; unless the appliance changed and the state could not be  *)
(* refreshed since.                                                        *)
THEOREM QuietIsInSync == Spec => [](Mirrored(profile) => QuietMeansInSync)
  <1>1. CoreInv /\ ValuesInv => (Mirrored(profile) => QuietMeansInSync)
    <2> SUFFICES ASSUME CoreInv, ValuesInv, Mirrored(profile), Idle, cfg \notin {None, Null},
                        st # None, ~ tainted, stale = "no", ~ kind.unseen, srv # None,
                        Planned(st, mark, "none").val = st
                 PROVE  Same(srv, cfg)
      BY DEF QuietMeansInSync, Satisfied
    <2>1. /\ KindTyped(kind) /\ st \in Settable /\ cfg \in Configs /\ base \in Held
          /\ mark \in BOOLEAN /\ srv \in Held \cup {Zero} /\ Shows(st, srv)
      BY AtRest
    <2>2. Setting(st) = Setting(srv)
      BY <2>1, ShowsSetting
    <2>3. Canon(st) = Canon(cfg)
      BY <2>1, PlannedConfigured
    <2>4. Setting(st) = Setting(cfg)
      BY <2>3, CanonSetting
    <2> QED
      BY <2>2, <2>4, SameSetting
  <1> QED
    BY <1>1, ValuesInductive, PTL

(* An object that is as configured, made or imported, is not planned for   *)
(* replacement because of how its attributes are spelt or read: where the  *)
(* responses keep null and zero apart for RequiresReplace, and a modifier  *)
(* keeps an equivalent spelling for one that compares spellings.           *)
THEOREM SpellingReplacesNothing ==
  Spec => [](Mirrored(profile) /\ Respellable(profile) => NoNeedlessReplace)
  <1>1. CoreInv /\ ValuesInv => (Mirrored(profile) /\ Respellable(profile) => NoNeedlessReplace)
    <2> SUFFICES ASSUME CoreInv, ValuesInv, Mirrored(profile), Respellable(profile), Idle,
                        cfg \notin {None, Null}, st # None, ~ tainted, stale = "no",
                        ~ kind.unseen, Canon(cfg) = srv
                 PROVE  ~ Planned(st, mark, "none").replace
      BY DEF NoNeedlessReplace
    <2>1. cfg \in Settable /\ cfg \in Configs /\ srv \notin {None, Null}
      <3>1. cfg \in Settable /\ cfg \in Configs
        BY ValuesApart DEF CoreInv, Typed, ValuesTyped
      <3> QED
        BY <3>1, CanonValues
    <2>2. /\ KindTyped(kind) /\ st \in Settable /\ base \in Held
          /\ mark \in BOOLEAN /\ srv \in Held \cup {Zero} /\ Shows(st, srv)
      BY <2>1, AtRest
    <2>3. /\ Setting(st) = Setting(srv)
          /\ ("nullIfZero" \in Viewed(profile) => srv # Zero) => Canon(st) = Canon(cfg)
      BY <2>1, <2>2, ShowsSetting
    <2>4. Setting(srv) = srv /\ Canon(srv) = srv
      BY <2>1, <2>2, HeldCanon DEF Setting
    <2>5. st # Null => Canon(st) = Canon(cfg)
      BY <2>3, <2>4 DEF Setting
    <2>6. "replace" \in Range(kind.modifiers) => Canon(st) = Canon(cfg) /\ st # Null
      <3> SUFFICES ASSUME "replace" \in Range(kind.modifiers) PROVE Canon(st) = Canon(cfg)
        BY <2>1, CanonValues
      <3>1. kind.zero => "nullIfZero" \notin Viewed(profile)
        BY DEF Respellable, With, kind
      <3>2. ~ kind.zero => srv # Zero
        BY <2>1, ConfiguredValue, ValuesApart, CanonValues DEF Plannable
      <3> QED
        BY <2>3, <3>1, <3>2
    <2>7. CASE kind.spelt /\ Has({"replace", "replaceFromKnown"}) /\ st # Null
      <3>1. "keepEquivalent" \in Range(kind.modifiers)
        BY <2>7, WithHas DEF Respellable, Has, kind
      <3> QED
        BY <2>1, <2>2, <2>5, <2>7, <3>1, PlannedEquivalent
    <2>8. CASE ~ kind.spelt \/ ~ Has({"replace", "replaceFromKnown"}) \/ st = Null
      <3>1. ~ kind.spelt /\ Canon(st) = Canon(cfg) => st = cfg
        BY <2>1, <2>2, HeldCanon DEF Plannable
      <3>2. "replace" \in Range(kind.modifiers) => st = cfg
        BY <2>6, <2>8, <3>1 DEF Has
      <3>3. "replaceFromKnown" \in Range(kind.modifiers) /\ st # Null => st = cfg
        BY <2>5, <2>8, <3>1 DEF Has
      <3> QED
        BY <2>1, <2>2, <2>5, <3>2, <3>3, PlannedInPlace
    <2> QED
      BY <2>7, <2>8
  <1> QED
    BY <1>1, ValuesInductive, PTL

-----------------------------------------------------------------------------
(* Values that Terraform has owned.                                        *)

(* A rule that forwards sends a planned value, so that an apply whose last *)
(* call that mentions the attribute does leaves the appliance at it.       *)
LEMMA PlanForwarded ==
  ASSUME CoreInv, ValuesInv, Succeeded, plan \in Settable, plan # Null, ~ kind.unseen,
         NEW T, T \subseteq {"none"}, Follows => T = {}, LastCall(Handler(op), Forwarding, T)
  PROVE  srv \in Like(plan)
  <1>1. ASSUME NEW i \in CallsOf(Handler(op)), Handler(op)[i].rule \in Forwarding
        PROVE  HitsBy(Handler(op)[i], Like(plan))
    <2>1. \A c \in Sends(Handler(op)[i]) : c = Omit \/ Canon(c) \in Holdable
      BY SendsTyped
    <2>2. Sends(Handler(op)[i]) = Sent(Handler(op)[i].rule, plan, st, cfg)
      BY DEF Sends
    <2>3. \A c \in Sends(Handler(op)[i]) : c # Omit /\ Setting(c) = Setting(plan)
      BY <1>1, <2>2, SentForwards
    <2> QED
      BY <2>1, <2>3, LikeCanon DEF HitsBy
  <1>2. ASSUME NEW i \in CallsOf(Handler(op)), Handler(op)[i].do = "update",
               Handler(op)[i].rule \in T
        PROVE  SparesBy(Handler(op)[i], Like(plan))
    <2>1. Handler(op)[i].rule = "none" /\ ~ Follows
      BY <1>2
    <2> QED
      BY <1>2, <2>1, NoneSpares DEF Moving
  <1>3. Like(plan) \in SUBSET Holdable
    BY DEF Like
  <1> QED
    BY <1>1, <1>2, <1>3, Hit

(* A value that was configured, applied, and then removed from the         *)
(* configuration is back at the server's default after the next apply,     *)
(* where the Create marks it as owned, the Reads keep the mark, and the    *)
(* Update sends what is planned.                                           *)
THEOREM RemovedIsPutBack == Spec => [](Reset(profile) => RemovedIsReset)
  <1>1. CoreInv /\ ValuesInv => (Reset(profile) => RemovedIsReset)
    <2> SUFFICES ASSUME CoreInv, ValuesInv, Reset(profile), Succeeded, op = "update", cfg = Null,
                        owned, Managed
                 PROVE  Same(srv, base)
      BY DEF RemovedIsReset
    <2>1. Marking(profile) /\ ~ Has(Followers) /\ ~ kind.unseen
          /\ LastCall(Handler(op), Forwarding, Passed(profile))
      BY WithHas DEF Reset, Handler, kind
    <2>2. mark
      BY <2>1 DEF ValuesInv, MarkInv, OwnedMarked
    <2>3. plan = ServerDefault
      BY <2>1, <2>2, Applied DEF ValuesInv, PlanInv, Has
    <2>4. /\ base \in Held /\ ServerDefault \in Settable /\ ServerDefault # Null
          /\ Setting(ServerDefault) = Setting(base)
      <3>1. base \in Held /\ ServerDefault \in Settable /\ Zero # Null
        BY Applied, ServerDefaultIsSettable, SpecialValues
      <3> QED
        BY <3>1, HeldCanon DEF ServerDefault, Setting
    <2>5. Passed(profile) \subseteq {"none"} /\ (Follows => Passed(profile) = {})
      BY WithHas DEF Passed
    <2>6. srv \in Like(plan)
      BY <2>1, <2>3, <2>4, <2>5, PlanForwarded
    <2> QED
      BY <2>3, <2>4, <2>6, SameSetting DEF Like
  <1> QED
    BY <1>1, ValuesInductive, PTL

-----------------------------------------------------------------------------
(* What an apply is to bring about, and what stays when it has.            *)

(* What may be planned of an attribute that is not configured.             *)
UnsetInv ==
  op \in {"create", "update"} /\ ~ failed /\ cfg = Null /\ ~ kind.unseen
    => plan \in Unconfigured(st)

(* The framework keeps the planned spelling of what a handler saves.       *)
SpeltInv ==
  op \in {"create", "update"} /\ ~ failed /\ kind.custom /\ Past({"save"})
    /\ Canon(saved) = Canon(plan) => saved = plan

(* A Read of a mirrored attribute that keeps a state has got a response,   *)
(* so that no refresh leaves a change of the appliance unseen.             *)
AnsweredInv ==
  Mirrored(profile) =>
    /\ stale # "hidden"
    /\ op = "read" /\ Past(Answering) /\ saved # None => reply # None

(* Since an apply, and as long as nothing has changed or failed, the       *)
(* appliance has what is configured, and Terraform owns only that.         *)
SettledInv ==
  Steady(profile) /\ settled =>
    /\ st # None /\ ~ tainted /\ stale = "no" /\ cfg # None
    /\ cfg # Null => Seen # None /\ Setting(Seen) = Setting(cfg)
    /\ cfg = Null /\ Managed => ~ mark

OutcomeInv == UnsetInv /\ SpeltInv /\ AnsweredInv /\ SettledInv

(* What Terraform core hands to a Create or an Update.                     *)
LEMMA NextUnset == CoreInv /\ UnsetInv /\ [Next]_vars => UnsetInv'
  <1> SUFFICES ASSUME CoreInv, UnsetInv, [Next]_vars, op' \in {"create", "update"}, ~ failed',
                      cfg' = Null, ~ kind.unseen'
               PROVE  (plan \in Unconfigured(st))'
    BY DEF UnsetInv
  <1>1. ASSUME profile' = profile, plan' \in Unconfigured(st')
        PROVE  (plan \in Unconfigured(st))'
    <2>1. Settable' = Settable /\ kind' = kind
      BY <1>1 DEF Settable, Written, Plain, kind
    <2>2. Unconfigured(st)' = Unconfigured(st')
      BY <2>1 DEF Unconfigured, Implied, Has
    <2> QED
      BY <1>1, <2>2
  <1>2. CASE Begins
    <2>1. /\ KindTyped(kind) /\ base \in Held /\ mark \in BOOLEAN
          /\ cfg \in Configs \cup {None} /\ st \in Settable \cup {None}
      <3>1. WellFormed(profile)
        BY Formed DEF CoreInv
      <3> QED
        BY <3>1, Types DEF WellFormed, kind, Typed, ValuesTyped, FlagsTyped
    <2>2. profile' = profile /\ cfg = Null /\ ~ kind.unseen /\ cfg \in Configs
      BY <1>2, <2>1, SpecialValues DEF Begins, kind
    <2>3. CASE BeginsCreate
      <3>1. plan' = Planned(None, FALSE, "some").val /\ st' = None
        BY <2>3 DEF BeginsCreate
      <3> QED
        BY <1>1, <2>1, <2>2, <3>1, PlannedUnset
    <2>4. CASE BeginsUpdate
      <3>1. PICK moved \in Moves : plan' = Planned(st, mark, moved).val
        BY <2>4 DEF BeginsUpdate
      <3>2. st' = st /\ st # None
        BY <2>4 DEF BeginsUpdate
      <3> QED
        BY <1>1, <2>1, <2>2, <3>1, <3>2, PlannedUnset
    <2> QED
      BY <1>2, <2>3, <2>4 DEF Begins, BeginsRead
  <1>3. CASE Handling /\ Frame
    <2>1. /\ profile' = profile /\ st' = st /\ plan' = plan /\ op' = op /\ cfg' = cfg /\ kind' = kind
      BY <1>3 DEF Frame, kind
    <2> QED
      BY <1>1, <1>3, <2>1 DEF UnsetInv, Handling
  <1> QED
    BY <1>2, <1>3, HandlingStep
       DEF Handling, Pauses, Advances, Calls, Fetches, Takes, Saves, Passes, Forgets, Asks

(* What is saved under a framework type has the planned spelling.          *)
LEMMA NextSpelt == CoreInv /\ SpeltInv /\ [Next]_vars => SpeltInv'
  <1> SUFFICES ASSUME CoreInv, SpeltInv, [Next]_vars, op' \in {"create", "update"}, ~ failed',
                      kind.custom', (Past({"save"}))', Canon(saved') = Canon(plan')
               PROVE  saved' = plan'
    BY DEF SpeltInv, Canon
  <1>1. CASE Begins
    <2>1. ~ (Past({"save"}))'
      BY <1>1, EarlierFirst DEF Begins, Past
    <2> QED
      BY <2>1
  <1>2. ASSUME Handling, Frame
        PROVE  /\ op \in {"create", "update"} /\ ~ failed /\ kind.custom /\ plan' = plan
               /\ Earlier(Handler(op), pc', {"save"})
               /\ Past({"save"}) /\ saved' = saved => saved' = plan'
    <2>1. profile' = profile /\ op' = op /\ plan' = plan /\ Handler(op)' = Handler(op) /\ kind' = kind
      BY <1>2 DEF Frame, Handler, kind
    <2>2. op \in {"create", "update"} /\ ~ failed /\ kind.custom
      BY <1>2, <2>1 DEF Handling
    <2>3. Earlier(Handler(op), pc', {"save"})
      BY <2>1 DEF Past, Earlier
    <2>4. Past({"save"}) /\ saved' = saved => saved' = plan'
      BY <2>1, <2>2 DEF SpeltInv
    <2> QED
      BY <2>1, <2>2, <2>3, <2>4
  <1>3. CASE Handling /\ Pauses
    BY <1>2, <1>3 DEF Pauses, Past
  <1>4. CASE Handling /\ Doing # "nothing" /\ Advances
    <2>1. Earlier(Handler(op), pc + 1, {"save"}) => Past({"save"}) \/ Doing = "save"
      <3>1. pc \in Nat /\ pc >= 1 /\ pc \in DOMAIN Handler(op) /\ Doing = Handler(op)[pc].do
        BY <1>4, Positions
      <3> QED
        BY <3>1, EarlierNext DEF Past
    <2>2. CASE Calls \/ Fetches \/ Passes
      BY <1>2, <1>4, <2>1, <2>2 DEF Calls, Fetches, Passes, Reporting
    <2>3. CASE Takes
      <3>1. /\ Frame /\ Doing = "take"
            /\ \/ pc' = pc + 1 /\ saved' = saved
               \/ saved' = AsSaved(model')
        BY <2>3 DEF Takes
      <3> QED
        BY <1>2, <1>4, <2>1, <3>1 DEF AsSaved
    <2>4. CASE Saves
      BY <1>2, <1>4, <2>4 DEF Saves, AsSaved
    <2>5. CASE Forgets \/ Asks
      BY <1>2, <1>4, <2>5 DEF Forgets, Asks
    <2> QED
      BY <1>4, <2>2, <2>3, <2>4, <2>5 DEF Advances
  <1> QED
    BY <1>1, <1>3, <1>4, HandlingStep DEF Handling

(* Only the end of a handler settles, or hides, anything.                  *)
LEMMA SettledStep ==
  ASSUME CoreInv, [Next]_vars, ~ Ends
  PROVE  /\ stale' = "hidden" => stale = "hidden"
         /\ settled' => /\ settled /\ cfg' = cfg
                        /\ op = "create" \/ profile.hosted \/ stale' = stale
                        /\ Idle => srv' = srv
  <1>1. CASE Edit \/ Drift \/ Vanish
    BY <1>1 DEF Edit, Drift, Vanish, Unread
  <1>2. CASE Restart
    BY <1>2 DEF Restart
  <1>3. CASE \/ Refresh \/ Import \/ Destroy \/ ApplyCreate \/ ApplyReplace
             \/ \E moved \in Moves : ApplyUpdate(moved)
    <2>1. UNCHANGED <<object, history>>
      BY <1>3 DEF Refresh, Import, Destroy, ApplyCreate, ApplyReplace, ApplyUpdate
    <2> QED
      BY <2>1 DEF object, history
  <1>4. CASE \E fails \in BOOLEAN : CreateCall(fails)
    <2>1. Doing = "create" /\ Doing # "nothing"
      BY <1>4 DEF CreateCall, At
    <2>2. op = "create" /\ op # "idle"
      BY <2>1, Permitted
    <2> QED
      BY <1>4, <2>2 DEF CreateCall, Idle
  <1>5. CASE \E fails \in BOOLEAN : UpdateCall(fails) \/ DeleteCall(fails)
    <2>1. Doing # "nothing"
      BY <1>5 DEF UpdateCall, DeleteCall, At
    <2> QED
      BY <1>5, <2>1 DEF UpdateCall, DeleteCall, Doing, history
  <1>6. CASE UndoCall \/ Fails
    <2>1. Doing # "nothing"
      BY <1>6 DEF UndoCall, Fails, At
    <2> QED
      BY <1>6, <2>1 DEF UndoCall, Fails, Doing, history
  <1>7. CASE \/ FetchStep \/ Forget \/ NotFound \/ Asked \/ Record \/ TakeStep \/ SaveStep
             \/ RecordManagedStep \/ ImportFlagStep \/ PassStep
    BY <1>7 DEF FetchStep, Forget, NotFound, Asked, Record, TakeStep, SaveStep, RecordManagedStep,
                ImportFlagStep, PassStep, object, history
  <1>8. CASE UNCHANGED vars
    BY <1>8 DEF vars, history
  <1> QED
    BY <1>1, <1>2, <1>3, <1>4, <1>5, <1>6, <1>7, <1>8 DEF Next, Ends

(* Nothing is shown of an object that does not exist.                      *)
LEMMA ShowsSomething ==
  ASSUME NEW v, Shows(v, None)
  PROVE  v = None
  <1>1. PICK t \in Viewed(profile) : Canon(v) \in View(t, None)
    BY DEF Shows
  <1>2. t \in Showing
    BY DEF Viewed, ShowsOf
  <1>3. Canon(v) = None
    BY <1>1, <1>2, SpecialValues DEF Showing, View
  <1> QED
    BY <1>3, CanonValues

(* What a handler of a mirrored attribute that ends has saved.             *)
LEMMA EndShows ==
  ASSUME CoreInv, ValuesInv, Mirrored(profile), op \in {"create", "read", "update"}, pc = End,
         ~ failed, saved # None
  PROVE  srv # None /\ srv \in Held \cup {Zero} /\ Shows(saved, srv) /\ Setting(saved) = Setting(srv)
  <1>1. Shows(saved, srv)
    BY EndSaved DEF ValuesInv, MirrorInv, CopyInv, SavedShows, Handling
  <1>2. srv # None
    BY <1>1, ShowsSomething
  <1>3. srv \in Held \cup {Zero}
    BY <1>2, Types
  <1> QED
    BY <1>1, <1>2, <1>3, ShowsSetting

(* A Read of a mirrored attribute that ends has got a response.            *)
LEMMA EndAnswered ==
  ASSUME CoreInv, Mirrored(profile), op = "read", pc = End
  PROVE  Past(Answering)
  <1> DEFINE h == Handler(op)
  <1>1. Reflects(h) /\ Answered(h) /\ DOMAIN h = 1..Len(h) /\ Len(h) \in Nat /\ pc = Len(h) + 1
    BY Formed DEF CoreInv, Mirrored, WellFormed, Handler, Handlers, End
  <1> HIDE DEF h
  <1>2. PICK i \in SavesOf(h) : i < Len(h) + 1
    BY <1>1 DEF Reflects, Since
  <1>3. PICK j \in ShowsOf(h) : j < i
    BY <1>1 DEF Reflects, Since
  <1>4. i \in 1..Len(h) /\ j \in 1..Len(h) /\ h[j].do = "take"
    BY <1>1 DEF SavesOf, ShowsOf
  <1>5. Earlier(h, j, Answering)
    BY <1>1, <1>4 DEF Answered
  <1> QED
    BY <1>1, <1>2, <1>3, <1>4, <1>5 DEF Earlier, Past, h

(* The end of a handler does not hide a change, and the end of a Read      *)
(* leaves a state that is not stale.                                       *)
LEMMA EndsStale ==
  ASSUME CoreInv, ValuesInv, AnsweredInv, Mirrored(profile), Ends
  PROVE  stale' # "hidden" /\ (WasRead => stale' = "no")
  <1>1. stale # "hidden"
    BY DEF AnsweredInv
  <1>2. CASE WasRead
    <2>1. op = "read" /\ pc = End /\ st' = saved
      BY <1>2 DEF WasRead, Ended
    <2>2. saved # None => Setting(saved) = Setting(srv)
      BY <2>1, EndShows DEF ValuesInv, HandlerInv
    <2>3. saved # None => reply # None
      BY <2>1, EndAnswered DEF AnsweredInv
    <2>4. saved # None => Same(saved, srv)
      BY <2>2, SameSetting
    <2> QED
      BY <1>2, <2>1, <2>3, <2>4 DEF WasRead
  <1>3. CASE ~ WasRead
    <2>1. CASE Created
      BY <1>1, <1>3, <2>1 DEF Created, Trust
    <2>2. CASE Updated
      BY <1>1, <1>3, <2>2 DEF Updated, Trust
    <2>3. CASE Imported
      BY <1>1, <1>3, <2>3 DEF Imported, history
    <2>4. CASE Deleted
      BY <1>1, <1>3, <2>4 DEF Deleted, Trust
    <2> QED
      BY <1>3, <2>1, <2>2, <2>3, <2>4 DEF Ends
  <1> QED
    BY <1>2, <1>3

(* A refresh hides nothing of a mirrored attribute.                        *)
LEMMA NextAnswered ==
  CoreInv /\ ValuesInv /\ HandlerInv' /\ AnsweredInv /\ [Next]_vars => AnsweredInv'
  <1> SUFFICES ASSUME CoreInv, ValuesInv, HandlerInv', AnsweredInv, [Next]_vars,
                      Mirrored(profile)'
               PROVE  /\ stale' # "hidden"
                      /\ op' = "read" /\ (Past(Answering))' /\ saved' # None => reply' # None
    BY DEF AnsweredInv
  <1>1. profile' = profile
    <2>1. CASE Ends
      BY <2>1 DEF Ends, Created, Updated, WasRead, Imported, Deleted, object
    <2> QED
      BY <2>1, AnyStep DEF Lingers, Starts, Within, Quits
  <1>2. Mirrored(profile) /\ stale # "hidden"
    BY <1>1 DEF Mirrored, Reflects, SavesOf, ShowsOf, HidesOf, CallsOf, Since, AnsweredInv
  <1>3. stale' # "hidden"
    BY <1>2, EndsStale, SettledStep
  <1>4. ASSUME op' = "read", (Past(Answering))', saved' # None PROVE reply' # None
    <2>0. Handling'
      BY <1>4 DEF Handling, HandlerInv
    <2>1. CASE Begins
      <3>1. ~ (Past(Answering))'
        BY <2>1, EarlierFirst DEF Begins, Past
      <3> QED
        BY <1>4, <3>1
    <2>2. ASSUME Handling, Frame PROVE op = "read" /\ Earlier(Handler(op), pc', Answering)
      BY <1>4, <2>2 DEF Frame, Handler, Past, Earlier
    <2>3. CASE Handling /\ Pauses
      BY <1>2, <1>4, <2>2, <2>3 DEF Pauses, Past, AnsweredInv
    <2>4. CASE Handling /\ Doing # "nothing" /\ Advances
      <3>1. /\ Earlier(Handler(op), pc + 1, Answering) <=> Past(Answering) \/ Doing \in Answering
            /\ Handler(op)[pc + 1].do = "save" =>
                 (Earlier(Handler(op), pc + 1 + 1, Answering)
                    <=> Earlier(Handler(op), pc + 1, Answering))
        <4>1. /\ pc \in Nat /\ pc >= 1 /\ pc + 1 \in Nat /\ pc + 1 >= 1
              /\ pc \in DOMAIN Handler(op) /\ Doing = Handler(op)[pc].do /\ "save" \notin Answering
          BY <2>4, Positions DEF Answering
        <4> QED
          BY <4>1, EarlierNext DEF Past
      <3>2. Past(Answering) => reply # None
        BY <1>2, <2>4, Positions DEF ValuesInv, MirrorInv, CopyInv, ReplyInv
      <3>3. CASE Calls \/ Fetches
        BY <3>3 DEF Calls, Fetches
      <3>4. CASE Takes \/ Saves \/ Passes
        <4>1. /\ Frame /\ reply' = reply /\ Doing \notin Answering
              /\ \/ pc' = pc + 1
                 \/ Handler(op)[pc + 1].do = "save" /\ pc' = pc + 1 + 1
          BY <3>4 DEF Takes, Saves, Passes, Reporting, Answering
        <4> QED
          BY <2>2, <2>4, <3>1, <3>2, <4>1
      <3>5. CASE Forgets
        BY <1>4, <3>5 DEF Forgets
      <3>6. CASE Asks
        BY <1>2, <2>4, <3>6, NeverAsks
      <3> QED
        BY <2>4, <3>3, <3>4, <3>5, <3>6 DEF Advances
    <2> QED
      BY <2>0, <2>1, <2>3, <2>4, HandlingStep
  <1> QED
    BY <1>3, <1>4

(* A handler of a mirrored attribute that ends has saved.                  *)
LEMMA EndPast ==
  ASSUME CoreInv, Mirrored(profile), op \in {"create", "read", "update"}, pc = End
  PROVE  Past({"save"})
  <1>1. Reflects(Handler(op)) /\ End = Len(Handler(op)) + 1
    BY DEF Mirrored, Handler, End
  <1>2. PICK i \in SavesOf(Handler(op)) : i < End
    BY <1>1 DEF Reflects, Since
  <1>3. DOMAIN Handler(op) = 1..Len(Handler(op)) /\ Len(Handler(op)) \in Nat
    BY StepsNumbered DEF Handlers
  <1> QED
    BY <1>1, <1>2, <1>3 DEF Past, Earlier, SavesOf

(* What an apply that reports success leaves behind.                       *)
LEMMA SettlingEnds ==
  ASSUME CoreInv, ValuesInv, AnsweredInv, Steady(profile), Created \/ Updated, settled'
  PROVE  /\ st' # None /\ ~ tainted' /\ stale' = "no" /\ cfg # None
         /\ cfg # Null => srv # None /\ Setting(srv) = Setting(cfg)
         /\ cfg = Null /\ Managed => ~ mark'
  <1>1. op \in {"create", "update"} /\ pc = End /\ ~ failed /\ Succeeded
    BY DEF Created, Updated, Ended, Rejected, Succeeded, Applying
  <1>2. stale # "hidden" /\ Mirrored(profile)
    BY DEF Steady, AnsweredInv
  <1>3. cfg # None /\ cfg \in Configs
    BY <1>1, Applied
  <1>4. Past({"save"})
    BY <1>1, <1>2, EndPast
  <1>5. saved # None
    BY <1>1, <1>4 DEF CoreInv, ModelInv
  <1>6. srv # None
    BY <1>1, <1>2, <1>5, EndShows
  <1>7. cfg # Null => Setting(srv) = Setting(cfg)
    <2>1. cfg # Null => Delivered(profile)
      BY <1>3 DEF Configs, Steady, kind
    <2> QED
      BY <1>1, <1>2, <2>1, ApplyDelivers DEF Like
  <1>8. ASSUME cfg = Null, Managed PROVE planMark = FALSE
    <2>1. Marking(profile)
      BY <1>8 DEF Steady, With, Managed, Has, Resets, kind
    <2>2. op = "create" => Past({"recordManaged"})
      <3>1. DOMAIN profile.create = 1..Len(profile.create) /\ Len(profile.create) \in Nat
        BY StepsNumbered DEF Handlers, Handler
      <3>2. PICK i \in DOMAIN profile.create : profile.create[i].do = "recordManaged"
        BY <2>1 DEF Marking
      <3>3. i \in 1..(Len(profile.create) + 1 - 1)
        BY <3>1
      <3> QED
        BY <1>1, <3>2, <3>3 DEF Past, Earlier, End, Handler
    <2> QED
      BY <1>1, <1>8, <2>1, <2>2 DEF ValuesInv, MarkInv, MarkReturned
  <1>9. CASE Created
    <2>1. ~ Rejected /\ mark' = planMark /\ st' = (IF saved = Unknown THEN Null ELSE saved)
          /\ tainted' = (Rejected /\ saved # None)
          /\ stale' = (IF st' = None THEN "no" ELSE Trust)
      BY <1>9 DEF Created
    <2>2. st' # None
      BY <1>5, <2>1, SpecialValues
    <2> QED
      BY <1>1, <1>2, <1>3, <1>6, <1>7, <1>8, <2>1, <2>2 DEF Trust
  <1>10. CASE Updated
    <2>1. mark' = planMark /\ st' = saved /\ tainted' = tainted /\ stale' = Trust /\ op = "update"
      BY <1>10 DEF Updated, Ended
    <2>2. ~ tainted
      BY <1>1, <2>1 DEF ValuesInv, PlanInv
    <2> QED
      BY <1>1, <1>2, <1>3, <1>5, <1>6, <1>7, <1>8, <2>1, <2>2 DEF Trust
  <1> QED
    BY <1>9, <1>10

(* What an apply has settled stays settled until the configuration or the  *)
(* appliance changes, or a handler fails.                                  *)
LEMMA NextSettled ==
  CoreInv /\ ValuesInv /\ AnsweredInv /\ SettledInv /\ [Next]_vars => SettledInv'
  <1> SUFFICES ASSUME CoreInv, ValuesInv, AnsweredInv, SettledInv, [Next]_vars,
                      Steady(profile)', settled'
               PROVE  /\ st' # None /\ ~ tainted' /\ stale' = "no" /\ cfg' # None
                      /\ cfg' # Null => Seen' # None /\ Setting(Seen)' = Setting(cfg)'
                      /\ cfg' = Null /\ Managed' => ~ mark'
    BY DEF SettledInv
  <1>1. profile' = profile
    <2>1. CASE Ends
      BY <2>1 DEF Ends, Created, Updated, WasRead, Imported, Deleted, object
    <2> QED
      BY <2>1, AnyStep DEF Lingers, Starts, Within, Quits
  <1>2. Steady(profile) /\ Mirrored(profile) /\ ~ profile.hosted
    BY <1>1 DEF Steady, Mirrored
  <1>3. Managed' = Managed /\ Setting(Seen)' = Setting(Seen') /\ Setting(cfg)' = Setting(cfg')
    BY <1>1 DEF Managed, Has, kind, Setting, Canon
  <1>4. settled =>
          /\ st # None /\ ~ tainted /\ stale = "no" /\ cfg # None
          /\ cfg # Null => Seen # None /\ Setting(Seen) = Setting(cfg)
          /\ cfg = Null /\ Managed => ~ mark
    BY <1>2 DEF SettledInv
  <1>5. CASE ~ Ends
    <2>1. settled /\ cfg' = cfg /\ (op = "create" \/ stale' = stale) /\ (Idle => srv' = srv)
      BY <1>2, <1>5, SettledStep
    <2>2. op # "create" /\ stale' = stale
      BY <1>4, <2>1 DEF CoreInv, CalledInv
    <2>3. st' = st /\ tainted' = tainted /\ mark' = mark
      BY <1>5, AnyStep DEF Lingers, Starts, Within, Quits
    <2>4. Seen' = Seen
      <3>1. CASE Lingers
        BY <2>1, <3>1 DEF Lingers, Seen
      <3>2. CASE Starts
        BY <3>2 DEF Starts, Seen, Idle
      <3>3. CASE Within
        <4>1. op' = op /\ before' = before /\ (op \in {"read", "import"} => srv' = srv)
              /\ Doing # "nothing"
          BY <3>3 DEF Within
        <4>2. op \in Handlers
          BY <4>1, Permitted
        <4> QED
          BY <2>2, <4>1, <4>2 DEF Seen, Handlers
      <3>4. CASE Quits
        BY <3>4 DEF Quits, Seen
      <3> QED
        BY <1>5, <3>1, <3>2, <3>3, <3>4, AnyStep
    <2> QED
      BY <1>3, <1>4, <2>1, <2>2, <2>3, <2>4
  <1>6. CASE Created \/ Updated
    <2>1. cfg' = cfg /\ Seen' = srv
      BY <1>6 DEF Created, Updated, Return, Seen
    <2> QED
      BY <1>2, <1>3, <1>6, <2>1, SettlingEnds
  <1>7. CASE WasRead
    <2>1. /\ op = "read" /\ st' = saved /\ cfg' = cfg /\ srv' = srv /\ op' = "idle"
          /\ settled /\ st' # None /\ (tainted' <=> tainted /\ st' # None)
          /\ (mark' <=> planMark /\ st' # None)
      BY <1>7 DEF WasRead, Ended, Return
    <2>2. stale' = "no"
      BY <1>2, <1>7, EndsStale DEF Ends
    <2>3. Seen' = Seen
      BY <2>1 DEF Seen
    <2>4. Managed => planMark = mark
      <3>1. Managed => Marking(profile)
        BY <1>2 DEF Steady, With, Managed, Has, Resets, kind
      <3>2. ~ failed
        BY <2>1 DEF ValuesInv, HandlerInv
      <3> QED
        BY <1>4, <2>1, <3>1, <3>2 DEF ValuesInv, MarkInv, MarkReturned
    <2> QED
      BY <1>3, <1>4, <2>1, <2>2, <2>3, <2>4
  <1>8. CASE Imported
    BY <1>4, <1>8 DEF Imported, Ended, history, CoreInv, CalledInv
  <1>9. CASE Deleted
    BY <1>9 DEF Deleted
  <1> QED
    BY <1>5, <1>6, <1>7, <1>8, <1>9 DEF Ends

(* The two inductive invariants together.                                  *)
LEMMA OutcomeInductive == Spec => [](CoreInv /\ ValuesInv /\ OutcomeInv)
  <1>1. Init => OutcomeInv
    <2> SUFFICES ASSUME Init PROVE OutcomeInv
      OBVIOUS
    <2>1. op = "idle" /\ stale = "no" /\ settled = FALSE
      BY DEF Init
    <2> QED
      BY <2>1 DEF OutcomeInv, UnsetInv, SpeltInv, AnsweredInv, SettledInv
  <1>2. CoreInv /\ ValuesInv /\ CoreInv' /\ ValuesInv' /\ OutcomeInv /\ [Next]_vars => OutcomeInv'
    <2> SUFFICES ASSUME CoreInv, ValuesInv, ValuesInv', OutcomeInv, [Next]_vars PROVE OutcomeInv'
      OBVIOUS
    <2>1. UnsetInv' /\ SpeltInv' /\ SettledInv'
      BY NextUnset, NextSpelt, NextSettled DEF OutcomeInv
    <2>2. AnsweredInv'
      BY NextAnswered DEF OutcomeInv, ValuesInv
    <2> QED
      BY <2>1, <2>2 DEF OutcomeInv
  <1> QED
    BY <1>1, <1>2, ValuesInductive, PTL DEF Spec

(* Where the responses tell a configured value from null, what they show   *)
(* of one is not null.                                                     *)
LEMMA ShownNotNull ==
  ASSUME Telling(profile), cfg \in Configs, cfg # Null, cfg \in Plannable,
         NEW s \in Held \cup {Zero}, NEW v, Shows(v, s), Setting(v) = Setting(cfg)
  PROVE  v # Null
  <1>1. CASE Viewed(profile) = {"value"}
    BY <1>1, ShowsSetting
  <1>2. CASE ~ kind.zero
    <2>1. cfg # Null /\ cfg # Zero
      BY <1>2, ConfiguredValue
    <2>2. Setting(cfg) # Zero
      BY <2>1, CanonValues, HeldCanon DEF Setting
    <2> QED
      BY <2>2 DEF Setting
  <1> QED
    BY <1>1, <1>2 DEF Telling, kind

(* After an apply, with or without a refresh, the next plan is empty: a    *)
(* state that shows a configured value plans it again, and a computed one  *)
(* that is not configured, and not owned any more, is kept.                *)
THEOREM AppliedPlansNothing == Spec => [](Steady(profile) => NoDiffAfterApply)
  <1>1. CoreInv /\ ValuesInv /\ OutcomeInv => (Steady(profile) => NoDiffAfterApply)
    <2> SUFFICES ASSUME CoreInv, ValuesInv, OutcomeInv, Steady(profile), Idle, settled, st # None
                 PROVE  Planned(st, mark, "none").val = st
      BY DEF NoDiffAfterApply
    <2>1. /\ ~ tainted /\ stale = "no" /\ cfg # None /\ Mirrored(profile) /\ ~ kind.unseen
          /\ cfg # Null => Seen # None /\ Setting(Seen) = Setting(cfg)
          /\ cfg = Null /\ Managed => ~ mark
      BY DEF OutcomeInv, SettledInv, Steady, kind
    <2>2. /\ KindTyped(kind) /\ st \in Settable /\ cfg \in Configs /\ base \in Held
          /\ mark \in BOOLEAN
      <3>1. KindTyped(kind)
        BY Formed DEF CoreInv, WellFormed, kind
      <3> QED
        BY <2>1, <3>1 DEF CoreInv, Typed, ValuesTyped, FlagsTyped
    <2>3. CASE cfg = Null
      <3>1. kind.config # "required"
        BY <2>2, <2>3, SpecialValues DEF Configs, Written, Plain
      <3>2. kind.computed /\ kind.default = "none"
        BY <3>1 DEF Steady, kind
      <3> QED
        BY <2>1, <2>2, <2>3, <3>2, PlannedQuiet
    <2>4. CASE cfg # Null
      <3>1. Seen = srv
        BY DEF Seen, Idle
      <3>2. srv \in Held \cup {Zero} /\ Shows(st, srv)
        BY <2>1, <2>4, <3>1, AtRest
      <3>3. Setting(st) = Setting(cfg) /\ st # Null
        <4>1. Setting(st) = Setting(cfg)
          BY <2>1, <2>4, <3>1, <3>2, ShowsSetting
        <4>2. kind.config # "none"
          BY <2>2, <2>4 DEF Configs
        <4>3. Telling(profile)
          BY <4>2 DEF Steady, kind
        <4>4. cfg \in Plannable
          BY <2>1, <2>2, ValuesApart DEF Plannable
        <4> QED
          BY <2>2, <2>4, <3>2, <4>1, <4>3, <4>4, ShownNotNull
      <3>4. Canon(st) = Canon(cfg)
        BY <2>4, <3>3 DEF Setting
      <3>5. CASE kind.spelt
        <4>1. "keepEquivalent" \in Range(kind.modifiers)
          BY <3>5 DEF Steady, With, kind
        <4> QED
          BY <2>1, <2>2, <2>4, <3>3, <3>4, <4>1, PlannedEquivalent
      <3>6. CASE ~ kind.spelt
        <4>1. st = cfg
          <5>1. cfg \in Settable
            BY <2>1, <2>2, ValuesApart
          <5> QED
            BY <2>2, <3>4, <3>6, <5>1, HeldCanon DEF Plannable
        <4> QED
          BY <2>1, <2>2, <2>4, <4>1, PlannedWritten
      <3> QED
        BY <3>5, <3>6
    <2> QED
      BY <2>3, <2>4
  <1> QED
    BY <1>1, OutcomeInductive, PTL

-----------------------------------------------------------------------------
(* What was planned is what comes back.                                    *)

(* A planned value of an attribute that is not configured arrives, where   *)
(* nothing but what was there before is planned.                           *)
LEMMA KeptArrives ==
  ASSUME CoreInv, ValuesInv, Succeeded, op = "update", cfg = Null, plan = st, stale # "hidden",
         Mirrored(profile), Viewed(profile) = {"value"}, ~ Follows, ~ kind.unseen,
         \A i \in CallsOf(Handler(op)) : Handler(op)[i].rule \in Sparing \cup Forwarding
  PROVE  plan # Null /\ Setting(srv) = Setting(plan)
  <1>1. /\ before \in Held \cup {Zero} /\ Setting(st) = Setting(before) /\ st # Null
        /\ st \in Settable
    BY InSync, Applied
  <1>2. ASSUME NEW i \in CallsOf(Handler(op)) PROVE SparesBy(Handler(op)[i], Like(before))
    <2> DEFINE step == Handler(op)[i]
    <2>1. step.do = "update" /\ \A c \in Sends(step) : c = Omit \/ Canon(c) \in Holdable
      BY SendsTyped
    <2>2. Sends(step) = Sent(step.rule, st, st, cfg) /\ step.rule \in Sparing \cup Forwarding
      BY DEF Sends
    <2> HIDE DEF step
    <2>3. \A c \in Sends(step) : c = Omit \/ Setting(c) = Setting(before)
      <3>1. CASE step.rule \in Sparing
        BY <1>1, <2>2, <3>1, SentSpares
      <3>2. CASE step.rule \in Forwarding
        BY <1>1, <2>2, <3>2, SentForwards
      <3> QED
        BY <2>2, <3>1, <3>2
    <2>4. SparesBy(step, Like(before))
      BY <2>1, <2>3, LikeCanon DEF SparesBy, Moving
    <2> QED
      BY <2>4 DEF step
  <1>3. before \in Like(before) /\ Like(before) \in SUBSET Holdable
    BY <1>1 DEF Like, Holdable
  <1>4. srv \in Like(before)
    BY <1>2, <1>3, Spares
  <1> QED
    BY <1>1, <1>4 DEF Like

(* What an Echoed attribute is planned to be, the appliance has after an   *)
(* apply that reports success.                                             *)
LEMMA PlanArrives ==
  ASSUME CoreInv, ValuesInv, OutcomeInv, Succeeded, Echoed(profile), plan # Unknown
  PROVE  plan # Null /\ Setting(srv) = Setting(plan)
  <1>1. /\ op \in {"create", "update"} /\ ~ failed /\ cfg \in Configs /\ plan \in Plannable
        /\ plan # None
    BY Applied
  <1>2. /\ Mirrored(profile) /\ Viewed(profile) = {"value"} /\ ~ Follows /\ ~ kind.unseen
        /\ stale # "hidden"
    BY WithHas DEF Echoed, kind, OutcomeInv, AnsweredInv
  <1>3. CASE cfg # Null
    <2>1. Delivered(profile)
      BY <1>1, <1>3 DEF Configs, Echoed, kind
    <2>2. srv \in Like(cfg)
      BY <1>2, <1>3, <2>1, ApplyDelivers
    <2>3. Canon(plan) = Canon(cfg)
      BY <1>2, <1>3, CarriesConfigured
    <2>4. plan # Null /\ Setting(plan) = Setting(cfg)
      BY <1>1, <1>3, <2>3, ConfiguredValue
    <2> QED
      BY <2>2, <2>4 DEF Like
  <1>4. CASE cfg = Null
    <2>1. kind.config # "required"
      BY <1>1, <1>4, SpecialValues DEF Configs, Written, Plain
    <2>2. /\ kind.computed \/ kind.default # "none"
          /\ \A i \in CallsOf(profile.update) : profile.update[i].rule \in Sparing \cup Forwarding
          /\ kind.default # "none" \/ Has({"inferredOnCreate"})
               => LastCall(profile.create, Forwarding, {"none"})
          /\ kind.default # "none" \/ Has(Resets \cup {"zeroIfFollowed"})
               => LastCall(profile.update, Forwarding, {"none"})
      BY <2>1, WithHas DEF Echoed, kind
    <2>3. plan \in Unconfigured(st)
      BY <1>1, <1>2, <1>4 DEF OutcomeInv, UnsetInv
    <2>4. \/ plan = st /\ st # None
          \/ Implied(st) /\ plan \in Settable /\ plan # Null
      BY <1>1, <2>2, <2>3 DEF Unconfigured
    <2>5. CASE plan = st /\ st # None
      <3>1. op = "update"
        BY <1>1, <2>5, Applied
      <3>2. \A i \in CallsOf(Handler(op)) : Handler(op)[i].rule \in Sparing \cup Forwarding
        BY <2>2, <3>1 DEF Handler
      <3> QED
        BY <1>2, <1>4, <2>5, <3>1, <3>2, KeptArrives
    <2>6. CASE Implied(st) /\ plan \in Settable /\ plan # Null
      <3>1. op = "create" => st = None
        BY Applied
      <3>2. op = "update" => st # None
        BY Applied
      <3>3. LastCall(Handler(op), Forwarding, {"none"})
        BY <1>1, <2>2, <2>6, <3>1, <3>2 DEF Implied, Handler
      <3>4. srv \in Like(plan)
        BY <1>2, <2>6, <3>3, PlanForwarded
      <3> QED
        BY <2>6, <3>4 DEF Like
    <2> QED
      BY <2>4, <2>5, <2>6
  <1> QED
    BY <1>3, <1>4

(* Terraform does not reject an apply for a result that is not what it     *)
(* planned, where every response shows the value as it is and the handlers *)
(* carry out what the schema may plan.                                     *)
THEOREM ResultIsPlanned == Spec => [](Echoed(profile) => AppliedAsPlanned)
  <1>1. CoreInv /\ ValuesInv /\ OutcomeInv => (Echoed(profile) => AppliedAsPlanned)
    <2> SUFFICES ASSUME CoreInv, ValuesInv, OutcomeInv, Echoed(profile), Succeeded
                 PROVE  saved \notin {None, Unknown} /\ (plan # Unknown => saved = plan)
      BY DEF AppliedAsPlanned
    <2>1. op \in {"create", "update"} /\ pc = End /\ ~ failed /\ plan \in Plannable
      BY Applied
    <2>2. Mirrored(profile) /\ Viewed(profile) = {"value"}
      BY DEF Echoed
    <2>3. Past({"save"})
      BY <2>1, <2>2, EndPast
    <2>4. saved # None
      BY <2>1, <2>3 DEF CoreInv, ModelInv
    <2>5. /\ Shows(saved, srv) /\ srv \in Held \cup {Zero} /\ Setting(saved) = Setting(srv)
          /\ saved # Unknown /\ saved # Null
      BY <2>1, <2>2, <2>4, EndShows, ShowsSetting
    <2>6. ASSUME plan # Unknown PROVE saved = plan
      <3>1. plan # Null /\ Setting(srv) = Setting(plan)
        BY <2>6, PlanArrives
      <3>2. Canon(saved) = Canon(plan)
        BY <2>5, <3>1 DEF Setting
      <3>3. CASE kind.spelt
        <4>1. kind.custom
          BY <3>3 DEF Echoed, kind
        <4> QED
          BY <2>1, <2>3, <3>2, <4>1 DEF OutcomeInv, SpeltInv
      <3>4. CASE ~ kind.spelt
        <4>1. saved \in Plannable \cup {None}
          BY DEF CoreInv, Typed, ValuesTyped
        <4> QED
          BY <2>1, <3>2, <3>4, <4>1, HeldCanon
      <3> QED
        BY <3>3, <3>4
    <2> QED
      BY <2>4, <2>5, <2>6
  <1> QED
    BY <1>1, OutcomeInductive, PTL
=============================================================================
