---------------------------- MODULE WSClientSlots ----------------------------
(***************************************************************************)
(* The slots of c.sem bound the calls that are outstanding, for every      *)
(* number of callers, connections and slots.                               *)
(***************************************************************************)
EXTENDS WSClientProofs, FiniteSetTheorems

USE IndexSets

Outside == {"idle", "acquire", "done", "failed"}

(***************************************************************************)
(* The inductive invariant.                                                *)
(***************************************************************************)
\* c.sem never has more holders than slots.
SlotsInv == IsFiniteSet(sem) /\ Cardinality(sem) <= MaxInFlight

\* Whoever is inside Call or a keepalive ping holds a slot, and nobody is
\* before Connect has returned.
HolderInv ==
    /\ \A p \in Procs \ {Cfg} : pc[p] \notin Outside => p \in sem
    /\ ~Ready => \A p \in Procs \ {Cfg} : pc[p] \in {"idle", "acquire"}

\* Nobody holds a slot, or is inside Call, at the start.
LEMMA InitSlots == Init => SlotsInv /\ HolderInv
  <1> SUFFICES ASSUME Init PROVE SlotsInv /\ HolderInv
    OBVIOUS
  <1>1. SlotsInv
    BY FS_EmptySet, ConstantsAssumption DEF Init, SlotsInv
  <1>2. \A p \in Procs \ {Cfg} : pc[p] \in {"idle", "acquire"}
    BY DEF Init
  <1> QED
    BY <1>1, <1>2 DEF HolderInv, Outside

\* A slot is taken only when one is free, and given back.
LEMMA NextSlots == SlotsInv /\ [Next]_vars => SlotsInv'
  <1> SUFFICES ASSUME SlotsInv, [Next]_vars PROVE SlotsInv'
    OBVIOUS
  <1>0. MaxInFlight \in Nat /\ Cardinality(sem) \in Nat
    BY ConstantsAssumption, FS_CardinalityType DEF SlotsInv
  <1>1. ASSUME NEW p \in Procs, Acquire(p) PROVE SlotsInv'
    <2>1. sem' = sem \cup {p} /\ Cardinality(sem) < MaxInFlight
      BY <1>1 DEF Acquire
    <2>2. /\ IsFiniteSet(sem \cup {p})
          /\ Cardinality(sem \cup {p}) = IF p \in sem THEN Cardinality(sem) ELSE Cardinality(sem) + 1
      BY FS_AddElement DEF SlotsInv
    <2> QED
      BY <1>0, <2>1, <2>2 DEF SlotsInv
  <1>2. ASSUME NEW p \in Procs, sem' = sem \ {p} PROVE SlotsInv'
    <2>1. /\ IsFiniteSet(sem \ {p})
          /\ Cardinality(sem \ {p}) = IF p \in sem THEN Cardinality(sem) - 1 ELSE Cardinality(sem)
      BY FS_RemoveElement DEF SlotsInv
    <2> QED
      BY <1>0, <1>2, <2>1 DEF SlotsInv
  <1>3. ASSUME sem' = sem PROVE SlotsInv'
    BY <1>3 DEF SlotsInv
  <1>4. ASSUME NEW p \in Procs, ProcStep(p) \/ Cancel(p), ~Acquire(p)
        PROVE  sem' = sem \/ sem' = sem \ {p}
    BY <1>4 DEF ProcStep, CallStep, DialStep, SendStep, AcquireCancelled, Lookup, Reconnect, Relook,
          Backoff, OpenOK, OpenFails, Publish, AuthFails, DialBackoff, ReconnectReturns, Register,
          WriteOK, WriteFails, Receive, WaitCancelled, WaitTimesOut, PingReturns, SendReturns, Cancel,
          Returns, clientVars
  <1>5. ASSUME ConnectReturns \/ KeepaliveTick \/ KeepaliveReturns \/ Close
        PROVE  sem' = sem \/ sem' = sem \ {Cfg} \/ sem' = sem \ {KA}
    BY <1>5 DEF ConnectReturns, KeepaliveTick, KeepaliveReturns, Close, Returns, clientVars
  <1>6. ASSUME NEW k \in Conns, ReadStep(k) \/ ServerExecutes(k) \/ ServerDrops(k) PROVE sem' = sem
    BY <1>6 DEF ReadStep, ReadMessage, Deliver, ReadFails, failPending, ReaderDone, ServerExecutes,
          ServerDrops, clientVars
  <1>7. ASSUME UNCHANGED vars PROVE sem' = sem
    BY <1>7 DEF vars, clientVars
  <1> QED
    BY <1>1, <1>2, <1>3, <1>4, <1>5, <1>6, <1>7 DEF Next

\* Call and the keepalive give their slot back only when they return.
LEMMA NextHolder == TypeOK /\ Places /\ HolderInv /\ [Next]_vars => HolderInv'
  <1> SUFFICES ASSUME TypeOK, Places, HolderInv, [Next]_vars PROVE HolderInv'
    OBVIOUS
  <1>0. pc \in [Procs -> PcValues] /\ sem \in SUBSET Procs
    BY DEF TypeOK, TypeClient, TypeControl
  <1> USE DEF HolderInv, Outside, Ready, clientVars, sendVars, loopVars
  <1>1. ASSUME NEW p \in Procs, Acquire(p) PROVE HolderInv'
    BY <1>0, <1>1 DEF Acquire, Places
  <1>2. ASSUME NEW p \in Procs, AcquireCancelled(p) PROVE HolderInv'
    BY <1>0, <1>2 DEF AcquireCancelled, Returns, Places
  <1>3. ASSUME NEW p \in Procs, Lookup(p) PROVE HolderInv'
    BY <1>0, <1>3 DEF Lookup, SendOn
  <1>4. ASSUME NEW p \in Procs, Reconnect(p) PROVE HolderInv'
    BY <1>0, <1>4 DEF Reconnect
  <1>5. ASSUME NEW p \in Procs, Relook(p) PROVE HolderInv'
    BY <1>0, <1>5 DEF Relook, SendOn, Returns, Places
  <1>6. ASSUME NEW p \in Procs, Backoff(p) PROVE HolderInv'
    BY <1>0, <1>6 DEF Backoff, Returns, Places
  <1>7. ASSUME NEW p \in Procs, OpenOK(p) PROVE HolderInv'
    BY <1>0, <1>7 DEF OpenOK, SendOn
  <1>8. ASSUME NEW p \in Procs, OpenFails(p) PROVE HolderInv'
    BY <1>0, <1>8 DEF OpenFails
  <1>9. ASSUME NEW p \in Procs, Publish(p) PROVE HolderInv'
    BY <1>0, <1>9 DEF Publish, ClosedDuringAuth
  <1>10. ASSUME NEW p \in Procs, AuthFails(p) PROVE HolderInv'
    BY <1>0, <1>10 DEF AuthFails, ClosedDuringAuth
  <1>11. ASSUME NEW p \in Procs, DialBackoff(p) PROVE HolderInv'
    BY <1>0, <1>11 DEF DialBackoff
  <1>12. ASSUME NEW p \in Procs, ReconnectReturns(p) PROVE HolderInv'
    BY <1>0, <1>12 DEF ReconnectReturns, Places
  <1>13. ASSUME NEW p \in Procs, Register(p) PROVE HolderInv'
    BY <1>0, <1>13 DEF Register, SendEnds
  <1>14. ASSUME NEW p \in Procs, WriteOK(p) PROVE HolderInv'
    BY <1>0, <1>14 DEF WriteOK
  <1>15. ASSUME NEW p \in Procs, WriteFails(p) PROVE HolderInv'
    BY <1>0, <1>15 DEF WriteFails, SendEnds
  <1>16. ASSUME NEW p \in Procs, Receive(p) PROVE HolderInv'
    BY <1>0, <1>16 DEF Receive, SendEnds
  <1>17. ASSUME NEW p \in Procs, WaitCancelled(p) PROVE HolderInv'
    BY <1>0, <1>17 DEF WaitCancelled, SendEnds
  <1>18. ASSUME NEW p \in Procs, WaitTimesOut(p) PROVE HolderInv'
    BY <1>0, <1>18 DEF WaitTimesOut
  <1>19. ASSUME NEW p \in Procs, PingReturns(p) PROVE HolderInv'
    BY <1>0, <1>19 DEF PingReturns, Places
  <1>20. ASSUME NEW p \in Procs, SendReturns(p) PROVE HolderInv'
    BY <1>0, <1>20 DEF SendReturns, Returns, Places
  <1>21. ASSUME NEW p \in Procs, Cancel(p) PROVE HolderInv'
    BY <1>0, <1>21 DEF Cancel
  <1>22. ASSUME ConnectReturns PROVE HolderInv'
    BY <1>0, <1>22 DEF ConnectReturns, Returns
  <1>23. ASSUME KeepaliveTick PROVE HolderInv'
    BY <1>0, <1>23 DEF KeepaliveTick
  <1>24. ASSUME KeepaliveReturns PROVE HolderInv'
    BY <1>0, <1>24 DEF KeepaliveReturns, Returns
  <1>25. ASSUME Close PROVE HolderInv'
    BY <1>0, <1>25 DEF Close
  <1>26. ASSUME NEW k \in Conns, ReadStep(k) \/ ServerExecutes(k) \/ ServerDrops(k) PROVE HolderInv'
    <2>1. UNCHANGED <<pc, sem>>
      BY <1>26 DEF ReadStep, ReadMessage, Deliver, ReadFails, failPending, ReaderDone, ServerExecutes,
            ServerDrops
    <2> QED
      BY <2>1
  <1>27. ASSUME UNCHANGED vars PROVE HolderInv'
    BY <1>27 DEF vars
  <1> QED
    BY <1>1, <1>2, <1>3, <1>4, <1>5, <1>6, <1>7, <1>8, <1>9, <1>10, <1>11,
       <1>12, <1>13, <1>14, <1>15, <1>16, <1>17, <1>18, <1>19, <1>20, <1>21,
       <1>22, <1>23, <1>24, <1>25, <1>26, <1>27
       DEF Next, ProcStep, CallStep, DialStep, SendStep

\* The invariant holds in every reachable state.
LEMMA SlotsHold == Spec => [](IInv /\ SlotsInv /\ HolderInv)
  <1>1. IInv => TypeOK /\ Places
    BY DEF IInv
  <1> QED
    BY <1>1, InitIInv, NextIInv, InitSlots, NextSlots, NextHolder, PTL DEF Spec

(***************************************************************************)
(* The property.                                                           *)
(***************************************************************************)
\* The calls of a client that are outstanding on all of its connections
\* together are no more than its slots: a goroutine has one send at a time,
\* and a login is either the only send there is or made from inside a Call.
LEMMA PendingBounded ==
    IInv /\ SlotsInv /\ HolderInv => IsFiniteSet(pending) /\ Cardinality(pending) <= MaxInFlight
  <1> SUFFICES ASSUME IInv, SlotsInv, HolderInv
               PROVE  IsFiniteSet(pending) /\ Cardinality(pending) <= MaxInFlight
    OBVIOUS
  <1>0. MaxInFlight \in Nat /\ MaxInFlight >= 1
    BY ConstantsAssumption
  <1>1. \A e \in pending : /\ e \in Entries /\ e.ch \in Procs
                           /\ e.id = sid[e.ch] /\ e.conn = tgt[e.ch]
                           /\ pc[e.ch] \in {"write", "wait"}
    BY DEF IInv, TypeOK, TypeClient, SendInv, PendingInv, IdsInv, Entries
  <1>2. \A d, e \in pending : d.ch = e.ch => d = e
    BY <1>1 DEF Entries
  <1>3. CASE Ready
    <2>1. \A e \in pending : e.ch \in sem
      BY <1>1, <1>3 DEF HolderInv, Outside, Ready
    <2> DEFINE f == [e \in pending |-> e.ch]
    <2>2. f \in Injection(pending, sem)
      BY <1>2, <2>1 DEF Injection, IsInjective
    <2>3. IsFiniteSet(pending) /\ Cardinality(pending) <= Cardinality(sem)
      BY <2>2, FS_Injection DEF SlotsInv
    <2>4. Cardinality(pending) \in Nat /\ Cardinality(sem) \in Nat
      BY <2>3, FS_CardinalityType DEF SlotsInv
    <2> QED
      BY <1>0, <2>3, <2>4 DEF SlotsInv
  <1>4. CASE ~Ready
    <2>1. \A e \in pending : e.ch = Cfg
      BY <1>1, <1>4 DEF HolderInv
    <2>2. pending = {} \/ \E e \in pending : pending = {e}
      BY <1>2, <2>1
    <2>3. ASSUME pending = {} PROVE IsFiniteSet(pending) /\ Cardinality(pending) = 0
      BY <2>3, FS_EmptySet
    <2>4. ASSUME NEW e \in pending, pending = {e} PROVE IsFiniteSet(pending) /\ Cardinality(pending) = 1
      <3>1. IsFiniteSet({e}) /\ Cardinality({e}) = 1
        BY FS_Singleton
      <3> QED
        BY <2>4, <3>1
    <2> QED
      BY <1>0, <2>2, <2>3, <2>4
  <1> QED
    BY <1>3, <1>4

\* The calls of a client that are outstanding, over all of its connections, are
\* never more than c.sem has slots, although logins and pings take none.
THEOREM OutstandingIsBounded == Spec => []OutstandingBounded
  <1>1. IInv /\ SlotsInv /\ HolderInv => OutstandingBounded
    BY PendingBounded DEF OutstandingBounded
  <1> QED
    BY <1>1, SlotsHold, PTL
=============================================================================
