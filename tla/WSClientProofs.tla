--------------------------- MODULE WSClientProofs ---------------------------
(***************************************************************************)
(* Proofs about WSClient, for every number of callers and connections.     *)
(***************************************************************************)
EXTENDS WSClient, TLAPS

\* What the proofs need of the constants and the two index sets.
LEMMA IndexSets ==
    /\ Cfg \in Procs /\ KA \in Procs /\ Callers \subseteq Procs /\ Cfg # KA
    /\ None \notin Procs /\ None \notin Conns
    /\ Conns \subseteq Nat
    /\ \A n \in 0 .. MaxConns : n < MaxConns => n + 1 \in Conns /\ n + 1 \in 0 .. MaxConns
    /\ MaxPings \in Nat /\ MaxCloses \in Nat /\ MaxConns \in Nat
    /\ Replies \subseteq {"ok", "err", "big", "bad"}
    /\ \A p \in Procs : p \in Callers \/ p = Cfg \/ p = KA
    /\ Cfg \notin Callers /\ KA \notin Callers
    /\ None \notin Answers /\ None \notin Handing
  BY ConstantsAssumption DEF Procs, Conns

USE IndexSets

\* New starts with well-typed state and every goroutine where it may be.
LEMMA InitTypeOK == Init => TypeOK /\ Places
  <1> SUFFICES ASSUME Init PROVE TypeOK /\ Places
    OBVIOUS
  <1>1. TypeClient
    <2>1. 0 \in 0 .. MaxPings /\ 0 \in 0 .. MaxCloses
      OBVIOUS
    <2> QED
      BY <2>1 DEF Init, TypeClient
  <1>2. TypeControl
    BY DEF Init, TypeControl, PcValues
  <1>3. TypeSend
    BY DEF Init, TypeSend, Answers, Outcomes
  <1>4. TypeConn
    BY DEF Init, TypeConn, Handing
  <1>5. Places
    BY DEF Init, Places
  <1> QED
    BY <1>1, <1>2, <1>3, <1>4, <1>5 DEF TypeOK

\* No step sends a goroutine where its code does not go.
LEMMA NextPlaces == TypeOK /\ Places /\ [Next]_vars => Places'
  <1> SUFFICES ASSUME TypeOK, Places, [Next]_vars PROVE Places'
    OBVIOUS
  <1> USE DEF Places, clientVars, sendVars, loopVars, connVars, serverVars, boundVars
  <1>0. /\ pc \in [Procs -> PcValues] /\ tgt \in [Procs -> Conns \cup {None}]
        /\ role \in [Procs -> {"none", "call", "auth", "keepalive", "pingcall", "pingauth"}]
        /\ nconn \in 0 .. MaxConns
    BY DEF TypeOK, TypeControl, TypeSend, TypeConn
  <1>1. ASSUME NEW p \in Procs, Acquire(p) PROVE Places'
    BY <1>0, <1>1 DEF Acquire
  <1>2. ASSUME NEW p \in Procs, AcquireCancelled(p) PROVE Places'
    BY <1>0, <1>2 DEF AcquireCancelled, Returns, LoopsEnd
  <1>3. ASSUME NEW p \in Procs, Lookup(p) PROVE Places'
    BY <1>0, <1>3 DEF Lookup, SendOn
  <1>4. ASSUME NEW p \in Procs, Reconnect(p) PROVE Places'
    BY <1>0, <1>4 DEF Reconnect
  <1>5. ASSUME NEW p \in Procs, Relook(p) PROVE Places'
    BY <1>0, <1>5 DEF Relook, SendOn, LoopsEnd, Returns
  <1>6. ASSUME NEW p \in Procs, Backoff(p) PROVE Places'
    BY <1>0, <1>6 DEF Backoff, Returns, LoopsEnd
  <1>7. ASSUME NEW p \in Procs, OpenOK(p) PROVE Places'
    BY <1>0, <1>7 DEF OpenOK, SendOn
  <1>8. ASSUME NEW p \in Procs, OpenFails(p) PROVE Places'
    BY <1>0, <1>8 DEF OpenFails
  <1>9. ASSUME NEW p \in Procs, Publish(p) PROVE Places'
    BY <1>0, <1>9 DEF Publish, ClosedDuringAuth
  <1>10. ASSUME NEW p \in Procs, AuthFails(p) PROVE Places'
    BY <1>0, <1>10 DEF AuthFails, ClosedDuringAuth, Sever
  <1>11. ASSUME NEW p \in Procs, DialBackoff(p) PROVE Places'
    BY <1>0, <1>11 DEF DialBackoff
  <1>12. ASSUME NEW p \in Procs, ReconnectReturns(p) PROVE Places'
    BY <1>0, <1>12 DEF ReconnectReturns
  <1>13. ASSUME NEW p \in Procs, Register(p) PROVE Places'
    BY <1>0, <1>13 DEF Register, SendEnds
  <1>14. ASSUME NEW p \in Procs, WriteOK(p) PROVE Places'
    BY <1>0, <1>14 DEF WriteOK, op
  <1>15. ASSUME NEW p \in Procs, WriteFails(p) PROVE Places'
    BY <1>0, <1>15 DEF WriteFails, forget, SendEnds
  <1>16. ASSUME NEW p \in Procs, Receive(p) PROVE Places'
    BY <1>0, <1>16 DEF Receive, SendEnds
  <1>17. ASSUME NEW p \in Procs, WaitCancelled(p) PROVE Places'
    BY <1>0, <1>17 DEF WaitCancelled, forget, SendEnds
  <1>18. ASSUME NEW p \in Procs, WaitTimesOut(p) PROVE Places'
    BY <1>0, <1>18 DEF WaitTimesOut, forget
  <1>19. ASSUME NEW p \in Procs, PingReturns(p) PROVE Places'
    BY <1>0, <1>19 DEF PingReturns, Sever
  <1>20. ASSUME NEW p \in Procs, SendReturns(p) PROVE Places'
    BY <1>0, <1>20 DEF SendReturns, Returns, LoopsEnd
  <1>21. ASSUME NEW p \in Procs, Cancel(p) PROVE Places'
    BY <1>0, <1>21 DEF Cancel
  <1>22. ASSUME ConnectReturns PROVE Places'
    BY <1>0, <1>22 DEF ConnectReturns, Returns, LoopsEnd
  <1>23. ASSUME KeepaliveTick PROVE Places'
    BY <1>0, <1>23 DEF KeepaliveTick
  <1>24. ASSUME KeepaliveReturns PROVE Places'
    BY <1>0, <1>24 DEF KeepaliveReturns, Returns, LoopsEnd
  <1>25. ASSUME Close PROVE Places'
    BY <1>0, <1>25 DEF Close, Sever
  <1>26. ASSUME NEW k \in Conns, ReadMessage(k) PROVE Places'
    BY <1>0, <1>26 DEF ReadMessage, ReadOne
  <1>27. ASSUME NEW k \in Conns, Deliver(k) PROVE Places'
    BY <1>0, <1>27 DEF Deliver, Put
  <1>28. ASSUME NEW k \in Conns, ReadFails(k) PROVE Places'
    BY <1>0, <1>28 DEF ReadFails
  <1>29. ASSUME NEW k \in Conns, failPending(k) PROVE Places'
    BY <1>0, <1>29 DEF failPending
  <1>30. ASSUME NEW k \in Conns, ReaderDone(k) PROVE Places'
    BY <1>0, <1>30 DEF ReaderDone
  <1>31. ASSUME NEW k \in Conns, ServerExecutes(k) PROVE Places'
    BY <1>0, <1>31 DEF ServerExecutes
  <1>32. ASSUME NEW k \in Conns, ServerDrops(k) PROVE Places'
    BY <1>0, <1>32 DEF ServerDrops, Sever
  <1>33. ASSUME UNCHANGED vars PROVE Places'
    BY <1>0, <1>33 DEF vars
  <1> QED
    BY <1>1, <1>2, <1>3, <1>4, <1>5, <1>6, <1>7, <1>8, <1>9, <1>10, <1>11, <1>12, <1>13, <1>14, <1>15, <1>16, <1>17, <1>18, <1>19, <1>20, <1>21, <1>22, <1>23, <1>24, <1>25, <1>26, <1>27, <1>28, <1>29, <1>30, <1>31, <1>32, <1>33
       DEF Next, ProcStep, CallStep, DialStep, SendStep, ReadStep

\* The program counters, loop counters and errors keep their types.
LEMMA NextTypeControl == TypeControl /\ [Next]_vars => TypeControl'
  <1> SUFFICES ASSUME TypeControl, [Next]_vars PROVE TypeControl'
    OBVIOUS
  <1> USE DEF TypeControl, PcValues, clientVars, sendVars, loopVars, connVars, serverVars, boundVars
  <1>1. ASSUME NEW p \in Procs, Acquire(p) PROVE TypeControl'
    BY <1>1 DEF Acquire
  <1>2. ASSUME NEW p \in Procs, AcquireCancelled(p) PROVE TypeControl'
    BY <1>2 DEF AcquireCancelled, Returns, LoopsEnd
  <1>3. ASSUME NEW p \in Procs, Lookup(p) PROVE TypeControl'
    BY <1>3 DEF Lookup, SendOn
  <1>4. ASSUME NEW p \in Procs, Reconnect(p) PROVE TypeControl'
    BY <1>4 DEF Reconnect
  <1>5. ASSUME NEW p \in Procs, Relook(p) PROVE TypeControl'
    BY <1>5 DEF Relook, SendOn, LoopsEnd, Returns
  <1>6. ASSUME NEW p \in Procs, Backoff(p) PROVE TypeControl'
    BY <1>6 DEF Backoff, Returns, LoopsEnd
  <1>7. ASSUME NEW p \in Procs, OpenOK(p) PROVE TypeControl'
    BY <1>7 DEF OpenOK, SendOn
  <1>8. ASSUME NEW p \in Procs, OpenFails(p) PROVE TypeControl'
    BY <1>8 DEF OpenFails
  <1>9. ASSUME NEW p \in Procs, Publish(p) PROVE TypeControl'
    BY <1>9 DEF Publish, ClosedDuringAuth
  <1>10. ASSUME NEW p \in Procs, AuthFails(p) PROVE TypeControl'
    BY <1>10 DEF AuthFails, ClosedDuringAuth, Sever
  <1>11. ASSUME NEW p \in Procs, DialBackoff(p) PROVE TypeControl'
    BY <1>11 DEF DialBackoff
  <1>12. ASSUME NEW p \in Procs, ReconnectReturns(p) PROVE TypeControl'
    BY <1>12 DEF ReconnectReturns
  <1>13. ASSUME NEW p \in Procs, Register(p) PROVE TypeControl'
    BY <1>13 DEF Register, SendEnds
  <1>14. ASSUME NEW p \in Procs, WriteOK(p) PROVE TypeControl'
    BY <1>14 DEF WriteOK, op
  <1>15. ASSUME NEW p \in Procs, WriteFails(p) PROVE TypeControl'
    BY <1>15 DEF WriteFails, forget, SendEnds
  <1>16. ASSUME NEW p \in Procs, Receive(p) PROVE TypeControl'
    BY <1>16 DEF Receive, SendEnds
  <1>17. ASSUME NEW p \in Procs, WaitCancelled(p) PROVE TypeControl'
    BY <1>17 DEF WaitCancelled, forget, SendEnds
  <1>18. ASSUME NEW p \in Procs, WaitTimesOut(p) PROVE TypeControl'
    BY <1>18 DEF WaitTimesOut, forget
  <1>19. ASSUME NEW p \in Procs, PingReturns(p) PROVE TypeControl'
    BY <1>19 DEF PingReturns, Sever
  <1>20. ASSUME NEW p \in Procs, SendReturns(p) PROVE TypeControl'
    BY <1>20 DEF SendReturns, Returns, LoopsEnd
  <1>21. ASSUME NEW p \in Procs, Cancel(p) PROVE TypeControl'
    BY <1>21 DEF Cancel
  <1>22. ASSUME ConnectReturns PROVE TypeControl'
    BY <1>22 DEF ConnectReturns, Returns, LoopsEnd
  <1>23. ASSUME KeepaliveTick PROVE TypeControl'
    BY <1>23 DEF KeepaliveTick
  <1>24. ASSUME KeepaliveReturns PROVE TypeControl'
    BY <1>24 DEF KeepaliveReturns, Returns, LoopsEnd
  <1>25. ASSUME Close PROVE TypeControl'
    BY <1>25 DEF Close, Sever
  <1>26. ASSUME NEW k \in Conns, ReadMessage(k) PROVE TypeControl'
    BY <1>26 DEF ReadMessage, ReadOne
  <1>27. ASSUME NEW k \in Conns, Deliver(k) PROVE TypeControl'
    BY <1>27 DEF Deliver, Put
  <1>28. ASSUME NEW k \in Conns, ReadFails(k) PROVE TypeControl'
    BY <1>28 DEF ReadFails
  <1>29. ASSUME NEW k \in Conns, failPending(k) PROVE TypeControl'
    BY <1>29 DEF failPending
  <1>30. ASSUME NEW k \in Conns, ReaderDone(k) PROVE TypeControl'
    BY <1>30 DEF ReaderDone
  <1>31. ASSUME NEW k \in Conns, ServerExecutes(k) PROVE TypeControl'
    BY <1>31 DEF ServerExecutes
  <1>32. ASSUME NEW k \in Conns, ServerDrops(k) PROVE TypeControl'
    BY <1>32 DEF ServerDrops, Sever
  <1>33. ASSUME UNCHANGED vars PROVE TypeControl'
    BY <1>33 DEF vars
  <1> QED
    BY <1>1, <1>2, <1>3, <1>4, <1>5, <1>6, <1>7, <1>8, <1>9, <1>10, <1>11, <1>12, <1>13, <1>14, <1>15, <1>16, <1>17, <1>18, <1>19, <1>20, <1>21, <1>22, <1>23, <1>24, <1>25, <1>26, <1>27, <1>28, <1>29, <1>30, <1>31, <1>32, <1>33
       DEF Next, ProcStep, CallStep, DialStep, SendStep, ReadStep

\* The locals of send keep their types.
LEMMA NextTypeSend == TypeOK /\ [Next]_vars => TypeSend'
  <1> SUFFICES ASSUME TypeOK, [Next]_vars PROVE TypeSend'
    OBVIOUS
  <1> USE DEF TypeSend, Answers, Outcomes, Handing, clientVars, sendVars, loopVars, connVars, serverVars, boundVars
  <1>0. TypeSend /\ conn \in Conns \cup {None} /\ seq \in Nat /\ nconn \in 0 .. MaxConns
        /\ hand \in [Conns -> Handing \cup {None}]
    BY DEF TypeOK, TypeClient, TypeConn
  <1>1. ASSUME NEW p \in Procs, Acquire(p) PROVE TypeSend'
    BY <1>0, <1>1 DEF Acquire
  <1>2. ASSUME NEW p \in Procs, AcquireCancelled(p) PROVE TypeSend'
    BY <1>0, <1>2 DEF AcquireCancelled, Returns, LoopsEnd
  <1>3. ASSUME NEW p \in Procs, Lookup(p) PROVE TypeSend'
    BY <1>0, <1>3 DEF Lookup, SendOn
  <1>4. ASSUME NEW p \in Procs, Reconnect(p) PROVE TypeSend'
    BY <1>0, <1>4 DEF Reconnect
  <1>5. ASSUME NEW p \in Procs, Relook(p) PROVE TypeSend'
    BY <1>0, <1>5 DEF Relook, SendOn, LoopsEnd, Returns
  <1>6. ASSUME NEW p \in Procs, Backoff(p) PROVE TypeSend'
    BY <1>0, <1>6 DEF Backoff, Returns, LoopsEnd
  <1>7. ASSUME NEW p \in Procs, OpenOK(p) PROVE TypeSend'
    BY <1>0, <1>7 DEF OpenOK, SendOn
  <1>8. ASSUME NEW p \in Procs, OpenFails(p) PROVE TypeSend'
    BY <1>0, <1>8 DEF OpenFails
  <1>9. ASSUME NEW p \in Procs, Publish(p) PROVE TypeSend'
    BY <1>0, <1>9 DEF Publish, ClosedDuringAuth
  <1>10. ASSUME NEW p \in Procs, AuthFails(p) PROVE TypeSend'
    BY <1>0, <1>10 DEF AuthFails, ClosedDuringAuth, Sever
  <1>11. ASSUME NEW p \in Procs, DialBackoff(p) PROVE TypeSend'
    BY <1>0, <1>11 DEF DialBackoff
  <1>12. ASSUME NEW p \in Procs, ReconnectReturns(p) PROVE TypeSend'
    BY <1>0, <1>12 DEF ReconnectReturns
  <1>13. ASSUME NEW p \in Procs, Register(p) PROVE TypeSend'
    BY <1>0, <1>13 DEF Register, SendEnds
  <1>14. ASSUME NEW p \in Procs, WriteOK(p) PROVE TypeSend'
    BY <1>0, <1>14 DEF WriteOK, op
  <1>15. ASSUME NEW p \in Procs, WriteFails(p) PROVE TypeSend'
    BY <1>0, <1>15 DEF WriteFails, forget, SendEnds
  <1>16. ASSUME NEW p \in Procs, Receive(p) PROVE TypeSend'
    BY <1>0, <1>16 DEF Receive, SendEnds
  <1>17. ASSUME NEW p \in Procs, WaitCancelled(p) PROVE TypeSend'
    BY <1>0, <1>17 DEF WaitCancelled, forget, SendEnds
  <1>18. ASSUME NEW p \in Procs, WaitTimesOut(p) PROVE TypeSend'
    BY <1>0, <1>18 DEF WaitTimesOut, forget
  <1>19. ASSUME NEW p \in Procs, PingReturns(p) PROVE TypeSend'
    BY <1>0, <1>19 DEF PingReturns, Sever
  <1>20. ASSUME NEW p \in Procs, SendReturns(p) PROVE TypeSend'
    BY <1>0, <1>20 DEF SendReturns, Returns, LoopsEnd
  <1>21. ASSUME NEW p \in Procs, Cancel(p) PROVE TypeSend'
    BY <1>0, <1>21 DEF Cancel
  <1>22. ASSUME ConnectReturns PROVE TypeSend'
    BY <1>0, <1>22 DEF ConnectReturns, Returns, LoopsEnd
  <1>23. ASSUME KeepaliveTick PROVE TypeSend'
    BY <1>0, <1>23 DEF KeepaliveTick
  <1>24. ASSUME KeepaliveReturns PROVE TypeSend'
    BY <1>0, <1>24 DEF KeepaliveReturns, Returns, LoopsEnd
  <1>25. ASSUME Close PROVE TypeSend'
    BY <1>0, <1>25 DEF Close, Sever
  <1>26. ASSUME NEW k \in Conns, ReadMessage(k) PROVE TypeSend'
    BY <1>0, <1>26 DEF ReadMessage, ReadOne
  <1>27. ASSUME NEW k \in Conns, Deliver(k) PROVE TypeSend'
    BY <1>0, <1>27 DEF Deliver, Put
  <1>28. ASSUME NEW k \in Conns, ReadFails(k) PROVE TypeSend'
    BY <1>0, <1>28 DEF ReadFails
  <1>29. ASSUME NEW k \in Conns, failPending(k) PROVE TypeSend'
    BY <1>0, <1>29 DEF failPending
  <1>30. ASSUME NEW k \in Conns, ReaderDone(k) PROVE TypeSend'
    BY <1>0, <1>30 DEF ReaderDone
  <1>31. ASSUME NEW k \in Conns, ServerExecutes(k) PROVE TypeSend'
    BY <1>0, <1>31 DEF ServerExecutes
  <1>32. ASSUME NEW k \in Conns, ServerDrops(k) PROVE TypeSend'
    BY <1>0, <1>32 DEF ServerDrops, Sever
  <1>33. ASSUME UNCHANGED vars PROVE TypeSend'
    BY <1>0, <1>33 DEF vars
  <1> QED
    BY <1>1, <1>2, <1>3, <1>4, <1>5, <1>6, <1>7, <1>8, <1>9, <1>10, <1>11, <1>12, <1>13, <1>14, <1>15, <1>16, <1>17, <1>18, <1>19, <1>20, <1>21, <1>22, <1>23, <1>24, <1>25, <1>26, <1>27, <1>28, <1>29, <1>30, <1>31, <1>32, <1>33
       DEF Next, ProcStep, CallStep, DialStep, SendStep, ReadStep

\* The fields of Client keep their types.
LEMMA NextTypeClient == TypeOK /\ Places /\ [Next]_vars => TypeClient'
  <1> SUFFICES ASSUME TypeOK, Places, [Next]_vars PROVE TypeClient'
    OBVIOUS
  <1> USE DEF TypeClient, clientVars, sendVars, loopVars, connVars, serverVars, boundVars
  <1>0. TypeClient /\ tgt \in [Procs -> Conns \cup {None}]
    BY DEF TypeOK, TypeSend
  <1>1. ASSUME NEW p \in Procs, Acquire(p) PROVE TypeClient'
    BY <1>0, <1>1 DEF Acquire
  <1>2. ASSUME NEW p \in Procs, AcquireCancelled(p) PROVE TypeClient'
    BY <1>0, <1>2 DEF AcquireCancelled, Returns, LoopsEnd
  <1>3. ASSUME NEW p \in Procs, Lookup(p) PROVE TypeClient'
    BY <1>0, <1>3 DEF Lookup, SendOn
  <1>4. ASSUME NEW p \in Procs, Reconnect(p) PROVE TypeClient'
    BY <1>0, <1>4 DEF Reconnect
  <1>5. ASSUME NEW p \in Procs, Relook(p) PROVE TypeClient'
    BY <1>0, <1>5 DEF Relook, SendOn, LoopsEnd, Returns
  <1>6. ASSUME NEW p \in Procs, Backoff(p) PROVE TypeClient'
    BY <1>0, <1>6 DEF Backoff, Returns, LoopsEnd
  <1>7. ASSUME NEW p \in Procs, OpenOK(p) PROVE TypeClient'
    BY <1>0, <1>7 DEF OpenOK, SendOn
  <1>8. ASSUME NEW p \in Procs, OpenFails(p) PROVE TypeClient'
    BY <1>0, <1>8 DEF OpenFails
  <1>9. ASSUME NEW p \in Procs, Publish(p) PROVE TypeClient'
    BY <1>0, <1>9 DEF Publish
  <1>10. ASSUME NEW p \in Procs, AuthFails(p) PROVE TypeClient'
    BY <1>0, <1>10 DEF AuthFails, ClosedDuringAuth, Sever
  <1>11. ASSUME NEW p \in Procs, DialBackoff(p) PROVE TypeClient'
    BY <1>0, <1>11 DEF DialBackoff
  <1>12. ASSUME NEW p \in Procs, ReconnectReturns(p) PROVE TypeClient'
    BY <1>0, <1>12 DEF ReconnectReturns
  <1>13. ASSUME NEW p \in Procs, Register(p) PROVE TypeClient'
    <2>1. tgt[p] \in Conns
      BY <1>0, <1>13 DEF Register, Places
    <2>2. [id |-> seq + 1, conn |-> tgt[p], ch |-> p] \in Entries
      BY <1>0, <2>1 DEF Entries
    <2>3. pending' = pending \/ pending' = pending \cup {[id |-> seq + 1, conn |-> tgt[p], ch |-> p]}
      BY <1>13 DEF Register
    <2>4. pending' \in SUBSET Entries
      BY <1>0, <2>2, <2>3
    <2> QED
      BY <1>0, <1>13, <2>4 DEF Register
  <1>14. ASSUME NEW p \in Procs, WriteOK(p) PROVE TypeClient'
    BY <1>0, <1>14 DEF WriteOK, op
  <1>15. ASSUME NEW p \in Procs, WriteFails(p) PROVE TypeClient'
    BY <1>0, <1>15 DEF WriteFails, forget, SendEnds
  <1>16. ASSUME NEW p \in Procs, Receive(p) PROVE TypeClient'
    BY <1>0, <1>16 DEF Receive, SendEnds
  <1>17. ASSUME NEW p \in Procs, WaitCancelled(p) PROVE TypeClient'
    BY <1>0, <1>17 DEF WaitCancelled, forget, SendEnds
  <1>18. ASSUME NEW p \in Procs, WaitTimesOut(p) PROVE TypeClient'
    BY <1>0, <1>18 DEF WaitTimesOut, forget
  <1>19. ASSUME NEW p \in Procs, PingReturns(p) PROVE TypeClient'
    BY <1>0, <1>19 DEF PingReturns, Sever
  <1>20. ASSUME NEW p \in Procs, SendReturns(p) PROVE TypeClient'
    BY <1>0, <1>20 DEF SendReturns, Returns, LoopsEnd
  <1>21. ASSUME NEW p \in Procs, Cancel(p) PROVE TypeClient'
    BY <1>0, <1>21 DEF Cancel
  <1>22. ASSUME ConnectReturns PROVE TypeClient'
    BY <1>0, <1>22 DEF ConnectReturns, Returns, LoopsEnd
  <1>23. ASSUME KeepaliveTick PROVE TypeClient'
    BY <1>0, <1>23 DEF KeepaliveTick
  <1>24. ASSUME KeepaliveReturns PROVE TypeClient'
    BY <1>0, <1>24 DEF KeepaliveReturns, Returns, LoopsEnd
  <1>25. ASSUME Close PROVE TypeClient'
    BY <1>0, <1>25 DEF Close, Sever
  <1>26. ASSUME NEW k \in Conns, ReadMessage(k) PROVE TypeClient'
    BY <1>0, <1>26 DEF ReadMessage, ReadOne
  <1>27. ASSUME NEW k \in Conns, Deliver(k) PROVE TypeClient'
    BY <1>0, <1>27 DEF Deliver, Put
  <1>28. ASSUME NEW k \in Conns, ReadFails(k) PROVE TypeClient'
    BY <1>0, <1>28 DEF ReadFails
  <1>29. ASSUME NEW k \in Conns, failPending(k) PROVE TypeClient'
    BY <1>0, <1>29 DEF failPending
  <1>30. ASSUME NEW k \in Conns, ReaderDone(k) PROVE TypeClient'
    BY <1>0, <1>30 DEF ReaderDone
  <1>31. ASSUME NEW k \in Conns, ServerExecutes(k) PROVE TypeClient'
    BY <1>0, <1>31 DEF ServerExecutes
  <1>32. ASSUME NEW k \in Conns, ServerDrops(k) PROVE TypeClient'
    BY <1>0, <1>32 DEF ServerDrops, Sever
  <1>33. ASSUME UNCHANGED vars PROVE TypeClient'
    BY <1>0, <1>33 DEF vars
  <1> QED
    BY <1>1, <1>2, <1>3, <1>4, <1>5, <1>6, <1>7, <1>8, <1>9, <1>10, <1>11, <1>12, <1>13, <1>14, <1>15, <1>16, <1>17, <1>18, <1>19, <1>20, <1>21, <1>22, <1>23, <1>24, <1>25, <1>26, <1>27, <1>28, <1>29, <1>30, <1>31, <1>32, <1>33
       DEF Next, ProcStep, CallStep, DialStep, SendStep, ReadStep

\* The websockets, their readers and the server keep their types.
LEMMA NextTypeConn == TypeOK /\ Places /\ [Next]_vars => TypeConn'
  <1> SUFFICES ASSUME TypeOK, Places, [Next]_vars PROVE TypeConn'
    OBVIOUS
  <1> USE DEF TypeConn, clientVars, sendVars, loopVars, connVars, serverVars, boundVars
  <1>0. /\ TypeConn /\ sid \in [Procs -> Nat] /\ tgt \in [Procs -> Conns \cup {None}]
        /\ role \in [Procs -> {"none", "call", "auth", "keepalive", "pingcall", "pingauth"}]
        /\ pending \in SUBSET Entries
    BY DEF TypeOK, TypeSend, TypeClient
  <1>1. ASSUME NEW p \in Procs, Acquire(p) PROVE TypeConn'
    BY <1>0, <1>1 DEF Acquire
  <1>2. ASSUME NEW p \in Procs, AcquireCancelled(p) PROVE TypeConn'
    BY <1>0, <1>2 DEF AcquireCancelled, Returns, LoopsEnd
  <1>3. ASSUME NEW p \in Procs, Lookup(p) PROVE TypeConn'
    BY <1>0, <1>3 DEF Lookup, SendOn
  <1>4. ASSUME NEW p \in Procs, Reconnect(p) PROVE TypeConn'
    BY <1>0, <1>4 DEF Reconnect
  <1>5. ASSUME NEW p \in Procs, Relook(p) PROVE TypeConn'
    BY <1>0, <1>5 DEF Relook, SendOn, LoopsEnd, Returns
  <1>6. ASSUME NEW p \in Procs, Backoff(p) PROVE TypeConn'
    BY <1>0, <1>6 DEF Backoff, Returns, LoopsEnd
  <1>7. ASSUME NEW p \in Procs, OpenOK(p) PROVE TypeConn'
    BY <1>0, <1>7 DEF OpenOK, SendOn
  <1>8. ASSUME NEW p \in Procs, OpenFails(p) PROVE TypeConn'
    BY <1>0, <1>8 DEF OpenFails
  <1>9. ASSUME NEW p \in Procs, Publish(p) PROVE TypeConn'
    BY <1>0, <1>9 DEF Publish, ClosedDuringAuth
  <1>10. ASSUME NEW p \in Procs, AuthFails(p) PROVE TypeConn'
    BY <1>0, <1>10 DEF AuthFails, ClosedDuringAuth, Sever
  <1>11. ASSUME NEW p \in Procs, DialBackoff(p) PROVE TypeConn'
    BY <1>0, <1>11 DEF DialBackoff
  <1>12. ASSUME NEW p \in Procs, ReconnectReturns(p) PROVE TypeConn'
    BY <1>0, <1>12 DEF ReconnectReturns
  <1>13. ASSUME NEW p \in Procs, Register(p) PROVE TypeConn'
    BY <1>0, <1>13 DEF Register, SendEnds
  <1>14. ASSUME NEW p \in Procs, WriteOK(p) PROVE TypeConn'
    <2>1. op(p) \in Callers \cup {"auth", "ping"}
      BY <1>0, <1>14 DEF op, Places
    <2>2. [id |-> sid[p], op |-> op(p)] \in [id : Nat, op : Callers \cup {"auth", "ping"}]
      BY <1>0, <2>1
    <2> QED
      BY <1>0, <1>14, <2>2 DEF WriteOK
  <1>15. ASSUME NEW p \in Procs, WriteFails(p) PROVE TypeConn'
    BY <1>0, <1>15 DEF WriteFails, forget, SendEnds
  <1>16. ASSUME NEW p \in Procs, Receive(p) PROVE TypeConn'
    BY <1>0, <1>16 DEF Receive, SendEnds
  <1>17. ASSUME NEW p \in Procs, WaitCancelled(p) PROVE TypeConn'
    BY <1>0, <1>17 DEF WaitCancelled, forget, SendEnds
  <1>18. ASSUME NEW p \in Procs, WaitTimesOut(p) PROVE TypeConn'
    BY <1>0, <1>18 DEF WaitTimesOut, forget
  <1>19. ASSUME NEW p \in Procs, PingReturns(p) PROVE TypeConn'
    BY <1>0, <1>19 DEF PingReturns, Sever
  <1>20. ASSUME NEW p \in Procs, SendReturns(p) PROVE TypeConn'
    BY <1>0, <1>20 DEF SendReturns, Returns, LoopsEnd
  <1>21. ASSUME NEW p \in Procs, Cancel(p) PROVE TypeConn'
    BY <1>0, <1>21 DEF Cancel
  <1>22. ASSUME ConnectReturns PROVE TypeConn'
    BY <1>0, <1>22 DEF ConnectReturns, Returns, LoopsEnd
  <1>23. ASSUME KeepaliveTick PROVE TypeConn'
    BY <1>0, <1>23 DEF KeepaliveTick
  <1>24. ASSUME KeepaliveReturns PROVE TypeConn'
    BY <1>0, <1>24 DEF KeepaliveReturns, Returns, LoopsEnd
  <1>25. ASSUME Close PROVE TypeConn'
    BY <1>0, <1>25 DEF Close, Sever
  <1>26. ASSUME NEW k \in Conns, ReadMessage(k) PROVE TypeConn'
    <2>1. PICK m \in inbox[k] : ReadOne(k, m)
      BY <1>26 DEF ReadMessage
    <2>2. hand' \in [Conns -> Handing \cup {None}]
      <3>1. CASE hand' = hand
        BY <1>0, <3>1
      <3>2. CASE hand' # hand
        <4>1. m.res # "bad" /\ \E e \in pending :
                hand' = [hand EXCEPT ![k] = [id |-> e.id, ch |-> e.ch, res |-> m.res]]
          BY <2>1, <3>2 DEF ReadOne
        <4>2. PICK e \in pending :
                hand' = [hand EXCEPT ![k] = [id |-> e.id, ch |-> e.ch, res |-> m.res]]
          BY <4>1
        <4>3. [id |-> e.id, ch |-> e.ch, res |-> m.res] \in Handing
          BY <1>0, <4>1 DEF Handing, Entries, Answers
        <4> QED
          BY <1>0, <4>2, <4>3
      <3> QED
        BY <3>1, <3>2
    <2>3. inbox' = [inbox EXCEPT ![k] = inbox[k] \ {m}]
      BY <2>1 DEF ReadOne
    <2>4. inbox' \in [Conns -> SUBSET [id : Nat, res : {"ok", "err", "big", "bad"}]]
      BY <1>0, <2>3
    <2>5. reader' \in [Conns -> {"none", "reading", "exiting", "failed", "done"}]
      BY <1>0, <2>1 DEF ReadOne
    <2>6. UNCHANGED <<nconn, link, wire, authed, applied>>
      BY <1>26 DEF ReadMessage
    <2> QED
      BY <1>0, <2>2, <2>4, <2>5, <2>6
  <1>27. ASSUME NEW k \in Conns, Deliver(k) PROVE TypeConn'
    BY <1>0, <1>27 DEF Deliver, Put
  <1>28. ASSUME NEW k \in Conns, ReadFails(k) PROVE TypeConn'
    BY <1>0, <1>28 DEF ReadFails
  <1>29. ASSUME NEW k \in Conns, failPending(k) PROVE TypeConn'
    BY <1>0, <1>29 DEF failPending
  <1>30. ASSUME NEW k \in Conns, ReaderDone(k) PROVE TypeConn'
    BY <1>0, <1>30 DEF ReaderDone
  <1>31. ASSUME NEW k \in Conns, ServerExecutes(k) PROVE TypeConn'
    <2>1. PICK m \in wire[k], r \in Replies :
            /\ wire' = [wire EXCEPT ![k] = @ \ {m}]
            /\ applied' = IF m.op \in Callers THEN [applied EXCEPT ![m.op] = @ + 1] ELSE applied
            /\ authed' = IF m.op = "auth" /\ r = "ok" THEN [authed EXCEPT ![k] = TRUE] ELSE authed
            /\ inbox' = inbox \/ inbox' = [inbox EXCEPT ![k] = @ \cup {[id |-> m.id, res |-> r]}]
      BY <1>31 DEF ServerExecutes
    <2>2. [id |-> m.id, res |-> r] \in [id : Nat, res : {"ok", "err", "big", "bad"}]
      BY <1>0
    <2>3. inbox' \in [Conns -> SUBSET [id : Nat, res : {"ok", "err", "big", "bad"}]]
      BY <1>0, <2>1, <2>2
    <2>4. wire' \in [Conns -> SUBSET [id : Nat, op : Callers \cup {"auth", "ping"}]]
      BY <1>0, <2>1
    <2>5. authed' \in [Conns -> BOOLEAN] /\ applied' \in [Callers -> Nat]
      BY <1>0, <2>1
    <2> QED
      BY <1>0, <1>31, <2>3, <2>4, <2>5 DEF ServerExecutes
  <1>32. ASSUME NEW k \in Conns, ServerDrops(k) PROVE TypeConn'
    BY <1>0, <1>32 DEF ServerDrops, Sever
  <1>33. ASSUME UNCHANGED vars PROVE TypeConn'
    BY <1>0, <1>33 DEF vars
  <1> QED
    BY <1>1, <1>2, <1>3, <1>4, <1>5, <1>6, <1>7, <1>8, <1>9, <1>10, <1>11, <1>12, <1>13, <1>14, <1>15, <1>16, <1>17, <1>18, <1>19, <1>20, <1>21, <1>22, <1>23, <1>24, <1>25, <1>26, <1>27, <1>28, <1>29, <1>30, <1>31, <1>32, <1>33
       DEF Next, ProcStep, CallStep, DialStep, SendStep, ReadStep


(***************************************************************************)
(* Registration, delivery and failure of pending calls.                    *)
(***************************************************************************)
SendInv == IdsInv /\ PendingInv /\ HandInv /\ RegisteredInv

\* What the lemmas below need of the types.
SendTypes ==
    /\ pc \in [Procs -> PcValues] /\ sid \in [Procs -> Nat] /\ seq \in Nat
    /\ ch \in [Procs -> Answers \cup {None}] /\ tgt \in [Procs -> Conns \cup {None}]
    /\ pending \in SUBSET Entries /\ hand \in [Conns -> Handing \cup {None}]
    /\ reader \in [Conns -> {"none", "reading", "exiting", "failed", "done"}]
    /\ nconn \in 0 .. MaxConns
    /\ inbox \in [Conns -> SUBSET [id : Nat, res : {"ok", "err", "big", "bad"}]]

\* The type facts that the lemmas about send use.
LEMMA TypesOfSend == TypeOK => SendTypes
  BY DEF TypeOK, TypeControl, TypeSend, TypeClient, TypeConn, SendTypes

\* A step that touches no registration.
Quiet ==
    /\ UNCHANGED <<pending, sid, ch, hand, seq>>
    /\ \A q \in Procs : sid[q] # 0 => tgt'[q] = tgt[q]
    /\ \A q \in Procs : pc'[q] \in {"write", "wait"} <=> pc[q] \in {"write", "wait"}
    /\ \A k \in Conns : reader'[k] \in {"failed", "done"} => reader[k] \in {"failed", "done"}
    /\ \A k \in Conns : hand[k] # None => reader'[k] = "reading"

\* A step that touches neither ids, channels, pending nor readers keeps SendInv.
LEMMA QuietPreserves == SendTypes /\ SendInv /\ Quiet => SendInv'
  <1> SUFFICES ASSUME SendTypes, SendInv, Quiet PROVE SendInv'
    OBVIOUS
  <1> USE DEF SendTypes
  <1>1. IdsInv'
    BY DEF SendInv, IdsInv, Quiet
  <1>2. PendingInv'
    <2> SUFFICES ASSUME NEW e \in pending
                 PROVE /\ e.id # 0 /\ e.id = sid[e.ch] /\ e.conn = tgt'[e.ch]
                       /\ ch[e.ch] = None /\ reader'[e.conn] \notin {"failed", "done"}
      BY DEF PendingInv, Quiet, closed
    <2>1. e.ch \in Procs /\ e.conn \in Conns
      BY DEF Entries
    <2>2. /\ e.id # 0 /\ e.id = sid[e.ch] /\ e.conn = tgt[e.ch] /\ ch[e.ch] = None
          /\ reader[e.conn] \notin {"failed", "done"}
      BY DEF SendInv, PendingInv, closed
    <2> QED
      BY <2>1, <2>2 DEF Quiet
  <1>3. HandInv'
    BY DEF SendInv, HandInv, Quiet, CanPut
  <1>4. RegisteredInv'
    BY DEF SendInv, RegisteredInv, Quiet
  <1> QED
    BY <1>1, <1>2, <1>3, <1>4 DEF SendInv

\* A registered send of p ends, whatever the reason.
Over(p) ==
    /\ sid[p] # 0
    /\ pending' = {e \in pending : e.id # sid[p]}
    /\ sid' = [sid EXCEPT ![p] = 0]
    /\ ch' = [ch EXCEPT ![p] = None]
    /\ \E v \in PcValues \ {"write", "wait"} : pc' = [pc EXCEPT ![p] = v]
    /\ UNCHANGED <<seq, hand, tgt, reader>>

\* A send that ends, and forgets its entry, keeps SendInv.
LEMMA OverPreserves ==
    ASSUME NEW p \in Procs, SendTypes, SendInv, Over(p) PROVE SendInv'
  <1> USE DEF SendTypes
  <1>1. IdsInv'
    BY DEF SendInv, IdsInv, Over
  <1>2. PendingInv'
    <2> SUFFICES ASSUME NEW e \in pending, e.id # sid[p]
                 PROVE /\ e.id # 0 /\ e.id = sid'[e.ch] /\ e.conn = tgt[e.ch]
                       /\ ch'[e.ch] = None /\ reader[e.conn] \notin {"failed", "done"}
      BY DEF PendingInv, Over, closed
    <2>1. e.ch \in Procs
      BY DEF Entries
    <2>2. /\ e.id # 0 /\ e.id = sid[e.ch] /\ e.conn = tgt[e.ch] /\ ch[e.ch] = None
          /\ reader[e.conn] \notin {"failed", "done"}
      BY DEF SendInv, PendingInv, closed
    <2>3. e.ch # p
      BY <2>2
    <2> QED
      BY <2>1, <2>2, <2>3 DEF Over
  <1>3. HandInv'
    BY DEF SendInv, HandInv, Over, CanPut
  <1>4. RegisteredInv'
    <2> SUFFICES ASSUME NEW q \in Procs, sid'[q] # 0
                 PROVE \/ ch'[q] # None
                       \/ \E k \in Conns : hand[k] # None /\ hand[k].id = sid'[q] /\ hand[k].ch = q
                       \/ [id |-> sid'[q], conn |-> tgt[q], ch |-> q] \in pending'
      BY DEF RegisteredInv, Over
    <2>1. q # p /\ sid'[q] = sid[q] /\ ch'[q] = ch[q] /\ sid[q] # sid[p]
      BY DEF Over, SendInv, IdsInv
    <2>2. CASE [id |-> sid[q], conn |-> tgt[q], ch |-> q] \in pending
      BY <2>1, <2>2 DEF Over
    <2> QED
      BY <2>1, <2>2 DEF SendInv, RegisteredInv
  <1> QED
    BY <1>1, <1>2, <1>3, <1>4 DEF SendInv

\* An entry with p's id is p's own: nothing is left of it once p has its answer.
LEMMA OwnEntry ==
    ASSUME NEW p \in Procs, SendTypes, SendInv, NEW e \in pending, e.id = sid[p]
    PROVE  e.ch = p /\ ch[p] = None /\ sid[p] # 0 /\ e.conn = tgt[p]
  <1>1. e.ch \in Procs
    BY DEF SendTypes, Entries
  <1>2. e.id # 0 /\ e.id = sid[e.ch] /\ ch[e.ch] = None /\ e.conn = tgt[e.ch]
    BY DEF SendInv, PendingInv
  <1>3. e.ch = p
    BY <1>1, <1>2 DEF SendInv, IdsInv
  <1> QED
    BY <1>2, <1>3

\* send's registration keeps SendInv.
LEMMA RegisterPreserves ==
    ASSUME NEW p \in Procs, SendTypes, Places, SendInv, Register(p) PROVE SendInv'
  <1> USE DEF SendTypes
  <1>0. sid[p] = 0 /\ ch[p] = None /\ tgt[p] \in Conns /\ pc[p] = "register"
    BY DEF Register, Places, SendInv, IdsInv
  <1>1. CASE closed(tgt[p])
    <2>1. /\ sid' = sid /\ ch' = ch /\ pending' = pending /\ seq' = seq + 1
          /\ UNCHANGED <<hand, tgt, reader>> /\ pc' = [pc EXCEPT ![p] = "return"]
      <3>1. /\ sid' = [sid EXCEPT ![p] = 0] /\ ch' = [ch EXCEPT ![p] = None]
            /\ pending' = pending /\ seq' = seq + 1
            /\ UNCHANGED <<hand, tgt, reader>> /\ pc' = [pc EXCEPT ![p] = "return"]
        BY <1>1 DEF Register, SendEnds, connVars
      <3>2. sid' = sid /\ ch' = ch
        BY <1>0, <3>1
      <3> QED
        BY <3>1, <3>2
    <2>2. IdsInv'
      BY <1>0, <2>1 DEF SendInv, IdsInv
    <2>3. PendingInv'
      BY <2>1 DEF SendInv, PendingInv, closed
    <2>4. HandInv'
      <3>1. ASSUME NEW k \in Conns, hand[k] # None PROVE hand[k].id \in Nat /\ hand[k].id <= seq + 1
        BY <3>1 DEF Handing, SendInv, HandInv
      <3> QED
        BY <2>1, <3>1 DEF SendInv, HandInv, CanPut
    <2>5. RegisteredInv'
      BY <2>1 DEF SendInv, RegisteredInv
    <2> QED
      BY <2>2, <2>3, <2>4, <2>5 DEF SendInv
  <1>2. CASE ~closed(tgt[p])
    <2> DEFINE r == [id |-> seq + 1, conn |-> tgt[p], ch |-> p]
    <2>1. /\ sid' = [sid EXCEPT ![p] = seq + 1] /\ ch' = ch /\ pending' = pending \cup {r}
          /\ seq' = seq + 1
          /\ UNCHANGED <<hand, tgt, reader>> /\ pc' = [pc EXCEPT ![p] = "write"]
      BY <1>2 DEF Register, connVars
    <2>2. IdsInv'
      BY <1>0, <2>1 DEF SendInv, IdsInv
    <2>3. ASSUME NEW e \in pending PROVE e.ch \in Procs /\ e.ch # p /\ e.id # seq + 1
      BY <1>0 DEF SendInv, PendingInv, IdsInv, Entries
    <2>4. PendingInv'
      <3> SUFFICES ASSUME NEW e \in pending'
                   PROVE /\ e.id # 0 /\ e.id = sid'[e.ch] /\ e.conn = tgt[e.ch]
                         /\ ch[e.ch] = None /\ reader[e.conn] \notin {"failed", "done"}
        BY <2>1 DEF PendingInv, closed
      <3>1. CASE e = r
        <4>1. e.id = seq + 1 /\ e.conn = tgt[p] /\ e.ch = p
          BY <3>1
        <4> QED
          BY <1>0, <1>2, <2>1, <4>1 DEF closed
      <3>2. CASE e \in pending
        <4>1. sid'[e.ch] = sid[e.ch]
          BY <2>1, <2>3, <3>2
        <4> QED
          BY <3>2, <4>1 DEF SendInv, PendingInv, closed
      <3> QED
        BY <2>1, <3>1, <3>2
    <2>5. HandInv'
      <3>1. ASSUME NEW k \in Conns, hand[k] # None
            PROVE hand[k].id \in Nat /\ hand[k].id <= seq /\ hand[k].ch \in Procs
        BY <3>1 DEF Handing, SendInv, HandInv
      <3>2. ASSUME NEW k \in Conns, hand[k] # None, NEW e \in pending' PROVE e.id # hand[k].id
        BY <2>1, <3>1, <3>2 DEF SendInv, HandInv
      <3>3. ASSUME NEW k \in Conns, hand[k] # None PROVE CanPut(hand[k].id, hand[k].ch)'
        <4>1. CanPut(hand[k].id, hand[k].ch)
          BY <3>3 DEF SendInv, HandInv
        <4>2. sid'[hand[k].ch] = hand[k].id => sid[hand[k].ch] = hand[k].id
          BY <2>1, <3>1, <3>3
        <4> QED
          BY <2>1, <4>1, <4>2 DEF CanPut
      <3> QED
        BY <2>1, <3>1, <3>2, <3>3 DEF SendInv, HandInv
    <2>6. RegisteredInv'
      BY <2>1 DEF SendInv, RegisteredInv
    <2> QED
      BY <2>2, <2>4, <2>5, <2>6 DEF SendInv
  <1> QED
    BY <1>1, <1>2


\* readMessages taking a message keeps SendInv.
LEMMA ReadPreserves ==
    ASSUME NEW k \in Conns, SendTypes, SendInv, ReadMessage(k) PROVE SendInv'
  <1> USE DEF SendTypes
  <1>1. PICK m \in inbox[k] : ReadOne(k, m)
    BY DEF ReadMessage
  <1>2. /\ UNCHANGED <<seq, pc, sid, ch, tgt>>
        /\ reader[k] = "reading" /\ hand[k] = None
    BY DEF ReadMessage, sendVars
  <1>3. CASE UNCHANGED <<pending, hand>>
    <2>1. reader' = reader \/ reader' = [reader EXCEPT ![k] = "exiting"]
      BY <1>1 DEF ReadOne
    <2>2. Quiet
      <3>1. ASSUME NEW j \in Conns
            PROVE /\ reader'[j] \in {"failed", "done"} => reader[j] \in {"failed", "done"}
                  /\ hand[j] # None => reader'[j] = "reading"
        BY <1>2, <2>1 DEF SendInv, HandInv
      <3> QED
        BY <1>2, <1>3, <3>1 DEF Quiet
    <2> QED
      BY <2>2, QuietPreserves
  <1>4. CASE \E e \in pending :
               /\ pending' = pending \ {e} /\ m.res # "bad"
               /\ hand' = [hand EXCEPT ![k] = [id |-> e.id, ch |-> e.ch, res |-> m.res]]
               /\ reader' = reader
    <2>1. PICK e \in pending :
               /\ pending' = pending \ {e} /\ m.res # "bad"
               /\ hand' = [hand EXCEPT ![k] = [id |-> e.id, ch |-> e.ch, res |-> m.res]]
               /\ reader' = reader
      BY <1>4
    <2>2. /\ e.ch \in Procs /\ e.id \in Nat /\ e.id # 0 /\ e.id <= seq /\ e.id = sid[e.ch]
          /\ ch[e.ch] = None /\ e.conn = tgt[e.ch]
      <3>1. e.ch \in Procs /\ e.id \in Nat
        BY DEF Entries
      <3> QED
        BY <3>1 DEF SendInv, PendingInv, IdsInv
    <2>3. /\ hand'[k] # None /\ hand'[k].id = e.id /\ hand'[k].ch = e.ch /\ hand'[k].res = m.res
          /\ \A j \in Conns : j # k => hand'[j] = hand[j]
      <3>1. hand'[k] = [id |-> e.id, ch |-> e.ch, res |-> m.res]
        BY <2>1
      <3>2. m.res \in Answers
        BY <2>1 DEF Answers
      <3>3. hand'[k] # None
        BY <2>2, <3>1, <3>2 DEF Handing
      <3> QED
        BY <2>1, <3>1, <3>3
    <2>4. IdsInv'
      BY <1>2 DEF SendInv, IdsInv
    <2>5. PendingInv'
      BY <1>2, <2>1 DEF SendInv, PendingInv, closed
    <2>6. ASSUME NEW f \in pending', NEW j \in Conns, hand'[j] # None PROVE f.id # hand'[j].id
      <3>1. f \in pending /\ f # e
        BY <2>1
      <3>2. CASE j = k
        <4> SUFFICES ASSUME f.id = e.id PROVE FALSE
          BY <2>3, <3>2
        <4>1. f.ch = e.ch /\ f.conn = e.conn
          BY <2>2, <3>1, OwnEntry
        <4>2. f = e
          BY <3>1, <4>1 DEF Entries
        <4> QED
          BY <3>1, <4>2
      <3> QED
        BY <2>3, <2>6, <3>1, <3>2 DEF SendInv, HandInv
    <2>7. ASSUME NEW i \in Conns, NEW j \in Conns, hand'[i] # None, hand'[j] # None,
                 hand'[i].id = hand'[j].id
          PROVE i = j
      BY <2>3, <2>7 DEF SendInv, HandInv
    <2>8. ASSUME NEW j \in Conns, hand'[j] # None
          PROVE /\ reader'[j] = "reading" /\ hand'[j].id # 0 /\ hand'[j].id <= seq'
                /\ hand'[j].res # "lost" /\ CanPut(hand'[j].id, hand'[j].ch)
      <3>1. CASE j = k
        <4>1. m.res # "lost"
          OBVIOUS
        <4> QED
          BY <1>2, <2>1, <2>2, <2>3, <3>1, <4>1 DEF CanPut
      <3>2. CASE j # k
        BY <1>2, <2>1, <2>3, <2>8, <3>2 DEF SendInv, HandInv
      <3> QED
        BY <3>1, <3>2
    <2>9. HandInv'
      BY <1>2, <2>6, <2>7, <2>8 DEF HandInv, CanPut
    <2>10. RegisteredInv'
      <3> SUFFICES ASSUME NEW q \in Procs, sid[q] # 0
                   PROVE \/ ch[q] # None
                         \/ \E j \in Conns : hand'[j] # None /\ hand'[j].id = sid[q] /\ hand'[j].ch = q
                         \/ [id |-> sid[q], conn |-> tgt[q], ch |-> q] \in pending'
        BY <1>2 DEF RegisteredInv
      <3>1. CASE \E j \in Conns : hand[j] # None /\ hand[j].id = sid[q] /\ hand[j].ch = q
        BY <1>2, <2>3, <3>1
      <3>2. CASE [id |-> sid[q], conn |-> tgt[q], ch |-> q] = e
        <4>1. e.id = sid[q] /\ e.ch = q
          BY <3>2
        <4> QED
          BY <2>3, <4>1
      <3> QED
        BY <2>1, <3>1, <3>2 DEF SendInv, RegisteredInv
    <2> QED
      BY <2>4, <2>5, <2>9, <2>10 DEF SendInv
  <1> QED
    BY <1>1, <1>3, <1>4 DEF ReadOne


\* deliver filling a channel keeps SendInv.
LEMMA DeliverPreserves ==
    ASSUME NEW k \in Conns, SendTypes, SendInv, Deliver(k) PROVE SendInv'
  <1> USE DEF SendTypes
  <1> DEFINE h == hand[k]
             c == h.ch
  <1>1. /\ h # None /\ h.id \in Nat /\ c \in Procs /\ h.res \in Answers
        /\ hand' = [hand EXCEPT ![k] = None]
        /\ ch' = IF sid[c] = h.id THEN [ch EXCEPT ![c] = h.res] ELSE ch
        /\ UNCHANGED <<pending, seq, pc, tgt, sid, reader>>
    BY DEF Deliver, Put, Handing, clientVars
  <1>2. h.id # 0 /\ h.id <= seq /\ \A e \in pending : e.id # h.id
    BY <1>1 DEF SendInv, HandInv
  <1>3. \A q \in Procs : ch'[q] # ch[q] => q = c /\ sid[q] = h.id
    BY <1>1
  <1>4. IdsInv'
    BY <1>1, <1>2, <1>3 DEF SendInv, IdsInv
  <1>5. PendingInv'
    <2> SUFFICES ASSUME NEW e \in pending
                 PROVE /\ e.id # 0 /\ e.id = sid[e.ch] /\ e.conn = tgt[e.ch]
                       /\ ch'[e.ch] = None /\ reader[e.conn] \notin {"failed", "done"}
      BY <1>1 DEF PendingInv, closed
    <2>1. /\ e.id # 0 /\ e.id = sid[e.ch] /\ e.conn = tgt[e.ch] /\ ch[e.ch] = None
          /\ reader[e.conn] \notin {"failed", "done"}
      BY DEF SendInv, PendingInv, closed
    <2>2. e.ch \in Procs
      BY DEF Entries
    <2>3. ch'[e.ch] = ch[e.ch]
      BY <1>2, <1>3, <2>1, <2>2
    <2> QED
      BY <2>1, <2>3
  <1>6. HandInv'
    <2>1. ASSUME NEW j \in Conns, hand'[j] # None
          PROVE hand'[j] = hand[j] /\ j # k /\ hand[j].ch \in Procs /\ hand[j].id # h.id
      <3>1. j # k /\ hand'[j] = hand[j]
        BY <1>1, <2>1
      <3> QED
        BY <1>1, <2>1, <3>1 DEF Handing, SendInv, HandInv
    <2>2. ASSUME NEW j \in Conns, hand'[j] # None PROVE CanPut(hand[j].id, hand[j].ch)'
      <3>1. CanPut(hand[j].id, hand[j].ch)
        BY <2>1, <2>2 DEF SendInv, HandInv
      <3>2. sid[hand[j].ch] = hand[j].id => ch'[hand[j].ch] = ch[hand[j].ch]
        BY <1>3, <2>1, <2>2
      <3>3. hand'[j] = hand[j] /\ sid' = sid
        BY <1>1, <2>1, <2>2
      <3> QED
        BY <3>1, <3>2, <3>3 DEF CanPut
    <2> QED
      BY <1>1, <2>1, <2>2 DEF SendInv, HandInv
  <1>7. RegisteredInv'
    <2> SUFFICES ASSUME NEW q \in Procs, sid[q] # 0
                 PROVE \/ ch'[q] # None
                       \/ \E j \in Conns : hand'[j] # None /\ hand'[j].id = sid[q] /\ hand'[j].ch = q
                       \/ [id |-> sid[q], conn |-> tgt[q], ch |-> q] \in pending
      BY <1>1 DEF RegisteredInv
    <2>1. CASE ch[q] # None
      BY <1>1, <2>1
    <2>2. CASE \E j \in Conns : hand[j] # None /\ hand[j].id = sid[q] /\ hand[j].ch = q
      <3>1. PICK j \in Conns : hand[j] # None /\ hand[j].id = sid[q] /\ hand[j].ch = q
        BY <2>2
      <3>2. CASE j = k
        BY <1>1, <3>1, <3>2
      <3>3. CASE j # k
        BY <1>1, <3>1, <3>3
      <3> QED
        BY <3>2, <3>3
    <2> QED
      BY <2>1, <2>2 DEF SendInv, RegisteredInv
  <1> QED
    BY <1>4, <1>5, <1>6, <1>7 DEF SendInv

\* failPending keeps SendInv.
LEMMA FailPreserves ==
    ASSUME NEW k \in Conns, SendTypes, SendInv, failPending(k) PROVE SendInv'
  <1> USE DEF SendTypes
  <1> DEFINE lost == {e \in pending : e.conn = k}
             Hit(q) == \E e \in lost : e.ch = q /\ e.id = sid[q]
  <1>1. /\ reader[k] = "exiting"
        /\ ch' = [q \in Procs |-> IF Hit(q) THEN "lost" ELSE ch[q]]
        /\ pending' = pending \ lost
        /\ reader' = [reader EXCEPT ![k] = "failed"]
        /\ UNCHANGED <<seq, pc, tgt, sid, hand>>
    BY DEF failPending
  <1>2. ASSUME NEW e \in pending
        PROVE /\ e.ch \in Procs /\ e.conn \in Conns /\ e.id # 0 /\ e.id = sid[e.ch]
              /\ e.conn = tgt[e.ch] /\ ch[e.ch] = None /\ reader[e.conn] \notin {"failed", "done"}
    <2>1. e.ch \in Procs /\ e.conn \in Conns
      BY DEF Entries
    <2> QED
      BY <2>1 DEF SendInv, PendingInv, closed
  <1>3. \A q \in Procs : Hit(q) => sid[q] # 0 /\ tgt[q] = k
    BY <1>2
  <1>4. "lost" # None
    BY DEF Answers
  <1>5. IdsInv'
    BY <1>1, <1>3 DEF SendInv, IdsInv
  <1>6. PendingInv'
    <2> SUFFICES ASSUME NEW e \in pending, e.conn # k
                 PROVE /\ e.id # 0 /\ e.id = sid[e.ch] /\ e.conn = tgt[e.ch]
                       /\ ch'[e.ch] = None /\ reader'[e.conn] \notin {"failed", "done"}
      BY <1>1 DEF PendingInv, closed
    <2>1. ~Hit(e.ch)
      BY <1>2, <1>3
    <2> QED
      BY <1>1, <1>2, <2>1
  <1>7. HandInv'
    <2>1. ASSUME NEW j \in Conns, hand[j] # None
          PROVE /\ reader'[j] = "reading" /\ CanPut(hand[j].id, hand[j].ch)'
                /\ \A e \in pending' : e.id # hand[j].id
      <3>1. reader[j] = "reading" /\ j # k /\ hand[j].ch \in Procs
        BY <1>1, <2>1 DEF Handing, SendInv, HandInv
      <3>2. CanPut(hand[j].id, hand[j].ch) /\ \A e \in pending : e.id # hand[j].id
        BY <2>1 DEF SendInv, HandInv
      <3>3. sid[hand[j].ch] = hand[j].id => ~Hit(hand[j].ch)
        BY <3>2
      <3>4. CanPut(hand[j].id, hand[j].ch)'
        BY <1>1, <3>1, <3>2, <3>3 DEF CanPut
      <3> QED
        BY <1>1, <3>1, <3>2, <3>4
    <2> QED
      BY <1>1, <2>1 DEF SendInv, HandInv
  <1>8. RegisteredInv'
    <2> SUFFICES ASSUME NEW q \in Procs, sid[q] # 0
                 PROVE \/ ch'[q] # None
                       \/ \E j \in Conns : hand[j] # None /\ hand[j].id = sid[q] /\ hand[j].ch = q
                       \/ [id |-> sid[q], conn |-> tgt[q], ch |-> q] \in pending'
      BY <1>1 DEF RegisteredInv
    <2>1. CASE Hit(q)
      BY <1>1, <1>4, <2>1
    <2>2. CASE ~Hit(q) /\ [id |-> sid[q], conn |-> tgt[q], ch |-> q] \in pending
      BY <1>1, <2>2
    <2> QED
      BY <1>1, <2>1, <2>2 DEF SendInv, RegisteredInv
  <1> QED
    BY <1>5, <1>6, <1>7, <1>8 DEF SendInv

\* Every step of the client keeps the invariants about ids, entries and channels.
LEMMA NextSendInv == TypeOK /\ Places /\ SendInv /\ [Next]_vars => SendInv'
  <1> SUFFICES ASSUME TypeOK, Places, SendInv, [Next]_vars PROVE SendInv'
    OBVIOUS
  <1> USE DEF SendTypes, clientVars, sendVars, loopVars, connVars, serverVars, boundVars
  <1>0. /\ SendTypes /\ SendInv /\ Places
        /\ \A q \in Procs : sid[q] # 0 <=> pc[q] \in {"write", "wait"}
        /\ \A j \in Conns : hand[j] # None => reader[j] = "reading"
    BY TypesOfSend DEF SendInv, IdsInv, HandInv
  <1>1. ASSUME NEW p \in Procs, Acquire(p) PROVE SendInv'
    <2>1. Quiet
      BY <1>0, <1>1 DEF Acquire, Quiet
    <2> QED
      BY <2>1, <1>0, QuietPreserves
  <1>2. ASSUME NEW p \in Procs, AcquireCancelled(p) PROVE SendInv'
    <2>1. Quiet
      BY <1>0, <1>2 DEF AcquireCancelled, Returns, LoopsEnd, Quiet
    <2> QED
      BY <2>1, <1>0, QuietPreserves
  <1>3. ASSUME NEW p \in Procs, Lookup(p) PROVE SendInv'
    <2>1. Quiet
      BY <1>0, <1>3 DEF Lookup, SendOn, Quiet
    <2> QED
      BY <2>1, <1>0, QuietPreserves
  <1>4. ASSUME NEW p \in Procs, Reconnect(p) PROVE SendInv'
    <2>1. Quiet
      BY <1>0, <1>4 DEF Reconnect, Quiet
    <2> QED
      BY <2>1, <1>0, QuietPreserves
  <1>5. ASSUME NEW p \in Procs, Relook(p) PROVE SendInv'
    <2>1. Quiet
      BY <1>0, <1>5 DEF Relook, SendOn, LoopsEnd, Returns, Quiet
    <2> QED
      BY <2>1, <1>0, QuietPreserves
  <1>6. ASSUME NEW p \in Procs, Backoff(p) PROVE SendInv'
    <2>1. Quiet
      BY <1>0, <1>6 DEF Backoff, Returns, LoopsEnd, Quiet
    <2> QED
      BY <2>1, <1>0, QuietPreserves
  <1>7. ASSUME NEW p \in Procs, OpenOK(p) PROVE SendInv'
    <2>1. Quiet
      BY <1>0, <1>7 DEF OpenOK, SendOn, Quiet
    <2> QED
      BY <2>1, <1>0, QuietPreserves
  <1>8. ASSUME NEW p \in Procs, OpenFails(p) PROVE SendInv'
    <2>1. Quiet
      BY <1>0, <1>8 DEF OpenFails, Quiet
    <2> QED
      BY <2>1, <1>0, QuietPreserves
  <1>9. ASSUME NEW p \in Procs, Publish(p) PROVE SendInv'
    <2>1. Quiet
      BY <1>0, <1>9 DEF Publish, ClosedDuringAuth, Quiet
    <2> QED
      BY <2>1, <1>0, QuietPreserves
  <1>10. ASSUME NEW p \in Procs, AuthFails(p) PROVE SendInv'
    <2>1. Quiet
      BY <1>0, <1>10 DEF AuthFails, ClosedDuringAuth, Sever, Quiet
    <2> QED
      BY <2>1, <1>0, QuietPreserves
  <1>11. ASSUME NEW p \in Procs, DialBackoff(p) PROVE SendInv'
    <2>1. Quiet
      BY <1>0, <1>11 DEF DialBackoff, Quiet
    <2> QED
      BY <2>1, <1>0, QuietPreserves
  <1>12. ASSUME NEW p \in Procs, ReconnectReturns(p) PROVE SendInv'
    <2>1. Quiet
      BY <1>0, <1>12 DEF ReconnectReturns, Quiet
    <2> QED
      BY <2>1, <1>0, QuietPreserves
  <1>13. ASSUME NEW p \in Procs, Register(p) PROVE SendInv'
    BY <1>0, <1>13, RegisterPreserves
  <1>14. ASSUME NEW p \in Procs, WriteOK(p) PROVE SendInv'
    <2>1. Quiet
      BY <1>0, <1>14 DEF WriteOK, op, Quiet
    <2> QED
      BY <2>1, <1>0, QuietPreserves
  <1>15. ASSUME NEW p \in Procs, WriteFails(p) PROVE SendInv'
    <2>1. Over(p)
      BY <1>0, <1>15 DEF WriteFails, forget, SendEnds, Over, PcValues
    <2> QED
      BY <2>1, <1>0, OverPreserves
  <1>16. ASSUME NEW p \in Procs, Receive(p) PROVE SendInv'
    <2>1. sid[p] # 0 /\ pending = {e \in pending : e.id # sid[p]}
      BY <1>0, <1>16, OwnEntry DEF Receive
    <2>2. Over(p)
      BY <1>16, <2>1 DEF Receive, SendEnds, Over, PcValues
    <2> QED
      BY <2>2, <1>0, OverPreserves
  <1>17. ASSUME NEW p \in Procs, WaitCancelled(p) PROVE SendInv'
    <2>1. Over(p)
      BY <1>0, <1>17 DEF WaitCancelled, forget, SendEnds, Over, PcValues
    <2> QED
      BY <2>1, <1>0, OverPreserves
  <1>18. ASSUME NEW p \in Procs, WaitTimesOut(p) PROVE SendInv'
    <2>1. Over(p)
      BY <1>0, <1>18 DEF WaitTimesOut, forget, Over, PcValues
    <2> QED
      BY <2>1, <1>0, OverPreserves
  <1>19. ASSUME NEW p \in Procs, PingReturns(p) PROVE SendInv'
    <2>1. Quiet
      BY <1>0, <1>19 DEF PingReturns, Sever, Quiet
    <2> QED
      BY <2>1, <1>0, QuietPreserves
  <1>20. ASSUME NEW p \in Procs, SendReturns(p) PROVE SendInv'
    <2>1. Quiet
      BY <1>0, <1>20 DEF SendReturns, Returns, LoopsEnd, Quiet
    <2> QED
      BY <2>1, <1>0, QuietPreserves
  <1>21. ASSUME NEW p \in Procs, Cancel(p) PROVE SendInv'
    <2>1. Quiet
      BY <1>0, <1>21 DEF Cancel, Quiet
    <2> QED
      BY <2>1, <1>0, QuietPreserves
  <1>22. ASSUME ConnectReturns PROVE SendInv'
    <2>1. Quiet
      BY <1>0, <1>22 DEF ConnectReturns, Returns, LoopsEnd, Quiet
    <2> QED
      BY <2>1, <1>0, QuietPreserves
  <1>23. ASSUME KeepaliveTick PROVE SendInv'
    <2>1. Quiet
      BY <1>0, <1>23 DEF KeepaliveTick, Quiet
    <2> QED
      BY <2>1, <1>0, QuietPreserves
  <1>24. ASSUME KeepaliveReturns PROVE SendInv'
    <2>1. Quiet
      BY <1>0, <1>24 DEF KeepaliveReturns, Returns, LoopsEnd, Quiet
    <2> QED
      BY <2>1, <1>0, QuietPreserves
  <1>25. ASSUME Close PROVE SendInv'
    <2>1. Quiet
      BY <1>0, <1>25 DEF Close, Sever, Quiet
    <2> QED
      BY <2>1, <1>0, QuietPreserves
  <1>26. ASSUME NEW k \in Conns, ReadMessage(k) PROVE SendInv'
    BY <1>0, <1>26, ReadPreserves
  <1>27. ASSUME NEW k \in Conns, Deliver(k) PROVE SendInv'
    BY <1>0, <1>27, DeliverPreserves
  <1>28. ASSUME NEW k \in Conns, ReadFails(k) PROVE SendInv'
    <2>1. Quiet
      BY <1>0, <1>28 DEF ReadFails, Quiet
    <2> QED
      BY <2>1, <1>0, QuietPreserves
  <1>29. ASSUME NEW k \in Conns, failPending(k) PROVE SendInv'
    BY <1>0, <1>29, FailPreserves
  <1>30. ASSUME NEW k \in Conns, ReaderDone(k) PROVE SendInv'
    <2>1. Quiet
      BY <1>0, <1>30 DEF ReaderDone, Quiet
    <2> QED
      BY <2>1, <1>0, QuietPreserves
  <1>31. ASSUME NEW k \in Conns, ServerExecutes(k) PROVE SendInv'
    <2>1. Quiet
      BY <1>0, <1>31 DEF ServerExecutes, Quiet
    <2> QED
      BY <2>1, <1>0, QuietPreserves
  <1>32. ASSUME NEW k \in Conns, ServerDrops(k) PROVE SendInv'
    <2>1. Quiet
      BY <1>0, <1>32 DEF ServerDrops, Sever, Quiet
    <2> QED
      BY <2>1, <1>0, QuietPreserves
  <1>33. ASSUME UNCHANGED vars PROVE SendInv'
    <2>1. Quiet
      BY <1>0, <1>33 DEF vars, Quiet
    <2> QED
      BY <2>1, <1>0, QuietPreserves
  <1> QED
    BY <1>1, <1>2, <1>3, <1>4, <1>5, <1>6, <1>7, <1>8, <1>9, <1>10, <1>11, <1>12, <1>13, <1>14, <1>15, <1>16, <1>17, <1>18, <1>19, <1>20, <1>21, <1>22, <1>23, <1>24, <1>25, <1>26, <1>27, <1>28, <1>29, <1>30, <1>31, <1>32, <1>33
       DEF Next, ProcStep, CallStep, DialStep, SendStep, ReadStep

\* Every step keeps the invariant about the order of websockets.
LEMMA NextConn == TypeOK /\ Places /\ ConnInv /\ [Next]_vars => ConnInv'
  <1> SUFFICES ASSUME TypeOK, Places, ConnInv, [Next]_vars PROVE ConnInv'
    OBVIOUS
  <1> USE DEF ConnInv, Places, clientVars, sendVars, loopVars, connVars, serverVars, boundVars
  <1>0. /\ reader \in [Conns -> {"none", "reading", "exiting", "failed", "done"}]
        /\ wire \in [Conns -> SUBSET [id : Nat, op : Callers \cup {"auth", "ping"}]]
        /\ inbox \in [Conns -> SUBSET [id : Nat, res : {"ok", "err", "big", "bad"}]]
        /\ nconn \in 0 .. MaxConns /\ conn \in Conns \cup {None}
        /\ tgt \in [Procs -> Conns \cup {None}] /\ pc \in [Procs -> PcValues]
    BY DEF TypeOK, TypeControl, TypeSend, TypeClient, TypeConn
  <1>1. ASSUME NEW p \in Procs, Acquire(p) PROVE ConnInv'
    BY <1>0, <1>1 DEF Acquire
  <1>2. ASSUME NEW p \in Procs, AcquireCancelled(p) PROVE ConnInv'
    BY <1>0, <1>2 DEF AcquireCancelled, Returns, LoopsEnd
  <1>3. ASSUME NEW p \in Procs, Lookup(p) PROVE ConnInv'
    BY <1>0, <1>3 DEF Lookup, SendOn
  <1>4. ASSUME NEW p \in Procs, Reconnect(p) PROVE ConnInv'
    BY <1>0, <1>4 DEF Reconnect
  <1>5. ASSUME NEW p \in Procs, Relook(p) PROVE ConnInv'
    BY <1>0, <1>5 DEF Relook, SendOn, LoopsEnd, Returns
  <1>6. ASSUME NEW p \in Procs, Backoff(p) PROVE ConnInv'
    BY <1>0, <1>6 DEF Backoff, Returns, LoopsEnd
  <1>7. ASSUME NEW p \in Procs, OpenOK(p) PROVE ConnInv'
    <2> DEFINE n == nconn + 1
    <2>1. n \in Conns /\ n \in Nat /\ nconn \in Nat /\ nconn < MaxConns
      BY <1>0, <1>7 DEF OpenOK
    <2>2. /\ nconn' = n /\ reader' = [reader EXCEPT ![n] = "reading"]
          /\ tgt' = [tgt EXCEPT ![p] = n]
          /\ UNCHANGED <<conn, wire, inbox>>
      BY <1>7 DEF OpenOK, SendOn
    <2>3. \A k \in Conns : k \in Nat
      BY <1>0
    <2>4. \A k \in Conns : reader'[k] = "none" <=> k > nconn'
      <3> SUFFICES ASSUME NEW k \in Conns PROVE reader'[k] = "none" <=> k > n
        BY <2>2
      <3>1. CASE k = n
        BY <1>0, <2>1, <2>2, <3>1
      <3>2. CASE k # n
        BY <1>0, <2>1, <2>2, <2>3, <3>2
      <3> QED
        BY <3>1, <3>2
    <2>5. \A k \in Conns : k > nconn' => wire'[k] = {} /\ inbox'[k] = {}
      BY <2>1, <2>2, <2>3
    <2>6. \A q \in Procs : tgt'[q] # None => tgt'[q] <= nconn'
      <3> SUFFICES ASSUME NEW q \in Procs, tgt'[q] # None PROVE tgt'[q] <= n
        BY <2>2
      <3>1. CASE q = p
        BY <1>0, <2>1, <2>2, <3>1
      <3>2. CASE q # p
        <4>1. tgt'[q] = tgt[q] /\ tgt[q] \in Conns
          BY <1>0, <2>2, <3>2
        <4>2. tgt[q] <= nconn /\ tgt[q] \in Nat
          BY <2>3, <4>1
        <4> QED
          BY <2>1, <4>1, <4>2
      <3> QED
        BY <3>1, <3>2
    <2>7. conn' # None => reader'[conn'] \notin {"none", "done"}
      BY <1>0, <2>1, <2>2
    <2> QED
      BY <2>4, <2>5, <2>6, <2>7
  <1>8. ASSUME NEW p \in Procs, OpenFails(p) PROVE ConnInv'
    BY <1>0, <1>8 DEF OpenFails
  <1>9. ASSUME NEW p \in Procs, Publish(p) PROVE ConnInv'
    <2>1. tgt[p] \in Conns /\ tgt[p] <= nconn
      BY <1>0, <1>9 DEF Publish
    <2>2. reader[tgt[p]] # "none"
      <3>1. tgt[p] \in Nat
        BY <1>0, <2>1
      <3>2. nconn \in Nat
        BY <1>0
      <3> QED
        BY <2>1, <3>1, <3>2
    <2> QED
      BY <1>0, <1>9, <2>1, <2>2 DEF Publish
  <1>10. ASSUME NEW p \in Procs, AuthFails(p) PROVE ConnInv'
    BY <1>0, <1>10 DEF AuthFails, ClosedDuringAuth, Sever
  <1>11. ASSUME NEW p \in Procs, DialBackoff(p) PROVE ConnInv'
    BY <1>0, <1>11 DEF DialBackoff
  <1>12. ASSUME NEW p \in Procs, ReconnectReturns(p) PROVE ConnInv'
    BY <1>0, <1>12 DEF ReconnectReturns
  <1>13. ASSUME NEW p \in Procs, Register(p) PROVE ConnInv'
    BY <1>0, <1>13 DEF Register, SendEnds
  <1>14. ASSUME NEW p \in Procs, WriteOK(p) PROVE ConnInv'
    BY <1>0, <1>14 DEF WriteOK, op
  <1>15. ASSUME NEW p \in Procs, WriteFails(p) PROVE ConnInv'
    BY <1>0, <1>15 DEF WriteFails, forget, SendEnds
  <1>16. ASSUME NEW p \in Procs, Receive(p) PROVE ConnInv'
    BY <1>0, <1>16 DEF Receive, SendEnds
  <1>17. ASSUME NEW p \in Procs, WaitCancelled(p) PROVE ConnInv'
    BY <1>0, <1>17 DEF WaitCancelled, forget, SendEnds
  <1>18. ASSUME NEW p \in Procs, WaitTimesOut(p) PROVE ConnInv'
    BY <1>0, <1>18 DEF WaitTimesOut, forget
  <1>19. ASSUME NEW p \in Procs, PingReturns(p) PROVE ConnInv'
    BY <1>0, <1>19 DEF PingReturns, Sever
  <1>20. ASSUME NEW p \in Procs, SendReturns(p) PROVE ConnInv'
    BY <1>0, <1>20 DEF SendReturns, Returns, LoopsEnd
  <1>21. ASSUME NEW p \in Procs, Cancel(p) PROVE ConnInv'
    BY <1>0, <1>21 DEF Cancel
  <1>22. ASSUME ConnectReturns PROVE ConnInv'
    BY <1>0, <1>22 DEF ConnectReturns, Returns, LoopsEnd
  <1>23. ASSUME KeepaliveTick PROVE ConnInv'
    <2>1. conn \in Conns /\ conn <= nconn
      BY <1>0, <1>23 DEF KeepaliveTick
    <2> QED
      BY <1>0, <1>23, <2>1 DEF KeepaliveTick
  <1>24. ASSUME KeepaliveReturns PROVE ConnInv'
    BY <1>0, <1>24 DEF KeepaliveReturns, Returns, LoopsEnd
  <1>25. ASSUME Close PROVE ConnInv'
    BY <1>0, <1>25 DEF Close, Sever
  <1>26. ASSUME NEW k \in Conns, ReadMessage(k) PROVE ConnInv'
    BY <1>0, <1>26 DEF ReadMessage, ReadOne
  <1>27. ASSUME NEW k \in Conns, Deliver(k) PROVE ConnInv'
    BY <1>0, <1>27 DEF Deliver, Put
  <1>28. ASSUME NEW k \in Conns, ReadFails(k) PROVE ConnInv'
    BY <1>0, <1>28 DEF ReadFails
  <1>29. ASSUME NEW k \in Conns, failPending(k) PROVE ConnInv'
    BY <1>0, <1>29 DEF failPending
  <1>30. ASSUME NEW k \in Conns, ReaderDone(k) PROVE ConnInv'
    BY <1>0, <1>30 DEF ReaderDone
  <1>31. ASSUME NEW k \in Conns, ServerExecutes(k) PROVE ConnInv'
    BY <1>0, <1>31 DEF ServerExecutes
  <1>32. ASSUME NEW k \in Conns, ServerDrops(k) PROVE ConnInv'
    BY <1>0, <1>32 DEF ServerDrops, Sever
  <1>33. ASSUME UNCHANGED vars PROVE ConnInv'
    BY <1>0, <1>33 DEF vars
  <1> QED
    BY <1>1, <1>2, <1>3, <1>4, <1>5, <1>6, <1>7, <1>8, <1>9, <1>10, <1>11, <1>12, <1>13, <1>14, <1>15, <1>16, <1>17, <1>18, <1>19, <1>20, <1>21, <1>22, <1>23, <1>24, <1>25, <1>26, <1>27, <1>28, <1>29, <1>30, <1>31, <1>32, <1>33
       DEF Next, ProcStep, CallStep, DialStep, SendStep, ReadStep

\* Every step keeps the invariant that who dials is alone.
LEMMA NextDial == TypeOK /\ Places /\ DialInv /\ [Next]_vars => DialInv'
  <1> SUFFICES ASSUME TypeOK, Places, DialInv, [Next]_vars PROVE DialInv'
    OBVIOUS
  <1> USE DEF DialInv, Dialing, Opened, Ready, Places, clientVars, sendVars, loopVars, connVars, serverVars, boundVars
  <1>0. /\ pc \in [Procs -> PcValues] /\ conn \in Conns \cup {None}
        /\ rerr \in [Procs -> {"nil", "dial", "closed", "auth", "ctx"}]
        /\ role \in [Procs -> {"none", "call", "auth", "keepalive", "pingcall", "pingauth"}]
        /\ tgt \in [Procs -> Conns \cup {None}] /\ reMu \in Procs \cup {None}
    BY DEF TypeOK, TypeControl, TypeSend, TypeClient
  <1>1. ASSUME NEW p \in Procs, Acquire(p) PROVE DialInv'
    BY <1>0, <1>1 DEF Acquire
  <1>2. ASSUME NEW p \in Procs, AcquireCancelled(p) PROVE DialInv'
    BY <1>0, <1>2 DEF AcquireCancelled, Returns, LoopsEnd
  <1>3. ASSUME NEW p \in Procs, Lookup(p) PROVE DialInv'
    BY <1>0, <1>3 DEF Lookup, SendOn
  <1>4. ASSUME NEW p \in Procs, Reconnect(p) PROVE DialInv'
    BY <1>0, <1>4 DEF Reconnect
  <1>5. ASSUME NEW p \in Procs, Relook(p) PROVE DialInv'
    BY <1>0, <1>5 DEF Relook, SendOn, LoopsEnd, Returns
  <1>6. ASSUME NEW p \in Procs, Backoff(p) PROVE DialInv'
    BY <1>0, <1>6 DEF Backoff, Returns, LoopsEnd
  <1>7. ASSUME NEW p \in Procs, OpenOK(p) PROVE DialInv'
    BY <1>0, <1>7 DEF OpenOK, SendOn
  <1>8. ASSUME NEW p \in Procs, OpenFails(p) PROVE DialInv'
    BY <1>0, <1>8 DEF OpenFails
  <1>9. ASSUME NEW p \in Procs, Publish(p) PROVE DialInv'
    BY <1>0, <1>9 DEF Publish, ClosedDuringAuth
  <1>10. ASSUME NEW p \in Procs, AuthFails(p) PROVE DialInv'
    BY <1>0, <1>10 DEF AuthFails, ClosedDuringAuth, Sever
  <1>11. ASSUME NEW p \in Procs, DialBackoff(p) PROVE DialInv'
    BY <1>0, <1>11 DEF DialBackoff
  <1>12. ASSUME NEW p \in Procs, ReconnectReturns(p) PROVE DialInv'
    BY <1>0, <1>12 DEF ReconnectReturns
  <1>13. ASSUME NEW p \in Procs, Register(p) PROVE DialInv'
    BY <1>0, <1>13 DEF Register, SendEnds
  <1>14. ASSUME NEW p \in Procs, WriteOK(p) PROVE DialInv'
    BY <1>0, <1>14 DEF WriteOK, op
  <1>15. ASSUME NEW p \in Procs, WriteFails(p) PROVE DialInv'
    BY <1>0, <1>15 DEF WriteFails, forget, SendEnds
  <1>16. ASSUME NEW p \in Procs, Receive(p) PROVE DialInv'
    BY <1>0, <1>16 DEF Receive, SendEnds
  <1>17. ASSUME NEW p \in Procs, WaitCancelled(p) PROVE DialInv'
    BY <1>0, <1>17 DEF WaitCancelled, forget, SendEnds
  <1>18. ASSUME NEW p \in Procs, WaitTimesOut(p) PROVE DialInv'
    BY <1>0, <1>18 DEF WaitTimesOut, forget
  <1>19. ASSUME NEW p \in Procs, PingReturns(p) PROVE DialInv'
    BY <1>0, <1>19 DEF PingReturns, Sever
  <1>20. ASSUME NEW p \in Procs, SendReturns(p) PROVE DialInv'
    BY <1>0, <1>20 DEF SendReturns, Returns, LoopsEnd
  <1>21. ASSUME NEW p \in Procs, Cancel(p) PROVE DialInv'
    BY <1>0, <1>21 DEF Cancel
  <1>22. ASSUME ConnectReturns PROVE DialInv'
    BY <1>0, <1>22 DEF ConnectReturns, Returns, LoopsEnd
  <1>23. ASSUME KeepaliveTick PROVE DialInv'
    BY <1>0, <1>23 DEF KeepaliveTick
  <1>24. ASSUME KeepaliveReturns PROVE DialInv'
    BY <1>0, <1>24 DEF KeepaliveReturns, Returns, LoopsEnd
  <1>25. ASSUME Close PROVE DialInv'
    BY <1>0, <1>25 DEF Close, Sever
  <1>26. ASSUME NEW k \in Conns, ReadMessage(k) PROVE DialInv'
    BY <1>0, <1>26 DEF ReadMessage, ReadOne
  <1>27. ASSUME NEW k \in Conns, Deliver(k) PROVE DialInv'
    BY <1>0, <1>27 DEF Deliver, Put
  <1>28. ASSUME NEW k \in Conns, ReadFails(k) PROVE DialInv'
    BY <1>0, <1>28 DEF ReadFails
  <1>29. ASSUME NEW k \in Conns, failPending(k) PROVE DialInv'
    BY <1>0, <1>29 DEF failPending
  <1>30. ASSUME NEW k \in Conns, ReaderDone(k) PROVE DialInv'
    BY <1>0, <1>30 DEF ReaderDone
  <1>31. ASSUME NEW k \in Conns, ServerExecutes(k) PROVE DialInv'
    BY <1>0, <1>31 DEF ServerExecutes
  <1>32. ASSUME NEW k \in Conns, ServerDrops(k) PROVE DialInv'
    BY <1>0, <1>32 DEF ServerDrops, Sever
  <1>33. ASSUME UNCHANGED vars PROVE DialInv'
    BY <1>0, <1>33 DEF vars
  <1> QED
    BY <1>1, <1>2, <1>3, <1>4, <1>5, <1>6, <1>7, <1>8, <1>9, <1>10, <1>11, <1>12, <1>13, <1>14, <1>15, <1>16, <1>17, <1>18, <1>19, <1>20, <1>21, <1>22, <1>23, <1>24, <1>25, <1>26, <1>27, <1>28, <1>29, <1>30, <1>31, <1>32, <1>33
       DEF Next, ProcStep, CallStep, DialStep, SendStep, ReadStep

\* Every step keeps the invariant that an open, read websocket is somebody's.
LEMMA NextLive == TypeOK /\ Places /\ DialInv /\ LiveInv /\ [Next]_vars => LiveInv'
  <1> SUFFICES ASSUME TypeOK, Places, DialInv, LiveInv, [Next]_vars PROVE LiveInv'
    OBVIOUS
  <1> USE DEF LiveInv, Opened, Places, clientVars, sendVars, loopVars, connVars, serverVars, boundVars
  <1>0. /\ pc \in [Procs -> PcValues] /\ conn \in Conns \cup {None}
        /\ role \in [Procs -> {"none", "call", "auth", "keepalive", "pingcall", "pingauth"}]
        /\ tgt \in [Procs -> Conns \cup {None}] /\ nconn \in 0 .. MaxConns
        /\ reader \in [Conns -> {"none", "reading", "exiting", "failed", "done"}]
        /\ link \in [Conns -> {"none", "up", "wbroken", "down"}]
    BY DEF TypeOK, TypeControl, TypeSend, TypeClient, TypeConn
  <1>1. ASSUME NEW p \in Procs, Acquire(p) PROVE LiveInv'
    BY <1>0, <1>1 DEF Acquire
  <1>2. ASSUME NEW p \in Procs, AcquireCancelled(p) PROVE LiveInv'
    BY <1>0, <1>2 DEF AcquireCancelled, Returns, LoopsEnd
  <1>3. ASSUME NEW p \in Procs, Lookup(p) PROVE LiveInv'
    BY <1>0, <1>3 DEF Lookup, SendOn
  <1>4. ASSUME NEW p \in Procs, Reconnect(p) PROVE LiveInv'
    BY <1>0, <1>4 DEF Reconnect
  <1>5. ASSUME NEW p \in Procs, Relook(p) PROVE LiveInv'
    BY <1>0, <1>5 DEF Relook, SendOn, LoopsEnd, Returns
  <1>6. ASSUME NEW p \in Procs, Backoff(p) PROVE LiveInv'
    BY <1>0, <1>6 DEF Backoff, Returns, LoopsEnd
  <1>7. ASSUME NEW p \in Procs, OpenOK(p) PROVE LiveInv'
    BY <1>0, <1>7 DEF OpenOK, SendOn
  <1>8. ASSUME NEW p \in Procs, OpenFails(p) PROVE LiveInv'
    BY <1>0, <1>8 DEF OpenFails
  <1>9. ASSUME NEW p \in Procs, Publish(p) PROVE LiveInv'
    <2>1. conn = None /\ tgt[p] \in Conns
      BY <1>0, <1>9 DEF Publish, DialInv, Dialing
    <2>2. UNCHANGED <<reader, link, tgt, role>> /\ \A q \in Procs : q # p => pc'[q] = pc[q]
      BY <1>0, <1>9 DEF Publish, ClosedDuringAuth
    <2>3. CASE reader[tgt[p]] = "done"
      <3>1. conn' = conn
        BY <1>9, <2>3 DEF Publish
      <3> QED
        BY <1>0, <2>1, <2>2, <2>3, <3>1
    <2>4. CASE reader[tgt[p]] # "done"
      <3>1. conn' = tgt[p]
        BY <1>9, <2>4 DEF Publish
      <3> QED
        BY <1>0, <2>1, <2>2, <3>1
    <2> QED
      BY <2>3, <2>4
  <1>10. ASSUME NEW p \in Procs, AuthFails(p) PROVE LiveInv'
    BY <1>0, <1>10 DEF AuthFails, ClosedDuringAuth, Sever
  <1>11. ASSUME NEW p \in Procs, DialBackoff(p) PROVE LiveInv'
    BY <1>0, <1>11 DEF DialBackoff
  <1>12. ASSUME NEW p \in Procs, ReconnectReturns(p) PROVE LiveInv'
    BY <1>0, <1>12 DEF ReconnectReturns
  <1>13. ASSUME NEW p \in Procs, Register(p) PROVE LiveInv'
    BY <1>0, <1>13 DEF Register, SendEnds
  <1>14. ASSUME NEW p \in Procs, WriteOK(p) PROVE LiveInv'
    BY <1>0, <1>14 DEF WriteOK, op
  <1>15. ASSUME NEW p \in Procs, WriteFails(p) PROVE LiveInv'
    BY <1>0, <1>15 DEF WriteFails, forget, SendEnds
  <1>16. ASSUME NEW p \in Procs, Receive(p) PROVE LiveInv'
    BY <1>0, <1>16 DEF Receive, SendEnds
  <1>17. ASSUME NEW p \in Procs, WaitCancelled(p) PROVE LiveInv'
    BY <1>0, <1>17 DEF WaitCancelled, forget, SendEnds
  <1>18. ASSUME NEW p \in Procs, WaitTimesOut(p) PROVE LiveInv'
    BY <1>0, <1>18 DEF WaitTimesOut, forget
  <1>19. ASSUME NEW p \in Procs, PingReturns(p) PROVE LiveInv'
    BY <1>0, <1>19 DEF PingReturns, Sever
  <1>20. ASSUME NEW p \in Procs, SendReturns(p) PROVE LiveInv'
    BY <1>0, <1>20 DEF SendReturns, Returns, LoopsEnd
  <1>21. ASSUME NEW p \in Procs, Cancel(p) PROVE LiveInv'
    BY <1>0, <1>21 DEF Cancel
  <1>22. ASSUME ConnectReturns PROVE LiveInv'
    BY <1>0, <1>22 DEF ConnectReturns, Returns, LoopsEnd
  <1>23. ASSUME KeepaliveTick PROVE LiveInv'
    BY <1>0, <1>23 DEF KeepaliveTick
  <1>24. ASSUME KeepaliveReturns PROVE LiveInv'
    BY <1>0, <1>24 DEF KeepaliveReturns, Returns, LoopsEnd
  <1>25. ASSUME Close PROVE LiveInv'
    BY <1>0, <1>25 DEF Close, Sever
  <1>26. ASSUME NEW k \in Conns, ReadMessage(k) PROVE LiveInv'
    BY <1>0, <1>26 DEF ReadMessage, ReadOne
  <1>27. ASSUME NEW k \in Conns, Deliver(k) PROVE LiveInv'
    BY <1>0, <1>27 DEF Deliver
  <1>28. ASSUME NEW k \in Conns, ReadFails(k) PROVE LiveInv'
    BY <1>0, <1>28 DEF ReadFails
  <1>29. ASSUME NEW k \in Conns, failPending(k) PROVE LiveInv'
    <2>1. UNCHANGED <<conn, pc, role, tgt, link>> /\ reader' = [reader EXCEPT ![k] = "failed"]
      BY <1>29 DEF failPending
    <2> QED
      BY <1>0, <2>1
  <1>30. ASSUME NEW k \in Conns, ReaderDone(k) PROVE LiveInv'
    BY <1>0, <1>30 DEF ReaderDone
  <1>31. ASSUME NEW k \in Conns, ServerExecutes(k) PROVE LiveInv'
    BY <1>0, <1>31 DEF ServerExecutes
  <1>32. ASSUME NEW k \in Conns, ServerDrops(k) PROVE LiveInv'
    BY <1>0, <1>32 DEF ServerDrops, Sever
  <1>33. ASSUME UNCHANGED vars PROVE LiveInv'
    BY <1>0, <1>33 DEF vars
  <1> QED
    BY <1>1, <1>2, <1>3, <1>4, <1>5, <1>6, <1>7, <1>8, <1>9, <1>10, <1>11, <1>12, <1>13, <1>14, <1>15, <1>16, <1>17, <1>18, <1>19, <1>20, <1>21, <1>22, <1>23, <1>24, <1>25, <1>26, <1>27, <1>28, <1>29, <1>30, <1>31, <1>32, <1>33
       DEF Next, ProcStep, CallStep, DialStep, SendStep, ReadStep


(***************************************************************************)
(* A published connection is logged in.                                    *)
(***************************************************************************)
\* A step that logs nobody in and sends nothing.
AuthQuiet ==
    /\ UNCHANGED <<authed, inbox, hand, seq>>
    /\ \A k \in Conns : wire'[k] \subseteq wire[k]
    /\ \A q \in Procs : sid'[q] # 0 => sid'[q] = sid[q] /\ tgt'[q] = tgt[q] /\ role'[q] = role[q]
    /\ \A q \in Procs : ch'[q] = "ok" => ch[q] = "ok" /\ tgt'[q] = tgt[q] /\ role'[q] = role[q]
    /\ \A q \in Procs : pc'[q] = "return" /\ res'[q] = "ok" /\ role'[q] = "auth" => authed[tgt'[q]]
    /\ conn' # None => authed[conn']

\* A step that touches no login, request or response keeps AuthInv.
LEMMA AuthQuietPreserves == AuthInv /\ AuthQuiet => AuthInv'
  <1> SUFFICES ASSUME AuthInv, AuthQuiet PROVE AuthInv'
    OBVIOUS
  <1>1. ASSUME NEW k \in Conns, NEW m \in wire'[k]
        PROVE /\ m.id # 0 /\ m.id <= seq'
              /\ \A p \in Procs : sid'[p] = m.id => tgt'[p] = k /\ m.op = op(p)'
    <2>1. m \in wire[k] /\ seq' = seq
      BY DEF AuthQuiet
    <2>2. m.id # 0 /\ m.id <= seq /\ \A p \in Procs : sid[p] = m.id => tgt[p] = k /\ m.op = op(p)
      BY <2>1 DEF AuthInv
    <2>3. ASSUME NEW p \in Procs, sid'[p] = m.id PROVE tgt'[p] = k /\ m.op = op(p)'
      <3>1. sid[p] = m.id /\ tgt'[p] = tgt[p] /\ role'[p] = role[p]
        BY <2>2, <2>3 DEF AuthQuiet
      <3>2. op(p)' = op(p)
        BY <3>1 DEF op
      <3> QED
        BY <2>2, <3>1, <3>2
    <2> QED
      BY <2>1, <2>2, <2>3
  <1>2. ASSUME NEW k \in Conns, NEW m \in inbox'[k]
        PROVE /\ m.id # 0 /\ m.id <= seq'
              /\ \A p \in Procs : sid'[p] = m.id /\ role'[p] = "auth" /\ m.res = "ok"
                                  => authed'[tgt'[p]]
    BY DEF AuthInv, AuthQuiet
  <1>3. ASSUME NEW k \in Conns, hand'[k] # None, NEW p \in Procs,
               sid'[p] = hand'[k].id, role'[p] = "auth", hand'[k].res = "ok", sid'[p] # 0
        PROVE authed'[tgt'[p]]
    BY <1>3 DEF AuthInv, AuthQuiet
  <1>4. ASSUME NEW p \in Procs, ch'[p] = "ok", role'[p] = "auth" PROVE authed'[tgt'[p]]
    BY <1>4 DEF AuthInv, AuthQuiet
  <1>5. ASSUME NEW p \in Procs, pc'[p] = "return", res'[p] = "ok", role'[p] = "auth"
        PROVE authed'[tgt'[p]]
    BY <1>5 DEF AuthQuiet
  <1>6. conn' # None => authed'[conn']
    BY DEF AuthQuiet
  <1> QED
    BY <1>1, <1>2, <1>3, <1>4, <1>5, <1>6 DEF AuthInv

\* Every step keeps the invariant that a successful login was made on its own websocket.
LEMMA NextAuth == TypeOK /\ Places /\ SendInv /\ AuthInv /\ [Next]_vars => AuthInv'
  <1> SUFFICES ASSUME TypeOK, Places, SendInv, AuthInv, [Next]_vars PROVE AuthInv'
    OBVIOUS
  <1> USE DEF AuthInv, SendTypes, TypeSend, op, clientVars, sendVars, loopVars, connVars, serverVars, boundVars
  <1>0. /\ SendTypes /\ TypeSend /\ conn \in Conns \cup {None}
        /\ wire \in [Conns -> SUBSET [id : Nat, op : Callers \cup {"auth", "ping"}]]
        /\ authed \in [Conns -> BOOLEAN]
        /\ \A q \in Procs : sid[q] # 0 <=> pc[q] \in {"write", "wait"}
        /\ \A q, r \in Procs : sid[q] = sid[r] /\ sid[q] # 0 => q = r
        /\ \A q \in Procs : ch[q] # None => sid[q] # 0
        /\ "ok" # None
    BY TypesOfSend DEF TypeOK, TypeClient, TypeConn, SendInv, IdsInv, Answers
  <1>1. ASSUME NEW p \in Procs, Acquire(p) PROVE AuthInv'
    BY <1>0, <1>1 DEF Acquire
  <1>2. ASSUME NEW p \in Procs, AcquireCancelled(p) PROVE AuthInv'
    <2>1. AuthQuiet
      BY <1>0, <1>2 DEF AcquireCancelled, Returns, LoopsEnd, AuthQuiet
    <2> QED
      BY <2>1, AuthQuietPreserves
  <1>3. ASSUME NEW p \in Procs, Lookup(p) PROVE AuthInv'
    BY <1>0, <1>3 DEF Lookup, SendOn
  <1>4. ASSUME NEW p \in Procs, Reconnect(p) PROVE AuthInv'
    BY <1>0, <1>4 DEF Reconnect
  <1>5. ASSUME NEW p \in Procs, Relook(p) PROVE AuthInv'
    <2>1. AuthQuiet
      BY <1>0, <1>5 DEF Relook, SendOn, LoopsEnd, Returns, AuthQuiet
    <2> QED
      BY <2>1, AuthQuietPreserves
  <1>6. ASSUME NEW p \in Procs, Backoff(p) PROVE AuthInv'
    <2>1. sid[p] = 0 /\ ch[p] = None
      BY <1>0, <1>6 DEF Backoff
    <2>2. /\ UNCHANGED <<authed, inbox, hand, seq, wire, conn, sid, ch>> /\ pc'[p] # "return"
          /\ \A q \in Procs : q # p => /\ pc'[q] = pc[q] /\ res'[q] = res[q]
                                       /\ role'[q] = role[q] /\ tgt'[q] = tgt[q]
      BY <1>0, <1>6 DEF Backoff, Returns, LoopsEnd
    <2>3. AuthQuiet
      BY <1>0, <2>1, <2>2 DEF AuthQuiet
    <2> QED
      BY <2>3, AuthQuietPreserves
  <1>7. ASSUME NEW p \in Procs, OpenOK(p) PROVE AuthInv'
    <2>1. AuthQuiet
      BY <1>0, <1>7 DEF OpenOK, SendOn, AuthQuiet
    <2> QED
      BY <2>1, AuthQuietPreserves
  <1>8. ASSUME NEW p \in Procs, OpenFails(p) PROVE AuthInv'
    BY <1>0, <1>8 DEF OpenFails
  <1>9. ASSUME NEW p \in Procs, Publish(p) PROVE AuthInv'
    BY <1>0, <1>9 DEF Publish, ClosedDuringAuth
  <1>10. ASSUME NEW p \in Procs, AuthFails(p) PROVE AuthInv'
    BY <1>0, <1>10 DEF AuthFails, ClosedDuringAuth, Sever
  <1>11. ASSUME NEW p \in Procs, DialBackoff(p) PROVE AuthInv'
    BY <1>0, <1>11 DEF DialBackoff
  <1>12. ASSUME NEW p \in Procs, ReconnectReturns(p) PROVE AuthInv'
    BY <1>0, <1>12 DEF ReconnectReturns
  <1>13. ASSUME NEW p \in Procs, Register(p) PROVE AuthInv'
    <2>0. sid[p] = 0 /\ tgt[p] \in Conns /\ ch[p] = None
      BY <1>0, <1>13 DEF Register, Places
    <2>1. /\ UNCHANGED <<authed, inbox, hand, wire, conn, tgt, role>> /\ seq' = seq + 1
          /\ sid' = [sid EXCEPT ![p] = seq + 1] \/ sid' = [sid EXCEPT ![p] = 0]
          /\ ch' = ch \/ ch' = [ch EXCEPT ![p] = None]
          /\ (pc' = [pc EXCEPT ![p] = "return"] /\ res' = [res EXCEPT ![p] = "closed"])
             \/ (pc' = [pc EXCEPT ![p] = "write"] /\ res' = res)
      BY <1>13 DEF Register, SendEnds
    <2>2. \A k \in Conns : \A m \in wire[k] : m.id \in Nat /\ m.id # seq + 1 /\ m.id <= seq + 1
      BY <1>0
    <2>3. \A k \in Conns : \A m \in inbox[k] : m.id \in Nat /\ m.id # seq + 1 /\ m.id <= seq + 1
      BY <1>0
    <2>4. \A k \in Conns : hand[k] # None => hand[k].id # 0 /\ hand[k].id # seq + 1
      BY <1>0 DEF SendInv, HandInv, Handing
    <2>5. \A q \in Procs : sid'[q] = sid[q] \/ sid'[q] = seq + 1
      BY <1>0, <2>0, <2>1
    <2>6. \A q \in Procs : ch'[q] = "ok" => ch[q] = "ok"
      BY <1>0, <2>1
    <2>7. \A q \in Procs : pc'[q] = "return" /\ res'[q] = "ok" => pc[q] = "return" /\ res[q] = "ok"
      BY <1>0, <2>1
    <2> QED
      BY <1>0, <2>1, <2>2, <2>3, <2>4, <2>5, <2>6, <2>7
  <1>14. ASSUME NEW p \in Procs, WriteOK(p) PROVE AuthInv'
    <2>1. sid[p] # 0 /\ sid[p] <= seq /\ tgt[p] \in Conns
      BY <1>0, <1>14 DEF WriteOK, Places, SendInv, IdsInv
    <2>2. /\ UNCHANGED <<authed, inbox, hand, conn, tgt, role, seq, sid, ch, res>>
          /\ pc' = [pc EXCEPT ![p] = "wait"]
          /\ \A k \in Conns : \A m \in wire'[k] :
                m \in wire[k] \/ (k = tgt[p] /\ m = [id |-> sid[p], op |-> op(p)])
      BY <1>0, <1>14 DEF WriteOK
    <2>3. ASSUME NEW k \in Conns, NEW m \in wire'[k]
          PROVE /\ m.id # 0 /\ m.id <= seq
                /\ \A q \in Procs : sid[q] = m.id => tgt[q] = k /\ m.op = op(q)
      <3>1. CASE m \in wire[k]
        BY <3>1
      <3>2. CASE k = tgt[p] /\ m = [id |-> sid[p], op |-> op(p)]
        <4>1. m.id = sid[p] /\ m.op = op(p)
          BY <3>2
        <4>2. \A q \in Procs : sid[q] = sid[p] => q = p
          BY <1>0, <2>1
        <4> QED
          BY <2>1, <3>2, <4>1, <4>2
      <3> QED
        BY <2>2, <3>1, <3>2
    <2>4. \A q \in Procs : pc'[q] = "return" => pc[q] = "return"
      BY <1>0, <2>2
    <2> QED
      BY <2>2, <2>3, <2>4
  <1>15. ASSUME NEW p \in Procs, WriteFails(p) PROVE AuthInv'
    <2>1. AuthQuiet
      BY <1>0, <1>15 DEF WriteFails, forget, SendEnds, AuthQuiet
    <2> QED
      BY <2>1, AuthQuietPreserves
  <1>16. ASSUME NEW p \in Procs, Receive(p) PROVE AuthInv'
    <2>1. AuthQuiet
      BY <1>0, <1>16 DEF Receive, SendEnds, AuthQuiet
    <2> QED
      BY <2>1, AuthQuietPreserves
  <1>17. ASSUME NEW p \in Procs, WaitCancelled(p) PROVE AuthInv'
    <2>1. AuthQuiet
      BY <1>0, <1>17 DEF WaitCancelled, forget, SendEnds, AuthQuiet
    <2> QED
      BY <2>1, AuthQuietPreserves
  <1>18. ASSUME NEW p \in Procs, WaitTimesOut(p) PROVE AuthInv'
    BY <1>0, <1>18 DEF WaitTimesOut, forget
  <1>19. ASSUME NEW p \in Procs, PingReturns(p) PROVE AuthInv'
    <2>1. AuthQuiet
      BY <1>0, <1>19 DEF PingReturns, Sever, AuthQuiet
    <2> QED
      BY <2>1, AuthQuietPreserves
  <1>20. ASSUME NEW p \in Procs, SendReturns(p) PROVE AuthInv'
    BY <1>0, <1>20 DEF SendReturns, Returns, LoopsEnd
  <1>21. ASSUME NEW p \in Procs, Cancel(p) PROVE AuthInv'
    BY <1>0, <1>21 DEF Cancel
  <1>22. ASSUME ConnectReturns PROVE AuthInv'
    <2>1. sid[Cfg] = 0 /\ ch[Cfg] = None
      BY <1>0, <1>22 DEF ConnectReturns
    <2>2. /\ UNCHANGED <<authed, inbox, hand, seq, wire, conn, sid, ch>> /\ pc'[Cfg] # "return"
          /\ \A q \in Procs : q # Cfg => /\ pc'[q] = pc[q] /\ res'[q] = res[q]
                                       /\ role'[q] = role[q] /\ tgt'[q] = tgt[q]
      BY <1>0, <1>22 DEF ConnectReturns, Returns, LoopsEnd
    <2>3. AuthQuiet
      BY <1>0, <2>1, <2>2 DEF AuthQuiet
    <2> QED
      BY <2>3, AuthQuietPreserves
  <1>23. ASSUME KeepaliveTick PROVE AuthInv'
    BY <1>0, <1>23 DEF KeepaliveTick
  <1>24. ASSUME KeepaliveReturns PROVE AuthInv'
    BY <1>0, <1>24 DEF KeepaliveReturns, Returns, LoopsEnd
  <1>25. ASSUME Close PROVE AuthInv'
    BY <1>0, <1>25 DEF Close, Sever
  <1>26. ASSUME NEW k \in Conns, ReadMessage(k) PROVE AuthInv'
    BY <1>0, <1>26 DEF ReadMessage, ReadOne
  <1>27. ASSUME NEW k \in Conns, Deliver(k) PROVE AuthInv'
    <2>1. /\ hand[k] # None /\ hand[k].ch \in Procs /\ hand[k].res \in Answers
          /\ hand' = [hand EXCEPT ![k] = None]
          /\ ch' = IF sid[hand[k].ch] = hand[k].id THEN [ch EXCEPT ![hand[k].ch] = hand[k].res] ELSE ch
          /\ UNCHANGED <<authed, inbox, wire, seq, conn, pc, tgt, sid, role, res>>
      BY <1>0, <1>27 DEF Deliver, Put, Handing
    <2>2. hand[k].id # 0
      BY <2>1 DEF SendInv, HandInv
    <2>3. ASSUME NEW q \in Procs, ch'[q] = "ok", role[q] = "auth" PROVE authed[tgt[q]]
      BY <1>0, <2>1, <2>2, <2>3
    <2>4. \A j \in Conns : hand'[j] # None => hand'[j] = hand[j]
      BY <1>0, <2>1
    <2> QED
      BY <2>1, <2>3, <2>4
  <1>28. ASSUME NEW k \in Conns, ReadFails(k) PROVE AuthInv'
    BY <1>0, <1>28 DEF ReadFails
  <1>29. ASSUME NEW k \in Conns, failPending(k) PROVE AuthInv'
    BY <1>0, <1>29 DEF failPending
  <1>30. ASSUME NEW k \in Conns, ReaderDone(k) PROVE AuthInv'
    BY <1>0, <1>30 DEF ReaderDone
  <1>31. ASSUME NEW k \in Conns, ServerExecutes(k) PROVE AuthInv'
    BY <1>0, <1>31 DEF ServerExecutes
  <1>32. ASSUME NEW k \in Conns, ServerDrops(k) PROVE AuthInv'
    BY <1>0, <1>32 DEF ServerDrops, Sever
  <1>33. ASSUME UNCHANGED vars PROVE AuthInv'
    BY <1>0, <1>33 DEF vars
  <1> QED
    BY <1>1, <1>2, <1>3, <1>4, <1>5, <1>6, <1>7, <1>8, <1>9, <1>10, <1>11, <1>12, <1>13, <1>14, <1>15, <1>16, <1>17, <1>18, <1>19, <1>20, <1>21, <1>22, <1>23, <1>24, <1>25, <1>26, <1>27, <1>28, <1>29, <1>30, <1>31, <1>32, <1>33
       DEF Next, ProcStep, CallStep, DialStep, SendStep, ReadStep

\* Every step keeps the invariant that a reported loss is a marked one.
LEMMA NextLoss == TypeOK /\ Places /\ SendInv /\ ConnInv /\ LossIsMarked /\ [Next]_vars => LossIsMarked'
  <1> SUFFICES ASSUME TypeOK, Places, SendInv, ConnInv, LossIsMarked, [Next]_vars PROVE LossIsMarked'
    OBVIOUS
  <1> USE DEF LossIsMarked, closed, Places, SendTypes, clientVars, sendVars, loopVars, connVars, serverVars, boundVars
  <1>0. /\ SendTypes /\ res \in [Procs -> Outcomes]
        /\ \A q \in Procs : ch[q] # None => pc[q] \in {"write", "wait"}
        /\ "lost" # None
    BY TypesOfSend DEF TypeOK, TypeSend, SendInv, IdsInv, Answers
  <1>1. ASSUME NEW p \in Procs, Acquire(p) PROVE LossIsMarked'
    BY <1>0, <1>1 DEF Acquire
  <1>2. ASSUME NEW p \in Procs, AcquireCancelled(p) PROVE LossIsMarked'
    BY <1>0, <1>2 DEF AcquireCancelled, Returns, LoopsEnd
  <1>3. ASSUME NEW p \in Procs, Lookup(p) PROVE LossIsMarked'
    BY <1>0, <1>3 DEF Lookup, SendOn
  <1>4. ASSUME NEW p \in Procs, Reconnect(p) PROVE LossIsMarked'
    BY <1>0, <1>4 DEF Reconnect
  <1>5. ASSUME NEW p \in Procs, Relook(p) PROVE LossIsMarked'
    BY <1>0, <1>5 DEF Relook, SendOn, LoopsEnd, Returns
  <1>6. ASSUME NEW p \in Procs, Backoff(p) PROVE LossIsMarked'
    BY <1>0, <1>6 DEF Backoff, Returns, LoopsEnd
  <1>7. ASSUME NEW p \in Procs, OpenOK(p) PROVE LossIsMarked'
    <2>1. nconn + 1 \in Conns /\ nconn \in Nat
      BY <1>0, <1>7 DEF OpenOK
    <2>2. reader[nconn + 1] = "none"
      BY <2>1 DEF ConnInv
    <2>3. /\ reader' = [reader EXCEPT ![nconn + 1] = "reading"] /\ UNCHANGED <<ch, res>>
          /\ pc' = [pc EXCEPT ![p] = "register"] /\ tgt' = [tgt EXCEPT ![p] = nconn + 1]
          /\ pc[p] = "open"
      BY <1>7 DEF OpenOK, SendOn
    <2>4. ASSUME NEW q \in Procs, ch'[q] = "lost" \/ (pc'[q] = "return" /\ res'[q] = "lost")
          PROVE q # p /\ reader[tgt[q]] \in {"failed", "done"}
      BY <1>0, <2>3, <2>4
    <2> QED
      BY <1>0, <2>2, <2>3, <2>4
  <1>8. ASSUME NEW p \in Procs, OpenFails(p) PROVE LossIsMarked'
    BY <1>0, <1>8 DEF OpenFails
  <1>9. ASSUME NEW p \in Procs, Publish(p) PROVE LossIsMarked'
    BY <1>0, <1>9 DEF Publish, ClosedDuringAuth
  <1>10. ASSUME NEW p \in Procs, AuthFails(p) PROVE LossIsMarked'
    BY <1>0, <1>10 DEF AuthFails, ClosedDuringAuth, Sever
  <1>11. ASSUME NEW p \in Procs, DialBackoff(p) PROVE LossIsMarked'
    BY <1>0, <1>11 DEF DialBackoff
  <1>12. ASSUME NEW p \in Procs, ReconnectReturns(p) PROVE LossIsMarked'
    BY <1>0, <1>12 DEF ReconnectReturns
  <1>13. ASSUME NEW p \in Procs, Register(p) PROVE LossIsMarked'
    BY <1>0, <1>13 DEF Register, SendEnds
  <1>14. ASSUME NEW p \in Procs, WriteOK(p) PROVE LossIsMarked'
    BY <1>0, <1>14 DEF WriteOK, op
  <1>15. ASSUME NEW p \in Procs, WriteFails(p) PROVE LossIsMarked'
    BY <1>0, <1>15 DEF WriteFails, forget, SendEnds
  <1>16. ASSUME NEW p \in Procs, Receive(p) PROVE LossIsMarked'
    BY <1>0, <1>16 DEF Receive, SendEnds
  <1>17. ASSUME NEW p \in Procs, WaitCancelled(p) PROVE LossIsMarked'
    BY <1>0, <1>17 DEF WaitCancelled, forget, SendEnds
  <1>18. ASSUME NEW p \in Procs, WaitTimesOut(p) PROVE LossIsMarked'
    BY <1>0, <1>18 DEF WaitTimesOut, forget
  <1>19. ASSUME NEW p \in Procs, PingReturns(p) PROVE LossIsMarked'
    BY <1>0, <1>19 DEF PingReturns, Sever
  <1>20. ASSUME NEW p \in Procs, SendReturns(p) PROVE LossIsMarked'
    BY <1>0, <1>20 DEF SendReturns, Returns, LoopsEnd
  <1>21. ASSUME NEW p \in Procs, Cancel(p) PROVE LossIsMarked'
    BY <1>0, <1>21 DEF Cancel
  <1>22. ASSUME ConnectReturns PROVE LossIsMarked'
    BY <1>0, <1>22 DEF ConnectReturns, Returns, LoopsEnd
  <1>23. ASSUME KeepaliveTick PROVE LossIsMarked'
    BY <1>0, <1>23 DEF KeepaliveTick
  <1>24. ASSUME KeepaliveReturns PROVE LossIsMarked'
    BY <1>0, <1>24 DEF KeepaliveReturns, Returns, LoopsEnd
  <1>25. ASSUME Close PROVE LossIsMarked'
    BY <1>0, <1>25 DEF Close, Sever
  <1>26. ASSUME NEW k \in Conns, ReadMessage(k) PROVE LossIsMarked'
    <2>1. PICK m \in inbox[k] : ReadOne(k, m)
      BY <1>26 DEF ReadMessage
    <2>2. UNCHANGED <<ch, pc, res, tgt>> /\ reader[k] = "reading"
      BY <1>26 DEF ReadMessage
    <2>3. reader' = reader \/ reader' = [reader EXCEPT ![k] = "exiting"]
      BY <2>1 DEF ReadOne
    <2> QED
      BY <1>0, <2>2, <2>3
  <1>27. ASSUME NEW k \in Conns, Deliver(k) PROVE LossIsMarked'
    <2>1. /\ hand[k] # None /\ hand[k].ch \in Procs
          /\ ch' = IF sid[hand[k].ch] = hand[k].id THEN [ch EXCEPT ![hand[k].ch] = hand[k].res] ELSE ch
          /\ UNCHANGED <<pc, tgt, res, reader>>
      BY <1>0, <1>27 DEF Deliver, Put, Handing
    <2>2. hand[k].res # "lost"
      BY <2>1 DEF SendInv, HandInv
    <2>3. \A q \in Procs : ch'[q] = "lost" => ch[q] = "lost"
      BY <1>0, <2>1, <2>2
    <2> QED
      BY <2>1, <2>3
  <1>28. ASSUME NEW k \in Conns, ReadFails(k) PROVE LossIsMarked'
    BY <1>0, <1>28 DEF ReadFails
  <1>29. ASSUME NEW k \in Conns, failPending(k) PROVE LossIsMarked'
    <2>1. /\ reader' = [reader EXCEPT ![k] = "failed"] /\ UNCHANGED <<pc, tgt, res, sid>>
          /\ \A q \in Procs : ch'[q] = "lost" =>
                ch[q] = "lost" \/ \E e \in pending : e.conn = k /\ e.ch = q /\ e.id = sid[q]
      BY <1>0, <1>29 DEF failPending
    <2>2. ASSUME NEW q \in Procs, ch'[q] = "lost" PROVE reader'[tgt[q]] \in {"failed", "done"}
      <3>1. CASE ch[q] = "lost"
        BY <1>0, <2>1, <3>1
      <3>2. CASE \E e \in pending : e.conn = k /\ e.ch = q /\ e.id = sid[q]
        <4>1. tgt[q] = k
          BY <1>0, <3>2, OwnEntry
        <4> QED
          BY <1>0, <2>1, <4>1
      <3> QED
        BY <2>1, <2>2, <3>1, <3>2
    <2> QED
      BY <1>0, <2>1, <2>2
  <1>30. ASSUME NEW k \in Conns, ReaderDone(k) PROVE LossIsMarked'
    BY <1>0, <1>30 DEF ReaderDone
  <1>31. ASSUME NEW k \in Conns, ServerExecutes(k) PROVE LossIsMarked'
    BY <1>0, <1>31 DEF ServerExecutes
  <1>32. ASSUME NEW k \in Conns, ServerDrops(k) PROVE LossIsMarked'
    BY <1>0, <1>32 DEF ServerDrops, Sever
  <1>33. ASSUME UNCHANGED vars PROVE LossIsMarked'
    BY <1>0, <1>33 DEF vars
  <1> QED
    BY <1>1, <1>2, <1>3, <1>4, <1>5, <1>6, <1>7, <1>8, <1>9, <1>10, <1>11, <1>12, <1>13, <1>14, <1>15, <1>16, <1>17, <1>18, <1>19, <1>20, <1>21, <1>22, <1>23, <1>24, <1>25, <1>26, <1>27, <1>28, <1>29, <1>30, <1>31, <1>32, <1>33
       DEF Next, ProcStep, CallStep, DialStep, SendStep, ReadStep


(***************************************************************************)
(* The inductive invariant and the theorems.                               *)
(***************************************************************************)
IInv == /\ TypeOK /\ Places /\ SendInv /\ ConnInv /\ DialInv /\ LiveInv /\ AuthInv
        /\ LossIsMarked

\* The inductive invariant holds initially.
LEMMA InitIInv == Init => IInv
  <1> SUFFICES ASSUME Init PROVE IInv
    OBVIOUS
  <1>1. TypeOK /\ Places
    BY InitTypeOK
  <1>2. SendInv
    BY DEF Init, SendInv, IdsInv, PendingInv, HandInv, RegisteredInv
  <1>3. ConnInv
    BY ConstantsAssumption DEF Init, ConnInv, Conns
  <1>4. DialInv
    BY DEF Init, DialInv, Dialing, Opened, Ready
  <1>5. LiveInv
    BY DEF Init, LiveInv
  <1>6. AuthInv
    BY DEF Init, AuthInv, Answers
  <1>7. LossIsMarked
    BY DEF Init, LossIsMarked, Answers
  <1> QED
    BY <1>1, <1>2, <1>3, <1>4, <1>5, <1>6, <1>7 DEF IInv

\* Every step keeps the inductive invariant.
LEMMA NextIInv == IInv /\ [Next]_vars => IInv'
  <1> SUFFICES ASSUME IInv, [Next]_vars PROVE IInv'
    OBVIOUS
  <1>1. /\ TypeOK /\ Places /\ SendInv /\ ConnInv /\ DialInv /\ LiveInv /\ AuthInv
        /\ LossIsMarked
    BY DEF IInv
  <1>2. TypeOK'
    <2>1. TypeControl
      BY <1>1 DEF TypeOK
    <2> QED
      BY <1>1, <2>1, NextTypeControl, NextTypeSend, NextTypeClient, NextTypeConn DEF TypeOK
  <1> QED
    BY <1>1, <1>2, NextPlaces, NextSendInv, NextConn, NextDial, NextLive, NextAuth, NextLoss
    DEF IInv

\* The inductive invariant holds in every reachable state.
LEMMA InvariantHolds == Spec => []IInv
  BY InitIInv, NextIInv, PTL DEF Spec

\* Type correctness: every variable of the client keeps its type, whatever the
\* server, the network and the schedule do.
THEOREM TypeCorrect == Spec => []TypeOK
  <1>1. IInv => TypeOK
    BY DEF IInv
  <1> QED
    BY <1>1, InvariantHolds, PTL

\* No goroutine of the client is left waiting in send without an answer on its
\* way and without a reader that will deliver or fail its call.
THEOREM NobodyIsLeftWaiting == Spec => []NoLostWaiter
  <1>1. IInv => NoLostWaiter
    <2> SUFFICES ASSUME IInv, NEW p \in Procs, pc[p] = "wait"
                 PROVE \/ ch[p] # None
                       \/ \E k \in Conns : hand[k] # None /\ hand[k].id = sid[p] /\ hand[k].ch = p
                       \/ /\ [id |-> sid[p], conn |-> tgt[p], ch |-> p] \in pending
                          /\ ~closed(tgt[p])
      BY DEF NoLostWaiter
    <2>1. sid[p] # 0
      BY DEF IInv, SendInv, IdsInv
    <2>2. [id |-> sid[p], conn |-> tgt[p], ch |-> p] \in pending => ~closed(tgt[p])
      BY DEF IInv, SendInv, PendingInv
    <2> QED
      BY <2>1, <2>2 DEF IInv, SendInv, RegisteredInv
  <1> QED
    BY <1>1, InvariantHolds, PTL

\* deliver and failPending never block on a channel (the second would do so
\* holding pendingMu, and hang every other call).
THEOREM ReadersNeverBlock == Spec => []ReaderNeverBlocks
  <1>1. IInv => ReaderNeverBlocks
    BY DEF IInv, SendInv, PendingInv, HandInv, ReaderNeverBlocks, CanPut
  <1> QED
    BY <1>1, InvariantHolds, PTL

\* c.conn is always a logged-in connection whose readLoop has not finished.
THEOREM OnlyUsableIsPublished == Spec => []PublishedIsUsable
  <1>1. IInv => PublishedIsUsable
    <2> SUFFICES ASSUME IInv, conn # None
                 PROVE authed[conn] /\ reader[conn] \in {"reading", "exiting", "failed"}
      BY DEF PublishedIsUsable
    <2>1. authed[conn] /\ reader[conn] \notin {"none", "done"}
      BY DEF IInv, AuthInv, ConnInv
    <2>2. reader[conn] \in {"none", "reading", "exiting", "failed", "done"}
      BY DEF IInv, TypeOK, TypeClient, TypeConn
    <2> QED
      BY <2>1, <2>2
  <1> QED
    BY <1>1, InvariantHolds, PTL

\* There are never two open websockets being read: reconnectMu and the check
\* of c.conn under it make a dial happen once per outage.
THEOREM NeverTwoSessions == Spec => []OneSession
  <1>1. IInv => OneSession
    <2> SUFFICES ASSUME IInv, NEW j \in Conns, NEW k \in Conns,
                        reader[j] = "reading", link[j] # "down",
                        reader[k] = "reading", link[k] # "down"
                 PROVE j = k
      BY DEF OneSession
    <2>1. conn = j \/ \E p \in Procs : Opened(p) /\ tgt[p] = j
      BY DEF IInv, LiveInv
    <2>2. conn = k \/ \E p \in Procs : Opened(p) /\ tgt[p] = k
      BY DEF IInv, LiveInv
    <2>3. \A p \in Procs : Opened(p) => conn = None /\ (p \in Callers => reMu = p)
      BY DEF IInv, DialInv, Dialing
    <2>4. \A p \in Procs : Opened(p) => p # KA
      BY DEF IInv, Places, Opened
    <2>5. \A p \in Callers : Opened(p) => ~Opened(Cfg)
      BY DEF IInv, DialInv, Opened, Ready
    <2>6. \A p, q \in Procs : Opened(p) /\ Opened(q) => p = q
      BY <2>3, <2>4, <2>5
    <2> QED
      BY <2>1, <2>2, <2>3, <2>6
  <1> QED
    BY <1>1, InvariantHolds, PTL

\* Whoever is told that its connection was lost finds it marked closed: the
\* test dialOnce relies on.
THEOREM LossAlwaysMarked == Spec => []LossIsMarked
  <1>1. IInv => LossIsMarked
    BY DEF IInv
  <1> QED
    BY <1>1, InvariantHolds, PTL
=============================================================================
