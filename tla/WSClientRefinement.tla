------------------------- MODULE WSClientRefinement -------------------------
(***************************************************************************)
(* WSClient implements RPC, for every number of callers and connections:   *)
(* Call keeps its promise.                                                 *)
(***************************************************************************)
EXTENDS WSClientProofs

(***************************************************************************)
(* The inductive invariant: where the one request of a caller is.          *)
(***************************************************************************)
Replied == {"ok", "err", "big"}

\* No request of p is on its way to the server.
NoRequest(p) == \A k \in Conns : \A m \in wire[k] : m.op # p

\* p has not written its request: it looks for a connection, logs in on a new
\* one, or is about to write.
Unwritten(p) ==
    \/ pc[p] \in {"acquire", "lookup", "reconn", "open", "dialwait", "dialret", "relook", "backoff"}
    \/ role[p] \in {"auth", "pingauth"}
    \/ role[p] = "call" /\ pc[p] \in {"register", "write"}

\* p gave up, or is about to, without having written it.
Unsent(p) ==
    /\ pc[p] = "done" \/ (pc[p] = "return" /\ role[p] = "call")
    /\ res[p] \in {"closed", "notconn"}

\* p has the answer to its request.
Answered(p) ==
    \/ role[p] = "call" /\ ch[p] \in Replied
    \/ role[p] = "call" /\ pc[p] = "return" /\ res[p] \in Replied
    \/ pc[p] = "done" /\ res[p] \in Replied

\* A response to its request is on its way to p.
AnswerComes(p) ==
    /\ role[p] = "call" /\ sid[p] # 0
    /\ \/ \E k \in Conns : \E m \in inbox[k] : m.id = sid[p]
       \/ \E k \in Conns : hand[k] # None /\ hand[k].id = sid[p]

\* The request of p is executed at most once: it is not written yet, or it is
\* at one place on its way to the server, or it has been executed, or lost.
PromiseAt(p) ==
    /\ applied[p] \in {0, 1}
    /\ applied[p] = 1 => NoRequest(p)
    /\ Unwritten(p) \/ Unsent(p) => applied[p] = 0 /\ NoRequest(p)
    /\ \A j, k \in Conns : \A m \in wire[j], n \in wire[k] :
          m.op = p /\ n.op = p => j = k /\ m = n
    /\ Answered(p) \/ AnswerComes(p) => applied[p] = 1

PromiseInv == \A p \in Callers : PromiseAt(p)

(***************************************************************************)
(* The invariant holds initially and is kept by every step.                *)
(***************************************************************************)
USE IndexSets

\* Nothing has been written before Connect returns.
LEMMA InitPromise == Init => PromiseInv
  <1> SUFFICES ASSUME Init, NEW p \in Callers PROVE PromiseAt(p)
    BY DEF PromiseInv
  <1>1. pc[p] = "acquire" /\ role[p] = "none" /\ applied[p] = 0 /\ sid[p] = 0
    BY ConstantsAssumption DEF Init, Procs
  <1>2. \A k \in Conns : wire[k] = {}
    BY DEF Init
  <1> QED
    BY <1>1, <1>2 DEF PromiseAt, NoRequest, Unsent, Answered, AnswerComes

\* A step that executes nothing, writes no request of a caller and answers
\* nobody, and after which p has written its request only if it had before.
Quietly(p) ==
    /\ applied' = applied
    /\ \A k \in Conns : wire'[k] \subseteq wire[k] /\ inbox'[k] \subseteq inbox[k]
    /\ \A k \in Conns : hand'[k] \in {hand[k], None}
    /\ sid'[p] = 0 \/ (sid'[p] = sid[p] /\ role'[p] = role[p])
    /\ Unwritten(p)' \/ Unsent(p)' => Unwritten(p) \/ Unsent(p)
    /\ Answered(p)' => Answered(p)

\* A step that touches nothing of a caller's request keeps its promise.
LEMMA QuietlyPreserves ==
    ASSUME NEW p \in Callers, PromiseAt(p), Quietly(p)
    PROVE  PromiseAt(p)'
  <1> USE DEF Quietly
  <1>1. NoRequest(p) => NoRequest(p)'
    BY DEF NoRequest
  <1>2. AnswerComes(p)' => AnswerComes(p)
    BY DEF AnswerComes
  <1>3. ASSUME NEW j \in Conns, NEW k \in Conns, NEW m \in wire'[j], NEW n \in wire'[k],
               m.op = p, n.op = p
        PROVE  j = k /\ m = n
    <2>1. m \in wire[j] /\ n \in wire[k]
      OBVIOUS
    <2>2. \A i, l \in Conns : \A x \in wire[i], y \in wire[l] : x.op = p /\ y.op = p => i = l /\ x = y
      BY DEF PromiseAt
    <2> QED
      BY <1>3, <2>1, <2>2
  <1> QED
    BY <1>1, <1>2, <1>3 DEF PromiseAt

\* What the proof uses of the invariants proved before.
PromiseFacts ==
    /\ pc \in [Procs -> PcValues] /\ sid \in [Procs -> Nat] /\ seq \in Nat
    /\ role \in [Procs -> {"none", "call", "auth", "keepalive", "pingcall", "pingauth"}]
    /\ ch \in [Procs -> Answers \cup {None}] /\ res \in [Procs -> Outcomes]
    /\ tgt \in [Procs -> Conns \cup {None}] /\ conn \in Conns \cup {None}
    /\ wire \in [Conns -> SUBSET [id : Nat, op : Callers \cup {"auth", "ping"}]]
    /\ inbox \in [Conns -> SUBSET [id : Nat, res : {"ok", "err", "big", "bad"}]]
    /\ hand \in [Conns -> Handing \cup {None}]
    /\ link \in [Conns -> {"none", "up", "wbroken", "down"}]
    /\ applied \in [Callers -> Nat]
    /\ None \notin Replied
    /\ \A q \in Procs : sid[q] # 0 <=> pc[q] \in {"write", "wait"}
    /\ \A q \in Procs : ch[q] # None => sid[q] # 0
    /\ \A q \in Procs : pc[q] \in {"register", "write", "wait", "return"} => tgt[q] \in Conns
    /\ pc[KA] \in {"idle", "acquire", "register", "write", "wait", "return"}

\* What the proofs about the client provide.
LEMMA FactsHold == IInv => PromiseFacts
  BY DEF IInv, TypeOK, TypeClient, TypeControl, TypeSend, TypeConn, SendInv, IdsInv, Places, PromiseFacts,
       Answers, Replied

\* Every step keeps the request of p at one place.
LEMMA NextPromise == IInv /\ PromiseInv /\ [Next]_vars => PromiseInv'
  <1> SUFFICES ASSUME IInv, PromiseInv, [Next]_vars, NEW p \in Callers PROVE PromiseAt(p)'
    BY DEF PromiseInv
  <1>0. PromiseFacts /\ PromiseAt(p) /\ p \in Procs
    BY FactsHold DEF PromiseInv
  <1> USE DEF PromiseFacts, clientVars, sendVars, loopVars, connVars, serverVars, boundVars
  <1>1. ASSUME NEW q \in Procs, Acquire(q) PROVE Quietly(p)
    BY <1>0, <1>1 DEF Acquire, Quietly, Unwritten, Unsent, Answered, Replied, Answers
  <1>2. ASSUME NEW q \in Procs, AcquireCancelled(q) PROVE Quietly(p)
    BY <1>0, <1>2 DEF AcquireCancelled, Returns, LoopsEnd, Quietly, Unwritten, Unsent, Answered, Replied, Answers
  <1>3. ASSUME NEW q \in Procs, Lookup(q) PROVE Quietly(p)
    BY <1>0, <1>3 DEF Lookup, SendOn, Quietly, Unwritten, Unsent, Answered, Replied, Answers
  <1>4. ASSUME NEW q \in Procs, Reconnect(q) PROVE Quietly(p)
    BY <1>0, <1>4 DEF Reconnect, Quietly, Unwritten, Unsent, Answered, Replied, Answers
  <1>5. ASSUME NEW q \in Procs, Relook(q) PROVE Quietly(p)
    BY <1>0, <1>5 DEF Relook, SendOn, LoopsEnd, Returns, Quietly, Unwritten, Unsent, Answered, Replied, Answers
  <1>6. ASSUME NEW q \in Procs, Backoff(q) PROVE Quietly(p)
    BY <1>0, <1>6 DEF Backoff, Returns, LoopsEnd, Quietly, Unwritten, Unsent, Answered, Replied, Answers
  <1>7. ASSUME NEW q \in Procs, OpenOK(q) PROVE Quietly(p)
    BY <1>0, <1>7 DEF OpenOK, SendOn, Quietly, Unwritten, Unsent, Answered, Replied, Answers
  <1>8. ASSUME NEW q \in Procs, OpenFails(q) PROVE Quietly(p)
    BY <1>0, <1>8 DEF OpenFails, Quietly, Unwritten, Unsent, Answered, Replied, Answers
  <1>9. ASSUME NEW q \in Procs, Publish(q) PROVE Quietly(p)
    BY <1>0, <1>9 DEF Publish, ClosedDuringAuth, Quietly, Unwritten, Unsent, Answered, Replied, Answers
  <1>10. ASSUME NEW q \in Procs, AuthFails(q) PROVE Quietly(p)
    BY <1>0, <1>10 DEF AuthFails, ClosedDuringAuth, Sever, Quietly, Unwritten, Unsent, Answered, Replied, Answers
  <1>11. ASSUME NEW q \in Procs, DialBackoff(q) PROVE Quietly(p)
    BY <1>0, <1>11 DEF DialBackoff, Quietly, Unwritten, Unsent, Answered, Replied, Answers
  <1>12. ASSUME NEW q \in Procs, ReconnectReturns(q) PROVE Quietly(p)
    BY <1>0, <1>12 DEF ReconnectReturns, Quietly, Unwritten, Unsent, Answered, Replied, Answers
  <1>13. ASSUME NEW q \in Procs, WriteFails(q) PROVE Quietly(p)
    BY <1>0, <1>13 DEF WriteFails, SendEnds, Quietly, Unwritten, Unsent, Answered, Replied, Answers
  <1>14. ASSUME NEW q \in Procs, Receive(q) PROVE Quietly(p)
    BY <1>0, <1>14 DEF Receive, SendEnds, Quietly, Unwritten, Unsent, Answered, Replied, Answers
  <1>15. ASSUME NEW q \in Procs, WaitCancelled(q) PROVE Quietly(p)
    BY <1>0, <1>15 DEF WaitCancelled, SendEnds, Quietly, Unwritten, Unsent, Answered, Replied, Answers
  <1>16. ASSUME NEW q \in Procs, WaitTimesOut(q) PROVE Quietly(p)
    BY <1>0, <1>16 DEF WaitTimesOut, Quietly, Unwritten, Unsent, Answered, Replied, Answers
  <1>17. ASSUME NEW q \in Procs, PingReturns(q) PROVE Quietly(p)
    BY <1>0, <1>17 DEF PingReturns, Sever, Quietly, Unwritten, Unsent, Answered, Replied, Answers
  <1>18. ASSUME NEW q \in Procs, SendReturns(q) PROVE Quietly(p)
    BY <1>0, <1>18 DEF SendReturns, Returns, LoopsEnd, Quietly, Unwritten, Unsent, Answered, Replied, Answers
  <1>19. ASSUME NEW q \in Procs, Cancel(q) PROVE Quietly(p)
    BY <1>0, <1>19 DEF Cancel, Quietly, Unwritten, Unsent, Answered, Replied, Answers
  <1>20. ASSUME ConnectReturns PROVE Quietly(p)
    BY <1>0, <1>20 DEF ConnectReturns, Returns, LoopsEnd, Quietly, Unwritten, Unsent, Answered, Replied, Answers
  <1>21. ASSUME KeepaliveTick PROVE Quietly(p)
    BY <1>0, <1>21 DEF KeepaliveTick, Quietly, Unwritten, Unsent, Answered, Replied, Answers
  <1>22. ASSUME KeepaliveReturns PROVE Quietly(p)
    BY <1>0, <1>22 DEF KeepaliveReturns, Returns, LoopsEnd, Quietly, Unwritten, Unsent, Answered, Replied, Answers
  <1>23. ASSUME Close PROVE Quietly(p)
    BY <1>0, <1>23 DEF Close, Sever, Quietly, Unwritten, Unsent, Answered, Replied, Answers
  <1>24. ASSUME NEW k \in Conns, ReadFails(k) PROVE Quietly(p)
    BY <1>0, <1>24 DEF ReadFails, Quietly, Unwritten, Unsent, Answered, Replied, Answers
  <1>25. ASSUME NEW k \in Conns, ReaderDone(k) PROVE Quietly(p)
    BY <1>0, <1>25 DEF ReaderDone, Quietly, Unwritten, Unsent, Answered, Replied, Answers
  <1>26. ASSUME NEW k \in Conns, ServerDrops(k) PROVE Quietly(p)
    BY <1>0, <1>26 DEF ServerDrops, Sever, Quietly, Unwritten, Unsent, Answered, Replied, Answers
  <1>27. ASSUME NEW k \in Conns, failPending(k) PROVE Quietly(p)
    BY <1>0, <1>27 DEF failPending, Answers, Quietly, Unwritten, Unsent, Answered, Replied, Answers
  <1>28. ASSUME UNCHANGED vars PROVE Quietly(p)
    BY <1>0, <1>28 DEF vars, Quietly, Unwritten, Unsent, Answered, Replied, Answers
  <1>29. ASSUME NEW q \in Procs, Register(q) PROVE PromiseAt(p)'
    <2>1. CASE q # p \/ closed(tgt[q])
      <3>1. Quietly(p)
        BY <1>0, <1>29, <2>1 DEF Register, SendEnds, Quietly, Unwritten, Unsent, Answered, Replied, Answers
      <3> QED
        BY <1>0, <3>1, QuietlyPreserves
    <2>2. CASE q = p /\ ~closed(tgt[q])
      <3>1. /\ UNCHANGED <<applied, wire, inbox, hand>> /\ sid'[p] = seq + 1
            /\ Unwritten(p)' \/ Unsent(p)' => Unwritten(p)
            /\ ~Answered(p)'
        BY <1>0, <1>29, <2>2 DEF Register, Unwritten, Unsent, Answered, Replied, Answers
      <3>2. /\ \A k \in Conns : \A m \in inbox[k] : m.id # seq + 1
            /\ \A k \in Conns : hand[k] # None => hand[k].id # seq + 1
        <4>1. ASSUME NEW k \in Conns, NEW m \in inbox[k] PROVE m.id # seq + 1
          <5>1. m.id \in Nat /\ m.id <= seq
            BY <1>0 DEF IInv, AuthInv
          <5> QED
            BY <1>0, <5>1
        <4>2. ASSUME NEW k \in Conns, hand[k] # None PROVE hand[k].id # seq + 1
          <5>1. hand[k].id \in Nat /\ hand[k].id <= seq
            BY <1>0, <4>2 DEF IInv, SendInv, HandInv, Handing
          <5> QED
            BY <1>0, <5>1
        <4> QED
          BY <4>1, <4>2
      <3>3. ~AnswerComes(p)'
        BY <3>1, <3>2 DEF AnswerComes
      <3>4. NoRequest(p)' <=> NoRequest(p)
        BY <3>1 DEF NoRequest
      <3> QED
        BY <1>0, <3>1, <3>3, <3>4 DEF PromiseAt
    <2> QED
      BY <2>1, <2>2
  <1>30. ASSUME NEW q \in Procs, WriteOK(q) PROVE PromiseAt(p)'
    <2>0. /\ tgt[q] \in Conns /\ pc[q] = "write"
          /\ \A k \in Conns : wire'[k] \subseteq wire[k] \cup {[id |-> sid[q], op |-> op(q)]}
          /\ \A k \in Conns : k # tgt[q] => wire'[k] = wire[k]
          /\ UNCHANGED <<applied, inbox, hand, sid, role, ch, res>>
          /\ pc' = [pc EXCEPT ![q] = "wait"]
      BY <1>0, <1>30 DEF WriteOK
    <2>1. /\ Unwritten(p)' \/ Unsent(p)' => Unwritten(p) \/ Unsent(p)
          /\ Answered(p)' => Answered(p)
          /\ AnswerComes(p)' => AnswerComes(p)
      BY <1>0, <2>0 DEF Unwritten, Unsent, Answered, AnswerComes, Replied
    <2>2. CASE op(q) # p
      <3>1. NoRequest(p) => NoRequest(p)'
        BY <2>0, <2>2 DEF NoRequest
      <3>2. \A k \in Conns : \A m \in wire'[k] : m.op = p => m \in wire[k]
        BY <2>0, <2>2
      <3> QED
        BY <1>0, <2>0, <2>1, <3>1, <3>2 DEF PromiseAt
    <2>3. CASE op(q) = p
      <3>1. q = p /\ role[p] = "call"
        BY <2>3, ConstantsAssumption DEF op
      <3>2. Unwritten(p) /\ applied[p] = 0 /\ NoRequest(p)
        BY <1>0, <2>0, <3>1 DEF Unwritten, PromiseAt
      <3>3. ~Unwritten(p)' /\ ~Unsent(p)'
        BY <1>0, <2>0, <3>1 DEF Unwritten, Unsent
      <3>4. \A k \in Conns : \A m \in wire'[k] :
              m.op = p => k = tgt[q] /\ m = [id |-> sid[q], op |-> op(q)]
        BY <2>0, <3>2 DEF NoRequest
      <3> QED
        BY <1>0, <2>0, <2>1, <3>2, <3>3, <3>4 DEF PromiseAt
    <2> QED
      BY <2>2, <2>3
  <1>31. ASSUME NEW k \in Conns, ReadMessage(k) PROVE PromiseAt(p)'
    <2>0. PICK m \in inbox[k] : ReadOne(k, m)
      BY <1>31 DEF ReadMessage
    <2>1. /\ UNCHANGED <<applied, wire, pc, sid, role, ch, res>>
          /\ \A j \in Conns : inbox'[j] \subseteq inbox[j]
          /\ \A j \in Conns : j # k => hand'[j] = hand[j]
          /\ hand'[k] = hand[k] \/ hand'[k].id = m.id
      BY <1>0, <1>31, <2>0 DEF ReadMessage, ReadOne
    <2>2. AnswerComes(p)' => AnswerComes(p)
      <3> SUFFICES ASSUME AnswerComes(p)' PROVE AnswerComes(p)
        OBVIOUS
      <3>1. role[p] = "call" /\ sid[p] # 0
        BY <2>1 DEF AnswerComes
      <3>2. CASE \E j \in Conns : \E n \in inbox'[j] : n.id = sid[p]
        BY <2>1, <3>1, <3>2 DEF AnswerComes
      <3>3. CASE \E j \in Conns : hand'[j] # None /\ hand'[j].id = sid[p]
        <4>1. PICK j \in Conns : hand'[j] # None /\ hand'[j].id = sid[p]
          BY <3>3
        <4>2. hand'[j] = hand[j] \/ (j = k /\ m.id = sid[p])
          BY <2>1, <4>1
        <4> QED
          BY <2>0, <3>1, <4>1, <4>2 DEF AnswerComes
      <3> QED
        BY <2>1, <3>2, <3>3 DEF AnswerComes
    <2>3. /\ NoRequest(p)' <=> NoRequest(p)
          /\ Unwritten(p)' \/ Unsent(p)' => Unwritten(p) \/ Unsent(p)
          /\ Answered(p)' => Answered(p)
      BY <2>1 DEF NoRequest, Unwritten, Unsent, Answered
    <2> QED
      BY <1>0, <2>1, <2>2, <2>3 DEF PromiseAt
  <1>32. ASSUME NEW k \in Conns, Deliver(k) PROVE PromiseAt(p)'
    <2>1. /\ UNCHANGED <<applied, wire, inbox, pc, sid, role, res>>
          /\ \A j \in Conns : hand'[j] \in {hand[j], None}
      BY <1>0, <1>32 DEF Deliver
    <2>2. ch'[p] = ch[p] \/ (hand[k] # None /\ hand[k].id = sid[p] /\ sid[p] # 0)
      <3>1. hand[k] # None /\ hand[k].id # 0
        BY <1>32 DEF Deliver, IInv, SendInv, HandInv
      <3> QED
        BY <1>0, <1>32, <3>1 DEF Deliver, Put
    <2>3. Answered(p)' \/ AnswerComes(p)' => Answered(p) \/ AnswerComes(p)
      BY <2>1, <2>2 DEF Answered, AnswerComes
    <2>4. /\ NoRequest(p)' <=> NoRequest(p)
          /\ Unwritten(p)' \/ Unsent(p)' => Unwritten(p) \/ Unsent(p)
      BY <2>1 DEF NoRequest, Unwritten, Unsent
    <2> QED
      BY <1>0, <2>1, <2>3, <2>4 DEF PromiseAt
  <1>33. ASSUME NEW k \in Conns, ServerExecutes(k) PROVE PromiseAt(p)'
    <2>a. PICK m \in wire[k], r \in Replies : ServerExecutes(k)!(m, r)
      BY <1>33 DEF ServerExecutes
    <2>0. /\ wire' = [wire EXCEPT ![k] = @ \ {m}]
          /\ applied' = IF m.op \in Callers THEN [applied EXCEPT ![m.op] = @ + 1] ELSE applied
          /\ \A j \in Conns : \A n \in inbox'[j] : n \in inbox[j] \/ n.id = m.id
          /\ UNCHANGED <<pc, sid, role, ch, res, hand>>
      BY <1>0, <2>a
    <2>1. /\ \A j \in Conns : wire'[j] \subseteq wire[j] /\ m \notin wire'[k]
          /\ NoRequest(p) => NoRequest(p)'
      BY <1>0, <2>0 DEF NoRequest
    <2>2. /\ Unwritten(p)' \/ Unsent(p)' => Unwritten(p) \/ Unsent(p)
          /\ Answered(p)' => Answered(p)
      BY <2>0 DEF Unwritten, Unsent, Answered
    <2>3. \A i, j \in Conns : \A n \in wire'[i], o \in wire'[j] :
            n.op = p /\ o.op = p => i = j /\ n = o
      BY <1>0, <2>1 DEF PromiseAt
    <2>4. CASE m.op # p
      <3>1. applied'[p] = applied[p]
        BY <1>0, <2>0, <2>4
      <3>2. AnswerComes(p)' => AnswerComes(p)
        <4>1. role[p] = "call" => sid[p] # m.id
          <5>1. sid[p] = m.id => m.op = op(p)
            BY <1>0, <2>a DEF IInv, AuthInv
          <5> QED
            BY <2>4, <5>1 DEF op
        <4> QED
          BY <2>0, <4>1 DEF AnswerComes
      <3> QED
        BY <1>0, <2>1, <2>2, <2>3, <3>1, <3>2 DEF PromiseAt
    <2>5. CASE m.op = p
      <3>1. applied[p] = 0 /\ ~Unwritten(p) /\ ~Unsent(p)
        BY <1>0, <2>5 DEF PromiseAt, NoRequest
      <3>2. applied'[p] = 1
        BY <1>0, <2>0, <2>5, <3>1
      <3>3. NoRequest(p)'
        BY <1>0, <2>1, <2>5 DEF PromiseAt, NoRequest
      <3> QED
        BY <2>2, <2>3, <3>1, <3>2, <3>3 DEF PromiseAt
    <2> QED
      BY <2>4, <2>5
  <1> QED
    <2>1. CASE Quietly(p)
      BY <1>0, <2>1, QuietlyPreserves
    <2>2. CASE ~Quietly(p)
      BY <2>2, <1>1, <1>2, <1>3, <1>4, <1>5, <1>6, <1>7, <1>8, <1>9, <1>10, <1>11,
         <1>12, <1>13, <1>14, <1>15, <1>16, <1>17, <1>18, <1>19, <1>20, <1>21, <1>22,
         <1>23, <1>24, <1>25, <1>26, <1>27, <1>28, <1>29, <1>30, <1>31, <1>32, <1>33
         DEF Next, ProcStep, CallStep, DialStep, SendStep, ReadStep
    <2> QED
      BY <2>1, <2>2

\* The invariant holds in every reachable state.
LEMMA PromiseHolds == Spec => [](IInv /\ PromiseInv)
  BY InitIInv, NextIInv, InitPromise, NextPromise, PTL DEF Spec

(***************************************************************************)
(* Every step is a step of RPC, or none.                                   *)
(***************************************************************************)
\* A step that no caller returns in and nothing is executed in.
Stutters ==
    /\ applied' = applied
    /\ \A p \in Callers : /\ pc'[p] = "done" <=> pc[p] = "done"
                          /\ pc[p] = "done" => res'[p] = res[p]

\* A step that changes no phase and no execution is a stutter of the promise.
LEMMA StuttersIsNone == Stutters => UNCHANGED <<Phase, Out, applied>>
  BY DEF Stutters, Phase, Out

\* The step in which q returns what its send ended with.
Ends(q) ==
    /\ q \in Callers /\ pc[q] # "done"
    /\ pc'[q] = "done" /\ \A p \in Callers : p # q => pc'[p] = pc[p] /\ res'[p] = res[p]
    /\ Answered(q)' => applied[q] = 1
    /\ Unsent(q)' => applied[q] = 0
    /\ applied' = applied

\* It is the step in which RPC's call returns.
LEMMA EndsIsReturn == ASSUME NEW q \in Callers, Ends(q) PROVE Promise!Next
  <1> DEFINE o == Meaning(res'[q])
  <1>1. o \in {"answered", "unsent", "unknown"}
    BY DEF Meaning
  <1>2. Phase[q] = "open"
    BY DEF Ends, Phase
  <1>3. o = "answered" => applied[q] = 1
    BY DEF Meaning, Ends, Answered, Replied
  <1>4. o = "unsent" => applied[q] = 0
    BY DEF Meaning, Ends, Unsent
  <1>5. Phase' = [Phase EXCEPT ![q] = "returned"]
    BY DEF Ends, Phase
  <1>6. Out' = [Out EXCEPT ![q] = o]
    BY DEF Ends, Out
  <1>7. Promise!Return(q, o)
    BY <1>2, <1>3, <1>4, <1>5, <1>6 DEF Promise!Return, Ends
  <1> QED
    BY <1>1, <1>7 DEF Promise!Next

\* A step of Call either returns from it or is none of RPC's.
LEMMA ProcStepRefines ==
    ASSUME IInv, PromiseInv, NEW q \in Procs, ProcStep(q) \/ Cancel(q)
    PROVE  Stutters \/ Ends(q)
  <1>0. PromiseFacts /\ Callers \subseteq Procs /\ \A p \in Callers : PromiseAt(p)
    BY FactsHold DEF PromiseInv
  <1> USE DEF PromiseFacts, sendVars, loopVars, serverVars
  <1>1. ASSUME Acquire(q) PROVE Stutters \/ Ends(q)
    BY <1>0, <1>1 DEF Acquire, Stutters
  <1>2. ASSUME AcquireCancelled(q) PROVE Stutters \/ Ends(q)
    BY <1>0, <1>2 DEF AcquireCancelled, Returns, LoopsEnd, Ends, Stutters, Unsent, Answered, Replied
  <1>3. ASSUME Lookup(q) PROVE Stutters \/ Ends(q)
    BY <1>0, <1>3 DEF Lookup, SendOn, Stutters
  <1>4. ASSUME Reconnect(q) PROVE Stutters \/ Ends(q)
    BY <1>0, <1>4 DEF Reconnect, Stutters
  <1>5. ASSUME Relook(q) PROVE Stutters \/ Ends(q)
    <2>1. q \in Callers => applied[q] = 0
      BY <1>0, <1>5 DEF Relook, PromiseAt, Unwritten
    <2> QED
      BY <1>0, <1>5, <2>1 DEF Relook, SendOn, Returns, LoopsEnd, Ends, Stutters, Unsent, Answered, Replied
  <1>6. ASSUME Backoff(q) PROVE Stutters \/ Ends(q)
    BY <1>0, <1>6 DEF Backoff, Returns, LoopsEnd, Ends, Stutters, Unsent, Answered, Replied
  <1>7. ASSUME OpenOK(q) PROVE Stutters \/ Ends(q)
    BY <1>0, <1>7 DEF OpenOK, SendOn, Stutters
  <1>8. ASSUME OpenFails(q) PROVE Stutters \/ Ends(q)
    BY <1>0, <1>8 DEF OpenFails, Stutters
  <1>9. ASSUME Publish(q) PROVE Stutters \/ Ends(q)
    BY <1>0, <1>9 DEF Publish, ClosedDuringAuth, Stutters
  <1>10. ASSUME AuthFails(q) PROVE Stutters \/ Ends(q)
    BY <1>0, <1>10 DEF AuthFails, ClosedDuringAuth, Stutters
  <1>11. ASSUME DialBackoff(q) PROVE Stutters \/ Ends(q)
    BY <1>0, <1>11 DEF DialBackoff, Stutters
  <1>12. ASSUME ReconnectReturns(q) PROVE Stutters \/ Ends(q)
    BY <1>0, <1>12 DEF ReconnectReturns, Stutters
  <1>13. ASSUME Register(q) PROVE Stutters \/ Ends(q)
    BY <1>0, <1>13 DEF Register, SendEnds, Stutters
  <1>14. ASSUME WriteOK(q) PROVE Stutters \/ Ends(q)
    BY <1>0, <1>14 DEF WriteOK, Stutters
  <1>15. ASSUME WriteFails(q) PROVE Stutters \/ Ends(q)
    BY <1>0, <1>15 DEF WriteFails, SendEnds, Stutters
  <1>16. ASSUME Receive(q) PROVE Stutters \/ Ends(q)
    BY <1>0, <1>16 DEF Receive, SendEnds, Stutters
  <1>17. ASSUME WaitCancelled(q) PROVE Stutters \/ Ends(q)
    BY <1>0, <1>17 DEF WaitCancelled, SendEnds, Stutters
  <1>18. ASSUME WaitTimesOut(q) PROVE Stutters \/ Ends(q)
    BY <1>0, <1>18 DEF WaitTimesOut, Stutters
  <1>19. ASSUME PingReturns(q) PROVE Stutters \/ Ends(q)
    BY <1>0, <1>19 DEF PingReturns, Stutters
  <1>20. ASSUME SendReturns(q) PROVE Stutters \/ Ends(q)
    <2>1. /\ q \in Callers /\ Answered(q) => applied[q] = 1
          /\ q \in Callers /\ Unsent(q) => applied[q] = 0
      BY <1>0 DEF PromiseAt
    <2> QED
      BY <1>0, <1>20, <2>1 DEF SendReturns, Returns, LoopsEnd, Ends, Stutters, Unsent, Answered, Replied
  <1>21. ASSUME Cancel(q) PROVE Stutters \/ Ends(q)
    BY <1>0, <1>21 DEF Cancel, Stutters
  <1> QED
    BY <1>1, <1>2, <1>3, <1>4, <1>5, <1>6, <1>7, <1>8, <1>9, <1>10, <1>11,
       <1>12, <1>13, <1>14, <1>15, <1>16, <1>17, <1>18, <1>19, <1>20, <1>21
       DEF ProcStep, CallStep, DialStep, SendStep

\* The server executes a request of a caller at most once, and never one whose
\* call returned that it was not sent.
LEMMA ExecutesRefines ==
    ASSUME IInv, PromiseInv, NEW k \in Conns, ServerExecutes(k)
    PROVE  Stutters \/ Promise!Next
  <1>0. PromiseFacts
    BY FactsHold
  <1>1. PICK m \in wire[k], r \in Replies : ServerExecutes(k)!(m, r)
    BY DEF ServerExecutes
  <1>2. /\ applied' = IF m.op \in Callers THEN [applied EXCEPT ![m.op] = @ + 1] ELSE applied
        /\ UNCHANGED <<pc, res>>
    BY <1>1 DEF sendVars
  <1>3. CASE m.op \notin Callers
    BY <1>2, <1>3 DEF Stutters
  <1>4. CASE m.op \in Callers
    <2> DEFINE q == m.op
    <2>1. PromiseAt(q) /\ ~NoRequest(q)
      BY <1>1, <1>4 DEF PromiseInv, NoRequest
    <2>2. applied[q] = 0 /\ ~Unsent(q) /\ ~Answered(q)
      BY <2>1 DEF PromiseAt
    <2>3. Out[q] \in {"none", "unknown"}
      BY <1>4, <2>2 DEF Out, Meaning, Unsent, Answered, Replied
    <2>4. UNCHANGED <<Phase, Out>>
      BY <1>2 DEF Phase, Out
    <2>5. applied' = [applied EXCEPT ![q] = 1]
      BY <1>0, <1>2, <1>4, <2>2 DEF PromiseFacts
    <2>6. Promise!Apply(q)
      BY <2>2, <2>3, <2>4, <2>5 DEF Promise!Apply
    <2> QED
      BY <1>4, <2>6 DEF Promise!Next
  <1> QED
    BY <1>3, <1>4

\* Every step of the client, the network and the server is a step of RPC or
\* changes nothing that RPC speaks of.
LEMMA NextRefines == IInv /\ PromiseInv /\ [Next]_vars => [Promise!Next]_<<Phase, Out, applied>>
  <1> SUFFICES ASSUME IInv, PromiseInv, [Next]_vars
               PROVE  Promise!Next \/ UNCHANGED <<Phase, Out, applied>>
    OBVIOUS
  <1>0. PromiseFacts
    BY FactsHold
  <1> USE DEF PromiseFacts, sendVars, loopVars, serverVars
  <1>1. ASSUME NEW q \in Procs, ProcStep(q) \/ Cancel(q)
        PROVE  Promise!Next \/ UNCHANGED <<Phase, Out, applied>>
    <2>1. CASE Stutters
      BY <2>1, StuttersIsNone
    <2>2. CASE Ends(q)
      BY <2>2, EndsIsReturn DEF Ends
    <2> QED
      BY <1>1, <2>1, <2>2, ProcStepRefines
  <1>2. ASSUME NEW k \in Conns, ServerExecutes(k)
        PROVE  Promise!Next \/ UNCHANGED <<Phase, Out, applied>>
    BY <1>2, ExecutesRefines, StuttersIsNone
  <1>3. ASSUME NEW k \in Conns, ReadStep(k) \/ ServerDrops(k) PROVE Stutters
    BY <1>0, <1>3 DEF ReadStep, ReadMessage, Deliver, ReadFails, failPending, ReaderDone, ServerDrops,
          Stutters
  <1>4. ASSUME ConnectReturns \/ KeepaliveTick \/ KeepaliveReturns \/ Close PROVE Stutters
    BY <1>0, <1>4 DEF ConnectReturns, KeepaliveTick, KeepaliveReturns, Close, Returns, Stutters
  <1>5. ASSUME UNCHANGED vars PROVE Stutters
    BY <1>5 DEF vars, Stutters
  <1> QED
    BY <1>1, <1>2, <1>3, <1>4, <1>5, StuttersIsNone DEF Next

\* Call's promise is kept: WSClient implements RPC.  A request is executed at
\* most once; a call that returns an answer was executed, one that returns that
\* it was not sent was not and never will be, whatever connections are lost,
\* replaced or closed and whatever timers fire meanwhile.
THEOREM CallRefinesPromise == Spec => CallKeepsPromise
  <1>1. Init => Promise!Init
    <2> SUFFICES ASSUME Init PROVE Promise!Init
      OBVIOUS
    <2>1. \A p \in Callers : pc[p] = "acquire"
      BY ConstantsAssumption DEF Init, Procs
    <2> QED
      BY <2>1 DEF Init, Promise!Init, Phase, Out
  <1>2. IInv /\ PromiseInv /\ [Next]_vars => [Promise!Next]_(Promise!rpcVars)
    BY NextRefines DEF Promise!rpcVars
  <1> QED
    BY <1>1, <1>2, PromiseHolds, PTL DEF Spec, CallKeepsPromise, Promise!Spec
=============================================================================
