------------------------------ MODULE WSClient ------------------------------
(***************************************************************************)
(* The websocket JSON-RPC client that every resource of the provider       *)
(* shares (internal/client/client.go).                                     *)
(*                                                                         *)
(* Goroutines: Cfg runs Connect, each member of Callers runs one Call, KA  *)
(* is the keepalive goroutine, and every websocket has a readLoop.  The    *)
(* server may answer in any order, answer with an error, with an oversized *)
(* or an unreadable message, not answer at all, or drop the connection.    *)
(* Every timer may fire at any time.                                       *)
(***************************************************************************)
EXTENDS Naturals, FiniteSets

CONSTANTS
    Callers,           \* one invocation of Client.Call each
    Cfg,               \* the goroutine that runs Client.Connect
    KA,                \* the keepalive goroutine
    None,              \* Go's nil
    Cancellable,       \* goroutines whose context may be cancelled
    Replies,           \* what the server may answer
    MaxInFlight,       \* capacity of c.sem (defaultMaxConcurrentCalls)
    DialRetries,       \* len(dialRetryDelays)
    ReconnectRetries,  \* len(reconnectRetryDelays)
    MaxConns,          \* bound: websockets opened
    MaxPings,          \* bound: keepalive ticks that ping
    MaxCloses          \* bound: invocations of Client.Close

Procs == Callers \cup {Cfg, KA}
Conns == 1 .. MaxConns

Answers  == {"ok", "err", "big", "lost"}   \* what a channel can carry
Outcomes == Answers \cup {"none", "closed", "werr", "ctx", "noresp", "notconn"}
Entries  == [id : Nat, conn : Conns, ch : Procs]
Handing  == [id : Nat, ch : Procs, res : Answers]

ASSUME ConstantsAssumption ==
    /\ Cfg \notin Callers /\ KA \notin Callers /\ Cfg # KA
    /\ "auth" \notin Callers /\ "ping" \notin Callers
    /\ Cancellable \subseteq Callers \cup {Cfg}
    /\ Replies \subseteq {"ok", "err", "big", "bad"}
    /\ MaxInFlight \in Nat \ {0} /\ DialRetries \in Nat /\ ReconnectRetries \in Nat
    /\ MaxConns \in Nat /\ MaxPings \in Nat /\ MaxCloses \in Nat
    /\ None \notin Procs /\ None \notin Nat /\ None \notin Answers /\ None \notin Handing

VARIABLES
    \* client state
    conn,      \* c.conn
    pending,   \* c.pending: entries [id, conn, ch]
    seq,       \* c.seq
    sem,       \* the goroutines that hold a slot of c.sem
    reMu,      \* the goroutine that holds c.reconnectMu
    stopped,   \* Close has closed keepaliveStop
    \* one goroutine
    pc,        \* where it is
    role,      \* the purpose of its current send
    tgt,       \* the connection of its current send
    sid,       \* the id of its current send, 0 when it has none
    ch,        \* content of that send's channel
    res,       \* how its last send ended
    att,       \* attempt of the loop in Call or Connect
    datt,      \* attempt of the loop in dial
    rerr,      \* what its last dial or reconnect returned
    ctx,       \* its context: "live" or "done"
    \* one websocket
    nconn,     \* websockets opened so far
    link,      \* the socket
    reader,    \* its readLoop
    hand,      \* the response its readLoop is handing to a channel
    \* the server
    wire,      \* requests written and not yet executed
    inbox,     \* responses not yet read
    authed,    \* the session is logged in
    applied,   \* how often the server executed a caller's request
    \* counters of the bounds
    pings, closes

clientVars == <<conn, pending, seq, sem, reMu, stopped>>
sendVars   == <<role, tgt, sid, ch, res>>
loopVars   == <<att, datt, rerr>>
connVars   == <<nconn, link, reader, hand>>
serverVars == <<wire, inbox, authed, applied>>
boundVars  == <<pings, closes>>
vars == <<clientVars, pc, sendVars, loopVars, ctx, connVars, serverVars, boundVars>>

(***************************************************************************)
(* Types.                                                                  *)
(***************************************************************************)
PcValues == {"idle", "acquire", "lookup", "reconn", "open", "dialwait", "dialret", "relook",
             "backoff", "register", "write", "wait", "return", "done", "failed"}

TypeClient ==
    /\ conn \in Conns \cup {None}
    /\ pending \in SUBSET Entries
    /\ seq \in Nat
    /\ sem \in SUBSET Procs
    /\ reMu \in Procs \cup {None}
    /\ stopped \in BOOLEAN
    /\ pings \in 0 .. MaxPings
    /\ closes \in 0 .. MaxCloses

TypeControl ==
    /\ pc \in [Procs -> PcValues]
    /\ att \in [Procs -> Nat]
    /\ datt \in [Procs -> Nat]
    /\ rerr \in [Procs -> {"nil", "dial", "closed", "auth", "ctx"}]
    /\ ctx \in [Procs -> {"live", "done"}]

TypeSend ==
    /\ role \in [Procs -> {"none", "call", "auth", "keepalive", "pingcall", "pingauth"}]
    /\ tgt \in [Procs -> Conns \cup {None}]
    /\ sid \in [Procs -> Nat]
    /\ ch \in [Procs -> Answers \cup {None}]
    /\ res \in [Procs -> Outcomes]

TypeConn ==
    /\ nconn \in 0 .. MaxConns
    /\ link \in [Conns -> {"none", "up", "wbroken", "down"}]
    /\ reader \in [Conns -> {"none", "reading", "exiting", "failed", "done"}]
    /\ hand \in [Conns -> Handing \cup {None}]
    /\ wire \in [Conns -> SUBSET [id : Nat, op : Callers \cup {"auth", "ping"}]]
    /\ inbox \in [Conns -> SUBSET [id : Nat, res : {"ok", "err", "big", "bad"}]]
    /\ authed \in [Conns -> BOOLEAN]
    /\ applied \in [Callers -> Nat]

TypeOK == TypeClient /\ TypeControl /\ TypeSend /\ TypeConn

\* Only a caller runs Call, the keepalive never dials, and a send has a
\* connection.
Places ==
    /\ pc[KA] \in {"idle", "acquire", "register", "write", "wait", "return"}
    /\ role[KA] \in {"none", "keepalive"}
    /\ pc[Cfg] \in {"open", "dialwait", "dialret", "register", "write", "wait", "return", "done",
                    "failed"}
    /\ role[Cfg] \in {"none", "auth", "pingauth"}
    /\ \A p \in Callers : role[p] # "keepalive"
    /\ \A p \in Procs : pc[p] \in {"register", "write", "wait", "return"} => tgt[p] # None
    /\ pc[KA] = "acquire" => tgt[KA] # None

(***************************************************************************)
(* Helpers.                                                                *)
(***************************************************************************)
\* Mutant: the flag is only set when the reader unpublishes the connection.
closed_AfterUnpublish(k) == reader[k] = "done"

\* wsConn.closed: set by failPending, before the reader unpublishes.
closed(k) == reader[k] \in {"failed", "done"}

\* Connect has returned nil, so the provider hands the client to resources.
Ready == pc[Cfg] = "done"

\* The buffered channel of a pendingCall takes one value.  Once its send has
\* returned nobody reads it any more, and the value is garbage.
CanPut(id, p) == sid[p] = id => ch[p] = None
Put(id, p, r) == ch' = IF sid[p] = id THEN [ch EXCEPT ![p] = r] ELSE ch

\* delete(c.pending, id)
forget(p) == pending' = {e \in pending : e.id # sid[p]}

\* send ends with outcome r; its channel is garbage from here on.
SendEnds(p, r) ==
    /\ res' = [res EXCEPT ![p] = r]
    /\ pc' = [pc EXCEPT ![p] = "return"]
    /\ sid' = [sid EXCEPT ![p] = 0]
    /\ ch' = [ch EXCEPT ![p] = None]
    /\ UNCHANGED <<role, tgt>>

\* send starts on connection k for the given purpose.
SendOn(p, k, purpose) ==
    /\ tgt' = [tgt EXCEPT ![p] = k]
    /\ role' = [role EXCEPT ![p] = purpose]
    /\ pc' = [pc EXCEPT ![p] = "register"]
    /\ UNCHANGED <<sid, ch, res>>

\* The locals of the loops in Call, Connect and dial go out of scope.
LoopsEnd(p) ==
    /\ att' = [att EXCEPT ![p] = 0]
    /\ datt' = [datt EXCEPT ![p] = 0]
    /\ rerr' = [rerr EXCEPT ![p] = "nil"]

\* p returns to pc value "next" with outcome r and gives its slot back.
Returns(p, next, r) ==
    /\ pc' = [pc EXCEPT ![p] = next]
    /\ res' = [res EXCEPT ![p] = r]
    /\ role' = [role EXCEPT ![p] = "none"]
    /\ tgt' = [tgt EXCEPT ![p] = None]
    /\ sem' = sem \ {p}
    /\ LoopsEnd(p)
    /\ UNCHANGED <<sid, ch>>

\* The socket of k is closed, by either side.  A login or a ping that has not
\* been executed has no effect any more; a call's request may still have.
Sever(k) ==
    /\ link' = [link EXCEPT ![k] = "down"]
    /\ wire' = [wire EXCEPT ![k] = {m \in @ : m.op \in Callers}]

Init ==
    /\ conn = None /\ pending = {} /\ seq = 0 /\ sem = {} /\ reMu = None
    /\ stopped = FALSE
    /\ pc = [p \in Procs |-> CASE p = Cfg -> "open" [] p = KA -> "idle" [] OTHER -> "acquire"]
    /\ role = [p \in Procs |-> "none"]
    /\ tgt = [p \in Procs |-> None]
    /\ sid = [p \in Procs |-> 0]
    /\ ch = [p \in Procs |-> None]
    /\ res = [p \in Procs |-> "none"]
    /\ att = [p \in Procs |-> 0]
    /\ datt = [p \in Procs |-> 0]
    /\ rerr = [p \in Procs |-> "nil"]
    /\ ctx = [p \in Procs |-> "live"]
    /\ nconn = 0
    /\ link = [k \in Conns |-> "none"]
    /\ reader = [k \in Conns |-> "none"]
    /\ hand = [k \in Conns |-> None]
    /\ wire = [k \in Conns |-> {}]
    /\ inbox = [k \in Conns |-> {}]
    /\ authed = [k \in Conns |-> FALSE]
    /\ applied = [p \in Callers |-> 0]
    /\ pings = 0 /\ closes = 0

(***************************************************************************)
(* Client.Call, and the slot of a keepalive ping.                          *)
(***************************************************************************)
\* Mutant: the keepalive pings without waiting for a slot.
Acquire_KeepaliveTakesNoSlot(p) ==
    /\ pc[p] = "acquire" /\ Ready
    /\ p # KA => Cardinality(sem) < MaxInFlight
    /\ sem' = IF p = KA THEN sem ELSE sem \cup {p}
    /\ pc' = [pc EXCEPT ![p] = IF p = KA THEN "register" ELSE "lookup"]
    /\ UNCHANGED <<conn, pending, seq, reMu, stopped, sendVars, loopVars, ctx, connVars,
                   serverVars, boundVars>>

\* A slot of c.sem is free.  The keepalive goes on to send on the connection
\* it read before it waited for the slot.
Acquire(p) ==
    /\ pc[p] = "acquire" /\ Ready
    /\ Cardinality(sem) < MaxInFlight
    /\ sem' = sem \cup {p}
    /\ pc' = [pc EXCEPT ![p] = IF p = KA THEN "register" ELSE "lookup"]
    /\ UNCHANGED <<conn, pending, seq, reMu, stopped, sendVars, loopVars, ctx, connVars,
                   serverVars, boundVars>>

\* The context ended first: the caller's was cancelled, a ping's 15 s are over.
AcquireCancelled(p) ==
    /\ pc[p] = "acquire" /\ Ready
    /\ p = KA \/ ctx[p] = "done"
    /\ IF p = KA THEN Returns(p, "idle", "none") ELSE Returns(p, "done", "ctx")
    /\ UNCHANGED <<conn, pending, seq, reMu, stopped, ctx, connVars, serverVars, boundVars>>

\* conn := c.conn
Lookup(p) ==
    /\ pc[p] = "lookup"
    /\ IF conn # None
       THEN SendOn(p, conn, "call")
       ELSE pc' = [pc EXCEPT ![p] = "reconn"] /\ UNCHANGED sendVars
    /\ UNCHANGED <<clientVars, loopVars, ctx, connVars, serverVars, boundVars>>

\* Mutant: reconnect without reconnectMu.
Reconnect_NoMutex(p) ==
    /\ pc[p] = "reconn"
    /\ IF conn # None
       THEN /\ rerr' = [rerr EXCEPT ![p] = "nil"]
            /\ pc' = [pc EXCEPT ![p] = "relook"]
            /\ UNCHANGED datt
       ELSE /\ datt' = [datt EXCEPT ![p] = 0]
            /\ pc' = [pc EXCEPT ![p] = "open"]
            /\ UNCHANGED rerr
    /\ UNCHANGED <<clientVars, sendVars, att, ctx, connVars, serverVars, boundVars>>

\* reconnect: take reconnectMu; a connection that exists by then is used.
Reconnect(p) ==
    /\ pc[p] = "reconn" /\ reMu = None
    /\ IF conn # None
       THEN /\ rerr' = [rerr EXCEPT ![p] = "nil"]
            /\ pc' = [pc EXCEPT ![p] = "relook"]
            /\ UNCHANGED <<reMu, datt>>
       ELSE /\ reMu' = p
            /\ datt' = [datt EXCEPT ![p] = 0]
            /\ pc' = [pc EXCEPT ![p] = "open"]
            /\ UNCHANGED rerr
    /\ UNCHANGED <<conn, pending, seq, sem, stopped, sendVars, att, ctx, connVars, serverVars,
                   boundVars>>

\* The loop of Call after reconnect returned: read c.conn again, which the
\* reader may have cleared meanwhile; only a failed open is retried.
Relook(p) ==
    /\ pc[p] = "relook"
    /\ \/ /\ conn # None
          /\ SendOn(p, conn, "call")
          /\ LoopsEnd(p)
          /\ UNCHANGED sem
       \/ /\ conn = None /\ rerr[p] = "dial" /\ att[p] < ReconnectRetries
          /\ att' = [att EXCEPT ![p] = @ + 1]
          /\ pc' = [pc EXCEPT ![p] = "backoff"]
          /\ UNCHANGED <<sem, sendVars, datt, rerr>>
       \/ /\ conn = None /\ (rerr[p] # "dial" \/ att[p] >= ReconnectRetries)
          /\ Returns(p, "done", "notconn")
    /\ UNCHANGED <<conn, pending, seq, reMu, stopped, ctx, connVars, serverVars, boundVars>>

\* reconnectRetryDelays: the timer fires, or the context ends.
Backoff(p) ==
    /\ pc[p] = "backoff"
    /\ \/ pc' = [pc EXCEPT ![p] = "reconn"] /\ UNCHANGED <<sem, sendVars, loopVars>>
       \/ ctx[p] = "done" /\ Returns(p, "done", "ctx")
    /\ UNCHANGED <<conn, pending, seq, reMu, stopped, ctx, connVars, serverVars, boundVars>>

(***************************************************************************)
(* Client.dial and dialOnce, run by Connect and by reconnect.              *)
(***************************************************************************)
\* DialContext succeeds: a websocket with its readLoop; authentication is
\* sent on it before anyone else can see it.
OpenOK(p) ==
    /\ pc[p] = "open" /\ nconn < MaxConns /\ ctx[p] = "live"
    /\ LET k == nconn + 1 IN
         /\ nconn' = k
         /\ link' = [link EXCEPT ![k] = "up"]
         /\ reader' = [reader EXCEPT ![k] = "reading"]
         /\ SendOn(p, k, "auth")
    /\ UNCHANGED <<clientVars, loopVars, ctx, hand, serverVars, boundVars>>

\* DialContext fails: errDial, which dial itself does not retry.
OpenFails(p) ==
    /\ pc[p] = "open"
    /\ rerr' = [rerr EXCEPT ![p] = "dial"]
    /\ pc' = [pc EXCEPT ![p] = "dialret"]
    /\ UNCHANGED <<clientVars, sendVars, att, datt, ctx, connVars, serverVars, boundVars>>

\* dialOnce returned errClosedDuringAuth: dial tries again DialRetries times.
ClosedDuringAuth(p) ==
    IF datt[p] < DialRetries
    THEN /\ datt' = [datt EXCEPT ![p] = @ + 1]
         /\ pc' = [pc EXCEPT ![p] = "dialwait"]
         /\ UNCHANGED rerr
    ELSE /\ rerr' = [rerr EXCEPT ![p] = "closed"]
         /\ pc' = [pc EXCEPT ![p] = "dialret"]
         /\ UNCHANGED datt

\* Mutant: publish without looking at done.
Publish_NoDoneCheck(p) ==
    /\ pc[p] = "return" /\ role[p] = "auth" /\ res[p] = "ok"
    /\ conn' = tgt[p]
    /\ rerr' = [rerr EXCEPT ![p] = "nil"]
    /\ pc' = [pc EXCEPT ![p] = "dialret"]
    /\ UNCHANGED <<pending, seq, sem, reMu, stopped, sendVars, att, datt, ctx, connVars, serverVars,
                   boundVars>>

\* authFn returned nil: publish the connection under connMu, unless its
\* readLoop has finished.
Publish(p) ==
    /\ pc[p] = "return" /\ role[p] = "auth" /\ res[p] = "ok"
    /\ IF reader[tgt[p]] = "done"
       THEN ClosedDuringAuth(p) /\ UNCHANGED conn
       ELSE /\ conn' = tgt[p]
            /\ rerr' = [rerr EXCEPT ![p] = "nil"]
            /\ pc' = [pc EXCEPT ![p] = "dialret"]
            /\ UNCHANGED datt
    /\ UNCHANGED <<pending, seq, sem, reMu, stopped, sendVars, att, ctx, connVars, serverVars,
                   boundVars>>

\* authFn failed: dropped := conn.closed, then close the socket.
AuthFails(p) ==
    /\ pc[p] = "return" /\ role[p] = "auth" /\ res[p] # "ok"
    /\ Sever(tgt[p])
    /\ IF closed(tgt[p]) \/ res[p] = "noresp"
       THEN ClosedDuringAuth(p)
       ELSE /\ rerr' = [rerr EXCEPT ![p] = "auth"]
            /\ pc' = [pc EXCEPT ![p] = "dialret"]
            /\ UNCHANGED datt
    /\ UNCHANGED <<clientVars, sendVars, att, ctx, nconn, reader, hand, inbox, authed, applied,
                   boundVars>>

\* dialRetryDelays inside dial: the timer fires, or the context ends.
DialBackoff(p) ==
    /\ pc[p] = "dialwait"
    /\ \/ pc' = [pc EXCEPT ![p] = "open"] /\ UNCHANGED rerr
       \/ /\ ctx[p] = "done"
          /\ rerr' = [rerr EXCEPT ![p] = "ctx"]
          /\ pc' = [pc EXCEPT ![p] = "dialret"]
    /\ UNCHANGED <<clientVars, sendVars, att, datt, ctx, connVars, serverVars, boundVars>>

\* reconnect returns dial's error and releases reconnectMu.
ReconnectReturns(p) ==
    /\ pc[p] = "dialret" /\ p # Cfg
    /\ reMu' = None
    /\ pc' = [pc EXCEPT ![p] = "relook"]
    /\ UNCHANGED <<conn, pending, seq, sem, stopped, sendVars, loopVars, ctx, connVars, serverVars,
                   boundVars>>

\* The loop of Connect: only a failed open is retried; success starts the
\* keepalive and lets the callers begin.
ConnectReturns ==
    /\ pc[Cfg] = "dialret"
    /\ \/ rerr[Cfg] = "nil" /\ Returns(Cfg, "done", "ok")
       \/ /\ rerr[Cfg] = "dial" /\ att[Cfg] < DialRetries
          /\ att' = [att EXCEPT ![Cfg] = @ + 1]
          /\ datt' = [datt EXCEPT ![Cfg] = 0]
          /\ pc' = [pc EXCEPT ![Cfg] = "open"]
          /\ UNCHANGED <<sem, sendVars, rerr>>
       \/ /\ rerr[Cfg] # "nil"
          /\ rerr[Cfg] # "dial" \/ att[Cfg] >= DialRetries \/ ctx[Cfg] = "done"
          /\ Returns(Cfg, "failed", "notconn")
    /\ UNCHANGED <<conn, pending, seq, reMu, stopped, ctx, connVars, serverVars, boundVars>>

(***************************************************************************)
(* Client.send, run for a call, a login, a keepalive or a liveness ping.   *)
(***************************************************************************)
\* Mutant: register without looking at closed.
Register_NoClosedCheck(p) ==
    /\ pc[p] = "register"
    /\ seq' = seq + 1
    /\ pending' = pending \cup {[id |-> seq', conn |-> tgt[p], ch |-> p]}
    /\ sid' = [sid EXCEPT ![p] = seq']
    /\ pc' = [pc EXCEPT ![p] = "write"]
    /\ UNCHANGED <<conn, sem, reMu, stopped, role, tgt, ch, res, loopVars, ctx, connVars,
                   serverVars, boundVars>>

\* Take an id and register the call, unless the connection lost its reader.
Register(p) ==
    /\ pc[p] = "register"
    /\ seq' = seq + 1
    /\ IF closed(tgt[p])
       THEN SendEnds(p, "closed") /\ UNCHANGED pending
       ELSE /\ pending' = pending \cup {[id |-> seq', conn |-> tgt[p], ch |-> p]}
            /\ sid' = [sid EXCEPT ![p] = seq']
            /\ pc' = [pc EXCEPT ![p] = "write"]
            /\ UNCHANGED <<role, tgt, ch, res>>
    /\ UNCHANGED <<conn, sem, reMu, stopped, loopVars, ctx, connVars, serverVars, boundVars>>

\* What the server sees of a request.
op(p) == CASE role[p] = "call" -> p [] role[p] = "auth" -> "auth" [] OTHER -> "ping"

\* WriteJSON succeeds.  On a socket the peer has dropped the bytes are lost.
WriteOK(p) ==
    /\ pc[p] = "write" /\ link[tgt[p]] # "wbroken"
    /\ wire' = IF link[tgt[p]] = "up"
               THEN [wire EXCEPT ![tgt[p]] = @ \cup {[id |-> sid[p], op |-> op(p)]}]
               ELSE wire
    /\ pc' = [pc EXCEPT ![p] = "wait"]
    /\ UNCHANGED <<clientVars, sendVars, loopVars, ctx, connVars, inbox, authed, applied, boundVars>>

\* WriteJSON fails: the peer is gone, or the write deadline passed; after that
\* every write on this websocket fails, while its reader notices nothing.
WriteFails(p) ==
    /\ pc[p] = "write"
    /\ link' = [link EXCEPT ![tgt[p]] = IF @ = "up" THEN "wbroken" ELSE @]
    /\ forget(p)
    /\ SendEnds(p, "werr")
    /\ UNCHANGED <<conn, seq, sem, reMu, stopped, loopVars, ctx, nconn, reader, hand, serverVars,
                   boundVars>>

\* Mutant: a call whose connection was lost is sent again on a new one.
Receive_ResendsLostCall(p) ==
    /\ pc[p] = "wait" /\ ch[p] # None
    /\ IF ch[p] = "lost" /\ role[p] = "call"
       THEN /\ pc' = [pc EXCEPT ![p] = "lookup"]
            /\ sid' = [sid EXCEPT ![p] = 0]
            /\ ch' = [ch EXCEPT ![p] = None]
            /\ UNCHANGED <<role, tgt, res>>
       ELSE SendEnds(p, ch[p])
    /\ UNCHANGED <<clientVars, loopVars, ctx, connVars, serverVars, boundVars>>

\* res := <-p.ch
Receive(p) ==
    /\ pc[p] = "wait" /\ ch[p] # None
    /\ SendEnds(p, ch[p])
    /\ UNCHANGED <<clientVars, loopVars, ctx, connVars, serverVars, boundVars>>

\* <-ctx.Done(): the caller's context was cancelled, or a ping's deadline is over.
WaitCancelled(p) ==
    /\ pc[p] = "wait"
    /\ role[p] \in {"keepalive", "pingcall", "pingauth"} \/ ctx[p] = "done"
    /\ forget(p)
    /\ SendEnds(p, "ctx")
    /\ UNCHANGED <<conn, seq, sem, reMu, stopped, loopVars, ctx, connVars, serverVars, boundVars>>

\* Mutant: only login calls are bounded by a timer.
WaitTimesOut_AuthOnly(p) ==
    /\ pc[p] = "wait" /\ role[p] = "auth"
    /\ forget(p)
    /\ role' = [role EXCEPT ![p] = "pingauth"]
    /\ pc' = [pc EXCEPT ![p] = "register"]
    /\ sid' = [sid EXCEPT ![p] = 0]
    /\ ch' = [ch EXCEPT ![p] = None]
    /\ UNCHANGED <<conn, seq, sem, reMu, stopped, tgt, res, loopVars, ctx, connVars, serverVars,
                   boundVars>>

\* <-timeout: no answer within callTimeout or authCallTimeout; before it
\* returns, send pings the connection (dropIfUnresponsive).
WaitTimesOut(p) ==
    /\ pc[p] = "wait" /\ role[p] \in {"call", "auth"}
    /\ forget(p)
    /\ role' = [role EXCEPT ![p] = IF @ = "call" THEN "pingcall" ELSE "pingauth"]
    /\ pc' = [pc EXCEPT ![p] = "register"]
    /\ sid' = [sid EXCEPT ![p] = 0]
    /\ ch' = [ch EXCEPT ![p] = None]
    /\ UNCHANGED <<conn, seq, sem, reMu, stopped, tgt, res, loopVars, ctx, connVars, serverVars,
                   boundVars>>

\* dropIfUnresponsive: any error of the ping closes the connection, then the
\* timed-out send returns errNoResponse.
PingReturns(p) ==
    /\ pc[p] = "return" /\ role[p] \in {"pingcall", "pingauth"}
    /\ IF res[p] = "ok" THEN UNCHANGED <<link, wire>> ELSE Sever(tgt[p])
    /\ role' = [role EXCEPT ![p] = IF @ = "pingcall" THEN "call" ELSE "auth"]
    /\ res' = [res EXCEPT ![p] = "noresp"]
    /\ UNCHANGED <<clientVars, pc, tgt, sid, ch, loopVars, ctx, nconn, reader, hand, inbox, authed,
                   applied, boundVars>>

\* Call returns what send returned.
SendReturns(p) ==
    /\ pc[p] = "return" /\ role[p] = "call"
    /\ Returns(p, "done", res[p])
    /\ UNCHANGED <<conn, pending, seq, reMu, stopped, ctx, connVars, serverVars, boundVars>>

(***************************************************************************)
(* The keepalive goroutine, and Client.Close.                              *)
(***************************************************************************)
\* A tick with a connection to ping; a tick without one, or of a client that
\* has been idle for too long, does nothing.
KeepaliveTick ==
    /\ Ready /\ ~stopped /\ pc[KA] = "idle" /\ pings < MaxPings
    /\ conn # None
    /\ tgt' = [tgt EXCEPT ![KA] = conn]
    /\ role' = [role EXCEPT ![KA] = "keepalive"]
    /\ pc' = [pc EXCEPT ![KA] = "acquire"]
    /\ pings' = pings + 1
    /\ UNCHANGED <<clientVars, sid, ch, res, loopVars, ctx, connVars, serverVars, closes>>

\* The ping's outcome is ignored.
KeepaliveReturns ==
    /\ pc[KA] = "return"
    /\ Returns(KA, "idle", "none")
    /\ UNCHANGED <<conn, pending, seq, reMu, stopped, ctx, connVars, serverVars, boundVars>>

Close ==
    /\ Ready /\ closes < MaxCloses
    /\ closes' = closes + 1
    /\ stopped' = TRUE
    /\ conn' = None
    /\ IF conn # None THEN Sever(conn) ELSE UNCHANGED <<link, wire>>
    /\ UNCHANGED <<pending, seq, sem, reMu, pc, sendVars, loopVars, ctx, nconn, reader, hand,
                   inbox, authed, applied, pings>>

(***************************************************************************)
(* readLoop of websocket k.                                                *)
(***************************************************************************)
\* Mutant: deliver leaves the entry in pending.
ReadOne_KeepsEntry(k, m) ==
    /\ inbox' = [inbox EXCEPT ![k] = @ \ {m}]
    /\ \/ /\ m.res = "bad"
          /\ reader' = [reader EXCEPT ![k] = "exiting"]
          /\ UNCHANGED <<pending, hand>>
       \/ /\ m.res # "bad"
          /\ \E e \in pending :
               /\ e.id = m.id
               /\ hand' = [hand EXCEPT ![k] = [id |-> e.id, ch |-> e.ch, res |-> m.res]]
          /\ UNCHANGED <<pending, reader>>
       \/ /\ m.res # "bad" /\ \A e \in pending : e.id # m.id
          /\ UNCHANGED <<pending, hand, reader>>

\* Mutant: a message that does not parse is delivered like any other.
ReadOne_NoParseCheck(k, m) ==
    /\ inbox' = [inbox EXCEPT ![k] = @ \ {m}]
    /\ \/ \E e \in pending :
            /\ e.id = m.id
            /\ pending' = pending \ {e}
            /\ hand' = [hand EXCEPT ![k] = [id |-> e.id, ch |-> e.ch, res |-> m.res]]
       \/ (\A e \in pending : e.id # m.id) /\ UNCHANGED <<pending, hand>>
    /\ UNCHANGED reader

\* One message: an unreadable one ends the loop; the entry of any other is
\* removed from pending and its channel is about to be filled.
ReadOne(k, m) ==
    /\ inbox' = [inbox EXCEPT ![k] = @ \ {m}]
    /\ \/ /\ m.res = "bad"
          /\ reader' = [reader EXCEPT ![k] = "exiting"]
          /\ UNCHANGED <<pending, hand>>
       \/ /\ m.res # "bad"
          /\ \E e \in pending :
               /\ e.id = m.id
               /\ pending' = pending \ {e}
               /\ hand' = [hand EXCEPT ![k] = [id |-> e.id, ch |-> e.ch, res |-> m.res]]
          /\ UNCHANGED reader
       \/ /\ m.res # "bad" /\ \A e \in pending : e.id # m.id
          /\ UNCHANGED <<pending, hand, reader>>

\* readMessages takes the next message.
ReadMessage(k) ==
    /\ reader[k] = "reading" /\ hand[k] = None
    /\ \E m \in inbox[k] : ReadOne(k, m)
    /\ UNCHANGED <<conn, seq, sem, reMu, stopped, pc, sendVars, loopVars, ctx, nconn, link, wire,
                   authed, applied, boundVars>>

\* deliver: p.ch <- res
Deliver(k) ==
    /\ hand[k] # None
    /\ CanPut(hand[k].id, hand[k].ch)
    /\ Put(hand[k].id, hand[k].ch, hand[k].res)
    /\ hand' = [hand EXCEPT ![k] = None]
    /\ UNCHANGED <<clientVars, pc, role, tgt, sid, res, loopVars, ctx, nconn, link, reader,
                   serverVars, boundVars>>

\* The read fails: the peer or this client closed the socket.
ReadFails(k) ==
    /\ reader[k] = "reading" /\ hand[k] = None /\ link[k] = "down"
    /\ reader' = [reader EXCEPT ![k] = "exiting"]
    /\ UNCHANGED <<clientVars, pc, sendVars, loopVars, ctx, nconn, link, hand, serverVars, boundVars>>

\* failPending: mark the connection closed and fail every call pending on it.
\* What the socket still holds is never read.
failPending(k) ==
    LET lost == {e \in pending : e.conn = k} IN
    /\ reader[k] = "exiting"
    /\ \A e \in lost : CanPut(e.id, e.ch)
    /\ ch' = [p \in Procs |-> IF \E e \in lost : e.ch = p /\ e.id = sid[p] THEN "lost" ELSE ch[p]]
    /\ pending' = pending \ lost
    /\ reader' = [reader EXCEPT ![k] = "failed"]
    /\ inbox' = [inbox EXCEPT ![k] = {}]
    /\ UNCHANGED <<conn, seq, sem, reMu, stopped, pc, role, tgt, sid, res, loopVars, ctx, nconn,
                   link, hand, wire, authed, applied, boundVars>>

\* Unpublish the connection and close done, under connMu.
ReaderDone(k) ==
    /\ reader[k] = "failed"
    /\ conn' = IF conn = k THEN None ELSE conn
    /\ reader' = [reader EXCEPT ![k] = "done"]
    /\ UNCHANGED <<pending, seq, sem, reMu, stopped, pc, sendVars, loopVars, ctx, nconn, link, hand,
                   serverVars, boundVars>>

(***************************************************************************)
(* The server and the network.                                             *)
(***************************************************************************)
\* The server executes a request it received and answers if it still can.
ServerExecutes(k) ==
    \E m \in wire[k], r \in Replies :
        /\ wire' = [wire EXCEPT ![k] = @ \ {m}]
        /\ applied' = IF m.op \in Callers THEN [applied EXCEPT ![m.op] = @ + 1] ELSE applied
        /\ authed' = IF m.op = "auth" /\ r = "ok" THEN [authed EXCEPT ![k] = TRUE] ELSE authed
        /\ inbox' = IF link[k] # "down" /\ reader[k] = "reading"
                    THEN [inbox EXCEPT ![k] = @ \cup {[id |-> m.id, res |-> r]}]
                    ELSE inbox
        /\ UNCHANGED <<clientVars, pc, sendVars, loopVars, ctx, connVars, boundVars>>

ServerDrops(k) ==
    /\ link[k] \in {"up", "wbroken"}
    /\ Sever(k)
    /\ UNCHANGED <<clientVars, pc, sendVars, loopVars, ctx, nconn, reader, hand, inbox, authed,
                   applied, boundVars>>

\* Terraform cancels an operation.
Cancel(p) ==
    /\ p \in Cancellable /\ ctx[p] = "live" /\ pc[p] \notin {"done", "failed"}
    /\ ctx' = [ctx EXCEPT ![p] = "done"]
    /\ UNCHANGED <<clientVars, pc, sendVars, loopVars, connVars, serverVars, boundVars>>

(***************************************************************************)
(* The specification.                                                      *)
(***************************************************************************)
\* The steps a goroutine takes on its own.
CallStep(p) ==
    \/ Acquire(p) \/ AcquireCancelled(p) \/ Lookup(p) \/ Reconnect(p) \/ Relook(p) \/ Backoff(p)
DialStep(p) ==
    \/ OpenOK(p) \/ OpenFails(p) \/ Publish(p) \/ AuthFails(p) \/ DialBackoff(p)
    \/ ReconnectReturns(p)
SendStep(p) ==
    \/ Register(p) \/ WriteOK(p) \/ WriteFails(p) \/ Receive(p) \/ WaitCancelled(p)
    \/ WaitTimesOut(p) \/ PingReturns(p) \/ SendReturns(p)
ReadStep(k) ==
    \/ ReadMessage(k) \/ Deliver(k) \/ ReadFails(k) \/ failPending(k) \/ ReaderDone(k)
ProcStep(p) == CallStep(p) \/ DialStep(p) \/ SendStep(p)

Next ==
    \/ \E p \in Procs : ProcStep(p) \/ Cancel(p)
    \/ ConnectReturns \/ KeepaliveTick \/ KeepaliveReturns \/ Close
    \/ \E k \in Conns : ReadStep(k) \/ ServerExecutes(k) \/ ServerDrops(k)

Spec == Init /\ [][Next]_vars

\* Go runs every runnable goroutine, its timers fire, and its mutexes are
\* starvation free.  Nothing is assumed of the server or of the network.
FairSpec ==
    /\ Spec
    /\ \A p \in Procs : WF_vars(ProcStep(p))
    /\ \A k \in Conns : WF_vars(ReadStep(k))
    /\ WF_vars(ConnectReturns) /\ WF_vars(KeepaliveReturns)

(***************************************************************************)
(* Properties.                                                             *)
(***************************************************************************)
\* A goroutine in send's select has its answer in the channel or on its way,
\* or is registered on its own connection and that connection has a reader
\* that has not yet failed its pending calls: "a call can never wait on a
\* connection that no longer has a reader" (wsConn, Register, failPending).
NoLostWaiter ==
    \A p \in Procs : pc[p] = "wait" =>
        \/ ch[p] # None
        \/ \E k \in Conns : hand[k] # None /\ hand[k].id = sid[p] /\ hand[k].ch = p
        \/ /\ [id |-> sid[p], conn |-> tgt[p], ch |-> p] \in pending
           /\ ~closed(tgt[p])

\* Other goroutines only ever send on an authenticated socket, and c.conn never
\* keeps a connection whose readLoop has finished (dialOnce, readLoop).
PublishedIsUsable ==
    conn # None => authed[conn] /\ reader[conn] \in {"reading", "exiting", "failed"}

\* At most one open websocket is being read: concurrent callers that find the
\* connection gone never open two (reconnectMu).
OneSession ==
    \A j, k \in Conns :
        /\ reader[j] = "reading" /\ link[j] # "down"
        /\ reader[k] = "reading" /\ link[k] # "down"
        => j = k

\* A readLoop never blocks on a channel, which it would do for failPending
\* while holding pendingMu: a channel gets at most one value (deliver).
ReaderNeverBlocks ==
    /\ \A k \in Conns : hand[k] # None => CanPut(hand[k].id, hand[k].ch)
    /\ \A e \in pending : CanPut(e.id, e.ch)

\* A send that reports a lost connection finds the connection marked closed,
\* which is what dialOnce reads to decide about a retry (failPending).
LossIsMarked ==
    \A p \in Procs :
        \/ ch[p] = "lost"
        \/ pc[p] = "return" /\ res[p] = "lost"
        => closed(tgt[p])

\* The calls outstanding on all of a client's connections together are no more
\* than c.sem has slots, although logins and liveness pings take none of their
\* own (Call, keepalivePing).
OutstandingBounded == Cardinality(pending) <= MaxInFlight

\* A caller's progress and the outcome of its send, in the words of module RPC.
Phase == [p \in Callers |-> IF pc[p] = "done" THEN "returned" ELSE "open"]
Meaning(r) ==
    IF r \in {"ok", "err", "big"} THEN "answered"
    ELSE IF r \in {"closed", "notconn"} THEN "unsent" ELSE "unknown"
Out == [p \in Callers |-> IF pc[p] = "done" THEN Meaning(res[p]) ELSE "none"]

\* Call keeps the promise of module RPC: in particular it never sends a
\* request twice, whatever connections it goes through (Call, send).
Promise == INSTANCE RPC WITH phase <- Phase, out <- Out
CallKeepsPromise == Promise!Spec

\* Every call returns once the client is connected, whatever the server and
\* the network do (the timers of send, the bounds of the retry loops).
EveryCallReturns == \A p \in Callers : Ready ~> (pc[p] = "done")

\* The comment in dialOnce: a login that failed because the connection was lost
\* is recognised as such ("so this is reliable"), and dial retries it.
AuthLossRecognised ==
    \A p \in Procs : pc[p] = "dialret" /\ rerr[p] = "auth" =>
        res[p] \notin {"lost", "closed", "werr"}

\* The comment on isTransient: the limiter keeps our own calls under the
\* server's cap, so the server never has more of them than c.sem has slots.
ServerLoadBounded ==
    \A k \in Conns : Cardinality({m \in wire[k] : m.op \in Callers}) <= MaxInFlight

(***************************************************************************)
(* The inductive invariants behind NoLostWaiter, ReaderNeverBlocks and     *)
(* LossIsMarked (proved in WSClientProofs).                                *)
(***************************************************************************)
\* A goroutine has an id exactly while its send is registered; ids are unique.
IdsInv ==
    /\ \A p \in Procs : /\ sid[p] <= seq
                        /\ sid[p] # 0 <=> pc[p] \in {"write", "wait"}
                        /\ ch[p] # None => sid[p] # 0
    /\ \A p, q \in Procs : sid[p] = sid[q] /\ sid[p] # 0 => p = q

\* An entry of pending belongs to its goroutine's current send, which has no
\* answer yet, on a connection not marked closed.
PendingInv ==
    \A e \in pending :
        /\ e.id # 0 /\ e.id = sid[e.ch]
        /\ e.conn = tgt[e.ch]
        /\ ch[e.ch] = None
        /\ ~closed(e.conn)

\* A response being handed over has left pending, is handed over by one reader
\* only, and its channel is empty or garbage.
HandInv ==
    /\ \A k \in Conns : hand[k] # None =>
          /\ reader[k] = "reading"
          /\ hand[k].id # 0 /\ hand[k].id <= seq
          /\ hand[k].res # "lost"
          /\ CanPut(hand[k].id, hand[k].ch)
          /\ \A e \in pending : e.id # hand[k].id
    /\ \A j, k \in Conns : hand[j] # None /\ hand[k] # None /\ hand[j].id = hand[k].id => j = k

\* NoLostWaiter, already while the request is being written.
RegisteredInv ==
    \A p \in Procs : sid[p] # 0 =>
        \/ ch[p] # None
        \/ \E k \in Conns : hand[k] # None /\ hand[k].id = sid[p] /\ hand[k].ch = p
        \/ [id |-> sid[p], conn |-> tgt[p], ch |-> p] \in pending

(***************************************************************************)
(* The inductive invariants behind PublishedIsUsable, OneSession and       *)
(* LossIsMarked.                                                           *)
(***************************************************************************)
\* Websockets are opened in order, and only an opened one is used.
ConnInv ==
    /\ \A k \in Conns : reader[k] = "none" <=> k > nconn
    /\ \A k \in Conns : k > nconn => wire[k] = {} /\ inbox[k] = {}
    /\ \A p \in Procs : tgt[p] # None => tgt[p] <= nconn
    /\ conn # None => reader[conn] \notin {"none", "done"}

\* p is inside dialOnce, on a websocket that it has not published.
Opened(p) == role[p] \in {"auth", "pingauth"} /\ pc[p] \in {"register", "write", "wait", "return"}

\* p is inside dial and has published nothing.
Dialing(p) == Opened(p) \/ pc[p] \in {"open", "dialwait"}

\* Who dials holds reconnectMu, or is Connect before anybody else runs, and
\* there is no published connection meanwhile.
DialInv ==
    /\ \A p \in Callers : Dialing(p) \/ pc[p] = "dialret" => reMu = p
    /\ ~Ready => \A p \in Callers : pc[p] = "acquire" /\ role[p] = "none"
    /\ \A p \in Procs : Dialing(p) => conn = None
    /\ pc[Cfg] = "dialret" /\ rerr[Cfg] # "nil" => conn = None

\* A websocket that is open and being read is published or about to be.
LiveInv ==
    \A k \in Conns : reader[k] = "reading" /\ link[k] # "down" =>
        conn = k \/ \E p \in Procs : Opened(p) /\ tgt[p] = k

\* A login that succeeded did so on the connection it was sent on.
AuthInv ==
    /\ \A k \in Conns : \A m \in wire[k] :
          m.id # 0 /\ m.id <= seq /\ \A p \in Procs : sid[p] = m.id => tgt[p] = k /\ m.op = op(p)
    /\ \A k \in Conns : \A m \in inbox[k] :
          /\ m.id # 0 /\ m.id <= seq
          /\ \A p \in Procs : sid[p] = m.id /\ role[p] = "auth" /\ m.res = "ok" => authed[tgt[p]]
    /\ \A k \in Conns : hand[k] # None =>
          \A p \in Procs : /\ sid[p] # 0 /\ sid[p] = hand[k].id
                           /\ role[p] = "auth" /\ hand[k].res = "ok"
                           => authed[tgt[p]]
    /\ \A p \in Procs : ch[p] = "ok" /\ role[p] = "auth" => authed[tgt[p]]
    /\ \A p \in Procs : pc[p] = "return" /\ res[p] = "ok" /\ role[p] = "auth" => authed[tgt[p]]
    /\ conn # None => authed[conn]
=============================================================================
