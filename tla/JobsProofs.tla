----------------------------- MODULE JobsProofs -----------------------------
(***************************************************************************)
(* Proofs about Jobs, for every number of operations, of job ids, of       *)
(* misses, of retries and of restarts, and for every mix of operations.    *)
(***************************************************************************)
EXTENDS Jobs, TLAPS

Over(o) == pc[o] \in {"return", "done"}

(***************************************************************************)
(* The inductive invariant.                                                *)
(***************************************************************************)
\* Nothing is executed before CallJob calls, or while its call is given up and
\* under way, and then it is executed at most once; an outcome is set exactly when the operation is over, and methodIsJob has
\* answered only for an operation that waits or is over.
CallInv ==
    \A o \in Ops :
        /\ sent[o] \in {0, 1}
        /\ pc[o] \in {"start", "call"} \/ o \in late => sent[o] = 0
        /\ o \in late => out[o] = "callerr"
        /\ out[o] = "none" <=> ~Over(o)
        /\ known[o] => pc[o] \in {"tick", "poll", "return", "done"}

\* jobMethodsMu is held exactly while its holder fetches, nobody fetches once
\* the metadata is cached, and it is cached by the first successful fetch.
MethodsInv ==
    /\ \A o \in Ops : jmMu = o <=> pc[o] = "fetch"
    /\ cached => jmMu = None
    /\ fetches = IF cached THEN 1 ELSE 0

\* fsMutationMu is held from the call until the return.
MutexInv ==
    \A o \in Ops : kind[o] = "fs" /\ pc[o] \notin {"start", "done"} => fsMu = o

\* A job that has an owner was started by the one call of its owner, which
\* either knows it by its id or has returned the error of that call.
OwnerInv ==
    \A j \in JobIds : owner[j] # None =>
        /\ job[j] # "none"
        /\ kind[owner[j]] # "plain"
        /\ sent[owner[j]] = 1
        /\ raw[owner[j]] = j \/ out[owner[j]] = "callerr"

\* The integer that a job method's call returned is the id of its own job.
RawInv ==
    \A o \in Ops :
        kind[o] # "plain" /\ pc[o] \notin {"start", "call"} /\ out[o] # "callerr" =>
            raw[o] \in JobIds /\ owner[raw[o]] = o

\* What waitJob polls is an integer, and not the result of a method known to be
\* no job; it has not given up yet.
WaitInv ==
    \A o \in Ops :
        /\ ~Over(o) => misses[o] < MaxMisses
        /\ pc[o] \in {"tick", "poll"} => raw[o] # 0 /\ (known[o] => kind[o] # "plain")

\* A job's outcome is that of the operation's own job, and an integer is not
\* handed back for a method that is known to be a job.
OutcomeInv ==
    \A o \in Ops :
        /\ kind[o] # "plain" /\ out[o] = "result" => job[raw[o]] = "SUCCESS"
        /\ kind[o] # "plain" /\ out[o] = "failed" => job[raw[o]] = "FAILED"
        /\ known[o] /\ Over(o) => (out[o] = "raw" <=> kind[o] = "plain")
        /\ known[o] => out[o] # "callerr"

IInv ==
    /\ TypeOK /\ CallInv /\ MethodsInv /\ MutexInv
    /\ OwnerInv /\ RawInv /\ WaitInv /\ OutcomeInv

(***************************************************************************)
(* The invariant holds initially and is kept by every step.                *)
(***************************************************************************)
\* What the proofs need of the constants.
LEMMA JobsFacts ==
    /\ None \notin Ops
    /\ MaxJobs \in Nat /\ MaxMisses \in Nat /\ MaxMisses > 0
    /\ ReadRetries \in Nat /\ MaxRestarts \in Nat
    /\ \A k \in Kinds : k \in [Ops -> {"fs", "job", "plain"}]
    /\ 0 \notin JobIds /\ JobIds \subseteq 0 .. MaxJobs
  BY JobsAssumption DEF JobIds

USE JobsFacts

\* The server hands out only ids that no job has.
LEMMA FreeIsUnused == \A j \in FreeJobs : j \in JobIds /\ job[j] = "none"
  BY DEF FreeJobs, JobIds

\* A job that is started, or none, leaves the job table well typed.
LEMMA StartsTyped ==
    ASSUME TypeOK, NEW o \in Ops,
           UNCHANGED <<job, listed, owner>> \/ \E j \in JobIds : Starts(o, j)
    PROVE  /\ job' \in [JobIds -> {"none", "RUNNING", "SUCCESS", "FAILED"}]
           /\ listed' \in [JobIds -> BOOLEAN] /\ owner' \in [JobIds -> Ops \cup {None}]
  <1> USE DEF TypeOK
  <1>1. CASE UNCHANGED <<job, listed, owner>>
    BY <1>1
  <1>2. CASE \E j \in JobIds : Starts(o, j)
    <2>1. PICK j \in JobIds : Starts(o, j)
      BY <1>2
    <2> QED
      BY <2>1 DEF Starts
  <1> QED
    BY <1>1, <1>2

\* The invariant holds before any operation has started.
LEMMA InitIInv == Init => IInv
  <1> SUFFICES ASSUME Init PROVE IInv
    OBVIOUS
  <1> USE DEF Init
  <1>1. TypeOK
    <2>1. known \in [Ops -> BOOLEAN] /\ cancelled \in [Ops -> BOOLEAN] /\ listed \in [JobIds -> BOOLEAN]
      BY Zenon
    <2>2. /\ att \in [Ops -> 0 .. ReadRetries] /\ misses \in [Ops -> 0 .. MaxMisses]
          /\ raw \in [Ops -> 0 .. MaxJobs] /\ sent \in [Ops -> Nat] /\ restarts \in 0 .. MaxRestarts
      OBVIOUS
    <2>3. job \in [JobIds -> {"none", "RUNNING", "SUCCESS", "FAILED"}]
      OBVIOUS
    <2>4. owner \in [JobIds -> Ops \cup {None}]
      OBVIOUS
    <2>5. pc \in [Ops -> {"start", "call", "meta", "fetch", "tick", "poll", "return", "done"}]
      OBVIOUS
    <2>6. out \in [Ops -> {"none", "raw", "result"} \cup Errors]
      OBVIOUS
    <2> QED
      BY <2>1, <2>2, <2>3, <2>4, <2>5, <2>6, Zenon DEF TypeOK
  <1>2. CallInv /\ MethodsInv /\ MutexInv /\ WaitInv /\ OutcomeInv
    BY DEF CallInv, MethodsInv, MutexInv, WaitInv, OutcomeInv, Over
  <1>3. OwnerInv /\ RawInv
    BY DEF OwnerInv, RawInv
  <1> QED
    BY <1>1, <1>2, <1>3 DEF IInv

\* Every step keeps the state well typed.
LEMMA NextTypeOK == TypeOK /\ WaitInv /\ [Next]_vars => TypeOK'
  <1> SUFFICES ASSUME TypeOK, WaitInv, [Next]_vars PROVE TypeOK'
    OBVIOUS
  <1> USE DEF TypeOK, WaitInv, Over, Errors, opVars, lockVars, serverVars
  <1>1. ASSUME NEW o \in Ops, Start(o) PROVE TypeOK'
    BY <1>1 DEF Start, Goto
  <1>2. ASSUME NEW o \in Ops, CallAnswered(o) PROVE TypeOK'
    <2>1. UNCHANGED <<job, listed, owner>> \/ \E j \in JobIds : Starts(o, j)
      BY <1>2, FreeIsUnused DEF CallAnswered
    <2>2. /\ job' \in [JobIds -> {"none", "RUNNING", "SUCCESS", "FAILED"}]
          /\ listed' \in [JobIds -> BOOLEAN] /\ owner' \in [JobIds -> Ops \cup {None}]
      BY <2>1, StartsTyped
    <2>3. \E r \in 0 .. MaxJobs : raw' = [raw EXCEPT ![o] = r]
      BY <1>2, FreeIsUnused DEF CallAnswered
    <2> QED
      BY <1>2, <2>2, <2>3 DEF CallAnswered, Goto
  <1>3. ASSUME NEW o \in Ops, CallFails(o) PROVE TypeOK'
    <2>1. UNCHANGED <<job, listed, owner>> \/ \E j \in JobIds : Starts(o, j)
      BY <1>3, FreeIsUnused DEF CallFails, Executes
    <2>2. /\ job' \in [JobIds -> {"none", "RUNNING", "SUCCESS", "FAILED"}]
          /\ listed' \in [JobIds -> BOOLEAN] /\ owner' \in [JobIds -> Ops \cup {None}]
      BY <2>1, StartsTyped
    <2>3. sent' \in [Ops -> Nat]
      BY <1>3 DEF CallFails, Executes
    <2> QED
      BY <1>3, <2>2, <2>3 DEF CallFails, Returns, Goto
  <1>4. ASSUME NEW o \in Ops, MethodCached(o) PROVE TypeOK'
    BY <1>4 DEF MethodCached, Dispatch, Returns, Goto
  <1>5. ASSUME NEW o \in Ops, MethodFetch(o) PROVE TypeOK'
    BY <1>5 DEF MethodFetch, Goto
  <1>6. ASSUME NEW o \in Ops, FetchAnswered(o) PROVE TypeOK'
    BY <1>6 DEF FetchAnswered, Answers, Dispatch, Returns, Goto
  <1>7. ASSUME NEW o \in Ops, FetchFails(o) PROVE TypeOK'
    BY <1>7 DEF FetchFails, Answers, Dispatch, Returns, Goto
  <1>8. ASSUME NEW o \in Ops, Tick(o) PROVE TypeOK'
    BY <1>8 DEF Tick, Returns, Goto
  <1>9. ASSUME NEW o \in Ops, PollFinds(o) PROVE TypeOK'
    BY <1>9 DEF PollFinds, Answers, Returns, Goto
  <1>10. ASSUME NEW o \in Ops, PollMisses(o) PROVE TypeOK'
    BY <1>10 DEF PollMisses, Answers, Returns, Goto
  <1>11. ASSUME NEW o \in Ops, PollFails(o) PROVE TypeOK'
    BY <1>11 DEF PollFails, Answers, Returns, Goto
  <1>12. ASSUME NEW o \in Ops, CallRead(o) PROVE TypeOK'
    BY <1>12 DEF CallRead
  <1>13. ASSUME NEW o \in Ops, Finish(o) PROVE TypeOK'
    BY <1>13 DEF Finish, Goto
  <1>14. ASSUME NEW o \in Ops, Cancel(o) PROVE TypeOK'
    BY <1>14 DEF Cancel
  <1>15. ASSUME NEW j \in JobIds, JobEnds(j) PROVE TypeOK'
    BY <1>15 DEF JobEnds
  <1>16. ASSUME Restart PROVE TypeOK'
    BY <1>16 DEF Restart
  <1>17. ASSUME UNCHANGED vars PROVE TypeOK'
    BY <1>17 DEF vars
  <1>18. ASSUME NEW o \in Ops, LateCall(o) PROVE TypeOK'
    <2>1. UNCHANGED <<job, listed, owner>> \/ \E j \in JobIds : Starts(o, j)
      BY <1>18, FreeIsUnused DEF LateCall, Executes
    <2>2. /\ job' \in [JobIds -> {"none", "RUNNING", "SUCCESS", "FAILED"}]
          /\ listed' \in [JobIds -> BOOLEAN] /\ owner' \in [JobIds -> Ops \cup {None}]
      BY <2>1, StartsTyped
    <2>3. sent' \in [Ops -> Nat] /\ late' \subseteq Ops
      BY <1>18 DEF LateCall, Executes
    <2> QED
      BY <1>18, <2>2, <2>3 DEF LateCall
  <1> QED
    BY <1>1, <1>2, <1>3, <1>4, <1>5, <1>6, <1>7, <1>8, <1>9,
       <1>10, <1>11, <1>12, <1>13, <1>14, <1>15, <1>16, <1>17,
       <1>18 DEF Next, OpStep

\* The mutating call is sent only by the one step that leaves "call".
LEMMA NextCall == TypeOK /\ CallInv /\ [Next]_vars => CallInv'
  <1> SUFFICES ASSUME TypeOK, CallInv, [Next]_vars PROVE CallInv'
    OBVIOUS
  <1> USE DEF CallInv, Over, Errors, opVars, lockVars, serverVars
  <1>0. /\ pc \in [Ops -> {"start", "call", "meta", "fetch", "tick", "poll", "return", "done"}]
        /\ out \in [Ops -> {"none", "raw", "result"} \cup Errors]
        /\ known \in [Ops -> BOOLEAN]
        /\ sent \in [Ops -> Nat]
    BY DEF TypeOK
  <1>1. ASSUME NEW o \in Ops, Start(o) PROVE CallInv'
    BY <1>0, <1>1 DEF Start, Goto
  <1>2. ASSUME NEW o \in Ops, CallAnswered(o) PROVE CallInv'
    BY <1>0, <1>2 DEF CallAnswered, Goto, Starts
  <1>3. ASSUME NEW o \in Ops, CallFails(o) PROVE CallInv'
    BY <1>0, <1>3 DEF CallFails, Executes, Returns, Goto, Starts
  <1>4. ASSUME NEW o \in Ops, MethodCached(o) PROVE CallInv'
    BY <1>0, <1>4 DEF MethodCached, Dispatch, Returns, Goto
  <1>5. ASSUME NEW o \in Ops, MethodFetch(o) PROVE CallInv'
    BY <1>0, <1>5 DEF MethodFetch, Goto
  <1>6. ASSUME NEW o \in Ops, FetchAnswered(o) PROVE CallInv'
    BY <1>0, <1>6 DEF FetchAnswered, Answers, Dispatch, Returns, Goto
  <1>7. ASSUME NEW o \in Ops, FetchFails(o) PROVE CallInv'
    BY <1>0, <1>7 DEF FetchFails, Answers, Dispatch, Returns, Goto
  <1>8. ASSUME NEW o \in Ops, Tick(o) PROVE CallInv'
    BY <1>0, <1>8 DEF Tick, Returns, Goto
  <1>9. ASSUME NEW o \in Ops, PollFinds(o) PROVE CallInv'
    BY <1>0, <1>9 DEF PollFinds, Answers, Returns, Goto
  <1>10. ASSUME NEW o \in Ops, PollMisses(o) PROVE CallInv'
    BY <1>0, <1>10 DEF PollMisses, Answers, Returns, Goto
  <1>11. ASSUME NEW o \in Ops, PollFails(o) PROVE CallInv'
    BY <1>0, <1>11 DEF PollFails, Answers, Returns, Goto
  <1>12. ASSUME NEW o \in Ops, CallRead(o) PROVE CallInv'
    BY <1>0, <1>12 DEF CallRead
  <1>13. ASSUME NEW o \in Ops, Finish(o) PROVE CallInv'
    BY <1>0, <1>13 DEF Finish, Goto
  <1>14. ASSUME NEW o \in Ops, Cancel(o) PROVE CallInv'
    BY <1>0, <1>14 DEF Cancel
  <1>15. ASSUME NEW j \in JobIds, JobEnds(j) PROVE CallInv'
    BY <1>0, <1>15 DEF JobEnds
  <1>16. ASSUME Restart PROVE CallInv'
    BY <1>0, <1>16 DEF Restart
  <1>17. ASSUME UNCHANGED vars PROVE CallInv'
    BY <1>0, <1>17 DEF vars
  <1>18. ASSUME NEW o \in Ops, LateCall(o) PROVE CallInv'
    BY <1>0, <1>18 DEF LateCall, Executes, Starts
  <1> QED
    BY <1>1, <1>2, <1>3, <1>4, <1>5, <1>6, <1>7, <1>8, <1>9,
       <1>10, <1>11, <1>12, <1>13, <1>14, <1>15, <1>16, <1>17,
       <1>18 DEF Next, OpStep

\* jobMethodsMu excludes a second fetch.
LEMMA NextMethods == TypeOK /\ MethodsInv /\ [Next]_vars => MethodsInv'
  <1> SUFFICES ASSUME TypeOK, MethodsInv, [Next]_vars PROVE MethodsInv'
    OBVIOUS
  <1> USE DEF MethodsInv, opVars, lockVars, serverVars
  <1>0. /\ pc \in [Ops -> {"start", "call", "meta", "fetch", "tick", "poll", "return", "done"}]
        /\ jmMu \in Ops \cup {None}
        /\ cached \in BOOLEAN
    BY DEF TypeOK
  <1>1. ASSUME NEW o \in Ops, Start(o) PROVE MethodsInv'
    BY <1>0, <1>1 DEF Start, Goto
  <1>2. ASSUME NEW o \in Ops, CallAnswered(o) PROVE MethodsInv'
    BY <1>0, <1>2 DEF CallAnswered, Goto, Starts
  <1>3. ASSUME NEW o \in Ops, CallFails(o) PROVE MethodsInv'
    BY <1>0, <1>3 DEF CallFails, Executes, Returns, Goto, Starts
  <1>4. ASSUME NEW o \in Ops, MethodCached(o) PROVE MethodsInv'
    BY <1>0, <1>4 DEF MethodCached, Dispatch, Returns, Goto
  <1>5. ASSUME NEW o \in Ops, MethodFetch(o) PROVE MethodsInv'
    BY <1>0, <1>5 DEF MethodFetch, Goto
  <1>6. ASSUME NEW o \in Ops, FetchAnswered(o) PROVE MethodsInv'
    BY <1>0, <1>6 DEF FetchAnswered, Answers, Dispatch, Returns, Goto
  <1>7. ASSUME NEW o \in Ops, FetchFails(o) PROVE MethodsInv'
    BY <1>0, <1>7 DEF FetchFails, Answers, Dispatch, Returns, Goto
  <1>8. ASSUME NEW o \in Ops, Tick(o) PROVE MethodsInv'
    BY <1>0, <1>8 DEF Tick, Returns, Goto
  <1>9. ASSUME NEW o \in Ops, PollFinds(o) PROVE MethodsInv'
    BY <1>0, <1>9 DEF PollFinds, Answers, Returns, Goto
  <1>10. ASSUME NEW o \in Ops, PollMisses(o) PROVE MethodsInv'
    BY <1>0, <1>10 DEF PollMisses, Answers, Returns, Goto
  <1>11. ASSUME NEW o \in Ops, PollFails(o) PROVE MethodsInv'
    BY <1>0, <1>11 DEF PollFails, Answers, Returns, Goto
  <1>12. ASSUME NEW o \in Ops, CallRead(o) PROVE MethodsInv'
    BY <1>0, <1>12 DEF CallRead
  <1>13. ASSUME NEW o \in Ops, Finish(o) PROVE MethodsInv'
    BY <1>0, <1>13 DEF Finish, Goto
  <1>14. ASSUME NEW o \in Ops, Cancel(o) PROVE MethodsInv'
    BY <1>0, <1>14 DEF Cancel
  <1>15. ASSUME NEW j \in JobIds, JobEnds(j) PROVE MethodsInv'
    BY <1>0, <1>15 DEF JobEnds
  <1>16. ASSUME Restart PROVE MethodsInv'
    BY <1>0, <1>16 DEF Restart
  <1>17. ASSUME UNCHANGED vars PROVE MethodsInv'
    BY <1>0, <1>17 DEF vars
  <1>18. ASSUME NEW o \in Ops, LateCall(o) PROVE MethodsInv'
    BY <1>0, <1>18 DEF LateCall, Executes, Starts
  <1> QED
    BY <1>1, <1>2, <1>3, <1>4, <1>5, <1>6, <1>7, <1>8, <1>9,
       <1>10, <1>11, <1>12, <1>13, <1>14, <1>15, <1>16, <1>17,
       <1>18 DEF Next, OpStep

\* fsMutationMu is given back by nobody but its holder, when it returns.
LEMMA NextMutex == TypeOK /\ MutexInv /\ [Next]_vars => MutexInv'
  <1> SUFFICES ASSUME TypeOK, MutexInv, [Next]_vars PROVE MutexInv'
    OBVIOUS
  <1> USE DEF MutexInv, opVars, lockVars, serverVars
  <1>0. /\ pc \in [Ops -> {"start", "call", "meta", "fetch", "tick", "poll", "return", "done"}]
        /\ fsMu \in Ops \cup {None}
    BY DEF TypeOK
  <1>1. ASSUME NEW o \in Ops, Start(o) PROVE MutexInv'
    BY <1>0, <1>1 DEF Start, Goto
  <1>2. ASSUME NEW o \in Ops, CallAnswered(o) PROVE MutexInv'
    BY <1>0, <1>2 DEF CallAnswered, Goto, Starts
  <1>3. ASSUME NEW o \in Ops, CallFails(o) PROVE MutexInv'
    BY <1>0, <1>3 DEF CallFails, Executes, Returns, Goto, Starts
  <1>4. ASSUME NEW o \in Ops, MethodCached(o) PROVE MutexInv'
    BY <1>0, <1>4 DEF MethodCached, Dispatch, Returns, Goto
  <1>5. ASSUME NEW o \in Ops, MethodFetch(o) PROVE MutexInv'
    BY <1>0, <1>5 DEF MethodFetch, Goto
  <1>6. ASSUME NEW o \in Ops, FetchAnswered(o) PROVE MutexInv'
    BY <1>0, <1>6 DEF FetchAnswered, Answers, Dispatch, Returns, Goto
  <1>7. ASSUME NEW o \in Ops, FetchFails(o) PROVE MutexInv'
    BY <1>0, <1>7 DEF FetchFails, Answers, Dispatch, Returns, Goto
  <1>8. ASSUME NEW o \in Ops, Tick(o) PROVE MutexInv'
    BY <1>0, <1>8 DEF Tick, Returns, Goto
  <1>9. ASSUME NEW o \in Ops, PollFinds(o) PROVE MutexInv'
    BY <1>0, <1>9 DEF PollFinds, Answers, Returns, Goto
  <1>10. ASSUME NEW o \in Ops, PollMisses(o) PROVE MutexInv'
    BY <1>0, <1>10 DEF PollMisses, Answers, Returns, Goto
  <1>11. ASSUME NEW o \in Ops, PollFails(o) PROVE MutexInv'
    BY <1>0, <1>11 DEF PollFails, Answers, Returns, Goto
  <1>12. ASSUME NEW o \in Ops, CallRead(o) PROVE MutexInv'
    BY <1>0, <1>12 DEF CallRead
  <1>13. ASSUME NEW o \in Ops, Finish(o) PROVE MutexInv'
    BY <1>0, <1>13 DEF Finish, Goto
  <1>14. ASSUME NEW o \in Ops, Cancel(o) PROVE MutexInv'
    BY <1>0, <1>14 DEF Cancel
  <1>15. ASSUME NEW j \in JobIds, JobEnds(j) PROVE MutexInv'
    BY <1>0, <1>15 DEF JobEnds
  <1>16. ASSUME Restart PROVE MutexInv'
    BY <1>0, <1>16 DEF Restart
  <1>17. ASSUME UNCHANGED vars PROVE MutexInv'
    BY <1>0, <1>17 DEF vars
  <1>18. ASSUME NEW o \in Ops, LateCall(o) PROVE MutexInv'
    BY <1>0, <1>18 DEF LateCall, Executes, Starts
  <1> QED
    BY <1>1, <1>2, <1>3, <1>4, <1>5, <1>6, <1>7, <1>8, <1>9,
       <1>10, <1>11, <1>12, <1>13, <1>14, <1>15, <1>16, <1>17,
       <1>18 DEF Next, OpStep

\* A job id is handed out once, to the call that starts the job.
LEMMA NextOwner == TypeOK /\ CallInv /\ OwnerInv /\ [Next]_vars => OwnerInv'
  <1> SUFFICES ASSUME TypeOK, CallInv, OwnerInv, [Next]_vars PROVE OwnerInv'
    OBVIOUS
  <1> USE DEF CallInv, OwnerInv, Over, opVars, lockVars, serverVars
  <1>0. /\ pc \in [Ops -> {"start", "call", "meta", "fetch", "tick", "poll", "return", "done"}]
        /\ out \in [Ops -> {"none", "raw", "result"} \cup Errors]
        /\ raw \in [Ops -> 0 .. MaxJobs]
        /\ sent \in [Ops -> Nat]
        /\ job \in [JobIds -> {"none", "RUNNING", "SUCCESS", "FAILED"}]
        /\ owner \in [JobIds -> Ops \cup {None}]
    BY DEF TypeOK
  <1>1. ASSUME NEW o \in Ops, Start(o) PROVE OwnerInv'
    BY <1>0, <1>1 DEF Start, Goto
  <1>2. ASSUME NEW o \in Ops, CallAnswered(o) PROVE OwnerInv'
    BY <1>0, FreeIsUnused, <1>2 DEF CallAnswered, Goto, Starts
  <1>3. ASSUME NEW o \in Ops, CallFails(o) PROVE OwnerInv'
    BY <1>0, FreeIsUnused, <1>3 DEF CallFails, Executes, Returns, Goto, Starts
  <1>4. ASSUME NEW o \in Ops, MethodCached(o) PROVE OwnerInv'
    BY <1>0, <1>4 DEF MethodCached, Dispatch, Returns, Goto
  <1>5. ASSUME NEW o \in Ops, MethodFetch(o) PROVE OwnerInv'
    BY <1>0, <1>5 DEF MethodFetch, Goto
  <1>6. ASSUME NEW o \in Ops, FetchAnswered(o) PROVE OwnerInv'
    BY <1>0, <1>6 DEF FetchAnswered, Answers, Dispatch, Returns, Goto
  <1>7. ASSUME NEW o \in Ops, FetchFails(o) PROVE OwnerInv'
    BY <1>0, <1>7 DEF FetchFails, Answers, Dispatch, Returns, Goto
  <1>8. ASSUME NEW o \in Ops, Tick(o) PROVE OwnerInv'
    BY <1>0, <1>8 DEF Tick, Returns, Goto
  <1>9. ASSUME NEW o \in Ops, PollFinds(o) PROVE OwnerInv'
    BY <1>0, <1>9 DEF PollFinds, Answers, Returns, Goto
  <1>10. ASSUME NEW o \in Ops, PollMisses(o) PROVE OwnerInv'
    BY <1>0, <1>10 DEF PollMisses, Answers, Returns, Goto
  <1>11. ASSUME NEW o \in Ops, PollFails(o) PROVE OwnerInv'
    BY <1>0, <1>11 DEF PollFails, Answers, Returns, Goto
  <1>12. ASSUME NEW o \in Ops, CallRead(o) PROVE OwnerInv'
    BY <1>0, <1>12 DEF CallRead
  <1>13. ASSUME NEW o \in Ops, Finish(o) PROVE OwnerInv'
    BY <1>0, <1>13 DEF Finish, Goto
  <1>14. ASSUME NEW o \in Ops, Cancel(o) PROVE OwnerInv'
    BY <1>0, <1>14 DEF Cancel
  <1>15. ASSUME NEW j \in JobIds, JobEnds(j) PROVE OwnerInv'
    BY <1>0, <1>15 DEF JobEnds
  <1>16. ASSUME Restart PROVE OwnerInv'
    BY <1>0, <1>16 DEF Restart
  <1>17. ASSUME UNCHANGED vars PROVE OwnerInv'
    BY <1>0, <1>17 DEF vars
  <1>18. ASSUME NEW o \in Ops, LateCall(o) PROVE OwnerInv'
    BY <1>0, FreeIsUnused, <1>18 DEF LateCall, Executes, Starts
  <1> QED
    BY <1>1, <1>2, <1>3, <1>4, <1>5, <1>6, <1>7, <1>8, <1>9,
       <1>10, <1>11, <1>12, <1>13, <1>14, <1>15, <1>16, <1>17,
       <1>18 DEF Next, OpStep

\* Nobody takes over another operation's job.
LEMMA NextRaw == TypeOK /\ CallInv /\ OwnerInv /\ RawInv /\ [Next]_vars => RawInv'
  <1> SUFFICES ASSUME TypeOK, CallInv, OwnerInv, RawInv, [Next]_vars PROVE RawInv'
    OBVIOUS
  <1> USE DEF CallInv, OwnerInv, RawInv, Over, opVars, lockVars, serverVars
  <1>0. /\ pc \in [Ops -> {"start", "call", "meta", "fetch", "tick", "poll", "return", "done"}]
        /\ out \in [Ops -> {"none", "raw", "result"} \cup Errors]
        /\ raw \in [Ops -> 0 .. MaxJobs]
        /\ job \in [JobIds -> {"none", "RUNNING", "SUCCESS", "FAILED"}]
        /\ owner \in [JobIds -> Ops \cup {None}]
    BY DEF TypeOK
  <1>1. ASSUME NEW o \in Ops, Start(o) PROVE RawInv'
    BY <1>0, <1>1 DEF Start, Goto
  <1>2. ASSUME NEW o \in Ops, CallAnswered(o) PROVE RawInv'
    BY <1>0, FreeIsUnused, <1>2 DEF CallAnswered, Goto, Starts
  <1>3. ASSUME NEW o \in Ops, CallFails(o) PROVE RawInv'
    BY <1>0, FreeIsUnused, <1>3 DEF CallFails, Executes, Returns, Goto, Starts
  <1>4. ASSUME NEW o \in Ops, MethodCached(o) PROVE RawInv'
    BY <1>0, <1>4 DEF MethodCached, Dispatch, Returns, Goto
  <1>5. ASSUME NEW o \in Ops, MethodFetch(o) PROVE RawInv'
    BY <1>0, <1>5 DEF MethodFetch, Goto
  <1>6. ASSUME NEW o \in Ops, FetchAnswered(o) PROVE RawInv'
    BY <1>0, <1>6 DEF FetchAnswered, Answers, Dispatch, Returns, Goto
  <1>7. ASSUME NEW o \in Ops, FetchFails(o) PROVE RawInv'
    BY <1>0, <1>7 DEF FetchFails, Answers, Dispatch, Returns, Goto
  <1>8. ASSUME NEW o \in Ops, Tick(o) PROVE RawInv'
    BY <1>0, <1>8 DEF Tick, Returns, Goto
  <1>9. ASSUME NEW o \in Ops, PollFinds(o) PROVE RawInv'
    BY <1>0, <1>9 DEF PollFinds, Answers, Returns, Goto
  <1>10. ASSUME NEW o \in Ops, PollMisses(o) PROVE RawInv'
    BY <1>0, <1>10 DEF PollMisses, Answers, Returns, Goto
  <1>11. ASSUME NEW o \in Ops, PollFails(o) PROVE RawInv'
    BY <1>0, <1>11 DEF PollFails, Answers, Returns, Goto
  <1>12. ASSUME NEW o \in Ops, CallRead(o) PROVE RawInv'
    BY <1>0, <1>12 DEF CallRead
  <1>13. ASSUME NEW o \in Ops, Finish(o) PROVE RawInv'
    BY <1>0, <1>13 DEF Finish, Goto
  <1>14. ASSUME NEW o \in Ops, Cancel(o) PROVE RawInv'
    BY <1>0, <1>14 DEF Cancel
  <1>15. ASSUME NEW j \in JobIds, JobEnds(j) PROVE RawInv'
    BY <1>0, <1>15 DEF JobEnds
  <1>16. ASSUME Restart PROVE RawInv'
    BY <1>0, <1>16 DEF Restart
  <1>17. ASSUME UNCHANGED vars PROVE RawInv'
    BY <1>0, <1>17 DEF vars
  <1>18. ASSUME NEW o \in Ops, LateCall(o) PROVE RawInv'
    BY <1>0, FreeIsUnused, <1>18 DEF LateCall, Executes, Starts
  <1> QED
    BY <1>1, <1>2, <1>3, <1>4, <1>5, <1>6, <1>7, <1>8, <1>9,
       <1>10, <1>11, <1>12, <1>13, <1>14, <1>15, <1>16, <1>17,
       <1>18 DEF Next, OpStep

\* waitJob is entered with an id, and left at the last miss.
LEMMA NextWait == TypeOK /\ CallInv /\ RawInv /\ WaitInv /\ [Next]_vars => WaitInv'
  <1> SUFFICES ASSUME TypeOK, CallInv, RawInv, WaitInv, [Next]_vars PROVE WaitInv'
    OBVIOUS
  <1> USE DEF CallInv, RawInv, WaitInv, Over, opVars, lockVars, serverVars
  <1>0. /\ pc \in [Ops -> {"start", "call", "meta", "fetch", "tick", "poll", "return", "done"}]
        /\ out \in [Ops -> {"none", "raw", "result"} \cup Errors]
        /\ known \in [Ops -> BOOLEAN]
        /\ raw \in [Ops -> 0 .. MaxJobs]
        /\ misses \in [Ops -> 0 .. MaxMisses]
    BY DEF TypeOK
  <1>1. ASSUME NEW o \in Ops, Start(o) PROVE WaitInv'
    BY <1>0, <1>1 DEF Start, Goto
  <1>2. ASSUME NEW o \in Ops, CallAnswered(o) PROVE WaitInv'
    BY <1>0, <1>2 DEF CallAnswered, Goto, Starts
  <1>3. ASSUME NEW o \in Ops, CallFails(o) PROVE WaitInv'
    BY <1>0, <1>3 DEF CallFails, Executes, Returns, Goto, Starts
  <1>4. ASSUME NEW o \in Ops, MethodCached(o) PROVE WaitInv'
    BY <1>0, <1>4 DEF MethodCached, Dispatch, Returns, Goto
  <1>5. ASSUME NEW o \in Ops, MethodFetch(o) PROVE WaitInv'
    BY <1>0, <1>5 DEF MethodFetch, Goto
  <1>6. ASSUME NEW o \in Ops, FetchAnswered(o) PROVE WaitInv'
    BY <1>0, <1>6 DEF FetchAnswered, Answers, Dispatch, Returns, Goto
  <1>7. ASSUME NEW o \in Ops, FetchFails(o) PROVE WaitInv'
    BY <1>0, <1>7 DEF FetchFails, Answers, Dispatch, Returns, Goto
  <1>8. ASSUME NEW o \in Ops, Tick(o) PROVE WaitInv'
    BY <1>0, <1>8 DEF Tick, Returns, Goto
  <1>9. ASSUME NEW o \in Ops, PollFinds(o) PROVE WaitInv'
    BY <1>0, <1>9 DEF PollFinds, Answers, Returns, Goto
  <1>10. ASSUME NEW o \in Ops, PollMisses(o) PROVE WaitInv'
    BY <1>0, <1>10 DEF PollMisses, Answers, Returns, Goto
  <1>11. ASSUME NEW o \in Ops, PollFails(o) PROVE WaitInv'
    BY <1>0, <1>11 DEF PollFails, Answers, Returns, Goto
  <1>12. ASSUME NEW o \in Ops, CallRead(o) PROVE WaitInv'
    BY <1>0, <1>12 DEF CallRead
  <1>13. ASSUME NEW o \in Ops, Finish(o) PROVE WaitInv'
    BY <1>0, <1>13 DEF Finish, Goto
  <1>14. ASSUME NEW o \in Ops, Cancel(o) PROVE WaitInv'
    BY <1>0, <1>14 DEF Cancel
  <1>15. ASSUME NEW j \in JobIds, JobEnds(j) PROVE WaitInv'
    BY <1>0, <1>15 DEF JobEnds
  <1>16. ASSUME Restart PROVE WaitInv'
    BY <1>0, <1>16 DEF Restart
  <1>17. ASSUME UNCHANGED vars PROVE WaitInv'
    BY <1>0, <1>17 DEF vars
  <1>18. ASSUME NEW o \in Ops, LateCall(o) PROVE WaitInv'
    BY <1>0, FreeIsUnused, <1>18 DEF LateCall, Executes, Starts
  <1> QED
    BY <1>1, <1>2, <1>3, <1>4, <1>5, <1>6, <1>7, <1>8, <1>9,
       <1>10, <1>11, <1>12, <1>13, <1>14, <1>15, <1>16, <1>17,
       <1>18 DEF Next, OpStep

\* The outcome comes from the operation's own job, which has ended for good.
LEMMA NextOutcome == TypeOK /\ CallInv /\ OwnerInv /\ RawInv /\ WaitInv /\ OutcomeInv /\ [Next]_vars => OutcomeInv'
  <1> SUFFICES ASSUME TypeOK, CallInv, OwnerInv, RawInv, WaitInv, OutcomeInv, [Next]_vars PROVE OutcomeInv'
    OBVIOUS
  <1> USE DEF CallInv, OwnerInv, RawInv, WaitInv, OutcomeInv, Over, opVars, lockVars, serverVars
  <1>0. /\ pc \in [Ops -> {"start", "call", "meta", "fetch", "tick", "poll", "return", "done"}]
        /\ out \in [Ops -> {"none", "raw", "result"} \cup Errors]
        /\ known \in [Ops -> BOOLEAN]
        /\ raw \in [Ops -> 0 .. MaxJobs]
        /\ job \in [JobIds -> {"none", "RUNNING", "SUCCESS", "FAILED"}]
        /\ owner \in [JobIds -> Ops \cup {None}]
    BY DEF TypeOK
  <1>1. ASSUME NEW o \in Ops, Start(o) PROVE OutcomeInv'
    BY <1>0, <1>1 DEF Start, Goto
  <1>2. ASSUME NEW o \in Ops, CallAnswered(o) PROVE OutcomeInv'
    BY <1>0, FreeIsUnused, <1>2 DEF CallAnswered, Goto, Starts
  <1>3. ASSUME NEW o \in Ops, CallFails(o) PROVE OutcomeInv'
    BY <1>0, FreeIsUnused, <1>3 DEF CallFails, Executes, Returns, Goto, Starts
  <1>4. ASSUME NEW o \in Ops, MethodCached(o) PROVE OutcomeInv'
    BY <1>0, <1>4 DEF MethodCached, Dispatch, Returns, Goto
  <1>5. ASSUME NEW o \in Ops, MethodFetch(o) PROVE OutcomeInv'
    BY <1>0, <1>5 DEF MethodFetch, Goto
  <1>6. ASSUME NEW o \in Ops, FetchAnswered(o) PROVE OutcomeInv'
    BY <1>0, <1>6 DEF FetchAnswered, Answers, Dispatch, Returns, Goto
  <1>7. ASSUME NEW o \in Ops, FetchFails(o) PROVE OutcomeInv'
    BY <1>0, <1>7 DEF FetchFails, Answers, Dispatch, Returns, Goto
  <1>8. ASSUME NEW o \in Ops, Tick(o) PROVE OutcomeInv'
    BY <1>0, <1>8 DEF Tick, Returns, Goto
  <1>9. ASSUME NEW o \in Ops, PollFinds(o) PROVE OutcomeInv'
    BY <1>0, <1>9 DEF PollFinds, Answers, Returns, Goto
  <1>10. ASSUME NEW o \in Ops, PollMisses(o) PROVE OutcomeInv'
    BY <1>0, <1>10 DEF PollMisses, Answers, Returns, Goto
  <1>11. ASSUME NEW o \in Ops, PollFails(o) PROVE OutcomeInv'
    BY <1>0, <1>11 DEF PollFails, Answers, Returns, Goto
  <1>12. ASSUME NEW o \in Ops, CallRead(o) PROVE OutcomeInv'
    BY <1>0, <1>12 DEF CallRead
  <1>13. ASSUME NEW o \in Ops, Finish(o) PROVE OutcomeInv'
    BY <1>0, <1>13 DEF Finish, Goto
  <1>14. ASSUME NEW o \in Ops, Cancel(o) PROVE OutcomeInv'
    BY <1>0, <1>14 DEF Cancel
  <1>15. ASSUME NEW j \in JobIds, JobEnds(j) PROVE OutcomeInv'
    BY <1>0, <1>15 DEF JobEnds
  <1>16. ASSUME Restart PROVE OutcomeInv'
    BY <1>0, <1>16 DEF Restart
  <1>17. ASSUME UNCHANGED vars PROVE OutcomeInv'
    BY <1>0, <1>17 DEF vars
  <1>18. ASSUME NEW o \in Ops, LateCall(o) PROVE OutcomeInv'
    BY <1>0, FreeIsUnused, <1>18 DEF LateCall, Executes, Starts
  <1> QED
    BY <1>1, <1>2, <1>3, <1>4, <1>5, <1>6, <1>7, <1>8, <1>9,
       <1>10, <1>11, <1>12, <1>13, <1>14, <1>15, <1>16, <1>17,
       <1>18 DEF Next, OpStep

\* The parts are kept together.
LEMMA NextIInv == IInv /\ [Next]_vars => IInv'
  BY NextTypeOK, NextCall, NextMethods, NextMutex, NextOwner, NextRaw, NextWait, NextOutcome DEF IInv

\* The invariant holds in every reachable state.
LEMMA InvariantHolds == Spec => []IInv
  BY InitIInv, NextIInv, PTL DEF Spec

(***************************************************************************)
(* The properties.                                                         *)
(***************************************************************************)
\* Every reachable state of CallJob and CallFilesystemMutation is well typed;
\* in particular waitJob never counts more than maxJobPollMisses.
THEOREM TypeCorrect == Spec => []TypeOK
  <1>1. IInv => TypeOK
    BY DEF IInv
  <1> QED
    BY <1>1, InvariantHolds, PTL

\* CallJob reports a known job's success or failure only when the operation's
\* own job succeeded or failed, and a known plain method's result as it is.
THEOREM KnownOutcomesAreTrue == Spec => []KnownJobOutcomeIsTrue
  <1>1. IInv => KnownJobOutcomeIsTrue
    <2> SUFFICES ASSUME IInv, NEW o \in Ops, known[o], Over(o)
                 PROVE  /\ out[o] = "raw" <=> kind[o] = "plain"
                        /\ out[o] = "result" => \E j \in JobIds : owner[j] = o /\ job[j] = "SUCCESS"
                        /\ out[o] = "failed" => \E j \in JobIds : owner[j] = o /\ job[j] = "FAILED"
      BY DEF KnownJobOutcomeIsTrue, Over
    <2>1. out[o] = "raw" <=> kind[o] = "plain"
      BY DEF IInv, OutcomeInv
    <2>2. kind[o] # "plain" => raw[o] \in JobIds /\ owner[raw[o]] = o
      BY DEF IInv, OutcomeInv, RawInv, Over
    <2>3. ASSUME out[o] \in {"result", "failed"}
          PROVE  /\ out[o] = "result" => job[raw[o]] = "SUCCESS"
                 /\ out[o] = "failed" => job[raw[o]] = "FAILED"
      BY <2>1, <2>3 DEF IInv, OutcomeInv
    <2> QED
      BY <2>1, <2>2, <2>3
  <1> QED
    BY <1>1, InvariantHolds, PTL

\* CallJob never sends a mutating call twice.
THEOREM SentAtMostOnce == Spec => []MutationSentOnce
  <1>1. IInv => MutationSentOnce
    BY DEF IInv, CallInv, MutationSentOnce
  <1> QED
    BY <1>1, InvariantHolds, PTL

\* An operation with a running job has not reported a result: while the job of
\* a permission change runs, its call holds fsMutationMu or ended in an error,
\* or in an integer that the metadata could not explain.
LEMMA HeldUntilOver == IInv => FsHeldUntilOver
  <1> SUFFICES ASSUME IInv, NEW j \in JobIds,
                      job[j] = "RUNNING", owner[j] # None, kind[owner[j]] = "fs"
               PROVE  \/ fsMu = owner[j]
                      \/ out[owner[j]] \in Errors
                      \/ out[owner[j]] = "raw" /\ ~known[owner[j]]
    BY DEF FsHeldUntilOver
  <1> DEFINE o == owner[j]
  <1>0. o \in Ops /\ out[o] \in {"none", "raw", "result"} \cup Errors
    BY DEF IInv, TypeOK
  <1>1. pc[o] # "start"
    <2>1. sent[o] = 1
      BY DEF IInv, OwnerInv
    <2> QED
      BY <1>0, <2>1 DEF IInv, CallInv
  <1>2. CASE pc[o] # "done"
    BY <1>0, <1>1, <1>2 DEF IInv, MutexInv
  <1>3. CASE pc[o] = "done"
    <2>1. out[o] # "none"
      BY <1>0, <1>3 DEF IInv, CallInv, Over
    <2>2. out[o] # "result"
      BY <1>0 DEF IInv, OwnerInv, OutcomeInv
    <2>3. out[o] = "raw" => ~known[o]
      BY <1>0, <1>3 DEF IInv, OutcomeInv, Over
    <2> QED
      BY <1>0, <2>1, <2>2, <2>3
  <1> QED
    BY <1>2, <1>3

\* fsMutationMu is held until the job of the permission change is over, unless
\* the call ended in an error.
THEOREM FsMutexHeldUntilOver == Spec => []FsHeldUntilOver
  BY HeldUntilOver, InvariantHolds, PTL

\* At most one CallFilesystemMutation is between its lock and its unlock.
FsOperationsExclusive ==
    \A o, p \in Ops :
        /\ kind[o] = "fs" /\ pc[o] \notin {"start", "done"}
        /\ kind[p] = "fs" /\ pc[p] \notin {"start", "done"}
        => o = p

\* CallFilesystemMutation: calls exclude each other from the call to the return.
THEOREM FsExclusion == Spec => []FsOperationsExclusive
  <1>1. IInv => FsOperationsExclusive
    BY DEF IInv, MutexInv, FsOperationsExclusive
  <1> QED
    BY <1>1, InvariantHolds, PTL

\* What serialising permission changes in the provider is worth on the server:
\* as long as no permission change ended in an error or in an integer that the
\* metadata could not explain, no two of their jobs run at the same time.
FsSerialUnlessErrors ==
    (\A o \in Ops : kind[o] = "fs" => out[o] \in {"none", "result"}) =>
        \A i, j \in JobIds :
            /\ job[i] = "RUNNING" /\ owner[i] # None /\ kind[owner[i]] = "fs"
            /\ job[j] = "RUNNING" /\ owner[j] # None /\ kind[owner[j]] = "fs"
            => i = j

\* The jobs of CallFilesystemMutation are serial unless one of them ends in error.
THEOREM FsJobsSerialUnlessErrors == Spec => []FsSerialUnlessErrors
  <1>1. IInv => FsSerialUnlessErrors
    <2> SUFFICES ASSUME IInv, \A o \in Ops : kind[o] = "fs" => out[o] \in {"none", "result"},
                        NEW i \in JobIds, NEW j \in JobIds,
                        job[i] = "RUNNING", owner[i] # None, kind[owner[i]] = "fs",
                        job[j] = "RUNNING", owner[j] # None, kind[owner[j]] = "fs"
                 PROVE  i = j
      BY DEF FsSerialUnlessErrors
    <2>1. owner[i] \in Ops /\ owner[j] \in Ops
      BY DEF IInv, TypeOK
    <2>2. fsMu = owner[i] /\ fsMu = owner[j]
      BY <2>1, HeldUntilOver DEF FsHeldUntilOver, Errors
    <2>3. raw[owner[i]] = i /\ raw[owner[j]] = j
      BY <2>1 DEF IInv, OwnerInv
    <2> QED
      BY <2>2, <2>3
  <1> QED
    BY <1>1, InvariantHolds, PTL

\* methodIsJob reads the metadata of a service successfully at most once.
THEOREM MethodsFetchedOnce == Spec => []FetchedOnce
  <1>1. IInv => FetchedOnce
    BY DEF IInv, MethodsInv, FetchedOnce
  <1> QED
    BY <1>1, InvariantHolds, PTL
=============================================================================
