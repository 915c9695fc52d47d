--------------------------- MODULE DurableJobsProofs ---------------------------
(***************************************************************************)
(* Proofs about DurableJobs, for every number of workers, jobs and         *)
(* documents and without the bounds of the TLC runs.                       *)
(***************************************************************************)
EXTENDS DurableJobs, UploadClaims, TLAPS

(***************************************************************************)
(* Facts about the operators the actions are built from.                   *)
(***************************************************************************)

\* item_terminal_status ends a job in one of three ways.
LEMMA TerminalStatusRange ==
    ASSUME NEW r
    PROVE  TerminalStatus(r) \in {"SUCCEEDED", "PARTIAL", "FAILED"}
BY DEF TerminalStatus

\* The two that are not a failure say what the recorded results are, once there
\* is a result for every document.
LEMMA TerminalStatusMeaning ==
    ASSUME NEW r, \A i \in Items : r[i] # NoResult
    PROVE  /\ TerminalStatus(r) = "SUCCEEDED" => \A i \in Items : r[i] = "SUCCESS"
           /\ TerminalStatus(r) = "PARTIAL" => \E i \in Items : r[i] # "SUCCESS"
<1>1. 1 \in Items
  BY JobsAssumption DEF Items
<1> QED BY <1>1 DEF TerminalStatus

\* The write of a file result changes one document of one job.
LEMMA RecordEffect ==
    ASSUME TypeOK, NEW w \in Workers, held[w] \in Jobs, NEW d \in Items,
           NEW s \in ItemStatus, RecordResult(w, d, s)
    PROVE  /\ result' \in [Jobs -> [Items -> ItemStatus \cup {NoResult}]]
           /\ resultGen' \in [Jobs -> [Items -> Nat]]
           /\ late' \in [Jobs -> [Items -> Nat]]
           /\ \A j \in Jobs, i \in Items :
                 IF j = held[w] /\ i = d
                 THEN /\ result'[j][i] = s
                      /\ resultGen'[j][i] = heldToken[w]
                      /\ late'[j][i] = IF cancel[j] THEN late[j][i] + 1 ELSE late[j][i]
                 ELSE /\ result'[j][i] = result[j][i]
                      /\ resultGen'[j][i] = resultGen[j][i]
                      /\ late'[j][i] = late[j][i]
           /\ \A j \in Jobs : j # held[w] =>
                 /\ result'[j] = result[j]
                 /\ resultGen'[j] = resultGen[j]
                 /\ late'[j] = late[j]
<1> DEFINE k == held[w]
           n == IF cancel[k] THEN late[k][d] + 1 ELSE late[k][d]
<1>1. /\ result' = [result EXCEPT ![k][d] = s]
      /\ resultGen' = [resultGen EXCEPT ![k][d] = heldToken[w]]
      /\ late' = [late EXCEPT ![k][d] = n]
  BY DEF RecordResult
<1>2. k \in Jobs /\ n \in Nat /\ heldToken[w] \in Nat /\ s \in ItemStatus \cup {NoResult}
  BY DEF TypeOK
<1>3. n = IF cancel[k] THEN late[k][d] + 1 ELSE late[k][d]
  OBVIOUS
<1> HIDE DEF k, n
<1>4. /\ result' \in [Jobs -> [Items -> ItemStatus \cup {NoResult}]]
      /\ \A j \in Jobs, i \in Items :
            result'[j][i] = IF j = k /\ i = d THEN s ELSE result[j][i]
      /\ \A j \in Jobs : j # k => result'[j] = result[j]
  BY <1>1, <1>2 DEF TypeOK
<1>5. /\ resultGen' \in [Jobs -> [Items -> Nat]]
      /\ \A j \in Jobs, i \in Items :
            resultGen'[j][i] = IF j = k /\ i = d THEN heldToken[w] ELSE resultGen[j][i]
      /\ \A j \in Jobs : j # k => resultGen'[j] = resultGen[j]
  BY <1>1, <1>2 DEF TypeOK
<1>6. /\ late' \in [Jobs -> [Items -> Nat]]
      /\ \A j \in Jobs, i \in Items :
            late'[j][i] = IF j = k /\ i = d THEN n ELSE late[j][i]
      /\ \A j \in Jobs : j # k => late'[j] = late[j]
  BY <1>1, <1>2 DEF TypeOK
<1> QED BY <1>3, <1>4, <1>5, <1>6 DEF k

\* A step of a worker inside a document: it writes a result under the claim and
\* goes to a checkpoint, or it writes nothing.
LEMMA WriteCases ==
    ASSUME TypeOK, HandlerInv, NEW w \in Workers, ProcessItem(w) \/ Swallow(w)
    PROVE  /\ UNCHANGED <<jobVars, held, heldToken, heldCancel, faults>>
           /\ pc[w] \in {"work", "swallowed"}
           /\ pc' = [pc EXCEPT ![w] = pc'[w]]
           /\ \/ /\ pc'[w] = "failing"
                 /\ UNCHANGED <<resultVars, done>>
              \/ /\ OwnsClaim(w)
                 /\ pc[w] = "work" /\ pc'[w] \in {"checkpoint", "guarded"}
                 /\ done[w] + 1 \in Items
                 /\ done' = [done EXCEPT ![w] = done[w] + 1]
                 /\ \E s \in ItemStatus :
                       /\ RecordResult(w, done[w] + 1, s)
                       /\ pc'[w] = "guarded" => s = "PARTIAL"
              \/ /\ OwnsClaim(w)
                 /\ pc[w] = "swallowed" /\ pc'[w] = "checkpoint"
                 /\ done[w] \in Items
                 /\ UNCHANGED done
                 /\ RecordResult(w, done[w], "FAILED")
<1> USE JobsAssumption
<1>0. done[w] \in 0..NumItems /\ w \in DOMAIN pc
  BY DEF TypeOK
<1>1. CASE ProcessItem(w)
  <2>1. done[w] + 1 \in Items
    BY <1>0, <1>1 DEF ProcessItem, HandlerInv, Items
  <2>2. CASE Goto(w, "failing") /\ UNCHANGED <<resultVars, done>>
    BY <1>0, <1>1, <2>2 DEF ProcessItem, Goto
  <2>3. ASSUME OwnsClaim(w), NEW s \in ItemStatus, RecordResult(w, done[w] + 1, s),
               Goto(w, "checkpoint") \/ (s = "PARTIAL" /\ Goto(w, "guarded")),
               done' = [done EXCEPT ![w] = @ + 1]
        PROVE  /\ pc' = [pc EXCEPT ![w] = pc'[w]]
               /\ pc'[w] \in {"checkpoint", "guarded"}
               /\ pc'[w] = "guarded" => s = "PARTIAL"
    BY <1>0, <2>3 DEF Goto
  <2> QED BY <1>1, <2>1, <2>2, <2>3 DEF ProcessItem
<1>2. CASE Swallow(w)
  <2>1. done[w] \in Items
    BY <1>0, <1>2 DEF Swallow, HandlerInv, Items
  <2>2. /\ pc' = [pc EXCEPT ![w] = pc'[w]]
        /\ \/ pc'[w] = "failing" /\ UNCHANGED resultVars
           \/ pc'[w] = "checkpoint" /\ OwnsClaim(w) /\ RecordResult(w, done[w], "FAILED")
    BY <1>0, <1>2 DEF Swallow, Goto
  <2> QED BY <1>2, <2>1, <2>2 DEF Swallow
<1> QED BY <1>1, <1>2

--------------------------------------------------------------------------------
(***************************************************************************)
(* Type correctness.                                                       *)
(***************************************************************************)

\* Every variable keeps its type in every step of the queue and its workers.
LEMMA TypeStep == TypeOK /\ HandlerInv /\ [Next]_vars => TypeOK'
<1> SUFFICES ASSUME TypeOK, HandlerInv, [Next]_vars PROVE TypeOK'
  OBVIOUS
<1> USE JobsAssumption
<1>1. ASSUME NEW j \in Jobs, Create(j) PROVE TypeOK'
  BY <1>1 DEF TypeOK, Create, resultVars, workerVars, Status
<1>2. ASSUME NEW j \in Jobs, RequestCancel(j) PROVE TypeOK'
  BY <1>2 DEF TypeOK, RequestCancel, resultVars, workerVars
<1>3. ASSUME NEW j \in Jobs, Retry(j) PROVE TypeOK'
  BY <1>3 DEF TypeOK, Retry, workerVars, Status, NoToken
<1>4. ASSUME NEW j \in Jobs, HeartbeatAges(j) PROVE TypeOK'
  BY <1>4 DEF TypeOK, HeartbeatAges, resultVars, workerVars
<1>5. ASSUME RecoverStale PROVE TypeOK'
  <2>1. status' \in [Jobs -> Status] /\ retries' \in [Jobs -> Nat]
    BY <1>5 DEF TypeOK, RecoverStale, Status
  <2>2. token' \in [Jobs -> Nat] /\ stale' \in [Jobs -> BOOLEAN]
    BY <1>5 DEF TypeOK, RecoverStale, NoToken
  <2> QED
    BY <1>5, <2>1, <2>2 DEF TypeOK, RecoverStale, resultVars, workerVars
<1>6. ASSUME NEW w \in Workers, ClaimNext(w) PROVE TypeOK'
  <2>1. PICK j \in Jobs :
           /\ status' = [status EXCEPT ![j] = "RUNNING"] /\ gen' = [gen EXCEPT ![j] = @ + 1]
           /\ token' = [token EXCEPT ![j] = gen[j] + 1] /\ stale' = [stale EXCEPT ![j] = FALSE]
           /\ held' = [held EXCEPT ![w] = j] /\ heldToken' = [heldToken EXCEPT ![w] = gen[j] + 1]
           /\ heldCancel' = [heldCancel EXCEPT ![w] = cancel[j]]
    BY <1>6 DEF ClaimNext, Queued
  <2>2. /\ status' \in [Jobs -> Status] /\ gen' \in [Jobs -> Nat] /\ token' \in [Jobs -> Nat]
        /\ stale' \in [Jobs -> BOOLEAN]
    BY <2>1 DEF TypeOK, Status
  <2>3. /\ held' \in [Workers -> Jobs \cup {NoJob}] /\ heldToken' \in [Workers -> Nat]
        /\ heldCancel' \in [Workers -> BOOLEAN]
    BY <2>1 DEF TypeOK
  <2>4. /\ done' \in [Workers -> 0..NumItems] /\ pc' \in [Workers -> PC]
        /\ UNCHANGED <<cancel, retries, progress, result, resultGen, late, faults>>
    BY <1>6 DEF TypeOK, ClaimNext, Goto, PC, resultVars
  <2> QED
    BY <2>2, <2>3, <2>4 DEF TypeOK
<1>7. ASSUME NEW w \in Workers, Start(w) PROVE TypeOK'
  BY <1>7 DEF TypeOK, Start, Goto, PC, jobVars, resultVars
<1>8. ASSUME NEW w \in Workers, EnsureNotCancelled(w) PROVE TypeOK'
  BY <1>8 DEF TypeOK, EnsureNotCancelled, Goto, PC, jobVars, resultVars
<1>9. ASSUME NEW w \in Workers, Checkpoint(w) PROVE TypeOK'
  <2>1. pc' \in [Workers -> PC]
    <3>1. \E label \in {"last", "check", "swallowed", "cancelling", "failing"} :
             pc' = [pc EXCEPT ![w] = label]
      BY <1>9 DEF Checkpoint, Goto
    <3> QED BY <3>1 DEF TypeOK, PC
  <2>2. progress' \in [Jobs -> 0..NumItems] /\ stale' \in [Jobs -> BOOLEAN]
    <3>1. \/ UNCHANGED <<progress, stale>>
          \/ /\ progress' = [progress EXCEPT ![held[w]] = done[w]]
             /\ stale' = [stale EXCEPT ![held[w]] = FALSE]
      BY <1>9 DEF Checkpoint
    <3> QED
      BY <3>1 DEF TypeOK
  <2>3. /\ UNCHANGED <<status, token, gen, cancel, retries, result, resultGen, late>>
        /\ UNCHANGED <<held, heldToken, heldCancel, done, faults>>
    BY <1>9 DEF Checkpoint, resultVars
  <2> QED
    BY <2>1, <2>2, <2>3 DEF TypeOK
<1>10. ASSUME NEW w \in Workers, ProcessItem(w) \/ Swallow(w) PROVE TypeOK'
  <2>1. /\ UNCHANGED <<jobVars, held, heldToken, heldCancel, faults>>
        /\ pc' = [pc EXCEPT ![w] = pc'[w]]
        /\ pc'[w] \in {"failing", "checkpoint", "guarded"}
    BY <1>10, WriteCases
  <2>2. pc' \in [Workers -> PC]
    BY <2>1 DEF TypeOK, PC
  <2>3. /\ done' \in [Workers -> 0..NumItems]
        /\ \/ UNCHANGED resultVars
           \/ \E d \in Items, s \in ItemStatus : OwnsClaim(w) /\ RecordResult(w, d, s)
    <3>1. \/ UNCHANGED done
          \/ done[w] + 1 \in Items /\ done' = [done EXCEPT ![w] = done[w] + 1]
      BY <1>10, WriteCases
    <3>2. done' \in [Workers -> 0..NumItems]
      <4>1. \A d \in Items : d \in 0..NumItems
        BY DEF Items
      <4>2. CASE UNCHANGED done
        BY <4>2 DEF TypeOK
      <4>3. CASE done[w] + 1 \in Items /\ done' = [done EXCEPT ![w] = done[w] + 1]
        <5> DEFINE d == done[w] + 1
        <5>1. d \in 0..NumItems /\ done' = [done EXCEPT ![w] = d]
          BY <4>1, <4>3
        <5> HIDE DEF d
        <5> QED BY <5>1 DEF TypeOK
      <4> QED BY <3>1, <4>2, <4>3
    <3>3. \/ UNCHANGED resultVars
          \/ \E d \in Items, s \in ItemStatus : OwnsClaim(w) /\ RecordResult(w, d, s)
      BY <1>10, WriteCases DEF ItemStatus
    <3> QED BY <3>2, <3>3
  <2>4. /\ result' \in [Jobs -> [Items -> ItemStatus \cup {NoResult}]]
        /\ resultGen' \in [Jobs -> [Items -> Nat]]
        /\ late' \in [Jobs -> [Items -> Nat]]
    BY <2>3, RecordEffect DEF TypeOK, resultVars, OwnsClaim
  <2> QED BY <2>1, <2>2, <2>3, <2>4 DEF TypeOK, jobVars
<1>11. ASSUME NEW w \in Workers, Finish(w) PROVE TypeOK'
  <2>1. EndStatus(w) \in Status
    BY TerminalStatusRange DEF EndStatus, Status, Terminal
  <2>2. status' \in [Jobs -> Status] /\ stale' \in [Jobs -> BOOLEAN]
    BY <1>11, <2>1, ZenonT(40) DEF TypeOK, Finish
  <2>3. /\ pc' \in [Workers -> PC]
        /\ held' \in [Workers -> Jobs \cup {NoJob}]
        /\ heldToken' \in [Workers -> Nat]
        /\ heldCancel' \in [Workers -> BOOLEAN]
        /\ done' \in [Workers -> 0..NumItems]
    BY <1>11 DEF TypeOK, Finish, Goto, PC, NoToken
  <2> QED BY <1>11, <2>2, <2>3 DEF TypeOK, Finish, resultVars
<1>12. ASSUME NEW w \in Workers, Crash(w) PROVE TypeOK'
  BY <1>12 DEF TypeOK, Crash, Goto, PC, jobVars, resultVars, NoJob, NoToken
<1>13. CASE UNCHANGED vars
  BY <1>13 DEF TypeOK, vars, jobVars, resultVars, workerVars
<1> QED
  BY <1>1, <1>2, <1>3, <1>4, <1>5, <1>6, <1>7, <1>8, <1>9, <1>10, <1>11, <1>12,
     <1>13 DEF Next, WorkerStep

\* The handler's place in its loop and the number of documents behind it agree.
LEMMA HandlerStep == TypeOK /\ HandlerInv /\ [Next]_vars => HandlerInv'
<1> SUFFICES ASSUME TypeOK, HandlerInv, [Next]_vars PROVE HandlerInv'
  OBVIOUS
<1> USE JobsAssumption
<1>1. CASE UNCHANGED workerVars
  BY <1>1 DEF HandlerInv, workerVars
<1>2. ASSUME NEW w \in Workers, ClaimNext(w) \/ Start(w) \/ Finish(w) \/ Crash(w)
      PROVE  HandlerInv'
  BY <1>2 DEF TypeOK, HandlerInv, ClaimNext, Start, Finish, Crash, Goto
<1>3. ASSUME NEW w \in Workers, EnsureNotCancelled(w) PROVE HandlerInv'
  BY <1>3 DEF TypeOK, HandlerInv, EnsureNotCancelled, Goto
<1>4. ASSUME NEW w \in Workers, Checkpoint(w) PROVE HandlerInv'
  <2>1. /\ done' = done
        /\ pc' = [pc EXCEPT ![w] = pc'[w]]
        /\ pc'[w] \in {"last", "finish"} => done[w] = NumItems
        /\ pc'[w] \in {"check", "work"} => done[w] # NumItems
        /\ pc'[w] # "guarded" /\ (pc'[w] = "swallowed" => pc[w] = "guarded")
    BY <1>4 DEF TypeOK, Checkpoint, Goto
  <2>2. \A v \in Workers : done[v] \in 0..NumItems
    BY DEF TypeOK
  <2>3. ASSUME NEW v \in Workers, v # w PROVE pc'[v] = pc[v]
    BY <2>1, <2>3 DEF TypeOK
  <2>4. ASSUME NEW v \in Workers
        PROVE  /\ pc'[v] \in {"last", "finish"} => done'[v] = NumItems
               /\ pc'[v] \in {"check", "work"} => done'[v] < NumItems
               /\ pc'[v] \in {"guarded", "swallowed"} => done'[v] > 0
    BY <2>1, <2>2, <2>3 DEF HandlerInv
  <2> QED BY <2>4 DEF HandlerInv
<1>5. ASSUME NEW w \in Workers, ProcessItem(w) \/ Swallow(w) PROVE HandlerInv'
  <2>1. /\ pc' = [pc EXCEPT ![w] = pc'[w]]
        /\ \A v \in Workers : v # w => pc'[v] = pc[v] /\ done'[v] = done[v]
        /\ pc'[w] \in {"failing", "checkpoint", "guarded"}
        /\ pc'[w] = "guarded" => done'[w] > 0
    <3>1. /\ pc' = [pc EXCEPT ![w] = pc'[w]] /\ pc'[w] \in {"failing", "checkpoint", "guarded"}
          /\ \/ UNCHANGED done /\ pc'[w] # "guarded"
             \/ done[w] + 1 \in Items /\ done' = [done EXCEPT ![w] = done[w] + 1]
      BY <1>5, WriteCases
    <3>2. \A v \in Workers : v # w => pc'[v] = pc[v] /\ done'[v] = done[v]
      BY <3>1 DEF TypeOK
    <3>3. done[w] + 1 \in Items /\ done' = [done EXCEPT ![w] = done[w] + 1] => done'[w] > 0
      BY DEF TypeOK, Items
    <3> QED BY <3>1, <3>2, <3>3
  <2> QED BY <2>1 DEF HandlerInv
<1> QED
  BY <1>1, <1>2, <1>3, <1>4, <1>5
  DEF Next, WorkerStep, Create, RequestCancel, Retry, HeartbeatAges, RecoverStale,
      vars, workerVars

--------------------------------------------------------------------------------
(***************************************************************************)
(* The inductive invariant, one conjunct at a time.                        *)
(***************************************************************************)

\* Claim numbers stay unique and a running job is owned under the latest one.
LEMMA ClaimStep == TypeOK /\ HandlerInv /\ ClaimInv /\ [Next]_vars => ClaimInv'
<1> SUFFICES ASSUME TypeOK, HandlerInv, ClaimInv, [Next]_vars PROVE ClaimInv'
  OBVIOUS
<1>0. \A j \in Jobs : j # NoJob /\ token[j] \in Nat /\ gen[j] \in Nat
  BY JobsAssumption DEF TypeOK, Jobs, NoJob
<1>1. ASSUME NEW j \in Jobs,
             Create(j) \/ RequestCancel(j) \/ HeartbeatAges(j)
      PROVE  ClaimInv'
  BY <1>1 DEF TypeOK, ClaimInv, Create, RequestCancel, HeartbeatAges, workerVars
<1>2. ASSUME NEW j \in Jobs, Retry(j) PROVE ClaimInv'
  BY <1>0, <1>2 DEF TypeOK, ClaimInv, Retry, workerVars, NoToken, Retryable
<1>3. ASSUME RecoverStale PROVE ClaimInv'
  BY <1>0, <1>3 DEF TypeOK, ClaimInv, RecoverStale, workerVars, NoToken
<1>4. ASSUME NEW w \in Workers, ClaimNext(w) PROVE ClaimInv'
  <2>1. PICK j \in Jobs :
           /\ status[j] = "QUEUED"
           /\ status' = [status EXCEPT ![j] = "RUNNING"]
           /\ gen'    = [gen EXCEPT ![j] = gen[j] + 1]
           /\ token'  = [token EXCEPT ![j] = gen[j] + 1]
           /\ held'       = [held EXCEPT ![w] = j]
           /\ heldToken'  = [heldToken EXCEPT ![w] = gen[j] + 1]
    BY <1>4 DEF ClaimNext, Queued
  <2>2. pc' = [pc EXCEPT ![w] = "claimed"]
    BY <1>4 DEF ClaimNext, Goto
  <2>3. \A k \in Jobs : /\ status'[k] = "RUNNING" => token'[k] = gen'[k]
                        /\ token'[k] <= gen'[k]
                        /\ gen[k] <= gen'[k]
    BY <1>0, <2>1 DEF TypeOK, ClaimInv
  <2>4. ASSUME NEW v \in Workers
        PROVE  /\ pc'[v] = "idle" <=> held'[v] = NoJob
               /\ held'[v] # NoJob => heldToken'[v] > 0 /\ heldToken'[v] <= gen'[held'[v]]
    BY <1>0, <2>1, <2>2, <2>3 DEF TypeOK, ClaimInv
  <2>5. ASSUME NEW u \in Workers, NEW v \in Workers,
               u # v, held'[u] = held'[v], held'[u] # NoJob
        PROVE  heldToken'[u] # heldToken'[v]
    BY <1>0, <2>1, <2>5 DEF TypeOK, ClaimInv
  <2> QED BY <2>3, <2>4, <2>5 DEF ClaimInv
<1>5. ASSUME NEW w \in Workers,
             Start(w) \/ EnsureNotCancelled(w) \/ Checkpoint(w) \/ ProcessItem(w) \/ Swallow(w)
      PROVE  ClaimInv'
  <2>1. /\ UNCHANGED <<status, token, gen, held, heldToken>>
        /\ pc' = [pc EXCEPT ![w] = pc'[w]] /\ pc[w] # "idle" /\ pc'[w] # "idle"
    <3>1. CASE Start(w) \/ EnsureNotCancelled(w) \/ Checkpoint(w)
      BY <3>1 DEF TypeOK, Start, EnsureNotCancelled, Checkpoint, Goto, jobVars
    <3>2. CASE ProcessItem(w) \/ Swallow(w)
      BY <3>2, WriteCases DEF jobVars
    <3> QED BY <1>5, <3>1, <3>2
  <2>2. \A v \in Workers : pc'[v] = "idle" <=> pc[v] = "idle"
    BY <2>1 DEF TypeOK
  <2> QED BY <2>1, <2>2 DEF ClaimInv
<1>6. ASSUME NEW w \in Workers, Finish(w) \/ Crash(w) PROVE ClaimInv'
  <2>1. /\ UNCHANGED <<token, gen>>
        /\ pc'   = [pc EXCEPT ![w] = "idle"]
        /\ held' = [held EXCEPT ![w] = NoJob]
        /\ heldToken' = [heldToken EXCEPT ![w] = NoToken]
    BY <1>6 DEF Finish, Crash, Goto, jobVars
  <2>2. \A j \in Jobs : status'[j] = "RUNNING" => status[j] = "RUNNING"
    <3>1. EndStatus(w) # "RUNNING"
      BY TerminalStatusRange DEF EndStatus
    <3> QED BY <1>6, <3>1 DEF Finish, Crash, TypeOK, jobVars
  <2> QED BY <1>0, <2>1, <2>2 DEF TypeOK, ClaimInv
<1>7. CASE UNCHANGED vars
  BY <1>7 DEF ClaimInv, vars, jobVars, workerVars
<1> QED
  BY <1>1, <1>2, <1>3, <1>4, <1>5, <1>6, <1>7 DEF Next, WorkerStep

\* A result is never of a claim that has not been given out yet.
LEMMA ResultStep ==
    TypeOK /\ HandlerInv /\ ClaimInv /\ ResultInv /\ [Next]_vars => ResultInv'
<1> SUFFICES ASSUME TypeOK, HandlerInv, ClaimInv, ResultInv, [Next]_vars PROVE ResultInv'
  OBVIOUS
<1>1. CASE /\ UNCHANGED resultGen
           /\ \A j \in Jobs : gen[j] <= gen'[j] /\ gen'[j] \in Nat
  BY <1>1 DEF ResultInv, TypeOK
<1>2. ASSUME NEW w \in Workers, ClaimNext(w) PROVE ResultInv'
  <2>1. UNCHANGED resultGen
    BY <1>2 DEF ClaimNext, resultVars
  <2>2. PICK j \in Jobs : gen' = [gen EXCEPT ![j] = @ + 1]
    BY <1>2 DEF ClaimNext, Queued
  <2>3. \A k \in Jobs : gen[k] <= gen'[k] /\ gen'[k] \in Nat
    BY <2>2 DEF TypeOK
  <2> QED BY <1>1, <2>1, <2>3
<1>3. ASSUME NEW w \in Workers, ProcessItem(w) \/ Swallow(w) PROVE ResultInv'
  <2>1. UNCHANGED gen
    BY <1>3, WriteCases DEF jobVars
  <2>2. CASE UNCHANGED resultVars
    BY <2>1, <2>2 DEF ResultInv, resultVars
  <2>3. ASSUME NEW d \in Items, NEW s \in ItemStatus, OwnsClaim(w), RecordResult(w, d, s)
        PROVE  ResultInv'
    <3>1. held[w] \in Jobs /\ heldToken[w] <= gen[held[w]]
      BY <2>3 DEF OwnsClaim, ClaimInv
    <3>2. \A j \in Jobs, i \in Items :
             resultGen'[j][i] = IF j = held[w] /\ i = d THEN heldToken[w] ELSE resultGen[j][i]
      BY <2>3, <3>1, RecordEffect
    <3> QED BY <2>1, <3>1, <3>2 DEF ResultInv
  <2> QED BY <1>3, <2>2, <2>3, WriteCases DEF ItemStatus
<1>4. CASE UNCHANGED <<gen, resultGen>>
  BY <1>4 DEF ResultInv
<1> QED
  BY <1>2, <1>3, <1>4
  DEF Next, WorkerStep, Create, RequestCancel, Retry, HeartbeatAges, RecoverStale, Start,
      EnsureNotCancelled, Checkpoint, Finish, Crash, vars, jobVars, resultVars

\* At most one worker owns the claim of a job: the claim numbers differ.
LEMMA OwnerUnique ==
    ASSUME ClaimInv, NEW v \in Workers, NEW w \in Workers,
           OwnsClaim(v), OwnsClaim(w), held[v] = held[w]
    PROVE  v = w
BY JobsAssumption DEF ClaimInv, OwnsClaim, Jobs, NoJob

\* What an owner knows survives a step that leaves its own state and its job's
\* results alone and clears no cancellation.
LEMMA OwnerFrame ==
    ASSUME OwnerInv, NEW v \in Workers, OwnsClaim(v),
           pc'[v] = pc[v], held'[v] = held[v], heldToken'[v] = heldToken[v],
           heldCancel'[v] = heldCancel[v], done'[v] = done[v],
           result'[held[v]] = result[held[v]],
           resultGen'[held[v]] = resultGen[held[v]],
           late'[held[v]] = late[held[v]],
           cancel[held[v]] => cancel'[held[v]]
    PROVE  OwnerKnows(v)'
BY DEF OwnerInv, OwnerKnows

\* What the owner of a claim knows of its job stays true.
LEMMA OwnerStep ==
    TypeOK /\ HandlerInv /\ ClaimInv /\ ResultInv /\ OwnerInv /\ LateInv /\ [Next]_vars
        => OwnerInv'
<1> SUFFICES ASSUME TypeOK, HandlerInv, ClaimInv, ResultInv, OwnerInv, LateInv, [Next]_vars,
                    NEW v \in Workers, OwnsClaim(v)'
             PROVE  OwnerKnows(v)'
  BY DEF OwnerInv
<1>0. \A j \in Jobs : j # NoJob /\ token[j] \in Nat /\ gen[j] \in Nat
  BY JobsAssumption DEF TypeOK, Jobs, NoJob
<1>1. ASSUME NEW j \in Jobs, Create(j) \/ RequestCancel(j) \/ HeartbeatAges(j)
      PROVE  OwnerKnows(v)'
  <2>1. UNCHANGED <<resultVars, workerVars, token>>
    BY <1>1 DEF Create, RequestCancel, HeartbeatAges
  <2>2. \A k \in Jobs : /\ status'[k] = "RUNNING" => status[k] = "RUNNING"
                        /\ cancel[k] => cancel'[k]
    BY <1>1 DEF TypeOK, Create, RequestCancel, HeartbeatAges
  <2>3. OwnsClaim(v)
    BY <2>1, <2>2 DEF OwnsClaim, workerVars
  <2> QED
    BY <2>1, <2>2, <2>3, OwnerFrame DEF OwnsClaim, resultVars, workerVars
<1>2. ASSUME NEW j \in Jobs, Retry(j) PROVE OwnerKnows(v)'
  <2>1. UNCHANGED <<result, resultGen, workerVars>>
    BY <1>2 DEF Retry
  <2>2. held[v] # j /\ status'[held[v]] = status[held[v]]
        /\ token'[held[v]] = token[held[v]] /\ cancel'[held[v]] = cancel[held[v]]
        /\ late'[held[v]] = late[held[v]]
    BY <1>2, <2>1 DEF TypeOK, Retry, OwnsClaim, workerVars
  <2>3. OwnsClaim(v)
    BY <2>1, <2>2 DEF OwnsClaim, workerVars
  <2> QED
    BY <2>1, <2>2, <2>3, OwnerFrame DEF workerVars
<1>3. ASSUME RecoverStale PROVE OwnerKnows(v)'
  <2>1. UNCHANGED <<cancel, resultVars, workerVars>>
    BY <1>3 DEF RecoverStale
  <2>2. OwnsClaim(v)
    BY <1>3, <2>1 DEF TypeOK, RecoverStale, OwnsClaim, workerVars
  <2> QED
    BY <2>1, <2>2, OwnerFrame DEF resultVars, workerVars
<1>4. ASSUME NEW w \in Workers, ClaimNext(w) PROVE OwnerKnows(v)'
  <2>1. PICK j \in Jobs :
           /\ status[j] = "QUEUED"
           /\ status' = [status EXCEPT ![j] = "RUNNING"]
           /\ token'  = [token EXCEPT ![j] = gen[j] + 1]
           /\ held'       = [held EXCEPT ![w] = j]
           /\ heldToken'  = [heldToken EXCEPT ![w] = gen[j] + 1]
           /\ heldCancel' = [heldCancel EXCEPT ![w] = cancel[j]]
    BY <1>4 DEF ClaimNext, Queued
  <2>2. /\ pc' = [pc EXCEPT ![w] = "claimed"]
        /\ done' = [done EXCEPT ![w] = 0]
        /\ UNCHANGED <<cancel, resultVars>>
    BY <1>4 DEF ClaimNext, Goto
  <2>3. CASE v = w
    <3>1. /\ pc'[v] = "claimed" /\ held'[v] = j /\ done'[v] = 0
          /\ heldCancel'[v] = cancel[j] /\ heldToken'[v] = gen[j] + 1
      BY <2>1, <2>2, <2>3 DEF TypeOK
    <3>2. \A i \in Items : late[j][i] > 0 => cancel[j]
      BY DEF LateInv
    <3>3. \A i \in Items : ~(i <= 0) /\ resultGen[j][i] # gen[j] + 1
      BY <1>0 DEF ResultInv, TypeOK, Items
    <3> QED BY <2>2, <3>1, <3>2, <3>3 DEF OwnerKnows, resultVars
  <2>4. CASE v # w
    <3>1. /\ pc'[v] = pc[v] /\ held'[v] = held[v] /\ done'[v] = done[v]
          /\ heldToken'[v] = heldToken[v] /\ heldCancel'[v] = heldCancel[v]
      BY <2>1, <2>2, <2>4 DEF TypeOK
    <3>2. held[v] \in Jobs /\ held[v] # j
      BY <1>0, <2>1, <3>1 DEF TypeOK, OwnsClaim, ClaimInv
    <3>3. OwnsClaim(v)
      BY <2>1, <3>1, <3>2 DEF TypeOK, OwnsClaim
    <3> QED BY <2>2, <3>1, <3>3, OwnerFrame DEF resultVars
  <2> QED BY <2>3, <2>4
<1>5. ASSUME NEW w \in Workers,
             Start(w) \/ EnsureNotCancelled(w) \/ Checkpoint(w)
      PROVE  OwnerKnows(v)'
  <2>1. /\ UNCHANGED <<status, token, cancel, resultVars, held, heldToken, heldCancel, done>>
        /\ pc' = [pc EXCEPT ![w] = pc'[w]]
    BY <1>5 DEF TypeOK, Start, EnsureNotCancelled, Checkpoint, Goto, jobVars
  <2>2. OwnsClaim(v)
    BY <2>1 DEF OwnsClaim
  <2>3. CASE v = w
    <3>1. OwnerKnows(v)
      BY <2>2 DEF OwnerInv
    <3>2. /\ pc'[v] = "cancelling" => cancel[held[v]]
          /\ pc'[v] \notin {"claimed", "guarded"} /\ (pc'[v] = "swallowed" => pc[v] = "guarded")
          /\ \A i \in Items : late[held[v]][i] > 0 =>
                \/ pc'[v] \in {"cancelling", "failing"}
                \/ pc'[v] = "swallowed" /\ i = done[v]
      <4>1. \A i \in Items : late[held[v]][i] > 0 => cancel[held[v]]
        BY <2>2 DEF LateInv, OwnsClaim
      <4>2. CASE Start(w)
        BY <2>3, <3>1, <4>2 DEF Start, Goto, OwnerKnows, TypeOK
      <4>3. CASE EnsureNotCancelled(w)
        BY <2>2, <2>3, <3>1, <4>1, <4>3 DEF EnsureNotCancelled, Goto, OwnerKnows, TypeOK
      <4>4. CASE Checkpoint(w)
        BY <2>2, <2>3, <3>1, <4>1, <4>4 DEF Checkpoint, Goto, OwnerKnows, TypeOK
      <4> QED BY <1>5, <4>2, <4>3, <4>4
    <3> QED BY <2>1, <3>1, <3>2 DEF OwnerKnows, resultVars
  <2>4. CASE v # w
    <3>1. pc'[v] = pc[v]
      BY <2>1, <2>4 DEF TypeOK
    <3> QED BY <2>1, <2>2, <3>1, OwnerFrame DEF resultVars
  <2> QED BY <2>3, <2>4
<1>6. ASSUME NEW w \in Workers, ProcessItem(w) \/ Swallow(w) PROVE OwnerKnows(v)'
  <2>1. /\ UNCHANGED <<jobVars, held, heldToken, heldCancel>>
        /\ pc' = [pc EXCEPT ![w] = pc'[w]] /\ pc'[w] \in {"checkpoint", "guarded", "failing"}
    BY <1>6, WriteCases
  <2>2. OwnsClaim(v)
    BY <2>1 DEF OwnsClaim, jobVars
  <2>3. OwnerKnows(v)
    BY <2>2 DEF OwnerInv
  <2>4. CASE pc'[w] = "failing" /\ UNCHANGED <<resultVars, done>>
    <3>1. CASE v = w
      BY <2>1, <2>3, <2>4, <3>1 DEF OwnerKnows, jobVars, resultVars
    <3>2. CASE v # w
      <4>1. pc'[v] = pc[v]
        BY <2>1, <3>2 DEF TypeOK
      <4> QED BY <2>1, <2>2, <2>4, <4>1, OwnerFrame DEF jobVars, resultVars
    <3> QED BY <3>1, <3>2
  <2>5. ASSUME NEW d \in Items, NEW s \in ItemStatus, OwnsClaim(w), RecordResult(w, d, s),
               \A u \in Workers : u # w => done'[u] = done[u],
               done'[w] = d, pc'[w] # "failing",
               \/ /\ pc[w] = "work" /\ d = done[w] + 1
                  /\ pc'[w] = "guarded" => s = "PARTIAL"
               \/ pc[w] = "swallowed" /\ d = done[w] /\ pc'[w] = "checkpoint"
        PROVE  OwnerKnows(v)'
    <3>0. held[w] \in Jobs /\ done[w] \in 0..NumItems
      BY <2>5 DEF TypeOK, OwnsClaim
    <3>1. CASE v = w
      <4> DEFINE k == held[v]
      <4>1. \A i \in Items :
              IF i = d
              THEN /\ result'[k][i] = s /\ resultGen'[k][i] = heldToken[v]
                   /\ late'[k][i] = IF cancel[k] THEN late[k][i] + 1 ELSE late[k][i]
              ELSE /\ result'[k][i] = result[k][i] /\ resultGen'[k][i] = resultGen[k][i]
                   /\ late'[k][i] = late[k][i]
        BY <2>5, <3>0, <3>1, RecordEffect
      <4>2. \A i \in Items : i # d => (i <= d <=> i <= done[v])
        BY <2>5, <3>0, <3>1, JobsAssumption DEF Items
      <4>3. ASSUME NEW i \in Items
            PROVE  IF i <= d THEN resultGen'[k][i] = heldToken[v] /\ result'[k][i] # NoResult
                   ELSE resultGen'[k][i] # heldToken[v]
        <5>1. CASE i = d
          BY <4>1, <5>1, JobsAssumption DEF ItemStatus, NoResult, Items
        <5>2. CASE i # d
          BY <2>3, <4>1, <4>2, <5>2 DEF OwnerKnows
        <5> QED BY <5>1, <5>2
      <4>4. \A i \in Items : late[k][i] \in Nat /\ (i # d => late[k][i] = 0)
        <5>1. \A i \in Items : late[k][i] \in Nat
          BY <3>0, <3>1 DEF TypeOK
        <5>2. \A i \in Items : late[k][i] > 0 => pc[w] = "swallowed" /\ i = done[w]
          BY <2>3, <2>5, <3>1 DEF OwnerKnows
        <5> QED BY <2>5, <5>1, <5>2
      <4>5. pc[w] = "work" => late[k][d] = 0
        BY <2>3, <3>0, <3>1, <4>4 DEF OwnerKnows
      <4>6. pc'[v] = "guarded" => result'[k][d] = "PARTIAL" /\ late'[k][d] <= 1
        BY <2>5, <3>1, <4>1, <4>5
      <4>7. pc'[v] \in {"checkpoint", "guarded"}
        BY <2>5, <2>1, <3>1
      <4>8. \A i \in Items : late'[k][i] > 0 => i = d
        BY <4>1, <4>4
      <4>9. done'[v] = d /\ held'[v] = k /\ heldToken'[v] = heldToken[v]
        BY <2>1, <2>5, <3>1
      <4> QED BY <4>3, <4>6, <4>7, <4>8, <4>9 DEF OwnerKnows
    <3>2. CASE v # w
      <4>1. held[v] # held[w]
        BY <2>2, <2>5, <3>2, OwnerUnique
      <4>2. /\ pc'[v] = pc[v] /\ done'[v] = done[v]
            /\ result'[held[v]] = result[held[v]]
            /\ resultGen'[held[v]] = resultGen[held[v]]
            /\ late'[held[v]] = late[held[v]]
        <5>1. pc'[v] = pc[v] /\ done'[v] = done[v]
          BY <2>1, <2>5, <3>2 DEF TypeOK
        <5> QED BY <2>2, <2>5, <3>0, <4>1, <5>1, RecordEffect DEF OwnsClaim
      <4> QED BY <2>1, <2>2, <4>2, OwnerFrame DEF jobVars
    <3> QED BY <3>1, <3>2
  <2>6. CASE OwnsClaim(w) /\ pc[w] = "work" /\ pc'[w] # "failing"
    <3>1. /\ done[w] + 1 \in Items
          /\ done' = [done EXCEPT ![w] = done[w] + 1]
      BY <1>6, <2>6, WriteCases
    <3>2. PICK s \in ItemStatus :
             RecordResult(w, done[w] + 1, s) /\ (pc'[w] = "guarded" => s = "PARTIAL")
      BY <1>6, <2>6, WriteCases
    <3>3. done'[w] = done[w] + 1 /\ \A u \in Workers : u # w => done'[u] = done[u]
      BY <3>1 DEF TypeOK
    <3> QED BY <2>5, <2>6, <3>1, <3>2, <3>3
  <2>7. CASE OwnsClaim(w) /\ pc[w] = "swallowed" /\ pc'[w] # "failing"
    <3>1. /\ done[w] \in Items /\ UNCHANGED done /\ pc'[w] = "checkpoint"
          /\ RecordResult(w, done[w], "FAILED") /\ "FAILED" \in ItemStatus
      BY <1>6, <2>7, WriteCases DEF ItemStatus
    <3> QED BY <2>5, <2>7, <3>1
  <2> QED BY <1>6, <2>4, <2>6, <2>7, WriteCases
<1>7. ASSUME NEW w \in Workers, Finish(w) \/ Crash(w) PROVE OwnerKnows(v)'
  <2>1. /\ UNCHANGED <<token, cancel, resultVars>>
        /\ pc'   = [pc EXCEPT ![w] = "idle"]
        /\ held' = [held EXCEPT ![w] = NoJob]
        /\ heldToken' = [heldToken EXCEPT ![w] = NoToken]
        /\ heldCancel' = [heldCancel EXCEPT ![w] = FALSE]
        /\ done' = [done EXCEPT ![w] = 0]
    BY <1>7 DEF Finish, Crash, Goto, jobVars
  <2>2. \A j \in Jobs : status'[j] = "RUNNING" => status[j] = "RUNNING"
    <3>1. EndStatus(w) # "RUNNING"
      BY TerminalStatusRange DEF EndStatus
    <3> QED BY <1>7, <3>1 DEF Finish, Crash, TypeOK, jobVars
  <2>3. v # w
    BY <1>0, <2>1 DEF OwnsClaim, TypeOK
  <2>4. /\ pc'[v] = pc[v] /\ held'[v] = held[v] /\ done'[v] = done[v]
        /\ heldToken'[v] = heldToken[v] /\ heldCancel'[v] = heldCancel[v]
    BY <2>1, <2>3 DEF TypeOK
  <2>5. OwnsClaim(v)
    BY <2>1, <2>2, <2>4 DEF OwnsClaim
  <2> QED BY <2>1, <2>4, <2>5, OwnerFrame DEF resultVars
<1>8. CASE UNCHANGED vars
  <2>1. OwnsClaim(v)
    BY <1>8 DEF OwnsClaim, vars, jobVars, workerVars
  <2> QED BY <1>8, <2>1, OwnerFrame DEF vars, jobVars, workerVars, resultVars
<1> QED
  BY <1>1, <1>2, <1>3, <1>4, <1>5, <1>6, <1>7, <1>8 DEF Next, WorkerStep

\* File results recorded after a cancellation was requested are of one document.
LEMMA LateStep ==
    TypeOK /\ HandlerInv /\ OwnerInv /\ LateInv /\ [Next]_vars => LateInv'
<1> SUFFICES ASSUME TypeOK, HandlerInv, OwnerInv, LateInv, [Next]_vars PROVE LateInv'
  OBVIOUS
<1>1. ASSUME NEW j \in Jobs, RequestCancel(j) \/ Retry(j) PROVE LateInv'
  <2>1. CASE RequestCancel(j)
    <3>1. UNCHANGED <<late, result>> /\ \A k \in Jobs : cancel[k] => cancel'[k]
      BY <2>1 DEF TypeOK, RequestCancel, resultVars
    <3> QED BY <3>1 DEF LateInv
  <2>2. CASE Retry(j)
    <3>1. \A k \in Jobs : /\ late'[k] = IF k = j THEN [i \in Items |-> 0] ELSE late[k]
                          /\ k # j => cancel'[k] = cancel[k]
                          /\ result'[k] = result[k]
      BY <2>2 DEF TypeOK, Retry
    <3>2. \A i \in Items : late'[j][i] = 0
      BY <3>1
    <3> QED BY <3>1, <3>2 DEF LateInv
  <2> QED BY <1>1, <2>1, <2>2
<1>2. CASE UNCHANGED <<cancel, resultVars>>
  BY <1>2 DEF LateInv, resultVars
<1>3. ASSUME NEW w \in Workers, ProcessItem(w) \/ Swallow(w) PROVE LateInv'
  <2>0. UNCHANGED cancel
    BY <1>3, WriteCases DEF jobVars
  <2>1. CASE UNCHANGED resultVars
    BY <1>2, <2>0, <2>1
  <2>2. ASSUME NEW d \in Items, NEW s \in ItemStatus, OwnsClaim(w), RecordResult(w, d, s),
               \/ pc[w] = "work"
               \/ pc[w] = "swallowed" /\ d = done[w] /\ s = "FAILED"
        PROVE  LateInv'
    <3> DEFINE k == held[w]
    <3>1. k \in Jobs /\ OwnerKnows(w)
      BY <2>2 DEF OwnsClaim, OwnerInv
    <3>2. \A i \in Items : late[k][i] \in Nat /\ (i # d => late[k][i] = 0)
      <4>1. \A i \in Items : late[k][i] \in Nat
        BY <3>1 DEF TypeOK
      <4>2. \A i \in Items : late[k][i] > 0 => pc[w] = "swallowed" /\ i = done[w]
        BY <2>2, <3>1 DEF OwnerKnows
      <4> QED BY <2>2, <4>1, <4>2
    <3>3. /\ pc[w] = "work" => late[k][d] = 0
          /\ pc[w] = "swallowed" => late[k][d] <= 1 /\ s = "FAILED"
      BY <2>2, <3>1, <3>2 DEF OwnerKnows
    <3>4. \A j \in Jobs, i \in Items :
             IF j = k /\ i = d
             THEN /\ result'[j][i] = s
                  /\ late'[j][i] = IF cancel[j] THEN late[j][i] + 1 ELSE late[j][i]
             ELSE result'[j][i] = result[j][i] /\ late'[j][i] = late[j][i]
      BY <2>2, <3>1, RecordEffect
    <3> HIDE DEF k
    <3>5. ASSUME NEW i \in Items
          PROVE  /\ late'[k][i] > 0 => cancel'[k] /\ i = d
                 /\ late'[k][i] <= 2 /\ (late'[k][i] = 2 => result'[k][i] = "FAILED")
      <4>1. CASE i = d
        BY <2>0, <2>2, <3>1, <3>2, <3>3, <3>4, <4>1 DEF LateInv
      <4>2. CASE i # d
        BY <3>1, <3>2, <3>4, <4>2
      <4> QED BY <4>1, <4>2
    <3> QED BY <2>0, <3>4, <3>5 DEF LateInv
  <2>3. CASE pc[w] = "work" /\ ~UNCHANGED resultVars
    BY <1>3, <2>2, <2>3, WriteCases
  <2>4. CASE pc[w] = "swallowed" /\ ~UNCHANGED resultVars
    BY <1>3, <2>2, <2>4, WriteCases DEF ItemStatus
  <2> QED BY <1>3, <2>1, <2>3, <2>4, WriteCases
<1> QED
  BY <1>1, <1>2, <1>3
  DEF Next, WorkerStep, Create, HeartbeatAges, RecoverStale, ClaimNext, Start,
      EnsureNotCancelled, Checkpoint, Finish, Crash, vars, jobVars

\* A job that ended on its results ended on those of the claim that ended it.
LEMMA EndStep ==
    TypeOK /\ HandlerInv /\ ClaimInv /\ OwnerInv /\ EndsOnOwnResults /\ [Next]_vars
        => EndsOnOwnResults'
<1> SUFFICES ASSUME TypeOK, HandlerInv, ClaimInv, OwnerInv, EndsOnOwnResults,
                    [Next]_vars,
                    NEW j \in Jobs, status'[j] \in {"SUCCEEDED", "PARTIAL"}
             PROVE  /\ \A i \in Items : resultGen'[j][i] = gen'[j]
                    /\ status'[j] = TerminalStatus(result'[j])
  BY DEF EndsOnOwnResults, TerminalStatus
<1>1. CASE /\ status'[j] = status[j] /\ gen'[j] = gen[j]
           /\ result'[j] = result[j] /\ resultGen'[j] = resultGen[j]
  BY <1>1 DEF EndsOnOwnResults
<1>2. ASSUME NEW k \in Jobs,
             Create(k) \/ RequestCancel(k) \/ Retry(k) \/ HeartbeatAges(k)
      PROVE  status'[j] = status[j] /\ UNCHANGED <<gen, result, resultGen>>
  BY <1>2 DEF TypeOK, Create, RequestCancel, Retry, HeartbeatAges, resultVars
<1>3. ASSUME RecoverStale
      PROVE  status'[j] = status[j] /\ UNCHANGED <<gen, result, resultGen>>
  BY <1>3 DEF TypeOK, RecoverStale, resultVars
<1>4. ASSUME NEW w \in Workers, ClaimNext(w)
      PROVE  /\ status'[j] = status[j] /\ gen'[j] = gen[j]
             /\ UNCHANGED <<result, resultGen>>
  BY <1>4 DEF TypeOK, ClaimNext, resultVars
<1>5. ASSUME NEW w \in Workers,
             Start(w) \/ EnsureNotCancelled(w) \/ Checkpoint(w) \/ Crash(w)
      PROVE  UNCHANGED <<status, gen, result, resultGen>>
  BY <1>5 DEF Start, EnsureNotCancelled, Checkpoint, Crash, jobVars, resultVars
<1>6. ASSUME NEW w \in Workers, ProcessItem(w) \/ Swallow(w)
      PROVE  /\ UNCHANGED <<status, gen>>
             /\ result'[j] = result[j] /\ resultGen'[j] = resultGen[j]
  <2>1. UNCHANGED <<status, gen>>
    BY <1>6, WriteCases DEF jobVars
  <2>2. CASE UNCHANGED resultVars
    BY <2>1, <2>2 DEF resultVars
  <2>3. ASSUME OwnsClaim(w), NEW d \in Items, NEW s \in ItemStatus, RecordResult(w, d, s)
        PROVE  result'[j] = result[j] /\ resultGen'[j] = resultGen[j]
    <3>1. held[w] # j /\ held[w] \in Jobs
      BY <2>1, <2>3 DEF OwnsClaim
    <3> QED BY <2>3, <3>1, RecordEffect
  <2> QED BY <1>6, <2>1, <2>2, <2>3, WriteCases DEF ItemStatus
<1>7. ASSUME NEW w \in Workers, Finish(w)
      PROVE  /\ \A i \in Items : resultGen'[j][i] = gen'[j]
             /\ status'[j] = TerminalStatus(result'[j])
  <2>1. UNCHANGED <<gen, result, resultGen>>
    BY <1>7 DEF Finish, resultVars
  <2>2. CASE status'[j] = status[j]
    BY <1>1, <2>1, <2>2
  <2>3. CASE status'[j] # status[j]
    <3>1. OwnsClaim(w) /\ held[w] = j /\ status'[j] = EndStatus(w)
      BY <1>7, <2>3 DEF TypeOK, Finish
    <3>2. pc[w] = "finish" /\ status'[j] = TerminalStatus(result[j])
      BY <1>7, <3>1 DEF EndStatus, Finish
    <3>3. done[w] = NumItems /\ OwnerKnows(w) /\ token[j] = gen[j]
      BY <3>1, <3>2 DEF HandlerInv, OwnerInv, ClaimInv, OwnsClaim
    <3>4. \A i \in Items : resultGen[j][i] = gen[j]
      BY <3>1, <3>3, JobsAssumption DEF OwnerKnows, OwnsClaim, Items
    <3> QED BY <2>1, <3>2, <3>4
  <2> QED BY <2>2, <2>3
<1>8. CASE UNCHANGED vars
  BY <1>1, <1>8 DEF vars, jobVars, resultVars
<1> QED
  BY <1>1, <1>2, <1>3, <1>4, <1>5, <1>6, <1>7, <1>8 DEF Next, WorkerStep

--------------------------------------------------------------------------------
(***************************************************************************)
(* The theorems: Init establishes IInv, every step keeps it, and each      *)
(* property follows from it.                                               *)
(***************************************************************************)

\* The strengthened invariant holds of an empty queue with idle workers.
LEMMA InitIInv == Init => IInv
<1> SUFFICES ASSUME Init PROVE IInv
  OBVIOUS
<1>1. TypeOK /\ HandlerInv /\ LateInv /\ ResultInv
  BY JobsAssumption
  DEF Init, TypeOK, HandlerInv, LateInv, ResultInv, Status, PC, NoToken, NoJob
<1>2. ClaimInv
  BY DEF Init, ClaimInv, NoToken, NoJob
<1>3. OwnerInv /\ EndsOnOwnResults
  BY DEF Init, OwnerInv, OwnsClaim, EndsOnOwnResults
<1> QED BY <1>1, <1>2, <1>3 DEF IInv

\* Every step of the queue, its workers and its users keeps the invariant.
LEMMA NextIInv == IInv /\ [Next]_vars => IInv'
BY TypeStep, HandlerStep, ClaimStep, ResultStep, OwnerStep, LateStep, EndStep DEF IInv

\* The strengthened invariant holds in every reachable state.
THEOREM Invariant == Spec => []IInv
BY InitIInv, NextIInv, PTL DEF Spec

\* Type correctness of every reachable state of the job queue and its workers.
THEOREM TypeCorrect == Spec => []TypeOK
<1>1. IInv => TypeOK
  BY DEF IInv
<1> QED BY <1>1, Invariant, PTL

\* Single claim: however often a job is recovered, retried and claimed again,
\* no two workers can write for it at the same time.
THEOREM SingleOwner == Spec => []OneOwner
<1>1. IInv => OneOwner
  BY OwnerUnique DEF IInv, OneOwner
<1> QED BY <1>1, Invariant, PTL

\* A job ends SUCCEEDED or PARTIAL only on results of the claim that ended it.
THEOREM EndsHonestly == Spec => []EndsOnOwnResults
<1>1. IInv => EndsOnOwnResults
  BY DEF IInv
<1> QED BY <1>1, Invariant, PTL

\* A cancellation takes effect at the next document boundary, across claims, and
\* a second result of the document in progress can only make it FAILED.
THEOREM CancelBounded == Spec => []CancelStopsAtBoundary
<1>1. IInv => CancelStopsAtBoundary
  BY DEF IInv, LateInv, CancelStopsAtBoundary
<1> QED BY <1>1, Invariant, PTL

\* File results, progress and end states are written by the owner alone.
THEOREM WritesAreFenced == Spec => FencedWrites
<1> DEFINE
      Written(j) == \/ result'[j] # result[j]
                    \/ progress'[j] # progress[j]
                    \/ status[j] = "RUNNING" /\ status'[j] \in Terminal
      ByOwner(j) == \E w \in Workers : held[w] = j /\ OwnsClaim(w) /\ pc'[w] # pc[w]
<1>1. IInv /\ [Next]_vars => [\A j \in Jobs : Written(j) => ByOwner(j)]_vars
  <2> SUFFICES ASSUME IInv, [Next]_vars, NEW j \in Jobs, Written(j)
               PROVE  ByOwner(j)
    OBVIOUS
  <2>0. TypeOK
    BY DEF IInv
  <2>1. ASSUME NEW k \in Jobs,
               Create(k) \/ RequestCancel(k) \/ Retry(k) \/ HeartbeatAges(k)
        PROVE  FALSE
    BY <2>0, <2>1 DEF TypeOK, Create, RequestCancel, Retry, HeartbeatAges, resultVars,
                      Terminal, Retryable
  <2>2. ASSUME RecoverStale PROVE FALSE
    BY <2>0, <2>2 DEF TypeOK, RecoverStale, resultVars, Terminal
  <2>3. ASSUME NEW w \in Workers,
               ClaimNext(w) \/ Start(w) \/ EnsureNotCancelled(w) \/ Crash(w)
        PROVE  FALSE
    BY <2>0, <2>3 DEF TypeOK, ClaimNext, Start, EnsureNotCancelled, Crash, Queued,
                      jobVars, resultVars, Terminal
  <2>4. ASSUME NEW w \in Workers, Checkpoint(w) PROVE ByOwner(j)
    <3>1. OwnsClaim(w) /\ held[w] = j
      BY <2>0, <2>4 DEF TypeOK, Checkpoint, resultVars, Terminal
    <3>2. pc'[w] # pc[w]
      BY <2>0, <2>4 DEF TypeOK, Checkpoint, Goto
    <3> QED BY <3>1, <3>2
  <2>5. ASSUME NEW w \in Workers, ProcessItem(w) \/ Swallow(w) PROVE ByOwner(j)
    <3>0. HandlerInv
      BY DEF IInv
    <3>1. /\ UNCHANGED <<status, progress>>
          /\ pc[w] \in {"work", "swallowed"} /\ pc'[w] \notin {"work", "swallowed"}
      BY <2>0, <2>5, <3>0, WriteCases DEF jobVars
    <3>2. result'[j] # result[j]
      BY <3>1 DEF Terminal
    <3>3. \E d \in Items, s \in ItemStatus : OwnsClaim(w) /\ RecordResult(w, d, s)
      BY <2>0, <2>5, <3>0, <3>2, WriteCases DEF ItemStatus, resultVars
    <3>4. OwnsClaim(w) /\ held[w] = j
      BY <2>0, <3>2, <3>3, RecordEffect DEF OwnsClaim
    <3> QED BY <3>1, <3>4
  <2>6. ASSUME NEW w \in Workers, Finish(w) PROVE ByOwner(j)
    <3>1. OwnsClaim(w) /\ held[w] = j
      BY <2>0, <2>6 DEF TypeOK, Finish, resultVars, Terminal
    <3>2. pc'[w] # pc[w]
      BY <2>0, <2>6 DEF TypeOK, Finish, Goto
    <3> QED BY <3>1, <3>2
  <2>7. CASE UNCHANGED vars
    BY <2>7 DEF vars, jobVars, resultVars, Terminal
  <2> QED
    BY <2>1, <2>2, <2>3, <2>4, <2>5, <2>6, <2>7 DEF Next, WorkerStep
<1>2. [\A j \in Jobs : Written(j) => ByOwner(j)]_vars =>
         [\A j \in Jobs :
             \/ result'[j] # result[j]
             \/ progress'[j] # progress[j]
             \/ status[j] = "RUNNING" /\ status'[j] \in Terminal
             => \E w \in Workers :
                   held[w] = j /\ OwnsClaim(w) /\ pc'[w] # pc[w]]_vars
  OBVIOUS
<1> QED BY <1>1, <1>2, Invariant, PTL DEF Spec, FencedWrites

--------------------------------------------------------------------------------
(***************************************************************************)
(* Refinement: hiding workers and heartbeats, every step is a step of      *)
(* JobLifecycle or changes nothing there.                                  *)
(***************************************************************************)

\* An empty queue is an empty queue of JobLifecycle.
LEMMA LifecycleInit == Init => Lifecycle!Init
BY DEF Init, Lifecycle!Init, NoToken, NoResult

\* Each step of the queue is one step of JobLifecycle or invisible there.
LEMMA LifecycleStep == IInv /\ [Next]_vars => [Lifecycle!Next]_Lifecycle!vars
<1> SUFFICES ASSUME IInv, [Next]_vars
             PROVE  Lifecycle!Next \/ UNCHANGED Lifecycle!vars
  BY DEF Lifecycle!vars
<1>0. TypeOK /\ HandlerInv /\ ClaimInv /\ OwnerInv
  BY DEF IInv
<1>1. ASSUME NEW j \in Jobs, Create(j) PROVE Lifecycle!Submit(j)
  BY <1>1 DEF Create, resultVars, Lifecycle!Submit
<1>2. ASSUME NEW j \in Jobs, RequestCancel(j) PROVE Lifecycle!Cancel(j)
  BY <1>2 DEF RequestCancel, resultVars, Lifecycle!Cancel
<1>3. ASSUME NEW j \in Jobs, Retry(j) PROVE Lifecycle!Retry(j)
  BY <1>3 DEF Retry, Retryable, NoToken, Lifecycle!Retry
<1>4. ASSUME NEW j \in Jobs, HeartbeatAges(j) PROVE UNCHANGED Lifecycle!vars
  BY <1>4 DEF HeartbeatAges, resultVars, Lifecycle!vars
<1>5. ASSUME RecoverStale PROVE \E S \in SUBSET Jobs : Lifecycle!Requeue(S)
  <2> DEFINE S == {j \in Jobs : status[j] = "RUNNING" /\ stale[j]}
  <2>1. Lifecycle!Requeue(S)
    BY <1>5 DEF RecoverStale, resultVars, NoToken, Lifecycle!Requeue
  <2> QED BY <2>1
<1>6. ASSUME NEW w \in Workers, ClaimNext(w) PROVE \E j \in Jobs : Lifecycle!Claim(j)
  BY <1>6 DEF ClaimNext, Queued, resultVars, Lifecycle!Claim
<1>7. ASSUME NEW w \in Workers,
             Start(w) \/ EnsureNotCancelled(w) \/ Checkpoint(w) \/ Crash(w)
      PROVE  UNCHANGED Lifecycle!vars
  BY <1>7 DEF Start, EnsureNotCancelled, Checkpoint, Crash, jobVars, resultVars,
              Lifecycle!vars
<1>8. ASSUME NEW w \in Workers, ProcessItem(w) \/ Swallow(w)
      PROVE  \/ UNCHANGED Lifecycle!vars
             \/ \E j \in Jobs, i \in Items, s \in ItemStatus : Lifecycle!Record(j, i, s)
             \/ \E j \in Jobs, i \in Items : Lifecycle!Withdraw(j, i)
  <2>1. UNCHANGED jobVars
    BY <1>0, <1>8, WriteCases
  <2>2. CASE UNCHANGED resultVars
    BY <2>1, <2>2 DEF jobVars, resultVars, Lifecycle!vars
  <2> DEFINE k == held[w]
  <2>3. ASSUME OwnsClaim(w), NEW d \in Items, NEW s \in ItemStatus, RecordResult(w, d, s)
        PROVE  /\ Lifecycle!Write(k, d, s)
               /\ k \in Jobs /\ status[k] = "RUNNING" /\ token[k] = heldToken[w]
               /\ OwnerKnows(w) /\ \A i \in Items : late[k][i] \in Nat
    <3>1. k \in Jobs /\ status[k] = "RUNNING" /\ token[k] = heldToken[w] /\ OwnerKnows(w)
      BY <1>0, <2>3 DEF OwnsClaim, OwnerInv
    <3>2. Lifecycle!Write(k, d, s)
      BY <2>1, <2>3, <3>1 DEF jobVars, RecordResult, Lifecycle!Write
    <3> QED BY <1>0, <3>1, <3>2 DEF TypeOK
  <2>4. ASSUME OwnsClaim(w), pc[w] = "work", done[w] + 1 \in Items, NEW s \in ItemStatus,
               RecordResult(w, done[w] + 1, s)
        PROVE  k \in Jobs /\ Lifecycle!Record(k, done[w] + 1, s)
    <3>1. \A i \in Items : late[k][i] = 0
      BY <2>3, <2>4 DEF OwnerKnows
    <3>2. resultGen[k][done[w] + 1] # heldToken[w]
      BY <1>0, <2>3, <2>4 DEF OwnerKnows, TypeOK
    <3> QED BY <2>3, <2>4, <3>1, <3>2 DEF Lifecycle!Record, Lifecycle!OnlyLate
  <2>5. ASSUME OwnsClaim(w), pc[w] = "swallowed", done[w] \in Items,
               RecordResult(w, done[w], "FAILED")
        PROVE  k \in Jobs /\ Lifecycle!Withdraw(k, done[w])
    <3>0. "FAILED" \in ItemStatus
      BY DEF ItemStatus
    <3>1. \A i \in Items : i # done[w] => late[k][i] = 0
      BY <2>3, <2>5, <3>0 DEF OwnerKnows
    <3>2. resultGen[k][done[w]] = heldToken[w] /\ result[k][done[w]] = "PARTIAL"
      BY <2>3, <2>5, <3>0 DEF OwnerKnows, Items
    <3> QED BY <2>3, <2>5, <3>0, <3>1, <3>2 DEF Lifecycle!Withdraw, Lifecycle!OnlyLate
  <2> QED BY <1>0, <1>8, <2>2, <2>4, <2>5, WriteCases
<1>9. ASSUME NEW w \in Workers, Finish(w)
      PROVE  \/ UNCHANGED Lifecycle!vars
             \/ \E j \in Jobs, s \in Terminal : Lifecycle!Finish(j, s)
  <2>1. UNCHANGED <<token, gen, cancel, resultVars>>
    BY <1>9 DEF Finish
  <2>2. CASE UNCHANGED status
    BY <2>1, <2>2 DEF resultVars, Lifecycle!vars
  <2>3. CASE OwnsClaim(w) /\ status' = [status EXCEPT ![held[w]] = EndStatus(w)]
    <3>1. /\ held[w] \in Jobs /\ status[held[w]] = "RUNNING"
          /\ token[held[w]] = heldToken[w] /\ OwnerKnows(w)
      BY <1>0, <2>3 DEF OwnsClaim, OwnerInv
    <3>2. EndStatus(w) \in Terminal
      BY TerminalStatusRange DEF EndStatus, Terminal
    <3>3. EndStatus(w) = "CANCELLED" => cancel[held[w]]
      BY <1>9, <3>1, TerminalStatusRange DEF EndStatus, Finish, OwnerKnows
    <3>4. EndStatus(w) \in {"SUCCEEDED", "PARTIAL"} =>
             /\ \A i \in Items : /\ resultGen[held[w]][i] = token[held[w]]
                                 /\ result[held[w]][i] # NoResult
             /\ EndStatus(w) = TerminalStatus(result[held[w]])
      <4>1. EndStatus(w) \in {"SUCCEEDED", "PARTIAL"} =>
               pc[w] = "finish" /\ EndStatus(w) = TerminalStatus(result[held[w]])
        BY <1>9 DEF EndStatus, Finish
      <4>2. pc[w] = "finish" => done[w] = NumItems
        BY <1>0 DEF HandlerInv
      <4> QED BY <3>1, <4>1, <4>2, JobsAssumption DEF OwnerKnows, Items
    <3>5. /\ EndStatus(w) = "SUCCEEDED" =>
                \A i \in Items : result[held[w]][i] = "SUCCESS"
          /\ EndStatus(w) = "PARTIAL" =>
                \E i \in Items : result[held[w]][i] # "SUCCESS"
      BY <3>4, TerminalStatusMeaning
    <3>6. Lifecycle!Finish(held[w], EndStatus(w))
      BY <2>1, <2>3, <3>1, <3>3, <3>4, <3>5
      DEF resultVars, Lifecycle!Finish, Lifecycle!AllRecorded
    <3> QED BY <3>1, <3>2, <3>6
  <2> QED BY <1>9, <2>2, <2>3 DEF Finish
<1>10. CASE UNCHANGED vars
  BY <1>10 DEF vars, jobVars, resultVars, Lifecycle!vars
<1> QED
  BY <1>1, <1>2, <1>3, <1>4, <1>5, <1>6, <1>7, <1>8, <1>9, <1>10
  DEF Next, WorkerStep, Lifecycle!Next, ItemStatus, Terminal

\* The queue with its workers, crashes and stale claims implements JobLifecycle.
THEOREM Implements == Spec => ImplementsLifecycle
<1> QED
  BY LifecycleInit, LifecycleStep, Invariant, PTL
  DEF Spec, ImplementsLifecycle, Lifecycle!Spec

--------------------------------------------------------------------------------
(***************************************************************************)
(* Uploads under an idempotency key, whose transaction creates the jobs.   *)
(***************************************************************************)

\* What the type invariant says about one request and its key.
LEMMA RequestTypes ==
  ASSUME UploadTypeOK, NEW r \in Requests
  PROVE  /\ key[r] \in Keys /\ body[r] \in Bodies /\ body[r] # None
         /\ Files[body[r]] \in SUBSET Contents
         /\ claim[key[r]] \in Claims /\ ledger[key[r]] \in Entries
         /\ docs[key[r]] \in SUBSET (Requests \cup {Legacy})
BY UploadAssumption DEF UploadTypeOK, Claims, Entries

\* Steps that only move a request: no file, row, entry or answer changes.
LEMMA Moves ==
  ASSUME UploadInv, NEW r \in Requests, NEW label \in {"staged", "validated", "refused"},
         at[r] \notin {"mutating", "answered"},
         label \in {"staged", "validated"} => at[r] \in {"idle", "staged"},
         Reach(r, label), UNCHANGED <<dbVars, disk, writer, key, body, generation, linked, fresh, reply, sysVars>>
  PROVE  UploadInv'
<1>. USE DEF UploadInv
<1>1. /\ at \in [Requests -> Labels] /\ at' = [at EXCEPT ![r] = label]
      /\ UNCHANGED <<claim, ledger, rows, docs, disk, writer, key, body, generation, linked, fresh, reply, limit, crashes>>
  BY DEF UploadTypeOK, Reach, dbVars, sysVars
<1>2. at' \in [Requests -> Labels] /\ at'[r] = label /\ \A q \in Requests : q # r => at'[q] = at[q]
  BY <1>1 DEF Labels
<1>3. UploadTypeOK'
  BY <1>1, <1>2 DEF UploadTypeOK
<1>4. Writing'
  <2>1. label # "mutating" /\ at[r] # "mutating"
    OBVIOUS
  <2>2. \A q \in Requests : at'[q] = "mutating" <=> at[q] = "mutating"
    BY <1>2, <2>1
  <2>. QED
    BY <1>1, <2>2 DEF Writing
<1>5. Unpublished'
  BY <1>1, <1>2 DEF Unpublished
<1>6. Answered' /\ RowsHaveFiles'
  BY <1>1 DEF Answered, RowsHaveFiles
<1>. QED
  BY <1>3, <1>4, <1>5, <1>6

\* Steps of a request at its claim, which leave the files and the ledger alone.
LEMMA ClaimMoves ==
  ASSUME UploadInv, NEW r \in Requests, NEW new \in Claims, NEW label \in {"claimed", "answered"},
         at[r] \in {"validated", "claimed"},
         claim' = [claim EXCEPT ![key[r]] = new],
         new.body # None, new.state # "NONE",
         new.state = "COMPLETED" => new.answer \in docs[key[r]],
         Reach(r, label), generation' \in [Requests -> Nat], reply' \in [Requests -> Requests \cup {Legacy, None}],
         UNCHANGED <<ledger, rows, docs, disk, writer, key, body, linked, fresh, sysVars>>
  PROVE  UploadInv'
<1>. USE DEF UploadInv
<1>1. /\ at \in [Requests -> Labels] /\ claim \in [Keys -> Claims] /\ key[r] \in Keys
      /\ at' = [at EXCEPT ![r] = label] /\ UNCHANGED <<limit, crashes>>
  BY RequestTypes DEF UploadTypeOK, Reach, sysVars, Claims
<1>2. /\ at' \in [Requests -> Labels] /\ at'[r] = label
      /\ \A q \in Requests : q # r => at'[q] = at[q]
  BY <1>1 DEF Labels
<1>3. claim' \in [Keys -> Claims] /\ claim'[key[r]] = new /\ \A k \in Keys : k # key[r] => claim'[k] = claim[k]
  BY <1>1
<1>4. UploadTypeOK'
  BY <1>1, <1>2, <1>3 DEF UploadTypeOK, Claims
<1>5. Writing' /\ RowsHaveFiles' /\ Unpublished'
  BY <1>1, <1>2 DEF Writing, Unpublished, RowsHaveFiles
<1>6. Answered'
  BY <1>1, <1>3 DEF Answered
<1>. QED
  BY <1>4, <1>5, <1>6

\* A claim loses its lease, its holder or both, and nothing else of it changes.
LEMMA ClaimLoosens ==
  ASSUME UploadInv, NEW k \in Keys, NEW new \in Claims, claim' = [claim EXCEPT ![k] = new],
         new.state = claim[k].state, new.body = claim[k].body, new.answer = claim[k].answer,
         UNCHANGED docs, UNCHANGED ledger
  PROVE  claim' \in [Keys -> Claims] /\ Answered'
<1>1. claim \in [Keys -> Claims]
  BY DEF UploadInv, UploadTypeOK, Claims
<1>2. claim' \in [Keys -> Claims] /\ claim'[k] = new /\ \A l \in Keys : l # k => claim'[l] = claim[l]
  BY <1>1
<1>3. ASSUME NEW l \in Keys
      PROVE  /\ claim'[l].state = claim[l].state /\ claim'[l].body = claim[l].body
             /\ claim'[l].answer = claim[l].answer
  <2>1. CASE l = k
    BY <1>2, <2>1
  <2>2. CASE l # k
    BY <1>2, <2>2
  <2>. QED
    BY <2>1, <2>2
<1>4. ASSUME NEW l \in Keys
      PROVE  /\ claim'[l].state = "NONE" <=> claim'[l].body = None
             /\ claim'[l].state = "COMPLETED" => claim'[l].answer \in docs'[l]
             /\ docs'[l] = IF ledger'[l].done THEN {ledger'[l].answer} ELSE {}
  <2>1. /\ claim[l].state = "NONE" <=> claim[l].body = None
        /\ claim[l].state = "COMPLETED" => claim[l].answer \in docs[l]
        /\ docs[l] = IF ledger[l].done THEN {ledger[l].answer} ELSE {}
    BY DEF UploadInv, Answered
  <2>. QED
    BY <1>3, <2>1
<1>5. Answered'
  BY <1>4, Zenon DEF Answered
<1>. QED
  BY <1>2, <1>5

\* The invariant holds at the start, also over a database of an earlier release.
LEMMA UploadInvInit == UploadInit => UploadInv
<1>. SUFFICES ASSUME UploadInit PROVE UploadInv
  OBVIOUS
<1>. USE UploadAssumption DEF UploadInit
<1>1. NoClaim \in Claims /\ NoEntry \in Entries
  BY DEF NoClaim, NoEntry, Claims, Entries, ClaimStates
<1>. DEFINE old(b) == [done |-> TRUE, legacy |-> TRUE, body |-> b, answer |-> Legacy]
<1>2. ASSUME NEW k \in Keys
      PROVE  /\ ledger[k] \in Entries
             /\ ledger[k].done => ledger[k].body \in Bodies /\ ledger[k].answer = Legacy
  <2>1. ledger[k] = NoEntry \/ \E b \in Bodies : ledger[k] = old(b)
    OBVIOUS
  <2>2. CASE ledger[k] = NoEntry
    BY <2>2, <1>1 DEF NoEntry
  <2>3. ASSUME NEW b \in Bodies, ledger[k] = old(b)
        PROVE  /\ ledger[k] \in Entries
               /\ ledger[k].done => ledger[k].body \in Bodies /\ ledger[k].answer = Legacy
    BY <2>3 DEF Entries
  <2>. QED
    BY <2>1, <2>2, <2>3
<1>3. ledger \in [Keys -> Entries]
  BY <1>2
<1>4. rows \subseteq Contents
  <2>. SUFFICES ASSUME NEW k \in Keys, ledger[k].done PROVE Files[ledger[k].body] \subseteq Contents
    OBVIOUS
  <2>. QED
    BY <1>2
<1>5. docs \in [Keys -> SUBSET (Requests \cup {Legacy})]
  OBVIOUS
<1>6. claim \in [Keys -> Claims]
  BY <1>1
<1>7. UploadTypeOK
  BY <1>3, <1>4, <1>5, <1>6 DEF UploadTypeOK, Claims, Entries, Labels
<1>8. Writing /\ Unpublished /\ RowsHaveFiles
  BY DEF Writing, Unpublished, RowsHaveFiles
<1>9. Answered
  <2>. SUFFICES ASSUME NEW k \in Keys
                PROVE  /\ claim[k].state = "NONE" /\ claim[k].body = None
                       /\ docs[k] = IF ledger[k].done THEN {ledger[k].answer} ELSE {}
    BY DEF Answered
  <2>. QED
    BY <1>2 DEF NoClaim
<1>. QED
  BY <1>7, <1>8, <1>9 DEF UploadInv

--------------------------------------------------------------------------------
\* Every step of an upload, the expiry of a lease and a crash of the server keep it.
LEMMA UploadInvStep == UploadInv /\ [UploadNext]_uploadVars => UploadInv'
<1>. SUFFICES ASSUME UploadInv, [UploadNext]_uploadVars PROVE UploadInv'
  OBVIOUS
<1>0. UploadTypeOK /\ Writing /\ Unpublished /\ Answered /\ RowsHaveFiles
  BY DEF UploadInv
<1>1. ASSUME NEW r \in Requests, Send(r) PROVE UploadInv'
  <2>1. PICK label \in {"staged", "refused"} : Reach(r, label)
    BY <1>1 DEF Send
  <2>. QED
    BY <1>1, <2>1, Moves DEF Send, Labels
<1>2. ASSUME NEW r \in Requests, Validate(r) PROVE UploadInv'
  <2>1. PICK label \in {"validated", "refused"} : Reach(r, label)
    BY <1>2 DEF Validate
  <2>. QED
    BY <1>2, <2>1, Moves DEF Validate, Labels
<1>3. ASSUME NEW r \in Requests, AcquireNew(r) PROVE UploadInv'
  <2>. DEFINE new == [state |-> "IN_PROGRESS", body |-> body[r], gen |-> 1, owner |-> r,
                      live |-> TRUE, answer |-> None]
  <2>1. new \in Claims /\ new.body # None /\ new.state = "IN_PROGRESS"
    BY <1>0, RequestTypes DEF Claims, ClaimStates
  <2>2. generation' \in [Requests -> Nat] /\ UNCHANGED reply /\ reply \in [Requests -> Requests \cup {Legacy, None}]
    BY <1>0, <1>3 DEF AcquireNew, UploadTypeOK
  <2>3. claim' = [claim EXCEPT ![key[r]] = new]
    BY <1>3 DEF AcquireNew
  <2>. HIDE DEF new
  <2>. QED
    BY <1>3, <2>1, <2>2, <2>3, ClaimMoves DEF AcquireNew
<1>4. ASSUME NEW r \in Requests, AcquireTake(r) PROVE UploadInv'
  <2>. DEFINE new == [state |-> "IN_PROGRESS", body |-> claim[key[r]].body, gen |-> claim[key[r]].gen + 1,
                      owner |-> r, live |-> TRUE, answer |-> None]
  <2>1. claim[key[r]].gen \in Nat /\ claim[key[r]].body = body[r]
    BY <1>0, <1>4, RequestTypes DEF Claims, AcquireTake, BoundTo
  <2>2. new \in Claims /\ new.body # None /\ new.state = "IN_PROGRESS"
    BY <1>0, <2>1, RequestTypes DEF Claims, ClaimStates
  <2>3. generation' \in [Requests -> Nat] /\ UNCHANGED reply /\ reply \in [Requests -> Requests \cup {Legacy, None}]
    BY <1>0, <1>4, <2>1 DEF AcquireTake, UploadTypeOK
  <2>4. claim' = [claim EXCEPT ![key[r]] = new]
    BY <1>4 DEF AcquireTake
  <2>. HIDE DEF new
  <2>. QED
    BY <1>4, <2>2, <2>3, <2>4, ClaimMoves DEF AcquireTake
<1>5. ASSUME NEW r \in Requests, AcquireReplay(r) PROVE UploadInv'
  <2>1. claim[key[r]] \in Claims /\ claim[key[r]].state = "COMPLETED" /\ claim[key[r]].body # None
    BY <1>0, <1>5, RequestTypes DEF AcquireReplay, BoundTo
  <2>2. claim[key[r]].answer \in docs[key[r]]
    BY <1>0, <2>1, RequestTypes DEF Answered
  <2>3. /\ reply' \in [Requests -> Requests \cup {Legacy, None}] /\ UNCHANGED generation
        /\ generation \in [Requests -> Nat]
    BY <1>0, <1>5, <2>1 DEF AcquireReplay, UploadTypeOK, Claims
  <2>4. claim' = [claim EXCEPT ![key[r]] = claim[key[r]]]
    BY <1>0, <1>5 DEF AcquireReplay, dbVars, UploadTypeOK
  <2>. QED
    BY <1>5, <2>1, <2>2, <2>3, <2>4, ClaimMoves DEF AcquireReplay, dbVars
<1>6. ASSUME NEW r \in Requests, AcquireRefused(r) PROVE UploadInv'
  BY <1>6, Moves DEF AcquireRefused, Labels
<1>7. ASSUME NEW r \in Requests, Begin(r) PROVE UploadInv'
  <2>1. /\ writer = None /\ writer' = r /\ at[r] = "claimed" /\ ~ledger[key[r]].done
        /\ UNCHANGED <<claim, ledger, rows, docs, disk, key, body, generation, linked, fresh, reply, limit, crashes>>
        /\ at' = [at EXCEPT ![r] = "mutating"]
    BY <1>7 DEF Begin, Reach, dbVars, sysVars
  <2>2. at' \in [Requests -> Labels] /\ at'[r] = "mutating" /\ \A q \in Requests : q # r => at'[q] = at[q]
    BY <1>0, <2>1 DEF UploadTypeOK, Labels
  <2>3. UploadTypeOK'
    BY <1>0, <2>1, <2>2 DEF UploadTypeOK
  <2>4. Writing'
    <3>1. \A q \in Requests : q # r => at[q] # "mutating"
      BY <1>0, <2>1, UploadAssumption DEF Writing
    <3>2. linked[r] = {}
      BY <1>0, <2>1 DEF Unpublished
    <3>. QED
      BY <2>1, <2>2, <3>1, <3>2 DEF Writing
  <2>5. Unpublished' /\ Answered' /\ RowsHaveFiles'
    BY <1>0, <2>1, <2>2 DEF Unpublished, Answered, RowsHaveFiles
  <2>. QED
    BY <2>3, <2>4, <2>5 DEF UploadInv
<1>8. ASSUME NEW r \in Requests, BeginReplay(r) PROVE UploadInv'
  <2>. DEFINE new == [claim[key[r]] EXCEPT !.state = "COMPLETED", !.owner = None, !.live = FALSE,
                                           !.answer = ledger[key[r]].answer]
  <2>1. /\ claim[key[r]] \in Claims /\ ledger[key[r]] \in Entries /\ claim[key[r]].body = body[r]
        /\ ledger[key[r]].done /\ key[r] \in Keys /\ body[r] # None /\ claim \in [Keys -> Claims]
    BY <1>0, <1>8, RequestTypes DEF BeginReplay, Holds, BoundTo, UploadTypeOK, Claims
  <2>2. /\ new \in Claims /\ new.body = claim[key[r]].body /\ new.state = "COMPLETED"
        /\ new.answer = ledger[key[r]].answer
    BY <2>1 DEF Claims, Entries, ClaimStates
  <2>3. ledger[key[r]].answer \in docs[key[r]]
    BY <1>0, <2>1 DEF Answered
  <2>4. /\ reply' \in [Requests -> Requests \cup {Legacy, None}] /\ UNCHANGED generation
        /\ generation \in [Requests -> Nat]
    BY <1>0, <1>8, <2>1 DEF BeginReplay, UploadTypeOK, Entries
  <2>5. claim' = [claim EXCEPT ![key[r]] = new]
    BY <1>8, <2>1 DEF BeginReplay
  <2>. HIDE DEF new
  <2>. QED
    <3>1. /\ at[r] = "claimed" /\ Reach(r, "answered")
          /\ UNCHANGED <<ledger, rows, docs, disk, writer, key, body, linked, fresh, sysVars>>
      BY <1>8 DEF BeginReplay
    <3>2. new.body # None /\ new.state # "NONE" /\ new.answer \in docs[key[r]]
      BY <2>1, <2>2, <2>3
    <3>. QED
      BY <2>2, <2>4, <2>5, <3>1, <3>2, ClaimMoves
<1>9. ASSUME NEW r \in Requests, NEW c \in Contents, Publish(r, c) PROVE UploadInv'
  <2>1. /\ writer = r /\ linked' = [linked EXCEPT ![r] = linked[r] \cup {c}]
        /\ fresh' = [fresh EXCEPT ![r] = fresh[r] \cup ({c} \ disk)] /\ disk' = disk \cup {c}
        /\ UNCHANGED <<claim, ledger, rows, docs, writer, at, key, body, generation, reply, limit, crashes>>
    BY <1>9 DEF Publish, dbVars, sysVars
  <2>2. /\ linked' \in [Requests -> SUBSET Contents] /\ fresh' \in [Requests -> SUBSET Contents]
        /\ disk' \subseteq Contents /\ linked'[r] = linked[r] \cup {c}
        /\ \A q \in Requests : q # r => linked'[q] = linked[q]
    BY <1>0, <2>1 DEF UploadTypeOK
  <2>3. UploadTypeOK'
    BY <1>0, <2>1, <2>2 DEF UploadTypeOK
  <2>4. Writing' /\ Answered' /\ RowsHaveFiles'
    BY <1>0, <2>1, <2>2 DEF Writing, Answered, RowsHaveFiles
  <2>5. Unpublished'
    BY <1>0, <2>1, <2>2 DEF Unpublished, Writing
  <2>. QED
    BY <2>3, <2>4, <2>5 DEF UploadInv
<1>10. ASSUME NEW r \in Requests, Commit(r) PROVE UploadInv'
  <2>. DEFINE new == [claim[key[r]] EXCEPT !.state = "COMPLETED", !.owner = None, !.live = FALSE, !.answer = r]
              entry == [done |-> TRUE, legacy |-> FALSE, body |-> body[r], answer |-> r]
  <2>1. /\ claim[key[r]] \in Claims /\ claim[key[r]].body = body[r] /\ body[r] # None /\ body[r] \in Bodies
        /\ key[r] \in Keys /\ claim \in [Keys -> Claims] /\ ledger \in [Keys -> Entries]
        /\ writer = r /\ docs[key[r]] = {} /\ linked[r] \subseteq disk /\ at[r] = "mutating"
    BY <1>0, <1>10, RequestTypes DEF Commit, Holds, BoundTo, UploadTypeOK, Claims, Entries, Writing, Answered
  <2>2. /\ claim' = [claim EXCEPT ![key[r]] = new] /\ ledger' = [ledger EXCEPT ![key[r]] = entry]
        /\ docs' = [docs EXCEPT ![key[r]] = docs[key[r]] \cup {r}] /\ rows' = rows \cup linked[r]
        /\ reply' = [reply EXCEPT ![r] = r] /\ writer' = None /\ at' = [at EXCEPT ![r] = "answered"]
        /\ UNCHANGED <<disk, key, body, generation, linked, fresh, limit, crashes>>
    BY <1>10, <2>1 DEF Commit, Reach, sysVars
  <2>3. /\ new \in Claims /\ new.body = body[r] /\ new.state = "COMPLETED" /\ new.answer = r
        /\ entry \in Entries /\ entry.done /\ entry.answer = r
    BY <2>1 DEF Claims, Entries, ClaimStates
  <2>. HIDE DEF new, entry
  <2>4. /\ claim' \in [Keys -> Claims] /\ claim'[key[r]] = new
        /\ ledger' \in [Keys -> Entries] /\ ledger'[key[r]] = entry
        /\ \A k \in Keys : k # key[r] => claim'[k] = claim[k] /\ ledger'[k] = ledger[k]
    BY <2>1, <2>2, <2>3
  <2>5. /\ docs' \in [Keys -> SUBSET (Requests \cup {Legacy})] /\ docs'[key[r]] = {r}
        /\ \A k \in Keys : k # key[r] => docs'[k] = docs[k]
    BY <1>0, <2>1, <2>2 DEF UploadTypeOK
  <2>6. /\ at' \in [Requests -> Labels] /\ at'[r] = "answered" /\ \A q \in Requests : q # r => at'[q] = at[q]
    BY <1>0, <2>2 DEF UploadTypeOK, Labels
  <2>7. rows' \subseteq Contents /\ reply' \in [Requests -> Requests \cup {Legacy, None}]
    BY <1>0, <2>2 DEF UploadTypeOK
  <2>8. UploadTypeOK'
    BY <1>0, <2>2, <2>4, <2>5, <2>6, <2>7 DEF UploadTypeOK, Claims, Entries
  <2>9. Writing'
    BY <1>0, <2>1, <2>2, <2>6, UploadAssumption DEF Writing
  <2>10. Unpublished' /\ RowsHaveFiles'
    BY <1>0, <2>1, <2>2, <2>6 DEF Unpublished, RowsHaveFiles
  <2>11. Answered'
    <3>1. ASSUME NEW k \in Keys, k # key[r]
          PROVE  /\ claim'[k].state = "NONE" <=> claim'[k].body = None
                 /\ claim'[k].state = "COMPLETED" => claim'[k].answer \in docs'[k]
                 /\ docs'[k] = IF ledger'[k].done THEN {ledger'[k].answer} ELSE {}
      BY <1>0, <2>4, <2>5, <3>1 DEF Answered
    <3>2. /\ claim'[key[r]].state = "COMPLETED" /\ claim'[key[r]].body # None
          /\ claim'[key[r]].answer \in docs'[key[r]]
          /\ ledger'[key[r]].done /\ docs'[key[r]] = {ledger'[key[r]].answer}
      BY <2>1, <2>3, <2>4, <2>5
    <3>. QED
      BY <3>1, <3>2 DEF Answered
  <2>. QED
    BY <2>8, <2>9, <2>10, <2>11 DEF UploadInv
<1>11. ASSUME NEW r \in Requests, Fail(r) PROVE UploadInv'
  <2>1. /\ at[r] \in {"claimed", "mutating"} /\ at' = [at EXCEPT ![r] = "cleaning"]
        /\ writer' = IF writer = r THEN None ELSE writer
        /\ UNCHANGED <<claim, ledger, rows, docs, disk, key, body, generation, linked, fresh, reply, limit, crashes>>
    BY <1>11 DEF Fail, Reach, dbVars, sysVars
  <2>2. at' \in [Requests -> Labels] /\ at'[r] = "cleaning" /\ \A q \in Requests : q # r => at'[q] = at[q]
    BY <1>0, <2>1 DEF UploadTypeOK, Labels
  <2>3. UploadTypeOK'
    BY <1>0, <2>1, <2>2 DEF UploadTypeOK
  <2>4. Writing'
    BY <1>0, <2>1, <2>2, UploadAssumption DEF Writing
  <2>5. Unpublished' /\ Answered' /\ RowsHaveFiles'
    BY <1>0, <2>1, <2>2 DEF Unpublished, Answered, RowsHaveFiles
  <2>. QED
    BY <2>3, <2>4, <2>5 DEF UploadInv
<1>12. ASSUME NEW r \in Requests, Cleanup(r) PROVE UploadInv'
  <2>. DEFINE new == [claim[key[r]] EXCEPT !.owner = None, !.live = FALSE]
  <2>1. /\ claim[key[r]] \in Claims /\ key[r] \in Keys /\ claim \in [Keys -> Claims]
        /\ at[r] = "cleaning" /\ writer = None
    BY <1>0, <1>12, RequestTypes DEF Cleanup, UploadTypeOK, Claims
  <2>2. /\ claim' = [claim EXCEPT ![key[r]] = new] /\ disk' = disk \ (fresh[r] \ rows)
        /\ at' = [at EXCEPT ![r] = "refused"]
        /\ UNCHANGED <<ledger, rows, docs, writer, key, body, generation, linked, fresh, reply, limit, crashes>>
    BY <1>12, <2>1 DEF Cleanup, Reach, sysVars
  <2>3. /\ new \in Claims /\ new.state = claim[key[r]].state /\ new.body = claim[key[r]].body
        /\ new.answer = claim[key[r]].answer
    BY <2>1 DEF Claims
  <2>. HIDE DEF new
  <2>4. claim' \in [Keys -> Claims] /\ Answered'
    BY <2>1, <2>2, <2>3, ClaimLoosens
  <2>5. at' \in [Requests -> Labels] /\ at'[r] = "refused" /\ \A q \in Requests : q # r => at'[q] = at[q]
    BY <1>0, <2>2 DEF UploadTypeOK, Labels
  <2>6. UploadTypeOK'
    BY <1>0, <2>2, <2>4, <2>5 DEF UploadTypeOK, Claims
  <2>7. Writing'
    BY <1>0, <2>1, <2>2, <2>5, UploadAssumption DEF Writing
  <2>8. Unpublished' /\ RowsHaveFiles'
    BY <1>0, <2>2, <2>5 DEF Unpublished, RowsHaveFiles
  <2>. QED
    BY <2>4, <2>6, <2>7, <2>8 DEF UploadInv
<1>13. ASSUME NEW r \in Requests, CleanupGivesUp(r) PROVE UploadInv'
  <2>1. PICK removed \in SUBSET (fresh[r] \ rows) :
            (removed # {} => writer = None) /\ disk' = disk \ removed
    BY <1>13 DEF CleanupGivesUp
  <2>2. /\ at[r] = "cleaning" /\ at' = [at EXCEPT ![r] = "refused"]
        /\ UNCHANGED <<claim, ledger, rows, docs, writer, key, body, generation, linked, fresh, reply, limit, crashes>>
    BY <1>13 DEF CleanupGivesUp, Reach, dbVars, sysVars
  <2>3. at' \in [Requests -> Labels] /\ at'[r] = "refused" /\ \A q \in Requests : q # r => at'[q] = at[q]
    BY <1>0, <2>2 DEF UploadTypeOK, Labels
  <2>4. UploadTypeOK'
    BY <1>0, <2>1, <2>2, <2>3 DEF UploadTypeOK
  <2>5. Writing'
    <3>1. CASE removed = {}
      BY <1>0, <2>1, <2>2, <2>3, <3>1 DEF Writing
    <3>2. CASE writer = None
      BY <1>0, <2>2, <2>3, <3>2, UploadAssumption DEF Writing
    <3>. QED
      BY <2>1, <3>1, <3>2
  <2>6. Unpublished' /\ Answered' /\ RowsHaveFiles'
    BY <1>0, <2>1, <2>2, <2>3 DEF Unpublished, Answered, RowsHaveFiles
  <2>. QED
    BY <2>4, <2>5, <2>6 DEF UploadInv
<1>14. ASSUME NEW k \in Keys, LeaseExpires(k) PROVE UploadInv'
  <2>. DEFINE new == [claim[k] EXCEPT !.live = FALSE]
  <2>1. claim[k] \in Claims /\ claim \in [Keys -> Claims]
    BY <1>0 DEF UploadTypeOK, Claims
  <2>2. /\ claim' = [claim EXCEPT ![k] = new]
        /\ UNCHANGED <<ledger, rows, docs, disk, writer, at, key, body, generation, linked, fresh, reply, limit, crashes>>
    BY <1>14, <2>1 DEF LeaseExpires, reqVars, sysVars
  <2>3. /\ new \in Claims /\ new.state = claim[k].state /\ new.body = claim[k].body
        /\ new.answer = claim[k].answer
    BY <2>1 DEF Claims
  <2>. HIDE DEF new
  <2>4. claim' \in [Keys -> Claims] /\ Answered'
    BY <2>2, <2>3, ClaimLoosens
  <2>5. UploadTypeOK' /\ Writing' /\ Unpublished' /\ RowsHaveFiles'
    BY <1>0, <2>2, <2>4 DEF UploadTypeOK, Claims, Writing, Unpublished, RowsHaveFiles
  <2>. QED
    BY <2>4, <2>5 DEF UploadInv
<1>15. ASSUME ServerCrash PROVE UploadInv'
  <2>1. /\ writer' = None /\ limit' \in Limits /\ crashes' = crashes + 1
        /\ at' = [r \in Requests |-> IF at[r] \in {"idle", "answered", "refused"} THEN at[r] ELSE "gone"]
        /\ UNCHANGED <<claim, ledger, rows, docs, disk, key, body, generation, linked, fresh, reply>>
    BY <1>15 DEF ServerCrash, dbVars
  <2>2. at' \in [Requests -> Labels] /\ \A r \in Requests : at'[r] # "mutating"
    BY <1>0, <2>1 DEF UploadTypeOK, Labels
  <2>3. UploadTypeOK'
    BY <1>0, <2>1, <2>2 DEF UploadTypeOK
  <2>4. Writing'
    BY <2>1, <2>2, UploadAssumption DEF Writing
  <2>5. Unpublished' /\ Answered' /\ RowsHaveFiles'
    BY <1>0, <2>1 DEF Unpublished, Answered, RowsHaveFiles
  <2>. QED
    BY <2>3, <2>4, <2>5 DEF UploadInv
<1>16. CASE UNCHANGED uploadVars
  BY <1>16 DEF UploadInv, UploadTypeOK, Writing, Unpublished, Answered, RowsHaveFiles, uploadVars, dbVars, reqVars, sysVars
<1>. QED
  BY <1>1, <1>2, <1>3, <1>4, <1>5, <1>6, <1>7, <1>8, <1>9, <1>10, <1>11, <1>12, <1>13, <1>14, <1>15, <1>16
  DEF UploadNext, RequestStep

--------------------------------------------------------------------------------
\* The body that each key is bound to, as OnceUpload reads it.
Binding == [k \in Keys |-> claim[k].body]

\* As long as no request is answered nobody is told anything.
LEMMA NobodyIsTold ==
  ASSUME \A q \in Requests : at'[q] = "answered" <=> at[q] = "answered", UNCHANGED <<key, body, reply>>
  PROVE  UNCHANGED Told
BY DEF Told

\* A request that is answered adds what it is told.
LEMMA OneIsTold ==
  ASSUME at \in [Requests -> Labels], NEW r \in Requests, Reach(r, "answered"), at[r] # "answered",
         UNCHANGED <<key, body>>, reply \in [Requests -> Requests \cup {Legacy, None}],
         NEW answer, reply' = [reply EXCEPT ![r] = answer]
  PROVE  Told' = Told \cup {<<key[r], body[r], answer>>}
<1>1. {q \in Requests : at'[q] = "answered"} = {q \in Requests : at[q] = "answered"} \cup {r}
  BY DEF Reach
<1>2. reply'[r] = answer /\ \A q \in Requests : q # r => reply'[q] = reply[q]
  OBVIOUS
<1>3. \A q \in Requests : at[q] = "answered" => q # r
  OBVIOUS
<1>. QED
  BY <1>1, <1>2, <1>3 DEF Told

\* An upload service starts as OnceUpload does.
LEMMA OnceInit == UploadInit => Once!Init
<1>. SUFFICES ASSUME UploadInit PROVE Once!Init
  OBVIOUS
<1>1. Binding = [k \in Keys |-> None]
  BY DEF UploadInit, Binding, NoClaim
<1>2. docs \in [Keys -> {{}} \cup {{a} : a \in Requests \cup {Legacy}}]
  BY DEF UploadInit
<1>3. Told = {}
  BY DEF UploadInit, Told
<1>. QED
  BY <1>1, <1>2, <1>3 DEF Once!Init, Binding

\* Claims change only as a whole record; the body of the others stands.
LEMMA BindingStands ==
  ASSUME claim \in [Keys -> Claims], NEW k \in Keys, NEW new, claim' = [claim EXCEPT ![k] = new],
         new.body = claim[k].body
  PROVE  UNCHANGED Binding
BY DEF Binding

\* A step of the service is a step of OnceUpload or leaves what it reads alone.
LEMMA OnceStep == UploadInv /\ [UploadNext]_uploadVars => [Once!Next]_<<Binding, docs, Told>>
<1>. SUFFICES ASSUME UploadInv, [UploadNext]_uploadVars PROVE Once!Next \/ UNCHANGED <<Binding, docs, Told>>
  OBVIOUS
<1>0. UploadTypeOK /\ Writing /\ Unpublished /\ Answered /\ claim \in [Keys -> Claims]
  BY DEF UploadInv, UploadTypeOK, Claims
<1>1. ASSUME NEW r \in Requests,
             Send(r) \/ Validate(r) \/ AcquireRefused(r) \/ Begin(r) \/ Fail(r) \/ CleanupGivesUp(r)
      PROVE  UNCHANGED <<Binding, docs, Told>>
  <2>1. UNCHANGED <<claim, docs, key, body, reply>>
    BY <1>1 DEF Send, Validate, AcquireRefused, Begin, Fail, CleanupGivesUp, dbVars
  <2>2. PICK label \in Labels \ {"answered"} : Reach(r, label) /\ at[r] # "answered"
    BY <1>1 DEF Send, Validate, AcquireRefused, Begin, Fail, CleanupGivesUp, Labels
  <2>3. \A q \in Requests : at'[q] = "answered" <=> at[q] = "answered"
    BY <1>0, <2>2 DEF Reach, UploadTypeOK
  <2>. QED
    BY <2>1, <2>3, NobodyIsTold DEF Binding
<1>2. ASSUME NEW r \in Requests, AcquireNew(r) PROVE Once!Next
  <2>. DEFINE new == [state |-> "IN_PROGRESS", body |-> body[r], gen |-> 1, owner |-> r,
                      live |-> TRUE, answer |-> None]
  <2>1. /\ claim[key[r]].body = None /\ key[r] \in Keys /\ UNCHANGED <<docs, key, body, reply>>
        /\ claim' = [claim EXCEPT ![key[r]] = new] /\ at[r] = "validated" /\ Reach(r, "claimed")
    BY <1>0, <1>2, RequestTypes DEF AcquireNew, Answered
  <2>2. Binding[key[r]] = None /\ Binding' = [Binding EXCEPT ![key[r]] = body[r]]
    BY <1>0, <2>1 DEF Binding
  <2>3. UNCHANGED Told
    BY <1>0, <2>1, NobodyIsTold DEF Reach, UploadTypeOK
  <2>4. PICK k \in Keys, b \in Bodies : k = key[r] /\ b = body[r]
    BY <1>0, RequestTypes
  <2>5. Once!Bind(k, b)
    BY <2>1, <2>2, <2>3, <2>4 DEF Once!Bind, Binding
  <2>. QED
    BY <2>5 DEF Once!Next
<1>3. ASSUME NEW r \in Requests, AcquireTake(r) PROVE UNCHANGED <<Binding, docs, Told>>
  <2>. DEFINE new == [state |-> "IN_PROGRESS", body |-> claim[key[r]].body, gen |-> claim[key[r]].gen + 1,
                      owner |-> r, live |-> TRUE, answer |-> None]
  <2>1. /\ key[r] \in Keys /\ UNCHANGED <<docs, key, body, reply>>
        /\ claim' = [claim EXCEPT ![key[r]] = new] /\ at[r] = "validated" /\ Reach(r, "claimed")
    BY <1>0, <1>3, RequestTypes DEF AcquireTake
  <2>2. UNCHANGED Binding
    BY <1>0, <2>1, BindingStands
  <2>3. UNCHANGED Told
    BY <1>0, <2>1, NobodyIsTold DEF Reach, UploadTypeOK
  <2>. QED
    BY <2>1, <2>2, <2>3
<1>4. ASSUME NEW r \in Requests, AcquireReplay(r) PROVE Once!Tell(key[r], claim[key[r]].answer)
  <2>1. /\ key[r] \in Keys /\ claim[key[r]].body = body[r] /\ body[r] # None
        /\ claim[key[r]].answer \in docs[key[r]] /\ at[r] = "validated" /\ Reach(r, "answered")
        /\ reply' = [reply EXCEPT ![r] = claim[key[r]].answer] /\ UNCHANGED <<claim, docs, key, body>>
    BY <1>0, <1>4, RequestTypes DEF AcquireReplay, BoundTo, Answered, dbVars
  <2>2. Told' = Told \cup {<<key[r], body[r], claim[key[r]].answer>>}
    BY <1>0, <2>1, OneIsTold DEF UploadTypeOK
  <2>3. Binding[key[r]] = body[r] /\ UNCHANGED Binding
    BY <2>1 DEF Binding
  <2>. QED
    BY <2>1, <2>2, <2>3 DEF Once!Tell, Binding
<1>5. ASSUME NEW r \in Requests, BeginReplay(r) PROVE Once!Tell(key[r], ledger[key[r]].answer)
  <2>. DEFINE new == [claim[key[r]] EXCEPT !.state = "COMPLETED", !.owner = None, !.live = FALSE,
                                           !.answer = ledger[key[r]].answer]
  <2>1. /\ key[r] \in Keys /\ claim[key[r]].body = body[r] /\ body[r] # None /\ claim[key[r]] \in Claims
        /\ ledger[key[r]].answer \in docs[key[r]] /\ at[r] = "claimed" /\ Reach(r, "answered")
        /\ reply' = [reply EXCEPT ![r] = ledger[key[r]].answer] /\ UNCHANGED <<docs, key, body>>
    BY <1>0, <1>5, RequestTypes DEF BeginReplay, Holds, BoundTo, Answered
  <2>2. claim' = [claim EXCEPT ![key[r]] = new] /\ new.body = claim[key[r]].body
    BY <1>5, <2>1 DEF BeginReplay, Claims
  <2>3. Told' = Told \cup {<<key[r], body[r], ledger[key[r]].answer>>}
    BY <1>0, <2>1, OneIsTold DEF UploadTypeOK
  <2>. HIDE DEF new
  <2>4. Binding[key[r]] = body[r] /\ UNCHANGED Binding
    BY <1>0, <2>1, <2>2, BindingStands DEF Binding
  <2>. QED
    BY <2>1, <2>3, <2>4 DEF Once!Tell, Binding
<1>6. ASSUME NEW r \in Requests, NEW c \in Contents, Publish(r, c) PROVE UNCHANGED <<Binding, docs, Told>>
  BY <1>6 DEF Publish, dbVars, Binding, Told
<1>7. ASSUME NEW r \in Requests, Commit(r) PROVE Once!TakeEffect(key[r], r)
  <2>. DEFINE new == [claim[key[r]] EXCEPT !.state = "COMPLETED", !.owner = None, !.live = FALSE, !.answer = r]
  <2>1. /\ key[r] \in Keys /\ claim[key[r]].body = body[r] /\ body[r] # None /\ claim[key[r]] \in Claims
        /\ docs[key[r]] = {} /\ at[r] = "mutating" /\ Reach(r, "answered")
        /\ reply' = [reply EXCEPT ![r] = r] /\ UNCHANGED <<key, body>>
        /\ docs' = [docs EXCEPT ![key[r]] = docs[key[r]] \cup {r}]
    BY <1>0, <1>7, RequestTypes DEF Commit, Holds, BoundTo, Writing, Answered
  <2>2. claim' = [claim EXCEPT ![key[r]] = new] /\ new.body = claim[key[r]].body
    BY <1>7, <2>1 DEF Commit, Claims
  <2>3. Told' = Told \cup {<<key[r], body[r], r>>}
    BY <1>0, <2>1, OneIsTold DEF UploadTypeOK
  <2>. HIDE DEF new
  <2>4. Binding[key[r]] = body[r] /\ UNCHANGED Binding
    BY <1>0, <2>1, <2>2, BindingStands DEF Binding
  <2>5. docs' = [docs EXCEPT ![key[r]] = {r}]
    BY <2>1
  <2>. QED
    BY <2>1, <2>3, <2>4, <2>5 DEF Once!TakeEffect, Binding
<1>8. ASSUME NEW r \in Requests, Cleanup(r) PROVE UNCHANGED <<Binding, docs, Told>>
  <2>. DEFINE new == [claim[key[r]] EXCEPT !.owner = None, !.live = FALSE]
  <2>1. /\ key[r] \in Keys /\ claim[key[r]] \in Claims /\ UNCHANGED <<docs, key, body, reply>>
        /\ at[r] = "cleaning" /\ Reach(r, "refused")
    BY <1>0, <1>8, RequestTypes DEF Cleanup
  <2>2. claim' = [claim EXCEPT ![key[r]] = new] /\ new.body = claim[key[r]].body
    BY <1>8, <2>1 DEF Cleanup, Claims
  <2>. HIDE DEF new
  <2>3. UNCHANGED Binding
    BY <1>0, <2>1, <2>2, BindingStands
  <2>4. UNCHANGED Told
    BY <1>0, <2>1, NobodyIsTold DEF Reach, UploadTypeOK
  <2>. QED
    BY <2>1, <2>3, <2>4
<1>9. ASSUME NEW k \in Keys, LeaseExpires(k) PROVE UNCHANGED <<Binding, docs, Told>>
  <2>. DEFINE new == [claim[k] EXCEPT !.live = FALSE]
  <2>1. /\ claim' = [claim EXCEPT ![k] = new] /\ new.body = claim[k].body
        /\ UNCHANGED <<docs, at, key, body, reply>>
    BY <1>0, <1>9 DEF LeaseExpires, Claims, reqVars
  <2>. HIDE DEF new
  <2>2. UNCHANGED Binding
    BY <1>0, <2>1, BindingStands
  <2>. QED
    BY <2>1, <2>2 DEF Told
<1>10. ASSUME ServerCrash PROVE UNCHANGED <<Binding, docs, Told>>
  <2>1. UNCHANGED <<claim, docs, key, body, reply>>
    BY <1>10 DEF ServerCrash, dbVars
  <2>2. \A q \in Requests : at'[q] = "answered" <=> at[q] = "answered"
    BY <1>10 DEF ServerCrash
  <2>. QED
    BY <2>1, <2>2, NobodyIsTold DEF Binding
<1>11. CASE UNCHANGED uploadVars
  BY <1>11 DEF uploadVars, dbVars, reqVars, Binding, Told
<1>12. ASSUME NEW k \in Keys, NEW a, Once!Tell(k, a), a \in docs[k] PROVE Once!Next
  <2>1. a \in Requests \cup {Legacy}
    BY <1>0, <1>12 DEF UploadTypeOK
  <2>. QED
    BY <1>12, <2>1 DEF Once!Next
<1>13. ASSUME NEW r \in Requests, AcquireReplay(r) \/ BeginReplay(r) PROVE Once!Next
  <2>1. key[r] \in Keys
    BY <1>0, RequestTypes
  <2>. QED
    BY <1>4, <1>5, <1>12, <1>13, <2>1 DEF Once!Tell
<1>14. ASSUME NEW r \in Requests, Commit(r) PROVE Once!Next
  <2>1. Once!TakeEffect(key[r], r) /\ key[r] \in Keys
    BY <1>0, <1>7, <1>14, RequestTypes
  <2>. QED
    BY <2>1 DEF Once!Next
<1>. QED
  BY <1>1, <1>2, <1>3, <1>6, <1>8, <1>9, <1>10, <1>11, <1>13, <1>14 DEF UploadNext, RequestStep

--------------------------------------------------------------------------------
\* The invariant holds throughout.
LEMMA UploadInvariant == UploadSpec => []UploadInv
BY UploadInvInit, UploadInvStep, PTL DEF UploadSpec

\* Whatever crashes, lost claims and other keys with the same content interleave, no
\* cleanup removes a file that a row of source_files refers to (publish,
\* cleanup_and_release_upload_claim).
THEOREM RowsHaveFilesHolds == UploadSpec => []RowsHaveFiles
<1>1. UploadInv => RowsHaveFiles
  BY DEF UploadInv
<1>. QED
  BY <1>1, UploadInvariant, PTL

\* An upload takes effect at most once under its key, for the body the key is bound
\* to, and every answer names what took effect.
THEOREM UploadsImplementOnce == UploadSpec => ImplementsOnce
<1>1. UploadInv /\ [UploadNext]_uploadVars => [Once!Next]_<<[k \in Keys |-> claim[k].body], docs, Told>>
  BY OnceStep DEF Binding
<1>. QED
  BY <1>1, OnceInit, UploadInvariant, PTL DEF UploadSpec, ImplementsOnce, Once!Spec

================================================================================
