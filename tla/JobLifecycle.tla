----------------------------- MODULE JobLifecycle -----------------------------
(***************************************************************************)
(* What the durable job queue promises to a reader of its tables, without  *)
(* workers, heartbeats or local state: a job has at most one owner, an     *)
(* owner is a claim number never given out before, file results are only   *)
(* recorded by the owner, once for each document except that it may still  *)
(* withdraw a PARTIAL into a FAILED, a successful end state says that the  *)
(* owner recorded every document itself, and a requested cancellation lets *)
(* results of at most one more document be written.                        *)
(***************************************************************************)
EXTENDS Integers

CONSTANTS Jobs, Items

VARIABLES status, owner, issued, cancel, result, recordedBy, late

vars == <<status, owner, issued, cancel, result, recordedBy, late>>

Init ==
    /\ status     = [j \in Jobs |-> "ABSENT"]
    /\ owner      = [j \in Jobs |-> 0]
    /\ issued     = [j \in Jobs |-> 0]
    /\ cancel     = [j \in Jobs |-> FALSE]
    /\ result     = [j \in Jobs |-> [i \in Items |-> "NONE"]]
    /\ recordedBy = [j \in Jobs |-> [i \in Items |-> 0]]
    /\ late       = [j \in Jobs |-> [i \in Items |-> 0]]

Submit(j) ==
    /\ status[j] = "ABSENT"
    /\ status' = [status EXCEPT ![j] = "QUEUED"]
    /\ UNCHANGED <<owner, issued, cancel, result, recordedBy, late>>

Cancel(j) ==
    /\ status[j] \in {"QUEUED", "RUNNING"}
    /\ cancel' = [cancel EXCEPT ![j] = TRUE]
    /\ UNCHANGED <<status, owner, issued, result, recordedBy, late>>

Claim(j) ==
    /\ status[j] = "QUEUED"
    /\ status' = [status EXCEPT ![j] = "RUNNING"]
    /\ issued' = [issued EXCEPT ![j] = @ + 1]
    /\ owner'  = [owner EXCEPT ![j] = issued[j] + 1]
    /\ UNCHANGED <<cancel, result, recordedBy, late>>

\* No other document has had a result since the cancellation was requested.
OnlyLate(j, i) == cancel[j] => \A k \in Items : k # i => late[j][k] = 0

Write(j, i, s) ==
    /\ result'     = [result EXCEPT ![j][i] = s]
    /\ recordedBy' = [recordedBy EXCEPT ![j][i] = owner[j]]
    /\ late'       = [late EXCEPT ![j][i] = IF cancel[j] THEN @ + 1 ELSE @]
    /\ UNCHANGED <<status, owner, issued, cancel>>

Record(j, i, s) ==
    /\ status[j] = "RUNNING"
    /\ recordedBy[j][i] # owner[j]
    /\ OnlyLate(j, i)
    /\ late[j][i] = 0
    /\ Write(j, i, s)

Withdraw(j, i) ==
    /\ status[j] = "RUNNING"
    /\ recordedBy[j][i] = owner[j]
    /\ result[j][i] = "PARTIAL"
    /\ OnlyLate(j, i)
    /\ Write(j, i, "FAILED")

AllRecorded(j) == \A i \in Items : recordedBy[j][i] = owner[j]

Finish(j, s) ==
    /\ status[j] = "RUNNING"
    /\ s = "CANCELLED" => cancel[j]
    /\ s = "SUCCEEDED" => AllRecorded(j) /\ \A i \in Items : result[j][i] = "SUCCESS"
    /\ s = "PARTIAL"   => AllRecorded(j) /\ \E i \in Items : result[j][i] # "SUCCESS"
    /\ status' = [status EXCEPT ![j] = s]
    /\ UNCHANGED <<owner, issued, cancel, result, recordedBy, late>>

Retry(j) ==
    /\ status[j] \in {"FAILED", "PARTIAL", "CANCELLED"}
    /\ status' = [status EXCEPT ![j] = "QUEUED"]
    /\ owner'  = [owner EXCEPT ![j] = 0]
    /\ cancel' = [cancel EXCEPT ![j] = FALSE]
    /\ late'   = [late EXCEPT ![j] = [i \in Items |-> 0]]
    /\ UNCHANGED <<issued, result, recordedBy>>

\* Owners that stopped answering lose their jobs; a cancellation is kept.
Requeue(S) ==
    /\ \A j \in S : status[j] = "RUNNING"
    /\ status' = [j \in Jobs |-> IF j \in S THEN "QUEUED" ELSE status[j]]
    /\ owner'  = [j \in Jobs |-> IF j \in S THEN 0 ELSE owner[j]]
    /\ UNCHANGED <<issued, cancel, result, recordedBy, late>>

Next ==
    \/ \E j \in Jobs : Submit(j) \/ Cancel(j) \/ Claim(j) \/ Retry(j)
    \/ \E j \in Jobs, i \in Items, s \in {"SUCCESS", "PARTIAL", "FAILED"} :
          Record(j, i, s)
    \/ \E j \in Jobs, i \in Items : Withdraw(j, i)
    \/ \E j \in Jobs, s \in {"SUCCEEDED", "PARTIAL", "FAILED", "CANCELLED"} :
          Finish(j, s)
    \/ \E S \in SUBSET Jobs : Requeue(S)

Spec == Init /\ [][Next]_vars

================================================================================
