------------------------------ MODULE DurableJobs ------------------------------
(***************************************************************************)
(* The durable job queue of the multi-user backend: the durable_jobs and   *)
(* job_file_results tables (jobs/repository.py), the worker that runs one  *)
(* job at a time (jobs/runner.py) and the ingestion handler's loop over    *)
(* the documents of a job (jobs/handlers.py).                              *)
(*                                                                         *)
(* Several worker processes share the tables.  A worker may stop at any    *)
(* step (Crash) and its uncommitted writes are lost; it may also only be   *)
(* slow, in which case its job is handed to another worker behind its back *)
(* and it goes on with a claim that is no longer current.  Every SQLite    *)
(* transaction is one action; a worker is between two transactions         *)
(* whenever it is between two values of pc.                                *)
(***************************************************************************)
EXTENDS Integers, FiniteSets

CONSTANTS
    Workers,      \* worker processes
    NumJobs,      \* jobs, numbered in the order (created_at, id)
    NumItems,     \* source documents named by a job's payload
    MaxRetries,   \* BOUND: a user retries a job only below this retry_count
    MaxFaults     \* BOUND: crashes plus heartbeats missed by a live worker

ASSUME JobsAssumption ==
    /\ NumJobs \in Nat \ {0}
    /\ NumItems \in Nat \ {0}
    /\ MaxRetries \in Nat
    /\ MaxFaults \in Nat

Jobs  == 1..NumJobs
Items == 1..NumItems

Terminal  == {"SUCCEEDED", "PARTIAL", "FAILED", "CANCELLED"}
Retryable == {"FAILED", "PARTIAL", "CANCELLED"}
Status    == {"ABSENT", "QUEUED", "RUNNING"} \cup Terminal

ItemStatus == {"SUCCESS", "PARTIAL", "FAILED"}
NoResult   == "NONE"

(***************************************************************************)
(* Where a worker stands in run_once: "claimed" after the claim is         *)
(* committed, "checkpoint" / "check" / "work" inside the handler, "last"   *)
(* before the check that follows the handler, then one of the three ways   *)
(* to publish an end state.  "guarded" is before the one checkpoint that   *)
(* stands inside the per-file guard, "swallowed" after an exception there  *)
(* has been caught by that guard.                                          *)
(***************************************************************************)
PC == {"idle", "claimed", "checkpoint", "check", "work", "guarded", "swallowed",
       "last", "finish", "cancelling", "failing"}

NoJob   == 0
NoToken == 0

VARIABLES
    status,    \* durable_jobs.status
    token,     \* durable_jobs.claim_token: a fresh UUID per claim, named here
               \* by the claim_generation it was issued with; NoToken is NULL
    gen,       \* durable_jobs.claim_generation
    cancel,    \* durable_jobs.cancel_requested_at IS NOT NULL
    stale,     \* heartbeat_at is older than the cutoff of recover_stale
    retries,   \* durable_jobs.retry_count
    progress,  \* durable_jobs.progress_current
    result,    \* job_file_results.status by job and document
    resultGen, \* job_file_results.claim_generation
    pc, held, heldToken, heldCancel, done,  \* a worker's local state
    faults,    \* crashes and missed heartbeats so far
    late       \* history: results written since a cancel was requested, by
               \* job and document

jobVars    == <<status, token, gen, cancel, stale, retries, progress>>
resultVars == <<result, resultGen, late>>
workerVars == <<pc, held, heldToken, heldCancel, done>>
vars       == <<jobVars, resultVars, workerVars, faults>>

--------------------------------------------------------------------------------
(* The state predicates the repository's WHERE clauses test. *)

\* Mutant: the WHERE clauses forget the claim token.
OwnsAnyClaim(w) ==
    /\ held[w] \in Jobs
    /\ status[held[w]] = "RUNNING"

\* assert_claim, fence_claim and the WHERE clause of every mark_* and of
\* update_progress: the job runs under the claim this worker was given.
OwnsClaim(w) ==
    /\ held[w] \in Jobs
    /\ status[held[w]] = "RUNNING"
    /\ token[held[w]] = heldToken[w]

Orphaned(j) ==
    /\ status[j] = "RUNNING"
    /\ \A w \in Workers : ~(held[w] = j /\ heldToken[w] = token[j])

\* Mutants: the claim passes over jobs that are to be cancelled, or were retried.
QueuedNotCancelled == {j \in Jobs : status[j] = "QUEUED" /\ ~cancel[j]}
QueuedFirstTime    == {j \in Jobs : status[j] = "QUEUED" /\ retries[j] = 0}

Queued == {j \in Jobs : status[j] = "QUEUED"}

\* item_terminal_status: no result at all leaves the decision to the handler's
\* normal return, an incomplete set is a failure, otherwise the worst item rules.
TerminalStatus(r) ==
    IF \A i \in Items : r[i] = NoResult THEN "SUCCEEDED"
    ELSE IF \E i \in Items : r[i] = NoResult THEN "FAILED"
    ELSE IF \A i \in Items : r[i] = "FAILED" THEN "FAILED"
    ELSE IF \E i \in Items : r[i] # "SUCCESS" THEN "PARTIAL"
    ELSE "SUCCEEDED"

--------------------------------------------------------------------------------
Init ==
    /\ status    = [j \in Jobs |-> "ABSENT"]
    /\ token     = [j \in Jobs |-> NoToken]
    /\ gen       = [j \in Jobs |-> 0]
    /\ cancel    = [j \in Jobs |-> FALSE]
    /\ stale     = [j \in Jobs |-> FALSE]
    /\ retries   = [j \in Jobs |-> 0]
    /\ progress  = [j \in Jobs |-> 0]
    /\ result    = [j \in Jobs |-> [i \in Items |-> NoResult]]
    /\ resultGen = [j \in Jobs |-> [i \in Items |-> 0]]
    /\ late      = [j \in Jobs |-> [i \in Items |-> 0]]
    /\ pc         = [w \in Workers |-> "idle"]
    /\ held       = [w \in Workers |-> NoJob]
    /\ heldToken  = [w \in Workers |-> NoToken]
    /\ heldCancel = [w \in Workers |-> FALSE]
    /\ done       = [w \in Workers |-> 0]
    /\ faults    = 0

--------------------------------------------------------------------------------
(* Requests of the API. *)

\* JobRepository.create: jobs are numbered in creation order.
Create(j) ==
    /\ status[j] = "ABSENT"
    /\ \A k \in Jobs : k < j => status[k] # "ABSENT"
    /\ status' = [status EXCEPT ![j] = "QUEUED"]
    /\ UNCHANGED <<token, gen, cancel, stale, retries, progress>>
    /\ UNCHANGED <<resultVars, workerVars, faults>>

\* JobRepository.request_cancel.
RequestCancel(j) ==
    /\ status[j] \in {"QUEUED", "RUNNING"}
    /\ cancel' = [cancel EXCEPT ![j] = TRUE]
    /\ UNCHANGED <<status, token, gen, stale, retries, progress>>
    /\ UNCHANGED <<resultVars, workerVars, faults>>

\* JobRepository.retry: the file results and the generation stay.
Retry(j) ==
    /\ status[j] \in Retryable
    /\ retries[j] < MaxRetries
    /\ status'  = [status EXCEPT ![j] = "QUEUED"]
    /\ retries' = [retries EXCEPT ![j] = @ + 1]
    /\ cancel'  = [cancel EXCEPT ![j] = FALSE]
    /\ stale'   = [stale EXCEPT ![j] = FALSE]
    /\ token'   = [token EXCEPT ![j] = NoToken]
    /\ late'    = [late EXCEPT ![j] = [i \in Items |-> 0]]
    /\ UNCHANGED <<gen, progress, result, resultGen, workerVars, faults>>

\* Mutant: recovery resets the cancellation as a retry does.
RecoverStaleForgetsCancel ==
    LET S == {j \in Jobs : status[j] = "RUNNING" /\ stale[j]}
    IN  /\ S # {}
        /\ status'  = [j \in Jobs |-> IF j \in S THEN "QUEUED" ELSE status[j]]
        /\ retries' = [j \in Jobs |-> IF j \in S THEN retries[j] + 1 ELSE retries[j]]
        /\ token'   = [j \in Jobs |-> IF j \in S THEN NoToken ELSE token[j]]
        /\ stale'   = [j \in Jobs |-> IF j \in S THEN FALSE ELSE stale[j]]
        /\ cancel'  = [j \in Jobs |-> IF j \in S THEN FALSE ELSE cancel[j]]
        /\ UNCHANGED <<gen, progress, resultVars, workerVars, faults>>

\* JobRepository.recover_stale: every stale RUNNING job goes back to the queue
\* in one transaction.  A requested cancellation stays requested.
RecoverStale ==
    LET S == {j \in Jobs : status[j] = "RUNNING" /\ stale[j]}
    IN  /\ S # {}
        /\ status'  = [j \in Jobs |-> IF j \in S THEN "QUEUED" ELSE status[j]]
        /\ retries' = [j \in Jobs |-> IF j \in S THEN retries[j] + 1 ELSE retries[j]]
        /\ token'   = [j \in Jobs |-> IF j \in S THEN NoToken ELSE token[j]]
        /\ stale'   = [j \in Jobs |-> IF j \in S THEN FALSE ELSE stale[j]]
        /\ UNCHANGED <<gen, cancel, progress, resultVars, workerVars, faults>>

--------------------------------------------------------------------------------
(* The worker: DurableJobRunner.run_once. *)

Goto(w, label) == pc' = [pc EXCEPT ![w] = label]

\* Mutant: a job claimed again goes on where the previous claim stopped.
ClaimNextResumes(w) ==
    /\ pc[w] = "idle"
    /\ \E j \in Queued :
           /\ \A k \in Queued : j <= k
           /\ status' = [status EXCEPT ![j] = "RUNNING"]
           /\ gen'    = [gen EXCEPT ![j] = @ + 1]
           /\ token'  = [token EXCEPT ![j] = gen[j] + 1]
           /\ stale'  = [stale EXCEPT ![j] = FALSE]
           /\ held'       = [held EXCEPT ![w] = j]
           /\ heldToken'  = [heldToken EXCEPT ![w] = gen[j] + 1]
           /\ heldCancel' = [heldCancel EXCEPT ![w] = cancel[j]]
           /\ done' = [done EXCEPT ![w] = progress[j]]
    /\ Goto(w, "claimed")
    /\ UNCHANGED <<cancel, retries, progress, resultVars, faults>>

\* JobRepository.claim_next and the commit that follows.
ClaimNext(w) ==
    /\ pc[w] = "idle"
    /\ \E j \in Queued :
           /\ \A k \in Queued : j <= k
           /\ status' = [status EXCEPT ![j] = "RUNNING"]
           /\ gen'    = [gen EXCEPT ![j] = @ + 1]
           /\ token'  = [token EXCEPT ![j] = gen[j] + 1]
           /\ stale'  = [stale EXCEPT ![j] = FALSE]
           /\ held'       = [held EXCEPT ![w] = j]
           /\ heldToken'  = [heldToken EXCEPT ![w] = gen[j] + 1]
           /\ heldCancel' = [heldCancel EXCEPT ![w] = cancel[j]]
    /\ done' = [done EXCEPT ![w] = 0]
    /\ Goto(w, "claimed")
    /\ UNCHANGED <<cancel, retries, progress, resultVars, faults>>

\* run_once looks at the copy of the row it claimed, then enters the handler;
\* a job type without a handler fails.
Start(w) ==
    /\ pc[w] = "claimed"
    /\ \/ heldCancel[w] /\ Goto(w, "cancelling")
       \/ ~heldCancel[w] /\ (Goto(w, "checkpoint") \/ Goto(w, "failing"))
    /\ UNCHANGED <<jobVars, resultVars, held, heldToken, heldCancel, done, faults>>

\* JobContext.ensure_not_cancelled, before each document and after the handler.
EnsureNotCancelled(w) ==
    /\ pc[w] \in {"check", "last"}
    /\ \/ ~OwnsClaim(w) /\ Goto(w, "failing")
       \/ OwnsClaim(w) /\ cancel[held[w]] /\ Goto(w, "cancelling")
       \/ /\ OwnsClaim(w) /\ ~cancel[held[w]]
          /\ Goto(w, IF pc[w] = "check" THEN "work" ELSE "finish")
    /\ UNCHANGED <<jobVars, resultVars, held, heldToken, heldCancel, done, faults>>

\* JobContext.checkpoint: the check, update_progress and the commit; done[w]
\* documents are behind it.  An exception - the claim is gone, a cancellation
\* was requested, the UPDATE fails - leaves the handler, unless the checkpoint
\* is the one inside the per-file guard.
Checkpoint(w) ==
    /\ pc[w] \in {"checkpoint", "guarded"}
    /\ \/ /\ OwnsClaim(w) /\ ~cancel[held[w]]
          /\ progress' = [progress EXCEPT ![held[w]] = done[w]]
          /\ stale'    = [stale EXCEPT ![held[w]] = FALSE]
          /\ Goto(w, IF done[w] = NumItems THEN "last" ELSE "check")
       \/ /\ Goto(w, IF pc[w] = "guarded" THEN "swallowed"
                     ELSE IF OwnsClaim(w) /\ cancel[held[w]] THEN "cancelling"
                     ELSE "failing")
          /\ UNCHANGED <<progress, stale>>
    /\ UNCHANGED <<status, token, gen, cancel, retries>>
    /\ UNCHANGED <<resultVars, held, heldToken, heldCancel, done, faults>>

\* The write of JobRepository.record_file_result for document i.
RecordResult(w, i, s) ==
    LET j == held[w]
    IN  /\ result'    = [result EXCEPT ![j][i] = s]
        /\ resultGen' = [resultGen EXCEPT ![j][i] = heldToken[w]]
        /\ late' = [late EXCEPT ![j][i] = IF cancel[j] THEN @ + 1 ELSE @]

\* Mutants: the result is written without looking at the claim; the handler
\* goes from one document to the next without a checkpoint.
ProcessItemUnfenced(w) ==
    /\ pc[w] = "work"
    /\ \E s \in ItemStatus : RecordResult(w, done[w] + 1, s)
    /\ done' = [done EXCEPT ![w] = @ + 1]
    /\ Goto(w, "checkpoint")
    /\ UNCHANGED <<jobVars, held, heldToken, heldCancel, faults>>

ProcessItemNoCheckpoint(w) ==
    /\ pc[w] = "work"
    /\ OwnsClaim(w)
    /\ \E s \in ItemStatus : RecordResult(w, done[w] + 1, s)
    /\ done' = [done EXCEPT ![w] = @ + 1]
    /\ Goto(w, IF done[w] + 1 < NumItems THEN "work" ELSE "checkpoint")
    /\ UNCHANGED <<jobVars, held, heldToken, heldCancel, faults>>

\* One document of the ingestion handler up to its first commit: its result is
\* recorded under the claim; with the claim gone, or on an exception outside the
\* per-file guard, the transaction is rolled back.  A document whose mapping has
\* to be confirmed is recorded PARTIAL and goes on inside the guard.
\*
\* On that path no transaction is open when record_file_result asks for the
\* claim, so the claim can go between the question and the write; the triggers
\* job_file_results_scope_insert and job_file_results_scope_update then ask
\* again inside the statement that writes and abort it, which is why question
\* and write are one step here.
ProcessItem(w) ==
    /\ pc[w] = "work"
    /\ \/ /\ OwnsClaim(w)
          /\ \E s \in ItemStatus :
                /\ RecordResult(w, done[w] + 1, s)
                /\ Goto(w, "checkpoint") \/ (s = "PARTIAL" /\ Goto(w, "guarded"))
          /\ done' = [done EXCEPT ![w] = @ + 1]
       \/ /\ Goto(w, "failing")
          /\ UNCHANGED <<resultVars, done>>
    /\ UNCHANGED <<jobVars, held, heldToken, heldCancel, faults>>

\* The per-file guard caught an exception of the checkpoint behind a published
\* PARTIAL, a cancellation among them: the document becomes FAILED and that is
\* recorded in a second transaction, under the claim; then comes the checkpoint
\* outside the guard.  With the claim gone, or on a further exception, the
\* PARTIAL stays and the exception leaves the handler.
Swallow(w) ==
    /\ pc[w] = "swallowed"
    /\ \/ /\ OwnsClaim(w)
          /\ RecordResult(w, done[w], "FAILED")
          /\ Goto(w, "checkpoint")
       \/ /\ Goto(w, "failing")
          /\ UNCHANGED resultVars
    /\ UNCHANGED <<jobVars, held, heldToken, heldCancel, done, faults>>

\* The end of run_once: mark_cancelled, mark_failed, or the mark chosen by
\* item_terminal_status.  With the claim gone the UPDATE matches no row, the
\* error leaves run_once and nothing is written.
EndStatus(w) ==
    IF pc[w] = "cancelling" THEN "CANCELLED"
    ELSE IF pc[w] = "failing" THEN "FAILED"
    ELSE TerminalStatus(result[held[w]])

Finish(w) ==
    /\ pc[w] \in {"finish", "cancelling", "failing"}
    /\ \/ /\ OwnsClaim(w)
          /\ status' = [status EXCEPT ![held[w]] = EndStatus(w)]
          /\ stale'  = [stale EXCEPT ![held[w]] = FALSE]
       \/ /\ ~OwnsClaim(w)
          /\ UNCHANGED <<status, stale>>
    /\ Goto(w, "idle")
    /\ held'       = [held EXCEPT ![w] = NoJob]
    /\ heldToken'  = [heldToken EXCEPT ![w] = NoToken]
    /\ heldCancel' = [heldCancel EXCEPT ![w] = FALSE]
    /\ done'       = [done EXCEPT ![w] = 0]
    /\ UNCHANGED <<token, gen, cancel, retries, progress, resultVars, faults>>

--------------------------------------------------------------------------------
(* The environment. *)

\* A worker process stops and is started again: its memory and its open
\* transaction are gone.
Crash(w) ==
    /\ pc[w] # "idle"
    /\ faults < MaxFaults
    /\ faults' = faults + 1
    /\ Goto(w, "idle")
    /\ held'       = [held EXCEPT ![w] = NoJob]
    /\ heldToken'  = [heldToken EXCEPT ![w] = NoToken]
    /\ heldCancel' = [heldCancel EXCEPT ![w] = FALSE]
    /\ done'       = [done EXCEPT ![w] = 0]
    /\ UNCHANGED <<jobVars, resultVars>>

\* Time passes without a heartbeat: the owner is gone, or it is alive and busy
\* with a long document.
HeartbeatAges(j) ==
    /\ status[j] = "RUNNING"
    /\ ~stale[j]
    /\ \/ Orphaned(j) /\ UNCHANGED faults
       \/ ~Orphaned(j) /\ faults < MaxFaults /\ faults' = faults + 1
    /\ stale' = [stale EXCEPT ![j] = TRUE]
    /\ UNCHANGED <<status, token, gen, cancel, retries, progress>>
    /\ UNCHANGED <<resultVars, workerVars>>

--------------------------------------------------------------------------------
WorkerStep(w) ==
    \/ ClaimNext(w)
    \/ Start(w)
    \/ EnsureNotCancelled(w)
    \/ Checkpoint(w)
    \/ ProcessItem(w)
    \/ Swallow(w)
    \/ Finish(w)

Next ==
    \/ \E j \in Jobs : Create(j) \/ RequestCancel(j) \/ Retry(j) \/ HeartbeatAges(j)
    \/ RecoverStale
    \/ \E w \in Workers : WorkerStep(w) \/ Crash(w)

Spec == Init /\ [][Next]_vars

\* A worker process runs run_once in a loop, so each worker that can step does.
\* Users are free to do nothing, and no code under src/ calls recover_stale on
\* a schedule, so neither gets fairness.
FairSpec == Spec /\ \A w \in Workers : WF_vars(WorkerStep(w))

--------------------------------------------------------------------------------
(* Properties. *)

TypeOK ==
    /\ status    \in [Jobs -> Status]
    /\ token     \in [Jobs -> Nat]
    /\ gen       \in [Jobs -> Nat]
    /\ cancel    \in [Jobs -> BOOLEAN]
    /\ stale     \in [Jobs -> BOOLEAN]
    /\ retries   \in [Jobs -> Nat]
    /\ progress  \in [Jobs -> 0..NumItems]
    /\ result    \in [Jobs -> [Items -> ItemStatus \cup {NoResult}]]
    /\ resultGen \in [Jobs -> [Items -> Nat]]
    /\ late      \in [Jobs -> [Items -> Nat]]
    /\ pc         \in [Workers -> PC]
    /\ held       \in [Workers -> Jobs \cup {NoJob}]
    /\ heldToken  \in [Workers -> Nat]
    /\ heldCancel \in [Workers -> BOOLEAN]
    /\ done       \in [Workers -> 0..NumItems]
    /\ faults \in Nat

(***************************************************************************)
(* The inductive invariant.  ClaimInv: a running job is owned under the    *)
(* latest generation, and no two workers hold the same claim of a job.     *)
(* ResultInv: no result is of a claim yet to be given out.  HandlerInv:    *)
(* where the handler stands in its loop over the documents.  OwnerInv:     *)
(* what the owner of a claim knows of the job at each point of the         *)
(* handler.  LateInv: late results need a requested cancellation and are   *)
(* of one document; a second one makes it FAILED.                          *)
(***************************************************************************)
ClaimInv ==
    /\ \A j \in Jobs : status[j] = "RUNNING" => token[j] = gen[j]
    /\ \A j \in Jobs : token[j] <= gen[j]
    /\ \A w \in Workers :
          /\ pc[w] = "idle" <=> held[w] = NoJob
          /\ held[w] # NoJob => heldToken[w] > 0 /\ heldToken[w] <= gen[held[w]]
    /\ \A v, w \in Workers :
          v # w /\ held[v] = held[w] /\ held[v] # NoJob => heldToken[v] # heldToken[w]

ResultInv == \A j \in Jobs, i \in Items : resultGen[j][i] <= gen[j]

HandlerInv ==
    \A w \in Workers :
        /\ pc[w] \in {"last", "finish"} => done[w] = NumItems
        /\ pc[w] \in {"check", "work"} => done[w] < NumItems
        /\ pc[w] \in {"guarded", "swallowed"} => done[w] > 0

OwnerKnows(w) ==
    /\ \A i \in Items :
          IF i <= done[w]
          THEN resultGen[held[w]][i] = heldToken[w] /\ result[held[w]][i] # NoResult
          ELSE resultGen[held[w]][i] # heldToken[w]
    /\ pc[w] \in {"guarded", "swallowed"} =>
          result[held[w]][done[w]] = "PARTIAL" /\ late[held[w]][done[w]] <= 1
    /\ pc[w] = "cancelling" => cancel[held[w]]
    /\ pc[w] = "claimed" /\ heldCancel[w] => cancel[held[w]]
    /\ \A i \in Items : late[held[w]][i] > 0 =>
          \/ pc[w] \in {"guarded", "swallowed", "checkpoint"} /\ i = done[w]
          \/ pc[w] \in {"cancelling", "failing"}
          \/ pc[w] = "claimed" /\ heldCancel[w]

OwnerInv == \A w \in Workers : OwnsClaim(w) => OwnerKnows(w)

LateInv ==
    \A j \in Jobs :
        /\ \A i \in Items : late[j][i] > 0 => cancel[j]
        /\ \A i \in Items : late[j][i] <= 2 /\ (late[j][i] = 2 => result[j][i] = "FAILED")
        /\ \A i, k \in Items : late[j][i] > 0 /\ late[j][k] > 0 => i = k

\* At most one worker can write for a job, whatever was recovered, retried and
\* claimed again behind the back of a slow worker (runner.py: "Single-claim").
OneOwner ==
    \A v, w \in Workers : OwnsClaim(v) /\ OwnsClaim(w) /\ held[v] = held[w] => v = w

\* A job that ended SUCCEEDED or PARTIAL ended on file results that were all
\* recorded by the claim that ended it, and its status is the one those results
\* call for: no result left by an earlier claim is counted.
EndsOnOwnResults ==
    \A j \in Jobs : status[j] \in {"SUCCEEDED", "PARTIAL"} =>
        /\ \A i \in Items : resultGen[j][i] = gen[j]
        /\ status[j] = TerminalStatus(result[j])

\* Once a cancellation is requested, results are written for at most one more
\* document, however often the job is recovered and claimed again before it
\* settles.  They are at most two, and the second one is the FAILED of a document
\* whose published PARTIAL met the cancellation inside the per-file guard.
CancelStopsAtBoundary ==
    \A j \in Jobs :
        /\ \A i, k \in Items : late[j][i] > 0 /\ late[j][k] > 0 => i = k
        /\ \A i \in Items : late[j][i] <= 2 /\ (late[j][i] = 2 => result[j][i] = "FAILED")

IInv ==
    /\ TypeOK /\ HandlerInv /\ ClaimInv /\ ResultInv
    /\ OwnerInv /\ LateInv /\ EndsOnOwnResults

\* A file result, a progress value or an end state is only ever written by the
\* worker that owns the claim at that moment.
FencedWrites ==
    [][\A j \in Jobs :
          \/ result'[j] # result[j]
          \/ progress'[j] # progress[j]
          \/ status[j] = "RUNNING" /\ status'[j] \in Terminal
          => \E w \in Workers :
                held[w] = j /\ OwnsClaim(w) /\ pc'[w] # pc[w]]_vars

\* The queue implements the promise of JobLifecycle: the claim token is the
\* owner, the generation the number of claims given out.
Lifecycle == INSTANCE JobLifecycle
                WITH owner <- token, issued <- gen, recordedBy <- resultGen

ImplementsLifecycle == Lifecycle!Spec

\* A requested cancellation settles: the job ends or its worker has died (it
\* then waits for recover_stale, which nothing schedules).
CancelSettles ==
    \A j \in Jobs :
        cancel[j] /\ status[j] \in {"QUEUED", "RUNNING"}
            ~> status[j] \in Terminal \/ Orphaned(j)

\* A queued job is taken up and then ends, unless the worker that took it dies:
\* cancelling, recovering or (MaxRetries times) retrying a job cannot make the
\* claim pass it or a younger one over.
QueuedJobSettles ==
    \A j \in Jobs :
        status[j] = "QUEUED" ~> status[j] \in Terminal \/ Orphaned(j)

================================================================================
