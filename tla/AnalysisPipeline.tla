--------------------------- MODULE AnalysisPipeline ---------------------------
(***************************************************************************)
(* The analysis of one acquisition workspace: its purchase sources and     *)
(* their parsing, the school's active catalog, and the COMPARE jobs that   *)
(* fill comparison_row_results and comparison_file_results until the       *)
(* workspace reaches CANDIDATE_REVIEW (api/routes/sources.py,              *)
(* api/routes/workspaces.py, jobs/handlers.py, services/comparison.py,     *)
(* workflow/states.py).                                                    *)
(*                                                                         *)
(* Several COMPARE jobs of the workspace may be active at once.  A job has *)
(* one effective worker here: DurableJobs shows that a worker whose claim  *)
(* was taken over writes nothing, and compare_documents checks the claim   *)
(* in the transaction of its writes.                                       *)
(***************************************************************************)
EXTENDS Integers, FiniteSets

CONSTANTS
    Docs,        \* places for purchase sources of the workspace
    NumRows,     \* logical rows of each parsed source
    Jobs,        \* COMPARE jobs
    MaxCatalog,  \* BOUND: catalog versions ever activated
    MaxGen       \* BOUND: parse generations per source

ASSUME AnalysisAssumption ==
    /\ NumRows \in Nat \ {0}
    /\ MaxCatalog \in Nat \ {0}
    /\ MaxGen \in Nat \ {0}

Rows == 1..NumRows

Active    == {"QUEUED", "RUNNING"}
\* Mutant: a comparison that ended PARTIAL cannot be retried.
RetryableNotPartial == {"FAILED", "CANCELLED"}

Retryable == {"FAILED", "PARTIAL", "CANCELLED"}
JobStatus == {"ABSENT", "SUCCEEDED"} \cup Active \cup Retryable

(***************************************************************************)
(* PARSING: an INGEST or PARSE job that names the source is active.        *)
(* PENDING: parsed rows discarded or a mapping is required.  READY: status *)
(* SUCCESS or ROW_ERROR, parsed with the current configuration.            *)
(***************************************************************************)
SourceStatus == {"ABSENT", "PARSING", "PENDING", "READY", "FAILED"}

\* Where the worker of a running job stands in the comparison handler.
PC == {"idle", "start", "select", "batch", "checkpoint", "last",
       "finish", "cancelling", "failing"}

FileStatus == {"NONE", "SUCCESS", "PARTIAL", "FAILED"}
NoRow == 0

VARIABLES
    ws,       \* acquisition_workspaces.status; CANDIDATE_REVIEW stands for
              \* itself and every later status, none of which leads back here
    catalog,  \* the ACTIVE catalog version of the school
    src, gen, \* status of each source and the generation of its parsed rows
    repair,   \* the newest upload repair obligation: NONE, OPEN or RESOLVED
    repairSrc,\* the comparison source uploaded to repair it, if any
    job, cancel,  \* status and cancel_requested_at of each COMPARE job
    snap,     \* payload: catalog version and generation of every source
    jobFile,  \* job_file_results.status by job and source
    rowRes,   \* comparison_row_results by source and row
    fileRes,  \* comparison_file_results.status by source
    pc, doc, row  \* local state of the worker of each running job

sourceVars == <<src, gen, repair, repairSrc>>
jobVars    == <<job, cancel, snap>>
resultVars == <<rowRes, fileRes>>
workerVars == <<pc, doc, row>>
vars == <<ws, catalog, sourceVars, jobVars, jobFile, resultVars, workerVars>>

--------------------------------------------------------------------------------
NoResult == [out |-> "NONE", cat |-> 0, gen |-> 0]
NoSnap   == [cat |-> 0, gen |-> [d \in Docs |-> 0]]
NoRows   == [d \in Docs |-> [r \in Rows |-> NoResult]]
NoFiles  == [d \in Docs |-> "NONE"]

\* authoritative_comparison_sources together with the active catalog.
Snapshot == [cat |-> catalog, gen |-> [d \in Docs |-> IF src[d] = "ABSENT" THEN 0 ELSE gen[d]]]

SourcesReady ==
    /\ repair # "OPEN"
    /\ \E d \in Docs : src[d] = "READY"
    /\ \A d \in Docs : src[d] \in {"ABSENT", "READY"}

\* Mutant: the batch does not look at the active catalog again.
SnapshotValidAnyCatalog(j) == snap[j].gen = Snapshot.gen /\ SourcesReady

\* _validate_claimed_snapshot, evaluated inside the transaction of a batch.
SnapshotValid(j) == snap[j] = Snapshot /\ SourcesReady

Named(j) == {d \in Docs : snap[j].gen[d] > 0}

\* validate_snapshot of the handler, which only looks at the sources it names.
NamedUnchanged(j) ==
    /\ snap[j].cat = catalog
    /\ \A d \in Named(j) : snap[j].gen[d] = Snapshot.gen[d]

\* The precondition of _reopen_terminal_analysis_for_source_correction, or of a
\* correction while the workspace still is a draft.
Correctable ==
    \/ ws = "DRAFT"
    \/ /\ ws = "ANALYZING"
       /\ \A j \in Jobs : job[j] \notin Active
       /\ \E j \in Jobs : job[j] \in Retryable

\* Mutant: the correction keeps the output of the analysis it reopens.
ReopenKeepsOutput ==
    /\ Correctable
    /\ ws' = "DRAFT"
    /\ UNCHANGED <<rowRes, fileRes>>

\* A correction returns the workspace to DRAFT and drops all analysis output.
Reopen ==
    /\ Correctable
    /\ ws' = "DRAFT"
    /\ rowRes'  = IF ws = "ANALYZING" THEN NoRows ELSE rowRes
    /\ fileRes' = IF ws = "ANALYZING" THEN NoFiles ELSE fileRes

\* item_terminal_status over the sources the payload names.
TerminalStatus(j) ==
    LET results == {jobFile[j][d] : d \in Named(j)}
    IN  IF results = {"NONE"} THEN "SUCCEEDED"
        ELSE IF "NONE" \in results \/ results = {"FAILED"} THEN "FAILED"
        ELSE IF results # {"SUCCESS"} THEN "PARTIAL"
        ELSE "SUCCEEDED"

--------------------------------------------------------------------------------
Init ==
    /\ ws      = "DRAFT"
    /\ catalog = 1
    /\ src     = [d \in Docs |-> "ABSENT"]
    /\ gen     = [d \in Docs |-> 0]
    /\ repair  = "NONE"
    /\ repairSrc = {}
    /\ job     = [j \in Jobs |-> "ABSENT"]
    /\ cancel  = [j \in Jobs |-> FALSE]
    /\ snap    = [j \in Jobs |-> NoSnap]
    /\ jobFile = [j \in Jobs |-> NoFiles]
    /\ rowRes  = NoRows
    /\ fileRes = NoFiles
    /\ pc      = [j \in Jobs |-> "idle"]
    /\ doc     = [j \in Jobs |-> {}]
    /\ row     = [j \in Jobs |-> NoRow]

--------------------------------------------------------------------------------
(* Sources and catalog. *)

NewGeneration(d) ==
    /\ gen[d] < MaxGen
    /\ gen' = [gen EXCEPT ![d] = @ + 1]

\* upload_sources with an accepted file; an INGEST job is created.
Upload(d) ==
    /\ ws = "DRAFT"
    /\ src[d] = "ABSENT"
    /\ NewGeneration(d)
    /\ src' = [src EXCEPT ![d] = "PARSING"]
    /\ UNCHANGED <<ws, catalog, repair, repairSrc, jobVars, jobFile, resultVars, workerVars>>

\* upload_sources rejects one file, and the obligation to repair it outlives the
\* request.  The file's role may be UNKNOWN, so this happens at every stage.
RejectUpload ==
    /\ repair # "OPEN"
    /\ repair' = "OPEN"
    /\ repairSrc' = {}
    /\ UNCHANGED <<ws, catalog, src, gen, jobVars, jobFile, resultVars, workerVars>>

\* _reserve_repair_generation, a transaction of its own: it reopens a terminal
\* analysis, and takes up a resolved obligation again, before any file arrives.
ReserveRepair ==
    /\ repair = "OPEN" \/ repairSrc # {}
    /\ Reopen
    /\ repair' = "OPEN"
    /\ UNCHANGED <<catalog, src, gen, repairSrc, jobVars, jobFile, workerVars>>

\* The upload that follows: the file becomes a comparison source in place of
\* the one uploaded by an earlier repair.
RepairUpload(d) ==
    /\ repair = "OPEN"
    /\ ws = "DRAFT"
    /\ repairSrc = {d} \/ (repairSrc = {} /\ src[d] = "ABSENT")
    /\ NewGeneration(d)
    /\ src' = [src EXCEPT ![d] = "PARSING"]
    /\ repairSrc' = {d}
    /\ UNCHANGED <<ws, catalog, repair, jobVars, jobFile, resultVars, workerVars>>

\* The same with a role that is not compared; it is parsed at once here.
RepairOther ==
    /\ repair = "OPEN"
    /\ ws = "DRAFT"
    /\ repairSrc = {}
    /\ repair' = "RESOLVED"
    /\ UNCHANGED <<ws, catalog, src, gen, repairSrc, jobVars, jobFile, resultVars, workerVars>>

\* upload_sources with a replacement, which takes over the role of the source
\* it replaces; an INGEST job starts at once.
Replace(d) ==
    /\ src[d] # "ABSENT"
    /\ NewGeneration(d)
    /\ Reopen
    /\ src' = [src EXCEPT ![d] = "PARSING"]
    /\ repairSrc' = repairSrc \ {d}
    /\ UNCHANGED <<catalog, repair, jobVars, jobFile, workerVars>>

\* update_source_mapping: the rows are dropped until the user asks for a parse.
\* The new role may make the source a comparison source, or no longer one.
Remap(d) ==
    /\ src[d] # "PARSING"
    /\ gen[d] > 0
    /\ NewGeneration(d)
    /\ Reopen
    /\ \/ src' = [src EXCEPT ![d] = "PENDING"] /\ UNCHANGED repairSrc
       \/ /\ src[d] # "ABSENT"
          /\ src' = [src EXCEPT ![d] = "ABSENT"]
          /\ repairSrc' = repairSrc \ {d}
    /\ UNCHANGED <<catalog, repair, jobVars, jobFile, workerVars>>

\* parse_source, or retry_job on the source's INGEST or PARSE job.
Parse(d) ==
    /\ ws = "DRAFT"
    /\ src[d] \in {"PENDING", "READY", "FAILED"}
    /\ NewGeneration(d)
    /\ src' = [src EXCEPT ![d] = "PARSING"]
    /\ UNCHANGED <<ws, catalog, repair, repairSrc, jobVars, jobFile, resultVars, workerVars>>

\* The ingestion handler is done with a source.  A parsed replacement resolves
\* the repair obligation unless none of its rows succeeded
\* (_resolve_repair_after_parse).
ParseEnds(d) ==
    /\ src[d] = "PARSING"
    /\ \E s \in {"READY", "FAILED", "PENDING"} :
          /\ src' = [src EXCEPT ![d] = s]
          /\ \/ UNCHANGED repair
             \/ s = "READY" /\ repair = "OPEN" /\ d \in repairSrc /\ repair' = "RESOLVED"
    /\ UNCHANGED <<ws, catalog, gen, repairSrc, jobVars, jobFile, resultVars, workerVars>>

\* A full snapshot or a delta activates a new catalog version at any moment.
ActivateCatalog ==
    /\ catalog < MaxCatalog
    /\ catalog' = catalog + 1
    /\ UNCHANGED <<ws, sourceVars, jobVars, jobFile, resultVars, workerVars>>

--------------------------------------------------------------------------------
(* Requests about the analysis. *)

\* transition_workspace: PATCH /workspaces/{id}/status, the one bootstrap edge.
Transition ==
    /\ ws = "DRAFT"
    /\ ws' = "ANALYZING"
    /\ UNCHANGED <<catalog, sourceVars, jobVars, jobFile, resultVars, workerVars>>

\* create_comparison_job: status and job change in one transaction.
CreateComparison(j) ==
    /\ job[j] = "ABSENT"
    /\ ws = "DRAFT"
    /\ SourcesReady
    /\ ws'   = "ANALYZING"
    /\ job'  = [job EXCEPT ![j] = "QUEUED"]
    /\ snap' = [snap EXCEPT ![j] = Snapshot]
    /\ UNCHANGED <<catalog, sourceVars, cancel, jobFile, resultVars, workerVars>>

RequestCancel(j) ==
    /\ job[j] \in Active
    /\ cancel' = [cancel EXCEPT ![j] = TRUE]
    /\ UNCHANGED <<ws, catalog, sourceVars, job, snap, jobFile, resultVars, workerVars>>

\* Mutant: a comparison is retried whatever the status of the workspace is.
RetryComparisonAnyStatus(j) ==
    /\ job[j] \in Retryable
    /\ SourcesReady
    /\ snap'    = [snap EXCEPT ![j] = Snapshot]
    /\ jobFile' = [jobFile EXCEPT ![j] = NoFiles]
    /\ rowRes'  = NoRows
    /\ fileRes' = NoFiles
    /\ job'     = [job EXCEPT ![j] = "QUEUED"]
    /\ cancel'  = [cancel EXCEPT ![j] = FALSE]
    /\ UNCHANGED <<ws, catalog, sourceVars, workerVars>>

\* retry_job on a COMPARE job: _refresh_compare_payload_for_retry takes a fresh
\* snapshot and deletes the workspace's comparison output of the sources it
\* names, then JobRepository.retry.
RetryComparison(j) ==
    /\ job[j] \in Retryable
    /\ ws = "ANALYZING"
    /\ SourcesReady
    /\ snap'    = [snap EXCEPT ![j] = Snapshot]
    /\ jobFile' = [jobFile EXCEPT ![j] = NoFiles]
    /\ rowRes'  = NoRows
    /\ fileRes' = NoFiles
    /\ job'     = [job EXCEPT ![j] = "QUEUED"]
    /\ cancel'  = [cancel EXCEPT ![j] = FALSE]
    /\ UNCHANGED <<ws, catalog, sourceVars, workerVars>>

--------------------------------------------------------------------------------
(* The comparison handler under run_once. *)

Goto(j, label) == pc' = [pc EXCEPT ![j] = label]

Claim(j) ==
    /\ job[j] = "QUEUED"
    /\ job' = [job EXCEPT ![j] = "RUNNING"]
    /\ Goto(j, IF cancel[j] THEN "cancelling" ELSE "start")
    /\ UNCHANGED <<ws, catalog, sourceVars, cancel, snap, jobFile, resultVars, doc, row>>

\* The handler's own validation and its first checkpoint.  Any step of the
\* handler may also raise.
Start(j) ==
    /\ pc[j] = "start"
    /\ \/ cancel[j] /\ Goto(j, "cancelling") /\ UNCHANGED doc
       \/ ~cancel[j] /\ NamedUnchanged(j) /\ Goto(j, "select") /\ doc' = [doc EXCEPT ![j] = Named(j)]
       \/ Goto(j, "failing") /\ UNCHANGED doc
    /\ UNCHANGED <<ws, catalog, sourceVars, jobVars, jobFile, resultVars, row>>

\* Pick the first row without a result, outside any transaction.  row[j] also
\* says whether a batch of this source was processed: if none was, an empty
\* batch still publishes the result of a source found complete.
Select(j) ==
    /\ pc[j] = "select"
    /\ \/ /\ doc[j] = {}
          /\ Goto(j, "last")
          /\ UNCHANGED <<doc, row>>
       \/ /\ doc[j] # {}
          /\ LET d == CHOOSE e \in doc[j] : TRUE
                 open == {r \in Rows : rowRes[d][r] = NoResult}
             IN  \/ /\ \E r \in open : /\ \A q \in open : r <= q
                                       /\ row' = [row EXCEPT ![j] = r]
                    /\ Goto(j, "batch")
                    /\ UNCHANGED doc
                 \/ /\ open = {} /\ row[j] = NoRow
                    /\ Goto(j, "batch")
                    /\ UNCHANGED <<doc, row>>
                 \/ /\ open = {} /\ row[j] # NoRow
                    /\ doc' = [doc EXCEPT ![j] = @ \ {d}]
                    /\ row' = [row EXCEPT ![j] = NoRow]
                    /\ UNCHANGED pc
    /\ UNCHANGED <<ws, catalog, sourceVars, jobVars, jobFile, resultVars>>

FileStatusOf(results) ==
    LET bad == {r \in Rows : results[r].out = "ROW_ERROR"}
    IN  IF bad = Rows THEN "FAILED" ELSE IF bad # {} THEN "PARTIAL" ELSE "SUCCESS"

\* compare_documents in one claim-fenced transaction: the snapshot is checked
\* again, a row that is done is not scored twice, and the last open row of a
\* source publishes its file result.
Batch(j) ==
    /\ pc[j] = "batch"
    /\ \/ /\ SnapshotValid(j)
          /\ LET d == CHOOSE e \in doc[j] : TRUE
                 scored == {r \in Rows : r = row[j] /\ rowRes[d][r].out \in {"NONE", "ROW_ERROR"}}
             IN  \E out \in {"MATCHED", "ROW_ERROR"} :
                 LET results == [r \in Rows |->
                                    IF r \in scored
                                    THEN [out |-> out, cat |-> catalog, gen |-> gen[d]]
                                    ELSE rowRes[d][r]]
                     complete == \A r \in Rows : results[r] # NoResult
                 IN  /\ rowRes' = [rowRes EXCEPT ![d] = results]
                     /\ fileRes' = IF complete
                                   THEN [fileRes EXCEPT ![d] = FileStatusOf(results)]
                                   ELSE fileRes
                     /\ jobFile' = IF complete
                                   THEN [jobFile EXCEPT ![j][d] = FileStatusOf(results)]
                                   ELSE jobFile
                     /\ doc' = [doc EXCEPT ![j] = IF row[j] = NoRow THEN @ \ {d} ELSE @]
          /\ Goto(j, IF row[j] = NoRow THEN "select" ELSE "checkpoint")
       \/ /\ Goto(j, "failing")
          /\ UNCHANGED <<rowRes, fileRes, jobFile, doc>>
    /\ UNCHANGED <<ws, catalog, sourceVars, jobVars, row>>

\* The checkpoint after a batch and the check after the handler.
Checkpoint(j) ==
    /\ pc[j] \in {"checkpoint", "last"}
    /\ \/ cancel[j] /\ Goto(j, "cancelling")
       \/ ~cancel[j] /\ Goto(j, IF pc[j] = "last" THEN "finish" ELSE "select")
    /\ UNCHANGED <<ws, catalog, sourceVars, jobVars, jobFile, resultVars, doc, row>>

EndStatus(j) ==
    IF pc[j] = "cancelling" THEN "CANCELLED"
    ELSE IF pc[j] = "failing" THEN "FAILED"
    ELSE TerminalStatus(j)

\* complete_analysis_for_succeeded_job, run by mark_succeeded in its transaction.
AnalysisComplete(j) ==
    /\ ws = "ANALYZING"
    /\ Named(j) # {}
    /\ \A d \in Named(j) : fileRes[d] \in {"SUCCESS", "PARTIAL"}

Finish(j) ==
    /\ pc[j] \in {"finish", "cancelling", "failing"}
    /\ job' = [job EXCEPT ![j] = EndStatus(j)]
    /\ ws' = IF EndStatus(j) = "SUCCEEDED" /\ AnalysisComplete(j)
             THEN "CANDIDATE_REVIEW" ELSE ws
    /\ Goto(j, "idle")
    /\ doc' = [doc EXCEPT ![j] = {}]
    /\ row' = [row EXCEPT ![j] = NoRow]
    /\ UNCHANGED <<catalog, sourceVars, cancel, snap, jobFile, resultVars>>

\* The worker dies and recover_stale queues its job again; every committed
\* batch stays.
CrashAndRecover(j) ==
    /\ job[j] = "RUNNING"
    /\ job' = [job EXCEPT ![j] = "QUEUED"]
    /\ Goto(j, "idle")
    /\ doc' = [doc EXCEPT ![j] = {}]
    /\ row' = [row EXCEPT ![j] = NoRow]
    /\ UNCHANGED <<ws, catalog, sourceVars, cancel, snap, jobFile, resultVars>>

--------------------------------------------------------------------------------
JobStep(j) ==
    \/ CreateComparison(j) \/ RequestCancel(j) \/ RetryComparison(j)
    \/ Claim(j) \/ Start(j) \/ Select(j) \/ Batch(j) \/ Checkpoint(j) \/ Finish(j)
    \/ CrashAndRecover(j)

SourceStep(d) ==
    Upload(d) \/ RepairUpload(d) \/ Replace(d) \/ Remap(d) \/ Parse(d) \/ ParseEnds(d)

Next ==
    \/ \E j \in Jobs : JobStep(j)
    \/ \E d \in Docs : SourceStep(d)
    \/ RejectUpload
    \/ ReserveRepair
    \/ RepairOther
    \/ ActivateCatalog
    \/ Transition

Spec == Init /\ [][Next]_vars

--------------------------------------------------------------------------------
(* Properties. *)

TypeOK ==
    /\ ws \in {"DRAFT", "ANALYZING", "CANDIDATE_REVIEW"}
    /\ catalog \in 1..MaxCatalog
    /\ src \in [Docs -> SourceStatus]
    /\ gen \in [Docs -> 0..MaxGen]
    /\ repair \in {"NONE", "OPEN", "RESOLVED"}
    /\ repairSrc \in SUBSET Docs
    /\ job \in [Jobs -> JobStatus]
    /\ cancel \in [Jobs -> BOOLEAN]
    /\ snap \in [Jobs -> [cat : 0..MaxCatalog, gen : [Docs -> 0..MaxGen]]]
    /\ jobFile \in [Jobs -> [Docs -> FileStatus]]
    /\ rowRes \in [Docs -> [Rows -> [out : {"NONE", "MATCHED", "ROW_ERROR"},
                                     cat : 0..MaxCatalog, gen : 0..MaxGen]]]
    /\ fileRes \in [Docs -> FileStatus]
    /\ pc \in [Jobs -> PC]
    /\ doc \in [Jobs -> SUBSET Docs]
    /\ row \in [Jobs -> Rows \cup {NoRow}]

\* A workspace under candidate review has an outcome for every row of every
\* source, scored from the rows the source has now and against one catalog
\* version, whatever jobs were cancelled, retried or overtaken on the way.
ReviewAccountsForEveryRow ==
    ws = "CANDIDATE_REVIEW" =>
        /\ \A d \in Docs, r \in Rows : src[d] # "ABSENT" =>
              rowRes[d][r].out # "NONE" /\ rowRes[d][r].gen = gen[d]
        /\ \A d, e \in Docs, r, s \in Rows :
              src[d] # "ABSENT" /\ src[e] # "ABSENT" =>
                 rowRes[d][r].cat = rowRes[e][s].cat

\* Comparison jobs may still run while candidates are under review.  They take no
\* outcome back and change none; they may only match a row that was an error, from
\* the same rows and the same catalog as everything else that is reviewed.
ReviewKeepsOutcomes ==
    [][ws = "CANDIDATE_REVIEW" =>
          \A d \in Docs, r \in Rows : rowRes'[d][r] # rowRes[d][r] =>
             /\ rowRes[d][r].out = "ROW_ERROR"
             /\ rowRes'[d][r] = [rowRes[d][r] EXCEPT !.out = "MATCHED"]]_vars

\* No analysis output is left in a workspace that is a draft: nothing scored
\* before a correction can be counted after it.
DraftHasNoOutput ==
    ws = "DRAFT" => rowRes = NoRows /\ fileRes = NoFiles

\* An analysis that was started by a job can always go on: some job of the
\* workspace is active, or ended in a way that may be retried or corrected.
AnalysisCanContinue ==
    ws = "ANALYZING" /\ (\E j \in Jobs : job[j] # "ABSENT")
        => \E j \in Jobs : job[j] \in Active \cup Retryable

================================================================================
