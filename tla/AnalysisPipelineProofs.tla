------------------------- MODULE AnalysisPipelineProofs -------------------------
(***************************************************************************)
(* Proofs about AnalysisPipeline: what reaches candidate review is         *)
(* complete, of one snapshot and kept, and an analysis can always go on,   *)
(* for any number of sources, rows, comparison jobs, catalog versions and  *)
(* parse generations.                                                      *)
(***************************************************************************)
EXTENDS AnalysisPipeline, RowGuards, TLAPS

--------------------------------------------------------------------------------
(* The inductive invariant. *)

Late == {"select", "batch", "checkpoint", "last", "finish"}

\* The sources of the workspace, and the one that the worker of job j is at.
Present == {d \in Docs : src[d] # "ABSENT"}
At(j)   == CHOOSE e \in doc[j] : TRUE

Scored(d, r) == rowRes[d][r] # NoResult
Complete(d)  == \A r \in Rows : Scored(d, r)

\* A worker works on its running job, and on sources that its payload names.
Places ==
    \A j \in Jobs :
        /\ pc[j] # "idle" <=> job[j] = "RUNNING"
        /\ pc[j] \in Late => doc[j] \subseteq Named(j)
        /\ pc[j] = "batch" => doc[j] # {}
        /\ pc[j] \in {"last", "finish"} => doc[j] = {}

\* While a comparison is active no source changes: its payload names the sources
\* that there are, and all of them are parsed.  Only the catalog may move on.
Snapshots ==
    /\ \A d \in Present : gen[d] > 0
    /\ \A j \in Jobs : job[j] \in Active =>
          /\ ws # "DRAFT"
          /\ snap[j].gen = Snapshot.gen
          /\ \A d \in Docs : src[d] \in {"ABSENT", "READY"}
    /\ \A j \in Jobs : snap[j].cat <= catalog

\* Every result is of the rows its source has now, and all are of one catalog,
\* which is the active one as long as a comparison may still add to them.
Results ==
    /\ \A d \in Docs, r \in Rows :
          IF Scored(d, r) THEN rowRes[d][r].out # "NONE" /\ rowRes[d][r].gen = gen[d]
          ELSE rowRes[d][r].out = "NONE"
    /\ \A d, e \in Docs, r, s \in Rows : Scored(d, r) /\ Scored(e, s) => rowRes[d][r].cat = rowRes[e][s].cat
    /\ \A j \in Jobs : job[j] \in Active /\ snap[j].cat = catalog =>
          \A d \in Docs, r \in Rows : Scored(d, r) => rowRes[d][r].cat = catalog
    /\ \A d \in Docs : fileRes[d] # "NONE" <=> Complete(d)

\* The job that published a failed source is there and cannot succeed.
FailuresHaveAJob ==
    ws = "ANALYZING" => \A d \in Docs : fileRes[d] = "FAILED" =>
        \E j \in Jobs : job[j] \in Active \cup Retryable /\ d \in Named(j) /\ jobFile[j][d] = "FAILED"

\* What the worker of job j has done with was not taken back since.
Fresh(j) ==
    pc[j] \in Late =>
        /\ \A d \in Named(j) \ doc[j] : fileRes[d] # "NONE"
        /\ pc[j] = "batch" /\ row[j] = NoRow => fileRes[At(j)] # "NONE"

\* Some job may be retried, or is active and nothing was taken back from it.
HasLeader ==
    ws # "CANDIDATE_REVIEW" /\ (\E j \in Jobs : job[j] # "ABSENT") =>
        \E j \in Jobs : job[j] \in Retryable \/ (job[j] \in Active /\ Fresh(j))

ReviewIsComplete == ws = "CANDIDATE_REVIEW" => \A d \in Present : Complete(d)

AInv ==
    /\ TypeOK /\ Places /\ Snapshots /\ Results
    /\ FailuresHaveAJob /\ HasLeader /\ ReviewIsComplete /\ DraftHasNoOutput

--------------------------------------------------------------------------------
(* Types. *)

Result   == [out : {"NONE", "MATCHED", "ROW_ERROR"}, cat : 0..MaxCatalog, gen : 0..MaxGen]
Payload  == [cat : 0..MaxCatalog, gen : [Docs -> 0..MaxGen]]

LEMMA EmptyTypes ==
  /\ NoRows \in [Docs -> [Rows -> Result]]
  /\ NoFiles \in [Docs -> FileStatus]
  /\ NoSnap \in Payload
  /\ NoRow \notin Rows /\ 1 \in Rows
BY AnalysisAssumption DEF NoRows, NoResult, Result, NoFiles, FileStatus, NoSnap, Payload, NoRow, Rows

LEMMA SnapshotType == TypeOK => Snapshot \in Payload
BY AnalysisAssumption DEF TypeOK, Snapshot, Payload

LEMMA InitType == Init => TypeOK
<1>. SUFFICES ASSUME Init PROVE TypeOK
  OBVIOUS
<1>1. /\ ws \in {"DRAFT", "ANALYZING", "CANDIDATE_REVIEW"} /\ catalog \in 1..MaxCatalog
      /\ src \in [Docs -> SourceStatus] /\ gen \in [Docs -> 0..MaxGen]
      /\ repair \in {"NONE", "OPEN", "RESOLVED"} /\ repairSrc \in SUBSET Docs
  BY AnalysisAssumption DEF Init, SourceStatus
<1>2. job \in [Jobs -> JobStatus] /\ cancel \in [Jobs -> BOOLEAN] /\ snap \in [Jobs -> Payload]
  BY EmptyTypes DEF Init, JobStatus
<1>3. /\ jobFile \in [Jobs -> [Docs -> FileStatus]] /\ rowRes \in [Docs -> [Rows -> Result]]
      /\ fileRes \in [Docs -> FileStatus]
  BY EmptyTypes DEF Init
<1>4. /\ pc \in [Jobs -> PC] /\ doc \in [Jobs -> SUBSET Docs]
      /\ row \in [Jobs -> Rows \cup {NoRow}]
  BY DEF Init, PC
<1>. QED
  BY <1>1, <1>2, <1>3, <1>4 DEF TypeOK, Payload, Result

\* A correction keeps the types of what it drops.
LEMMA ReopenTypes ==
  ASSUME TypeOK, Reopen
  PROVE  /\ ws' = "DRAFT" /\ rowRes' \in [Docs -> [Rows -> Result]]
         /\ fileRes' \in [Docs -> FileStatus]
BY EmptyTypes DEF TypeOK, Reopen, Result

\* Requests and steps about sources.
LEMMA SourceTypes ==
  ASSUME TypeOK,
         \/ \E d \in Docs : SourceStep(d)
         \/ RejectUpload \/ ReserveRepair \/ RepairOther
  PROVE  TypeOK'
<1>1. /\ gen \in [Docs -> 0..MaxGen] /\ src \in [Docs -> SourceStatus] /\ MaxGen \in Nat
      /\ repairSrc \in SUBSET Docs /\ repair \in {"NONE", "OPEN", "RESOLVED"}
  BY AnalysisAssumption DEF TypeOK
<1>2. ASSUME NEW d \in Docs, NewGeneration(d) PROVE gen' \in [Docs -> 0..MaxGen]
  BY <1>1, <1>2 DEF NewGeneration
<1>3. ASSUME NEW d \in Docs, Upload(d) PROVE TypeOK'
  <2>1. src' \in [Docs -> SourceStatus]
    BY <1>1, <1>3 DEF Upload, SourceStatus
  <2>2. gen' \in [Docs -> 0..MaxGen]
    BY <1>2, <1>3 DEF Upload
  <2>. QED
    BY <1>3, <2>1, <2>2 DEF Upload, TypeOK, jobVars, resultVars, workerVars
<1>4. ASSUME NEW d \in Docs, RepairUpload(d) PROVE TypeOK'
  <2>1. src' \in [Docs -> SourceStatus] /\ repairSrc' \in SUBSET Docs
    BY <1>1, <1>4 DEF RepairUpload, SourceStatus
  <2>2. gen' \in [Docs -> 0..MaxGen]
    BY <1>2, <1>4 DEF RepairUpload
  <2>. QED
    BY <1>4, <2>1, <2>2 DEF RepairUpload, TypeOK, jobVars, resultVars, workerVars
<1>5. ASSUME NEW d \in Docs, Replace(d) PROVE TypeOK'
  <2>1. src' \in [Docs -> SourceStatus] /\ repairSrc' \in SUBSET Docs
    BY <1>1, <1>5 DEF Replace, SourceStatus
  <2>2. gen' \in [Docs -> 0..MaxGen]
    BY <1>2, <1>5 DEF Replace
  <2>3. ws' = "DRAFT" /\ rowRes' \in [Docs -> [Rows -> Result]] /\ fileRes' \in [Docs -> FileStatus]
    BY <1>5, ReopenTypes DEF Replace
  <2>. QED
    BY <1>5, <2>1, <2>2, <2>3 DEF Replace, TypeOK, jobVars, workerVars, Result
<1>6. ASSUME NEW d \in Docs, Remap(d) PROVE TypeOK'
  <2>1. src' \in [Docs -> SourceStatus] /\ repairSrc' \in SUBSET Docs
    BY <1>1, <1>6 DEF Remap, SourceStatus
  <2>2. gen' \in [Docs -> 0..MaxGen]
    BY <1>2, <1>6 DEF Remap
  <2>3. ws' = "DRAFT" /\ rowRes' \in [Docs -> [Rows -> Result]] /\ fileRes' \in [Docs -> FileStatus]
    BY <1>6, ReopenTypes DEF Remap
  <2>. QED
    BY <1>6, <2>1, <2>2, <2>3 DEF Remap, TypeOK, jobVars, workerVars, Result
<1>7. ASSUME NEW d \in Docs, Parse(d) PROVE TypeOK'
  <2>1. src' \in [Docs -> SourceStatus]
    BY <1>1, <1>7 DEF Parse, SourceStatus
  <2>2. gen' \in [Docs -> 0..MaxGen]
    BY <1>2, <1>7 DEF Parse
  <2>. QED
    BY <1>7, <2>1, <2>2 DEF Parse, TypeOK, jobVars, resultVars, workerVars
<1>8. ASSUME NEW d \in Docs, ParseEnds(d) PROVE TypeOK'
  <2>1. src' \in [Docs -> SourceStatus] /\ repair' \in {"NONE", "OPEN", "RESOLVED"}
    BY <1>1, <1>8 DEF ParseEnds, SourceStatus
  <2>. QED
    BY <1>8, <2>1 DEF ParseEnds, TypeOK, jobVars, resultVars, workerVars
<1>9. CASE RejectUpload
  BY <1>9 DEF RejectUpload, TypeOK, jobVars, resultVars, workerVars
<1>10. CASE ReserveRepair
  <2>1. ws' = "DRAFT" /\ rowRes' \in [Docs -> [Rows -> Result]] /\ fileRes' \in [Docs -> FileStatus]
    BY <1>10, ReopenTypes DEF ReserveRepair
  <2>. QED
    BY <1>10, <2>1 DEF ReserveRepair, TypeOK, jobVars, workerVars, Result
<1>11. CASE RepairOther
  BY <1>11 DEF RepairOther, TypeOK, jobVars, resultVars, workerVars
<1>. QED
  BY <1>3, <1>4, <1>5, <1>6, <1>7, <1>8, <1>9, <1>10, <1>11 DEF SourceStep

--------------------------------------------------------------------------------
(* What a batch writes. *)

\* The results of source d after the worker of job j scored its row with outcome
\* out, and what becomes of the source's file result.
Scoring(j, d, out) ==
    [r \in Rows |-> IF r = row[j] /\ rowRes[d][r].out \in {"NONE", "ROW_ERROR"}
                    THEN [out |-> out, cat |-> catalog, gen |-> gen[d]] ELSE rowRes[d][r]]

BatchWrites(j, out) ==
    LET d        == At(j)
        results  == Scoring(j, d, out)
        complete == \A r \in Rows : results[r] # NoResult
    IN  /\ rowRes' = [rowRes EXCEPT ![d] = results]
        /\ fileRes' = IF complete THEN [fileRes EXCEPT ![d] = FileStatusOf(results)] ELSE fileRes
        /\ jobFile' = IF complete THEN [jobFile EXCEPT ![j][d] = FileStatusOf(results)] ELSE jobFile
        /\ doc' = [doc EXCEPT ![j] = IF row[j] = NoRow THEN doc[j] \ {d} ELSE doc[j]]

BatchSucceeds(j) ==
    /\ SnapshotValid(j)
    /\ \E out \in {"MATCHED", "ROW_ERROR"} : BatchWrites(j, out)
    /\ pc' = [pc EXCEPT ![j] = IF row[j] = NoRow THEN "select" ELSE "checkpoint"]

LEMMA BatchCases ==
  ASSUME NEW j \in Jobs, Batch(j)
  PROVE  /\ pc[j] = "batch"
         /\ UNCHANGED <<ws, catalog, src, gen, repair, repairSrc, job, cancel, snap, row>>
         /\ \/ BatchSucceeds(j)
            \/ pc' = [pc EXCEPT ![j] = "failing"] /\ UNCHANGED <<rowRes, fileRes, jobFile, doc>>
<1>1. pc[j] = "batch" /\ UNCHANGED <<ws, catalog, src, gen, repair, repairSrc, job, cancel, snap, row>>
  BY DEF Batch, sourceVars, jobVars
<1>2. CASE Goto(j, "failing") /\ UNCHANGED <<rowRes, fileRes, jobFile, doc>>
  BY <1>1, <1>2 DEF Goto
<1>3. CASE ~(Goto(j, "failing") /\ UNCHANGED <<rowRes, fileRes, jobFile, doc>>)
  <2>1. /\ SnapshotValid(j)
        /\ LET d == CHOOSE e \in doc[j] : TRUE
               scored == {r \in Rows : r = row[j] /\ rowRes[d][r].out \in {"NONE", "ROW_ERROR"}}
           IN  \E out \in {"MATCHED", "ROW_ERROR"} :
               LET results == [r \in Rows |->
                                  IF r \in scored
                                  THEN [out |-> out, cat |-> catalog, gen |-> gen[d]]
                                  ELSE rowRes[d][r]]
                   complete == \A r \in Rows : results[r] # NoResult
               IN  /\ rowRes' = [rowRes EXCEPT ![d] = results]
                   /\ fileRes' = IF complete
                                 THEN [fileRes EXCEPT ![d] = FileStatusOf(results)]
                                 ELSE fileRes
                   /\ jobFile' = IF complete
                                 THEN [jobFile EXCEPT ![j][d] = FileStatusOf(results)]
                                 ELSE jobFile
                   /\ doc' = [doc EXCEPT ![j] = IF row[j] = NoRow THEN @ \ {d} ELSE @]
        /\ Goto(j, IF row[j] = NoRow THEN "select" ELSE "checkpoint")
    BY <1>3 DEF Batch
  <2>. DEFINE d == At(j)
              scored == {r \in Rows : r = row[j] /\ rowRes[d][r].out \in {"NONE", "ROW_ERROR"}}
  <2>2. PICK out \in {"MATCHED", "ROW_ERROR"} :
           LET results == [r \in Rows |-> IF r \in scored
                              THEN [out |-> out, cat |-> catalog, gen |-> gen[d]] ELSE rowRes[d][r]]
               complete == \A r \in Rows : results[r] # NoResult
           IN  /\ rowRes' = [rowRes EXCEPT ![d] = results]
               /\ fileRes' = IF complete THEN [fileRes EXCEPT ![d] = FileStatusOf(results)] ELSE fileRes
               /\ jobFile' = IF complete THEN [jobFile EXCEPT ![j][d] = FileStatusOf(results)] ELSE jobFile
               /\ doc' = [doc EXCEPT ![j] = IF row[j] = NoRow THEN doc[j] \ {d} ELSE doc[j]]
    BY <2>1 DEF At
  <2>3. Scoring(j, d, out) = [r \in Rows |-> IF r \in scored
                              THEN [out |-> out, cat |-> catalog, gen |-> gen[d]] ELSE rowRes[d][r]]
    BY DEF Scoring
  <2>. HIDE DEF scored, d
  <2>4. BatchWrites(j, out)
    BY <2>2, <2>3 DEF BatchWrites, d
  <2>. QED
    BY <1>1, <2>1, <2>4 DEF BatchSucceeds, Goto
<1>. QED
  BY <1>2, <1>3

\* What such a batch does to source d: a row that has a result which is no error
\* keeps it, and the source is published when none of its rows is open.
BatchAddsTo(j, d) ==
    /\ d \in doc[j] /\ d \in Docs
    /\ rowRes' \in [Docs -> [Rows -> Result]] /\ fileRes' \in [Docs -> FileStatus]
    /\ jobFile' \in [Jobs -> [Docs -> FileStatus]]
    /\ doc' = [doc EXCEPT ![j] = IF row[j] = NoRow THEN doc[j] \ {d} ELSE doc[j]]
    /\ \A e \in Docs : e # d => rowRes'[e] = rowRes[e] /\ fileRes'[e] = fileRes[e]
    /\ \A k \in Jobs, e \in Docs : k # j \/ e # d => jobFile'[k][e] = jobFile[k][e]
    /\ \E out \in {"MATCHED", "ROW_ERROR"} : \A r \in Rows :
         rowRes'[d][r] = IF r = row[j] /\ rowRes[d][r].out \in {"NONE", "ROW_ERROR"}
                         THEN [out |-> out, cat |-> catalog, gen |-> gen[d]] ELSE rowRes[d][r]
    /\ IF Complete(d)' THEN fileRes'[d] # "NONE" /\ jobFile'[j][d] = fileRes'[d]
       ELSE fileRes'[d] = fileRes[d] /\ jobFile'[j][d] = jobFile[j][d]

\* A batch that succeeds adds to the source its worker is at, and to no other.
LEMMA BatchEffect ==
  ASSUME TypeOK, NEW j \in Jobs, doc[j] # {}, BatchSucceeds(j), NEW d, d = At(j)
  PROVE  BatchAddsTo(j, d)
<1>1. /\ rowRes \in [Docs -> [Rows -> Result]] /\ fileRes \in [Docs -> FileStatus]
      /\ jobFile \in [Jobs -> [Docs -> FileStatus]]
      /\ doc \in [Jobs -> SUBSET Docs] /\ catalog \in 0..MaxCatalog /\ gen \in [Docs -> 0..MaxGen]
  BY AnalysisAssumption DEF TypeOK, Result
<1>2. d \in doc[j] /\ d \in Docs
  BY <1>1 DEF At
<1>3. PICK out \in {"MATCHED", "ROW_ERROR"} : BatchWrites(j, out)
  BY DEF BatchSucceeds
<1>. DEFINE results  == Scoring(j, d, out)
            complete == \A r \in Rows : results[r] # NoResult
            whole    == FileStatusOf(results)
<1>4. /\ rowRes' = [rowRes EXCEPT ![d] = results]
      /\ fileRes' = IF complete THEN [fileRes EXCEPT ![d] = whole] ELSE fileRes
      /\ jobFile' = IF complete THEN [jobFile EXCEPT ![j][d] = whole] ELSE jobFile
      /\ doc' = [doc EXCEPT ![j] = IF row[j] = NoRow THEN doc[j] \ {d} ELSE doc[j]]
  BY <1>3 DEF BatchWrites
<1>5. \A r \in Rows : results[r] = IF r = row[j] /\ rowRes[d][r].out \in {"NONE", "ROW_ERROR"}
                                 THEN [out |-> out, cat |-> catalog, gen |-> gen[d]] ELSE rowRes[d][r]
  BY DEF Scoring
<1>6. results \in [Rows -> Result]
  <2>1. [out |-> out, cat |-> catalog, gen |-> gen[d]] \in Result
    BY <1>1, <1>2 DEF Result
  <2>2. rowRes[d] \in [Rows -> Result]
    BY <1>1, <1>2
  <2>. QED
    BY <2>1, <2>2 DEF Scoring
<1>7. whole \in FileStatus \ {"NONE"}
  BY DEF FileStatusOf, FileStatus
<1>. HIDE DEF results, whole
<1>8. rowRes'[d] = results /\ \A e \in Docs : e # d => rowRes'[e] = rowRes[e]
  BY <1>1, <1>2, <1>4
<1>9. Complete(d)' <=> complete
  BY <1>8 DEF Complete, Scored
<1>10. /\ rowRes' \in [Docs -> [Rows -> Result]] /\ fileRes' \in [Docs -> FileStatus]
       /\ jobFile' \in [Jobs -> [Docs -> FileStatus]]
  <2>1. fileRes' \in [Docs -> FileStatus]
    BY <1>1, <1>2, <1>4, <1>7
  <2>2. jobFile' \in [Jobs -> [Docs -> FileStatus]]
    BY <1>1, <1>2, <1>4, <1>7
  <2>. QED
    BY <1>1, <1>2, <1>4, <1>6, <2>1, <2>2
<1>11. /\ \A e \in Docs : e # d => fileRes'[e] = fileRes[e]
       /\ \A k \in Jobs, e \in Docs : k # j \/ e # d => jobFile'[k][e] = jobFile[k][e]
  BY <1>1, <1>2, <1>4
<1>12. IF Complete(d)' THEN fileRes'[d] # "NONE" /\ jobFile'[j][d] = fileRes'[d]
       ELSE fileRes'[d] = fileRes[d] /\ jobFile'[j][d] = jobFile[j][d]
  BY <1>1, <1>2, <1>4, <1>7, <1>9
<1>. QED
  BY <1>2, <1>4, <1>5, <1>8, <1>10, <1>11, <1>12 DEF BatchAddsTo

--------------------------------------------------------------------------------
(* Types of what requests and workers write. *)

LEMMA RequestTypes ==
  ASSUME TypeOK,
         \/ \E j \in Jobs : CreateComparison(j) \/ RequestCancel(j) \/ RetryComparison(j)
         \/ ActivateCatalog \/ Transition
  PROVE  TypeOK'
<1>1. /\ job \in [Jobs -> JobStatus] /\ cancel \in [Jobs -> BOOLEAN] /\ snap \in [Jobs -> Payload]
      /\ jobFile \in [Jobs -> [Docs -> FileStatus]] /\ catalog \in 1..MaxCatalog
      /\ Snapshot \in Payload /\ MaxCatalog \in Nat
  BY SnapshotType, AnalysisAssumption DEF TypeOK, Payload
<1>2. ASSUME NEW j \in Jobs, CreateComparison(j) PROVE TypeOK'
  <2>1. job' \in [Jobs -> JobStatus] /\ snap' \in [Jobs -> Payload]
    BY <1>1, <1>2 DEF CreateComparison, JobStatus, Active
  <2>. QED
    BY <1>2, <2>1 DEF CreateComparison, TypeOK, sourceVars, resultVars, workerVars, Payload
<1>3. ASSUME NEW j \in Jobs, RequestCancel(j) PROVE TypeOK'
  <2>1. cancel' \in [Jobs -> BOOLEAN]
    BY <1>1, <1>3 DEF RequestCancel
  <2>. QED
    BY <1>3, <2>1 DEF RequestCancel, TypeOK, sourceVars, resultVars, workerVars
<1>4. ASSUME NEW j \in Jobs, RetryComparison(j) PROVE TypeOK'
  <2>1. /\ job' \in [Jobs -> JobStatus] /\ snap' \in [Jobs -> Payload]
        /\ cancel' \in [Jobs -> BOOLEAN]
    BY <1>1, <1>4 DEF RetryComparison, JobStatus, Active
  <2>2. jobFile' \in [Jobs -> [Docs -> FileStatus]]
    BY <1>1, <1>4, EmptyTypes DEF RetryComparison
  <2>3. rowRes' \in [Docs -> [Rows -> Result]] /\ fileRes' \in [Docs -> FileStatus]
    BY <1>4, EmptyTypes DEF RetryComparison
  <2>. QED
    BY <1>4, <2>1, <2>2, <2>3 DEF RetryComparison, TypeOK, sourceVars, workerVars, Payload, Result
<1>5. CASE ActivateCatalog
  <2>1. catalog' \in 1..MaxCatalog
    BY <1>1, <1>5 DEF ActivateCatalog
  <2>. QED
    BY <1>5, <2>1 DEF ActivateCatalog, TypeOK, sourceVars, jobVars, resultVars, workerVars
<1>6. CASE Transition
  BY <1>6 DEF Transition, TypeOK, sourceVars, jobVars, resultVars, workerVars
<1>. QED
  BY <1>2, <1>3, <1>4, <1>5, <1>6

LEMMA WorkerTypes ==
  ASSUME TypeOK, Places, NEW j \in Jobs,
         \/ Claim(j) \/ Start(j) \/ Select(j) \/ Batch(j) \/ Checkpoint(j) \/ Finish(j)
         \/ CrashAndRecover(j)
  PROVE  TypeOK'
<1>1. /\ job \in [Jobs -> JobStatus] /\ pc \in [Jobs -> PC] /\ doc \in [Jobs -> SUBSET Docs]
      /\ row \in [Jobs -> Rows \cup {NoRow}] /\ ws \in {"DRAFT", "ANALYZING", "CANDIDATE_REVIEW"}
  BY DEF TypeOK
<1>2. CASE Claim(j)
  <2>1. job' \in [Jobs -> JobStatus] /\ pc' \in [Jobs -> PC]
    BY <1>1, <1>2 DEF Claim, Goto, JobStatus, Active, PC
  <2>. QED
    BY <1>2, <2>1 DEF Claim, TypeOK, sourceVars, resultVars
<1>3. CASE Start(j)
  <2>1. pc' \in [Jobs -> PC]
    BY <1>1, <1>3 DEF Start, Goto, PC
  <2>2. doc' \in [Jobs -> SUBSET Docs]
    BY <1>1, <1>3 DEF Start, Named
  <2>. QED
    BY <1>3, <2>1, <2>2 DEF Start, TypeOK, sourceVars, jobVars, resultVars
<1>4. CASE Select(j)
  <2>1. pc' \in [Jobs -> PC]
    BY <1>1, <1>4 DEF Select, Goto, PC
  <2>2. doc' \in [Jobs -> SUBSET Docs] /\ row' \in [Jobs -> Rows \cup {NoRow}]
    BY <1>1, <1>4 DEF Select
  <2>. QED
    BY <1>4, <2>1, <2>2 DEF Select, TypeOK, sourceVars, jobVars, resultVars
<1>5. CASE Batch(j)
  <2>1. /\ pc[j] = "batch"
        /\ UNCHANGED <<ws, catalog, src, gen, repair, repairSrc, job, cancel, snap, row>>
        /\ \/ BatchSucceeds(j)
           \/ pc' = [pc EXCEPT ![j] = "failing"] /\ UNCHANGED <<rowRes, fileRes, jobFile, doc>>
    BY <1>5, BatchCases
  <2>2. CASE BatchSucceeds(j)
    <3>1. doc[j] # {}
      BY <2>1 DEF Places
    <3>. PICK d : d = At(j)
      OBVIOUS
    <3>2. /\ rowRes' \in [Docs -> [Rows -> Result]] /\ fileRes' \in [Docs -> FileStatus]
          /\ jobFile' \in [Jobs -> [Docs -> FileStatus]]
          /\ doc' = [doc EXCEPT ![j] = IF row[j] = NoRow THEN doc[j] \ {d} ELSE doc[j]]
      BY <2>2, <3>1, BatchEffect, ZenonT(40) DEF BatchAddsTo
    <3>3. pc' \in [Jobs -> PC] /\ doc' \in [Jobs -> SUBSET Docs]
      BY <1>1, <2>2, <3>2 DEF BatchSucceeds, PC
    <3>. QED
      BY <2>1, <3>2, <3>3 DEF TypeOK, Result
  <2>3. CASE pc' = [pc EXCEPT ![j] = "failing"] /\ UNCHANGED <<rowRes, fileRes, jobFile, doc>>
    <3>1. pc' \in [Jobs -> PC]
      BY <1>1, <2>3 DEF PC
    <3>. QED
      BY <2>1, <2>3, <3>1 DEF TypeOK
  <2>. QED
    BY <2>1, <2>2, <2>3
<1>6. CASE Checkpoint(j)
  <2>1. pc' \in [Jobs -> PC]
    BY <1>1, <1>6 DEF Checkpoint, Goto, PC
  <2>. QED
    BY <1>6, <2>1 DEF Checkpoint, TypeOK, sourceVars, jobVars, resultVars
<1>7. CASE Finish(j)
  <2>1. EndStatus(j) \in JobStatus
    BY DEF EndStatus, TerminalStatus, JobStatus, Retryable
  <2>2. job' \in [Jobs -> JobStatus] /\ ws' \in {"DRAFT", "ANALYZING", "CANDIDATE_REVIEW"}
    BY <1>1, <1>7, <2>1 DEF Finish
  <2>3. /\ pc' \in [Jobs -> PC] /\ doc' \in [Jobs -> SUBSET Docs]
        /\ row' \in [Jobs -> Rows \cup {NoRow}]
    BY <1>1, <1>7 DEF Finish, Goto, PC
  <2>. QED
    BY <1>7, <2>2, <2>3 DEF Finish, TypeOK, sourceVars, resultVars
<1>8. CASE CrashAndRecover(j)
  <2>1. job' \in [Jobs -> JobStatus]
    BY <1>1, <1>8 DEF CrashAndRecover, JobStatus, Active
  <2>2. /\ pc' \in [Jobs -> PC] /\ doc' \in [Jobs -> SUBSET Docs]
        /\ row' \in [Jobs -> Rows \cup {NoRow}]
    BY <1>1, <1>8 DEF CrashAndRecover, Goto, PC
  <2>. QED
    BY <1>8, <2>1, <2>2 DEF CrashAndRecover, TypeOK, sourceVars, resultVars
<1>. QED
  BY <1>2, <1>3, <1>4, <1>5, <1>6, <1>7, <1>8

--------------------------------------------------------------------------------
(* Initial states, and steps that leave the workspace a draft. *)

\* Nothing was scored.
LEMMA NothingScored ==
  ASSUME rowRes = NoRows, fileRes = NoFiles
  PROVE  /\ \A d \in Docs, r \in Rows : ~Scored(d, r) /\ rowRes[d][r].out = "NONE"
         /\ \A d \in Docs : ~Complete(d) /\ fileRes[d] = "NONE"
<1>1. \A d \in Docs, r \in Rows : rowRes[d][r] = NoResult
  BY DEF NoRows
<1>2. 1 \in Rows
  BY EmptyTypes
<1>. QED
  BY <1>1, <1>2 DEF Scored, Complete, NoResult, NoFiles

LEMMA InitAInv == Init => AInv
<1>. SUFFICES ASSUME Init PROVE AInv
  OBVIOUS
<1>1. TypeOK
  BY InitType
<1>2. Places
  BY DEF Init, Places, Late
<1>3. Snapshots
  BY AnalysisAssumption DEF Init, Snapshots, Present, Active, NoSnap
<1>4. Results
  BY NothingScored DEF Init, Results, Active
<1>5. FailuresHaveAJob /\ HasLeader /\ ReviewIsComplete /\ DraftHasNoOutput
  BY DEF Init, FailuresHaveAJob, HasLeader, ReviewIsComplete, DraftHasNoOutput
<1>. QED
  BY <1>1, <1>2, <1>3, <1>4, <1>5 DEF AInv

\* Where a step that corrects, adds or parses a source ends: a draft without
\* output, in which no comparison is active.
DraftAgain ==
    /\ ws' = "DRAFT" /\ rowRes' = NoRows /\ fileRes' = NoFiles
    /\ \A j \in Jobs : job[j] \notin Active
    /\ (\E j \in Jobs : job[j] # "ABSENT") => \E j \in Jobs : job[j] \in Retryable
    /\ \A d \in Docs : src'[d] # "ABSENT" => gen'[d] > 0
    /\ UNCHANGED <<catalog, job, cancel, snap, jobFile, pc, doc, row>>

LEMMA DraftAgainKeeps ==
  ASSUME AInv, TypeOK', DraftAgain
  PROVE  AInv'
<1>1. UNCHANGED <<catalog, job, snap, jobFile, pc, doc>> /\ \A j \in Jobs : job'[j] \notin Active
  BY DEF DraftAgain
<1>2. Places'
  BY <1>1 DEF AInv, Places, Named
<1>3. Snapshots'
  BY <1>1 DEF AInv, Snapshots, DraftAgain, Present
<1>4. Results'
  <2>1. /\ \A d \in Docs, r \in Rows : ~Scored(d, r)' /\ rowRes'[d][r].out = "NONE"
        /\ \A d \in Docs : ~Complete(d)' /\ fileRes'[d] = "NONE"
    <3>1. \A d \in Docs, r \in Rows : rowRes'[d][r] = NoResult
      BY DEF DraftAgain, NoRows
    <3>. QED
      BY <3>1, EmptyTypes DEF DraftAgain, Scored, Complete, NoResult, NoFiles
  <2>. QED
    BY <1>1, <2>1 DEF Results
<1>5. FailuresHaveAJob' /\ ReviewIsComplete' /\ DraftHasNoOutput'
  BY DEF DraftAgain, FailuresHaveAJob, ReviewIsComplete, DraftHasNoOutput
<1>6. HasLeader'
  BY <1>1 DEF DraftAgain, HasLeader
<1>. QED
  BY <1>2, <1>3, <1>4, <1>5, <1>6 DEF AInv

\* A draft has no output and no active comparison, and a correction makes one.
LEMMA DraftIsQuiet ==
  ASSUME AInv, ws = "DRAFT"
  PROVE  /\ rowRes = NoRows /\ fileRes = NoFiles
         /\ \A j \in Jobs : job[j] \notin Active
         /\ (\E j \in Jobs : job[j] # "ABSENT") => \E j \in Jobs : job[j] \in Retryable
<1>1. \A j \in Jobs : job[j] \notin Active
  BY DEF AInv, Snapshots
<1>. QED
  BY <1>1 DEF AInv, DraftHasNoOutput, HasLeader

LEMMA ReopenMakesDraft ==
  ASSUME AInv, Reopen
  PROVE  /\ ws' = "DRAFT" /\ rowRes' = NoRows /\ fileRes' = NoFiles
         /\ \A j \in Jobs : job[j] \notin Active
         /\ (\E j \in Jobs : job[j] # "ABSENT") => \E j \in Jobs : job[j] \in Retryable
BY DraftIsQuiet DEF Reopen, Correctable

LEMMA SourceKeeps ==
  ASSUME AInv, TypeOK', NEW d \in Docs,
         Upload(d) \/ RepairUpload(d) \/ Replace(d) \/ Remap(d) \/ Parse(d)
  PROVE  AInv'
<1>1. /\ gen \in [Docs -> 0..MaxGen] /\ src \in [Docs -> SourceStatus] /\ MaxGen \in Nat
      /\ \A e \in Docs : src[e] # "ABSENT" => gen[e] > 0
  BY AnalysisAssumption DEF AInv, TypeOK, Snapshots, Present
<1>2. ASSUME NewGeneration(d), \A e \in Docs : e # d => src'[e] = src[e]
      PROVE  \A e \in Docs : src'[e] # "ABSENT" => gen'[e] > 0
  BY <1>1, <1>2 DEF NewGeneration
<1>3. NewGeneration(d) /\ (\A e \in Docs : e # d => src'[e] = src[e])
  BY <1>1 DEF Upload, RepairUpload, Replace, Remap, Parse
<1>4. UNCHANGED <<catalog, job, cancel, snap, jobFile, pc, doc, row>>
  BY DEF Upload, RepairUpload, Replace, Remap, Parse, jobVars, workerVars
<1>5. CASE Replace(d) \/ Remap(d)
  <2>1. Reopen
    BY <1>5 DEF Replace, Remap
  <2>. QED
    BY <1>2, <1>3, <1>4, <2>1, ReopenMakesDraft, DraftAgainKeeps DEF DraftAgain
<1>6. CASE Upload(d) \/ RepairUpload(d) \/ Parse(d)
  <2>1. ws = "DRAFT" /\ UNCHANGED <<ws, rowRes, fileRes>>
    BY <1>6 DEF Upload, RepairUpload, Parse, resultVars
  <2>. QED
    BY <1>2, <1>3, <1>4, <2>1, DraftIsQuiet, DraftAgainKeeps DEF DraftAgain
<1>. QED
  BY <1>5, <1>6

LEMMA RepairKeeps ==
  ASSUME AInv, TypeOK', ReserveRepair \/ RepairOther
  PROVE  AInv'
<1>1. UNCHANGED <<catalog, src, gen, job, cancel, snap, jobFile, pc, doc, row>>
  BY DEF ReserveRepair, RepairOther, jobVars, workerVars
<1>2. \A e \in Docs : src'[e] # "ABSENT" => gen'[e] > 0
  BY <1>1 DEF AInv, Snapshots, Present
<1>3. CASE ReserveRepair
  BY <1>1, <1>2, <1>3, ReopenMakesDraft, DraftAgainKeeps DEF DraftAgain, ReserveRepair
<1>4. CASE RepairOther
  <2>1. ws = "DRAFT" /\ UNCHANGED <<ws, rowRes, fileRes>>
    BY <1>4 DEF RepairOther, resultVars
  <2>. QED
    BY <1>1, <1>2, <2>1, DraftIsQuiet, DraftAgainKeeps DEF DraftAgain
<1>. QED
  BY <1>3, <1>4

--------------------------------------------------------------------------------
(* Parsing, the catalog, and the requests about the analysis. *)

\* No comparison is active while a source is parsed.
LEMMA ParseEndsKeeps ==
  ASSUME AInv, TypeOK', NEW d \in Docs, ParseEnds(d)
  PROVE  AInv'
<1>1. UNCHANGED <<ws, catalog, gen, job, snap, jobFile, rowRes, fileRes, pc, doc, row>>
  BY DEF ParseEnds, jobVars, resultVars, workerVars
<1>2. \A j \in Jobs : job[j] \notin Active
  <2>1. d \in Docs /\ src[d] \notin {"ABSENT", "READY"}
    BY DEF ParseEnds
  <2>. QED
    BY <2>1 DEF AInv, Snapshots
<1>3. Present' = Present
  BY DEF AInv, TypeOK, ParseEnds, Present
<1>4. Places' /\ Results' /\ FailuresHaveAJob' /\ HasLeader' /\ DraftHasNoOutput'
  BY <1>1, <1>2 DEF AInv, Places, Results, Scored, Complete, FailuresHaveAJob, HasLeader,
     Fresh, Named, DraftHasNoOutput, At
<1>5. Snapshots' /\ ReviewIsComplete'
  BY <1>1, <1>2, <1>3 DEF AInv, Snapshots, ReviewIsComplete, Complete, Scored
<1>. QED
  BY <1>4, <1>5 DEF AInv

LEMMA RejectUploadKeeps ==
  ASSUME AInv, TypeOK', RejectUpload
  PROVE  AInv'
<1>1. UNCHANGED <<ws, catalog, src, gen, job, snap, jobFile, rowRes, fileRes, pc, doc, row>>
  BY DEF RejectUpload, jobVars, resultVars, workerVars
<1>2. Places' /\ Results' /\ FailuresHaveAJob' /\ HasLeader' /\ DraftHasNoOutput'
  BY <1>1 DEF AInv, Places, Results, Scored, Complete, FailuresHaveAJob, HasLeader,
     Fresh, Named, DraftHasNoOutput, At
<1>3. Snapshots' /\ ReviewIsComplete'
  BY <1>1 DEF AInv, Snapshots, Snapshot, ReviewIsComplete, Complete, Scored, Present
<1>. QED
  BY <1>2, <1>3 DEF AInv

LEMMA RequestCancelKeeps ==
  ASSUME AInv, TypeOK', NEW j \in Jobs, RequestCancel(j)
  PROVE  AInv'
<1>1. UNCHANGED <<ws, catalog, src, gen, job, snap, jobFile, rowRes, fileRes, pc, doc, row>>
  BY DEF RequestCancel, sourceVars, resultVars, workerVars
<1>2. Places' /\ Results' /\ FailuresHaveAJob' /\ HasLeader' /\ DraftHasNoOutput'
  BY <1>1 DEF AInv, Places, Results, Scored, Complete, FailuresHaveAJob, HasLeader,
     Fresh, Named, DraftHasNoOutput, At
<1>3. Snapshots' /\ ReviewIsComplete'
  BY <1>1 DEF AInv, Snapshots, Snapshot, ReviewIsComplete, Complete, Scored, Present
<1>. QED
  BY <1>2, <1>3 DEF AInv

\* A new catalog version ends what every active comparison may add.
LEMMA ActivateCatalogKeeps ==
  ASSUME AInv, TypeOK', ActivateCatalog
  PROVE  AInv'
<1>1. UNCHANGED <<ws, src, gen, job, snap, jobFile, rowRes, fileRes, pc, doc, row>>
      /\ catalog' = catalog + 1
  BY DEF ActivateCatalog, sourceVars, jobVars, resultVars, workerVars
<1>2. \A j \in Jobs : snap[j].cat <= catalog /\ snap[j].cat \in Int
  BY DEF AInv, Snapshots, TypeOK
<1>3. catalog \in Int
  BY DEF AInv, TypeOK
<1>4. \A j \in Jobs : snap'[j].cat <= catalog' /\ snap'[j].cat # catalog'
  BY <1>1, <1>2, <1>3
<1>5. Places' /\ FailuresHaveAJob' /\ HasLeader' /\ DraftHasNoOutput'
  BY <1>1 DEF AInv, Places, FailuresHaveAJob, HasLeader, Fresh, Named, DraftHasNoOutput, At
<1>6. Snapshots'
  <2>1. Snapshot.gen' = Snapshot.gen
    BY <1>1 DEF Snapshot
  <2>. QED
    BY <1>1, <1>4, <2>1 DEF AInv, Snapshots, Present
<1>7. Results'
  BY <1>1, <1>4 DEF AInv, Results, Scored, Complete
<1>8. ReviewIsComplete'
  BY <1>1 DEF AInv, ReviewIsComplete, Complete, Scored, Present
<1>. QED
  BY <1>5, <1>6, <1>7, <1>8 DEF AInv

\* The analysis begins without output and without an active comparison.
LEMMA TransitionKeeps ==
  ASSUME AInv, TypeOK', Transition
  PROVE  AInv'
<1>1. /\ UNCHANGED <<catalog, src, gen, job, snap, jobFile, rowRes, fileRes, pc, doc, row>>
      /\ ws = "DRAFT" /\ ws' = "ANALYZING"
  BY DEF Transition, sourceVars, jobVars, resultVars, workerVars
<1>2. /\ fileRes = NoFiles /\ \A j \in Jobs : job[j] \notin Active
      /\ (\E j \in Jobs : job[j] # "ABSENT") => \E j \in Jobs : job[j] \in Retryable
  BY <1>1, DraftIsQuiet
<1>3. Places' /\ Results'
  BY <1>1 DEF AInv, Places, Results, Scored, Complete, Named
<1>4. FailuresHaveAJob' /\ HasLeader' /\ ReviewIsComplete' /\ DraftHasNoOutput'
  BY <1>1, <1>2 DEF FailuresHaveAJob, NoFiles, HasLeader, ReviewIsComplete, DraftHasNoOutput
<1>5. Snapshots'
  BY <1>1, <1>2 DEF AInv, Snapshots, Present
<1>. QED
  BY <1>3, <1>4, <1>5 DEF AInv

\* Where a comparison begins: it is queued with the present sources, nothing is
\* scored, and its worker is not there.
Begins(j) ==
    /\ job[j] \in {"ABSENT"} \cup Retryable
    /\ ws' = "ANALYZING" /\ rowRes' = NoRows /\ fileRes' = NoFiles
    /\ SourcesReady
    /\ job'  = [job EXCEPT ![j] = "QUEUED"]
    /\ snap' = [snap EXCEPT ![j] = Snapshot]
    /\ UNCHANGED <<catalog, src, gen, pc, doc, row>>

LEMMA BeginsKeeps ==
  ASSUME AInv, TypeOK', NEW j \in Jobs, Begins(j)
  PROVE  AInv'
<1>1. /\ job \in [Jobs -> JobStatus] /\ snap \in [Jobs -> Payload] /\ pc \in [Jobs -> PC]
      /\ catalog \in Int /\ Snapshot \in Payload
  BY SnapshotType DEF AInv, TypeOK, Payload
<1>2. /\ UNCHANGED <<catalog, src, gen, pc, doc, row>> /\ ws' = "ANALYZING"
      /\ job'[j] = "QUEUED" /\ snap'[j] = Snapshot
      /\ \A k \in Jobs : k # j => job'[k] = job[k] /\ snap'[k] = snap[k]
  BY <1>1 DEF Begins
<1>3. pc[j] = "idle" /\ job[j] # "RUNNING"
  BY DEF AInv, Places, Begins, Retryable
<1>4. Places'
  <2>1. \A k \in Jobs : job'[k] = "RUNNING" <=> job[k] = "RUNNING"
    BY <1>2, <1>3
  <2>2. \A k \in Jobs : k # j => Named(k)' = Named(k)
    BY <1>2 DEF Named
  <2>. QED
    BY <1>2, <1>3, <2>1, <2>2 DEF AInv, Places, Late
<1>5. Snapshots'
  <2>1. Snapshot' = Snapshot /\ Present' = Present
    BY <1>2 DEF Snapshot, Present
  <2>2. Snapshot.cat = catalog
    BY DEF Snapshot
  <2>3. \A d \in Docs : src[d] \in {"ABSENT", "READY"}
    BY DEF Begins, SourcesReady
  <2>4. \A k \in Jobs : snap'[k].cat <= catalog'
    BY <1>1, <1>2, <2>2 DEF AInv, Snapshots
  <2>5. \A k \in Jobs : job'[k] \in Active => snap'[k].gen = Snapshot.gen'
    BY <1>2, <2>1 DEF AInv, Snapshots
  <2>. QED
    BY <1>2, <2>1, <2>3, <2>4, <2>5 DEF AInv, Snapshots
<1>6. Results'
  <2>1. /\ \A d \in Docs, r \in Rows : ~Scored(d, r)' /\ rowRes'[d][r].out = "NONE"
        /\ \A d \in Docs : ~Complete(d)' /\ fileRes'[d] = "NONE"
    <3>1. \A d \in Docs, r \in Rows : rowRes'[d][r] = NoResult
      BY DEF Begins, NoRows
    <3>. QED
      BY <3>1, EmptyTypes DEF Begins, Scored, Complete, NoResult, NoFiles
  <2>. QED
    BY <2>1 DEF Results
<1>7. FailuresHaveAJob' /\ ReviewIsComplete' /\ DraftHasNoOutput'
  BY DEF Begins, NoFiles, FailuresHaveAJob, ReviewIsComplete, DraftHasNoOutput
<1>8. HasLeader'
  BY <1>2, <1>3 DEF HasLeader, Fresh, Active, Late
<1>. QED
  BY <1>4, <1>5, <1>6, <1>7, <1>8 DEF AInv

LEMMA BeginningKeeps ==
  ASSUME AInv, TypeOK', NEW j \in Jobs, CreateComparison(j) \/ RetryComparison(j)
  PROVE  AInv'
<1>1. CASE CreateComparison(j)
  <2>1. rowRes = NoRows /\ fileRes = NoFiles
    BY <1>1, DraftIsQuiet DEF CreateComparison
  <2>. QED
    BY <1>1, <2>1, BeginsKeeps DEF CreateComparison, Begins, sourceVars, resultVars, workerVars
<1>2. CASE RetryComparison(j)
  BY <1>2, BeginsKeeps DEF RetryComparison, Begins, sourceVars, workerVars
<1>. QED
  BY <1>1, <1>2

--------------------------------------------------------------------------------
(* The worker of a job between its writes. *)

\* The step moves the worker of job j, which stays active, and writes no output;
\* a leader stays one.
MovesWorker(j) ==
    /\ UNCHANGED <<ws, catalog, src, gen, snap, jobFile, rowRes, fileRes>>
    /\ \A k \in Jobs : k # j =>
          job'[k] = job[k] /\ pc'[k] = pc[k] /\ doc'[k] = doc[k] /\ row'[k] = row[k]
    /\ job[j] \in Active /\ job'[j] \in Active
    /\ pc'[j] # "idle" <=> job'[j] = "RUNNING"
    /\ pc'[j] \in Late => doc'[j] \subseteq Named(j)
    /\ pc'[j] = "batch" => doc'[j] # {}
    /\ pc'[j] \in {"last", "finish"} => doc'[j] = {}
    /\ Fresh(j) => Fresh(j)'

LEMMA MovesWorkerKeeps ==
  ASSUME AInv, TypeOK', NEW j \in Jobs, MovesWorker(j)
  PROVE  AInv'
<1>1. /\ UNCHANGED <<ws, catalog, src, gen, snap, jobFile, rowRes, fileRes>>
      /\ \A k \in Jobs : Named(k)' = Named(k)
  BY DEF MovesWorker, Named
<1>2. /\ \A k \in Jobs : job'[k] \in Active <=> job[k] \in Active
      /\ \A k \in Jobs : job'[k] \in Retryable <=> job[k] \in Retryable
      /\ \A k \in Jobs : job'[k] = "ABSENT" <=> job[k] = "ABSENT"
  BY DEF MovesWorker, Active, Retryable
<1>3. Places'
  BY <1>1 DEF AInv, Places, MovesWorker
<1>4. Snapshots'
  BY <1>1, <1>2 DEF AInv, Snapshots, Snapshot, Present
<1>5. Results'
  BY <1>1, <1>2 DEF AInv, Results, Scored, Complete
<1>6. FailuresHaveAJob'
  BY <1>1, <1>2 DEF AInv, FailuresHaveAJob
<1>7. \A k \in Jobs : Fresh(k) => Fresh(k)'
  <2>1. ASSUME NEW k \in Jobs, k # j PROVE Fresh(k)' <=> Fresh(k)
    BY <1>1, <2>1 DEF MovesWorker, Fresh, At
  <2>. QED
    BY <2>1 DEF MovesWorker
<1>8. HasLeader'
  BY <1>1, <1>2, <1>7 DEF AInv, HasLeader
<1>9. ReviewIsComplete' /\ DraftHasNoOutput'
  BY <1>1 DEF AInv, ReviewIsComplete, DraftHasNoOutput, Complete, Scored, Present
<1>. QED
  BY <1>3, <1>4, <1>5, <1>6, <1>8, <1>9 DEF AInv

LEMMA ClaimKeeps ==
  ASSUME AInv, TypeOK', NEW j \in Jobs, Claim(j) \/ CrashAndRecover(j)
  PROVE  AInv'
<1>1. /\ job \in [Jobs -> JobStatus] /\ pc \in [Jobs -> PC] /\ doc \in [Jobs -> SUBSET Docs]
      /\ row \in [Jobs -> Rows \cup {NoRow}]
  BY DEF AInv, TypeOK
<1>2. CASE Claim(j)
  BY <1>1, <1>2, MovesWorkerKeeps
     DEF Claim, Goto, MovesWorker, sourceVars, resultVars, Active, Late, Fresh
<1>3. CASE CrashAndRecover(j)
  BY <1>1, <1>3, MovesWorkerKeeps
     DEF CrashAndRecover, Goto, MovesWorker, sourceVars, resultVars, Active, Late, Fresh
<1>. QED
  BY <1>2, <1>3

LEMMA StartKeeps ==
  ASSUME AInv, TypeOK', NEW j \in Jobs, Start(j) \/ Checkpoint(j)
  PROVE  AInv'
<1>1. /\ job \in [Jobs -> JobStatus] /\ pc \in [Jobs -> PC] /\ doc \in [Jobs -> SUBSET Docs]
      /\ row \in [Jobs -> Rows \cup {NoRow}] /\ Places
  BY DEF AInv, TypeOK
<1>2. CASE Start(j)
  <2>1. /\ UNCHANGED <<ws, catalog, src, gen, snap, jobFile, rowRes, fileRes, job, row>>
        /\ pc[j] = "start" /\ job[j] = "RUNNING"
        /\ \A k \in Jobs : k # j => pc'[k] = pc[k] /\ doc'[k] = doc[k]
    BY <1>1, <1>2 DEF Start, Goto, sourceVars, jobVars, resultVars, Places
  <2>2. \/ pc'[j] \in {"cancelling", "failing"}
        \/ pc'[j] = "select" /\ doc'[j] = Named(j)
    BY <1>1, <1>2 DEF Start, Goto
  <2>3. Named(j)' = Named(j)
    BY <2>1 DEF Named
  <2>4. Fresh(j)'
    BY <2>2, <2>3 DEF Fresh, Late
  <2>. QED
    BY <2>1, <2>2, <2>4, MovesWorkerKeeps DEF MovesWorker, Active, Late
<1>3. CASE Checkpoint(j)
  <2>1. /\ UNCHANGED <<ws, catalog, src, gen, snap, jobFile, rowRes, fileRes, job, row, doc>>
        /\ pc[j] \in {"checkpoint", "last"} /\ job[j] = "RUNNING"
        /\ \A k \in Jobs : k # j => pc'[k] = pc[k]
    BY <1>1, <1>3 DEF Checkpoint, Goto, sourceVars, jobVars, resultVars, Places
  <2>2. \/ pc'[j] = "cancelling"
        \/ pc[j] = "last" /\ pc'[j] = "finish"
        \/ pc[j] = "checkpoint" /\ pc'[j] = "select"
    BY <1>1, <1>3 DEF Checkpoint, Goto
  <2>3. Fresh(j) => Fresh(j)'
    BY <2>1, <2>2 DEF Fresh, Late, Named
  <2>4. doc[j] \subseteq Named(j) /\ (pc[j] = "last" => doc[j] = {})
    BY <1>1, <2>1 DEF Places, Late
  <2>. QED
    BY <2>1, <2>2, <2>3, <2>4, MovesWorkerKeeps DEF MovesWorker, Active, Late
<1>. QED
  BY <1>2, <1>3

\* A source is left, or found complete, only when none of its rows is open, and
\* then its result was published.
LEMMA SelectKeeps ==
  ASSUME AInv, TypeOK', NEW j \in Jobs, Select(j)
  PROVE  AInv'
<1>1. /\ job \in [Jobs -> JobStatus] /\ pc \in [Jobs -> PC] /\ doc \in [Jobs -> SUBSET Docs]
      /\ row \in [Jobs -> Rows \cup {NoRow}] /\ Places /\ Results
  BY DEF AInv, TypeOK
<1>2. /\ UNCHANGED <<ws, catalog, src, gen, snap, jobFile, rowRes, fileRes, job>>
      /\ pc[j] = "select" /\ job[j] = "RUNNING" /\ doc[j] \subseteq Named(j)
      /\ \A k \in Jobs : k # j => pc'[k] = pc[k] /\ doc'[k] = doc[k] /\ row'[k] = row[k]
      /\ Named(j)' = Named(j)
  BY <1>1 DEF Select, Goto, sourceVars, jobVars, resultVars, Places, Late, Named
<1>. DEFINE d    == At(j)
            open == {r \in Rows : rowRes[d][r] = NoResult}
<1>3. doc[j] # {} => d \in doc[j] /\ d \in Docs
  BY <1>1 DEF At
<1>4. doc[j] # {} /\ open = {} => fileRes[d] # "NONE"
  BY <1>1, <1>3 DEF Results, Complete, Scored
<1>5. \/ doc[j] = {} /\ pc'[j] = "last" /\ doc'[j] = doc[j]
      \/ doc[j] # {} /\ row'[j] \in Rows /\ pc'[j] = "batch" /\ doc'[j] = doc[j]
      \/ doc[j] # {} /\ open = {} /\ pc'[j] = "batch" /\ doc'[j] = doc[j]
      \/ doc[j] # {} /\ open = {} /\ pc'[j] = "select" /\ doc'[j] = doc[j] \ {d}
  BY <1>1, <1>2 DEF Select, Goto, At
<1>. HIDE DEF d, open
<1>6. Fresh(j) => Fresh(j)'
  <2>. SUFFICES ASSUME Fresh(j) PROVE Fresh(j)'
    OBVIOUS
  <2>1. \A e \in Named(j) \ doc[j] : fileRes[e] # "NONE"
    BY <1>2 DEF Fresh, Late
  <2>2. \A e \in Named(j) \ doc'[j] : fileRes[e] # "NONE"
    BY <1>4, <1>5, <2>1
  <2>3. pc'[j] = "batch" /\ row'[j] = NoRow => fileRes[At(j)'] # "NONE"
    <3>1. pc'[j] = "batch" => doc'[j] = doc[j] /\ doc[j] # {} /\ (row'[j] \in Rows \/ open = {})
      BY <1>5
    <3>2. doc'[j] = doc[j] => At(j)' = d
      BY DEF At, d
    <3>. QED
      BY <1>4, <3>1, <3>2, EmptyTypes
  <2>. QED
    BY <1>2, <2>2, <2>3 DEF Fresh
<1>7. /\ pc'[j] \in {"last", "batch", "select"} /\ doc'[j] \subseteq Named(j)
      /\ pc'[j] = "batch" => doc'[j] # {}
      /\ pc'[j] = "last" => doc'[j] = {}
  BY <1>2, <1>5
<1>. QED
  BY <1>2, <1>6, <1>7, MovesWorkerKeeps DEF MovesWorker, Active, Late

LEMMA BatchFailsKeeps ==
  ASSUME AInv, TypeOK', NEW j \in Jobs, Batch(j),
         pc' = [pc EXCEPT ![j] = "failing"], UNCHANGED <<rowRes, fileRes, jobFile, doc>>
  PROVE  AInv'
<1>1. pc \in [Jobs -> PC] /\ Places
  BY DEF AInv, TypeOK
<1>2. pc[j] = "batch" /\ UNCHANGED <<ws, catalog, src, gen, job, snap, row>>
  BY BatchCases
<1>3. job[j] = "RUNNING"
  BY <1>1, <1>2 DEF Places
<1>. QED
  BY <1>1, <1>2, <1>3, MovesWorkerKeeps DEF MovesWorker, Active, Late, Fresh

\* What a batch wrote is of the active catalog, like everything before it, and
\* takes no row and no source back.
LEMMA BatchAdds ==
  ASSUME AInv, TypeOK', NEW j \in Jobs, Batch(j), BatchSucceeds(j)
  PROVE  /\ \A e \in Docs, r \in Rows : Scored(e, r) => Scored(e, r)' /\ rowRes[e][r].cat = catalog
         /\ \A e \in Docs, r \in Rows : Scored(e, r)' => rowRes'[e][r].cat = catalog
         /\ \A e \in Docs : fileRes[e] # "NONE" => fileRes'[e] # "NONE"
         /\ Results'
<1>1. TypeOK /\ Places /\ Results
  BY DEF AInv
<1>2. pc[j] = "batch" /\ UNCHANGED <<ws, catalog, src, gen, repair, repairSrc, job, cancel, snap, row>>
  BY BatchCases
<1>3. doc[j] # {} /\ job[j] = "RUNNING"
  BY <1>1, <1>2 DEF Places
<1>. PICK d : d = At(j)
  OBVIOUS
<1>3a. BatchAddsTo(j, d)
  BY <1>1, <1>3, BatchEffect
<1>4. d \in Docs
  BY <1>3a DEF BatchAddsTo
<1>5. \A e \in Docs : e # d => rowRes'[e] = rowRes[e] /\ fileRes'[e] = fileRes[e]
  BY <1>3a DEF BatchAddsTo
<1>6. PICK out \in {"MATCHED", "ROW_ERROR"} : \A r \in Rows :
        rowRes'[d][r] = IF r = row[j] /\ rowRes[d][r].out \in {"NONE", "ROW_ERROR"}
                        THEN [out |-> out, cat |-> catalog, gen |-> gen[d]] ELSE rowRes[d][r]
  BY <1>3a DEF BatchAddsTo
<1>7. IF Complete(d)' THEN fileRes'[d] # "NONE" ELSE fileRes'[d] = fileRes[d]
  BY <1>3a DEF BatchAddsTo
<1>8. \A e \in Docs, r \in Rows : Scored(e, r) => rowRes[e][r].cat = catalog
  <2>1. snap[j].cat = catalog
    BY DEF BatchSucceeds, SnapshotValid, Snapshot
  <2>. QED
    BY <1>1, <1>3, <2>1 DEF Results, Active
<1>9. \A r \in Rows : \/ rowRes'[d][r] = rowRes[d][r]
                      \/ rowRes'[d][r] = [out |-> out, cat |-> catalog, gen |-> gen[d]]
  BY <1>6
<1>10. \A r \in Rows : rowRes'[d][r] # rowRes[d][r] =>
         /\ rowRes'[d][r].out # "NONE" /\ rowRes'[d][r].cat = catalog /\ rowRes'[d][r].gen = gen[d]
         /\ Scored(d, r)'
  BY <1>9 DEF Scored, NoResult
<1>11. \A e \in Docs, r \in Rows : rowRes'[e][r] # rowRes[e][r] =>
         /\ rowRes'[e][r].out # "NONE" /\ rowRes'[e][r].cat = catalog /\ rowRes'[e][r].gen = gen[e]
         /\ Scored(e, r)'
  BY <1>5, <1>10
<1>12. \A e \in Docs, r \in Rows : rowRes'[e][r] = rowRes[e][r] => (Scored(e, r)' <=> Scored(e, r))
  BY DEF Scored
<1>13. \A e \in Docs, r \in Rows : Scored(e, r) => Scored(e, r)'
  BY <1>11, <1>12
<1>14. \A e \in Docs, r \in Rows : Scored(e, r)' => rowRes'[e][r].cat = catalog
  BY <1>8, <1>11, <1>12
<1>15. \A e \in Docs : fileRes'[e] # "NONE" <=> Complete(e)'
  <2>1. \A e \in Docs : Complete(e) => Complete(e)'
    BY <1>13 DEF Complete
  <2>2. \A e \in Docs : e # d => (Complete(e)' <=> Complete(e))
    BY <1>5 DEF Complete, Scored
  <2>. QED
    BY <1>1, <1>4, <1>5, <1>7, <2>1, <2>2 DEF Results
<1>16. \A e \in Docs : fileRes[e] # "NONE" => fileRes'[e] # "NONE"
  BY <1>1, <1>13, <1>15 DEF Results, Complete
<1>17. \A e \in Docs, r \in Rows :
         IF Scored(e, r)' THEN rowRes'[e][r].out # "NONE" /\ rowRes'[e][r].gen = gen'[e]
         ELSE rowRes'[e][r].out = "NONE"
  BY <1>1, <1>2, <1>11, <1>12 DEF Results
<1>18. Results'
  BY <1>2, <1>14, <1>15, <1>17 DEF Results
<1>. QED
  BY <1>8, <1>13, <1>14, <1>16, <1>18

LEMMA BatchKeeps ==
  ASSUME AInv, TypeOK', NEW j \in Jobs, Batch(j)
  PROVE  AInv'
<1>1. TypeOK /\ Places /\ Results /\ Snapshots
  BY DEF AInv
<1>2. pc[j] = "batch" /\ UNCHANGED <<ws, catalog, src, gen, repair, repairSrc, job, cancel, snap, row>>
  BY BatchCases
<1>3. CASE ~BatchSucceeds(j)
  BY <1>3, BatchCases, BatchFailsKeeps
<1>4. CASE BatchSucceeds(j)
  <2>. PICK d : d = At(j)
    OBVIOUS
  <2>1. doc[j] # {} /\ job[j] = "RUNNING" /\ doc[j] \subseteq Named(j)
    BY <1>1, <1>2 DEF Places, Late
  <2>2. /\ d \in doc[j] /\ d \in Docs
        /\ doc' = [doc EXCEPT ![j] = IF row[j] = NoRow THEN doc[j] \ {d} ELSE doc[j]]
        /\ \A e \in Docs : e # d => fileRes'[e] = fileRes[e]
        /\ \A k \in Jobs, e \in Docs : k # j \/ e # d => jobFile'[k][e] = jobFile[k][e]
        /\ IF Complete(d)' THEN fileRes'[d] # "NONE" /\ jobFile'[j][d] = fileRes'[d]
           ELSE fileRes'[d] = fileRes[d] /\ jobFile'[j][d] = jobFile[j][d]
    <3>1. BatchAddsTo(j, d)
      BY <1>1, <1>4, <2>1, BatchEffect
    <3>. QED
      BY <3>1 DEF BatchAddsTo
  <2>3. /\ \A e \in Docs, r \in Rows : Scored(e, r) => Scored(e, r)'
        /\ \A e \in Docs : fileRes[e] # "NONE" => fileRes'[e] # "NONE"
        /\ Results'
    BY <1>4, BatchAdds
  <2>4. /\ doc'[j] \subseteq doc[j] /\ pc'[j] \in {"select", "checkpoint"}
        /\ doc'[j] # doc[j] => row[j] = NoRow /\ doc'[j] = doc[j] \ {d}
        /\ \A k \in Jobs : k # j => doc'[k] = doc[k] /\ pc'[k] = pc[k]
        /\ \A k \in Jobs : Named(k)' = Named(k)
    BY <1>1, <1>2, <1>4, <2>2 DEF TypeOK, BatchSucceeds, Named
  <2>5. Places'
    BY <1>1, <1>2, <2>1, <2>4 DEF Places
  <2>6. Snapshots'
    BY <1>1, <1>2 DEF Snapshots, Snapshot, Present
  <2>7. FailuresHaveAJob'
    <3>. SUFFICES ASSUME ws' = "ANALYZING", NEW e \in Docs, fileRes'[e] = "FAILED"
                  PROVE  \E k \in Jobs : job'[k] \in Active \cup Retryable
                                           /\ e \in Named(k)' /\ jobFile'[k][e] = "FAILED"
      BY DEF FailuresHaveAJob
    <3>1. CASE e = d
      <4>1. Complete(d)'
        BY <2>2, <2>3, <3>1 DEF Results
      <4>. QED
        BY <1>2, <2>1, <2>2, <2>4, <3>1, <4>1 DEF Active
    <3>2. CASE e # d
      <4>1. PICK k \in Jobs : job[k] \in Active \cup Retryable /\ e \in Named(k) /\ jobFile[k][e] = "FAILED"
        BY <1>2, <2>2, <3>2 DEF AInv, FailuresHaveAJob
      <4>. QED
        BY <1>2, <2>2, <2>4, <3>2, <4>1
    <3>. QED
      BY <3>1, <3>2
  <2>8. \A k \in Jobs : Fresh(k) => Fresh(k)'
    <3>1. ASSUME NEW k \in Jobs, Fresh(k), k # j PROVE Fresh(k)'
      <4>1. /\ UNCHANGED <<row[k], pc[k], doc[k]>> /\ Named(k)' = Named(k) /\ At(k)' = At(k)
        BY <1>2, <2>4, <3>1 DEF At
      <4>2. doc[k] \subseteq Docs /\ Named(k) \subseteq Docs /\ (pc[k] = "batch" => At(k) \in Docs)
        BY <1>1 DEF TypeOK, Named, Places, At
      <4>. QED
        BY <2>3, <3>1, <4>1, <4>2 DEF Fresh
    <3>2. ASSUME Fresh(j) PROVE Fresh(j)'
      <4>1. \A e \in Named(j) \ doc[j] : fileRes[e] # "NONE"
        BY <1>2, <3>2 DEF Fresh, Late
      <4>2. row[j] = NoRow => fileRes[d] # "NONE"
        BY <1>2, <3>2 DEF Fresh, Late
      <4>3. \A e \in Named(j) \ doc'[j] : fileRes'[e] # "NONE"
        BY <2>2, <2>3, <2>4, <4>1, <4>2 DEF Named
      <4>. QED
        BY <2>4, <4>3 DEF Fresh
    <3>. QED
      BY <3>1, <3>2
  <2>9. HasLeader'
    BY <1>2, <2>8 DEF AInv, HasLeader
  <2>10. ReviewIsComplete'
    BY <1>2, <2>3 DEF AInv, ReviewIsComplete, Complete, Present
  <2>11. DraftHasNoOutput'
    BY <1>1, <1>2, <2>1 DEF Snapshots, DraftHasNoOutput, Active
  <2>. QED
    BY <2>3, <2>5, <2>6, <2>7, <2>9, <2>10, <2>11 DEF AInv
<1>. QED
  BY <1>3, <1>4

--------------------------------------------------------------------------------
(* The end of a job. *)

\* A comparison succeeds only if it names a source and failed none of them.
LEMMA SuccessMeans ==
  ASSUME NEW j \in Jobs, EndStatus(j) = "SUCCEEDED"
  PROVE  /\ pc[j] \notin {"cancelling", "failing"} /\ Named(j) # {}
         /\ \A d \in Named(j) : jobFile[j][d] # "FAILED"
<1>. DEFINE results == {jobFile[j][d] : d \in Named(j)}
<1>1. pc[j] \notin {"cancelling", "failing"} /\ TerminalStatus(j) = "SUCCEEDED"
  BY DEF EndStatus
<1>2. results = {"NONE"} \/ results = {"SUCCESS"}
  BY <1>1 DEF TerminalStatus
<1>3. Named(j) # {}
  BY <1>2
<1>4. \A d \in Named(j) : jobFile[j][d] \in results
  OBVIOUS
<1>. HIDE DEF results
<1>. QED
  BY <1>1, <1>2, <1>3, <1>4

\* Active comparisons name the same sources, all that there are.
LEMMA ActiveNameAll ==
  ASSUME AInv, NEW j \in Jobs, job[j] \in Active
  PROVE  Named(j) = Present
<1>1. snap[j].gen = [d \in Docs |-> IF src[d] = "ABSENT" THEN 0 ELSE gen[d]]
  BY DEF AInv, Snapshots, Snapshot
<1>2. \A d \in Docs : snap[j].gen[d] > 0 <=> src[d] # "ABSENT"
  BY <1>1 DEF AInv, Snapshots, Present
<1>. QED
  BY <1>2 DEF Named, Present

\* A comparison that succeeds without completing the analysis leaves another one
\* behind that failed a source: it may be retried, or is active and may yet end.
LEMMA SomeoneRemains ==
  ASSUME AInv, NEW j \in Jobs, Finish(j), ws = "ANALYZING",
         EndStatus(j) = "SUCCEEDED", ~AnalysisComplete(j)
  PROVE  \E k \in Jobs : k # j /\ (job[k] \in Retryable \/ (job[k] \in Active /\ Fresh(k)))
<1>1. pc[j] = "finish" /\ Named(j) # {} /\ \A d \in Named(j) : jobFile[j][d] # "FAILED"
  BY SuccessMeans DEF Finish
<1>2. job[j] = "RUNNING" /\ doc[j] = {}
  BY <1>1 DEF AInv, Places
<1>3. PICK l \in Jobs : job[l] \in Retryable \/ (job[l] \in Active /\ Fresh(l))
  BY <1>2 DEF AInv, HasLeader
<1>4. CASE l # j
  BY <1>3, <1>4
<1>5. CASE l = j
  <2>1. \A d \in Named(j) : fileRes[d] # "NONE"
    BY <1>1, <1>2, <1>3, <1>5 DEF Fresh, Late, Retryable
  <2>2. PICK d \in Named(j) : fileRes[d] \notin {"SUCCESS", "PARTIAL"}
    BY <1>1 DEF AnalysisComplete
  <2>3. d \in Docs /\ fileRes[d] = "FAILED"
    BY <2>1, <2>2 DEF AInv, TypeOK, FileStatus, Named
  <2>4. PICK k \in Jobs : job[k] \in Active \cup Retryable /\ jobFile[k][d] = "FAILED"
    BY <2>3 DEF AInv, FailuresHaveAJob
  <2>5. k # j
    BY <1>1, <2>4
  <2>6. CASE job[k] \in Active
    <3>1. Named(k) = Named(j)
      BY <1>2, <2>6, ActiveNameAll DEF Active
    <3>2. pc[k] = "batch" => At(k) \in Named(k)
      BY DEF AInv, Places, Late, At
    <3>3. Fresh(k)
      BY <2>1, <3>1, <3>2 DEF Fresh
    <3>. QED
      BY <2>5, <2>6, <3>3
  <2>. QED
    BY <2>4, <2>5, <2>6
<1>. QED
  BY <1>4, <1>5

LEMMA FinishKeeps ==
  ASSUME AInv, TypeOK', NEW j \in Jobs, Finish(j)
  PROVE  AInv'
<1>1. /\ job \in [Jobs -> JobStatus] /\ pc \in [Jobs -> PC] /\ doc \in [Jobs -> SUBSET Docs]
      /\ row \in [Jobs -> Rows \cup {NoRow}] /\ Places /\ Snapshots /\ Results
      /\ ws \in {"DRAFT", "ANALYZING", "CANDIDATE_REVIEW"}
  BY DEF AInv, TypeOK
<1>2. /\ UNCHANGED <<catalog, src, gen, snap, jobFile, rowRes, fileRes>>
      /\ pc[j] \in {"finish", "cancelling", "failing"} /\ job[j] = "RUNNING"
      /\ job'[j] = EndStatus(j) /\ pc'[j] = "idle" /\ doc'[j] = {}
      /\ \A k \in Jobs : k # j =>
            job'[k] = job[k] /\ pc'[k] = pc[k] /\ doc'[k] = doc[k] /\ row'[k] = row[k]
      /\ ws' = IF EndStatus(j) = "SUCCEEDED" /\ AnalysisComplete(j) THEN "CANDIDATE_REVIEW" ELSE ws
  BY <1>1 DEF Finish, Goto, sourceVars, resultVars, Places
<1>3. EndStatus(j) \in {"SUCCEEDED"} \cup Retryable /\ EndStatus(j) \notin Active \cup {"ABSENT"}
  BY DEF EndStatus, TerminalStatus, Retryable, Active
<1>4. ws # "DRAFT" /\ Named(j) = Present
  BY <1>1, <1>2, ActiveNameAll DEF Snapshots, Active
<1>5. \A k \in Jobs : Named(k)' = Named(k)
  BY <1>2 DEF Named
<1>6. Places'
  BY <1>1, <1>2, <1>3, <1>5 DEF Places, Late, Active
<1>7. Snapshots'
  <2>1. Snapshot' = Snapshot /\ Present' = Present
    BY <1>2 DEF Snapshot, Present
  <2>2. ws' # "DRAFT"
    BY <1>2, <1>4
  <2>. QED
    BY <1>1, <1>2, <1>3, <2>1, <2>2 DEF Snapshots
<1>8. Results'
  <2>1. \A k \in Jobs : job'[k] \in Active => job[k] \in Active
    BY <1>2, <1>3
  <2>. QED
    BY <1>1, <1>2, <2>1 DEF Results, Scored, Complete
<1>9. FailuresHaveAJob'
  <2>. SUFFICES ASSUME ws' = "ANALYZING", NEW d \in Docs, fileRes'[d] = "FAILED"
                PROVE  \E k \in Jobs : job'[k] \in Active \cup Retryable
                                         /\ d \in Named(k)' /\ jobFile'[k][d] = "FAILED"
    BY DEF FailuresHaveAJob
  <2>1. PICK k \in Jobs : job[k] \in Active \cup Retryable /\ d \in Named(k) /\ jobFile[k][d] = "FAILED"
    BY <1>2 DEF AInv, FailuresHaveAJob
  <2>2. k = j => EndStatus(j) \in Retryable
    BY <1>3, <2>1, SuccessMeans
  <2>. QED
    BY <1>2, <1>5, <2>1, <2>2
<1>10. HasLeader'
  <2>. SUFFICES ASSUME ws' # "CANDIDATE_REVIEW"
                PROVE  \E k \in Jobs : job'[k] \in Retryable \/ (job'[k] \in Active /\ Fresh(k)')
    BY DEF HasLeader
  <2>1. CASE EndStatus(j) \in Retryable
    BY <1>2, <2>1
  <2>2. CASE EndStatus(j) = "SUCCEEDED"
    <3>1. ws = "ANALYZING" /\ ~AnalysisComplete(j)
      BY <1>1, <1>2, <1>4, <2>2
    <3>2. PICK k \in Jobs : k # j /\ (job[k] \in Retryable \/ (job[k] \in Active /\ Fresh(k)))
      BY <2>2, <3>1, SomeoneRemains
    <3>3. Fresh(k)' <=> Fresh(k)
      BY <1>2, <1>5, <3>2 DEF Fresh, At
    <3>. QED
      BY <1>2, <3>2, <3>3
  <2>. QED
    BY <1>3, <2>1, <2>2
<1>11. ReviewIsComplete'
  <2>1. CASE ws = "CANDIDATE_REVIEW"
    BY <1>2, <2>1 DEF AInv, ReviewIsComplete, Complete, Scored, Present
  <2>2. CASE AnalysisComplete(j)
    <3>1. \A d \in Present : Complete(d)
      BY <1>1, <1>4, <2>2 DEF AnalysisComplete, Results, Present
    <3>. QED
      BY <1>2, <3>1 DEF ReviewIsComplete, Complete, Scored, Present
  <2>. QED
    BY <1>2, <2>1, <2>2 DEF ReviewIsComplete
<1>12. DraftHasNoOutput'
  BY <1>2, <1>4 DEF DraftHasNoOutput
<1>. QED
  BY <1>6, <1>7, <1>8, <1>9, <1>10, <1>11, <1>12 DEF AInv

--------------------------------------------------------------------------------
(* The theorems. *)

LEMMA StutterKeeps == AInv /\ UNCHANGED vars => AInv'
<1>. SUFFICES ASSUME AInv, UNCHANGED vars PROVE AInv'
  OBVIOUS
<1>1. /\ UNCHANGED <<ws, catalog, src, gen, repair, repairSrc, job, cancel, snap, jobFile>>
      /\ UNCHANGED <<rowRes, fileRes, pc, doc, row>>
  BY DEF vars, sourceVars, jobVars, resultVars, workerVars
<1>2. TypeOK'
  BY <1>1 DEF AInv, TypeOK
<1>3. Places' /\ Results' /\ FailuresHaveAJob' /\ HasLeader' /\ DraftHasNoOutput'
  BY <1>1 DEF AInv, Places, Results, Scored, Complete, FailuresHaveAJob, HasLeader,
     Fresh, Named, DraftHasNoOutput, At
<1>4. Snapshots' /\ ReviewIsComplete'
  BY <1>1 DEF AInv, Snapshots, Snapshot, ReviewIsComplete, Complete, Scored, Present
<1>. QED
  BY <1>2, <1>3, <1>4 DEF AInv

LEMMA NextKeeps == AInv /\ [Next]_vars => AInv'
<1>. SUFFICES ASSUME AInv, [Next]_vars PROVE AInv'
  OBVIOUS
<1>1. TypeOK /\ Places
  BY DEF AInv
<1>2. ASSUME NEW j \in Jobs, JobStep(j) PROVE AInv'
  <2>1. TypeOK'
    BY <1>1, <1>2, RequestTypes, WorkerTypes DEF JobStep
  <2>. QED
    BY <1>2, <2>1, BeginningKeeps, RequestCancelKeeps, ClaimKeeps, StartKeeps, SelectKeeps,
       BatchKeeps, FinishKeeps DEF JobStep
<1>3. ASSUME NEW d \in Docs, SourceStep(d) PROVE AInv'
  <2>1. TypeOK'
    BY <1>1, <1>3, SourceTypes
  <2>. QED
    BY <1>3, <2>1, SourceKeeps, ParseEndsKeeps DEF SourceStep
<1>4. CASE RejectUpload \/ ReserveRepair \/ RepairOther
  BY <1>1, <1>4, SourceTypes, RejectUploadKeeps, RepairKeeps
<1>5. CASE ActivateCatalog \/ Transition
  BY <1>1, <1>5, RequestTypes, ActivateCatalogKeeps, TransitionKeeps
<1>6. CASE UNCHANGED vars
  BY <1>6, StutterKeeps
<1>. QED
  BY <1>2, <1>3, <1>4, <1>5, <1>6 DEF Next

LEMMA InductiveInvariant == Spec => []AInv
BY InitAInv, NextKeeps, PTL DEF Spec

\* The statuses, payloads, results and worker positions of an analysis always
\* are of their types.
THEOREM TypeHolds == Spec => []TypeOK
<1>1. AInv => TypeOK
  BY DEF AInv
<1>. QED
  BY <1>1, InductiveInvariant, PTL

\* A workspace reaches candidate review only with an outcome for every row of
\* every source it has, all of the rows as they are now and of one catalog
\* version: complete_analysis_for_succeeded_job counts file results, which a
\* cancelled, retried or overtaken job may have written.
THEOREM ReviewAccountsForEveryRowHolds == Spec => []ReviewAccountsForEveryRow
<1>1. ASSUME AInv PROVE ReviewAccountsForEveryRow
  <2>. SUFFICES ASSUME ws = "CANDIDATE_REVIEW" PROVE ReviewAccountsForEveryRow
    BY DEF ReviewAccountsForEveryRow
  <2>1. \A d \in Docs, r \in Rows : src[d] # "ABSENT" => Scored(d, r)
    BY <1>1 DEF AInv, ReviewIsComplete, Complete, Present
  <2>. QED
    BY <1>1, <2>1 DEF AInv, Results, ReviewAccountsForEveryRow
<1>. QED
  BY <1>1, InductiveInvariant, PTL

\* While a comparison is active its payload names the very sources of the workspace,
\* at the generations they have, and all of them are parsed: no correction, repair
\* or parse comes between its batches.  Overlapping comparisons hence agree.
SourcesStandStill ==
    \A j \in Jobs : job[j] \in Active =>
        /\ snap[j].gen = Snapshot.gen
        /\ Named(j) = Present
        /\ \A d \in Docs : src[d] \in {"ABSENT", "READY"}

\* The corrections of api/routes/sources.py wait for every active comparison, also
\* for one that was overtaken: SourcesStandStill in every reachable state.
THEOREM SourcesStandStillHolds == Spec => []SourcesStandStill
<1>1. AInv => SourcesStandStill
  BY ActiveNameAll DEF AInv, Snapshots, SourcesStandStill
<1>. QED
  BY <1>1, InductiveInvariant, PTL

\* A workspace that is a draft, also after a correction reopened its analysis,
\* holds no row and no file result that a later analysis could count.
THEOREM DraftHasNoOutputHolds == Spec => []DraftHasNoOutput
<1>1. AInv => DraftHasNoOutput
  BY DEF AInv
<1>. QED
  BY <1>1, InductiveInvariant, PTL

\* While a workspace is ANALYZING and has had a comparison job, one of its jobs
\* is active or may be retried: a job that ends SUCCEEDED without completing the
\* analysis never is the last one.
THEOREM AnalysisCanContinueHolds == Spec => []AnalysisCanContinue
<1>1. AInv => AnalysisCanContinue
  BY DEF AInv, HasLeader, AnalysisCanContinue
<1>. QED
  BY <1>1, InductiveInvariant, PTL

\* Under candidate review no outcome is taken back, and the batch of a comparison
\* that still runs can only turn an error into a match of the same rows and catalog.
THEOREM ReviewKeepsOutcomesHolds == Spec => ReviewKeepsOutcomes
<1>. DEFINE Kept == ws = "CANDIDATE_REVIEW" =>
              \A d \in Docs, r \in Rows : rowRes'[d][r] # rowRes[d][r] =>
                 /\ rowRes[d][r].out = "ROW_ERROR"
                 /\ rowRes'[d][r] = [rowRes[d][r] EXCEPT !.out = "MATCHED"]
<1>1. ASSUME AInv, AInv', [Next]_vars PROVE Kept
  <2>. SUFFICES ASSUME ws = "CANDIDATE_REVIEW", NEW e \in Docs, NEW r \in Rows,
                       rowRes'[e][r] # rowRes[e][r]
                PROVE  /\ rowRes[e][r].out = "ROW_ERROR"
                       /\ rowRes'[e][r] = [rowRes[e][r] EXCEPT !.out = "MATCHED"]
    OBVIOUS
  <2>1. ~Reopen
    BY DEF Reopen, Correctable
  <2>2. ~\E d \in Docs : SourceStep(d)
    BY <2>1 DEF SourceStep, Upload, RepairUpload, Replace, Remap, Parse, ParseEnds, resultVars
  <2>3. /\ ~RejectUpload /\ ~ReserveRepair /\ ~RepairOther /\ ~ActivateCatalog /\ ~Transition
        /\ ~UNCHANGED vars
    BY <2>1 DEF RejectUpload, ReserveRepair, RepairOther, ActivateCatalog, Transition,
       resultVars, vars
  <2>4. PICK j \in Jobs : Batch(j)
    <3>1. PICK j \in Jobs : JobStep(j)
      BY <1>1, <2>2, <2>3 DEF Next
    <3>. QED
      BY <3>1 DEF JobStep, CreateComparison, RequestCancel, RetryComparison, Claim, Start, Select,
         Checkpoint, Finish, CrashAndRecover, resultVars
  <2>5. pc[j] = "batch" /\ BatchSucceeds(j)
    BY <2>4, BatchCases
  <2>6. doc[j] # {} /\ job[j] \in Active /\ doc[j] \subseteq Named(j)
    BY <1>1, <2>5 DEF AInv, Places, Late, Active
  <2>7. PICK d : d = At(j)
    OBVIOUS
  <2>8. BatchAddsTo(j, d)
    BY <1>1, <2>5, <2>6, <2>7, BatchEffect DEF AInv
  <2>9. e = d
    BY <2>8 DEF BatchAddsTo
  <2>10. Scored(e, r)
    <3>1. d \in Present
      BY <1>1, <2>6, <2>8, ActiveNameAll DEF BatchAddsTo
    <3>. QED
      BY <1>1, <2>9, <3>1 DEF AInv, ReviewIsComplete, Complete
  <2>11. rowRes[e][r] \in Result /\ rowRes[e][r].out # "NONE" /\ rowRes[e][r].gen = gen[e]
    BY <1>1, <2>10 DEF AInv, TypeOK, Result, Results
  <2>12. rowRes[e][r].cat = catalog
    BY <1>1, <2>4, <2>5, <2>10, BatchAdds DEF AInv
  <2>13. PICK out \in {"MATCHED", "ROW_ERROR"} :
           rowRes'[e][r] = IF r = row[j] /\ rowRes[e][r].out \in {"NONE", "ROW_ERROR"}
                           THEN [out |-> out, cat |-> catalog, gen |-> gen[e]] ELSE rowRes[e][r]
    BY <2>8, <2>9 DEF BatchAddsTo
  <2>14. /\ rowRes[e][r].out = "ROW_ERROR"
         /\ rowRes'[e][r] = [out |-> out, cat |-> catalog, gen |-> gen[e]]
    BY <2>11, <2>13
  <2>15. rowRes[e][r] = [out |-> "ROW_ERROR", cat |-> catalog, gen |-> gen[e]]
    BY <2>11, <2>12, <2>14 DEF Result
  <2>. QED
    BY <2>14, <2>15
<1>2. Spec => [][Kept]_vars
  BY <1>1, InductiveInvariant, PTL DEF Spec
<1>. QED
  BY <1>2 DEF ReviewKeepsOutcomes

--------------------------------------------------------------------------------
(***************************************************************************)
(* The guards of the saves that come between scorings and comparisons.     *)
(***************************************************************************)

\* The keys of idempotency_keys.
Scopes == Users \X Kinds \X Keys

\* What the type invariant says about one request.
LEMMA RequestFacts ==
  ASSUME GuardsTypeOK, NEW s \in Saves, request[s] # None
  PROVE  /\ Scope(s) \in Scopes
         /\ Items(s) \in SUBSET Candidates
         /\ request[s].seen \in [Items(s) -> Row]
<1>1. PICK items \in SUBSET Candidates : request[s] \in Request(items)
  BY DEF GuardsTypeOK
<1>2. /\ request[s].user \in Users /\ request[s].kind \in Kinds /\ request[s].key \in Keys
      /\ request[s].seen \in [items -> Row]
  BY <1>1 DEF Request
<1>3. Items(s) = items
  BY <1>2 DEF Items
<1>. QED
  BY <1>2, <1>3 DEF Scope, Scopes

\* A row that is saved or scored has a later version, one that is made anew a
\* later id.
LEMMA NextVersion ==
  ASSUME NEW old \in Row, NEW new \in Row, new.id = old.id, new.version = old.version + 1
  PROVE  Ahead(old, new)
BY DEF Ahead, Row

\* The same for a row that is made anew.
LEMMA NextId ==
  ASSUME NEW old \in Row, NEW new \in Row, new.id = old.id + 1
  PROVE  Ahead(old, new)
BY DEF Ahead, Row

\* A row that stays is not behind itself.
LEMMA SameRow == ASSUME NEW was \in Row PROVE Ahead(was, was)
BY DEF Ahead, Row

\* A row that a save wrote.
LEMMA SavedRow ==
  ASSUME NEW was \in Row, NEW s \in Saves, NEW new, new = [was EXCEPT !.version = @ + 1, !.by = s]
  PROVE  new \in Row /\ Ahead(was, new)
<1>1. new = [id |-> was.id, version |-> was.version + 1, score |-> was.score, by |-> s]
  BY DEF Row
<1>2. new \in Row
  BY <1>1 DEF Row
<1>. QED
  BY <1>1, <1>2, NextVersion

\* A row that a comparison scored.
LEMMA ScoredRow ==
  ASSUME NEW was \in Row, NEW new,
         new = [was EXCEPT !.version = @ + 1, !.score = @ + 1, !.by = None]
  PROVE  new \in Row /\ Ahead(was, new)
<1>1. new = [id |-> was.id, version |-> was.version + 1, score |-> was.score + 1, by |-> None]
  BY DEF Row
<1>2. new \in Row
  BY <1>1 DEF Row
<1>. QED
  BY <1>1, <1>2, NextVersion

\* A row that a comparison made anew.
LEMMA RemadeRow ==
  ASSUME NEW was \in Row, NEW new,
         new = [id |-> was.id + 1, version |-> 1, score |-> was.score + 1, by |-> None]
  PROVE  new \in Row /\ Ahead(was, new)
<1>1. new \in Row
  BY DEF Row
<1>. QED
  BY <1>1, NextId

\* What a mutation writes.
LEMMA ApplyTypes ==
  ASSUME GuardsTypeOK, NEW s \in Saves, request[s] # None, NEW C \in SUBSET Items(s), Apply(s, C)
  PROVE  /\ rows' \in [Candidates -> Row] /\ stored' \in [Scopes -> Entry \cup {None}]
         /\ told' \in [Saves -> (SUBSET Candidates) \cup {None}]
<1>1. Scope(s) \in Scopes /\ C \in SUBSET Candidates
  BY RequestFacts
<1>2. [save |-> s, changed |-> C] \in Entry
  BY <1>1 DEF Entry
<1>3. rows' \in [Candidates -> Row]
  <2>1. ASSUME NEW c \in Candidates PROVE rows'[c] \in Row
    <3>1. rows[c] \in Row /\ rows'[c] = IF c \in C THEN [rows[c] EXCEPT !.version = @ + 1, !.by = s] ELSE rows[c]
      BY DEF Apply, GuardsTypeOK
    <3>. QED
      BY <3>1, SavedRow
  <2>. QED
    BY <2>1 DEF Apply
<1>4. stored' \in [Scopes -> Entry \cup {None}]
  BY <1>1, <1>2 DEF Apply, GuardsTypeOK, Scopes
<1>5. told' \in [Saves -> (SUBSET Candidates) \cup {None}]
  BY <1>1 DEF Apply, GuardsTypeOK
<1>. QED
  BY <1>3, <1>4, <1>5

\* The rows move on under every save, scoring and comparison.
RowsMoveOn == \A c \in Candidates : rows[c] \in Row /\ rows'[c] \in Row /\ Ahead(rows[c], rows'[c])

\* What moved on twice moved on.
LEMMA AheadTransitive ==
  ASSUME NEW x \in Row, NEW y \in Row, NEW z \in Row, Ahead(x, y), Ahead(y, z)
  PROVE  Ahead(x, z)
BY DEF Ahead, Row

\* While the rows move on, what was read stays in their past.
LEMMA SeenStaysPast ==
  ASSUME GuardsTypeOK, SeenIsPast, RowsMoveOn, UNCHANGED request
  PROVE  SeenIsPast'
<1>. SUFFICES ASSUME NEW s \in Saves, request[s] # None, NEW c \in Items(s)
              PROVE  Ahead(request[s].seen[c], rows'[c])
  BY DEF SeenIsPast, Items
<1>1. request[s].seen[c] \in Row /\ c \in Candidates
  BY RequestFacts
<1>2. Ahead(request[s].seen[c], rows[c]) /\ Ahead(rows[c], rows'[c])
  BY <1>1 DEF SeenIsPast, RowsMoveOn
<1>. QED
  BY <1>1, <1>2, AheadTransitive DEF RowsMoveOn

\* The rows that a mutation writes move on.
LEMMA ApplyMovesOn ==
  ASSUME GuardsTypeOK, NEW s \in Saves, NEW C, Apply(s, C)
  PROVE  RowsMoveOn
<1>. SUFFICES ASSUME NEW c \in Candidates
              PROVE  rows[c] \in Row /\ rows'[c] \in Row /\ Ahead(rows[c], rows'[c])
  BY DEF RowsMoveOn
<1>1. rows'[c] = IF c \in C THEN [rows[c] EXCEPT !.version = @ + 1, !.by = s] ELSE rows[c]
  BY DEF Apply
<1>2. rows[c] \in Row
  BY DEF GuardsTypeOK
<1>. QED
  <2>1. CASE c \in C
    BY <1>1, <1>2, <2>1, SavedRow
  <2>2. CASE c \notin C
    BY <1>1, <1>2, <2>2, SameRow
  <2>. QED
    BY <2>1, <2>2

\* A mutation stores its answer under its own key.
LEMMA ApplyStoresOwn ==
  ASSUME GuardsTypeOK, StoredIsOwned, NEW s \in Saves, IsNew(s), NEW C \in SUBSET Items(s), Apply(s, C)
  PROVE  StoredIsOwned'
<1>. SUFFICES ASSUME NEW scope \in Scopes, stored'[scope] # None
              PROVE  LET t == stored'[scope].save
                     IN  request[t] # None /\ scope = Scope(t) /\ stored'[scope].changed \subseteq Items(t)
  BY DEF StoredIsOwned, Scopes, Apply, Scope, Items
<1>1. stored' = [stored EXCEPT ![Scope(s)] = [save |-> s, changed |-> C]]
  BY DEF Apply
<1>2. stored \in [Scopes -> Entry \cup {None}]
  BY DEF GuardsTypeOK, Scopes
<1>3. CASE scope = Scope(s)
  <2>1. stored'[scope] = [save |-> s, changed |-> C]
    BY <1>1, <1>2, <1>3
  <2>. QED
    BY <2>1, <1>3 DEF IsNew
<1>4. CASE scope # Scope(s)
  <2>1. stored'[scope] = stored[scope]
    BY <1>1, <1>2, <1>4
  <2>. QED
    BY <2>1 DEF StoredIsOwned, Scopes
<1>. QED
  BY <1>3, <1>4

\* A mutation keeps the invariant.
LEMMA ApplyKeeps ==
  ASSUME GuardsInv, NEW s \in Saves, IsNew(s), NEW C \in SUBSET Items(s), Apply(s, C),
         status' \in Statuses
  PROVE  GuardsInv'
<1>1. GuardsTypeOK /\ SeenIsPast /\ StoredIsOwned /\ MadeOnce /\ request[s] # None
  BY DEF GuardsInv, IsNew
<1>2. UNCHANGED <<lock, request, importVars>>
  BY DEF Apply
<1>3. GuardsTypeOK'
  <2>1. rows' \in [Candidates -> Row] /\ stored' \in [Scopes -> Entry \cup {None}]
    /\ told' \in [Saves -> (SUBSET Candidates) \cup {None}]
    BY <1>1, ApplyTypes
  <2>. QED
    BY <1>1, <1>2, <2>1 DEF GuardsTypeOK, importVars, Scopes
<1>4. SeenIsPast'
  BY <1>1, <1>2, ApplyMovesOn, SeenStaysPast
<1>5. StoredIsOwned'
  BY <1>1, ApplyStoresOwn
<1>6. MadeOnce'
  BY <1>1, <1>2 DEF MadeOnce, importVars
<1>. QED
  BY <1>3, <1>4, <1>5, <1>6 DEF GuardsInv

\* So does a client that writes a request.
LEMMA WriteKeeps ==
  ASSUME GuardsInv, NEW s \in Saves, NEW u \in Users, NEW kind \in Kinds, NEW key \in Keys,
         NEW items \in SUBSET Candidates, Write(s, u, kind, key, items)
  PROVE  GuardsInv'
<1>. DEFINE new == [user |-> u, kind |-> kind, key |-> key, seen |-> [c \in items |-> rows[c]]]
<1>1. GuardsTypeOK /\ SeenIsPast /\ StoredIsOwned /\ MadeOnce
  BY DEF GuardsInv
<1>2. /\ request[s] = None /\ UNCHANGED <<rows, lock, status, stored, told, importVars>>
      /\ request' = [request EXCEPT ![s] = new]
  BY DEF Write, rowVars
<1>3. new \in Request(items)
  BY <1>1 DEF GuardsTypeOK, Request
<1>4. request = [t \in Saves |-> request[t]]
  BY <1>1 DEF GuardsTypeOK
<1>5. request' = [t \in Saves |-> request'[t]] /\ request'[s] = new
      /\ \A t \in Saves : t # s => request'[t] = request[t]
  BY <1>2, <1>4
<1>. HIDE DEF new
<1>6. GuardsTypeOK'
  <2>1. ASSUME NEW t \in Saves
        PROVE  request'[t] = None \/ \E C \in SUBSET Candidates : request'[t] \in Request(C)
    <3>1. CASE t = s
      BY <3>1, <1>3, <1>5
    <3>2. CASE t # s
      BY <3>2, <1>5, <1>1 DEF GuardsTypeOK
    <3>. QED
      BY <3>1, <3>2
  <2>. QED
    BY <1>1, <1>2, <1>5, <2>1 DEF GuardsTypeOK, importVars
<1>7. SeenIsPast'
  <2>. SUFFICES ASSUME NEW t \in Saves, request'[t] # None, NEW c \in DOMAIN request'[t].seen
                PROVE  Ahead(request'[t].seen[c], rows[c])
    BY <1>2 DEF SeenIsPast, Items
  <2>1. CASE t = s
    <3>1. request'[t].seen = [d \in items |-> rows[d]]
      BY <2>1, <1>5 DEF new
    <3>2. request'[t].seen[c] = rows[c] /\ rows[c] \in Row
      BY <3>1, <1>1 DEF GuardsTypeOK
    <3>. QED
      BY <3>2 DEF Ahead, Row
  <2>2. CASE t # s
    BY <2>2, <1>5, <1>1 DEF SeenIsPast, Items
  <2>. QED
    BY <2>1, <2>2
<1>8. StoredIsOwned'
  <2>. SUFFICES ASSUME NEW scope \in Scopes, stored[scope] # None
                PROVE  LET t == stored[scope].save
                       IN  request'[t] # None /\ scope = Scope(t)' /\ stored[scope].changed \subseteq Items(t)'
    BY <1>2 DEF StoredIsOwned, Scopes
  <2>1. LET t == stored[scope].save
        IN  t \in Saves /\ request[t] # None /\ scope = Scope(t) /\ stored[scope].changed \subseteq Items(t)
    <3>1. stored[scope] \in Entry
      BY <1>1 DEF GuardsTypeOK, Scopes
    <3>. QED
      BY <1>1, <3>1 DEF StoredIsOwned, Scopes, Entry
  <2>2. request'[stored[scope].save] = request[stored[scope].save]
    BY <2>1, <1>2, <1>5
  <2>. QED
    <3>. DEFINE t == stored[scope].save
    <3>1. request'[t] # None /\ Scope(t)' = Scope(t) /\ Items(t)' = Items(t)
      BY <1>2, <2>1, <2>2 DEF Scope, Items
    <3>. QED
      BY <2>1, <3>1
<1>9. MadeOnce'
  BY <1>1, <1>2 DEF MadeOnce, importVars
<1>. QED
  BY <1>6, <1>7, <1>8, <1>9 DEF GuardsInv

\* The answers stay while nothing is requested or stored.
LEMMA SavesStay ==
  ASSUME StoredIsOwned, UNCHANGED <<request, stored>>
  PROVE  StoredIsOwned'
BY DEF StoredIsOwned, Scope, Items

\* The invariant holds at the start.
LEMMA GuardsInvInit == GuardsInit => GuardsInv
<1>. SUFFICES ASSUME GuardsInit PROVE GuardsInv
  OBVIOUS
<1>1. GuardsTypeOK
  BY DEF GuardsInit, GuardsTypeOK, Row, Kinds, Statuses
<1>2. SeenIsPast /\ StoredIsOwned /\ MadeOnce
  BY DEF GuardsInit, SeenIsPast, StoredIsOwned, MadeOnce
<1>. QED
  BY <1>1, <1>2 DEF GuardsInv

\* Every mutation, lease, scoring, comparison and import keeps it.
LEMMA GuardsInvStep == GuardsInv /\ [GuardsNext]_guardVars => GuardsInv'
<1>. SUFFICES ASSUME GuardsInv, [GuardsNext]_guardVars PROVE GuardsInv'
  OBVIOUS
<1>. USE GuardsAssumption
<1>0. GuardsTypeOK /\ SeenIsPast /\ StoredIsOwned /\ MadeOnce
  BY DEF GuardsInv
<1>1. ASSUME NEW C \in SUBSET Candidates, Rescore(C) PROVE GuardsInv'
  <2>1. \A c \in Candidates : rows'[c] =
            IF c \in C THEN [rows[c] EXCEPT !.version = @ + 1, !.score = @ + 1, !.by = None] ELSE rows[c]
    BY <1>1 DEF Rescore
  <2>2. RowsMoveOn
    <3>1. \A c \in Candidates : rows[c] \in Row
      BY <1>0 DEF GuardsTypeOK
    <3>2. ASSUME NEW c \in Candidates, c \in C
          PROVE  rows'[c] \in Row /\ Ahead(rows[c], rows'[c])
      BY <2>1, <3>1, <3>2, ScoredRow
    <3>3. ASSUME NEW c \in Candidates, c \notin C PROVE rows'[c] = rows[c]
      BY <2>1, <3>3
    <3>. QED
      BY <3>1, <3>2, <3>3, SameRow DEF RowsMoveOn
  <2>3. rows' \in [Candidates -> Row]
    BY <1>1, <2>2 DEF Rescore, RowsMoveOn
  <2>4. GuardsTypeOK'
    BY <1>0, <1>1, <2>3 DEF GuardsTypeOK, Rescore, saveVars, importVars
  <2>5. SeenIsPast'
    BY <1>0, <1>1, <2>2, SeenStaysPast DEF Rescore, saveVars
  <2>6. StoredIsOwned' /\ MadeOnce'
    BY <1>0, <1>1, SavesStay DEF Rescore, saveVars, importVars, MadeOnce
  <2>. QED
    BY <2>4, <2>5, <2>6 DEF GuardsInv
<1>2. ASSUME NEW C \in SUBSET Candidates, Recreate(C) PROVE GuardsInv'
  <2>1. \A c \in Candidates : rows'[c] =
            IF c \in C THEN [id |-> rows[c].id + 1, version |-> 1, score |-> rows[c].score + 1, by |-> None]
            ELSE rows[c]
    BY <1>2 DEF Recreate
  <2>2. RowsMoveOn
    <3>1. \A c \in Candidates : rows[c] \in Row
      BY <1>0 DEF GuardsTypeOK
    <3>2. ASSUME NEW c \in Candidates, c \in C
          PROVE  rows'[c] \in Row /\ Ahead(rows[c], rows'[c])
      BY <2>1, <3>1, <3>2, RemadeRow
    <3>3. ASSUME NEW c \in Candidates, c \notin C PROVE rows'[c] = rows[c]
      BY <2>1, <3>3
    <3>. QED
      BY <3>1, <3>2, <3>3, SameRow DEF RowsMoveOn
  <2>3. rows' \in [Candidates -> Row]
    BY <1>2, <2>2 DEF Recreate, RowsMoveOn
  <2>4. lock' \in [Candidates -> Users \cup {None}]
    BY <1>0, <1>2 DEF GuardsTypeOK, Recreate
  <2>5. GuardsTypeOK'
    BY <1>0, <1>2, <2>3, <2>4 DEF GuardsTypeOK, Recreate, saveVars, importVars
  <2>6. SeenIsPast'
    BY <1>0, <1>2, <2>2, SeenStaysPast DEF Recreate, saveVars
  <2>7. StoredIsOwned' /\ MadeOnce'
    BY <1>0, <1>2, SavesStay DEF Recreate, saveVars, importVars, MadeOnce
  <2>. QED
    BY <2>5, <2>6, <2>7 DEF GuardsInv
<1>3. ASSUME MoveOn \/ (\E c \in Candidates : LeaseExpires(c) \/ \E u \in Users : AcquireLock(u, c))
      PROVE  GuardsInv'
  <2>1. UNCHANGED <<rows, saveVars, importVars>>
    BY <1>3 DEF MoveOn, LeaseExpires, AcquireLock
  <2>2. lock' \in [Candidates -> Users \cup {None}] /\ status' \in Statuses
    BY <1>0, <1>3 DEF MoveOn, LeaseExpires, AcquireLock, GuardsTypeOK
  <2>3. GuardsTypeOK'
    BY <1>0, <2>1, <2>2 DEF GuardsTypeOK, saveVars, importVars
  <2>4. SeenIsPast' /\ StoredIsOwned' /\ MadeOnce'
    BY <1>0, <2>1, SavesStay DEF SeenIsPast, Items, MadeOnce, saveVars, importVars
  <2>. QED
    BY <2>3, <2>4 DEF GuardsInv
<1>4. ASSUME NEW s \in Saves, NEW u \in Users, NEW kind \in Kinds, NEW key \in Keys,
             NEW items \in SUBSET Candidates, Write(s, u, kind, key, items)
      PROVE  GuardsInv'
  BY <1>4, WriteKeeps
<1>5. ASSUME NEW s \in Saves, Replay(s) PROVE GuardsInv'
  <2>1. /\ UNCHANGED <<rows, lock, status, request, stored, importVars>> /\ request[s] # None
        /\ stored[Scope(s)] # None /\ told' = [told EXCEPT ![s] = stored[Scope(s)].changed]
    BY <1>5 DEF Replay, rowVars
  <2>2. stored[Scope(s)].changed \in SUBSET Candidates
    BY <1>0, <2>1, RequestFacts DEF GuardsTypeOK, Scopes, Entry
  <2>3. told' \in [Saves -> (SUBSET Candidates) \cup {None}]
    BY <1>0, <2>1, <2>2 DEF GuardsTypeOK
  <2>4. GuardsTypeOK'
    BY <1>0, <2>1, <2>3 DEF GuardsTypeOK, importVars
  <2>5. SeenIsPast' /\ StoredIsOwned' /\ MadeOnce'
    BY <1>0, <2>1, SavesStay DEF SeenIsPast, Items, MadeOnce, importVars
  <2>. QED
    BY <2>4, <2>5 DEF GuardsInv
<1>6. ASSUME NEW s \in Saves, Autosave(s) PROVE GuardsInv'
  BY <1>0, <1>6, ApplyKeeps DEF Autosave, GuardsTypeOK
<1>7. ASSUME NEW s \in Saves, BulkDecide(s) PROVE GuardsInv'
  BY <1>0, <1>7, ApplyKeeps DEF BulkDecide, GuardsTypeOK
<1>8. ASSUME NEW s \in Saves, Adjust(s) PROVE GuardsInv'
  BY <1>0, <1>8, ApplyKeeps DEF Adjust, Statuses
<1>9. ASSUME NEW i \in Imports, SourceChanges(i) \/ Compose(i) PROVE GuardsInv'
  <2>1. UNCHANGED <<rowVars, saveVars>>
    BY <1>9 DEF SourceChanges, Compose
  <2>2. ready' \in [Imports -> BOOLEAN] /\ imported' \in [Imports -> BOOLEAN] /\ made' \in [Imports -> Nat]
    <3>1. ready \in [Imports -> BOOLEAN] /\ imported \in [Imports -> BOOLEAN] /\ made \in [Imports -> Nat]
      BY <1>0 DEF GuardsTypeOK
    <3>2. CASE SourceChanges(i)
      <4>1. (~ready[i]) \in BOOLEAN
        OBVIOUS
      <4>2. ready' \in [Imports -> BOOLEAN]
        BY <3>1, <3>2, <4>1, Zenon DEF SourceChanges
      <4>. QED
        BY <3>1, <3>2, <4>2 DEF SourceChanges
    <3>3. CASE Compose(i)
      BY <3>1, <3>3 DEF Compose
    <3>. QED
      BY <1>9, <3>2, <3>3
  <2>3. MadeOnce'
    BY <1>0, <1>9 DEF SourceChanges, Compose, GuardsTypeOK, MadeOnce
  <2>4. GuardsTypeOK'
    BY <1>0, <2>1, <2>2 DEF GuardsTypeOK, rowVars, saveVars
  <2>5. SeenIsPast' /\ StoredIsOwned'
    BY <1>0, <2>1, SavesStay DEF SeenIsPast, Items, rowVars, saveVars
  <2>. QED
    BY <2>3, <2>4, <2>5 DEF GuardsInv
<1>10. CASE UNCHANGED guardVars
  <2>1. UNCHANGED <<rows, lock, status, request, stored, told, ready, imported, made>>
    BY <1>10 DEF guardVars, rowVars, saveVars, importVars
  <2>. QED
    BY <1>0, <2>1, SavesStay DEF GuardsInv, GuardsTypeOK, SeenIsPast, Items, MadeOnce
<1>. QED
  BY <1>1, <1>2, <1>3, <1>4, <1>5, <1>6, <1>7, <1>8, <1>9, <1>10 DEF GuardsNext
--------------------------------------------------------------------------------
\* What OnceSaves reads of the rows.
Current == [c \in Candidates |-> Values(rows[c])]
\* What OnceSaves reads of the requests.
Base    == [s \in Saves |-> IF request[s] = None THEN None
                            ELSE [c \in Items(s) |-> Values(request[s].seen[c])]]
\* What OnceSaves reads of the stored answers.
Effects == [s \in Saves |-> Effect(s)]

\* A step that leaves all of it alone is a stutter of OnceSaves.
LEMMA OnceStutters ==
  ASSUME UNCHANGED <<Current, Base, Effects, told, made>>
  PROVE  UNCHANGED Once!vars
BY DEF Once!vars, Current, Base, Effects

\* What it reads of saves stays while nothing is requested or stored.
LEMMA SavesAsBefore ==
  ASSUME UNCHANGED <<request, stored>>
  PROVE  UNCHANGED <<Base, Effects>>
<1>1. Base' = Base
  BY DEF Base, Items
<1>2. Effects' = Effects
  BY DEF Effects, Effect, Scope
<1>. QED
  BY <1>1, <1>2

\* A save whose key is not answered yet has no effect yet.
LEMMA EffectFacts ==
  ASSUME GuardsTypeOK, NEW s \in Saves, request[s] # None
  PROVE  /\ stored[Scope(s)] = None => Effect(s) = None
         /\ stored[Scope(s)] # None /\ stored[Scope(s)].save = s =>
               Effect(s) = stored[Scope(s)].changed /\ Effect(s) # None
<1>. USE GuardsAssumption
<1>1. CASE stored[Scope(s)] = None
  BY <1>1 DEF Effect
<1>2. CASE stored[Scope(s)] # None
  <2>1. stored[Scope(s)] \in Entry
    BY <1>2, RequestFacts DEF GuardsTypeOK, Scopes
  <2>. QED
    BY <1>2, <2>1 DEF Effect, Entry
<1>. QED
  BY <1>1, <1>2

\* A mutation gives its save an effect and no other save.
LEMMA ApplyEffects ==
  ASSUME GuardsTypeOK, StoredIsOwned, NEW s \in Saves, IsNew(s), NEW C \in SUBSET Items(s), Apply(s, C)
  PROVE  Effects' = [Effects EXCEPT ![s] = C]
<1>. USE GuardsAssumption
<1>1. /\ request[s] # None /\ stored[Scope(s)] = None /\ UNCHANGED request
      /\ stored' = [stored EXCEPT ![Scope(s)] = [save |-> s, changed |-> C]]
      /\ stored \in [Scopes -> Entry \cup {None}] /\ Scope(s) \in Scopes
  BY RequestFacts DEF IsNew, Apply, GuardsTypeOK, Scopes
<1>2. [save |-> s, changed |-> C] \in Entry
  BY RequestFacts DEF Entry, IsNew
<1>3. stored'[Scope(s)] = [save |-> s, changed |-> C]
  BY <1>1
<1>4. Effect(s)' = C
  BY <1>1, <1>2, <1>3 DEF Effect, Scope
<1>5. ASSUME NEW t \in Saves, t # s PROVE Effect(t)' = Effect(t)
  <2>1. CASE request[t] = None
    BY <1>1, <2>1 DEF Effect
  <2>2. CASE request[t] # None /\ Scope(t) = Scope(s)
    <3>1. Scope(t)' = Scope(t)
      BY <1>1 DEF Scope
    <3>2. Effect(t) = None
      BY <2>2, <1>1 DEF Effect
    <3>3. stored'[Scope(t)'].save # t
      BY <3>1, <2>2, <1>3, <1>5
    <3>. QED
      BY <3>2, <3>3 DEF Effect
  <2>3. CASE request[t] # None /\ Scope(t) # Scope(s)
    <3>1. Scope(t) \in Scopes /\ Scope(t)' = Scope(t)
      BY <1>1, <2>3, RequestFacts DEF Scope
    <3>2. stored'[Scope(t)'] = stored[Scope(t)]
      BY <1>1, <2>3, <3>1
    <3>. QED
      BY <1>1, <3>2 DEF Effect
  <2>. QED
    BY <2>1, <2>2, <2>3
<1>. QED
  BY <1>4, <1>5 DEF Effects

\* A mutation that passed its guards is a save of what its operator had read.
LEMMA ApplySaves ==
  ASSUME GuardsInv, NEW s \in Saves, IsNew(s), NEW C \in SUBSET Items(s), Apply(s, C),
         \A c \in C : IsCurrent(s, c)
  PROVE  Once!Save(s, C)
<1>. USE GuardsAssumption
<1>1. GuardsTypeOK /\ SeenIsPast /\ StoredIsOwned /\ request[s] # None /\ stored[Scope(s)] = None
  BY DEF GuardsInv, IsNew
<1>2. Items(s) \in SUBSET Candidates /\ request[s].seen \in [Items(s) -> Row]
  BY <1>1, RequestFacts
<1>3. Base[s] = [c \in Items(s) |-> Values(request[s].seen[c])]
  BY <1>1 DEF Base
<1>4. Base[s] # None
  <2>1. [c \in Items(s) |-> Values(request[s].seen[c])] \in [Items(s) -> Content]
    BY <1>2 DEF Values, Row, Content
  <2>. QED
    BY <1>2, <1>3, <2>1
<1>5. Effects[s] = None
  BY <1>1, EffectFacts DEF Effects
<1>6. ASSUME NEW c \in C PROVE Current[c] = Base[s][c]
  <2>1. c \in Candidates /\ c \in Items(s) /\ Ahead(request[s].seen[c], rows[c]) /\ IsCurrent(s, c)
    BY <1>1, <1>2 DEF SeenIsPast
  <2>2. Values(rows[c]) = Values(request[s].seen[c])
    BY <2>1 DEF Ahead, IsCurrent
  <2>. QED
    BY <1>3, <2>1, <2>2 DEF Current
<1>7. Current' = [c \in Candidates |-> IF c \in C THEN [score |-> Current[c].score, by |-> s] ELSE Current[c]]
  <2>1. ASSUME NEW c \in Candidates
        PROVE  Values(rows[c])' = IF c \in C THEN [score |-> Values(rows[c]).score, by |-> s]
                                  ELSE Values(rows[c])
    <3>1. rows[c] \in Row /\ rows'[c] = IF c \in C THEN [rows[c] EXCEPT !.version = @ + 1, !.by = s] ELSE rows[c]
      BY <1>1 DEF Apply, GuardsTypeOK
    <3>2. CASE c \in C
      <4>1. rows'[c] = [id |-> rows[c].id, version |-> rows[c].version + 1, score |-> rows[c].score, by |-> s]
        BY <3>1, <3>2 DEF Row
      <4>. QED
        BY <4>1, <3>2 DEF Values
    <3>3. CASE c \notin C
      BY <3>1, <3>3 DEF Values
    <3>. QED
      BY <3>2, <3>3
  <2>. QED
    BY <2>1 DEF Current
<1>8. Effects' = [Effects EXCEPT ![s] = C]
  BY <1>1, ApplyEffects
<1>9. UNCHANGED <<Base, made>> /\ told' \in {told, [told EXCEPT ![s] = C]}
  BY DEF Apply, Base, Items, importVars
<1>10. C \subseteq DOMAIN Base[s]
  BY <1>3
<1>. QED
  BY <1>4, <1>5, <1>6, <1>7, <1>8, <1>9, <1>10 DEF Once!Save, Current, Base, Effects

\* To write a request is to read what it is about.
LEMMA WriteReads ==
  ASSUME GuardsInv, NEW s \in Saves, NEW u \in Users, NEW kind \in Kinds, NEW key \in Keys,
         NEW items \in SUBSET Candidates, Write(s, u, kind, key, items)
  PROVE  Once!Read(s, items)
<1>. USE GuardsAssumption
<1>. DEFINE new == [user |-> u, kind |-> kind, key |-> key, seen |-> [c \in items |-> rows[c]]]
<1>1. GuardsTypeOK /\ StoredIsOwned
  BY DEF GuardsInv
<1>2. /\ request[s] = None /\ UNCHANGED <<rows, stored, told, made>>
      /\ request' = [request EXCEPT ![s] = new] /\ request = [t \in Saves |-> request[t]]
  BY <1>1 DEF Write, rowVars, importVars, GuardsTypeOK
<1>3. new \in Request(items)
  BY <1>1 DEF GuardsTypeOK, Request
<1>4. request'[s] = new /\ request'[s] # None /\ \A t \in Saves : t # s => request'[t] = request[t]
  BY <1>2, <1>3
<1>5. Base[s] = None
  BY <1>2 DEF Base
<1>6. Base' = [Base EXCEPT ![s] = [c \in items |-> Current[c]]]
  <2>1. Base'[s] = [c \in items |-> Current[c]]
    <3>1. request'[s].seen = [c \in items |-> rows[c]] /\ Items(s)' = items
      BY <1>4 DEF Items
    <3>2. Base'[s] = [c \in items |-> Values(request'[s].seen[c])]
      BY <1>4, <3>1 DEF Base, Values
    <3>. QED
      BY <3>1, <3>2 DEF Current
  <2>2. ASSUME NEW t \in Saves, t # s PROVE Base'[t] = Base[t]
    BY <1>4, <2>2 DEF Base, Items
  <2>. QED
    BY <2>1, <2>2 DEF Base
<1>7. Effects' = Effects
  <2>1. ASSUME NEW t \in Saves PROVE Effect(t)' = Effect(t)
    <3>1. CASE t = s
      <4>1. Effect(s) = None
        BY <1>2 DEF Effect
      <4>2. Scope(s)' \in Scopes
        BY <1>4 DEF Scope, Scopes
      <4>3. stored[Scope(s)'] # None => stored[Scope(s)'].save # s
        BY <1>1, <1>2, <4>2 DEF StoredIsOwned, Scopes
      <4>. QED
        BY <1>2, <3>1, <4>1, <4>3 DEF Effect
    <3>2. CASE t # s
      BY <1>2, <1>4, <3>2 DEF Effect, Scope
    <3>. QED
      BY <3>1, <3>2
  <2>. QED
    BY <2>1 DEF Effects
<1>8. UNCHANGED <<Current, told, made>>
  BY <1>2 DEF Current
<1>. QED
  BY <1>5, <1>6, <1>7, <1>8 DEF Once!Read, Current, Base, Effects

\* The guarded program starts as OnceSaves does.
LEMMA OnceInit == GuardsInit => Once!Init
<1>. SUFFICES ASSUME GuardsInit PROVE Once!Init
  OBVIOUS
<1>1. Current = [c \in Candidates |-> [score |-> 0, by |-> None]]
  BY DEF GuardsInit, Current, Values
<1>2. Base = [s \in Saves |-> None] /\ Effects = [s \in Saves |-> None]
  BY DEF GuardsInit, Base, Effects, Effect
<1>. QED
  BY <1>1, <1>2 DEF GuardsInit, Once!Init, Current, Base, Effects

\* Each of its steps is a step or a stutter of OnceSaves.
LEMMA OnceStep == GuardsInv /\ [GuardsNext]_guardVars => [Once!Next]_Once!vars
<1>. SUFFICES ASSUME GuardsInv, [GuardsNext]_guardVars PROVE Once!Next \/ UNCHANGED Once!vars
  OBVIOUS
<1>0. GuardsTypeOK /\ StoredIsOwned /\ MadeOnce
  BY DEF GuardsInv
<1>1. ASSUME NEW C \in SUBSET Candidates, Rescore(C) \/ Recreate(C) PROVE Once!Score(C)
  <2>1. ASSUME NEW c \in Candidates
        PROVE  Values(rows[c])' = IF c \in C THEN [score |-> Values(rows[c]).score + 1, by |-> None]
                                  ELSE Values(rows[c])
    <3>1. rows[c] \in Row
      BY <1>0 DEF GuardsTypeOK
    <3>2. CASE c \in C
      <4>1. \/ rows'[c] = [rows[c] EXCEPT !.version = @ + 1, !.score = @ + 1, !.by = None]
            \/ rows'[c] = [id |-> rows[c].id + 1, version |-> 1, score |-> rows[c].score + 1, by |-> None]
        BY <1>1, <3>2 DEF Rescore, Recreate
      <4>2. rows'[c].score = rows[c].score + 1 /\ rows'[c].by = None
        <5>1. CASE rows'[c] = [rows[c] EXCEPT !.version = @ + 1, !.score = @ + 1, !.by = None]
          <6>1. rows'[c] = [id |-> rows[c].id, version |-> rows[c].version + 1,
                            score |-> rows[c].score + 1, by |-> None]
            BY <3>1, <5>1 DEF Row
          <6>. QED
            BY <6>1
        <5>2. CASE rows'[c] = [id |-> rows[c].id + 1, version |-> 1, score |-> rows[c].score + 1, by |-> None]
          BY <5>2
        <5>. QED
          BY <4>1, <5>1, <5>2
      <4>. QED
        BY <3>2, <4>2 DEF Values
    <3>3. CASE c \notin C
      BY <1>1, <3>3 DEF Rescore, Recreate, Values
    <3>. QED
      BY <3>2, <3>3
  <2>2. Current' = [c \in Candidates |-> IF c \in C THEN [score |-> Current[c].score + 1, by |-> None]
                                         ELSE Current[c]]
    BY <2>1 DEF Current
  <2>3. UNCHANGED <<request, stored, told, made>>
    BY <1>1 DEF Rescore, Recreate, saveVars, importVars
  <2>4. UNCHANGED <<Base, Effects>>
    BY <2>3, SavesAsBefore
  <2>. QED
    BY <2>2, <2>3, <2>4 DEF Once!Score, Current, Base, Effects
<1>2. ASSUME \/ MoveOn \/ (\E c \in Candidates : LeaseExpires(c) \/ \E u \in Users : AcquireLock(u, c))
             \/ (\E i \in Imports : SourceChanges(i)) \/ UNCHANGED guardVars
      PROVE  UNCHANGED Once!vars
  <2>1. UNCHANGED <<rows, request, stored, told, made>>
    BY <1>2 DEF MoveOn, LeaseExpires, AcquireLock, SourceChanges, guardVars, rowVars, saveVars, importVars
  <2>2. UNCHANGED Current
    BY <2>1 DEF Current
  <2>. QED
    BY <2>1, <2>2, SavesAsBefore, OnceStutters
<1>3. ASSUME NEW s \in Saves, NEW u \in Users, NEW kind \in Kinds, NEW key \in Keys,
             NEW items \in SUBSET Candidates, Write(s, u, kind, key, items)
      PROVE  Once!Read(s, items)
  BY <1>3, WriteReads
<1>4. ASSUME NEW s \in Saves, Replay(s) PROVE Once!Tell(s)
  <2>1. /\ UNCHANGED <<rows, request, stored, made>> /\ request[s] # None
        /\ stored[Scope(s)] # None /\ stored[Scope(s)].save = s
        /\ told' = [told EXCEPT ![s] = stored[Scope(s)].changed]
    BY <1>4 DEF Replay, rowVars, importVars
  <2>2. Effects[s] = stored[Scope(s)].changed /\ Effects[s] # None
    BY <1>0, <2>1, EffectFacts DEF Effects
  <2>3. UNCHANGED <<Current, Base, Effects>>
    BY <2>1, SavesAsBefore DEF Current
  <2>. QED
    BY <2>1, <2>2, <2>3 DEF Once!Tell, Current, Base, Effects
<1>5. ASSUME NEW s \in Saves, Autosave(s) PROVE \E C \in SUBSET Candidates : Once!Save(s, C)
  <2>1. IsNew(s) /\ Apply(s, Items(s)) /\ \A c \in Items(s) : IsCurrent(s, c)
    BY <1>5 DEF Autosave
  <2>2. Items(s) \in SUBSET Candidates
    BY <1>0, <2>1, RequestFacts DEF IsNew
  <2>. QED
    BY <2>1, <2>2, ApplySaves
<1>6. ASSUME NEW s \in Saves, BulkDecide(s) PROVE \E C \in SUBSET Candidates : Once!Save(s, C)
  <2>. DEFINE C == {c \in Items(s) : lock[c] = request[s].user /\ IsCurrent(s, c)}
  <2>1. IsNew(s) /\ Apply(s, C) /\ C \in SUBSET Items(s) /\ \A c \in C : IsCurrent(s, c)
    BY <1>6 DEF BulkDecide
  <2>2. C \in SUBSET Candidates
    BY <1>0, <2>1, RequestFacts DEF IsNew
  <2>. HIDE DEF C
  <2>. QED
    BY <2>1, <2>2, ApplySaves
<1>7. ASSUME NEW s \in Saves, Adjust(s) PROVE \E C \in SUBSET Candidates : Once!Save(s, C)
  <2>1. IsNew(s) /\ Apply(s, Items(s)) /\ \A c \in Items(s) : IsCurrent(s, c)
    BY <1>7 DEF Adjust
  <2>2. Items(s) \in SUBSET Candidates
    BY <1>0, <2>1, RequestFacts DEF IsNew
  <2>. QED
    BY <2>1, <2>2, ApplySaves
<1>8. ASSUME NEW i \in Imports, Compose(i) PROVE Once!Make(i)
  <2>1. made[i] = 0
    BY <1>0, <1>8 DEF Compose, MadeOnce
  <2>2. made' = [made EXCEPT ![i] = made[i] + 1]
    BY <1>8 DEF Compose
  <2>3. made' = [made EXCEPT ![i] = 1]
    BY <2>1, <2>2
  <2>4. UNCHANGED <<rows, request, stored, told>>
    BY <1>8 DEF Compose, rowVars, saveVars
  <2>5. UNCHANGED <<Current, Base, Effects>>
    BY <2>4, SavesAsBefore DEF Current
  <2>. QED
    BY <2>1, <2>3, <2>4, <2>5 DEF Once!Make, Current, Base, Effects
<1>. QED
  BY <1>1, <1>2, <1>3, <1>4, <1>5, <1>6, <1>7, <1>8 DEF GuardsNext, Once!Next

--------------------------------------------------------------------------------
\* The invariant holds throughout.
LEMMA GuardsInvariant == GuardsSpec => []GuardsInv
BY GuardsInvInit, GuardsInvStep, PTL DEF GuardsSpec

\* Comparing the id and the version of a row is as good as comparing its content
\* (update_with_version), also when a comparison deletes rows and makes them anew.
THEOREM VersionTellsContentHolds == GuardsSpec => []VersionTellsContent
<1>1. GuardsInv => VersionTellsContent
  BY DEF GuardsInv, SeenIsPast, Ahead, IsCurrent, VersionTellsContent
<1>. QED
  BY <1>1, GuardsInvariant, PTL

\* A save replaces only what its operator had read and takes effect once however often
\* it is sent; each answer tells what it did; a file becomes one quote or delivery.
THEOREM SavesImplementOnce == GuardsSpec => ImplementsOnce
<1>1. GuardsSpec => GuardsInit /\ [][GuardsNext]_guardVars
  BY DEF GuardsSpec
<1>. QED
  BY <1>1, OnceInit, OnceStep, GuardsInvariant, PTL DEF ImplementsOnce, Once!Spec

================================================================================
