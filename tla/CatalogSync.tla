------------------------------ MODULE CatalogSync ------------------------------
(***************************************************************************)
(* The library's catalog (catalog/sync.py and catalog/repository.py, with  *)
(* the routes that call them): full snapshots are staged and activated,    *)
(* MARC deltas are applied to a copy of the active version.                *)
(*                                                                         *)
(* The library system (DLS) is outside the program.  It is modelled by     *)
(* what its exports contain: a full export has every book, a registration  *)
(* export the books first registered in its window, an update export the   *)
(* books last updated in it, all as they are on the day of the export.     *)
(* Books that leave the library are left out: no delta mentions them.      *)
(*                                                                         *)
(* Every route writes its idempotency key first, which takes SQLite's      *)
(* write lock: an operation here is one transaction.                       *)
(***************************************************************************)
EXTENDS Integers, FiniteSets

CONSTANTS
    Books,        \* books of the library
    VersionIds,   \* BOUND: ids of catalog versions
    Documents,    \* BOUND: ids of source documents
    Overlap,      \* days a delta reaches back behind the watermark (2)
    FullEvery,    \* days after which a full snapshot is required (90)
    StagingDelay, \* days between an export of the library and its staging
    MaxDay,       \* BOUND: days
    MaxPerRole,   \* BOUND: documents of a role
    MaxRevision,  \* BOUND: changes of a book
    None          \* no version, no batch

ASSUME CatalogAssumption ==
    /\ {Overlap, FullEvery, StagingDelay, MaxDay, MaxPerRole, MaxRevision} \subseteq Nat
    /\ StagingDelay <= Overlap
    /\ None \notin VersionIds
    /\ None \notin Documents \X Documents

VARIABLES
    today,     \* the local date in Seoul
    register,  \* the library's own register, by book
    documents, \* source_documents with their rows, by id
    versions,  \* catalog_versions with their holdings, by id
    source,    \* the catalog_source_state row
    batches,   \* catalog_delta_batches: status by its two documents
    v1         \* the catalog candidate of the first version's data

dbVars == <<documents, versions, source, batches, v1>>
vars   == <<today, register, dbVars>>

--------------------------------------------------------------------------------
Days      == (0 - Overlap) .. MaxDay
\* The starts of the windows that deltas are exported for: the one the program
\* asks for, or the watermark itself.  BOUND: no other window is tried.
Starts    == {source.watermark - Overlap, source.watermark}
Revisions == 0 .. MaxRevision
\* The revision of each book that a file or a version holds, 0 where it has none.
Holdings  == [Books -> Revisions]

SourceTypes == {"DLS_MARC", "DLS_EXCEL"}
Roles       == {"CATALOG_DELTA_REGISTRATION", "CATALOG_DELTA_UPDATE"}

NoDocument == [role |-> "NONE", start |-> 0, through |-> 0,
               recs |-> [b \in Books |-> 0], parsed |-> FALSE]
NoVersion  == [status |-> "NONE", type |-> "DLS_MARC", holdings |-> [b \in Books |-> 0],
               asOf |-> 0, expected |-> None, batch |-> None]

IsEmpty(recs) == \A b \in Books : recs[b] = 0
ItemCount(v)  == Cardinality({b \in Books : versions[v].holdings[b] > 0})
Updated(b)    == register[b].rev > 1
LastChange(b) == IF Updated(b) THEN register[b].updated ELSE register[b].registered

\* activate_staged: the change of size that asks for a confirmation.
Anomaly(v) ==
    \/ ItemCount(v) = 0
    \/ /\ source.active # None
       /\ LET old == ItemCount(source.active)
              gap == ItemCount(v) - old
          IN  old > 0 /\ (100 * gap > 30 * old \/ 100 * gap < 0 - 30 * old)

--------------------------------------------------------------------------------
\* Some books are in the library before the program is first used.
Init ==
    /\ today = 0
    /\ register \in [Books -> {[rev |-> r, registered |-> 0, updated |-> 0] : r \in {0, 1} \cap Revisions}]
    /\ documents = [d \in Documents |-> NoDocument]
    /\ versions = [v \in VersionIds |-> NoVersion]
    /\ source = [active |-> None, type |-> "DLS_MARC", watermark |-> 0, full |-> 0]
    /\ batches = [p \in Documents \X Documents |-> "NONE"]
    /\ v1 \in {"NONE", "PENDING_CONFIRMATION"}

NextDay ==
    /\ today < MaxDay
    /\ today' = today + 1
    /\ UNCHANGED <<register, dbVars>>

\* The library registers a book, or changes its record.
Change(b) ==
    /\ register[b].rev < MaxRevision
    /\ register' = [register EXCEPT ![b] =
          IF register[b].rev = 0
          THEN [rev |-> 1, registered |-> today, updated |-> today]
          ELSE [rev |-> register[b].rev + 1, registered |-> register[b].registered,
                updated |-> today]]
    /\ UNCHANGED <<today, dbVars>>

AddDocument(d, role, start, through, recs) ==
    /\ documents[d].role = "NONE"
    /\ Cardinality({e \in Documents : documents[e].role = role}) < MaxPerRole
    /\ documents' = [documents EXCEPT ![d] =
          [role |-> role, start |-> start, through |-> through,
           recs |-> recs, parsed |-> FALSE]]
    /\ UNCHANGED <<today, register, versions, source, batches, v1>>

\* Exports of the library's register, uploaded to the program.
ExportRegistrations(d) == \E start \in Starts, through \in 0 .. today :
    /\ source.active # None
    /\ start <= through
    /\ AddDocument(d, "CATALOG_DELTA_REGISTRATION", start, through,
          [b \in Books |-> IF register[b].registered \in start .. through
                           THEN register[b].rev ELSE 0])

ExportUpdates(d) == \E start \in Starts, through \in 0 .. today :
    /\ source.active # None
    /\ start <= through
    /\ AddDocument(d, "CATALOG_DELTA_UPDATE", start, through,
          [b \in Books |-> IF Updated(b) /\ register[b].updated \in start .. through
                           THEN register[b].rev ELSE 0])

\* The file is parsed without row errors, or those it has are corrected.  A file
\* without rows is never parsed successfully.
Parse(d) ==
    /\ documents[d].role # "NONE"
    /\ ~IsEmpty(documents[d].recs)
    /\ documents' = [documents EXCEPT ![d].parsed = TRUE]
    /\ UNCHANGED <<today, register, versions, source, batches, v1>>

--------------------------------------------------------------------------------
\* Full exports of the library that are staged at most StagingDelay days after
\* they were taken: one of now, and one that misses the last change of every
\* book that was changed since.
FullExports ==
    {recs \in {[b \in Books |-> register[b].rev],
              [b \in Books |-> IF LastChange(b) >= today - StagingDelay /\ register[b].rev > 0
                               THEN register[b].rev - 1 ELSE register[b].rev]} : ~IsEmpty(recs)}

\* stage_full_snapshot through stage_catalog_snapshot: the date of staging is
\* the date the snapshot is taken as of.
StageFull(v) == \E recs \in FullExports, type \in SourceTypes :
    /\ versions[v].status = "NONE"
    /\ versions' = [versions EXCEPT ![v] =
          [status |-> "STAGING", type |-> type, holdings |-> recs,
           asOf |-> today, expected |-> source.active, batch |-> None]]
    /\ UNCHANGED <<today, register, documents, source, batches, v1>>

\* The version becomes the active one, the one before it is superseded.
MakeActive(v, row) ==
    versions' = [w \in VersionIds |->
        IF w = v THEN [row EXCEPT !.status = "ACTIVE"]
        ELSE IF versions[w].status = "ACTIVE" THEN [versions[w] EXCEPT !.status = "SUPERSEDED"]
        ELSE versions[w]]

\* Mutant: the active version is not compared with the one of the staging.
ActivateStagedAnyway(v) == \E confirm_anomaly \in BOOLEAN :
    /\ versions[v].status = "STAGING"
    /\ confirm_anomaly \/ ~Anomaly(v)
    /\ MakeActive(v, versions[v])
    /\ source' = [active |-> v, type |-> versions[v].type,
                  watermark |-> versions[v].asOf, full |-> today]
    /\ UNCHANGED <<today, register, documents, batches, v1>>

\* activate_staged; a change of size needs the operator's confirmation.
ActivateStaged(v) == \E confirm_anomaly \in BOOLEAN :
    /\ versions[v].status = "STAGING"
    /\ versions[v].expected = source.active
    /\ confirm_anomaly \/ ~Anomaly(v)
    /\ MakeActive(v, versions[v])
    /\ source' = [active |-> v, type |-> versions[v].type,
                  watermark |-> versions[v].asOf, full |-> today]
    /\ UNCHANGED <<today, register, documents, batches, v1>>

\* The books that the first version knew, as they were then.
V1Holdings == [b \in Books |-> IF register[b].rev > 0 /\ register[b].registered = 0 THEN 1 ELSE 0]

\* activate_v1_catalog_candidate: import_full_snapshot, staged and activated at
\* once, whatever the size, of a copy of any age.
ActivateV1(v) ==
    /\ v1 = "PENDING_CONFIRMATION"
    /\ versions[v].status = "NONE"
    /\ MakeActive(v, [status |-> "STAGING", type |-> "DLS_EXCEL", holdings |-> V1Holdings,
                      asOf |-> today, expected |-> source.active, batch |-> None])
    /\ source' = [active |-> v, type |-> "DLS_EXCEL", watermark |-> today, full |-> today]
    /\ v1' = "ACTIVATED"
    /\ UNCHANGED <<today, register, documents, batches>>

\* Mutant: the window begins at the watermark.
DeltaAcceptedNoOverlap(reg, upd) ==
    /\ source.active # None
    /\ source.type = "DLS_MARC"
    /\ batches[<<reg, upd>>] # "SUCCESS"
    /\ documents[upd].through \in source.watermark .. today
    /\ today - source.full < FullEvery
    /\ documents[reg].role = "CATALOG_DELTA_REGISTRATION"
    /\ documents[upd].role = "CATALOG_DELTA_UPDATE"
    /\ documents[reg].through = documents[upd].through
    /\ documents[reg].start = source.watermark
    /\ documents[upd].start = source.watermark

\* apply_delta, up to the validated documents.  A batch that was applied is
\* answered before anything else is looked at, and nothing changes.
DeltaAccepted(reg, upd) ==
    /\ source.active # None
    /\ source.type = "DLS_MARC"
    /\ batches[<<reg, upd>>] # "SUCCESS"
    /\ documents[upd].through \in source.watermark .. today
    /\ today - source.full < FullEvery
    /\ documents[reg].role = "CATALOG_DELTA_REGISTRATION"
    /\ documents[upd].role = "CATALOG_DELTA_UPDATE"
    /\ documents[reg].through = documents[upd].through
    /\ documents[reg].start = source.watermark - Overlap
    /\ documents[upd].start = source.watermark - Overlap

\* _record_partial_delta: one of the files has errors and nothing is applied.
DeltaPartial(reg, upd) ==
    /\ DeltaAccepted(reg, upd)
    /\ ~(documents[reg].parsed /\ documents[upd].parsed)
    /\ batches' = [batches EXCEPT ![<<reg, upd>>] = "PARTIAL_FAILURE"]
    /\ UNCHANGED <<today, register, documents, versions, source, v1>>

\* put_holding for the registrations and then for the updates, which win.
Applied(old, reg, upd) ==
    [b \in Books |-> IF documents[upd].recs[b] > 0 THEN documents[upd].recs[b]
                     ELSE IF documents[reg].recs[b] > 0 THEN documents[reg].recs[b]
                     ELSE old[b]]

\* apply_delta of two files without errors: a copy of the active version with
\* their records becomes the active one.
DeltaApplied(v, reg, upd) ==
    /\ DeltaAccepted(reg, upd)
    /\ documents[reg].parsed /\ documents[upd].parsed
    /\ versions[v].status = "NONE"
    /\ MakeActive(v, [status |-> "STAGING", type |-> "DLS_MARC",
                      holdings |-> Applied(versions[source.active].holdings, reg, upd),
                      asOf |-> documents[upd].through, expected |-> None,
                      batch |-> <<reg, upd>>])
    /\ source' = [source EXCEPT !.active = v, !.watermark = documents[upd].through]
    /\ batches' = [batches EXCEPT ![<<reg, upd>>] = "SUCCESS"]
    /\ UNCHANGED <<today, register, documents, v1>>

Next ==
    \/ NextDay
    \/ \E b \in Books : Change(b)
    \/ \E d \in Documents : ExportRegistrations(d) \/ ExportUpdates(d) \/ Parse(d)
    \/ \E v \in VersionIds : ActivateStaged(v) \/ ActivateV1(v) \/ StageFull(v)
    \/ \E reg, upd \in Documents : DeltaPartial(reg, upd) \/ \E v \in VersionIds : DeltaApplied(v, reg, upd)

Spec == Init /\ [][Next]_vars

--------------------------------------------------------------------------------
\* PROPERTIES

TypeOK ==
    /\ today \in 0 .. MaxDay
    /\ register \in [Books -> [rev : Revisions, registered : 0 .. MaxDay, updated : 0 .. MaxDay]]
    /\ documents \in [Documents ->
          [role : Roles \cup {"NONE"}, start : Days, through : 0 .. MaxDay,
           recs : Holdings, parsed : BOOLEAN]]
    /\ versions \in [VersionIds ->
          [status : {"NONE", "STAGING", "ACTIVE", "SUPERSEDED"}, type : SourceTypes,
           holdings : Holdings, asOf : 0 .. MaxDay, expected : VersionIds \cup {None},
           batch : (Documents \X Documents) \cup {None}]]
    /\ source \in [active : VersionIds \cup {None}, type : SourceTypes,
                   watermark : 0 .. MaxDay, full : 0 .. MaxDay]
    /\ batches \in [Documents \X Documents -> {"NONE", "PARTIAL_FAILURE", "SUCCESS"}]
    /\ v1 \in {"NONE", "PENDING_CONFIRMATION", "ACTIVATED"}

\* The active MARC catalog holds every change that the library made before the
\* part of the watermark that the next delta asks for again: no sequence of
\* late stagings, partial batches, retries and exports that miss the rest of
\* their last day leaves a change out for good.
NothingMissed ==
    source.active # None /\ source.type = "DLS_MARC" =>
        \A b \in Books :
            LastChange(b) < source.watermark - Overlap
                => versions[source.active].holdings[b] = register[b].rev

\* No batch of deltas is applied to two versions, however often it is repeated.
NoBatchTwice ==
    \A v, w \in VersionIds :
        versions[v].batch = versions[w].batch /\ versions[v].batch # None => v = w

\* The one active version is the one that the source state is about, which is
\* what the search of the holdings and the deltas go by.
ActiveIsCurrent ==
    \A v \in VersionIds :
        /\ versions[v].status = "ACTIVE" <=> v = source.active
        /\ v = source.active => versions[v].type = source.type

\* The watermark does not go back, not even when a staged snapshot is
\* activated days after it was staged.
WatermarkStands == [][source'.watermark >= source.watermark]_vars

================================================================================
