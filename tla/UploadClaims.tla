------------------------------ MODULE UploadClaims ------------------------------
(***************************************************************************)
(* Uploads under an idempotency key (services/upload_idempotency.py,       *)
(* ingestion/file_store.py and upload_sources of api/routes/sources.py).   *)
(*                                                                         *)
(* A request stages its files privately, takes the claim of its key, and   *)
(* then publishes the files and writes the documents in one transaction.   *)
(* The database is transactional, the directory of published files is not: *)
(* a request that fails removes what it published, if it still may.        *)
(*                                                                         *)
(* A body stands for everything the fingerprint is taken of: files, role,  *)
(* supplier, dates.  Files[b] are the contents of its files; the ledger    *)
(* rows of earlier releases identify a body by its files alone.  Rejected  *)
(* files are left out: they are never published.                           *)
(***************************************************************************)
EXTENDS Naturals, FiniteSets

CONSTANTS
    Requests,   \* HTTP requests, each run by one thread
    Keys,       \* idempotency keys of one user and route
    Bodies,     \* request bodies
    Contents,   \* contents of files
    Files,      \* Files[b]: the contents a body uploads
    Limits,     \* upload_max_files, as it may be set at a start of the server
    MaxCrashes, \* BOUND: crashes of the server
    Legacy,     \* the answer of an upload of an earlier release
    None        \* no body, owner or answer

ASSUME UploadAssumption ==
    /\ Files \in [Bodies -> SUBSET Contents]
    /\ Limits \subseteq Nat
    /\ Limits # {}
    /\ MaxCrashes \in Nat
    /\ None \notin Bodies \cup Requests \cup {Legacy}
    /\ Legacy \notin Requests

VARIABLES
    claim,    \* upload_idempotency_claims by key
    ledger,   \* idempotency_keys by key
    rows,     \* contents with a row in source_files
    docs,     \* docs[k]: the executions whose documents and jobs are committed
    disk,     \* contents published in the sources directory
    writer,   \* the request that holds the database's write lock
    at,       \* where a request is
    key, body,\* what it was sent with
    generation, \* of the claim it acquired
    linked,   \* the files it has published or found published
    fresh,    \* newly_published: those that it created
    reply,    \* the answer it gave
    limit,    \* upload_max_files
    crashes

dbVars  == <<claim, ledger, rows, docs>>
reqVars == <<at, key, body, generation, linked, fresh, reply>>
sysVars == <<limit, crashes>>
uploadVars == <<dbVars, disk, writer, reqVars, sysVars>>

--------------------------------------------------------------------------------
ClaimStates == {"NONE", "IN_PROGRESS", "COMPLETED"}

NoClaim == [state |-> "NONE", body |-> None, gen |-> 0, owner |-> None, live |-> FALSE, answer |-> None]
NoEntry == [done |-> FALSE, legacy |-> FALSE, body |-> None, answer |-> None]

\* _replay_or_conflict: a key is bound to the body of its claim.
BoundTo(r) == claim[key[r]].body = body[r]

\* The claim is the one that request r acquired (begin_upload_mutation,
\* complete_upload_claim, cleanup_and_release_upload_claim).
Mine(r) ==
    /\ claim[key[r]].state = "IN_PROGRESS"
    /\ claim[key[r]].gen = generation[r]
    /\ claim[key[r]].owner = r
Holds(r) == Mine(r) /\ BoundTo(r)

\* _existing_upload_idempotency_response: the ledger entry is of this body.  An
\* entry of an earlier release is known by its files, unless the claim is bound
\* to another body.
EntryMatches(r) ==
    LET entry == ledger[key[r]]
        old   == claim[key[r]]
    IN  IF entry.legacy
        THEN Files[entry.body] = Files[body[r]] /\ (old.state = "NONE" \/ old.body = body[r])
        ELSE entry.body = body[r]

\* upload_scope_replay_allowance: the key has an answer of this shape, so the
\* request is read whatever the limits are now.
ReplayShape(k, b) ==
    \/ claim[k].state = "COMPLETED" /\ Files[claim[k].body] = Files[b]
    \/ claim[k].state # "COMPLETED" /\ ledger[k].done /\ Files[ledger[k].body] = Files[b]
Admits(k, b) == Cardinality(Files[b]) <= limit \/ ReplayShape(k, b)

Reach(r, label) == at' = [at EXCEPT ![r] = label]

--------------------------------------------------------------------------------
\* A database of an earlier release may have answers without claims.
UploadInit ==
    /\ claim = [k \in Keys |-> NoClaim]
    /\ ledger \in [Keys -> {NoEntry} \cup
          {[done |-> TRUE, legacy |-> TRUE, body |-> b, answer |-> Legacy] : b \in Bodies}]
    /\ rows = UNION {Files[ledger[k].body] : k \in {l \in Keys : ledger[l].done}}
    /\ docs = [k \in Keys |-> IF ledger[k].done THEN {Legacy} ELSE {}]
    /\ disk = rows
    /\ writer = None
    /\ at = [r \in Requests |-> "idle"]
    /\ key \in [Requests -> Keys]
    /\ body \in [Requests -> Bodies]
    /\ generation = [r \in Requests |-> 0]
    /\ linked = [r \in Requests |-> {}]
    /\ fresh = [r \in Requests |-> {}]
    /\ reply = [r \in Requests |-> None]
    /\ limit \in Limits
    /\ crashes = 0

\* A request arrives and its files are staged (upload_sources, stage).
Send(r) ==
    /\ at[r] = "idle"
    /\ Reach(r, IF Admits(key[r], body[r]) THEN "staged" ELSE "refused")
    /\ UNCHANGED <<dbVars, disk, writer, key, body, generation, linked, fresh, reply, sysVars>>

\* validate_existing_upload_idempotency_key.
Validate(r) ==
    /\ at[r] = "staged"
    /\ Reach(r, IF ledger[key[r]].done /\ ~EntryMatches(r) THEN "refused" ELSE "validated")
    /\ UNCHANGED <<dbVars, disk, writer, key, body, generation, linked, fresh, reply, sysVars>>

\* acquire_upload_claim: the key is new.
AcquireNew(r) ==
    /\ at[r] = "validated"
    /\ writer = None
    /\ claim[key[r]].state = "NONE"
    /\ claim' = [claim EXCEPT ![key[r]] =
          [state |-> "IN_PROGRESS", body |-> body[r], gen |-> 1, owner |-> r,
           live |-> TRUE, answer |-> None]]
    /\ generation' = [generation EXCEPT ![r] = 1]
    /\ Reach(r, "claimed")
    /\ UNCHANGED <<ledger, rows, docs, disk, writer, key, body, linked, fresh, reply, sysVars>>

\* acquire_upload_claim: the lease ran out or was released; whether its holder
\* is still at work is not known.
AcquireTake(r) ==
    /\ at[r] = "validated"
    /\ writer = None
    /\ claim[key[r]].state = "IN_PROGRESS"
    /\ BoundTo(r)
    /\ ~claim[key[r]].live
    /\ claim' = [claim EXCEPT ![key[r]] =
          [state |-> "IN_PROGRESS", body |-> claim[key[r]].body, gen |-> claim[key[r]].gen + 1,
           owner |-> r, live |-> TRUE, answer |-> None]]
    /\ generation' = [generation EXCEPT ![r] = claim[key[r]].gen + 1]
    /\ Reach(r, "claimed")
    /\ UNCHANGED <<ledger, rows, docs, disk, writer, key, body, linked, fresh, reply, sysVars>>

\* acquire_upload_claim: the key has its answer.
AcquireReplay(r) ==
    /\ at[r] = "validated"
    /\ claim[key[r]].state = "COMPLETED"
    /\ BoundTo(r)
    /\ reply' = [reply EXCEPT ![r] = claim[key[r]].answer]
    /\ Reach(r, "answered")
    /\ UNCHANGED <<dbVars, disk, writer, key, body, generation, linked, fresh, sysVars>>

\* acquire_upload_claim: the key is bound to another body, or the wait for the
\* holder of the lease is over (_retry_or_raise).
AcquireRefused(r) ==
    /\ at[r] = "validated"
    /\ claim[key[r]].state # "NONE"
    /\ ~BoundTo(r) \/ (claim[key[r]].state = "IN_PROGRESS" /\ claim[key[r]].live)
    /\ Reach(r, "refused")
    /\ UNCHANGED <<dbVars, disk, writer, key, body, generation, linked, fresh, reply, sysVars>>

\* begin_upload_mutation and reserve_upload_idempotency_key for a new entry.
Begin(r) ==
    /\ at[r] = "claimed"
    /\ writer = None
    /\ Holds(r)
    /\ ~ledger[key[r]].done
    /\ writer' = r
    /\ Reach(r, "mutating")
    /\ UNCHANGED <<dbVars, disk, key, body, generation, linked, fresh, reply, sysVars>>

\* The same when the ledger has the answer already.
BeginReplay(r) ==
    /\ at[r] = "claimed"
    /\ writer = None
    /\ Holds(r)
    /\ ledger[key[r]].done
    /\ EntryMatches(r)
    /\ claim' = [claim EXCEPT ![key[r]].state = "COMPLETED", ![key[r]].owner = None,
                              ![key[r]].live = FALSE, ![key[r]].answer = ledger[key[r]].answer]
    /\ reply' = [reply EXCEPT ![r] = ledger[key[r]].answer]
    /\ Reach(r, "answered")
    /\ UNCHANGED <<ledger, rows, docs, disk, writer, key, body, generation, linked, fresh, sysVars>>

\* ImmutableFileStore.publish: an exclusive link, which no rollback undoes.
Publish(r, c) ==
    /\ writer = r
    /\ c \in Files[body[r]] \ linked[r]
    /\ linked' = [linked EXCEPT ![r] = @ \cup {c}]
    /\ fresh' = [fresh EXCEPT ![r] = @ \cup ({c} \ disk)]
    /\ disk' = disk \cup {c}
    /\ UNCHANGED <<dbVars, writer, at, key, body, generation, reply, sysVars>>

\* Mutant: the documents are committed before the answer is written.
CommitUnanswered(r) ==
    /\ writer = r
    /\ linked[r] = Files[body[r]]
    /\ Holds(r)
    /\ rows' = rows \cup linked[r]
    /\ docs' = [docs EXCEPT ![key[r]] = @ \cup {r}]
    /\ writer' = None
    /\ Reach(r, "cleaning")
    /\ UNCHANGED <<claim, ledger, disk, key, body, generation, linked, fresh, reply, sysVars>>

\* The rows, documents and the job are committed together with the answer in
\* the ledger and in the claim (complete_upload_claim).
Commit(r) ==
    /\ writer = r
    /\ linked[r] = Files[body[r]]
    /\ Holds(r)
    /\ rows' = rows \cup linked[r]
    /\ docs' = [docs EXCEPT ![key[r]] = @ \cup {r}]
    /\ ledger' = [ledger EXCEPT ![key[r]] =
          [done |-> TRUE, legacy |-> FALSE, body |-> body[r], answer |-> r]]
    /\ claim' = [claim EXCEPT ![key[r]].state = "COMPLETED", ![key[r]].owner = None,
                              ![key[r]].live = FALSE, ![key[r]].answer = r]
    /\ reply' = [reply EXCEPT ![r] = r]
    /\ writer' = None
    /\ Reach(r, "answered")
    /\ UNCHANGED <<disk, key, body, generation, linked, fresh, sysVars>>

\* Any exception after the claim was acquired: lost claim, a deadline, a rule of
\* the mutation.  The transaction is rolled back, the files stay.
Fail(r) ==
    /\ at[r] \in {"claimed", "mutating"}
    /\ writer' = IF writer = r THEN None ELSE writer
    /\ Reach(r, "cleaning")
    /\ UNCHANGED <<dbVars, disk, key, body, generation, linked, fresh, reply, sysVars>>

\* Mutant: everything it published is removed.
CleanupAll(r) ==
    /\ at[r] = "cleaning"
    /\ writer = None
    /\ Mine(r)
    /\ disk' = disk \ fresh[r]
    /\ claim' = [claim EXCEPT ![key[r]].owner = None, ![key[r]].live = FALSE]
    /\ Reach(r, "refused")
    /\ UNCHANGED <<ledger, rows, docs, writer, key, body, generation, linked, fresh, reply, sysVars>>

\* cleanup_and_release_upload_claim: what it published and nobody refers to is
\* removed, and the lease is given up.
Cleanup(r) ==
    /\ at[r] = "cleaning"
    /\ writer = None
    /\ Mine(r)
    /\ disk' = disk \ (fresh[r] \ rows)
    /\ claim' = [claim EXCEPT ![key[r]].owner = None, ![key[r]].live = FALSE]
    /\ Reach(r, "refused")
    /\ UNCHANGED <<ledger, rows, docs, writer, key, body, generation, linked, fresh, reply, sysVars>>

\* The same when the claim is lost, when the deadline passes on the way or the
\* lock is not free in time: the lease stays, and some of the files may be gone.
CleanupGivesUp(r) ==
    /\ at[r] = "cleaning"
    /\ \E removed \in SUBSET (fresh[r] \ rows) :
          /\ removed # {} => writer = None /\ Mine(r)
          /\ disk' = disk \ removed
    /\ Reach(r, "refused")
    /\ UNCHANGED <<dbVars, writer, key, body, generation, linked, fresh, reply, sysVars>>

\* The lease of a claim runs out (_active_lease), while its holder may go on.
LeaseExpires(k) ==
    /\ claim[k].live
    /\ claim' = [claim EXCEPT ![k].live = FALSE]
    /\ UNCHANGED <<ledger, rows, docs, disk, writer, reqVars, sysVars>>

\* The server dies and starts again, perhaps with other limits.
ServerCrash ==
    /\ crashes < MaxCrashes
    /\ crashes' = crashes + 1
    /\ at' = [r \in Requests |-> IF at[r] \in {"idle", "answered", "refused"} THEN at[r] ELSE "gone"]
    /\ writer' = None
    /\ limit' \in Limits
    /\ UNCHANGED <<dbVars, disk, key, body, generation, linked, fresh, reply>>

RequestStep(r) ==
    \/ Send(r) \/ Validate(r)
    \/ AcquireNew(r) \/ AcquireTake(r) \/ AcquireReplay(r) \/ AcquireRefused(r)
    \/ Begin(r) \/ BeginReplay(r)
    \/ \E c \in Contents : Publish(r, c)
    \/ Commit(r) \/ Fail(r) \/ Cleanup(r) \/ CleanupGivesUp(r)

UploadNext ==
    \/ \E r \in Requests : RequestStep(r)
    \/ \E k \in Keys : LeaseExpires(k)
    \/ ServerCrash

UploadSpec == UploadInit /\ [][UploadNext]_uploadVars

--------------------------------------------------------------------------------
Labels == {"idle", "staged", "validated", "claimed", "mutating", "cleaning",
           "answered", "refused", "gone"}

Claims  == [state : ClaimStates, body : Bodies \cup {None}, gen : Nat,
            owner : Requests \cup {None}, live : BOOLEAN, answer : Requests \cup {Legacy, None}]
Entries == [done : BOOLEAN, legacy : BOOLEAN, body : Bodies \cup {None},
            answer : Requests \cup {Legacy, None}]

UploadTypeOK ==
    /\ claim \in [Keys -> Claims]
    /\ ledger \in [Keys -> Entries]
    /\ rows \subseteq Contents
    /\ docs \in [Keys -> SUBSET (Requests \cup {Legacy})]
    /\ disk \subseteq Contents
    /\ writer \in Requests \cup {None}
    /\ at \in [Requests -> Labels]
    /\ key \in [Requests -> Keys]
    /\ body \in [Requests -> Bodies]
    /\ generation \in [Requests -> Nat]
    /\ linked \in [Requests -> SUBSET Contents]
    /\ fresh \in [Requests -> SUBSET Contents]
    /\ reply \in [Requests -> Requests \cup {Legacy, None}]
    /\ limit \in Limits
    /\ crashes \in Nat

\* Every row of source_files has its file: the removal of what a failed request
\* published never takes a file that another request refers to, however crashes,
\* lost claims and uploads of the same content under other keys interleave
\* (publish, cleanup_and_release_upload_claim).
RowsHaveFiles == rows \subseteq disk

\* The answers that clients were given.
Told == {<<key[r], body[r], reply[r]>> : r \in {q \in Requests : at[q] = "answered"}}

Once == INSTANCE OnceUpload WITH
            Answers <- Requests \cup {Legacy},
            bound <- [k \in Keys |-> claim[k].body],
            took <- docs,
            told <- Told

\* An upload takes effect at most once under its key and only for the body the
\* key is bound to, and every client that is answered is told what took effect,
\* also across expired leases, stale holders, crashes and answers of earlier
\* releases.
ImplementsOnce == Once!Spec

--------------------------------------------------------------------------------
\* The writer is the one request that is mutating; what it has linked is on disk, and
\* its key has no answer yet.
Writing ==
    \A r \in Requests :
        /\ writer = r <=> at[r] = "mutating"
        /\ writer = r => linked[r] \subseteq disk /\ ~ledger[key[r]].done

\* Nothing is published before the mutation begins.
Unpublished ==
    \A r \in Requests : at[r] \in {"idle", "staged", "validated", "claimed"} => linked[r] = {}

\* A key whose claim is completed has an answer, and a key has at most the one of its
\* ledger entry.
Answered ==
    \A k \in Keys :
        /\ claim[k].state = "NONE" <=> claim[k].body = None
        /\ claim[k].state = "COMPLETED" => claim[k].answer \in docs[k]
        /\ docs[k] = IF ledger[k].done THEN {ledger[k].answer} ELSE {}

\* The inductive invariant: rows have files because a writer's are on disk and a
\* cleanup only removes what no row refers to.
UploadInv == UploadTypeOK /\ Writing /\ Unpublished /\ Answered /\ RowsHaveFiles
================================================================================
