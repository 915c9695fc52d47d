-------------------------------- MODULE RowGuards --------------------------------
(***************************************************************************)
(* How mutations are guarded (services/concurrency.py, idempotency.py,     *)
(* workflow/_common.py): row versions, edit leases and idempotency keys,   *)
(* with the candidate mutations that use all of them (workflow/candidates, *)
(* approvals) and the import of procurement files, which is keyed by       *)
(* itself.                                                                 *)
(*                                                                         *)
(* A mutation is one BEGIN IMMEDIATE transaction: the reservation of its   *)
(* key, its guards, its writes and its stored answer commit together or,   *)
(* when it is refused, not at all.  Requests and answers may be lost, and  *)
(* a request may come again at any time.                                   *)
(***************************************************************************)
EXTENDS Naturals, FiniteSets

CONSTANTS
    Users,      \* operators
    Candidates, \* what candidate decisions are made about
    Saves,      \* BOUND: requests that operators write
    Keys,       \* idempotency keys that clients choose
    Imports,    \* procurement files
    MaxScores,  \* BOUND: scorings of a candidate
    None        \* no lease holder, request or answer

Kinds    == {"autosave", "bulk", "adjust"}
Statuses == {"ANALYZING", "REVIEW", "APPROVAL_PENDING", "APPROVED"}

\* A row of candidate_decisions and its content, a request about some of them,
\* and an entry of idempotency_keys.
Content == [score : Nat, by : Saves \cup {None}]
Row     == [id : Nat, version : Nat, score : Nat, by : Saves \cup {None}]
Request(items) == [user : Users, kind : Kinds, key : Keys, seen : [items -> Row]]
Entry   == [save : Saves, changed : SUBSET Candidates]

ASSUME GuardsAssumption ==
    /\ MaxScores \in Nat
    /\ IsFiniteSet(Candidates)
    /\ None \notin Users \cup Saves \cup Entry
    /\ \A items \in SUBSET Candidates :
          None # items /\ None \notin [items -> Content] \cup Request(items)

VARIABLES
    rows,     \* candidate_decisions; score counts scorings, by is the save that
              \* the other values are from (both are read by properties only)
    lock,     \* edit_locks: who holds the unexpired lease of a candidate
    status,   \* of the workspace
    request,  \* what the client sends for a save
    stored,   \* idempotency_keys that are completed: the request and its effect
    told,     \* the answer a client got: the candidates that were changed
    ready,    \* procurement files that are parsed without an error
    imported, \* procurement_source_imports.status = IMPORTED
    made      \* quotes and deliveries made from a file

rowVars    == <<rows, lock, status>>
saveVars   == <<request, stored, told>>
importVars == <<ready, imported, made>>
guardVars  == <<rowVars, saveVars, importVars>>

--------------------------------------------------------------------------------
GuardsInit ==
    /\ rows = [c \in Candidates |-> [id |-> 1, version |-> 1, score |-> 0, by |-> None]]
    /\ lock = [c \in Candidates |-> None]
    /\ status = "ANALYZING"
    /\ request = [s \in Saves |-> None]
    /\ stored = [scope \in Users \X Kinds \X Keys |-> None]
    /\ told = [s \in Saves |-> None]
    /\ ready = [i \in Imports |-> FALSE]
    /\ imported = [i \in Imports |-> FALSE]
    /\ made = [i \in Imports |-> 0]

--------------------------------------------------------------------------------
\* What the rest of the program does meanwhile.

\* A comparison that runs again scores the candidates of a document.
Rescore(C) ==
    /\ status = "ANALYZING"
    /\ \A c \in C : rows[c].score < MaxScores
    /\ rows' = [c \in Candidates |->
          IF c \in C THEN [rows[c] EXCEPT !.version = @ + 1, !.score = @ + 1, !.by = None]
          ELSE rows[c]]
    /\ UNCHANGED <<lock, status, saveVars, importVars>>

\* Mutant: the new rows take the ids of the deleted ones.
RecreateReusesId(C) ==
    /\ status = "ANALYZING"
    /\ \A c \in C : rows[c].score < MaxScores
    /\ rows' = [c \in Candidates |->
          IF c \in C THEN [id |-> rows[c].id, version |-> 1,
                           score |-> rows[c].score + 1, by |-> None]
          ELSE rows[c]]
    /\ lock' = [c \in Candidates |-> IF c \in C THEN None ELSE lock[c]]
    /\ UNCHANGED <<status, saveVars, importVars>>

\* The recovery of a comparison deletes candidates and their leases; the next
\* comparison makes new ones: new ids, and versions that start again.
Recreate(C) ==
    /\ status = "ANALYZING"
    /\ \A c \in C : rows[c].score < MaxScores
    /\ rows' = [c \in Candidates |->
          IF c \in C THEN [id |-> rows[c].id + 1, version |-> 1,
                           score |-> rows[c].score + 1, by |-> None]
          ELSE rows[c]]
    /\ lock' = [c \in Candidates |-> IF c \in C THEN None ELSE lock[c]]
    /\ UNCHANGED <<status, saveVars, importVars>>

\* The workspace moves on; CHANGES_REQUESTED counts as REVIEW, and what follows
\* the approval as APPROVED.
MoveOn ==
    /\ status' \in {new \in Statuses :
          <<status, new>> \in {<<"ANALYZING", "REVIEW">>, <<"REVIEW", "APPROVAL_PENDING">>,
                              <<"APPROVAL_PENDING", "REVIEW">>,
                              <<"APPROVAL_PENDING", "APPROVED">>}}
    /\ UNCHANGED <<rows, lock, saveVars, importVars>>

\* A file is parsed, mapped, repaired or parsed again, also after its import.
SourceChanges(i) ==
    /\ ready' = [ready EXCEPT ![i] = ~ready[i]]
    /\ UNCHANGED <<rowVars, saveVars, imported, made>>

--------------------------------------------------------------------------------
\* Leases.

\* acquire_edit_lock: the own lease is renewed, another's must have expired.
AcquireLock(u, c) ==
    /\ lock[c] \in {None, u}
    /\ lock' = [lock EXCEPT ![c] = u]
    /\ UNCHANGED <<rows, status, saveVars, importVars>>

\* EDIT_LOCK_TTL has passed since the lease was taken or renewed.
LeaseExpires(c) ==
    /\ lock[c] # None
    /\ lock' = [lock EXCEPT ![c] = None]
    /\ UNCHANGED <<rows, status, saveVars, importVars>>

--------------------------------------------------------------------------------
\* Saves.

Scope(s) == <<request[s].user, request[s].kind, request[s].key>>

\* An operator reads the candidates and, whenever that is, sends what they make
\* of them; nothing forces a client to take a key of its own.
Write(s, u, kind, key, items) ==
    /\ request[s] = None
    /\ kind # "bulk" => Cardinality(items) = 1
    /\ request' = [request EXCEPT ![s] =
          [user |-> u, kind |-> kind, key |-> key, seen |-> [c \in items |-> rows[c]]]]
    /\ UNCHANGED <<rowVars, stored, told, importVars>>

\* Mutant: a version is not compared.
IsCurrentRow(s, c) == rows[c].id = request[s].seen[c].id

\* update_with_version: the row is there and has the version that was read.
IsCurrent(s, c) ==
    /\ rows[c].id = request[s].seen[c].id
    /\ rows[c].version = request[s].seen[c].version

\* reserve_idempotency_key: the key is new.  (It is refused for another content.)
IsNew(s) == request[s] # None /\ stored[Scope(s)] = None

Items(s) == DOMAIN request[s].seen

\* The writes of a mutation, its stored answer, and the answer, which may be lost.
Apply(s, C) ==
    /\ rows' = [c \in Candidates |->
          IF c \in C THEN [rows[c] EXCEPT !.version = @ + 1, !.by = s] ELSE rows[c]]
    /\ stored' = [stored EXCEPT ![Scope(s)] = [save |-> s, changed |-> C]]
    /\ told' \in {told, [told EXCEPT ![s] = C]}
    /\ UNCHANGED <<lock, request, importVars>>

\* The same content under the same key: the stored answer, whatever holds by now.
Replay(s) ==
    /\ request[s] # None /\ stored[Scope(s)] # None
    /\ stored[Scope(s)].save = s
    /\ told' = [told EXCEPT ![s] = stored[Scope(s)].changed]
    /\ UNCHANGED <<rowVars, request, stored, importVars>>

\* autosave: refused as a whole.
Autosave(s) ==
    /\ IsNew(s) /\ request[s].kind = "autosave"
    /\ status = "REVIEW"
    /\ \A c \in Items(s) : lock[c] = request[s].user /\ IsCurrent(s, c)
    /\ Apply(s, Items(s))
    /\ UNCHANGED status

\* bulk_decide: a candidate that is gone, locked or changed is skipped, and the
\* answer that says so is the stored one, also when nothing was changed.
BulkDecide(s) ==
    /\ IsNew(s) /\ request[s].kind = "bulk"
    /\ status = "REVIEW"
    /\ Apply(s, {c \in Items(s) : lock[c] = request[s].user /\ IsCurrent(s, c)})
    /\ UNCHANGED status

\* adjust_approved_candidate: without a lease; it may have to be approved again.
Adjust(s) ==
    /\ IsNew(s) /\ request[s].kind = "adjust"
    /\ status = "APPROVED"
    /\ \A c \in Items(s) : IsCurrent(s, c)
    /\ status' \in {"APPROVED", "APPROVAL_PENDING"}
    /\ Apply(s, Items(s))

--------------------------------------------------------------------------------
\* Procurement files.

\* compose: the import itself is the key, whoever asks and under whichever key.
\* A file that is imported is answered from its row.
Compose(i) ==
    /\ ~imported[i]
    /\ ready[i]
    /\ status = "APPROVED"
    /\ imported' = [imported EXCEPT ![i] = TRUE]
    /\ made' = [made EXCEPT ![i] = @ + 1]
    /\ UNCHANGED <<rowVars, saveVars, ready>>

--------------------------------------------------------------------------------
GuardsNext ==
    \/ \E C \in SUBSET Candidates \ {{}} : Rescore(C) \/ Recreate(C)
    \/ MoveOn
    \/ \E c \in Candidates : LeaseExpires(c) \/ \E u \in Users : AcquireLock(u, c)
    \/ \E s \in Saves :
          \/ \E u \in Users, kind \in Kinds, key \in Keys, items \in SUBSET Candidates \ {{}} :
                Write(s, u, kind, key, items)
          \/ Replay(s) \/ Autosave(s) \/ BulkDecide(s) \/ Adjust(s)
    \/ \E i \in Imports : SourceChanges(i) \/ Compose(i)

GuardsSpec == GuardsInit /\ [][GuardsNext]_guardVars

--------------------------------------------------------------------------------
\* PROPERTIES

GuardsTypeOK ==
    /\ rows \in [Candidates -> Row]
    /\ lock \in [Candidates -> Users \cup {None}]
    /\ status \in Statuses
    /\ request = [s \in Saves |-> request[s]]
    /\ \A s \in Saves : request[s] = None \/ \E items \in SUBSET Candidates : request[s] \in Request(items)
    /\ stored \in [Users \X Kinds \X Keys -> Entry \cup {None}]
    /\ told \in [Saves -> (SUBSET Candidates) \cup {None}]
    /\ ready \in [Imports -> BOOLEAN]
    /\ imported \in [Imports -> BOOLEAN]
    /\ made \in [Imports -> Nat]

\* What was done for a save, as the stored answers tell.
Effect(s) ==
    IF request[s] # None /\ stored[Scope(s)] # None /\ stored[Scope(s)].save = s
    THEN stored[Scope(s)].changed ELSE None

Values(row) == [score |-> row.score, by |-> row.by]

\* Comparing a row's identity and version is as good as comparing what is in it:
\* a row that has both as an operator read them holds what was read, whatever was
\* saved, scored or made anew in between (update_with_version).
VersionTellsContent ==
    \A s \in Saves : request[s] # None =>
        \A c \in Items(s) : IsCurrent(s, c) => Values(rows[c]) = Values(request[s].seen[c])

Once == INSTANCE OnceSaves WITH
    current <- [c \in Candidates |-> Values(rows[c])],
    base    <- [s \in Saves |-> IF request[s] = None THEN None
                                ELSE [c \in Items(s) |-> Values(request[s].seen[c])]],
    effect  <- [s \in Saves |-> Effect(s)]

\* A save replaces only what its operator had read, whatever leases expired,
\* other operators saved or comparisons scored and made anew in between; however
\* often it is sent it takes effect once, and each answer tells what it did; a
\* file becomes one quote or delivery, whoever imports it under whichever keys.
ImplementsOnce == Once!Spec

--------------------------------------------------------------------------------
\* A row only moves on from what an operator read: to a later version, or to a
\* row made later under another id.
Ahead(old, new) ==
    /\ old.id <= new.id
    /\ old.id = new.id => old.version <= new.version
    /\ old.id = new.id /\ old.version = new.version => Values(new) = Values(old)

\* What a request was made from is in the past of its rows.
SeenIsPast ==
    \A s \in Saves : request[s] # None => \A c \in Items(s) : Ahead(request[s].seen[c], rows[c])

\* A stored answer belongs to the save that reserved the key, and names
\* candidates of that save.
StoredIsOwned ==
    \A scope \in Users \X Kinds \X Keys : stored[scope] # None =>
        LET s == stored[scope].save
        IN  request[s] # None /\ scope = Scope(s) /\ stored[scope].changed \subseteq Items(s)

\* A file that is imported was made into one quote or delivery.
MadeOnce == \A i \in Imports : made[i] = IF imported[i] THEN 1 ELSE 0

\* The inductive invariant: an id and a version are given to one content only because
\* rows move on in one direction.
GuardsInv == GuardsTypeOK /\ SeenIsPast /\ StoredIsOwned /\ MadeOnce

================================================================================
