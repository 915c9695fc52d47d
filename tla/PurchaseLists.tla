------------------------------ MODULE PurchaseLists ------------------------------
(***************************************************************************)
(* Purchase lists of the desktop program (simple/store.py, batch.py and    *)
(* the routes of app.py): books, imports of recommendation files, bulk     *)
(* changes, their undo, and the backup and restore of everything.          *)
(*                                                                         *)
(* A request is one BEGIN IMMEDIATE transaction and one action; only an    *)
(* upload and a restore also write files, outside of their transaction.    *)
(* The program may end between any two steps.  A book is what identifies   *)
(* it (an ISBN or the exact bibliography), its price, its recommendations  *)
(* and three marks.                                                        *)
(***************************************************************************)
EXTENDS Naturals, FiniteSets, Functions

CONSTANTS
    Lists,       \* purchase lists
    Books,       \* BOUND: ids of books
    Rows,        \* rows of recommendation files: identity, price and origin
    Operations,  \* BOUND: ids of operations that can be undone
    RequestIds,  \* request ids that clients give their imports
    Imports,     \* BOUND: ids of uploaded files
    Paths,       \* BOUND: names of files on disk
    Restorers,   \* requests to restore a backup
    MaxWrites,   \* BOUND: changes of books
    MaxBackups,  \* BOUND: backups that are kept
    None         \* no list, file, path or request id

ASSUME ListsAssumption ==
    /\ Lists # {}
    /\ MaxWrites \in Nat /\ MaxBackups \in Nat
    /\ None \notin Lists \cup Operations \cup RequestIds \cup Paths
    /\ \A row \in Rows : DOMAIN row = {"work", "price", "origin"}

VARIABLES
    lists,    \* a list is ACTIVE, DELETED or there is NONE
    books,    \* rows of the table books
    revision, \* book_revisions: counts every write to a book's row
    ops,      \* batch_operations
    imports,  \* the file of an imported document
    files,    \* files on disk
    saving,   \* an upload's file that has no row yet
    backups,  \* backups the user has
    restores  \* a restore under way

bookVars == <<books, revision, ops>>
fileVars == <<imports, files, saving, backups, restores>>
vars     == <<lists, bookVars, fileVars>>

--------------------------------------------------------------------------------
NoBook      == [list |-> None, work |-> None, price |-> 0, origins |-> {},
                selected |-> FALSE, review |-> FALSE, deleted |-> FALSE]
NoOperation == [list |-> None, request |-> None, touched |-> {},
                before |-> [b \in Books |-> NoBook], after |-> [b \in Books |-> 0],
                left |-> [b \in Books |-> NoBook], undone |-> FALSE]
Idle        == [pc |-> "idle", backup |-> None, staged |-> [i \in Imports |-> None]]

Active(l)  == lists[l] = "ACTIVE"
Row(b)     == books[b].list # None
Shown(l)   == {b \in Books : books[b].list = l /\ ~books[b].deleted}
\* identifier(): an id that never was a book's.
FreshBook(b) == ~Row(b) /\ revision[b] = 0
FreshPath(p) == files[p] = "UNUSED"

Writes == FoldFunction(LAMBDA n, sum : n + sum, 0, revision)

\* Books are written in one transaction; the triggers count it.
Write(B, new) ==
    /\ Writes + Cardinality(B) <= MaxWrites
    /\ books' = [b \in Books |-> IF b \in B THEN new[b] ELSE books[b]]
    /\ revision' = [b \in Books |-> IF b \in B THEN revision[b] + 1 ELSE revision[b]]

Init ==
    /\ \E l \in Lists : lists = [m \in Lists |-> IF m = l THEN "ACTIVE" ELSE "NONE"]
    /\ books = [b \in Books |-> NoBook]
    /\ revision = [b \in Books |-> 0]
    /\ ops = [o \in Operations |-> NoOperation]
    /\ imports = [i \in Imports |-> None]
    /\ files = [p \in Paths |-> "UNUSED"]
    /\ saving = [i \in Imports |-> None]
    /\ backups = {}
    /\ restores = [r \in Restorers |-> Idle]

--------------------------------------------------------------------------------
\* Lists.

CreateList(l) ==
    /\ lists[l] = "NONE"
    /\ lists' = [lists EXCEPT ![l] = "ACTIVE"]
    /\ UNCHANGED <<bookVars, fileVars>>

\* The last list that is in use cannot be deleted.
DeleteList(l) ==
    /\ Active(l)
    /\ \E m \in Lists \ {l} : Active(m)
    /\ lists' = [lists EXCEPT ![l] = "DELETED"]
    /\ UNCHANGED <<bookVars, fileVars>>

RestoreList(l) ==
    /\ lists[l] = "DELETED"
    /\ lists' = [lists EXCEPT ![l] = "ACTIVE"]
    /\ UNCHANGED <<bookVars, fileVars>>

--------------------------------------------------------------------------------
\* Single books.

Added(l, row, origins) ==
    [list |-> l, work |-> row.work, price |-> row.price, origins |-> origins,
     selected |-> TRUE, review |-> FALSE, deleted |-> FALSE]

\* add_books: rows entered by hand have no origin.
AddBook(l, b) == \E row \in Rows :
    /\ Active(l)
    /\ FreshBook(b)
    /\ Write({b}, [c \in {b} |-> Added(l, row, {})])
    /\ UNCHANGED <<lists, ops, fileVars>>

\* update_book: the librarian edits price and marks.
UpdateBook(l, b) == \E row \in Rows, mark \in BOOLEAN :
    /\ Active(l)
    /\ b \in Shown(l)
    /\ \/ Write({b}, [c \in {b} |-> [books[b] EXCEPT !.price = row.price]])
       \/ Write({b}, [c \in {b} |-> [books[b] EXCEPT !.selected = mark]])
    /\ UNCHANGED <<lists, ops, fileVars>>

\* delete_book: also of a book that is deleted already.
DeleteBook(l, b) ==
    /\ Active(l)
    /\ books[b].list = l
    /\ Write({b}, [c \in {b} |-> [books[b] EXCEPT !.deleted = TRUE]])
    /\ UNCHANGED <<lists, ops, fileVars>>

RestoreBook(l, b) ==
    /\ Active(l)
    /\ books[b].list = l
    /\ Write({b}, [c \in {b} |-> [books[b] EXCEPT !.deleted = FALSE]])
    /\ UNCHANGED <<lists, ops, fileVars>>

--------------------------------------------------------------------------------
\* Operations on many books, and their undo.

\* _save_operation: the books are written and what they were is kept, with the
\* revision that the writing gave each of them.  (left: what they became; it is
\* read by properties only.)
SaveOperation(o, l, request, B, new) ==
    /\ Write(B, new)
    /\ ops' = [ops EXCEPT ![o] =
          [list |-> l, request |-> request, touched |-> B,
           before |-> [b \in Books |-> IF b \in B THEN books[b] ELSE NoBook],
           after  |-> [b \in Books |-> IF b \in B THEN revision'[b] ELSE 0],
           left   |-> [b \in Books |-> IF b \in B THEN books'[b] ELSE NoBook],
           undone |-> FALSE]]

\* What an import does with its rows: recommended[b] are those that book b takes
\* over or is made of.  A row goes to a book of the same identity and price;
\* without one it becomes a book of its own.
Agree(x, y) == x.work = y.work /\ x.price = y.price

Distributes(l, S, deduplicate, recommended) ==
    /\ UNION {recommended[b] : b \in Books} = S
    /\ \A b, c \in Books : b # c => recommended[b] \cap recommended[c] = {}
    /\ \A b \in Books : recommended[b] # {} => FreshBook(b) \/ (deduplicate /\ b \in Shown(l))
    /\ \A b \in Books : \A row \in recommended[b] :
          /\ b \in Shown(l) => Agree(row, books[b])
          /\ \A other \in recommended[b] : row = other \/ (deduplicate /\ Agree(row, other))
          /\ FreshBook(b) /\ deduplicate =>
                /\ ~ \E c \in Shown(l) : Agree(row, books[c])
                /\ ~ \E c \in Books \ {b} : \E other \in recommended[c] : Agree(row, other)

\* Identities of which a row disagrees with the first book of its identity, which
\* is one that was there, or else one of the rows.
First(l, S, work) ==
    LET shown == {books[c].price : c \in {d \in Shown(l) : books[d].work = work}}
    IN  IF shown # {} THEN shown ELSE {row.price : row \in {x \in S : x.work = work}}

Conflicting(S, first) == {row.work : row \in {x \in S : x.price # first[x.work]}}

\* A request id that was used before changes nothing: it is answered from its
\* operation, or refused when its content differs or the operation was undone.
KnownRequest(l, request) ==
    \E o \in Operations : ops[o].list = l /\ ops[o].request = request

\* import_batch.
ImportBatch(o, l, request, S, deduplicate) ==
    /\ ops[o].list = None
    /\ Active(l)
    /\ \E i \in Imports : imports[i] # None
    /\ ~KnownRequest(l, request)
    /\ \E recommended \in [Books -> SUBSET S],
          first \in [{row.work : row \in S} -> {b.price : b \in Rows}] :
          /\ Distributes(l, S, deduplicate, recommended)
          /\ \A work \in DOMAIN first : first[work] \in First(l, S, work)
          /\ LET flagged == IF deduplicate THEN Conflicting(S, first) ELSE {}
                 Was(b)  == IF recommended[b] # {} /\ FreshBook(b)
                            THEN Added(l, CHOOSE row \in recommended[b] : TRUE, {})
                            ELSE books[b]
                 Origin(b) == {row.origin : row \in recommended[b]}
                 new     == [b \in Books |->
                               [Was(b) EXCEPT !.origins = Was(b).origins \cup Origin(b),
                                              !.review  = Was(b).review \/ Was(b).work \in flagged]]
                 touched == {b \in Books :
                               \/ FreshBook(b) /\ recommended[b] # {}
                               \/ ~ Origin(b) \subseteq books[b].origins
                               \/ b \in Shown(l) /\ books[b].work \in flagged}
             IN SaveOperation(o, l, request, touched, new)
    /\ UNCHANGED <<lists, fileVars>>

\* bulk_books: all of the books are shown, or none changes.  Which of them can
\* be confirmed depends on fields that are left out here.
BulkBooks(o, l, B) ==
    /\ ops[o].list = None
    /\ Active(l)
    /\ B # {} /\ B \subseteq Shown(l)
    /\ \/ \E mark \in BOOLEAN :
             SaveOperation(o, l, None, B, [b \in B |-> [books[b] EXCEPT !.selected = mark]])
       \/ SaveOperation(o, l, None, B, [b \in B |-> [books[b] EXCEPT !.deleted = TRUE]])
       \/ \E confirmed \in SUBSET B :
             SaveOperation(o, l, None, confirmed,
                           [b \in confirmed |-> [books[b] EXCEPT !.review = FALSE]])
    /\ UNCHANGED <<lists, fileVars>>

\* Mutant: edited books count as unchanged.
UndoableAnyway(o) ==
    /\ ops[o].list # None /\ ~ops[o].undone
    /\ \A b \in ops[o].touched : books[b].list = ops[o].list

\* undo_operation looks at every book before it restores one.
Undoable(o) ==
    /\ ops[o].list # None /\ ~ops[o].undone
    /\ \A b \in ops[o].touched :
          books[b].list = ops[o].list /\ revision[b] = ops[o].after[b]

Undo(o) ==
    /\ Undoable(o)
    /\ Active(ops[o].list)
    /\ Write(ops[o].touched, ops[o].before)
    /\ ops' = [ops EXCEPT ![o].undone = TRUE]
    /\ UNCHANGED <<lists, fileVars>>

--------------------------------------------------------------------------------
\* Uploaded files.

\* save_upload: the file is on disk; its document is parsed without a transaction.
SaveUpload(i, p) ==
    /\ imports[i] = None /\ saving[i] = None
    /\ FreshPath(p)
    /\ files' = [files EXCEPT ![p] = "THERE"]
    /\ saving' = [saving EXCEPT ![i] = p]
    /\ UNCHANGED <<lists, bookVars, imports, backups, restores>>

\* remember_file.
RememberFile(i) ==
    /\ saving[i] # None
    /\ imports' = [imports EXCEPT ![i] = saving[i]]
    /\ saving' = [saving EXCEPT ![i] = None]
    /\ UNCHANGED <<lists, bookVars, files, backups, restores>>

\* The document cannot be parsed; its file stays.
ParseFails(i) ==
    /\ saving[i] # None
    /\ saving' = [saving EXCEPT ![i] = None]
    /\ UNCHANGED <<lists, bookVars, imports, files, backups, restores>>

--------------------------------------------------------------------------------
\* Backup and restore of everything.

\* _backup_snapshot: one transaction reads all of it.  A backup of an older
\* version has no files.
Snapshot(withFiles) ==
    [lists |-> lists, books |-> books, withFiles |-> withFiles,
     imports |-> IF withFiles THEN {i \in Imports : imports[i] # None} ELSE {}]

Backup == \E withFiles \in BOOLEAN :
    /\ Cardinality(backups) < MaxBackups
    /\ backups' = backups \cup {Snapshot(withFiles)}
    /\ UNCHANGED <<lists, bookVars, imports, files, saving, restores>>

\* restore: a backup in which no list is in use is refused.
StartRestore(r) == \E backup \in backups :
    /\ restores[r].pc = "idle"
    /\ \E l \in Lists : backup.lists[l] = "ACTIVE"
    /\ restores' = [restores EXCEPT ![r] =
          [pc |-> "staging", backup |-> backup, staged |-> [i \in Imports |-> None]]]
    /\ UNCHANGED <<lists, bookVars, imports, files, saving, backups>>

\* A file of the backup is written under a new name.
StageFile(r, i, p) ==
    /\ restores[r].pc = "staging"
    /\ i \in restores[r].backup.imports /\ restores[r].staged[i] = None
    /\ FreshPath(p)
    /\ files' = [files EXCEPT ![p] = "THERE"]
    /\ restores' = [restores EXCEPT ![r].staged[i] = p]
    /\ UNCHANGED <<lists, bookVars, imports, saving, backups>>

\* The transaction: what there is is kept as a safety backup and all of it is
\* replaced.  The rows of every book are deleted and written again.
CommitRestore(r) ==
    /\ restores[r].pc = "staging"
    /\ \A i \in restores[r].backup.imports : restores[r].staged[i] # None
    /\ LET backup    == restores[r].backup
           old       == {b \in Books : Row(b)}
           new       == {b \in Books : backup.books[b].list # None}
           writes(b) == (IF b \in old THEN 1 ELSE 0) + (IF b \in new THEN 1 ELSE 0)
       IN /\ Writes + Cardinality(old) + Cardinality(new) <= MaxWrites
          /\ lists' = backup.lists
          /\ books' = backup.books
          /\ revision' = [b \in Books |-> revision[b] + writes(b)]
          /\ imports' = IF backup.withFiles THEN restores[r].staged ELSE imports
    /\ ops' = [o \in Operations |-> NoOperation]
    /\ restores' = [restores EXCEPT ![r] = Idle]
    /\ UNCHANGED <<files, saving, backups>>

\* Mutant: what the table names now is removed.
FailRestoreOf(r) ==
    /\ restores[r].pc = "staging"
    /\ files' = [p \in Paths |->
          IF \E i \in restores[r].backup.imports : p \in {restores[r].staged[i], imports[i]}
          THEN "GONE" ELSE files[p]]
    /\ restores' = [restores EXCEPT ![r] = Idle]
    /\ UNCHANGED <<lists, bookVars, imports, saving, backups>>

\* A failure: the files that this restore wrote are removed.
FailRestore(r) ==
    /\ restores[r].pc = "staging"
    /\ files' = [p \in Paths |->
          IF \E i \in Imports : p = restores[r].staged[i] THEN "GONE" ELSE files[p]]
    /\ restores' = [restores EXCEPT ![r] = Idle]
    /\ UNCHANGED <<lists, bookVars, imports, saving, backups>>

\* The program ends; files that have no row stay.
Exit ==
    /\ saving' = [i \in Imports |-> None]
    /\ restores' = [r \in Restorers |-> Idle]
    /\ UNCHANGED <<lists, bookVars, imports, files, backups>>

--------------------------------------------------------------------------------
ListRequest ==
    \E l \in Lists :
        \/ CreateList(l) \/ DeleteList(l) \/ RestoreList(l)
        \/ \E b \in Books :
               AddBook(l, b) \/ UpdateBook(l, b) \/ DeleteBook(l, b) \/ RestoreBook(l, b)

BatchRequest ==
    \E o \in Operations :
        \/ Undo(o)
        \/ \E l \in Lists :
              \/ \E B \in SUBSET Books : BulkBooks(o, l, B)
              \/ \E request \in RequestIds, S \in SUBSET Rows \ {{}}, deduplicate \in BOOLEAN :
                     ImportBatch(o, l, request, S, deduplicate)

FileRequest ==
    \/ \E i \in Imports :
          \/ RememberFile(i) \/ ParseFails(i)
          \/ \E p \in Paths : SaveUpload(i, p)
    \/ Backup
    \/ \E r \in Restorers :
          \/ StartRestore(r) \/ CommitRestore(r) \/ FailRestore(r)
          \/ \E i \in Imports, p \in Paths : StageFile(r, i, p)

Next == ListRequest \/ BatchRequest \/ FileRequest \/ Exit

Spec == Init /\ [][Next]_vars

--------------------------------------------------------------------------------
\* PROPERTIES

Works     == {row.work : row \in Rows}
BookRows  == [list : Lists \cup {None}, work : Works \cup {None},
              price : {row.price : row \in Rows} \cup {0},
              origins : SUBSET {row.origin : row \in Rows},
              selected : BOOLEAN, review : BOOLEAN, deleted : BOOLEAN]
Snapshots == [lists : [Lists -> {"NONE", "ACTIVE", "DELETED"}], books : [Books -> BookRows],
              withFiles : BOOLEAN, imports : SUBSET Imports]

TypeOK ==
    /\ lists \in [Lists -> {"NONE", "ACTIVE", "DELETED"}]
    /\ books \in [Books -> BookRows]
    /\ revision \in [Books -> Nat]
    /\ ops \in [Operations ->
          [list : Lists \cup {None}, request : RequestIds \cup {None}, touched : SUBSET Books,
           before : [Books -> BookRows], after : [Books -> Nat], left : [Books -> BookRows],
           undone : BOOLEAN]]
    /\ imports \in [Imports -> Paths \cup {None}]
    /\ files \in [Paths -> {"UNUSED", "THERE", "GONE"}]
    /\ saving \in [Imports -> Paths \cup {None}]
    /\ backups \subseteq Snapshots
    /\ restores \in [Restorers ->
          [pc : {"idle", "staging"}, backup : Snapshots \cup {None},
           staged : [Imports -> Paths \cup {None}]]]

\* An operation that can be undone left its books just as they are: whatever was
\* edited, deleted, restored, imported or undone since, no later change is lost
\* by the undo, although it looks at revisions only.
UndoLosesNothing ==
    \A o \in Operations : Undoable(o) =>
        \A b \in ops[o].touched : books[b] = ops[o].left[b]

\* Every uploaded document has its file, whatever restores commit, fail or end
\* half way meanwhile.
DocumentsHaveFiles ==
    \A i \in Imports : imports[i] # None => files[imports[i]] = "THERE"

================================================================================
