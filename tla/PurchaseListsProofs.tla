---------------------------- MODULE PurchaseListsProofs ----------------------------
(***************************************************************************)
(* Proofs about PurchaseLists: an undo loses no later change and every     *)
(* document keeps its file, for any lists, books, rows, operations,        *)
(* restores and number of writes.                                          *)
(***************************************************************************)
EXTENDS PurchaseLists, FiniteSetTheorems, TLAPS

Marks  == {"NONE", "ACTIVE", "DELETED"}
OpRows == [list : Lists \cup {None}, request : RequestIds \cup {None}, touched : SUBSET Books,
           before : [Books -> BookRows], after : [Books -> Nat], left : [Books -> BookRows],
           undone : BOOLEAN]
Restores == [pc : {"idle", "staging"}, backup : Snapshots \cup {None},
             staged : [Imports -> Paths \cup {None}]]

\* A restore that is under way has a backup.
Restoring == \A r \in Restorers : restores[r].pc = "staging" => restores[r].backup \in Snapshots

\* Revisions only grow, and the books of an operation whose revision still
\* stands are as it left them.
Stands(o, b) ==
    /\ ops[o].after[b] <= revision[b]
    /\ ops[o].after[b] = revision[b] => books[b] = ops[o].left[b]
Standing == \A o \in Operations : ops[o].list # None => \A b \in ops[o].touched : Stands(o, b)

\* The files of documents, uploads and restores are there, and a restore's files
\* are its own as long as it may remove them.
Owned ==
    /\ \A i \in Imports : saving[i] # None => files[saving[i]] = "THERE"
    /\ \A r \in Restorers, i \in Imports : restores[r].staged[i] # None =>
          /\ files[restores[r].staged[i]] = "THERE"
          /\ \A j \in Imports :
                /\ restores[r].staged[i] # imports[j]
                /\ restores[r].staged[i] # saving[j]
                /\ \A q \in Restorers : q # r => restores[r].staged[i] # restores[q].staged[j]

FileInv == Restoring /\ Owned /\ DocumentsHaveFiles
PInv    == TypeOK /\ Standing /\ FileInv

--------------------------------------------------------------------------------
(* Types of the parts. *)

LEMMA NoBookType == NoBook \in BookRows
BY DEF NoBook, BookRows

LEMMA NoOperationType == NoOperation \in OpRows
BY NoBookType DEF NoOperation, OpRows

LEMMA IdleType == Idle \in Restores
BY DEF Idle, Restores

LEMMA AddedType ==
  \A l \in Lists, row \in Rows : Added(l, row, {}) \in BookRows
BY DEF Added, BookRows, Works

LEMMA InitPInv == Init => PInv
<1>. SUFFICES ASSUME Init PROVE PInv
  OBVIOUS
<1>1. TypeOK
  <2>1. /\ lists \in [Lists -> {"NONE", "ACTIVE", "DELETED"}]
        /\ books \in [Books -> BookRows] /\ revision \in [Books -> Nat]
    BY NoBookType DEF Init
  <2>2. ops \in [Operations -> OpRows]
    BY NoOperationType DEF Init
  <2>3. /\ imports \in [Imports -> Paths \cup {None}]
        /\ files \in [Paths -> {"UNUSED", "THERE", "GONE"}]
        /\ saving \in [Imports -> Paths \cup {None}]
        /\ backups \subseteq Snapshots
    BY DEF Init
  <2>4. restores \in [Restorers -> Restores]
    BY IdleType DEF Init
  <2>. QED
    BY <2>1, <2>2, <2>3, <2>4 DEF TypeOK, OpRows, Restores
<1>2. Standing
  BY DEF Init, Standing, NoOperation
<1>3. FileInv
  BY DEF Init, FileInv, Restoring, Owned, DocumentsHaveFiles, Idle
<1>. QED
  BY <1>1, <1>2, <1>3 DEF PInv

--------------------------------------------------------------------------------
(* Writes of books. *)

LEMMA WriteRows ==
  ASSUME TypeOK, NEW B \in SUBSET Books, NEW new, \A b \in B : new[b] \in BookRows, Write(B, new)
  PROVE  /\ books' \in [Books -> BookRows]
         /\ revision' \in [Books -> Nat]
         /\ \A b \in Books : b \in B => books'[b] = new[b] /\ revision'[b] = revision[b] + 1
         /\ \A b \in Books : b \notin B => books'[b] = books[b] /\ revision'[b] = revision[b]
<1>1. books \in [Books -> BookRows] /\ revision \in [Books -> Nat]
  BY DEF TypeOK
<1>. QED
  BY <1>1 DEF Write

\* An operation that is there already stands after any write.
LEMMA WriteStands ==
  ASSUME TypeOK, Standing, NEW B \in SUBSET Books, NEW new, \A b \in B : new[b] \in BookRows,
         Write(B, new), NEW o \in Operations, ops[o].list # None,
         ops'[o].touched = ops[o].touched, ops'[o].after = ops[o].after, ops'[o].left = ops[o].left
  PROVE  \A b \in ops'[o].touched : Stands(o, b)'
<1>. SUFFICES ASSUME NEW b \in ops[o].touched PROVE Stands(o, b)'
  OBVIOUS
<1>1. b \in Books /\ ops[o].after[b] \in Nat /\ revision[b] \in Nat
  BY DEF TypeOK
<1>2. Stands(o, b)
  BY DEF Standing
<1>3. CASE b \in B
  <2>1. revision'[b] = revision[b] + 1
    BY WriteRows, <1>1, <1>3
  <2>. QED
    BY <1>1, <1>2, <2>1 DEF Stands
<1>4. CASE b \notin B
  <2>1. books'[b] = books[b] /\ revision'[b] = revision[b]
    BY WriteRows, <1>1, <1>4
  <2>. QED
    BY <1>1, <1>2, <2>1 DEF Stands
<1>. QED
  BY <1>3, <1>4

LEMMA FilesUntouched ==
  ASSUME FileInv, UNCHANGED fileVars PROVE FileInv'
BY DEF FileInv, Restoring, Owned, DocumentsHaveFiles, fileVars

\* One book is written and no operation is saved.
LEMMA SingleKeeps ==
  ASSUME PInv, NEW b \in Books, NEW row \in BookRows, Write({b}, [c \in {b} |-> row]),
         UNCHANGED <<lists, ops, fileVars>>
  PROVE  PInv'
<1>0. TypeOK /\ Standing /\ FileInv
  BY DEF PInv
<1>. DEFINE new == [c \in {b} |-> row]
<1>1. \A c \in {b} : new[c] \in BookRows
  OBVIOUS
<1>2. books' \in [Books -> BookRows] /\ revision' \in [Books -> Nat]
  BY <1>0, <1>1, WriteRows
<1>3. TypeOK'
  BY <1>0, <1>2 DEF TypeOK, fileVars
<1>4. Standing'
  <2>. SUFFICES ASSUME NEW o \in Operations, ops[o].list # None
                PROVE  \A c \in ops'[o].touched : Stands(o, c)'
    BY DEF Standing
  <2>. QED
    BY <1>0, <1>1, WriteStands
<1>5. FileInv'
  BY <1>0, FilesUntouched
<1>. QED
  BY <1>3, <1>4, <1>5 DEF PInv

--------------------------------------------------------------------------------
(* Requests that write books. *)

\* A request saves an operation: it stands as it was written, and the ones before
\* it stand still.
LEMMA OperationKeeps ==
  ASSUME PInv, NEW o \in Operations, ops[o].list = None, NEW l \in Lists,
         NEW request \in RequestIds \cup {None}, NEW B \in SUBSET Books, NEW new,
         \A b \in B : new[b] \in BookRows,
         SaveOperation(o, l, request, B, new), UNCHANGED <<lists, fileVars>>
  PROVE  PInv'
<1>0. TypeOK /\ Standing /\ FileInv
  BY DEF PInv
<1>1. Write(B, new)
  BY DEF SaveOperation
<1>2. books' \in [Books -> BookRows] /\ revision' \in [Books -> Nat]
  BY <1>0, <1>1, WriteRows
<1>. DEFINE saved == [list |-> l, request |-> request, touched |-> B,
                      before |-> [b \in Books |-> IF b \in B THEN books[b] ELSE NoBook],
                      after  |-> [b \in Books |-> IF b \in B THEN revision'[b] ELSE 0],
                      left   |-> [b \in Books |-> IF b \in B THEN books'[b] ELSE NoBook],
                      undone |-> FALSE]
<1>3. ops \in [Operations -> OpRows] /\ books \in [Books -> BookRows]
  BY <1>0 DEF TypeOK, OpRows
<1>4. ops' = [ops EXCEPT ![o] = saved]
  BY DEF SaveOperation
<1>5. saved \in OpRows
  BY <1>2, <1>3, NoBookType DEF OpRows
<1>6. TypeOK'
  <2>1. ops' \in [Operations -> OpRows]
    BY <1>3, <1>4, <1>5
  <2>. QED
    BY <1>0, <1>2, <2>1 DEF TypeOK, OpRows, fileVars
<1>7. Standing'
  <2>. SUFFICES ASSUME NEW p \in Operations, ops'[p].list # None
                PROVE  \A b \in ops'[p].touched : Stands(p, b)'
    BY DEF Standing
  <2>1. CASE p = o
    <3>1. ops'[p] = saved
      BY <1>3, <1>4, <2>1
    <3>2. \A b \in B : ops'[p].after[b] = revision'[b] /\ ops'[p].left[b] = books'[b]
      BY <3>1
    <3>. QED
      BY <1>2, <3>1, <3>2 DEF Stands
  <2>2. CASE p # o
    <3>1. ops'[p] = ops[p]
      BY <1>3, <1>4, <2>2
    <3>. QED
      BY <1>0, <1>1, <3>1, WriteStands
  <2>. QED
    BY <2>1, <2>2
<1>8. FileInv'
  BY <1>0, FilesUntouched
<1>. QED
  BY <1>6, <1>7, <1>8 DEF PInv

LEMMA BookKeeps ==
  ASSUME PInv, NEW l \in Lists, NEW b \in Books,
         AddBook(l, b) \/ UpdateBook(l, b) \/ DeleteBook(l, b) \/ RestoreBook(l, b)
  PROVE  PInv'
<1>0. books[b] \in BookRows
  BY DEF PInv, TypeOK
<1>1. CASE AddBook(l, b)
  <2>1. PICK row \in Rows : Write({b}, [c \in {b} |-> Added(l, row, {})])
    BY <1>1 DEF AddBook
  <2>. QED
    BY <1>1, <2>1, AddedType, SingleKeeps DEF AddBook
<1>2. CASE UpdateBook(l, b)
  <2>1. PICK row \in Rows, mark \in BOOLEAN :
           \/ Write({b}, [c \in {b} |-> [books[b] EXCEPT !.price = row.price]])
           \/ Write({b}, [c \in {b} |-> [books[b] EXCEPT !.selected = mark]])
    BY <1>2 DEF UpdateBook
  <2>2. /\ [books[b] EXCEPT !.price = row.price] \in BookRows
        /\ [books[b] EXCEPT !.selected = mark] \in BookRows
    BY <1>0 DEF BookRows
  <2>. QED
    BY <1>2, <2>1, <2>2, SingleKeeps DEF UpdateBook
<1>3. CASE DeleteBook(l, b)
  <2>1. [books[b] EXCEPT !.deleted = TRUE] \in BookRows
    BY <1>0 DEF BookRows
  <2>. QED
    BY <1>3, <2>1, SingleKeeps DEF DeleteBook
<1>4. CASE RestoreBook(l, b)
  <2>1. [books[b] EXCEPT !.deleted = FALSE] \in BookRows
    BY <1>0 DEF BookRows
  <2>. QED
    BY <1>4, <2>1, SingleKeeps DEF RestoreBook
<1>. QED
  BY <1>1, <1>2, <1>3, <1>4

LEMMA ListKeeps ==
  ASSUME PInv, NEW l \in Lists, CreateList(l) \/ DeleteList(l) \/ RestoreList(l)
  PROVE  PInv'
<1>1. lists' \in [Lists -> {"NONE", "ACTIVE", "DELETED"}] /\ UNCHANGED <<bookVars, fileVars>>
  BY DEF PInv, TypeOK, CreateList, DeleteList, RestoreList
<1>2. UNCHANGED <<books, revision, ops, imports, files, saving, backups, restores>>
  BY <1>1 DEF bookVars, fileVars
<1>3. TypeOK'
  BY <1>1, <1>2 DEF PInv, TypeOK
<1>4. Standing'
  BY <1>2 DEF PInv, Standing, Stands
<1>. QED
  BY <1>1, <1>3, <1>4, FilesUntouched DEF PInv

LEMMA ImportKeeps ==
  ASSUME PInv, NEW o \in Operations, NEW l \in Lists, NEW request \in RequestIds,
         NEW S \in SUBSET Rows, NEW deduplicate \in BOOLEAN,
         ImportBatch(o, l, request, S, deduplicate)
  PROVE  PInv'
<1>1. PICK recommended \in [Books -> SUBSET S],
           first \in [{row.work : row \in S} -> {b.price : b \in Rows}] :
        LET flagged == IF deduplicate THEN Conflicting(S, first) ELSE {}
            Was(b)  == IF recommended[b] # {} /\ FreshBook(b)
                       THEN Added(l, CHOOSE row \in recommended[b] : TRUE, {})
                       ELSE books[b]
            Origin(b) == {row.origin : row \in recommended[b]}
            new     == [b \in Books |->
                          [Was(b) EXCEPT !.origins = Was(b).origins \cup Origin(b),
                                         !.review  = Was(b).review \/ Was(b).work \in flagged]]
            touched == {b \in Books :
                          \/ FreshBook(b) /\ recommended[b] # {}
                          \/ ~ Origin(b) \subseteq books[b].origins
                          \/ b \in Shown(l) /\ books[b].work \in flagged}
        IN SaveOperation(o, l, request, touched, new)
  BY DEF ImportBatch
<1>. DEFINE flagged == IF deduplicate THEN Conflicting(S, first) ELSE {}
            Was(b)  == IF recommended[b] # {} /\ FreshBook(b)
                       THEN Added(l, CHOOSE row \in recommended[b] : TRUE, {})
                       ELSE books[b]
            Origin(b) == {row.origin : row \in recommended[b]}
            new     == [b \in Books |->
                          [Was(b) EXCEPT !.origins = Was(b).origins \cup Origin(b),
                                         !.review  = Was(b).review \/ Was(b).work \in flagged]]
            touched == {b \in Books :
                          \/ FreshBook(b) /\ recommended[b] # {}
                          \/ ~ Origin(b) \subseteq books[b].origins
                          \/ b \in Shown(l) /\ books[b].work \in flagged}
<1>2. SaveOperation(o, l, request, touched, new)
  BY <1>1
<1>3. \A b \in Books : Was(b) \in BookRows
  BY AddedType DEF PInv, TypeOK
<1>4. \A b \in Books : Origin(b) \subseteq {row.origin : row \in Rows}
  OBVIOUS
<1>5. \A b \in touched : new[b] \in BookRows
  <2>. SUFFICES ASSUME NEW b \in Books PROVE new[b] \in BookRows
    OBVIOUS
  <2>. DEFINE was == Was(b)
              origins == was.origins \cup Origin(b)
              review == was.review \/ was.work \in flagged
  <2>1. was \in BookRows
    BY <1>3
  <2>2. origins \in SUBSET {row.origin : row \in Rows}
    BY <1>4, <2>1 DEF BookRows
  <2>3. review \in BOOLEAN
    BY <2>1, Zenon DEF BookRows
  <2>4. new[b] = [was EXCEPT !.origins = origins, !.review = review]
    OBVIOUS
  <2>. HIDE DEF was, origins, review
  <2>5. [was EXCEPT !.origins = origins, !.review = review] \in BookRows
    BY <2>1, <2>2, <2>3 DEF BookRows
  <2>. QED
    BY <2>4, <2>5
<1>6. ops[o].list = None /\ UNCHANGED <<lists, fileVars>>
  BY DEF ImportBatch
<1>. HIDE DEF touched, new
<1>7. touched \in SUBSET Books
  BY DEF touched
<1>. QED
  BY <1>2, <1>5, <1>6, <1>7, OperationKeeps

LEMMA BulkKeeps ==
  ASSUME PInv, NEW o \in Operations, NEW l \in Lists, NEW B \in SUBSET Books, BulkBooks(o, l, B)
  PROVE  PInv'
<1>0. \A b \in Books : books[b] \in BookRows
  BY DEF PInv, TypeOK
<1>1. ops[o].list = None /\ UNCHANGED <<lists, fileVars>>
  BY DEF BulkBooks
<1>2. CASE \E mark \in BOOLEAN :
              SaveOperation(o, l, None, B, [b \in B |-> [books[b] EXCEPT !.selected = mark]])
  <2>1. PICK mark \in BOOLEAN :
              SaveOperation(o, l, None, B, [b \in B |-> [books[b] EXCEPT !.selected = mark]])
    BY <1>2
  <2>2. \A b \in B : [books[b] EXCEPT !.selected = mark] \in BookRows
    BY <1>0 DEF BookRows
  <2>. QED
    BY <1>1, <2>1, <2>2, OperationKeeps, SMTT(30)
<1>3. CASE SaveOperation(o, l, None, B, [b \in B |-> [books[b] EXCEPT !.deleted = TRUE]])
  <2>. DEFINE new == [b \in B |-> [books[b] EXCEPT !.deleted = TRUE]]
  <2>1. \A b \in B : new[b] \in BookRows
    BY <1>0 DEF BookRows
  <2>2. SaveOperation(o, l, None, B, new)
    BY <1>3
  <2>. HIDE DEF new
  <2>. QED
    BY <1>1, <2>1, <2>2, OperationKeeps
<1>4. CASE \E confirmed \in SUBSET B :
              SaveOperation(o, l, None, confirmed,
                            [b \in confirmed |-> [books[b] EXCEPT !.review = FALSE]])
  <2>1. PICK confirmed \in SUBSET B :
              SaveOperation(o, l, None, confirmed,
                            [b \in confirmed |-> [books[b] EXCEPT !.review = FALSE]])
    BY <1>4
  <2>2. \A b \in confirmed : [books[b] EXCEPT !.review = FALSE] \in BookRows
    BY <1>0 DEF BookRows
  <2>. QED
    BY <1>1, <2>1, <2>2, OperationKeeps, SMTT(30)
<1>. QED
  BY <1>2, <1>3, <1>4 DEF BulkBooks

LEMMA UndoKeeps ==
  ASSUME PInv, NEW o \in Operations, Undo(o)
  PROVE  PInv'
<1>0. TypeOK /\ Standing /\ FileInv
  BY DEF PInv
<1>1. ops \in [Operations -> OpRows]
  BY <1>0 DEF TypeOK, OpRows
<1>2. ops[o].touched \in SUBSET Books /\ \A b \in ops[o].touched : ops[o].before[b] \in BookRows
  BY <1>1 DEF OpRows
<1>3. Write(ops[o].touched, ops[o].before) /\ UNCHANGED <<lists, fileVars>>
  BY DEF Undo
<1>4. books' \in [Books -> BookRows] /\ revision' \in [Books -> Nat]
  BY <1>0, <1>2, <1>3, WriteRows
<1>5. ops' = [ops EXCEPT ![o].undone = TRUE]
  BY DEF Undo
<1>6. ops' \in [Operations -> OpRows]
  BY <1>1, <1>5, ZenonT(40) DEF OpRows
<1>7. \A p \in Operations : /\ ops'[p].list = ops[p].list /\ ops'[p].touched = ops[p].touched
                            /\ ops'[p].after = ops[p].after /\ ops'[p].left = ops[p].left
  BY <1>1, <1>5 DEF OpRows
<1>8. TypeOK'
  BY <1>0, <1>3, <1>4, <1>6 DEF TypeOK, OpRows, fileVars
<1>9. Standing'
  <2>. SUFFICES ASSUME NEW p \in Operations, ops'[p].list # None
                PROVE  \A b \in ops'[p].touched : Stands(p, b)'
    BY DEF Standing
  <2>. QED
    BY <1>0, <1>2, <1>3, <1>7, WriteStands
<1>. QED
  BY <1>0, <1>3, <1>8, <1>9, FilesUntouched DEF PInv

--------------------------------------------------------------------------------
(* Requests that write files. *)

\* Documents, uploads and restores change; books and operations do not.
LEMMA BooksUntouched ==
  ASSUME PInv, UNCHANGED <<lists, bookVars>>,
         imports' \in [Imports -> Paths \cup {None}],
         files' \in [Paths -> {"UNUSED", "THERE", "GONE"}],
         saving' \in [Imports -> Paths \cup {None}],
         backups' \subseteq Snapshots, restores' \in [Restorers -> Restores], FileInv'
  PROVE  PInv'
<1>1. UNCHANGED <<lists, books, revision, ops>>
  BY DEF bookVars
<1>2. TypeOK'
  BY <1>1 DEF PInv, TypeOK, Restores
<1>3. Standing'
  BY <1>1 DEF PInv, Standing, Stands
<1>. QED
  BY <1>2, <1>3 DEF PInv

LEMMA UploadKeeps ==
  ASSUME PInv, NEW i \in Imports,
         (\E p \in Paths : SaveUpload(i, p)) \/ RememberFile(i) \/ ParseFails(i)
  PROVE  PInv'
<1>0. /\ imports \in [Imports -> Paths \cup {None}]
      /\ files \in [Paths -> {"UNUSED", "THERE", "GONE"}]
      /\ saving \in [Imports -> Paths \cup {None}]
      /\ backups \subseteq Snapshots /\ restores \in [Restorers -> Restores]
      /\ Restoring /\ Owned /\ DocumentsHaveFiles
  BY DEF PInv, TypeOK, FileInv, Restores
<1>r. \A r \in Restorers : restores[r].staged \in [Imports -> Paths \cup {None}]
  BY <1>0 DEF Restores
<1>1. ASSUME NEW p \in Paths, SaveUpload(i, p) PROVE PInv'
  <2>1. /\ files[p] = "UNUSED" /\ saving[i] = None
        /\ files' = [files EXCEPT ![p] = "THERE"] /\ saving' = [saving EXCEPT ![i] = p]
        /\ UNCHANGED <<imports, backups, restores>> /\ UNCHANGED <<lists, bookVars>>
    BY <1>1 DEF SaveUpload, FreshPath
  <2>2. \A q \in Paths : files[q] = "THERE" => files'[q] = "THERE" /\ q # p
    BY <1>0, <2>1
  <2>3. DocumentsHaveFiles' /\ Restoring'
    BY <1>0, <2>1, <2>2 DEF DocumentsHaveFiles, Restoring
  <2>4. Owned'
    BY <1>0, <1>r, <2>1, <2>2, ListsAssumption DEF Owned
  <2>. QED
    BY <1>0, <2>1, <2>3, <2>4, BooksUntouched DEF FileInv
<1>2. CASE RememberFile(i)
  <2>1. /\ saving[i] # None /\ saving' = [saving EXCEPT ![i] = None]
        /\ imports' = [imports EXCEPT ![i] = saving[i]]
        /\ UNCHANGED <<files, backups, restores>> /\ UNCHANGED <<lists, bookVars>>
    BY <1>2 DEF RememberFile
  <2>2. DocumentsHaveFiles' /\ Restoring' /\ Owned'
    BY <1>0, <2>1 DEF DocumentsHaveFiles, Restoring, Owned
  <2>. QED
    BY <1>0, <2>1, <2>2, BooksUntouched DEF FileInv
<1>3. CASE ParseFails(i)
  <2>1. /\ saving' = [saving EXCEPT ![i] = None]
        /\ UNCHANGED <<imports, files, backups, restores>> /\ UNCHANGED <<lists, bookVars>>
    BY <1>3 DEF ParseFails
  <2>2. DocumentsHaveFiles' /\ Restoring' /\ Owned'
    BY <1>0, <2>1 DEF DocumentsHaveFiles, Restoring, Owned
  <2>. QED
    BY <1>0, <2>1, <2>2, BooksUntouched DEF FileInv
<1>. QED
  BY <1>1, <1>2, <1>3

LEMMA BackupKeeps == PInv /\ Backup => PInv'
<1>. SUFFICES ASSUME PInv, Backup PROVE PInv'
  OBVIOUS
<1>0. /\ imports \in [Imports -> Paths \cup {None}]
      /\ files \in [Paths -> {"UNUSED", "THERE", "GONE"}]
      /\ saving \in [Imports -> Paths \cup {None}]
      /\ backups \subseteq Snapshots /\ restores \in [Restorers -> Restores]
      /\ FileInv
  BY DEF PInv, TypeOK, Restores
<1>1. PICK withFiles \in BOOLEAN : backups' = backups \cup {Snapshot(withFiles)}
  BY DEF Backup
<1>2. UNCHANGED <<imports, files, saving, restores>> /\ UNCHANGED <<lists, bookVars>>
  BY DEF Backup
<1>3. Snapshot(withFiles) \in Snapshots
  BY DEF PInv, TypeOK, Snapshot, Snapshots
<1>4. FileInv'
  BY <1>0, <1>2 DEF FileInv, Restoring, Owned, DocumentsHaveFiles
<1>. QED
  BY <1>0, <1>1, <1>2, <1>3, <1>4, BooksUntouched

LEMMA StagingKeeps ==
  ASSUME PInv, NEW r \in Restorers,
         \/ StartRestore(r) \/ FailRestore(r)
         \/ \E i \in Imports, p \in Paths : StageFile(r, i, p)
  PROVE  PInv'
<1>0. /\ imports \in [Imports -> Paths \cup {None}]
      /\ files \in [Paths -> {"UNUSED", "THERE", "GONE"}]
      /\ saving \in [Imports -> Paths \cup {None}]
      /\ backups \subseteq Snapshots /\ restores \in [Restorers -> Restores]
      /\ Restoring /\ Owned /\ DocumentsHaveFiles
  BY DEF PInv, TypeOK, FileInv, Restores
<1>r. \A q \in Restorers : restores[q].staged \in [Imports -> Paths \cup {None}]
  BY <1>0 DEF Restores
<1>1. CASE StartRestore(r)
  <2>1. PICK backup \in backups : restores' = [restores EXCEPT ![r] =
          [pc |-> "staging", backup |-> backup, staged |-> [j \in Imports |-> None]]]
    BY <1>1 DEF StartRestore
  <2>2. UNCHANGED <<imports, files, saving, backups>> /\ UNCHANGED <<lists, bookVars>>
    BY <1>1 DEF StartRestore
  <2>3. backup \in Snapshots
    BY <1>0
  <2>4. restores' \in [Restorers -> Restores]
    BY <1>0, <2>1, <2>3 DEF Restores
  <2>5. /\ restores'[r].staged = [j \in Imports |-> None] /\ restores'[r].backup = backup
        /\ \A q \in Restorers : q # r => restores'[q] = restores[q]
    BY <1>0, <2>1
  <2>6. DocumentsHaveFiles' /\ Restoring'
    BY <1>0, <2>2, <2>3, <2>5 DEF DocumentsHaveFiles, Restoring
  <2>7. Owned'
    BY <1>0, <2>2, <2>5 DEF Owned
  <2>. QED
    BY <1>0, <2>2, <2>4, <2>6, <2>7, BooksUntouched DEF FileInv
<1>2. ASSUME NEW i \in Imports, NEW p \in Paths, StageFile(r, i, p) PROVE PInv'
  <2>1. /\ restores[r].staged[i] = None /\ files[p] = "UNUSED"
        /\ files' = [files EXCEPT ![p] = "THERE"]
        /\ restores' = [restores EXCEPT ![r].staged[i] = p]
        /\ UNCHANGED <<imports, saving, backups>> /\ UNCHANGED <<lists, bookVars>>
    BY <1>2 DEF StageFile, FreshPath
  <2>2. \A q \in Paths : files[q] = "THERE" => files'[q] = "THERE" /\ q # p
    BY <1>0, <2>1
  <2>3. restores' \in [Restorers -> Restores]
    BY <1>0, <2>1, SMTT(30) DEF Restores
  <2>4. /\ \A q \in Restorers : /\ restores'[q].pc = restores[q].pc
                                /\ restores'[q].backup = restores[q].backup
        /\ \A q \in Restorers, j \in Imports :
              restores'[q].staged[j] = IF q = r /\ j = i THEN p ELSE restores[q].staged[j]
    BY <1>0, <1>r, <2>1 DEF Restores
  <2>5. DocumentsHaveFiles' /\ Restoring'
    BY <1>0, <2>1, <2>2, <2>4 DEF DocumentsHaveFiles, Restoring
  <2>6. files'[p] = "THERE" /\ p # None
    BY <1>0, <2>1, ListsAssumption
  <2>7. \A j \in Imports : /\ imports[j] # p /\ saving[j] # p
                           /\ \A q \in Restorers : restores[q].staged[j] # p
    BY <1>0, <1>r, <2>2, <2>6 DEF Owned, DocumentsHaveFiles
  <2>8. Owned'
    <3>1. \A j \in Imports : saving'[j] # None => files'[saving'[j]] = "THERE"
      BY <1>0, <2>1, <2>2 DEF Owned
    <3>. SUFFICES ASSUME NEW q \in Restorers, NEW k \in Imports, restores'[q].staged[k] # None
                  PROVE  /\ files'[restores'[q].staged[k]] = "THERE"
                         /\ \A j \in Imports :
                               /\ restores'[q].staged[k] # imports'[j]
                               /\ restores'[q].staged[k] # saving'[j]
                               /\ \A s \in Restorers : s # q =>
                                     restores'[q].staged[k] # restores'[s].staged[j]
      BY <3>1 DEF Owned
    <3>2. CASE q = r /\ k = i
      <4>1. restores'[q].staged[k] = p
        BY <2>4, <3>2
      <4>2. \A j \in Imports, s \in Restorers : s # q => restores'[s].staged[j] # p
        BY <2>4, <2>7, <3>2
      <4>. QED
        BY <2>1, <2>6, <2>7, <4>1, <4>2
    <3>3. CASE ~(q = r /\ k = i)
      <4>1. restores'[q].staged[k] = restores[q].staged[k]
        BY <2>4, <3>3
      <4>2. files'[restores[q].staged[k]] = "THERE" /\ restores[q].staged[k] # p
        BY <1>0, <1>r, <2>2, <2>7, <4>1 DEF Owned
      <4>3. \A j \in Imports : restores[q].staged[k] # imports[j] /\ restores[q].staged[k] # saving[j]
        BY <1>0, <4>1 DEF Owned
      <4>4. \A j \in Imports, s \in Restorers : s # q =>
               restores[q].staged[k] # restores'[s].staged[j]
        BY <1>0, <2>4, <4>1, <4>2 DEF Owned
      <4>. QED
        BY <2>1, <4>1, <4>2, <4>3, <4>4
    <3>. QED
      BY <3>2, <3>3
  <2>. QED
    BY <1>0, <2>1, <2>3, <2>5, <2>8, BooksUntouched DEF FileInv
<1>3. CASE FailRestore(r)
  <2>1. /\ files' = [f \in Paths |->
             IF \E j \in Imports : f = restores[r].staged[j] THEN "GONE" ELSE files[f]]
        /\ restores' = [restores EXCEPT ![r] = Idle]
        /\ UNCHANGED <<imports, saving, backups>> /\ UNCHANGED <<lists, bookVars>>
    BY <1>3 DEF FailRestore
  <2>2. restores' \in [Restorers -> Restores] /\ files' \in [Paths -> {"UNUSED", "THERE", "GONE"}]
    BY <1>0, <2>1, IdleType
  <2>3. /\ restores'[r].staged = [j \in Imports |-> None] /\ restores'[r].pc = "idle"
        /\ \A q \in Restorers : q # r => restores'[q] = restores[q]
    BY <1>0, <2>1 DEF Idle
  <2>4. \A f \in Paths : (\A j \in Imports : f # restores[r].staged[j]) => files'[f] = files[f]
    BY <2>1
  <2>5. /\ \A j \in Imports : imports[j] # None => files'[imports[j]] = "THERE"
        /\ \A j \in Imports : saving[j] # None => files'[saving[j]] = "THERE"
    BY <1>0, <1>r, <2>4 DEF Owned, DocumentsHaveFiles
  <2>6. \A q \in Restorers \ {r}, j \in Imports :
           restores[q].staged[j] # None => files'[restores[q].staged[j]] = "THERE"
    BY <1>0, <1>r, <2>4 DEF Owned
  <2>7. DocumentsHaveFiles' /\ Restoring'
    BY <1>0, <2>1, <2>3, <2>5, ZenonT(40) DEF DocumentsHaveFiles, Restoring
  <2>8. Owned'
    BY <1>0, <2>1, <2>3, <2>5, <2>6 DEF Owned
  <2>. QED
    BY <1>0, <2>1, <2>2, <2>7, <2>8, BooksUntouched DEF FileInv
<1>. QED
  BY <1>1, <1>2, <1>3

\* The restored documents have the files that the restore wrote, and those are
\* no longer its to remove.
LEMMA CommitKeeps ==
  ASSUME PInv, NEW r \in Restorers, CommitRestore(r)
  PROVE  PInv'
<1>0. /\ books \in [Books -> BookRows] /\ revision \in [Books -> Nat]
      /\ imports \in [Imports -> Paths \cup {None}]
      /\ restores \in [Restorers -> Restores]
      /\ Restoring /\ Owned /\ DocumentsHaveFiles
  BY DEF PInv, TypeOK, FileInv, Restores
<1>. DEFINE backup == restores[r].backup
            old    == {b \in Books : Row(b)}
            new    == {b \in Books : backup.books[b].list # None}
            writes(b) == (IF b \in old THEN 1 ELSE 0) + (IF b \in new THEN 1 ELSE 0)
<1>1. /\ lists' = backup.lists /\ books' = backup.books
      /\ revision' = [b \in Books |-> revision[b] + writes(b)]
      /\ imports' = IF backup.withFiles THEN restores[r].staged ELSE imports
      /\ ops' = [o \in Operations |-> NoOperation]
      /\ restores' = [restores EXCEPT ![r] = Idle]
      /\ UNCHANGED <<files, saving, backups>>
  BY DEF CommitRestore
<1>2. backup \in Snapshots /\ restores[r].staged \in [Imports -> Paths \cup {None}]
  BY <1>0 DEF CommitRestore, Restoring, Restores
<1>3. \A b \in Books : writes(b) \in Nat
  OBVIOUS
<1>4. revision' \in [Books -> Nat]
  <2>. HIDE DEF writes
  <2>. QED
    BY <1>0, <1>1, <1>3
<1>5. TypeOK'
  <2>1. /\ lists' \in [Lists -> {"NONE", "ACTIVE", "DELETED"}] /\ books' \in [Books -> BookRows]
    BY <1>1, <1>2 DEF Snapshots
  <2>2. ops' \in [Operations -> OpRows]
    BY <1>1, NoOperationType
  <2>3. imports' \in [Imports -> Paths \cup {None}]
    BY <1>0, <1>1, <1>2
  <2>4. restores' \in [Restorers -> Restores]
    BY <1>0, <1>1, IdleType
  <2>5. UNCHANGED <<files, saving, backups>>
    BY <1>1
  <2>. QED
    BY <1>4, <2>1, <2>2, <2>3, <2>4, <2>5 DEF PInv, TypeOK, OpRows, Restores
<1>6. Standing'
  BY <1>1 DEF Standing, NoOperation
<1>7. /\ restores'[r].staged = [j \in Imports |-> None] /\ restores'[r].pc = "idle"
      /\ \A q \in Restorers : q # r => restores'[q] = restores[q]
  BY <1>0, <1>1 DEF Idle
<1>8. Restoring' /\ DocumentsHaveFiles'
  BY <1>0, <1>1, <1>7 DEF Restoring, DocumentsHaveFiles, Owned
<1>9. Owned'
  <2>1. \A j \in Imports : imports'[j] = imports[j] \/ imports'[j] = restores[r].staged[j]
    BY <1>1
  <2>2. UNCHANGED <<files, saving>>
    BY <1>1
  <2>. QED
    BY <1>0, <1>7, <2>1, <2>2 DEF Owned
<1>. QED
  BY <1>5, <1>6, <1>8, <1>9 DEF PInv, FileInv

LEMMA ExitKeeps == PInv /\ Exit => PInv'
<1>. SUFFICES ASSUME PInv, Exit PROVE PInv'
  OBVIOUS
<1>0. /\ imports \in [Imports -> Paths \cup {None}]
      /\ files \in [Paths -> {"UNUSED", "THERE", "GONE"}]
      /\ backups \subseteq Snapshots /\ DocumentsHaveFiles
  BY DEF PInv, TypeOK, FileInv
<1>1. /\ saving' = [i \in Imports |-> None] /\ restores' = [r \in Restorers |-> Idle]
      /\ UNCHANGED <<imports, files, backups>> /\ UNCHANGED <<lists, bookVars>>
  BY DEF Exit
<1>2. restores' \in [Restorers -> Restores] /\ saving' \in [Imports -> Paths \cup {None}]
  BY <1>1, IdleType
<1>3. FileInv'
  BY <1>0, <1>1 DEF FileInv, Restoring, Owned, DocumentsHaveFiles, Idle
<1>. QED
  BY <1>0, <1>1, <1>2, <1>3, BooksUntouched

--------------------------------------------------------------------------------
(* Every step keeps the invariant. *)

LEMMA NextKeeps == PInv /\ [Next]_vars => PInv'
<1>. SUFFICES ASSUME PInv, [Next]_vars PROVE PInv'
  OBVIOUS
<1>1. CASE ListRequest
  BY <1>1, ListKeeps, BookKeeps DEF ListRequest
<1>2. CASE BatchRequest
  <2>1. CASE \E o \in Operations : Undo(o)
    BY <2>1, UndoKeeps
  <2>2. CASE \E o \in Operations, l \in Lists, B \in SUBSET Books : BulkBooks(o, l, B)
    BY <2>2, BulkKeeps
  <2>3. CASE \E o \in Operations, l \in Lists, request \in RequestIds,
                S \in SUBSET Rows \ {{}}, deduplicate \in BOOLEAN :
                ImportBatch(o, l, request, S, deduplicate)
    BY <2>3, ImportKeeps
  <2>. QED
    BY <1>2, <2>1, <2>2, <2>3 DEF BatchRequest
<1>3. CASE FileRequest
  <2>1. CASE \E i \in Imports : (\E p \in Paths : SaveUpload(i, p)) \/ RememberFile(i) \/ ParseFails(i)
    BY <2>1, UploadKeeps
  <2>2. CASE Backup
    BY <2>2, BackupKeeps
  <2>3. CASE \E r \in Restorers : \/ StartRestore(r) \/ FailRestore(r)
                                 \/ \E i \in Imports, p \in Paths : StageFile(r, i, p)
    BY <2>3, StagingKeeps
  <2>4. CASE \E r \in Restorers : CommitRestore(r)
    BY <2>4, CommitKeeps
  <2>. QED
    BY <1>3, <2>1, <2>2, <2>3, <2>4 DEF FileRequest
<1>4. CASE Exit
  BY <1>4, ExitKeeps
<1>5. CASE UNCHANGED vars
  <2>1. UNCHANGED <<lists, books, revision, ops, imports, files, saving, backups, restores>>
    BY <1>5 DEF vars, bookVars, fileVars
  <2>2. TypeOK'
    BY <2>1 DEF PInv, TypeOK
  <2>3. Standing'
    BY <2>1 DEF PInv, Standing, Stands
  <2>4. FileInv'
    BY <2>1 DEF PInv, FileInv, Restoring, Owned, DocumentsHaveFiles
  <2>. QED
    BY <2>2, <2>3, <2>4 DEF PInv
<1>. QED
  BY <1>1, <1>2, <1>3, <1>4, <1>5 DEF Next

LEMMA InductiveInvariant == Spec => []PInv
BY InitPInv, NextKeeps, PTL DEF Spec

--------------------------------------------------------------------------------
(* Theorems. *)

\* Lists, books, operations, documents, files and restores keep their types.
THEOREM TypeHolds == Spec => []TypeOK
<1>1. PInv => TypeOK
  BY DEF PInv
<1>. QED
  BY <1>1, InductiveInvariant, PTL

\* While an operation can be undone its books are just as it left them: the undo
\* of an import or of a bulk change (undo_operation) loses no later change.
THEOREM UndoLosesNothingHolds == Spec => []UndoLosesNothing
<1>1. PInv => UndoLosesNothing
  BY DEF PInv, Standing, Stands, UndoLosesNothing, Undoable
<1>. QED
  BY <1>1, InductiveInvariant, PTL

\* Every uploaded document has its file, whatever restores commit, fail or end
\* half way (_restore_snapshot and its clean-up).
THEOREM DocumentsHaveFilesHolds == Spec => []DocumentsHaveFiles
<1>1. PInv => DocumentsHaveFiles
  BY DEF PInv, FileInv
<1>. QED
  BY <1>1, InductiveInvariant, PTL
================================================================================
