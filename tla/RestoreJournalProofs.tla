-------------------------- MODULE RestoreJournalProofs --------------------------
(***************************************************************************)
(* Proofs about RestoreJournal: no restore loses a committed transaction,  *)
(* mixes a log with a file that is not its own where none was left behind, *)
(* or replaces the database twice, for any number of requests, keys,       *)
(* connections, backups and crashes.                                       *)
(*                                                                         *)
(* The invariant has two halves: what the files hold, and where the        *)
(* requests, the fence and the journal are.  Most steps disturb one half,  *)
(* and the lemmas of the first section say when a half stays.              *)
(***************************************************************************)
EXTENDS RestoreJournal, TLAPS

Before == {"prepare", "fence", "close", "checkpoint", "ready"}
Closed == {"checkpoint", "ready", "replace", "unlink", "swapped"}
Work   == Before \cup Closed \cup {"finish"}
Places == Work \cup {"idle", "done", "refused", "failed", "lost"}

Entries == [phase : {"NONE", "RUNNING", "SWAP_READY", "SWAPPED", "SUCCEEDED"},
            backup : BackupIds \cup {None}, pre : BackupIds \cup {None}, target : SUBSET Txs]

DataType ==
    /\ main \subseteq Txs /\ wal \subseteq Txs /\ committed \subseteq Txs /\ expected \subseteq Txs
    /\ gen \in Nat /\ busy \in BOOLEAN /\ foreign \in BOOLEAN
    /\ reading \in [BackupIds -> [on : BOOLEAN, txs : SUBSET Txs, gen : Nat, cut : BOOLEAN]]
    /\ backups \in [BackupIds -> [kind : {"NONE", "daily", "manual", "pre_restore"}, txs : SUBSET Txs]]

ControlType ==
    /\ open \subseteq Connections /\ fence \in BOOLEAN /\ lock \in Requests \cup {None}
    /\ journal \in [Keys -> Entries]
    /\ pc \in [Requests -> Places]
    /\ key \in [Requests -> Keys \cup {None}]
    /\ base \in [Requests -> BackupIds \cup {None}]
    /\ copy \in [Requests -> SUBSET Txs]
    /\ pre \in [Requests -> BackupIds \cup {None}]
    /\ swaps \in [Keys -> Nat] /\ crashes \in Nat

\* From the pre_restore backup on, a pre_restore backup has all that was committed.
Kept == \A r \in Requests : pc[r] \in Closed => \A t \in committed :
    \E b \in BackupIds : backups[b].kind = "pre_restore" /\ t \in backups[b].txs

\* The log is empty from the checkpoint on, if that could empty it.
LogGone == \A r \in Requests : pc[r] \in {"ready", "replace", "unlink"} /\ ~busy => wal = {}

\* The new file is as it was restored until the log of the old one is removed,
\* unless someone saw that log.
Clean == \A r \in Requests : pc[r] = "unlink" /\ ~foreign =>
    main = expected /\ (busy => Readers = {})

\* What a backup under way reads is in the database, and after its log was removed
\* under it in the file.
ReadInv == \A b \in BackupIds : reading[b].on =>
    /\ reading[b].gen <= gen
    /\ backups[b].kind = "NONE"
    /\ reading[b].gen = gen /\ reading[b].cut => foreign \/ reading[b].txs \subseteq main
    /\ reading[b].gen = gen /\ ~reading[b].cut => reading[b].txs \subseteq Live

\* The request that works on a restore holds the lock; the database stays fenced
\* and without connections from the pre_restore backup to the swap.
Fenced == \A r \in Requests :
    /\ pc[r] \in Work <=> lock = r
    /\ pc[r] \in Closed \cup {"close"} => fence
    /\ pc[r] \in Closed => open = {}

\* Where the journal is while a request works.
Journaled == \A r \in Requests :
    /\ pc[r] \in Work => key[r] \in Keys
    /\ pc[r] \in Before => journal[key[r]].phase = "RUNNING"
    /\ pc[r] = "replace" => journal[key[r]].phase = "SWAP_READY" /\ swaps[key[r]] = 0
    /\ pc[r] \in {"unlink", "swapped"} => journal[key[r]].phase = "SWAP_READY"

Data    == DataType /\ Kept /\ LogGone /\ Clean /\ ReadInv /\ NothingLost /\ RestoredExactly
Control == ControlType /\ Fenced /\ Journaled /\ SwapsOnce
RInv    == Data /\ Control

LEMMA InitRInv == Init => RInv
<1>. SUFFICES ASSUME Init PROVE RInv
  OBVIOUS
<1>1. DataType
  BY RestoreAssumption DEF Init, DataType, NoBackup, NotReading
<1>2. Kept /\ LogGone /\ Clean /\ ReadInv
  BY DEF Init, Kept, LogGone, Clean, ReadInv, Closed, NotReading
<1>3. NothingLost /\ RestoredExactly
  BY DEF Init, NothingLost, RestoredExactly, Live
<1>4. ControlType
  BY RestoreAssumption DEF Init, ControlType, Entries, Places, Work, NoEntry
<1>5. Fenced /\ Journaled /\ SwapsOnce
  BY RestoreAssumption DEF Init, Fenced, Journaled, SwapsOnce, Before, Closed, Work, NoEntry
<1>. QED
  BY <1>1, <1>2, <1>3, <1>4, <1>5 DEF RInv, Data, Control

--------------------------------------------------------------------------------
(* What a half of the invariant depends on. *)

\* A step that leaves the files and the backups alone and takes no request into a
\* part of the restore that says something about them.
LEMMA DataFrame ==
  ASSUME Data, UNCHANGED <<dbVars, backups>>,
         \A r \in Requests : pc'[r] \in Closed => pc[r] \in Closed,
         \A r \in Requests : pc'[r] \in {"ready", "replace"} => pc[r] \in {"ready", "replace"},
         \A r \in Requests : pc'[r] = "unlink" <=> pc[r] = "unlink"
  PROVE  Data'
<1>1. DataType' /\ NothingLost'
  BY DEF Data, DataType, NothingLost, Live, dbVars
<1>2. Kept' /\ LogGone'
  BY DEF Data, Kept, LogGone, dbVars
<1>3. Clean' /\ ReadInv'
  BY DEF Data, Clean, ReadInv, Readers, Live, dbVars
<1>4. RestoredExactly'
  BY DEF Data, RestoredExactly, LogLeft, Live, dbVars
<1>. QED
  BY <1>1, <1>2, <1>3, <1>4 DEF Data

\* A step that changes only files, backups and connections, and opens none.
LEMMA ControlFrame ==
  ASSUME Control, UNCHANGED <<fence, lock, journal, reqVars, swaps, crashes>>, open' \subseteq open
  PROVE  Control'
<1>1. ControlType'
  BY DEF Control, ControlType, reqVars
<1>2. Fenced' /\ Journaled' /\ SwapsOnce'
  BY DEF Control, Fenced, Journaled, SwapsOnce, reqVars
<1>. QED
  BY <1>1, <1>2 DEF Control

\* Transactions move from the log to the file, backups end, and no pre_restore
\* backup goes; while the log of a replaced file is there, nothing moves.
LEMMA LogMoves ==
  ASSUME Data, DataType', UNCHANGED <<gen, committed, expected, busy, foreign, pc>>,
         main \subseteq main', wal' \subseteq wal,
         Live' = Live \/ (foreign /\ Live \subseteq Live'),
         \A r \in Requests : pc[r] = "unlink" => foreign \/ main' = main,
         \A b \in BackupIds : reading'[b] = reading[b] \/ ~reading'[b].on,
         \A b \in BackupIds : backups[b].kind = "pre_restore" => backups'[b] = backups[b],
         \A b \in BackupIds : reading'[b].on => backups'[b] = backups[b]
  PROVE  Data'
<1>1. Kept' /\ LogGone'
  BY DEF Data, Kept, LogGone
<1>2. Clean'
  <2>1. Readers' \subseteq Readers
    BY DEF Readers
  <2>. QED
    BY <2>1 DEF Data, Clean
<1>3. ReadInv'
  BY DEF Data, ReadInv
<1>4. NothingLost'
  BY DEF Data, NothingLost
<1>5. RestoredExactly'
  BY DEF Data, RestoredExactly, LogLeft
<1>. QED
  BY <1>1, <1>2, <1>3, <1>4, <1>5 DEF Data

\* A restore is given up, and with a crash every backup: a log that is left is
\* there for others.
LEMMA GivenUp ==
  ASSUME Data, DataType', UNCHANGED <<main, wal, gen, committed, expected, busy, backups>>,
         foreign' = (foreign \/ LogLeft),
         \A r \in Requests : pc'[r] \in Closed => pc'[r] = pc[r],
         \A b \in BackupIds : reading'[b] = reading[b] \/ ~reading'[b].on
  PROVE  Data'
<1>1. Kept' /\ LogGone'
  BY DEF Data, Kept, LogGone, Closed
<1>2. Clean'
  <2>1. Readers' \subseteq Readers
    BY DEF Readers
  <2>. QED
    BY <2>1 DEF Data, Clean, Closed
<1>3. ReadInv'
  BY DEF Data, ReadInv, Live
<1>4. NothingLost'
  BY DEF Data, NothingLost, Live
<1>5. RestoredExactly'
  BY DEF Data, RestoredExactly, Live
<1>. QED
  BY <1>1, <1>2, <1>3, <1>4, <1>5 DEF Data

\* A phase that is noted changes nothing else of the journal.
LEMMA SetPhaseKeeps ==
  ASSUME ControlType, NEW k \in Keys, NEW phase \in {"SWAPPED", "SUCCEEDED"}, SetPhase(k, phase)
  PROVE  /\ journal' \in [Keys -> Entries]
         /\ journal'[k].phase = phase
         /\ \A q \in Keys : q # k => journal'[q] = journal[q]
<1>. DEFINE entry == [journal[k] EXCEPT !.phase = phase]
<1>1. journal' = [journal EXCEPT ![k] = entry]
  BY DEF SetPhase
<1>2. entry.phase = phase /\ entry \in Entries
  BY ZenonT(40) DEF ControlType, Entries
<1>. HIDE DEF entry
<1>. QED
  BY <1>1, <1>2 DEF ControlType

--------------------------------------------------------------------------------
(* The rest of the server. *)

\* A connection is opened only while nothing is fenced.
LEMMA ConnectKeeps == \A c \in Connections : RInv /\ Connect(c) => RInv'
<1>. USE RestoreAssumption
<1>. SUFFICES ASSUME NEW c \in Connections, RInv, Connect(c) PROVE RInv'
  OBVIOUS
<1>0. /\ DataType /\ Kept /\ LogGone /\ Clean /\ ReadInv /\ NothingLost /\ RestoredExactly
      /\ ControlType /\ Fenced /\ Journaled /\ SwapsOnce
  BY DEF RInv, Data, Control
<1>1. Data'
  BY <1>0, DataFrame DEF Data, Closed, ControlType, Connect, dbVars, reqVars
<1>2. ControlType'
  BY <1>0 DEF ControlType, Entries, Places, Work, Before, Closed, Connect, reqVars
<1>3. Fenced'
  BY <1>0 DEF Fenced, Work, Before, Closed, ControlType, Connect, reqVars
<1>4. Journaled'
  BY <1>0 DEF Journaled, Work, Before, Closed, ControlType, Connect, reqVars
<1>5. SwapsOnce'
  BY <1>0 DEF SwapsOnce, ControlType, Connect, reqVars
<1>. QED
  BY <1>1, <1>2, <1>3, <1>4, <1>5 DEF RInv, Control

\* A commit needs a connection: no restore is past its closing of them.
LEMMA CommitKeeps == \A c \in Connections, t \in Txs : RInv /\ Commit(c, t) => RInv'
<1>. USE RestoreAssumption
<1>. SUFFICES ASSUME NEW c \in Connections, NEW t \in Txs, RInv, Commit(c, t) PROVE RInv'
  OBVIOUS
<1>0. /\ DataType /\ Kept /\ LogGone /\ Clean /\ ReadInv /\ NothingLost /\ RestoredExactly
      /\ ControlType /\ Fenced /\ Journaled /\ SwapsOnce
  BY DEF RInv, Data, Control
<1>a. \A r \in Requests : pc[r] \notin Closed
  BY <1>0 DEF Fenced, Commit
<1>1. Control'
  BY <1>0, ControlFrame DEF Control, Commit
<1>2. Data'
  <2>1. Live' = Live \cup {t}
    BY DEF Live, Commit
  <2>2. DataType'
    BY <1>0 DEF DataType, Commit
  <2>3. Kept' /\ LogGone' /\ Clean'
    BY <1>a DEF Kept, LogGone, Clean, Closed, Commit, reqVars
  <2>4. ReadInv'
    BY <1>0, <2>1 DEF ReadInv, Commit
  <2>5. NothingLost' /\ RestoredExactly'
    BY <1>0, <1>a, <2>1 DEF NothingLost, RestoredExactly, LogLeft, Closed, Commit, reqVars
  <2>. QED
    BY <2>2, <2>3, <2>4, <2>5 DEF Data
<1>. QED
  BY <1>1, <1>2 DEF RInv

\* A checkpoint moves transactions, it loses none.
LEMMA CheckpointKeeps == \A c \in Connections : RInv /\ Checkpoint(c) => RInv'
<1>. USE RestoreAssumption
<1>. SUFFICES ASSUME NEW c \in Connections, RInv, Checkpoint(c) PROVE RInv'
  OBVIOUS
<1>0. /\ DataType /\ Kept /\ LogGone /\ Clean /\ ReadInv /\ NothingLost /\ RestoredExactly
      /\ ControlType /\ Fenced /\ Journaled /\ SwapsOnce
  BY DEF RInv, Data, Control
<1>1. Control'
  BY <1>0, ControlFrame DEF Control, Checkpoint
<1>a. \A r \in Requests : pc[r] # "unlink"
  BY <1>0 DEF Fenced, Closed, Checkpoint
<1>b. Copied \subseteq wal
  BY DEF Copied
<1>c. DataType' /\ main \subseteq main' /\ Live' = Live
  BY <1>0, <1>b DEF DataType, Live, Checkpoint
<1>2. Data'
  BY <1>0, <1>a, <1>c, LogMoves DEF Data, Checkpoint, reqVars
<1>. QED
  BY <1>1, <1>2 DEF RInv

\* So does the last connection to be closed.
LEMMA CloseKeeps == \A c \in Connections : RInv /\ Close(c) => RInv'
<1>. USE RestoreAssumption
<1>. SUFFICES ASSUME NEW c \in Connections, RInv, Close(c) PROVE RInv'
  OBVIOUS
<1>0. /\ DataType /\ Kept /\ LogGone /\ Clean /\ ReadInv /\ NothingLost /\ RestoredExactly
      /\ ControlType /\ Fenced /\ Journaled /\ SwapsOnce
  BY DEF RInv, Data, Control
<1>1. Control'
  BY <1>0, ControlFrame DEF Control, Close
<1>a. \A r \in Requests : pc[r] # "unlink"
  BY <1>0 DEF Fenced, Closed, Close
<1>b. DataType' /\ main \subseteq main' /\ wal' \subseteq wal /\ Live' = Live
  BY <1>0 DEF DataType, Live, CloseFiles, Close
<1>2. Data'
  BY <1>0, <1>a, <1>b, LogMoves DEF Data, Close, reqVars
<1>. QED
  BY <1>1, <1>2 DEF RInv

\* What a backup reads is what is there; one that is begun while a log is left may
\* have opened that.
LEMMA BeginBackupKeeps == \A b \in BackupIds : RInv /\ BeginBackup(b) => RInv'
<1>. USE RestoreAssumption
<1>. SUFFICES ASSUME NEW b \in BackupIds, RInv, BeginBackup(b) PROVE RInv'
  OBVIOUS
<1>0. /\ DataType /\ Kept /\ LogGone /\ Clean /\ ReadInv /\ NothingLost /\ RestoredExactly
      /\ ControlType /\ Fenced /\ Journaled /\ SwapsOnce
  BY DEF RInv, Data, Control
<1>1. Control'
  BY <1>0, ControlFrame DEF Control, BeginBackup
<1>a. /\ reading'[b] = [on |-> TRUE, txs |-> Live, gen |-> gen, cut |-> FALSE]
      /\ \A q \in BackupIds : q # b => reading'[q] = reading[q]
  BY <1>0 DEF DataType, BeginBackup
<1>2. Data'
  <2>1. DataType'
    BY <1>0 DEF DataType, Live, BeginBackup
  <2>2. Kept' /\ LogGone'
    BY <1>0 DEF Kept, LogGone, BeginBackup, reqVars
  <2>3. Clean'
    <3>1. SUFFICES ASSUME NEW r \in Requests, pc[r] = "unlink", ~foreign'
                   PROVE  main = expected /\ ~busy
      BY DEF Clean, BeginBackup, reqVars
    <3>. QED
      BY <1>0, <3>1 DEF Clean, LogLeft, BeginBackup
  <2>4. ReadInv'
    <3>1. Live' = Live
      BY DEF Live, BeginBackup
    <3>2. ASSUME NEW q \in BackupIds, reading'[q].on
          PROVE  /\ reading'[q].gen <= gen'
                 /\ backups'[q].kind = "NONE"
                 /\ reading'[q].gen = gen' /\ reading'[q].cut => foreign' \/ reading'[q].txs \subseteq main'
                 /\ reading'[q].gen = gen' /\ ~reading'[q].cut => reading'[q].txs \subseteq Live'
      <4>1. CASE q = b
        BY <1>0, <1>a, <3>1, <4>1 DEF DataType, BeginBackup
      <4>2. CASE q # b
        BY <1>0, <1>a, <3>1, <3>2, <4>2 DEF ReadInv, BeginBackup
      <4>. QED
        BY <4>1, <4>2
    <3>. QED
      BY <3>2 DEF ReadInv
  <2>5. NothingLost' /\ RestoredExactly'
    BY <1>0 DEF NothingLost, RestoredExactly, Live, LogLeft, BeginBackup, reqVars
  <2>. QED
    BY <2>1, <2>2, <2>3, <2>4, <2>5 DEF Data
<1>. QED
  BY <1>1, <1>2 DEF RInv

\* A backup that ends leaves a replaced file alone, and one whose log was removed has
\* nothing that the file lacks; it takes the place of daily ones only.
LEMMA EndBackupKeeps == \A b \in BackupIds : RInv /\ EndBackup(b) => RInv'
<1>. USE RestoreAssumption
<1>. SUFFICES ASSUME NEW b \in BackupIds, RInv, EndBackup(b) PROVE RInv'
  OBVIOUS
<1>0. /\ DataType /\ Kept /\ LogGone /\ Clean /\ ReadInv /\ NothingLost /\ RestoredExactly
      /\ ControlType /\ Fenced /\ Journaled /\ SwapsOnce
  BY DEF RInv, Data, Control
<1>1. Control'
  BY <1>0, ControlFrame DEF Control, EndBackup
<1>a. /\ ~reading'[b].on
      /\ \A q \in BackupIds : q # b => reading'[q] = reading[q]
      /\ reading' \in [BackupIds -> [on : BOOLEAN, txs : SUBSET Txs, gen : Nat, cut : BOOLEAN]]
  BY <1>0 DEF DataType, EndBackup, NotReading
<1>b. /\ main' \subseteq Txs /\ main \subseteq main' /\ wal' \subseteq wal
      /\ Live' = Live \/ (foreign /\ Live \subseteq Live')
      /\ \A r \in Requests : pc[r] = "unlink" => foreign \/ main' = main
  <2>1. CASE b \in Readers /\ CloseFiles(open = {} /\ Readers = {b})
    <3>1. \A r \in Requests : pc[r] = "unlink" => foreign \/ wal = {}
      BY <1>0, <2>1 DEF Clean, LogGone
    <3>. QED
      BY <1>0, <2>1, <3>1 DEF DataType, CloseFiles, Live
  <2>2. CASE b \notin Readers /\ reading[b].gen = gen /\ main' = main \cup reading[b].txs /\ wal' = wal
    <3>1. reading[b].on /\ reading[b].txs \subseteq Txs
      BY <1>0 DEF DataType, EndBackup
    <3>2. foreign \/ reading[b].txs \subseteq main
      BY <1>0, <2>2, <3>1 DEF ReadInv, Readers
    <3>. QED
      BY <1>0, <2>2, <3>1, <3>2 DEF DataType, Live
  <2>3. CASE UNCHANGED <<main, wal>>
    BY <1>0, <2>3 DEF DataType, Live
  <2>. QED
    BY <2>1, <2>2, <2>3 DEF EndBackup
<1>c. /\ backups' \in [BackupIds -> [kind : {"NONE", "daily", "manual", "pre_restore"}, txs : SUBSET Txs]]
      /\ \A q \in BackupIds : backups[q].kind = "pre_restore" => backups'[q] = backups[q]
      /\ \A q \in BackupIds : q # b /\ reading[q].on => backups'[q] = backups[q]
  <2>1. CASE UNCHANGED backups
    BY <1>0, <2>1 DEF DataType
  <2>2. CASE backups' # backups
    <3>1. PICK kind \in {"daily", "manual"},
               expired \in SUBSET {e \in BackupIds : backups[e].kind = "daily"} :
            backups' = [e \in BackupIds |->
                IF e = b THEN [kind |-> kind, txs |-> reading[b].txs]
                ELSE IF e \in expired THEN NoBackup ELSE backups[e]]
      BY <2>2 DEF EndBackup
    <3>2. reading[b].txs \subseteq Txs /\ backups[b].kind = "NONE"
      BY <1>0 DEF DataType, ReadInv, EndBackup
    <3>3. backups' \in [BackupIds -> [kind : {"NONE", "daily", "manual", "pre_restore"}, txs : SUBSET Txs]]
      BY <1>0, <3>1, <3>2 DEF DataType, NoBackup
    <3>4. \A q \in BackupIds : backups[q].kind = "pre_restore" => backups'[q] = backups[q]
      BY <3>1, <3>2
    <3>5. \A q \in BackupIds : q # b /\ reading[q].on => backups'[q] = backups[q]
      BY <1>0, <3>1 DEF ReadInv
    <3>. QED
      BY <3>3, <3>4, <3>5
  <2>. QED
    BY <2>1, <2>2
<1>2. Data'
  <2>1. DataType'
    BY <1>0, <1>a, <1>b, <1>c DEF DataType, EndBackup
  <2>2. /\ \A q \in BackupIds : reading'[q] = reading[q] \/ ~reading'[q].on
        /\ \A q \in BackupIds : reading'[q].on => backups'[q] = backups[q]
    BY <1>a, <1>c
  <2>. QED
    BY <1>0, <1>b, <1>c, <2>1, <2>2, LogMoves DEF Data, EndBackup, reqVars
<1>. QED
  BY <1>1, <1>2 DEF RInv

\* A crash leaves the files, the log and the journal.
LEMMA CrashKeeps == RInv /\ Crash => RInv'
<1>. USE RestoreAssumption
<1>. SUFFICES ASSUME RInv, Crash PROVE RInv'
  OBVIOUS
<1>0. /\ DataType /\ Kept /\ LogGone /\ Clean /\ ReadInv /\ NothingLost /\ RestoredExactly
      /\ ControlType /\ Fenced /\ Journaled /\ SwapsOnce
  BY DEF RInv, Data, Control
<1>a. DataType' /\ \A b \in BackupIds : ~reading'[b].on
  BY <1>0 DEF DataType, NotReading, Crash
<1>b. \A r \in Requests : pc'[r] \notin Work
  BY <1>0 DEF ControlType, Fenced, Work, Before, Closed, Crash
<1>1. Data'
  BY <1>0, <1>a, <1>b, GivenUp DEF Data, Work, Crash
<1>2. ControlType'
  <2>1. pc' \in [Requests -> Places]
    BY <1>0 DEF ControlType, Places, Crash
  <2>2. open' \subseteq Connections /\ fence' \in BOOLEAN /\ lock' \in Requests \cup {None}
    BY DEF Crash
  <2>3. crashes' \in Nat
    BY <1>0 DEF ControlType, Crash
  <2>. QED
    BY <1>0, <2>1, <2>2, <2>3 DEF ControlType, Crash
<1>3. Fenced'
  BY <1>0 DEF Fenced, Work, Before, Closed, ControlType, Crash
<1>4. Journaled'
  BY <1>0 DEF Journaled, Work, Before, Closed, ControlType, Crash
<1>5. SwapsOnce'
  BY <1>0 DEF SwapsOnce, ControlType, Crash
<1>. QED
  BY <1>1, <1>2, <1>3, <1>4, <1>5 DEF RInv, Control

--------------------------------------------------------------------------------
(* A restore. *)

\* Nothing changes.
LEMMA RefuseKeeps == \A r \in Requests, k \in Keys, b \in BackupIds : RInv /\ Refuse(r, k, b) => RInv'
<1>. USE RestoreAssumption
<1>. SUFFICES ASSUME NEW r \in Requests, NEW k \in Keys, NEW b \in BackupIds, RInv, Refuse(r, k, b) PROVE RInv'
  OBVIOUS
<1>0. /\ DataType /\ Kept /\ LogGone /\ Clean /\ ReadInv /\ NothingLost /\ RestoredExactly
      /\ ControlType /\ Fenced /\ Journaled /\ SwapsOnce
  BY DEF RInv, Data, Control
<1>1. Data'
  BY <1>0, DataFrame DEF Data, Closed, ControlType, Refuse, Acquire, Goto, SetPhase, dbVars
<1>2. ControlType'
  BY <1>0 DEF ControlType, Entries, Places, Work, Before, Closed, Refuse, Acquire, Goto, SetPhase, dbVars
<1>3. Fenced'
  BY <1>0 DEF Fenced, Work, Before, Closed, ControlType, Refuse, Acquire, Goto, SetPhase, dbVars
<1>4. Journaled'
  BY <1>0 DEF Journaled, Work, Before, Closed, ControlType, Refuse, Acquire, Goto, SetPhase, dbVars
<1>5. SwapsOnce'
  BY <1>0 DEF SwapsOnce, ControlType, Refuse, Acquire, Goto, SetPhase, dbVars
<1>. QED
  BY <1>1, <1>2, <1>3, <1>4, <1>5 DEF RInv, Control

\* The stored answer is given.
LEMMA ReplayKeeps == \A r \in Requests, k \in Keys, b \in BackupIds : RInv /\ Replay(r, k, b) => RInv'
<1>. USE RestoreAssumption
<1>. SUFFICES ASSUME NEW r \in Requests, NEW k \in Keys, NEW b \in BackupIds, RInv, Replay(r, k, b) PROVE RInv'
  OBVIOUS
<1>0. /\ DataType /\ Kept /\ LogGone /\ Clean /\ ReadInv /\ NothingLost /\ RestoredExactly
      /\ ControlType /\ Fenced /\ Journaled /\ SwapsOnce
  BY DEF RInv, Data, Control
<1>1. Data'
  BY <1>0, DataFrame DEF Data, Closed, ControlType, Replay, Acquire, Goto, SetPhase, dbVars
<1>2. ControlType'
  BY <1>0 DEF ControlType, Entries, Places, Work, Before, Closed, Replay, Acquire, Goto, SetPhase, dbVars
<1>3. Fenced'
  BY <1>0 DEF Fenced, Work, Before, Closed, ControlType, Replay, Acquire, Goto, SetPhase, dbVars
<1>4. Journaled'
  BY <1>0 DEF Journaled, Work, Before, Closed, ControlType, Replay, Acquire, Goto, SetPhase, dbVars
<1>5. SwapsOnce'
  BY <1>0 DEF SwapsOnce, ControlType, Replay, Acquire, Goto, SetPhase, dbVars
<1>. QED
  BY <1>1, <1>2, <1>3, <1>4, <1>5 DEF RInv, Control

\* The swap before the crash is noted.
LEMMA RecoverSwapKeeps == \A r \in Requests, k \in Keys, b \in BackupIds : RInv /\ RecoverSwap(r, k, b) => RInv'
<1>. USE RestoreAssumption
<1>. SUFFICES ASSUME NEW r \in Requests, NEW k \in Keys, NEW b \in BackupIds, RInv, RecoverSwap(r, k, b) PROVE RInv'
  OBVIOUS
<1>0. /\ DataType /\ Kept /\ LogGone /\ Clean /\ ReadInv /\ NothingLost /\ RestoredExactly
      /\ ControlType /\ Fenced /\ Journaled /\ SwapsOnce
  BY DEF RInv, Data, Control
<1>a. \A q \in Requests : pc[q] \notin Work
  BY <1>0 DEF Fenced, Work, ControlType, RecoverSwap, Acquire
<1>b. /\ journal' \in [Keys -> Entries]
      /\ journal'[k].phase = "SWAPPED"
      /\ \A q \in Keys : q # k => journal'[q] = journal[q]
  BY <1>0, SetPhaseKeeps DEF RecoverSwap
<1>1. Data'
  BY <1>0, <1>a, DataFrame DEF Data, Closed, ControlType, RecoverSwap, Acquire, Goto, dbVars
<1>2. ControlType'
  BY <1>0, <1>a, <1>b DEF ControlType, Entries, Places, Work, Before, Closed, RecoverSwap, Acquire, Goto, dbVars
<1>3. Fenced'
  BY <1>0, <1>a, <1>b DEF Fenced, Work, Before, Closed, ControlType, RecoverSwap, Acquire, Goto, dbVars
<1>4. Journaled'
  BY <1>0, <1>a, <1>b DEF Journaled, Work, Before, Closed, ControlType, RecoverSwap, Acquire, Goto, dbVars
<1>5. SwapsOnce'
  BY <1>0, <1>a, <1>b DEF SwapsOnce, ControlType, RecoverSwap, Acquire, Goto, dbVars
<1>. QED
  BY <1>1, <1>2, <1>3, <1>4, <1>5 DEF RInv, Control

\* The end of the operation is taken up.
LEMMA ResumeKeeps == \A r \in Requests, k \in Keys, b \in BackupIds : RInv /\ Resume(r, k, b) => RInv'
<1>. USE RestoreAssumption
<1>. SUFFICES ASSUME NEW r \in Requests, NEW k \in Keys, NEW b \in BackupIds, RInv, Resume(r, k, b) PROVE RInv'
  OBVIOUS
<1>0. /\ DataType /\ Kept /\ LogGone /\ Clean /\ ReadInv /\ NothingLost /\ RestoredExactly
      /\ ControlType /\ Fenced /\ Journaled /\ SwapsOnce
  BY DEF RInv, Data, Control
<1>a. \A q \in Requests : pc[q] \notin Work
  BY <1>0 DEF Fenced, Work, ControlType, Resume, Acquire
<1>1. Data'
  BY <1>0, <1>a, DataFrame DEF Data, Closed, ControlType, Resume, Acquire, Goto, SetPhase, dbVars
<1>2. ControlType'
  BY <1>0, <1>a DEF ControlType, Entries, Places, Work, Before, Closed, Resume, Acquire, Goto, SetPhase, dbVars
<1>3. Fenced'
  BY <1>0, <1>a DEF Fenced, Work, Before, Closed, ControlType, Resume, Acquire, Goto, SetPhase, dbVars
<1>4. Journaled'
  BY <1>0, <1>a DEF Journaled, Work, Before, Closed, ControlType, Resume, Acquire, Goto, SetPhase, dbVars
<1>5. SwapsOnce'
  BY <1>0, <1>a DEF SwapsOnce, ControlType, Resume, Acquire, Goto, SetPhase, dbVars
<1>. QED
  BY <1>1, <1>2, <1>3, <1>4, <1>5 DEF RInv, Control

\* An operation that starts has not replaced the file.
LEMMA StartKeeps == \A r \in Requests, k \in Keys, b \in BackupIds : RInv /\ Start(r, k, b) => RInv'
<1>. USE RestoreAssumption
<1>. SUFFICES ASSUME NEW r \in Requests, NEW k \in Keys, NEW b \in BackupIds, RInv, Start(r, k, b) PROVE RInv'
  OBVIOUS
<1>0. /\ DataType /\ Kept /\ LogGone /\ Clean /\ ReadInv /\ NothingLost /\ RestoredExactly
      /\ ControlType /\ Fenced /\ Journaled /\ SwapsOnce
  BY DEF RInv, Data, Control
<1>a. \A q \in Requests : pc[q] \notin Work
  BY <1>0 DEF Fenced, Work, ControlType, Start, Acquire
<1>1. Data'
  BY <1>0, <1>a, DataFrame DEF Data, Closed, ControlType, Start, Acquire, Goto, SetPhase, dbVars
<1>2. ControlType'
  BY <1>0, <1>a DEF ControlType, Entries, Places, Work, Before, Closed, Start, Acquire, Goto, SetPhase, dbVars
<1>3. Fenced'
  BY <1>0, <1>a DEF Fenced, Work, Before, Closed, ControlType, Start, Acquire, Goto, SetPhase, dbVars
<1>4. Journaled'
  BY <1>0, <1>a DEF Journaled, Work, Before, Closed, ControlType, Start, Acquire, Goto, SetPhase, dbVars
<1>5. SwapsOnce'
  BY <1>0, <1>a DEF SwapsOnce, ControlType, Start, Acquire, Goto, SetPhase, dbVars
<1>. QED
  BY <1>1, <1>2, <1>3, <1>4, <1>5 DEF RInv, Control

\* The copy is made.
LEMMA PrepareKeeps == \A r \in Requests : RInv /\ Prepare(r) => RInv'
<1>. USE RestoreAssumption
<1>. SUFFICES ASSUME NEW r \in Requests, RInv, Prepare(r) PROVE RInv'
  OBVIOUS
<1>0. /\ DataType /\ Kept /\ LogGone /\ Clean /\ ReadInv /\ NothingLost /\ RestoredExactly
      /\ ControlType /\ Fenced /\ Journaled /\ SwapsOnce
  BY DEF RInv, Data, Control
<1>a. key[r] \in Keys /\ \A q \in Requests : q # r => pc[q] \notin Work
  BY <1>0 DEF Fenced, Journaled, ControlType, Work, Before, Closed, Prepare
<1>1. Data'
  BY <1>0, <1>a, DataFrame DEF Data, Closed, ControlType, Prepare, Goto, dbVars
<1>2. ControlType'
  <2>1. backups[base[r]].txs \subseteq Txs
    BY <1>0 DEF DataType, ControlType, Exists, Prepare
  <2>. QED
    BY <1>0, <2>1 DEF ControlType, Places, Work, Before, Closed, Prepare, Goto
<1>3. Fenced'
  BY <1>0, <1>a DEF Fenced, Work, Before, Closed, ControlType, Prepare, Goto, reqVars
<1>4. Journaled'
  BY <1>0, <1>a DEF Journaled, Work, Before, Closed, ControlType, Prepare, Goto, reqVars
<1>5. SwapsOnce'
  BY <1>0, <1>a DEF SwapsOnce, ControlType, Prepare, Goto, reqVars
<1>. QED
  BY <1>1, <1>2, <1>3, <1>4, <1>5 DEF RInv, Control

\* New connections wait from here on.
LEMMA FenceKeeps == \A r \in Requests : RInv /\ Fence(r) => RInv'
<1>. USE RestoreAssumption
<1>. SUFFICES ASSUME NEW r \in Requests, RInv, Fence(r) PROVE RInv'
  OBVIOUS
<1>0. /\ DataType /\ Kept /\ LogGone /\ Clean /\ ReadInv /\ NothingLost /\ RestoredExactly
      /\ ControlType /\ Fenced /\ Journaled /\ SwapsOnce
  BY DEF RInv, Data, Control
<1>a. key[r] \in Keys /\ \A q \in Requests : q # r => pc[q] \notin Work
  BY <1>0 DEF Fenced, Journaled, ControlType, Work, Before, Closed, Fence
<1>1. Data'
  BY <1>0, <1>a, DataFrame DEF Data, Closed, ControlType, Fence, Goto, dbVars
<1>2. ControlType'
  BY <1>0, <1>a DEF ControlType, Entries, Places, Work, Before, Closed, Fence, Goto, reqVars
<1>3. Fenced'
  BY <1>0, <1>a DEF Fenced, Work, Before, Closed, ControlType, Fence, Goto, reqVars
<1>4. Journaled'
  BY <1>0, <1>a DEF Journaled, Work, Before, Closed, ControlType, Fence, Goto, reqVars
<1>5. SwapsOnce'
  BY <1>0, <1>a DEF SwapsOnce, ControlType, Fence, Goto, reqVars
<1>. QED
  BY <1>1, <1>2, <1>3, <1>4, <1>5 DEF RInv, Control

\* A connection is closed: nothing is replaced yet.
LEMMA CloseOneKeeps == \A r \in Requests : RInv /\ CloseOne(r) => RInv'
<1>. USE RestoreAssumption
<1>. SUFFICES ASSUME NEW r \in Requests, RInv, CloseOne(r) PROVE RInv'
  OBVIOUS
<1>0. /\ DataType /\ Kept /\ LogGone /\ Clean /\ ReadInv /\ NothingLost /\ RestoredExactly
      /\ ControlType /\ Fenced /\ Journaled /\ SwapsOnce
  BY DEF RInv, Data, Control
<1>1. Control'
  BY <1>0, ControlFrame DEF Control, CloseOne
<1>a. key[r] \in Keys /\ \A q \in Requests : q # r => pc[q] \notin Work
  BY <1>0 DEF Fenced, Journaled, ControlType, Work, Before, Closed, CloseOne
<1>b. DataType' /\ main \subseteq main' /\ wal' \subseteq wal /\ Live' = Live
  BY <1>0 DEF DataType, Live, CloseFiles, CloseOne
<1>c. \A q \in Requests : pc[q] # "unlink"
  BY <1>a DEF Work, Closed, CloseOne
<1>2. Data'
  BY <1>0, <1>b, <1>c, LogMoves DEF Data, CloseOne, reqVars
<1>. QED
  BY <1>1, <1>2 DEF RInv

\* What may be replaced is kept: what was committed is in the database, and so in the
\* copy, or in an earlier one.
LEMMA PreRestoreKeeps == \A r \in Requests, b \in BackupIds : RInv /\ PreRestore(r, b) => RInv'
<1>. USE RestoreAssumption
<1>. SUFFICES ASSUME NEW r \in Requests, NEW b \in BackupIds, RInv, PreRestore(r, b) PROVE RInv'
  OBVIOUS
<1>0. /\ DataType /\ Kept /\ LogGone /\ Clean /\ ReadInv /\ NothingLost /\ RestoredExactly
      /\ ControlType /\ Fenced /\ Journaled /\ SwapsOnce
  BY DEF RInv, Data, Control
<1>a. key[r] \in Keys /\ \A q \in Requests : q # r => pc[q] \notin Work
  BY <1>0 DEF Fenced, Journaled, ControlType, Work, Before, Closed, PreRestore
<1>b. main' \subseteq Txs /\ main \subseteq main' /\ wal' \subseteq wal /\ Live' = Live
  BY <1>0 DEF DataType, Live, CloseFiles, PreRestore
<1>c. /\ backups'[b] = [kind |-> "pre_restore", txs |-> Live]
      /\ \A q \in BackupIds : q # b => backups'[q] = backups[q]
      /\ backups[b].kind = "NONE" /\ ~reading[b].on
  BY <1>0 DEF DataType, PreRestore
<1>d. \A q \in Requests : pc'[q] \in Closed => q = r /\ pc'[q] = "checkpoint"
  BY <1>0, <1>a DEF ControlType, Work, PreRestore, Goto
<1>e. \A t \in committed : \E q \in BackupIds : backups'[q].kind = "pre_restore" /\ t \in backups'[q].txs
  BY <1>0, <1>c DEF NothingLost
<1>f. ~LogLeft
  BY <1>a DEF LogLeft, Work, Closed, PreRestore
<1>1. Data'
  <2>1. DataType'
    BY <1>0, <1>b DEF DataType, Live, PreRestore
  <2>2. Kept' /\ LogGone' /\ Clean' /\ NothingLost'
    BY <1>d, <1>e DEF Kept, LogGone, Clean, NothingLost, Closed, PreRestore
  <2>3. ReadInv'
    BY <1>0, <1>b, <1>c DEF ReadInv, PreRestore
  <2>4. RestoredExactly'
    BY <1>0, <1>b, <1>f DEF RestoredExactly, PreRestore
  <2>. QED
    BY <2>1, <2>2, <2>3, <2>4 DEF Data
<1>2. ControlType'
  BY <1>0, <1>a DEF ControlType, Entries, Places, Work, Before, Closed, PreRestore, Goto
<1>3. Fenced'
  BY <1>0, <1>a DEF Fenced, Work, Before, Closed, ControlType, PreRestore, Goto
<1>4. Journaled'
  BY <1>0, <1>a DEF Journaled, Work, Before, Closed, ControlType, PreRestore, Goto
<1>5. SwapsOnce'
  BY <1>0, <1>a DEF SwapsOnce, ControlType, PreRestore, Goto
<1>. QED
  BY <1>1, <1>2, <1>3, <1>4, <1>5 DEF RInv, Control

\* The log is copied into the file, or it is noted that it was not.
LEMMA TruncateKeeps == \A r \in Requests : RInv /\ Truncate(r) => RInv'
<1>. USE RestoreAssumption
<1>. SUFFICES ASSUME NEW r \in Requests, RInv, Truncate(r) PROVE RInv'
  OBVIOUS
<1>0. /\ DataType /\ Kept /\ LogGone /\ Clean /\ ReadInv /\ NothingLost /\ RestoredExactly
      /\ ControlType /\ Fenced /\ Journaled /\ SwapsOnce
  BY DEF RInv, Data, Control
<1>a. key[r] \in Keys /\ \A q \in Requests : q # r => pc[q] \notin Work
  BY <1>0 DEF Fenced, Journaled, ControlType, Work, Before, Closed, Truncate
<1>b. /\ DataType' /\ main \subseteq main' /\ Live' = Live
      /\ ~busy' => wal' = {}
  <2>1. Copied \subseteq wal
    BY DEF Copied
  <2>. QED
    BY <1>0, <2>1 DEF DataType, Live, Truncate
<1>c. \A q \in Requests : pc'[q] \in Closed => q = r /\ pc'[q] = "ready"
  BY <1>0, <1>a DEF ControlType, Work, Truncate, Goto
<1>d. ~LogLeft
  BY <1>a DEF LogLeft, Work, Closed, Truncate
<1>1. Data'
  <2>1. Kept'
    BY <1>0, <1>c DEF Kept, Closed, Truncate
  <2>2. LogGone' /\ Clean'
    BY <1>b, <1>c DEF LogGone, Clean, Closed
  <2>3. ReadInv'
    BY <1>0, <1>b DEF ReadInv, Truncate
  <2>4. NothingLost' /\ RestoredExactly'
    BY <1>0, <1>b, <1>d DEF NothingLost, RestoredExactly, Truncate
  <2>. QED
    BY <1>b, <2>1, <2>2, <2>3, <2>4 DEF Data
<1>2. ControlType'
  BY <1>0, <1>a DEF ControlType, Entries, Places, Work, Before, Closed, Truncate, Goto
<1>3. Fenced'
  BY <1>0, <1>a DEF Fenced, Work, Before, Closed, ControlType, Truncate, Goto
<1>4. Journaled'
  BY <1>0, <1>a DEF Journaled, Work, Before, Closed, ControlType, Truncate, Goto
<1>5. SwapsOnce'
  BY <1>0, <1>a DEF SwapsOnce, ControlType, Truncate, Goto
<1>. QED
  BY <1>1, <1>2, <1>3, <1>4, <1>5 DEF RInv, Control

\* The journal says that the file is about to be replaced.
LEMMA SwapReadyKeeps == \A r \in Requests : RInv /\ SwapReady(r) => RInv'
<1>. USE RestoreAssumption
<1>. SUFFICES ASSUME NEW r \in Requests, RInv, SwapReady(r) PROVE RInv'
  OBVIOUS
<1>0. /\ DataType /\ Kept /\ LogGone /\ Clean /\ ReadInv /\ NothingLost /\ RestoredExactly
      /\ ControlType /\ Fenced /\ Journaled /\ SwapsOnce
  BY DEF RInv, Data, Control
<1>a. key[r] \in Keys /\ \A q \in Requests : q # r => pc[q] \notin Work
  BY <1>0 DEF Fenced, Journaled, ControlType, Work, Before, Closed, SwapReady
<1>1. Data'
  BY <1>0, <1>a, DataFrame DEF Data, Closed, ControlType, SwapReady, Goto, dbVars
<1>2. ControlType'
  BY <1>0, <1>a DEF ControlType, Entries, Places, Work, Before, Closed, SwapReady, Goto, reqVars
<1>3. Fenced'
  BY <1>0, <1>a DEF Fenced, Work, Before, Closed, ControlType, SwapReady, Goto, reqVars
<1>4. Journaled'
  <2>1. swaps[key[r]] = 0
    <3>1. journal[key[r]].phase = "RUNNING"
      BY <1>0 DEF Journaled, Before, SwapReady
    <3>2. swaps[key[r]] \in Nat /\ swaps[key[r]] <= 1 /\ swaps[key[r]] # 1
      BY <1>0, <1>a, <3>1 DEF SwapsOnce, ControlType
    <3>. QED
      BY <3>2
  <2>2. journal'[key[r]].phase = "SWAP_READY" /\ pc'[r] = "replace"
    BY <1>0, <1>a DEF ControlType, SwapReady, Goto
  <2>3. \A q \in Requests : q # r => pc'[q] \notin Work
    BY <1>0, <1>a DEF ControlType, SwapReady, Goto
  <2>4. key' = key /\ swaps' = swaps
    BY DEF SwapReady
  <2>. QED
    BY <1>a, <2>1, <2>2, <2>3, <2>4 DEF Journaled, Work, Before, Closed
<1>5. SwapsOnce'
  BY <1>0, <1>a DEF SwapsOnce, ControlType, SwapReady, Goto, reqVars
<1>. QED
  BY <1>1, <1>2, <1>3, <1>4, <1>5 DEF RInv, Control

\* What goes with the old file is in a pre_restore backup.
LEMMA ReplaceKeeps == \A r \in Requests : RInv /\ Replace(r) => RInv'
<1>. USE RestoreAssumption
<1>. SUFFICES ASSUME NEW r \in Requests, RInv, Replace(r) PROVE RInv'
  OBVIOUS
<1>0. /\ DataType /\ Kept /\ LogGone /\ Clean /\ ReadInv /\ NothingLost /\ RestoredExactly
      /\ ControlType /\ Fenced /\ Journaled /\ SwapsOnce
  BY DEF RInv, Data, Control
<1>a. key[r] \in Keys /\ \A q \in Requests : q # r => pc[q] \notin Work
  BY <1>0 DEF Fenced, Journaled, ControlType, Work, Before, Closed, Replace
<1>b. \A q \in Requests : pc'[q] \in Closed => q = r /\ pc'[q] = "unlink"
  BY <1>0, <1>a DEF ControlType, Work, Replace, Goto
<1>c. main' = expected' /\ main' \subseteq Txs /\ wal' = wal /\ busy' = busy /\ ~foreign'
  BY <1>0 DEF ControlType, Replace
<1>d. ~busy => wal = {}
  BY <1>0 DEF LogGone, Replace
<1>1. Data'
  <2>1. DataType'
    <3>1. gen' \in Nat
      BY <1>0 DEF DataType, Replace
    <3>2. foreign' \in BOOLEAN
      BY Zenon DEF Replace
    <3>3. UNCHANGED <<wal, committed, reading, busy, backups>>
      BY DEF Replace
    <3>. QED
      BY <1>0, <1>c, <3>1, <3>2, <3>3 DEF DataType
  <2>2. Kept' /\ NothingLost'
    <3>1. \A t \in committed : \E b \in BackupIds :
              backups[b].kind = "pre_restore" /\ t \in backups[b].txs
      BY <1>0 DEF Kept, Closed, Replace
    <3>. QED
      BY <3>1 DEF Kept, NothingLost, Replace
  <2>3. LogGone'
    BY <1>c, <1>d DEF LogGone
  <2>4. \A b \in BackupIds : reading'[b].on => reading'[b].gen < gen'
    BY <1>0 DEF DataType, ReadInv, Replace
  <2>5. Clean'
    <3>1. Readers' = {}
      BY <1>0, <2>1, <2>4 DEF Readers, DataType
    <3>. QED
      BY <1>c, <3>1 DEF Clean
  <2>6. ReadInv'
    <3>1. \A b \in BackupIds : reading'[b].on => reading'[b].gen <= gen' /\ reading'[b].gen # gen'
      BY <2>1, <2>4 DEF DataType
    <3>2. \A b \in BackupIds : reading'[b].on => backups'[b].kind = "NONE"
      BY <1>0 DEF ReadInv, Replace
    <3>. QED
      BY <3>1, <3>2 DEF ReadInv
  <2>7. RestoredExactly'
    <3>1. pc'[r] = "unlink"
      BY <1>0 DEF ControlType, Replace, Goto
    <3>. QED
      BY <1>0, <1>c, <1>d, <3>1 DEF DataType, RestoredExactly, LogLeft, Live
  <2>. QED
    BY <2>1, <2>2, <2>3, <2>5, <2>6, <2>7 DEF Data
<1>2. ControlType'
  BY <1>0, <1>a DEF ControlType, Entries, Places, Work, Before, Closed, Replace, Goto
<1>3. Fenced'
  BY <1>0, <1>a DEF Fenced, Work, Before, Closed, ControlType, Replace, Goto
<1>4. Journaled'
  BY <1>0, <1>a DEF Journaled, Work, Before, Closed, ControlType, Replace, Goto
<1>5. SwapsOnce'
  BY <1>0, <1>a DEF SwapsOnce, Journaled, ControlType, Replace
<1>. QED
  BY <1>1, <1>2, <1>3, <1>4, <1>5 DEF RInv, Control

\* What is left is the restored file.
LEMMA UnlinkLogKeeps == \A r \in Requests : RInv /\ UnlinkLog(r) => RInv'
<1>. USE RestoreAssumption
<1>. SUFFICES ASSUME NEW r \in Requests, RInv, UnlinkLog(r) PROVE RInv'
  OBVIOUS
<1>0. /\ DataType /\ Kept /\ LogGone /\ Clean /\ ReadInv /\ NothingLost /\ RestoredExactly
      /\ ControlType /\ Fenced /\ Journaled /\ SwapsOnce
  BY DEF RInv, Data, Control
<1>a. key[r] \in Keys /\ \A q \in Requests : q # r => pc[q] \notin Work
  BY <1>0 DEF Fenced, Journaled, ControlType, Work, Before, Closed, UnlinkLog
<1>b. \A q \in Requests : pc'[q] \in Closed => q = r /\ pc'[q] = "swapped"
  BY <1>0, <1>a DEF ControlType, Work, UnlinkLog, Goto
<1>c. \A b \in BackupIds :
         /\ reading'[b].on = reading[b].on /\ reading'[b].txs = reading[b].txs
         /\ reading'[b].gen = reading[b].gen
         /\ reading'[b].on /\ reading'[b].gen = gen => reading'[b].cut
         /\ ~reading[b].cut /\ reading'[b].cut => b \in Readers
  BY <1>0 DEF DataType, Readers, UnlinkLog
<1>d. ~foreign => main = expected /\ (busy => Readers = {}) /\ (~busy => wal = {})
  BY <1>0 DEF Clean, LogGone, UnlinkLog
<1>1. Data'
  <2>1. DataType'
    <3>1. reading' \in [BackupIds -> [on : BOOLEAN, txs : SUBSET Txs, gen : Nat, cut : BOOLEAN]]
      <4>1. ASSUME NEW b \in BackupIds
            PROVE  [reading[b] EXCEPT !.cut = TRUE] \in [on : BOOLEAN, txs : SUBSET Txs, gen : Nat, cut : BOOLEAN]
        <5>1. reading[b] \in [on : BOOLEAN, txs : SUBSET Txs, gen : Nat, cut : BOOLEAN]
          BY <1>0 DEF DataType
        <5>. QED
          BY <5>1, ZenonT(40)
      <4>. QED
        BY <1>0, <4>1 DEF DataType, UnlinkLog
    <3>2. UNCHANGED <<main, gen, committed, expected, busy, foreign, backups>> /\ wal' = {}
      BY DEF UnlinkLog
    <3>. QED
      BY <1>0, <3>1, <3>2 DEF DataType
  <2>2. Kept' /\ NothingLost'
    BY <1>0, <1>b DEF Kept, NothingLost, Closed, UnlinkLog
  <2>3. LogGone' /\ Clean'
    BY <1>b DEF LogGone, Clean, Closed
  <2>4. ReadInv'
    <3>1. ASSUME NEW b \in BackupIds, reading'[b].on
          PROVE  /\ reading'[b].gen <= gen'
                 /\ backups'[b].kind = "NONE"
                 /\ reading'[b].gen = gen' /\ reading'[b].cut => foreign' \/ reading'[b].txs \subseteq main'
                 /\ reading'[b].gen = gen' /\ ~reading'[b].cut => reading'[b].txs \subseteq Live'
      <4>1. reading[b].gen <= gen /\ backups[b].kind = "NONE"
        BY <1>0, <1>c, <3>1 DEF ReadInv
      <4>2. ASSUME reading[b].gen = gen, ~foreign PROVE reading[b].txs \subseteq main
        <5>1. CASE reading[b].cut
          BY <1>0, <1>c, <3>1, <4>2, <5>1 DEF ReadInv
        <5>2. CASE ~reading[b].cut
          <6>1. b \in Readers
            BY <1>c, <3>1, <4>2, <5>2 DEF Readers
          <6>2. wal = {}
            BY <1>0, <1>d, <4>2, <6>1 DEF DataType
          <6>. QED
            BY <1>0, <1>c, <3>1, <4>2, <5>2, <6>2 DEF ReadInv, Live
        <5>. QED
          BY <5>1, <5>2
      <4>. QED
        BY <1>c, <3>1, <4>1, <4>2 DEF UnlinkLog
    <3>. QED
      BY <3>1 DEF ReadInv
  <2>5. RestoredExactly'
    BY <1>0, <1>d DEF RestoredExactly, Live, UnlinkLog
  <2>. QED
    BY <2>1, <2>2, <2>3, <2>4, <2>5 DEF Data
<1>2. ControlType'
  BY <1>0, <1>a DEF ControlType, Entries, Places, Work, Before, Closed, UnlinkLog, Goto
<1>3. Fenced'
  BY <1>0, <1>a DEF Fenced, Work, Before, Closed, ControlType, UnlinkLog, Goto
<1>4. Journaled'
  BY <1>0, <1>a DEF Journaled, Work, Before, Closed, ControlType, UnlinkLog, Goto
<1>5. SwapsOnce'
  BY <1>0, <1>a DEF SwapsOnce, ControlType, UnlinkLog, Goto
<1>. QED
  BY <1>1, <1>2, <1>3, <1>4, <1>5 DEF RInv, Control

\* The fence is lifted.
LEMMA SwappedKeeps == \A r \in Requests : RInv /\ Swapped(r) => RInv'
<1>. USE RestoreAssumption
<1>. SUFFICES ASSUME NEW r \in Requests, RInv, Swapped(r) PROVE RInv'
  OBVIOUS
<1>0. /\ DataType /\ Kept /\ LogGone /\ Clean /\ ReadInv /\ NothingLost /\ RestoredExactly
      /\ ControlType /\ Fenced /\ Journaled /\ SwapsOnce
  BY DEF RInv, Data, Control
<1>a. key[r] \in Keys /\ \A q \in Requests : q # r => pc[q] \notin Work
  BY <1>0 DEF Fenced, Journaled, ControlType, Work, Before, Closed, Swapped
<1>b. /\ journal' \in [Keys -> Entries]
      /\ journal'[key[r]].phase = "SWAPPED"
      /\ \A q \in Keys : q # key[r] => journal'[q] = journal[q]
  BY <1>0, <1>a, SetPhaseKeeps DEF Swapped
<1>1. Data'
  BY <1>0, <1>a, DataFrame DEF Data, Closed, ControlType, Swapped, Goto, dbVars
<1>2. ControlType'
  BY <1>0, <1>a, <1>b DEF ControlType, Entries, Places, Work, Before, Closed, Swapped, Goto, reqVars
<1>3. Fenced'
  BY <1>0, <1>a, <1>b DEF Fenced, Work, Before, Closed, ControlType, Swapped, Goto, reqVars
<1>4. Journaled'
  BY <1>0, <1>a, <1>b DEF Journaled, Work, Before, Closed, ControlType, Swapped, Goto, reqVars
<1>5. SwapsOnce'
  BY <1>0, <1>a, <1>b DEF SwapsOnce, ControlType, Swapped, Goto, reqVars
<1>. QED
  BY <1>1, <1>2, <1>3, <1>4, <1>5 DEF RInv, Control

\* The lock is given back.
LEMMA FinishKeeps == \A r \in Requests : RInv /\ Finish(r) => RInv'
<1>. USE RestoreAssumption
<1>. SUFFICES ASSUME NEW r \in Requests, RInv, Finish(r) PROVE RInv'
  OBVIOUS
<1>0. /\ DataType /\ Kept /\ LogGone /\ Clean /\ ReadInv /\ NothingLost /\ RestoredExactly
      /\ ControlType /\ Fenced /\ Journaled /\ SwapsOnce
  BY DEF RInv, Data, Control
<1>a. key[r] \in Keys /\ \A q \in Requests : q # r => pc[q] \notin Work
  BY <1>0 DEF Fenced, Journaled, ControlType, Work, Before, Closed, Finish
<1>b. /\ journal' \in [Keys -> Entries]
      /\ journal'[key[r]].phase = "SUCCEEDED"
      /\ \A q \in Keys : q # key[r] => journal'[q] = journal[q]
  BY <1>0, <1>a, SetPhaseKeeps DEF Finish
<1>1. Data'
  BY <1>0, <1>a, DataFrame DEF Data, Closed, ControlType, Finish, Goto, dbVars
<1>2. ControlType'
  BY <1>0, <1>a, <1>b DEF ControlType, Entries, Places, Work, Before, Closed, Finish, Goto, reqVars
<1>3. Fenced'
  BY <1>0, <1>a, <1>b DEF Fenced, Work, Before, Closed, ControlType, Finish, Goto, reqVars
<1>4. Journaled'
  BY <1>0, <1>a, <1>b DEF Journaled, Work, Before, Closed, ControlType, Finish, Goto, reqVars
<1>5. SwapsOnce'
  BY <1>0, <1>a, <1>b DEF SwapsOnce, ControlType, Finish, Goto, reqVars
<1>. QED
  BY <1>1, <1>2, <1>3, <1>4, <1>5 DEF RInv, Control

\* The fence and the lock are given back.
LEMMA FailKeeps == \A r \in Requests : RInv /\ Fail(r) => RInv'
<1>. USE RestoreAssumption
<1>. SUFFICES ASSUME NEW r \in Requests, RInv, Fail(r) PROVE RInv'
  OBVIOUS
<1>0. /\ DataType /\ Kept /\ LogGone /\ Clean /\ ReadInv /\ NothingLost /\ RestoredExactly
      /\ ControlType /\ Fenced /\ Journaled /\ SwapsOnce
  BY DEF RInv, Data, Control
<1>a. \A q \in Requests : pc'[q] \notin Work
  BY <1>0 DEF ControlType, Fenced, Work, Before, Closed, Fail, Goto
<1>b. DataType'
  BY <1>0 DEF DataType, Fail
<1>1. Data'
  BY <1>0, <1>a, <1>b, GivenUp DEF Data, Work, Fail
<1>2. ControlType'
  BY <1>0 DEF ControlType, Entries, Places, Work, Before, Closed, Fail, Goto
<1>3. Fenced'
  BY <1>0 DEF Fenced, Work, Before, Closed, ControlType, Fail, Goto
<1>4. Journaled'
  BY <1>0 DEF Journaled, Work, Before, Closed, ControlType, Fail, Goto
<1>5. SwapsOnce'
  BY <1>0 DEF SwapsOnce, ControlType, Fail, Goto
<1>. QED
  BY <1>1, <1>2, <1>3, <1>4, <1>5 DEF RInv, Control

--------------------------------------------------------------------------------
(* The theorems. *)

\* Every step keeps the invariant.
LEMMA StepKeeps == RInv /\ [Next]_vars => RInv'
<1>. SUFFICES ASSUME RInv, [Next]_vars PROVE RInv'
  OBVIOUS
<1>1. CASE \E c \in Connections :
                Connect(c) \/ Checkpoint(c) \/ Close(c) \/ \E t \in Txs : Commit(c, t)
  BY <1>1, ConnectKeeps, CheckpointKeeps, CloseKeeps, CommitKeeps
<1>2. CASE \E b \in BackupIds : BeginBackup(b) \/ EndBackup(b)
  BY <1>2, BeginBackupKeeps, EndBackupKeeps
<1>3. CASE \E r \in Requests : Operation(r)
  <2>1. PICK r \in Requests : Operation(r)
    BY <1>3
  <2>2. CASE \E k \in Keys, b \in BackupIds :
                \/ Refuse(r, k, b) \/ Replay(r, k, b) \/ RecoverSwap(r, k, b)
                \/ Resume(r, k, b) \/ Start(r, k, b)
    BY <2>2, RefuseKeeps, ReplayKeeps, RecoverSwapKeeps, ResumeKeeps, StartKeeps
  <2>3. CASE Prepare(r) \/ Fence(r) \/ CloseOne(r) \/ Truncate(r) \/ SwapReady(r)
    BY <2>3, PrepareKeeps, FenceKeeps, CloseOneKeeps, TruncateKeeps, SwapReadyKeeps
  <2>4. CASE Replace(r) \/ UnlinkLog(r) \/ Swapped(r) \/ Finish(r) \/ Fail(r)
    BY <2>4, ReplaceKeeps, UnlinkLogKeeps, SwappedKeeps, FinishKeeps, FailKeeps
  <2>5. CASE \E b \in BackupIds : PreRestore(r, b)
    BY <2>5, PreRestoreKeeps
  <2>. QED
    BY <2>1, <2>2, <2>3, <2>4, <2>5 DEF Operation
<1>4. CASE Crash
  BY <1>4, CrashKeeps
<1>5. CASE UNCHANGED vars
  <2>1. Data'
    BY <1>5, DataFrame DEF RInv, vars, reqVars
  <2>2. Control'
    BY <1>5, ControlFrame DEF RInv, vars
  <2>. QED
    BY <2>1, <2>2 DEF RInv
<1>. QED
  BY <1>1, <1>2, <1>3, <1>4, <1>5 DEF Next

\* The invariant holds of every reachable state.
THEOREM Inductive == Spec => []RInv
  BY InitRInv, StepKeeps, PTL DEF Spec

\* Every state is well typed.
THEOREM TypeHolds == Spec => []TypeOK
<1>1. RInv => TypeOK
  BY DEF RInv, Data, Control, TypeOK, DataType, ControlType, Entries, Places, Work, Before, Closed
<1>. QED
  BY Inductive, <1>1, PTL

\* No restore loses a committed transaction, whatever commits or crashes meanwhile
\* (quiesce_database, _perform_restore).
THEOREM NothingLostHolds == Spec => []NothingLost
<1>1. RInv => NothingLost
  BY DEF RInv, Data
<1>. QED
  BY Inductive, <1>1, PTL

\* The database is what was restored and what was committed since, whatever runs
\* beside the restore and wherever it ends, unless a log that could not be emptied
\* was left for others (_perform_restore).
THEOREM RestoredExactlyHolds == Spec => []RestoredExactly
<1>1. RInv => RestoredExactly
  BY DEF RInv, Data
<1>. QED
  BY Inductive, <1>1, PTL

\* An operation key replaces the database at most once (restore).
THEOREM SwapsOnceHolds == Spec => []SwapsOnce
<1>1. RInv => SwapsOnce
  BY DEF RInv, Control
<1>. QED
  BY Inductive, <1>1, PTL

================================================================================
