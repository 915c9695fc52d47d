----------------------------- MODULE RestoreJournal -----------------------------
(***************************************************************************)
(* Backup and restore of the database (backup/service.py, the fence of     *)
(* db/connection.py and the routes of api/routes/audit.py).                *)
(*                                                                         *)
(* A database is the set of the transactions committed to it.  The live    *)
(* one is a main file and a write-ahead log; the digest of a file stands   *)
(* for its transactions.  A restore runs under the process's restore lock  *)
(* and writes the phases of its operation key to a journal of its own:     *)
(* RUNNING, SWAP_READY, SWAPPED, SUCCEEDED.  The server may crash between  *)
(* any two of its steps, and the client may send the key again.            *)
(*                                                                         *)
(* A daily or manual backup reads through a connection of its own, which   *)
(* is not registered and which no fence closes: it may be under way at any *)
(* step of a restore, keep the log from being emptied, and look at the     *)
(* file and the log between two steps.                                     *)
(*                                                                         *)
(* The bytes of a backup, its manifest and the migration of an old one     *)
(* are left out: a backup that does not verify is one that is not there.   *)
(***************************************************************************)
EXTENDS Naturals, FiniteSets

CONSTANTS
    Requests,    \* requests to restore, each run by one thread
    Keys,        \* operation keys
    Connections, \* connections of the rest of the server
    Txs,         \* BOUND: transactions that are ever committed
    BackupIds,   \* BOUND: ids of backups
    MaxCrashes,  \* BOUND: crashes of the server
    None         \* no request, backup or key

ASSUME RestoreAssumption ==
    /\ MaxCrashes \in Nat
    /\ None \notin Requests \cup Keys \cup BackupIds

VARIABLES
    main,      \* transactions in the database file
    wal,       \* transactions in its write-ahead log
    gen,       \* how often the database file was replaced
    committed, \* every transaction that was ever committed
    reading,   \* daily and manual backups under way, by id
    expected,  \* history: what was last restored and was committed since
    busy,      \* history: the restore under way could not empty the log
    foreign,   \* history: the log of a replaced file was left for others to open
    open,      \* registered connections
    fence,     \* the database is in _restoring_databases
    lock,      \* the request that holds _restore_lock
    backups,   \* backups by id
    journal,   \* restore_operations by key
    pc, key, base, \* a request: where it is, its operation key and its backup
    copy, pre, \* the copy it would swap in, the pre_restore backup it made
    swaps,     \* how often an operation replaced the file
    crashes

dbVars  == <<main, wal, gen, committed, reading, expected, busy, foreign>>
reqVars == <<pc, key, base, copy, pre>>
vars    == <<dbVars, open, fence, lock, backups, journal, reqVars, swaps, crashes>>

--------------------------------------------------------------------------------
NoBackup == [kind |-> "NONE", txs |-> {}]
NotReading == [on |-> FALSE, txs |-> {}, gen |-> 0, cut |-> FALSE]
NoEntry  == [phase |-> "NONE", backup |-> None, pre |-> None, target |-> {}]

Live          == main \cup wal
Exists(b)     == b # None /\ backups[b].kind # "NONE"
Goto(r, at)   == pc' = [pc EXCEPT ![r] = at]

\* The backups that read the file and the log that are there now: neither was
\* replaced or removed since they were opened.
Readers == {b \in BackupIds : reading[b].on /\ reading[b].gen = gen /\ ~reading[b].cut}

\* What SQLite may copy from the log to the file: every reader has it.
Copied == {t \in wal : \A b \in Readers : t \in reading[b].txs}

\* A connection is closed.  The last one to go moves the log into the file and
\* removes it, if it gets the lock.
CloseFiles(last) ==
    \/ last /\ main' = Live /\ wal' = {}
    \/ UNCHANGED <<main, wal>>

\* A restore is between the replacement of the file and the removal of a log
\* that it could not empty.
LogLeft == busy /\ \E r \in Requests : pc[r] = "unlink"

\* _result_from_journal: the manifests that the answer is made of are there.
Loadable(k) == Exists(journal[k].backup) /\ Exists(journal[k].pre)

\* An operation's phase is written to the journal (_write_restore_phase).
SetPhase(k, phase) == journal' = [journal EXCEPT ![k].phase = phase]

Init ==
    /\ main = {} /\ wal = {} /\ gen = 0 /\ committed = {}
    /\ reading = [b \in BackupIds |-> NotReading]
    /\ expected = {} /\ busy = FALSE /\ foreign = FALSE
    /\ open = {} /\ fence = FALSE /\ lock = None
    /\ backups = [b \in BackupIds |-> NoBackup]
    /\ journal = [k \in Keys |-> NoEntry]
    /\ pc = [r \in Requests |-> "idle"]
    /\ key = [r \in Requests |-> None]
    /\ base = [r \in Requests |-> None]
    /\ copy = [r \in Requests |-> {}]
    /\ pre = [r \in Requests |-> None]
    /\ swaps = [k \in Keys |-> 0]
    /\ crashes = 0

--------------------------------------------------------------------------------
\* The rest of the server.

\* connect: waits while the database is fenced.
Connect(c) ==
    /\ ~fence
    /\ c \notin open
    /\ open' = open \cup {c}
    /\ UNCHANGED <<dbVars, fence, lock, backups, journal, reqVars, swaps, crashes>>

\* A transaction is committed to the log.
Commit(c, t) ==
    /\ c \in open
    /\ t \notin committed
    /\ wal' = wal \cup {t}
    /\ committed' = committed \cup {t}
    /\ expected' = expected \cup {t}
    /\ UNCHANGED <<main, gen, reading, busy, foreign, open, fence, lock, backups, journal, reqVars, swaps, crashes>>

\* SQLite copies of the log what it may; the log stays.
Checkpoint(c) ==
    /\ c \in open
    /\ main' = main \cup Copied
    /\ UNCHANGED <<wal, gen, committed, reading, expected, busy, foreign>>
    /\ UNCHANGED <<open, fence, lock, backups, journal, reqVars, swaps, crashes>>

Close(c) ==
    /\ c \in open
    /\ open' = open \ {c}
    /\ CloseFiles(open = {c} /\ Readers = {})
    /\ UNCHANGED <<gen, committed, reading, expected, busy, foreign>>
    /\ UNCHANGED <<fence, lock, backups, journal, reqVars, swaps, crashes>>

\* create of a regular kind: its connection is opened, fenced or not, and the
\* copy begins, of one snapshot.
BeginBackup(b) ==
    /\ backups[b].kind = "NONE" /\ ~reading[b].on
    /\ reading' = [reading EXCEPT ![b] = [on |-> TRUE, txs |-> Live, gen |-> gen, cut |-> FALSE]]
    /\ foreign' = (foreign \/ LogLeft)
    /\ UNCHANGED <<main, wal, gen, committed, expected, busy>>
    /\ UNCHANGED <<open, fence, lock, backups, journal, reqVars, swaps, crashes>>

\* The connection is closed.  That leaves a file alone that was replaced under
\* it; where only its log was removed under it, it may still copy that log.
\* Then the copy is verified and kept, and _enforce_retention may let it take
\* the place of old ones, depending on their dates; or the backup fails.
EndBackup(b) ==
    /\ reading[b].on
    /\ reading' = [reading EXCEPT ![b] = NotReading]
    /\ \/ b \in Readers /\ CloseFiles(open = {} /\ Readers = {b})
       \/ /\ b \notin Readers /\ reading[b].gen = gen
          /\ main' = main \cup reading[b].txs
          /\ UNCHANGED wal
       \/ b \notin Readers /\ UNCHANGED <<main, wal>>
    /\ \/ UNCHANGED backups
       \/ \E kind \in {"daily", "manual"},
             expired \in SUBSET {e \in BackupIds : backups[e].kind = "daily"} :
             backups' = [e \in BackupIds |->
                 IF e = b THEN [kind |-> kind, txs |-> reading[b].txs]
                 ELSE IF e \in expired THEN NoBackup ELSE backups[e]]
    /\ UNCHANGED <<gen, committed, expected, busy, foreign>>
    /\ UNCHANGED <<open, fence, lock, journal, reqVars, swaps, crashes>>

--------------------------------------------------------------------------------
\* restore: the request takes the lock and looks the key up.
Acquire(r, k, b) ==
    /\ pc[r] = "idle"
    /\ lock = None
    /\ key' = [key EXCEPT ![r] = k]
    /\ base' = [base EXCEPT ![r] = b]
    /\ UNCHANGED <<dbVars, open, fence, backups, copy, pre, swaps, crashes>>

\* The key is of another backup, or an answer cannot be given: the manifests of
\* its answer are gone, or the file is not the one that was to be swapped in.
Refuse(r, k, b) ==
    /\ Acquire(r, k, b)
    /\ journal[k].phase # "NONE"
    /\ \/ journal[k].backup # b
       \/ journal[k].phase \in {"SUCCEEDED", "SWAPPED"} /\ ~Loadable(k)
       \/ journal[k].phase = "SWAP_READY" /\ main # journal[k].target
    /\ Goto(r, "refused")
    /\ UNCHANGED <<lock, journal>>

\* The operation was completed before.
Replay(r, k, b) ==
    /\ Acquire(r, k, b)
    /\ journal[k].phase = "SUCCEEDED" /\ journal[k].backup = b
    /\ Loadable(k)
    /\ Goto(r, "done")
    /\ UNCHANGED <<lock, journal>>

\* The digest shows that the file was swapped in before a crash.  That is noted
\* before the manifests of the answer are read.
RecoverSwap(r, k, b) ==
    /\ Acquire(r, k, b)
    /\ journal[k].phase = "SWAP_READY" /\ journal[k].backup = b
    /\ main = journal[k].target
    /\ SetPhase(k, "SWAPPED")
    /\ lock' = IF Loadable(k) THEN r ELSE None
    /\ Goto(r, IF Loadable(k) THEN "finish" ELSE "refused")

\* The operation was swapped before a crash and only its end is missing.
Resume(r, k, b) ==
    /\ Acquire(r, k, b)
    /\ journal[k].phase = "SWAPPED" /\ journal[k].backup = b
    /\ Loadable(k)
    /\ lock' = r
    /\ Goto(r, "finish")
    /\ UNCHANGED journal

\* Mutant: what was about to be swapped is started again.
StartAgain(r, k, b) ==
    /\ Acquire(r, k, b)
    /\ \/ journal[k].phase = "NONE"
       \/ journal[k].phase \in {"RUNNING", "SWAP_READY"} /\ journal[k].backup = b
    /\ journal' = [journal EXCEPT ![k] =
          [phase |-> "RUNNING", backup |-> b, pre |-> None, target |-> {}]]
    /\ lock' = r
    /\ Goto(r, "prepare")

\* A new operation, or one that never came as far as the swap.
Start(r, k, b) ==
    /\ Acquire(r, k, b)
    /\ \/ journal[k].phase = "NONE"
       \/ journal[k].phase = "RUNNING" /\ journal[k].backup = b
    /\ journal' = [journal EXCEPT ![k] =
          [phase |-> "RUNNING", backup |-> b, pre |-> None, target |-> {}]]
    /\ lock' = r
    /\ Goto(r, "prepare")

\* _perform_restore: the backup is verified, copied and brought up to date; the
\* digest of the copy is the target.
Prepare(r) ==
    /\ pc[r] = "prepare"
    /\ Exists(base[r])
    /\ copy' = [copy EXCEPT ![r] = backups[base[r]].txs]
    /\ Goto(r, "fence")
    /\ UNCHANGED <<dbVars, open, fence, lock, backups, journal, key, base, pre, swaps, crashes>>

\* quiesce_database: new connections wait from here on.
Fence(r) ==
    /\ pc[r] = "fence"
    /\ fence' = TRUE
    /\ Goto(r, "close")
    /\ UNCHANGED <<dbVars, open, lock, backups, journal, key, base, copy, pre, swaps, crashes>>

\* quiesce_database: a registered connection is closed, its open transaction is
\* rolled back.  A commit that is executing ends first.
CloseOne(r) ==
    /\ pc[r] = "close"
    /\ \E c \in open :
          /\ open' = open \ {c}
          /\ CloseFiles(open = {c} /\ Readers = {})
    /\ UNCHANGED <<gen, committed, reading, expected, busy, foreign>>
    /\ UNCHANGED <<fence, lock, backups, journal, reqVars, swaps, crashes>>

\* Mutant: the file is copied without its log.
PreRestoreFile(r, b) ==
    /\ pc[r] = "close"
    /\ open = {}
    /\ backups[b].kind = "NONE" /\ ~reading[b].on
    /\ backups' = [backups EXCEPT ![b] = [kind |-> "pre_restore", txs |-> main]]
    /\ pre' = [pre EXCEPT ![r] = b]
    /\ CloseFiles(Readers = {})
    /\ Goto(r, "checkpoint")
    /\ UNCHANGED <<gen, committed, reading, expected, busy, foreign>>
    /\ UNCHANGED <<open, fence, lock, journal, key, base, copy, swaps, crashes>>

\* What is about to be replaced is kept: create, with a connection that it opens
\* and closes for the copy.
PreRestore(r, b) ==
    /\ pc[r] = "close"
    /\ open = {}
    /\ backups[b].kind = "NONE" /\ ~reading[b].on
    /\ backups' = [backups EXCEPT ![b] = [kind |-> "pre_restore", txs |-> Live]]
    /\ pre' = [pre EXCEPT ![r] = b]
    /\ CloseFiles(Readers = {})
    /\ Goto(r, "checkpoint")
    /\ UNCHANGED <<gen, committed, reading, expected, busy, foreign>>
    /\ UNCHANGED <<open, fence, lock, journal, key, base, copy, swaps, crashes>>

\* PRAGMA wal_checkpoint(TRUNCATE), whose answer is not looked at: while a backup,
\* or the cursor of a closed connection, still reads, the log stays as it is.
Truncate(r) ==
    /\ pc[r] = "checkpoint"
    /\ \/ Readers = {} /\ main' = Live /\ wal' = {} /\ busy' = FALSE
       \/ main' = main \cup Copied /\ UNCHANGED wal /\ busy' = (wal # {})
    /\ Goto(r, "ready")
    /\ UNCHANGED <<gen, committed, reading, expected, foreign>>
    /\ UNCHANGED <<open, fence, lock, backups, journal, key, base, copy, pre, swaps, crashes>>

\* record_swap_ready.
SwapReady(r) ==
    /\ pc[r] = "ready"
    /\ journal' = [journal EXCEPT ![key[r]] =
          [phase |-> "SWAP_READY", backup |-> base[r], pre |-> pre[r], target |-> copy[r]]]
    /\ Goto(r, "replace")
    /\ UNCHANGED <<dbVars, open, fence, lock, backups, key, base, copy, pre, swaps, crashes>>

\* os.replace of the database file.
Replace(r) ==
    /\ pc[r] = "replace"
    /\ main' = copy[r]
    /\ gen' = gen + 1
    /\ swaps' = [swaps EXCEPT ![key[r]] = @ + 1]
    /\ expected' = copy[r]
    /\ foreign' = FALSE
    /\ Goto(r, "unlink")
    /\ UNCHANGED <<wal, committed, reading, busy>>
    /\ UNCHANGED <<open, fence, lock, backups, journal, key, base, copy, pre, crashes>>

\* Mutant: the log of the file that was replaced is left beside the new one.
UnlinkLogNot(r) ==
    /\ pc[r] = "unlink"
    /\ Goto(r, "swapped")
    /\ UNCHANGED <<dbVars, open, fence, lock, backups, journal, key, base, copy, pre, swaps, crashes>>

\* The log of the file that was replaced is removed, also under a backup that
\* was opened since.
UnlinkLog(r) ==
    /\ pc[r] = "unlink"
    /\ wal' = {}
    /\ reading' = [b \in BackupIds |->
                      IF b \in Readers THEN [reading[b] EXCEPT !.cut = TRUE] ELSE reading[b]]
    /\ Goto(r, "swapped")
    /\ UNCHANGED <<main, gen, committed, expected, busy, foreign>>
    /\ UNCHANGED <<open, fence, lock, backups, journal, key, base, copy, pre, swaps, crashes>>

\* record_swapped.
Swapped(r) ==
    /\ pc[r] = "swapped"
    /\ SetPhase(key[r], "SWAPPED")
    /\ fence' = FALSE
    /\ Goto(r, "finish")
    /\ UNCHANGED <<dbVars, open, lock, backups, key, base, copy, pre, swaps, crashes>>

\* The operation is completed and answered.
Finish(r) ==
    /\ pc[r] = "finish"
    /\ SetPhase(key[r], "SUCCEEDED")
    /\ lock' = None
    /\ Goto(r, "done")
    /\ UNCHANGED <<dbVars, open, fence, backups, key, base, copy, pre, swaps, crashes>>

\* An exception at any step: the fence and the lock are given back, the journal
\* stays as it is.
Fail(r) ==
    /\ lock = r
    /\ fence' = FALSE
    /\ lock' = None
    /\ Goto(r, "failed")
    /\ foreign' = (foreign \/ LogLeft)
    /\ UNCHANGED <<main, wal, gen, committed, reading, expected, busy>>
    /\ UNCHANGED <<open, backups, journal, key, base, copy, pre, swaps, crashes>>

\* The process ends; its requests are not answered.
Crash ==
    /\ crashes < MaxCrashes
    /\ crashes' = crashes + 1
    /\ open' = {}
    /\ fence' = FALSE
    /\ lock' = None
    /\ pc' = [r \in Requests |-> IF pc[r] = "idle" THEN "idle"
                                 ELSE IF lock = r THEN "lost" ELSE pc[r]]
    /\ reading' = [b \in BackupIds |-> NotReading]
    /\ foreign' = (foreign \/ LogLeft)
    /\ UNCHANGED <<main, wal, gen, committed, expected, busy>>
    /\ UNCHANGED <<backups, journal, key, base, copy, pre, swaps>>

Operation(r) ==
    \/ \E k \in Keys, b \in BackupIds :
          \/ Refuse(r, k, b) \/ Replay(r, k, b) \/ RecoverSwap(r, k, b)
          \/ Resume(r, k, b) \/ Start(r, k, b)
    \/ Prepare(r) \/ Fence(r) \/ CloseOne(r) \/ Truncate(r) \/ SwapReady(r)
    \/ Replace(r) \/ UnlinkLog(r) \/ Swapped(r) \/ Finish(r) \/ Fail(r)
    \/ \E b \in BackupIds : PreRestore(r, b)

Next ==
    \/ \E c \in Connections :
          Connect(c) \/ Checkpoint(c) \/ Close(c) \/ \E t \in Txs : Commit(c, t)
    \/ \E b \in BackupIds : BeginBackup(b) \/ EndBackup(b)
    \/ \E r \in Requests : Operation(r)
    \/ Crash

Spec == Init /\ [][Next]_vars

--------------------------------------------------------------------------------
\* PROPERTIES

TypeOK ==
    /\ main \subseteq Txs /\ wal \subseteq Txs /\ committed \subseteq Txs
    /\ gen \in Nat /\ crashes \in Nat
    /\ reading \in [BackupIds -> [on : BOOLEAN, txs : SUBSET Txs, gen : Nat, cut : BOOLEAN]]
    /\ expected \subseteq Txs /\ busy \in BOOLEAN /\ foreign \in BOOLEAN
    /\ open \subseteq Connections /\ fence \in BOOLEAN /\ lock \in Requests \cup {None}
    /\ backups \in [BackupIds -> [kind : {"NONE", "daily", "manual", "pre_restore"}, txs : SUBSET Txs]]
    /\ journal \in [Keys ->
          [phase : {"NONE", "RUNNING", "SWAP_READY", "SWAPPED", "SUCCEEDED"},
           backup : BackupIds \cup {None}, pre : BackupIds \cup {None}, target : SUBSET Txs]]
    /\ pc \in [Requests -> {"idle", "prepare", "fence", "close", "checkpoint", "ready", "replace",
                            "unlink", "swapped", "finish", "done", "refused", "failed", "lost"}]
    /\ key \in [Requests -> Keys \cup {None}]
    /\ base \in [Requests -> BackupIds \cup {None}]
    /\ copy \in [Requests -> SUBSET Txs]
    /\ pre \in [Requests -> BackupIds \cup {None}]
    /\ swaps \in [Keys -> Nat]

\* Whatever was committed is in the database or in a backup made before a
\* restore, also when connections commit while the restore begins and when the
\* server crashes at any of its steps.
NothingLost ==
    \A t \in committed :
        \/ t \in Live
        \/ \E b \in BackupIds : backups[b].kind = "pre_restore" /\ t \in backups[b].txs

\* The database is what was last restored and what was committed since, no more
\* and no less: no log outlives its file, whatever runs beside the restore and
\* wherever it fails or crashes.  There is one exception, which the code does not
\* look for: the log could not be emptied, and before it was removed the restore
\* failed or the server crashed, or a backup opened it beside the new file.
RestoredExactly == Live = expected \/ LogLeft \/ foreign

\* An operation replaces the database once, however often it is repeated after
\* crashes and failures, and its journal never looks as if it had not.
SwapsOnce ==
    \A k \in Keys :
        /\ swaps[k] <= 1
        /\ swaps[k] = 1 => journal[k].phase \in {"SWAP_READY", "SWAPPED", "SUCCEEDED"}

================================================================================
