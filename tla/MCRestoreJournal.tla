----------------------------- MODULE MCRestoreJournal -----------------------------
\* A small database for TLC.
EXTENDS RestoreJournal, TLC

RestoreSymmetry ==
    Permutations(Requests) \cup Permutations(Txs) \cup Permutations(BackupIds)

================================================================================
