---------------------------- MODULE MCDurableJobs ----------------------------
(* Small instances of DurableJobs for TLC. *)
EXTENDS DurableJobs, TLC

\* Workers are interchangeable; used by the safety run only.
WorkerSymmetry == Permutations(Workers)

================================================================================
