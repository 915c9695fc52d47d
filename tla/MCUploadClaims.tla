---------------------------- MODULE MCUploadClaims ----------------------------
(* A small instance of UploadClaims for TLC. *)
EXTENDS UploadClaims, TLC

CONSTANTS a, b, single, again, double, r1, r2, r3, k1, k2

\* Two bodies with the same files, and one with two files.
MCFiles == [x \in {single, again, double} |-> IF x = double THEN {a, b} ELSE {a}]

UploadSymmetry == Permutations(Requests) \cup Permutations(Keys)
================================================================================
