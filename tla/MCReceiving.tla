----------------------------- MODULE MCReceiving -----------------------------
(* Small instances of Receiving for TLC. *)
EXTENDS Receiving, TLC

\* Books are interchangeable.
BookSymmetry == Permutations(Books)

================================================================================
