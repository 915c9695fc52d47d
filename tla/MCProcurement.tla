---------------------------- MODULE MCProcurement ----------------------------
(* A small instance of Procurement for TLC. *)
EXTENDS Procurement, TLC

ProcurementSymmetry == Permutations(Candidates) \cup Permutations(Users)

================================================================================
