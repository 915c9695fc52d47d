------------------------- MODULE MCUpdateCoordinator -------------------------
(* A small instance of UpdateCoordinator for TLC. *)
EXTENDS UpdateCoordinator

================================================================================
