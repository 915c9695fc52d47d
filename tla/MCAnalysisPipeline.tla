-------------------------- MODULE MCAnalysisPipeline --------------------------
(* Small instances of AnalysisPipeline for TLC. *)
EXTENDS AnalysisPipeline, TLC

\* Jobs are interchangeable; the handler takes sources in some fixed order, so
\* they are not.
JobSymmetry == Permutations(Jobs)

================================================================================
