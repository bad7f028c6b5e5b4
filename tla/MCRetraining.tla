----------------------------- MODULE MCRetraining -----------------------------
(* Small instances of the retraining coordinator for TLC.                   *)
EXTENDS Retraining, TLC

MCTwoStages == <<5, 100>>
MCOneStage == <<100>>

\* Operators are alike. Only runs without a liveness property may use it.
MCSymmetry == Permutations(Operators)
===============================================================================
