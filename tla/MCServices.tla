------------------------------ MODULE MCServices ------------------------------
(* Small instances of the components of Services for TLC.                      *)
EXTENDS Services, TLC

CONSTANTS r1, r2, e1, e2, e3

\* Both transactions are in the canary from 50% on.
MCBucket == (r1 :> 7) @@ (r2 :> 49)

\* A candidate that lets a decline through, one that is stricter, one that names it differently.
MCChampion == (e1 :> "DECLINE") @@ (e2 :> "ALLOW") @@ (e3 :> "STEP_UP")
MCChallenger == (e1 :> "ALLOW") @@ (e2 :> "DECLINE") @@ (e3 :> "REVIEW")
===============================================================================
