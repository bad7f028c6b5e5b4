------------------------------- MODULE JobSlot --------------------------------
(***************************************************************************)
(* What the retraining coordinator promises about concurrency: one slot     *)
(* that a retraining job takes when it is free, keeps until it is given     *)
(* back, and never takes twice; and a production model that only changes    *)
(* from one version to another.                                             *)
(***************************************************************************)
EXTENDS Integers

CONSTANTS MaxJobs, Models, FirstModel

VARIABLES slot, last, production

Free == 0

Init == slot = Free /\ last = 0 /\ production = FirstModel

\* Jobs are numbered as they start: a job that gave its slot back is over.
Take ==
  /\ slot = Free
  /\ last < MaxJobs
  /\ last' = last + 1
  /\ slot' = last'
  /\ UNCHANGED production

\* Ends the job, and may put a new model into production as it does.
GiveBack ==
  /\ slot' = Free
  /\ production' \in Models
  /\ UNCHANGED last

Next == Take \/ GiveBack

Spec == Init /\ [][Next]_<<slot, last, production>>
===============================================================================
