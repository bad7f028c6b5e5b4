--------------------------- MODULE TrainingArtifacts ---------------------------
(***************************************************************************)
(* Training as an operating system process (riskengine/training_runner.go). *)
(* Every process writes its model to one file of one directory, and what a  *)
(* training is said to have made is the checksum of that file when its      *)
(* goroutine gets to read it. The coordinator polls, and starts the next    *)
(* training when a job has ended or was cancelled.                          *)
(***************************************************************************)
EXTENDS Naturals

CONSTANTS
  TrainJobs,
  SampleQuorum, \* samples a dataset must have: 50
  SampleCounts  \* samples it may have

ASSUME TrainingAssumption == SampleQuorum \in Nat /\ SampleCounts \subseteq Nat

VARIABLES
  trainer,  \* each job of the adapter: state, context, process, checksum
  onnxFile, \* whose model the candidate file holds
  heard      \* what the coordinator's polling loop knows of each job

trainingVars == <<trainer, onnxFile, heard>>

NoModel == "no model"
Invented == "invented"  \* a checksum of words, not of a file
Exits == {"done", "failed", "no interpreter"}
Final == {"SUCCEEDED", "FAILED", "CANCELLED"}
Untrained ==
  [state |-> "none", context |-> "live", process |-> "none", checksum |-> NoModel, alone |-> TRUE]

TrainingTypeOK ==
  /\ trainer \in [TrainJobs ->
       [state : {"none", "RUNNING"} \cup Final, context : {"live", "cancelled", "expired"},
        process : {"none", "running", "written", "over"} \cup Exits,
        checksum : TrainJobs \cup {NoModel, Invented}, alone : BOOLEAN]]
  /\ onnxFile \in TrainJobs \cup {NoModel}
  /\ heard \in [TrainJobs -> {"nothing", "RUNNING"} \cup Final]

TrainingInit ==
  /\ trainer = [j \in TrainJobs |-> Untrained]
  /\ onnxFile = NoModel
  /\ heard = [j \in TrainJobs |-> "nothing"]

\* A process is under way until its goroutine has read the file.
UnderWay(j) == trainer[j].process \notin {"none", "over"}

\* StartTraining: the dataset is validated, and a goroutine runs the process.
StartTraining(j, samples) ==
  /\ heard[j] = "nothing" /\ \A k \in TrainJobs : heard[k] # "RUNNING"
  /\ IF samples < SampleQuorum
     THEN heard' = [heard EXCEPT ![j] = "FAILED"] /\ UNCHANGED trainer
     ELSE /\ heard' = [heard EXCEPT ![j] = "RUNNING"]
          /\ trainer' = [k \in TrainJobs |->
               IF k = j THEN [Untrained EXCEPT !.state = "RUNNING", !.process = "running",
                                               !.alone = \A i \in TrainJobs : ~UnderWay(i)]
               ELSE [trainer[k] EXCEPT !.alone = @ /\ ~UnderWay(k)]]
  /\ UNCHANGED onnxFile

\* Mutant: a process writes whatever has become of its job.
WriteArtifactAnyway(j) ==
  /\ trainer[j].process \in {"running", "over"}
  /\ onnxFile' = j
  /\ trainer' = [trainer EXCEPT ![j].process = IF @ = "running" THEN "written" ELSE @]
  /\ UNCHANGED heard

\* The script saves its model. A process whose context has ended may not be dead yet.
WriteArtifact(j) ==
  /\ trainer[j].process = "running"
  /\ onnxFile' = j
  /\ trainer' = [trainer EXCEPT ![j].process = "written"]
  /\ UNCHANGED heard

(* cmd.Run returns: the script has finished, has failed, could not be       *)
(* started, or was killed with its context.                                 *)
EndProcess(j, exit) ==
  /\ \/ exit = "done" /\ trainer[j].process = "written"
     \/ exit = "failed" /\ trainer[j].process \in {"running", "written"}
     \/ exit = "no interpreter" /\ trainer[j].process = "running"
  /\ trainer' = [trainer EXCEPT ![j].process = exit]
  /\ UNCHANGED <<onnxFile, heard>>

(* executeProcess under the lock: a context that has ended decides, then    *)
(* the exit. Without an interpreter a candidate is made up and the training *)
(* has succeeded; with one, the checksum is that of the file as it is now.  *)
Conclude(j) ==
  LET t == trainer[j]
      state == CASE t.context = "cancelled" -> "CANCELLED"
                 [] t.context = "expired" -> "FAILED"
                 [] OTHER -> IF t.process = "failed" THEN "FAILED" ELSE "SUCCEEDED"
      sum == CASE state # "SUCCEEDED" -> NoModel
               [] t.process = "done" -> onnxFile
               [] OTHER -> Invented
  IN /\ t.process \in Exits
     /\ trainer' = [trainer EXCEPT ![j].process = "over", ![j].state = state, ![j].checksum = sum]
     /\ UNCHANGED <<onnxFile, heard>>

Expire(j) ==
  /\ trainer[j].context = "live" /\ trainer[j].process \in {"running", "written"}
  /\ trainer' = [trainer EXCEPT ![j].context = "expired"]
  /\ UNCHANGED <<onnxFile, heard>>

(* CancelTraining, and the coordinator's failJob after it: the state is     *)
(* overwritten even when the training is over, and the slot is free though  *)
(* the process still runs.                                                  *)
CancelTraining(j) ==
  /\ heard[j] = "RUNNING"
  /\ trainer' = [trainer EXCEPT ![j].state = "CANCELLED",
                                ![j].context = IF @ = "live" THEN "cancelled" ELSE @]
  /\ heard' = [heard EXCEPT ![j] = "CANCELLED"]
  /\ UNCHANGED onnxFile

\* GetTrainingStatus, in the coordinator's loop.
Poll(j) ==
  /\ heard[j] = "RUNNING" /\ trainer[j].state \in Final
  /\ heard' = [heard EXCEPT ![j] = trainer[j].state]
  /\ UNCHANGED <<trainer, onnxFile>>

TrainingNext ==
  \E j \in TrainJobs :
    \/ \E s \in SampleCounts : StartTraining(j, s)
    \/ WriteArtifact(j) \/ Expire(j) \/ CancelTraining(j) \/ Conclude(j) \/ Poll(j)
    \/ \E e \in Exits : EndProcess(j, e)

TrainingSpec == TrainingInit /\ [][TrainingNext]_trainingVars

(* A training that no other process overlapped is registered with the       *)
(* checksum of its own model, or with one that was made up, never with that *)
(* of an earlier training.                                                  *)
ChecksumOfOwnTraining ==
  \A j \in TrainJobs :
    trainer[j].state = "SUCCEEDED" /\ trainer[j].alone => trainer[j].checksum \in {j, Invented}

================================================================================
