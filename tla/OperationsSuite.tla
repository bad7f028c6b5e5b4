---------------------------- MODULE OperationsSuite ----------------------------
(***************************************************************************)
(* What watches the backend, and who: service levels, incidents, drift,     *)
(* trained artefacts and the operator's console. A behaviour runs one of    *)
(* them, as in Services.                                                    *)
(***************************************************************************)
EXTENDS ServiceLevels, Operations, DriftDetector, TrainingArtifacts, Console

CONSTANTS
  LevelValues,  \* values of a service level
  SampleValues, \* latencies
  MaxSamples    \* samples of a window

ASSUME SuiteAssumption == LevelValues \cup SampleValues \subseteq Int /\ MaxSamples \in Nat

VARIABLE watching

suiteVars == <<watching, level, levelVars, opsVars, driftVars, trainingVars, consoleVars>>

\* The code sorts before it takes a percentile.
Windows ==
  UNION {{w \in [1 .. n -> SampleValues] : \A i, j \in 1 .. n : i <= j => w[i] <= w[j]} : n \in 0 .. MaxSamples}

SuiteInit ==
  /\ watching \in {"levels", "samples", "incidents", "drift", "training", "console"}
  /\ IF watching = "levels" THEN LevelInit(LevelValues, Windows)
     ELSE level = [slo |-> "availability", value |-> One, window |-> <<>>]
  /\ SamplesInit /\ OpsInit /\ DriftInit /\ TrainingInit /\ ConsoleInit

SuiteNext ==
  /\ \/ watching = "samples" /\ SamplesNext
     \/ watching = "incidents" /\ OpsNext
     \/ watching = "drift" /\ DriftNext
     \/ watching = "training" /\ TrainingNext
     \/ watching = "console" /\ ConsoleNext
  /\ UNCHANGED <<watching, level>>
  /\ IF watching = "samples" THEN TRUE ELSE UNCHANGED levelVars
  /\ IF watching = "incidents" THEN TRUE ELSE UNCHANGED opsVars
  /\ IF watching = "drift" THEN TRUE ELSE UNCHANGED driftVars
  /\ IF watching = "training" THEN TRUE ELSE UNCHANGED trainingVars
  /\ IF watching = "console" THEN TRUE ELSE UNCHANGED consoleVars

(* Fairness: the loop ticks, goroutines run, an evaluation goes on, and a   *)
(* training ends or runs out of time.                                       *)
SuiteFairness ==
  /\ WF_opsVars(watching = "incidents" /\ (Assess \/ ApplyBudget \/ EvaluateIncidents))
  /\ \A i \in 1 .. MaxIncidents : WF_opsVars(watching = "incidents" /\ Remediate(i))
  /\ \A e \in Evaluators : WF_driftVars(watching = "drift" /\ (UpdateState(e) \/ Tell(e)))
  /\ \A j \in TrainJobs :
       WF_trainingVars(watching = "training"
                       /\ (Expire(j) \/ (\E exit \in Exits : EndProcess(j, exit)) \/ Conclude(j) \/ Poll(j)))

SuiteSpec == SuiteInit /\ [][SuiteNext]_suiteVars /\ SuiteFairness

(* Levels, gates, windows and drift statuses say the same of the same       *)
(* measurements.                                                            *)
MeasurementsAgree ==
  /\ DriftTypeOK /\ TrainingTypeOK /\ RingIsRecent /\ StatusIsLatest
  /\ BudgetMatchesStatus /\ PercentileIsRank /\ BinsAccount
  /\ GatesShowBreaches /\ SamplesTypeOK /\ LevelsAreRecent /\ FreezeHasCause

(* An operator is told the truth: incidents and alerts agree, accepted jobs *)
(* are found, the gauge tells of the slot, and what is unhealthy is not     *)
(* ready.                                                                   *)
OperatorsInformed ==
  IncidentsAgree /\ ConsoleTypeOK /\ JobsFindable /\ GaugeTells /\ UnhealthyIsNotReady

(* What is measured has its effect: incidents escalate and are never taken  *)
(* back, critical ones freeze the models, drift is told, and of the         *)
(* requests from outside only an administrator's changes anything.          *)
MeasurementsMatter ==
  IncidentsOnlyWorsen /\ CriticalFreezes /\ DriftIsTold /\ OnlyAdministratorsChange

===============================================================================
