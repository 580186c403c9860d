----------------------- MODULE MCExecutiveTrajectory -----------------------
(* Small instances of ExecutiveTrajectory for TLC.                         *)
EXTENDS ExecutiveTrajectory, TLC

MCBudget ==
  "steps" :> 9 @@ "failed" :> 3 @@ "switches" :> 1 @@ "calls" :> 8 @@ "wall" :> 1

=============================================================================
