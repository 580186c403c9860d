--------------------- MODULE ExecutiveTrajectoryProofs ---------------------
(* What holds of ExecutiveTrajectory for every budget, every set of        *)
(* artifacts and milestones, and wherever the process may die.             *)
EXTENDS ExecutiveTrajectory, TLAPS

USE DEF row, events, world

-----------------------------------------------------------------------------
(* Type correctness                                                        *)

(* A recovery is a strategy.                                               *)
LEMMA RecoveryTyped ==
  ASSUME NEW S \in SUBSET (1..5), S # {}, strategy \in Strategies
  PROVE  Recovery(S) \in Strategies
<1>1. \E i \in S : \A j \in S : i <= j
  <2>1. CASE 1 \in S
    BY <2>1
  <2>2. CASE 1 \notin S /\ 2 \in S
    BY <2>2
  <2>3. CASE 1 \notin S /\ 2 \notin S /\ 3 \in S
    BY <2>3
  <2>4. CASE 1 \notin S /\ 2 \notin S /\ 3 \notin S /\ 4 \in S
    BY <2>4
  <2>5. CASE 1 \notin S /\ 2 \notin S /\ 3 \notin S /\ 4 \notin S
    <3>1. \A i \in S : i = 5
      BY <2>5
    <3>2. PICK i \in S : TRUE
      OBVIOUS
    <3> QED
      BY <3>1, <3>2
  <2> QED
    BY <2>1, <2>2, <2>3, <2>4, <2>5
<1>2. Min(S) \in 1..5
  BY <1>1 DEF Min
<1>3. Remedy[Min(S)] \in Strategies
  BY <1>2 DEF Remedy, Strategies
<1> QED
  BY <1>3 DEF Recovery, Strategies

(* The events keep their types when one more is recorded.                  *)
LEMMA RecordTyped ==
  ASSUME TypeOK, NEW phase \in Phases, NEW st \in StepStatus, NEW forced \in BOOLEAN,
         Record(phase, st, forced)
  PROVE  last' \in Event /\ before' \in Event \cup {None} /\ valid' \in BOOLEAN
BY DEF TypeOK, Record, Event

LEMMA TypeInit == Init => TypeOK
<1> SUFFICES ASSUME Init PROVE TypeOK
  OBVIOUS
<1>1. request \in Request
  BY DEF Init, Request
<1>2. /\ metrics \in [steps : Nat, failed : Nat, switches : Nat, streak : Nat]
      /\ log \in [steps : Nat, failed : Nat, switches : Nat, calls : Nat]
  BY DEF Init
<1> QED
  BY <1>1, <1>2 DEF Init, TypeOK, Strategies

LEMMA TypeTrajectory ==
  ASSUME TypeOK,
         \/ \E s \in Initial : Start(s)
         \/ StartEvent \/ StartClock
         \/ \E phase \in Phases \ {"CLOSE"}, st \in StepStatus, progress \in BOOLEAN,
               ref \in Artifacts \cup {None}, calls \in Usage :
              Advance(phase, st, progress, ref, calls)
         \/ Switch \/ Recover \/ Close \/ \E as \in Ends : Stop(as)
         \/ \E debts \in SUBSET Debts : Complete(debts)
  PROVE  TypeOK'
<1> USE TrajectoryAssumption DEF TypeOK, Artifact
<1>1. ASSUME NEW s \in Initial, Start(s) PROVE TypeOK'
  BY <1>1 DEF Start, Request
<1>2. CASE StartEvent
  <2>1. "OBSERVE" \in Phases /\ "passed" \in StepStatus
    BY DEF Phases, StepStatus
  <2>2. last' \in Event /\ before' \in Event \cup {None} /\ valid' \in BOOLEAN
    BY <1>2, <2>1, RecordTyped DEF StartEvent
  <2> QED
    BY <1>2, <2>2 DEF StartEvent, Request
<1>3. CASE StartClock
  BY <1>3 DEF StartClock, Finish, Request
<1>4. ASSUME NEW phase \in Phases \ {"CLOSE"}, NEW st \in StepStatus, NEW progress \in BOOLEAN,
             NEW ref \in Artifacts \cup {None}, NEW calls \in Usage,
             Advance(phase, st, progress, ref, calls)
      PROVE  TypeOK'
  <2>1. last' \in Event /\ before' \in Event \cup {None} /\ valid' \in BOOLEAN
    BY <1>4, RecordTyped DEF Advance
  <2>2. verified' \in [at : Nat, by : Artifacts] \cup {None}
    BY <1>4 DEF Advance, Current, Successful
  <2>3. log' \in [steps : Nat, failed : Nat, switches : Nat, calls : Nat]
    <3>1. log' = [steps |-> log.steps + 1, switches |-> log.switches, calls |-> log.calls + calls,
                  failed |-> IF st \in Unsuccessful THEN log.failed + 1 ELSE log.failed]
      BY <1>4 DEF Advance
    <3>2. calls \in Nat
      OBVIOUS
    <3> QED
      BY <3>1, <3>2
  <2>4. request' \in Request
    BY <1>4 DEF Advance, Request
  <2> QED
    BY <1>4, <2>1, <2>2, <2>3, <2>4 DEF Advance
<1>5. CASE Switch
  <2>1. metrics' = [steps |-> metrics.steps, failed |-> metrics.failed,
                    switches |-> metrics.switches + 1, streak |-> 0]
    BY <1>5 DEF Switch
  <2>2. request.to \in Strategies
    BY <1>5 DEF Switch, Request
  <2>3. request' \in Request
    BY <1>5 DEF Switch, Request
  <2> QED
    BY <1>5, <2>1, <2>2, <2>3 DEF Switch
<1>6. CASE Recover
  <2>1. "RECOVER" \in Phases /\ "passed" \in StepStatus
    BY DEF Phases, StepStatus
  <2>2. last' \in Event /\ before' \in Event \cup {None} /\ valid' \in BOOLEAN
    BY <1>6, <2>1, RecordTyped DEF Recover
  <2>3. log' = [steps |-> log.steps, failed |-> log.failed, switches |-> log.switches + 1,
                calls |-> log.calls]
    BY <1>6 DEF Recover
  <2>4. request' \in Request
    BY <1>6 DEF Recover, Finish, Request
  <2> QED
    BY <1>6, <2>2, <2>3, <2>4 DEF Recover
<1>7. CASE Close
  BY <1>7 DEF Close, Finish, Request
<1>8. ASSUME NEW as \in Ends, Stop(as) PROVE TypeOK'
  <2>1. "CLOSE" \in Phases /\ "failed" \in StepStatus /\ "inconclusive" \in StepStatus
    BY DEF Phases, StepStatus
  <2>2. last' \in Event /\ before' \in Event \cup {None} /\ valid' \in BOOLEAN
    BY <1>8, <2>1, RecordTyped DEF Stop
  <2> QED
    BY <1>8, <2>2 DEF Stop, Request
<1>9. ASSUME NEW debts \in SUBSET Debts, Complete(debts) PROVE TypeOK'
  <2>1. "CLOSE" \in Phases /\ "passed" \in StepStatus
    BY DEF Phases, StepStatus
  <2>2. last' \in Event /\ before' \in Event \cup {None} /\ valid' \in BOOLEAN
    BY <1>9, <2>1, RecordTyped DEF Complete
  <2> QED
    BY <1>9, <2>2 DEF Complete, Request
<1> QED
  BY <1>1, <1>2, <1>3, <1>4, <1>5, <1>6, <1>7, <1>8, <1>9

(* A request for a switch names a strategy; an edit makes a new version.   *)
LEMMA SwitchRequest ==
  ASSUME NEW s \in Strategies, NEW r, r = [op |-> "switch", to |-> s]
  PROVE  r \in Request
BY DEF Request

LEMMA IdleRequest ==
  ASSUME NEW r, r = [op |-> "idle"] PROVE r \in Request
BY DEF Request

LEMMA EditTyped ==
  ASSUME head \in Nat, disk \in Nat, Reconcile \/ Edit
  PROVE  head' \in Nat /\ disk' \in Nat
<1>1. CASE Reconcile
  BY <1>1 DEF Reconcile
<1>2. CASE Edit
  <2>1. head' = head /\ disk' = disk + 1
    BY <1>2 DEF Edit
  <2> QED
    BY <2>1
<1> QED
  BY <1>1, <1>2

LEMMA TypeCount ==
  ASSUME TypeOK, NEW debts \in SUBSET Debts, Count(debts)
  PROVE  TypeOK'
<1> USE DEF TypeOK
<1>1. metrics' \in [steps : Nat, failed : Nat, switches : Nat, streak : Nat]
  <2>1. metrics' = [steps |-> metrics.steps + 1, switches |-> metrics.switches,
                    failed |-> IF last.status \in Unsuccessful THEN metrics.failed + 1
                               ELSE metrics.failed,
                    streak |-> IF last.status \in Unsuccessful THEN metrics.streak + 1
                               ELSE IF request.progress THEN 0 ELSE metrics.streak]
    BY DEF Count
  <2> QED
    BY <2>1
<1>2. strategy' = strategy
  BY DEF Count
<1>3. Signs(debts)' \in SUBSET (1..5)
  BY DEF Signs, Urgency
<1>4. Signs(debts)' # {} => Recovery(Signs(debts)') \in Strategies
  BY <1>3, RecoveryTyped
<1>5. request' \in Request
  <2>1. \/ request' = [op |-> "idle"]
        \/ \E s \in Strategies : request' = [op |-> "switch", to |-> s]
    BY <1>4 DEF Count
  <2> QED
    BY <2>1, SwitchRequest, IdleRequest
<1> QED
  BY <1>1, <1>5 DEF Count

(* What happens around the trajectory leaves its row and its events alone. *)
Around ==
  \/ \E m \in Milestones, deps \in SUBSET Added, ref \in Artifacts \cup {None} :
       MilestoneAdd(m, deps, ref)
  \/ \E m \in Milestones, st \in Asked, ref \in Artifacts \cup {None} :
       MilestoneUpdate(m, st, ref)
  \/ \E r \in Artifacts : Run(r)
  \/ RunSnapshot \/ RunRefresh \/ \E passed \in BOOLEAN : RunReceipt(passed)
  \/ \E x \in Artifacts : ExperimentPlan(x) \/ ExperimentComplete(x)
                          \/ EvidenceAppend(x) \/ EvidenceResolve(x)
  \/ Reconcile \/ Edit \/ Crash

LEMMA TypeWorld ==
  ASSUME TypeOK, Around
  PROVE  TypeOK'
<1> USE TrajectoryAssumption DEF TypeOK, Artifact
<1>1. ASSUME NEW m \in Milestones, NEW deps \in SUBSET Added, NEW ref \in Artifacts \cup {None},
             MilestoneAdd(m, deps, ref)
      PROVE  TypeOK'
  BY <1>1 DEF MilestoneAdd, Added, MilestoneStatus
<1>2. ASSUME NEW m \in Milestones, NEW st \in Asked, NEW ref \in Artifacts \cup {None},
             MilestoneUpdate(m, st, ref)
      PROVE  TypeOK'
  <2>1. milestones[m] \in [status : MilestoneStatus, ref : Artifacts \cup {None},
                           deps : SUBSET Milestones]
    BY <1>2 DEF MilestoneUpdate, Added
  <2>2. (IF ref # None THEN ref ELSE milestones[m].ref) \in Artifacts \cup {None}
    BY <2>1
  <2>3. [milestones[m] EXCEPT !.status = st,
                              !.ref = IF ref # None THEN ref ELSE milestones[m].ref]
          \in [status : MilestoneStatus, ref : Artifacts \cup {None}, deps : SUBSET Milestones]
    BY <2>1, <2>2
  <2>4. milestones' = [milestones EXCEPT ![m] =
           [milestones[m] EXCEPT !.status = st,
                                 !.ref = IF ref # None THEN ref ELSE milestones[m].ref]]
    BY <1>2, <2>1 DEF MilestoneUpdate
  <2> QED
    BY <1>2, <2>3, <2>4 DEF MilestoneUpdate
<1>3. ASSUME NEW r \in Artifacts, Run(r) PROVE TypeOK'
  BY <1>3 DEF Run, Request
<1>4. CASE RunSnapshot
  BY <1>4 DEF RunSnapshot, Request
<1>5. CASE RunRefresh
  BY <1>5 DEF RunRefresh, Finish, Request
<1>6. ASSUME NEW passed \in BOOLEAN, RunReceipt(passed) PROVE TypeOK'
  <2>1. request.from \in Nat /\ request.id \in Artifacts
    BY <1>6 DEF RunReceipt, Request
  <2>2. request.from .. disk \in SUBSET Nat
    BY <2>1
  <2>3. request' \in Request
    BY <1>6 DEF RunReceipt, Request
  <2> QED
    BY <1>6, <2>1, <2>2, <2>3 DEF RunReceipt
<1>7. ASSUME NEW x \in Artifacts,
             ExperimentPlan(x) \/ ExperimentComplete(x) \/ EvidenceAppend(x) \/ EvidenceResolve(x)
      PROVE  TypeOK'
  <2> DEFINE Made == [kind : {"run", "experiment", "evidence"},
                      passed : BOOLEAN, at : Nat, ran : SUBSET Nat]
  <2>1. \E a \in Made : made' = [made EXCEPT ![x] = a]
    <3>1. CASE ExperimentPlan(x)
      <4> WITNESS [kind |-> "experiment", passed |-> FALSE, at |-> head, ran |-> {}] \in Made
      <4> QED
        BY <3>1 DEF ExperimentPlan
    <3>2. CASE EvidenceAppend(x)
      <4> WITNESS [kind |-> "evidence", passed |-> TRUE, at |-> head, ran |-> {}] \in Made
      <4> QED
        BY <3>2 DEF EvidenceAppend
    <3>3. CASE ExperimentComplete(x) \/ EvidenceResolve(x)
      <4>1. made[x] \in Made
        BY <3>3 DEF ExperimentComplete, EvidenceResolve
      <4>2. \A b \in BOOLEAN : [made[x] EXCEPT !.passed = b] \in Made
        BY <4>1
      <4>3. \E b \in BOOLEAN : made' = [made EXCEPT ![x] = [made[x] EXCEPT !.passed = b]]
        BY <3>3, <4>1 DEF ExperimentComplete, EvidenceResolve
      <4> QED
        BY <4>2, <4>3
    <3> QED
      BY <1>7, <3>1, <3>2, <3>3
  <2>2. UNCHANGED <<row, events, milestones, head, disk, request>>
    BY <1>7 DEF ExperimentPlan, ExperimentComplete, EvidenceAppend, EvidenceResolve
  <2> QED
    BY <2>1, <2>2
<1>8. CASE Reconcile \/ Edit
  <2>1. head' \in Nat /\ disk' \in Nat
    BY <1>8, EditTyped
  <2>2. UNCHANGED <<row, events, world, request>>
    BY <1>8 DEF Reconcile, Edit
  <2> QED
    BY <2>1, <2>2
<1>9. CASE Crash
  BY <1>9 DEF Crash, Finish, Request
<1> QED
  BY <1>1, <1>2, <1>3, <1>4, <1>5, <1>6, <1>7, <1>8, <1>9 DEF Around

LEMMA TypeStep == TypeOK /\ [Next]_vars => TypeOK'
<1> SUFFICES ASSUME TypeOK, [Next]_vars PROVE TypeOK'
  OBVIOUS
<1>1. CASE UNCHANGED vars
  BY <1>1 DEF vars, TypeOK
<1>2. CASE Next
  BY <1>2, TypeTrajectory, TypeCount, TypeWorld DEF Next, Around
<1> QED
  BY <1>1, <1>2

(* Every variable of the trajectory and of the world around it keeps its   *)
(* type.                                                                   *)
THEOREM TypeCorrect == Spec => []TypeOK
BY TypeInit, TypeStep, PTL DEF Spec

-----------------------------------------------------------------------------
(* The inductive invariants                                                *)

(***************************************************************************)
(* Nothing is recorded before the start, and no request that still has to  *)
(* save something about the trajectory outlives its end.                   *)
(***************************************************************************)
AfterStep == {"count", "switch", "recover"}

BegunInv ==
  /\ status = "none" => last = None /\ metrics.streak = 0
  /\ request.op \in AfterStep \cup {"start event", "start clock", "close"} => status = "active"

(***************************************************************************)
(* The phases.  A switch of strategy is called for by the failed step just *)
(* recorded, never by an older one, for whoever is admitted to a step has  *)
(* fewer than two failures outstanding; so RECOVER may follow.             *)
(***************************************************************************)
SequenceInv ==
  /\ last = None => before = None
  /\ before # None => valid
  /\ request.op = "start event" => last = None
  /\ request.op \in AfterStep => before # None /\ last # None /\ last.phase # "CLOSE"
  /\ request.op \in {"switch", "recover"} => last.status \in Unsuccessful
  /\ request.op = "count" => metrics.streak < 2
  /\ request.op # "switch" => metrics.streak < 2 \/ SwitchesExhausted

(***************************************************************************)
(* The end.  Only the CLOSE event of a completion can outlive its request, *)
(* and the gate let it in after a reflection.                              *)
(***************************************************************************)
Reflected == before \in [phase : {"REFLECT", "CONTINUE"}, status : {"passed"}]

Stopping == request.op = "close" /\ request.as # "completed"

ReflectionInv ==
  /\ last # None /\ last.phase # "CLOSE" => before = last
  /\ Stopping => last # None /\ last.status # "passed"
  /\ status = "active" /\ last # None /\ last.phase = "CLOSE" /\ ~Stopping => Reflected
  /\ request.op = "close" /\ request.as = "completed" => Reflected
  /\ status = "completed" => Reflected

(***************************************************************************)
(* The budget.  The row lags the events by the step in progress, and the   *)
(* events lag the row by the switches whose RECOVER is not recorded.       *)
(***************************************************************************)
BudgetInv ==
  /\ log.steps = metrics.steps + IF request.op = "count" THEN 1 ELSE 0
  /\ log.failed = metrics.failed +
       IF request.op = "count" /\ last.status \in Unsuccessful THEN 1 ELSE 0
  /\ log.switches <= metrics.switches
  /\ request.op = "switch" => ~SwitchesExhausted
  /\ request.op = "recover" =>
       /\ log.switches < metrics.switches
       /\ "switches" \in DOMAIN Budget => metrics.switches <= Budget["switches"]

(***************************************************************************)
(* The proof: the versions a run works between; what an artifact vouches   *)
(* for (a run whose receipt names the indexed version saw nothing but it,  *)
(* unless its refresh is still due); and what the last verification, and a *)
(* completion under way, rest on.                                          *)
(***************************************************************************)
VersionsInv ==
  /\ head <= disk
  /\ request.op = "run" => disk = head
  /\ request.op = "running" => request.from = head
  /\ request.op = "refresh" => head < disk

RunOf(a, version) == made[a].kind = "run" /\ made[a].at = version

Vouches(a) ==
  made[a] # None =>
    /\ made[a].at <= head
    /\ RunOf(a, head) => made[a].ran = {head} \/ request.op = "refresh"

Completing == request.op = "close" /\ request.as = "completed"

VerifiedInv ==
  verified # None =>
    /\ made[verified.by] # None /\ made[verified.by].at = verified.at
    /\ made[verified.by].kind = "run" => made[verified.by].passed

FreshRun == request.op \in {"run", "running"} => made[request.id] = None

ProofInv ==
  /\ VersionsInv /\ FreshRun /\ (\A a \in Artifacts : Vouches(a)) /\ VerifiedInv
  /\ Completing => ProofOf(head)

-----------------------------------------------------------------------------
(* The steps that touch neither the row nor the events                     *)

Quiet ==
  /\ UNCHANGED <<row, events>>
  /\ \/ request' = request
     \/ /\ request'.op \in {"idle", "run", "running", "refresh"}
        /\ request.op = "count" => "uncounted step" \in Hazards
        /\ request.op = "switch" => "lost switch" \in Hazards
        /\ request.op = "close" /\ last.status # "passed" => "torn stop" \in Hazards

LEMMA QuietSteps == Around => Quiet
<1>1. ASSUME NEW m \in Milestones, NEW deps \in SUBSET Added, NEW ref \in Artifacts \cup {None},
             MilestoneAdd(m, deps, ref)
      PROVE  Quiet
  BY <1>1 DEF MilestoneAdd, Quiet
<1>2. ASSUME NEW m \in Milestones, NEW st \in Asked, NEW ref \in Artifacts \cup {None},
             MilestoneUpdate(m, st, ref)
      PROVE  Quiet
  BY <1>2 DEF MilestoneUpdate, Quiet
<1>3. ASSUME NEW r \in Artifacts, Run(r) PROVE Quiet
  BY <1>3 DEF Run, Idle, Open, Quiet
<1>4. ASSUME RunSnapshot \/ RunRefresh PROVE Quiet
  <2>1. request'.op \in {"idle", "running"} /\ request.op \in {"run", "refresh"}
    BY <1>4 DEF RunSnapshot, RunRefresh, Finish
  <2> QED
    BY <1>4, <2>1 DEF RunSnapshot, RunRefresh, Quiet
<1>5. ASSUME NEW passed \in BOOLEAN, RunReceipt(passed) PROVE Quiet
  <2>1. request'.op \in {"idle", "refresh"}
    BY <1>5 DEF RunReceipt
  <2> QED
    BY <1>5, <2>1 DEF RunReceipt, Quiet
<1>6. ASSUME NEW x \in Artifacts,
             ExperimentPlan(x) \/ ExperimentComplete(x) \/ EvidenceAppend(x) \/ EvidenceResolve(x)
      PROVE  Quiet
  BY <1>6 DEF ExperimentPlan, ExperimentComplete, EvidenceAppend, EvidenceResolve, Quiet
<1>7. ASSUME Reconcile \/ Edit \/ Crash PROVE Quiet
  <2>1. CASE Reconcile \/ Edit
    BY <2>1 DEF Reconcile, Edit, Quiet
  <2>2. CASE Crash
    <3>1. request'.op = "idle"
      BY <2>2 DEF Crash, Finish
    <3> QED
      BY <2>2, <3>1 DEF Crash, Quiet
  <2> QED
    BY <1>7, <2>1, <2>2
<1> QED
  BY <1>1, <1>2, <1>3, <1>4, <1>5, <1>6, <1>7 DEF Around

(* What one more event looks like.                                         *)
LEMMA RecordedEvent ==
  ASSUME TypeOK, NEW phase \in Phases, NEW st \in StepStatus, NEW forced \in BOOLEAN,
         Record(phase, st, forced)
  PROVE  /\ last' # None /\ last'.phase = phase /\ last'.status = st
         /\ before' = IF phase = "CLOSE" THEN before ELSE last'
<1>1. last' \in Event
  BY RecordTyped
<1> QED
  BY <1>1, TrajectoryAssumption DEF Record

-----------------------------------------------------------------------------
(* What crashes are assumed away, by the theorem that needs it.            *)
NoUncountedStep == "uncounted step" \notin Hazards
NoLostSwitch == "lost switch" \notin Hazards
NoTornStop == "torn stop" \notin Hazards
RunsSettled == "unrefreshed run" \notin Hazards /\ "early edit" \notin Hazards

-----------------------------------------------------------------------------
(* The phases stay a legal cycle                                           *)

LEMMA BegunInit == Init => BegunInv
BY DEF Init, BegunInv, AfterStep

LEMMA BegunStep == TypeOK /\ BegunInv /\ [Next]_vars => BegunInv'
<1> SUFFICES ASSUME TypeOK, BegunInv, [Next]_vars PROVE BegunInv'
  OBVIOUS
<1> USE DEF BegunInv, AfterStep
<1>1. ASSUME NEW s \in Initial, Start(s) PROVE BegunInv'
  BY <1>1 DEF Start
<1>2. CASE StartEvent
  BY <1>2 DEF StartEvent
<1>3. CASE StartClock
  BY <1>3 DEF StartClock, Finish
<1>4. ASSUME NEW phase \in Phases \ {"CLOSE"}, NEW st \in StepStatus, NEW progress \in BOOLEAN,
             NEW ref \in Artifacts \cup {None}, NEW calls \in Usage,
             Advance(phase, st, progress, ref, calls)
      PROVE  BegunInv'
  BY <1>4 DEF Advance
<1>5. ASSUME NEW debts \in SUBSET Debts, Count(debts) PROVE BegunInv'
  <2>1. status' = "active"
    BY <1>5 DEF Count
  <2> QED
    BY <2>1
<1>6. CASE Switch
  <2>1. status' = "active"
    BY <1>6 DEF Switch
  <2> QED
    BY <2>1
<1>7. CASE Recover
  BY <1>7 DEF Recover, Finish
<1>8. ASSUME NEW debts \in SUBSET Debts, Complete(debts) PROVE BegunInv'
  BY <1>8 DEF Complete
<1>9. ASSUME NEW as \in Ends, Stop(as) PROVE BegunInv'
  BY <1>9 DEF Stop
<1>10. CASE Close
  <2>1. status' # "none" /\ request'.op = "idle"
    BY <1>10 DEF Close, Finish, TypeOK, Request
  <2> QED
    BY <2>1
<1>11. CASE Quiet
  BY <1>11 DEF Quiet
<1>12. CASE UNCHANGED vars
  BY <1>12 DEF vars
<1> QED
  BY <1>1, <1>2, <1>3, <1>4, <1>5, <1>6, <1>7, <1>8, <1>9, <1>10, <1>11, <1>12, QuietSteps
  DEF Next, Around

LEMMA BegunAlways == Spec => [](TypeOK /\ BegunInv)
BY TypeCorrect, BegunInit, BegunStep, PTL DEF Spec

(* Whoever is admitted to a step has fewer than two failures outstanding.  *)
LEMMA FewOutstanding ==
  ASSUME TypeOK, SequenceInv, Idle, ~Exhausted
  PROVE  metrics.streak < 2
<1>1. metrics.streak \in Nat
  BY DEF TypeOK
<1>2. ~(SwitchesExhausted /\ metrics.streak > 0)
  BY DEF Exhausted
<1>3. SwitchesExhausted \/ metrics.streak < 2
  BY DEF SequenceInv, Idle
<1> QED
  BY <1>1, <1>2, <1>3

LEMMA Dichotomy == ASSUME NEW n \in Nat PROVE n < 2 \/ n >= 2
OBVIOUS

(* The second failure in a row is a sign of stagnation.                    *)
LEMMA StagnationSigned ==
  ASSUME NEW debts, metrics'.streak >= 2
  PROVE  Signs(debts)' # {}
<1>1. 5 \in 1 .. 5
  OBVIOUS
<1>2. Urgency[5] = "stagnation"
  BY DEF Urgency
<1>3. 5 \in Signs(debts)'
  BY <1>1, <1>2 DEF Signs
<1> QED
  BY <1>3

LEMMA SequenceInit == Init => SequenceInv
BY TrajectoryAssumption DEF Init, SequenceInv, AfterStep

LEMMA SequenceStep ==
  ASSUME NoLostSwitch, TypeOK, BegunInv, SequenceInv, [Next]_vars
  PROVE  SequenceInv'
<1> USE DEF BegunInv, SequenceInv, AfterStep
<1>0. /\ \A p \in Phases \ {"CLOSE"} : p # "CLOSE"
      /\ {"OBSERVE", "RECOVER", "CLOSE"} \subseteq Phases
      /\ {"passed", "failed", "inconclusive"} \subseteq StepStatus
  BY DEF Phases, StepStatus
<1>1. ASSUME NEW s \in Initial, Start(s) PROVE SequenceInv'
  BY <1>1 DEF Start, SwitchesExhausted, AtLimit
<1>2. CASE StartEvent
  <2>1. last' # None /\ last'.phase = "OBSERVE" /\ before' = last'
    BY <1>0, <1>2, RecordedEvent DEF StartEvent
  <2>2. valid' = TRUE
    BY <1>2 DEF StartEvent, Record
  <2> QED
    BY <1>2, <2>1, <2>2 DEF StartEvent, SwitchesExhausted, AtLimit
<1>3. CASE StartClock
  BY <1>3 DEF StartClock, Finish, SwitchesExhausted, AtLimit
<1>4. ASSUME NEW phase \in Phases \ {"CLOSE"}, NEW st \in StepStatus, NEW progress \in BOOLEAN,
             NEW ref \in Artifacts \cup {None}, NEW calls \in Usage,
             Advance(phase, st, progress, ref, calls)
      PROVE  SequenceInv'
  <2>1. last' # None /\ last'.phase = phase /\ before' = last'
    BY <1>0, <1>4, RecordedEvent DEF Advance
  <2>2. valid' = TRUE
    BY <1>0, <1>4 DEF Advance, Record, Allowed
  <2>3. metrics.streak < 2
    BY <1>4, FewOutstanding DEF Advance
  <2>4. UNCHANGED row /\ request'.op = "count" /\ status = "active"
    BY <1>4 DEF Advance
  <2> QED
    BY <2>1, <2>2, <2>3, <2>4
<1>5. ASSUME NEW debts \in SUBSET Debts, Count(debts) PROVE SequenceInv'
  <2>1. /\ request.op = "count" /\ metrics.streak < 2
        /\ UNCHANGED <<status, events>>
    BY <1>5 DEF Count
  <2>2. metrics'.streak \in Nat
    BY <1>5, TypeCount DEF TypeOK
  <2>3. metrics'.streak >= 2 => last.status \in Unsuccessful
    <3>1. metrics \in [steps : Nat, failed : Nat, switches : Nat, streak : Nat]
      BY DEF TypeOK
    <3>2. last.status \notin Unsuccessful => metrics'.streak \in {0, metrics.streak}
      BY <1>5, <3>1 DEF Count
    <3> QED
      BY <2>1, <3>1, <3>2
  <2>4. metrics'.streak >= 2 => Signs(debts)' # {}
    BY StagnationSigned
  <2>5. \/ /\ request'.op = "switch" /\ last.status \in Unsuccessful
        \/ /\ request'.op = "idle" /\ (metrics'.streak < 2 \/ SwitchesExhausted')
    <3> DEFINE called == /\ last.status \in Unsuccessful \/ metrics'.streak >= 2
                         /\ Signs(debts)' # {} /\ ~SwitchesExhausted'
    <3>1. request' = IF called THEN [op |-> "switch", to |-> Recovery(Signs(debts)')]
                     ELSE [op |-> "idle"]
      BY <1>5 DEF Count
    <3>2. CASE called
      BY <2>3, <3>1, <3>2
    <3>3. CASE ~called
      <4>1. metrics'.streak >= 2 => SwitchesExhausted'
        BY <2>4, <3>3
      <4>2. metrics'.streak < 2 \/ metrics'.streak >= 2
        BY <2>2, Dichotomy
      <4> QED
        BY <3>1, <3>3, <4>1, <4>2
    <3> QED
      BY <3>2, <3>3
  <2> QED
    BY <2>1, <2>5
<1>6. CASE Switch
  <2>1. metrics'.streak = 0
    BY <1>6 DEF Switch, TypeOK
  <2>2. request.op = "switch" /\ request'.op = "recover" /\ UNCHANGED events
    BY <1>6 DEF Switch
  <2> QED
    BY <2>1, <2>2
<1>7. CASE Recover
  <2>1. last' # None /\ last'.phase = "RECOVER" /\ before' = last'
    BY <1>0, <1>7, RecordedEvent DEF Recover
  <2>2. valid' = TRUE
    <3>1. Allowed = {"RECOVER"}
      BY <1>7 DEF Recover, Allowed, Unsuccessful
    <3> QED
      BY <1>7, <3>1 DEF Recover, Record
  <2> QED
    BY <1>7, <2>1, <2>2 DEF Recover, Finish, SwitchesExhausted, AtLimit
<1>8. ASSUME NEW debts \in SUBSET Debts, Complete(debts) PROVE SequenceInv'
  <2>1. last' # None /\ before' = before /\ status = "active"
    BY <1>0, <1>8, RecordedEvent DEF Complete
  <2>2. valid' = TRUE
    BY <1>8 DEF Complete, GateReady, Record, CloseAllowed
  <2> QED
    BY <1>8, <2>1, <2>2 DEF Complete, Idle, SwitchesExhausted, AtLimit
<1>9. ASSUME NEW as \in Ends, Stop(as) PROVE SequenceInv'
  <2>1. last' # None /\ before' = before /\ status = "active"
    BY <1>0, <1>9, RecordedEvent DEF Stop
  <2>2. before # None => valid'
    BY <1>9 DEF Stop, Record
  <2> QED
    BY <1>9, <2>1, <2>2 DEF Stop, Idle, SwitchesExhausted, AtLimit
<1>10. CASE Close
  <2>1. status' # "none"
    BY <1>10 DEF Close, TypeOK, Request
  <2> QED
    BY <1>10, <2>1 DEF Close, Finish, SwitchesExhausted, AtLimit
<1>11. CASE Quiet
  BY <1>11 DEF Quiet, NoLostSwitch, SwitchesExhausted, AtLimit
<1>12. CASE UNCHANGED vars
  BY <1>12 DEF vars, SwitchesExhausted, AtLimit
<1> QED
  BY <1>1, <1>2, <1>3, <1>4, <1>5, <1>6, <1>7, <1>8, <1>9, <1>10, <1>11, <1>12, QuietSteps
  DEF Next, Around

(* Unless a called-for switch is lost, no event a trajectory records, its  *)
(* own RECOVER included, makes its sequence of phases illegal.             *)
THEOREM SequenceStaysIntact ==
  ASSUME NoLostSwitch
  PROVE  Spec => []SequenceIntact
<1>1. SequenceInv => SequenceIntact
  BY DEF SequenceInv, SequenceIntact
<1> QED
  BY <1>1, BegunAlways, SequenceInit, SequenceStep, PTL DEF Spec

(* Unless a called-for switch is lost, whoever is admitted to a step has   *)
(* fewer than two failures outstanding.                                    *)
THEOREM FailuresAnswered ==
  ASSUME NoLostSwitch
  PROVE  Spec => []RepeatedFailureAnswered
<1>1. TypeOK /\ SequenceInv => RepeatedFailureAnswered
  BY FewOutstanding DEF RepeatedFailureAnswered
<1> QED
  BY <1>1, BegunAlways, SequenceInit, SequenceStep, PTL DEF Spec

-----------------------------------------------------------------------------
(* Completion after a reflection                                           *)

LEMMA ReflectionInit == Init => ReflectionInv
<1> SUFFICES ASSUME Init PROVE ReflectionInv
  OBVIOUS
<1>1. last = None /\ request.op = "idle" /\ status = "none"
  BY DEF Init
<1> QED
  BY <1>1 DEF ReflectionInv, Stopping

(* What the gate has let in, and what it leaves as the last event before.  *)
LEMMA ClosableReflected ==
  ASSUME TypeOK, BegunInv, ReflectionInv, CloseAllowed, status = "active", request.op = "idle"
  PROVE  Reflected
<1>1. CASE last.phase = "CLOSE"
  BY <1>1 DEF ReflectionInv, CloseAllowed, Stopping
<1>2. CASE last.phase \in {"REFLECT", "CONTINUE"} /\ last.status = "passed"
  <2>1. last \in Event /\ before = last
    BY <1>2 DEF TypeOK, ReflectionInv, CloseAllowed
  <2> QED
    BY <1>2, <2>1 DEF Reflected, Event
<1> QED
  BY <1>1, <1>2 DEF CloseAllowed

LEMMA ReflectionStep ==
  ASSUME NoTornStop, TypeOK, BegunInv, ReflectionInv, [Next]_vars
  PROVE  ReflectionInv'
<1> USE DEF BegunInv, ReflectionInv, AfterStep, Stopping, Reflected
<1>0. /\ \A p \in Phases \ {"CLOSE"} : p # "CLOSE"
      /\ {"OBSERVE", "RECOVER", "CLOSE"} \subseteq Phases
      /\ {"passed", "failed", "inconclusive"} \subseteq StepStatus
  BY DEF Phases, StepStatus
<1>1. ASSUME NEW s \in Initial, Start(s) PROVE ReflectionInv'
  BY <1>1 DEF Start
<1>2. CASE StartEvent
  <2>1. last'.phase = "OBSERVE" /\ before' = last'
    BY <1>0, <1>2, RecordedEvent DEF StartEvent
  <2>2. status' = "active" /\ request'.op = "start clock"
    BY <1>2 DEF StartEvent
  <2> QED
    BY <2>1, <2>2
<1>3. CASE StartClock
  BY <1>3 DEF StartClock, Finish
<1>4. ASSUME NEW phase \in Phases \ {"CLOSE"}, NEW st \in StepStatus, NEW progress \in BOOLEAN,
             NEW ref \in Artifacts \cup {None}, NEW calls \in Usage,
             Advance(phase, st, progress, ref, calls)
      PROVE  ReflectionInv'
  <2>1. last'.phase = phase /\ before' = last'
    BY <1>0, <1>4, RecordedEvent DEF Advance
  <2>2. status' = "active" /\ request'.op = "count"
    BY <1>4 DEF Advance
  <2> QED
    BY <1>0, <2>1, <2>2
<1>5. ASSUME NEW debts \in SUBSET Debts, Count(debts) PROVE ReflectionInv'
  <2>1. request'.op \in {"switch", "idle"} /\ UNCHANGED <<status, events>> /\ request.op = "count"
    BY <1>5 DEF Count
  <2> QED
    BY <2>1
<1>6. CASE Switch
  BY <1>6 DEF Switch
<1>7. CASE Recover
  <2>1. last'.phase = "RECOVER" /\ before' = last'
    BY <1>0, <1>7, RecordedEvent DEF Recover
  <2>2. status' = "active" /\ request'.op = "idle"
    BY <1>7 DEF Recover, Finish
  <2> QED
    BY <2>1, <2>2
<1>8. ASSUME NEW debts \in SUBSET Debts, Complete(debts) PROVE ReflectionInv'
  <2>1. last'.phase = "CLOSE" /\ before' = before
    BY <1>0, <1>8, RecordedEvent DEF Complete
  <2>2. status' = "active" /\ request'.op = "close" /\ request'.as = "completed"
    BY <1>8 DEF Complete
  <2>3. Reflected
    BY <1>8, ClosableReflected DEF Complete, GateReady, Idle
  <2> QED
    BY <2>1, <2>2, <2>3
<1>9. ASSUME NEW as \in Ends, Stop(as) PROVE ReflectionInv'
  <2>1. last' # None /\ last'.phase = "CLOSE" /\ last'.status # "passed"
    <3>1. (IF as = "failed" THEN "failed" ELSE "inconclusive") \in StepStatus \ {"passed"}
      BY DEF StepStatus
    <3> QED
      BY <1>0, <1>9, <3>1, RecordedEvent DEF Stop
  <2>2. as # "completed"
    BY TrajectoryAssumption
  <2>3. status' = "active" /\ request'.op = "close" /\ request'.as = as
    BY <1>9 DEF Stop
  <2> QED
    BY <2>1, <2>2, <2>3
<1>10. CASE Close
  <2>1. status' # "active" /\ request'.op = "idle" /\ UNCHANGED events
    BY <1>10 DEF Close, Finish, TypeOK, Request
  <2>2. status' = "completed" => Reflected
    BY <1>10 DEF Close
  <2> QED
    BY <2>1, <2>2
<1>11. CASE Quiet
  <2>1. UNCHANGED <<row, events>>
    BY <1>11 DEF Quiet
  <2>2. CASE request' = request
    BY <2>1, <2>2
  <2>3. CASE request'.op \in {"idle", "run", "running", "refresh"} /\ ~Stopping
    BY <2>1, <2>3
  <2> QED
    BY <1>11, <2>2, <2>3 DEF Quiet, NoTornStop
<1>12. CASE UNCHANGED vars
  BY <1>12 DEF vars
<1> QED
  BY <1>1, <1>2, <1>3, <1>4, <1>5, <1>6, <1>7, <1>8, <1>9, <1>10, <1>11, <1>12, QuietSteps
  DEF Next, Around

(* Unless a stop is torn, a trajectory completes only after a passed       *)
(* REFLECT or CONTINUE, completions cut short and repeated included.       *)
THEOREM CompletedAfterReflection ==
  ASSUME NoTornStop
  PROVE  Spec => []ClosedOnReflection
<1>1. ReflectionInv => ClosedOnReflection
  BY DEF ReflectionInv, Reflected, ClosedOnReflection
<1> QED
  BY <1>1, BegunAlways, ReflectionInit, ReflectionStep, PTL DEF Spec

-----------------------------------------------------------------------------
(* Admission within the budget                                             *)

LEMMA BudgetInit == Init => BudgetInv
<1> SUFFICES ASSUME Init PROVE BudgetInv
  OBVIOUS
<1>1. request.op = "idle"
  BY DEF Init
<1>2. /\ log.steps = 0 /\ log.failed = 0 /\ log.switches = 0
      /\ metrics.steps = 0 /\ metrics.failed = 0 /\ metrics.switches = 0
  BY DEF Init
<1> QED
  BY <1>1, <1>2 DEF BudgetInv

(* A switch is called for while the budget has one left.                   *)
LEMMA WithinSwitches ==
  ASSUME BudgetInv, metrics.switches \in Nat, request.op = "switch",
         metrics'.switches = metrics.switches + 1, "switches" \in DOMAIN Budget
  PROVE  metrics'.switches <= Budget["switches"]
<1>1. Budget["switches"] \in Nat
  BY TrajectoryAssumption
<1>2. ~(metrics.switches >= Budget["switches"])
  BY DEF BudgetInv, SwitchesExhausted, AtLimit
<1> QED
  BY <1>1, <1>2

LEMMA BudgetStep ==
  ASSUME NoUncountedStep, TypeOK, BudgetInv, [Next]_vars
  PROVE  BudgetInv'
<1> USE DEF BudgetInv
<1>0. /\ {"OBSERVE", "RECOVER", "CLOSE"} \subseteq Phases
      /\ {"passed", "failed", "inconclusive"} \subseteq StepStatus
  BY DEF Phases, StepStatus
<1>t. /\ metrics \in [steps : Nat, failed : Nat, switches : Nat, streak : Nat]
      /\ log \in [steps : Nat, failed : Nat, switches : Nat, calls : Nat]
  BY DEF TypeOK
<1>1. ASSUME NEW s \in Initial, Start(s) PROVE BudgetInv'
  BY <1>1 DEF Start, Idle
<1>2. CASE StartEvent
  BY <1>2 DEF StartEvent
<1>3. CASE StartClock
  BY <1>3 DEF StartClock, Finish
<1>4. ASSUME NEW phase \in Phases \ {"CLOSE"}, NEW st \in StepStatus, NEW progress \in BOOLEAN,
             NEW ref \in Artifacts \cup {None}, NEW calls \in Usage,
             Advance(phase, st, progress, ref, calls)
      PROVE  BudgetInv'
  <2>1. last'.status = st
    BY <1>4, RecordedEvent DEF Advance
  <2>2. /\ log'.steps = log.steps + 1 /\ log'.switches = log.switches
        /\ log'.failed = log.failed + IF st \in Unsuccessful THEN 1 ELSE 0
    BY <1>4, <1>t DEF Advance
  <2>3. UNCHANGED metrics /\ request'.op = "count" /\ request.op = "idle"
    BY <1>4 DEF Advance, Idle
  <2> QED
    BY <1>t, <2>1, <2>2, <2>3
<1>5. ASSUME NEW debts \in SUBSET Debts, Count(debts) PROVE BudgetInv'
  <2>1. /\ metrics'.steps = metrics.steps + 1 /\ metrics'.switches = metrics.switches
        /\ metrics'.failed = metrics.failed + IF last.status \in Unsuccessful THEN 1 ELSE 0
    BY <1>5, <1>t DEF Count
  <2>2. UNCHANGED events /\ request.op = "count"
    BY <1>5 DEF Count
  <2>3. \/ request'.op = "switch" /\ ~SwitchesExhausted'
        \/ request'.op = "idle"
    BY <1>5 DEF Count
  <2> QED
    BY <1>t, <2>1, <2>2, <2>3
<1>6. CASE Switch
  <2>1. /\ metrics'.steps = metrics.steps /\ metrics'.failed = metrics.failed
        /\ metrics'.switches = metrics.switches + 1
    BY <1>6, <1>t DEF Switch
  <2>2. UNCHANGED events /\ request.op = "switch" /\ request'.op = "recover"
    BY <1>6 DEF Switch
  <2>3. "switches" \in DOMAIN Budget => metrics'.switches <= Budget["switches"]
    BY <1>t, <2>1, <2>2, WithinSwitches
  <2> QED
    BY <1>t, <2>1, <2>2, <2>3
<1>7. CASE Recover
  <2>1. /\ log'.steps = log.steps /\ log'.failed = log.failed
        /\ log'.switches = log.switches + 1
    BY <1>7, <1>t DEF Recover
  <2>2. UNCHANGED metrics /\ request.op = "recover" /\ request'.op = "idle"
    BY <1>7 DEF Recover, Finish
  <2> QED
    BY <1>t, <2>1, <2>2
<1>8. ASSUME NEW debts \in SUBSET Debts, Complete(debts) PROVE BudgetInv'
  BY <1>8 DEF Complete, Idle
<1>9. ASSUME NEW as \in Ends, Stop(as) PROVE BudgetInv'
  BY <1>9 DEF Stop, Idle
<1>10. CASE Close
  BY <1>10 DEF Close, Finish
<1>11. CASE Quiet
  <2>1. UNCHANGED <<row, events>>
    BY <1>11 DEF Quiet
  <2>2. CASE request' = request
    BY <2>1, <2>2 DEF SwitchesExhausted, AtLimit
  <2>3. CASE request'.op \in {"idle", "run", "running", "refresh"} /\ request.op # "count"
    BY <2>1, <2>3
  <2> QED
    BY <1>11, <2>2, <2>3 DEF Quiet, NoUncountedStep
<1>12. CASE UNCHANGED vars
  BY <1>12 DEF vars, SwitchesExhausted, AtLimit
<1> QED
  BY <1>1, <1>2, <1>3, <1>4, <1>5, <1>6, <1>7, <1>8, <1>9, <1>10, <1>11, <1>12, QuietSteps
  DEF Next, Around

(* The only steps that add a step, or a switch, to the events.             *)
LEMMA BudgetedSteps ==
  ASSUME TypeOK, BudgetInv, Next
  PROVE  /\ log'.steps > log.steps =>
              /\ ~AtLimit("steps", log.steps) /\ ~AtLimit("calls", log.calls)
              /\ log.failed > 0 => ~AtLimit("failed", log.failed)
              /\ "wall" \in DOMAIN Budget => clock
         /\ log'.switches > log.switches => ~AtLimit("switches", log.switches)
<1> DEFINE Goal == /\ log'.steps > log.steps =>
                        /\ ~AtLimit("steps", log.steps) /\ ~AtLimit("calls", log.calls)
                        /\ log.failed > 0 => ~AtLimit("failed", log.failed)
                        /\ "wall" \in DOMAIN Budget => clock
                   /\ log'.switches > log.switches => ~AtLimit("switches", log.switches)
<1>t. /\ metrics \in [steps : Nat, failed : Nat, switches : Nat, streak : Nat]
      /\ log \in [steps : Nat, failed : Nat, switches : Nat, calls : Nat]
  BY DEF TypeOK
<1>1. ASSUME NEW phase \in Phases \ {"CLOSE"}, NEW st \in StepStatus, NEW progress \in BOOLEAN,
             NEW ref \in Artifacts \cup {None}, NEW calls \in Usage,
             Advance(phase, st, progress, ref, calls)
      PROVE  Goal
  <2>1. ~Exhausted /\ request.op = "idle"
    BY <1>1 DEF Advance, Idle
  <2>2. log.steps = metrics.steps /\ log.failed = metrics.failed
    BY <1>t, <2>1 DEF BudgetInv
  <2>3. log'.switches = log.switches
    BY <1>1, <1>t DEF Advance
  <2>4. ~(log'.switches > log.switches)
    BY <1>t, <2>3
  <2> QED
    BY <2>1, <2>2, <2>4 DEF Exhausted
<1>2. CASE Recover
  <2>1. log'.steps = log.steps
    BY <1>2, <1>t DEF Recover
  <2>2. ~(log'.steps > log.steps)
    BY <1>t, <2>1
  <2>3. ~AtLimit("switches", log.switches)
    BY <1>2, <1>t, TrajectoryAssumption DEF Recover, BudgetInv, AtLimit
  <2> QED
    BY <2>2, <2>3
<1>3. CASE UNCHANGED log
  <2>1. ~(log'.steps > log.steps) /\ ~(log'.switches > log.switches)
    BY <1>3, <1>t
  <2> QED
    BY <2>1
<1>4. CASE Quiet
  BY <1>3, <1>4 DEF Quiet
<1> QED
  BY <1>1, <1>2, <1>3, <1>4, QuietSteps
  DEF Next, Around, Start, StartEvent, StartClock, Count, Complete, Switch, Close, Stop

(* Unless a step is lost uncounted, whatever is recorded was within the    *)
(* budget, by the evidence of the events themselves.                       *)
THEOREM BudgetHolds ==
  ASSUME NoUncountedStep
  PROVE  Spec => AdmittedWithinBudget
<1>1. ASSUME TypeOK, BudgetInv, [Next]_vars
      PROVE  [/\ log'.steps > log.steps =>
                   /\ ~AtLimit("steps", log.steps) /\ ~AtLimit("calls", log.calls)
                   /\ log.failed > 0 => ~AtLimit("failed", log.failed)
                   /\ "wall" \in DOMAIN Budget => clock
              /\ log'.switches > log.switches => ~AtLimit("switches", log.switches)]_vars
  BY <1>1, BudgetedSteps
<1> QED
  BY <1>1, TypeCorrect, BudgetInit, BudgetStep, PTL DEF Spec, AdmittedWithinBudget

-----------------------------------------------------------------------------
(* The proof behind a completion                                           *)

LEMMA ProofInit == Init => ProofInv
<1> SUFFICES ASSUME Init PROVE ProofInv
  OBVIOUS
<1>1. request.op = "idle" /\ head = 0 /\ disk = 0 /\ verified = None
  BY DEF Init
<1>2. \A a \in Artifacts : made[a] = None
  BY DEF Init
<1> QED
  BY <1>1, <1>2 DEF ProofInv, VersionsInv, FreshRun, Vouches, VerifiedInv, Completing

(* Perceiving the sources as they are makes older receipts stale.          *)
LEMMA HeadMoves ==
  ASSUME TypeOK, ProofInv, head' = disk, UNCHANGED made
  PROVE  \A a \in Artifacts : Vouches(a)'
<1> SUFFICES ASSUME NEW a \in Artifacts, made[a] # None PROVE Vouches(a)'
  BY DEF Vouches
<1>1. head \in Nat /\ disk \in Nat /\ made[a].at \in Nat
  BY DEF TypeOK, Artifact
<1>2. head <= disk /\ made[a].at <= head
  BY DEF ProofInv, VersionsInv, Vouches
<1>3. CASE head = disk
  <2>1. request.op # "refresh"
    BY <1>1, <1>3 DEF ProofInv, VersionsInv
  <2> QED
    BY <1>2, <1>3, <2>1 DEF ProofInv, Vouches, RunOf
<1>4. CASE head < disk
  <2>1. made[a].at < disk
    BY <1>1, <1>2, <1>4
  <2>2. made[a].at <= disk /\ made[a].at # disk
    BY <1>1, <2>1
  <2> QED
    BY <2>2 DEF Vouches, RunOf
<1> QED
  BY <1>1, <1>2, <1>3, <1>4

(* What has been verified stays verified while its artifact does.          *)
LEMMA VerifiedKept ==
  ASSUME TypeOK, ProofInv, UNCHANGED verified,
         \A a \in Artifacts : made[a] # None =>
            /\ made'[a] # None /\ made'[a].at = made[a].at /\ made'[a].kind = made[a].kind
            /\ made[a].kind = "run" => made'[a].passed = made[a].passed
  PROVE  VerifiedInv'
<1>1. verified # None => verified.by \in Artifacts
  BY DEF TypeOK
<1> QED
  BY <1>1 DEF ProofInv, VerifiedInv

Still ==
  /\ UNCHANGED <<head, disk, made, verified>>
  /\ \/ request' = request
     \/ /\ request.op # "refresh" /\ request'.op \notin {"run", "running", "refresh"}
        /\ ~Completing'

LEMMA StillStep == TypeOK /\ ProofInv /\ Still => ProofInv'
<1> SUFFICES ASSUME TypeOK, ProofInv, Still PROVE ProofInv'
  OBVIOUS
<1>1. VersionsInv' /\ FreshRun'
  BY DEF ProofInv, Still, VersionsInv, FreshRun
<1>2. \A a \in Artifacts : Vouches(a)'
  BY DEF ProofInv, Still, Vouches, RunOf
<1>3. VerifiedInv'
  BY DEF ProofInv, Still, VerifiedInv
<1>4. Completing' => ProofOf(head)'
  BY DEF ProofInv, Still, ProofOf, Completing
<1> QED
  BY <1>1, <1>2, <1>3, <1>4 DEF ProofInv

LEMMA StillSteps ==
  ASSUME RunsSettled, TypeOK,
         \/ StartEvent \/ StartClock \/ Switch \/ Recover \/ Close \/ Crash
         \/ \E debts \in SUBSET Debts : Count(debts)
         \/ \E as \in Ends : Stop(as)
         \/ \E m \in Milestones, deps \in SUBSET Added, ref \in Artifacts \cup {None} :
              MilestoneAdd(m, deps, ref)
         \/ \E m \in Milestones, st \in Asked, ref \in Artifacts \cup {None} :
              MilestoneUpdate(m, st, ref)
  PROVE  Still
<1>1. CASE StartEvent \/ StartClock \/ Switch \/ Recover \/ Close
  <2>1. request'.op \in {"start clock", "recover", "idle"}
    <3>1. CASE StartEvent
      BY <3>1 DEF StartEvent
    <3>2. CASE StartClock \/ Recover \/ Close
      <4>1. Finish
        BY <3>2 DEF StartClock, Recover, Close
      <4> QED
        BY <4>1 DEF Finish
    <3>3. CASE Switch
      BY <3>3 DEF Switch
    <3> QED
      BY <1>1, <3>1, <3>2, <3>3
  <2>2. request.op # "refresh"
    BY <1>1 DEF StartEvent, StartClock, Switch, Recover, Close
  <2>3. UNCHANGED <<head, disk, made, verified>>
    BY <1>1 DEF StartEvent, StartClock, Switch, Recover, Close
  <2> QED
    BY <2>1, <2>2, <2>3 DEF Still, Completing
<1>2. CASE Crash
  <2>1. request.op # "refresh"
    BY <1>2 DEF Crash, RunsSettled
  <2>2. request'.op = "idle" /\ UNCHANGED <<events, world, head, disk>>
    BY <1>2 DEF Crash, Finish
  <2> QED
    BY <2>1, <2>2 DEF Still, Completing
<1>3. ASSUME NEW debts \in SUBSET Debts, Count(debts) PROVE Still
  <2>1. request'.op \in {"idle", "switch"} /\ request.op = "count"
    BY <1>3 DEF Count
  <2>2. UNCHANGED <<events, world, head, disk>>
    BY <1>3 DEF Count
  <2> QED
    BY <2>1, <2>2 DEF Still, Completing
<1>4. ASSUME NEW as \in Ends, Stop(as) PROVE Still
  <2>1. as # "completed"
    BY TrajectoryAssumption
  <2> QED
    BY <1>4, <2>1 DEF Stop, Idle, Still, Completing
<1>5. ASSUME NEW m \in Milestones, NEW deps \in SUBSET Added, NEW ref \in Artifacts \cup {None},
             MilestoneAdd(m, deps, ref)
      PROVE  Still
  BY <1>5 DEF MilestoneAdd, Still
<1>6. ASSUME NEW m \in Milestones, NEW st \in Asked, NEW ref \in Artifacts \cup {None},
             MilestoneUpdate(m, st, ref)
      PROVE  Still
  BY <1>6 DEF MilestoneUpdate, Still
<1> QED
  BY <1>1, <1>2, <1>3, <1>4, <1>5, <1>6

LEMMA Reflexive == ASSUME NEW n \in Nat PROVE n <= n
OBVIOUS

(* The requests that perceive the sources as they are.                     *)
LEMMA MovingStep ==
  ASSUME TypeOK, ProofInv, head' = disk, UNCHANGED <<disk, made, verified>>,
         request'.op \in {"idle", "start event", "run"}, FreshRun'
  PROVE  ProofInv'
<1>1. VersionsInv'
  <2>1. disk \in Nat
    BY DEF TypeOK
  <2>2. head' <= disk'
    BY <2>1, Reflexive
  <2> QED
    BY <2>2 DEF VersionsInv
<1>2. VerifiedInv'
  BY DEF ProofInv, VerifiedInv
<1>3. ~Completing'
  BY DEF Completing
<1> QED
  BY <1>1, <1>2, <1>3, HeadMoves DEF ProofInv

(* A receipt whose process saw the sources move is followed by a refresh.  *)
LEMMA ReceiptVouches ==
  ASSUME head \in Nat, disk \in Nat, NEW x \in Artifacts, NEW passed, UNCHANGED head,
         made'[x] = [kind |-> "run", passed |-> passed, at |-> head, ran |-> head .. disk],
         request'.op = IF disk # head THEN "refresh" ELSE "idle"
  PROVE  Vouches(x)'
<1>1. made'[x].at <= head'
  OBVIOUS
<1>2. disk = head => made'[x].ran = {head}
  OBVIOUS
<1>3. disk # head => request'.op = "refresh"
  OBVIOUS
<1> QED
  BY <1>1, <1>2, <1>3 DEF Vouches

LEMMA ProofStep ==
  ASSUME RunsSettled, TypeOK, ProofInv, [Next]_vars
  PROVE  ProofInv'
<1>t. head \in Nat /\ disk \in Nat /\ head <= disk
  BY DEF TypeOK, ProofInv, VersionsInv
<1>v. VersionsInv /\ FreshRun /\ (\A a \in Artifacts : Vouches(a)) /\ VerifiedInv
  BY DEF ProofInv
<1>1. ASSUME NEW s \in Initial, Start(s) PROVE ProofInv'
  <2>1. head' = disk /\ request'.op = "start event" /\ UNCHANGED <<disk, made, verified>>
    BY <1>1 DEF Start
  <2> QED
    BY <2>1, MovingStep DEF FreshRun
<1>2. ASSUME NEW r \in Artifacts, Run(r) PROVE ProofInv'
  <2>1. head' = disk /\ request'.op = "run" /\ UNCHANGED <<disk, made, verified>>
    BY <1>2 DEF Run
  <2>2. made'[request'.id] = None
    BY <1>2 DEF Run
  <2> QED
    BY <2>1, <2>2, MovingStep DEF FreshRun
<1>3. CASE RunRefresh
  <2>1. head' = disk /\ request'.op = "idle" /\ UNCHANGED <<disk, made, verified>>
    BY <1>3 DEF RunRefresh, Finish
  <2> QED
    BY <2>1, MovingStep DEF FreshRun
<1>4. CASE Reconcile
  <2>1. head' = disk /\ request'.op = "idle" /\ UNCHANGED <<disk, made, verified>>
    BY <1>4 DEF Reconcile, Open, Idle
  <2> QED
    BY <2>1, MovingStep DEF FreshRun
<1>5. ASSUME NEW phase \in Phases \ {"CLOSE"}, NEW st \in StepStatus, NEW progress \in BOOLEAN,
             NEW ref \in Artifacts \cup {None}, NEW calls \in Usage,
             Advance(phase, st, progress, ref, calls)
      PROVE  ProofInv'
  <2>1. UNCHANGED <<made, head, disk>> /\ request.op = "idle" /\ request'.op = "count"
    BY <1>5 DEF Advance, Idle
  <2>2. VersionsInv' /\ FreshRun' /\ ~Completing'
    BY <1>v, <2>1 DEF VersionsInv, FreshRun, Completing
  <2>3. \A a \in Artifacts : Vouches(a)'
    BY <1>v, <2>1 DEF Vouches, RunOf
  <2>4. VerifiedInv'
    <3>1. CASE phase = "VERIFY" /\ st = "passed"
      <4>1. verified' = [at |-> head, by |-> ref] /\ Current(ref)
        BY <1>5, <3>1 DEF Advance
      <4> QED
        BY <2>1, <4>1 DEF Current, Successful, VerifiedInv
    <3>2. CASE ~(phase = "VERIFY" /\ st = "passed")
      BY <1>5, <1>v, <2>1, <3>2 DEF Advance, VerifiedInv
    <3> QED
      BY <3>1, <3>2
  <2> QED
    BY <2>2, <2>3, <2>4 DEF ProofInv
<1>6. ASSUME NEW debts \in SUBSET Debts, Complete(debts) PROVE ProofInv'
  <2>1. /\ UNCHANGED <<made, verified, head, disk>>
        /\ request.op = "idle" /\ request'.op = "close"
    BY <1>6 DEF Complete, Idle
  <2>2. VersionsInv' /\ FreshRun' /\ VerifiedInv'
    BY <1>v, <2>1 DEF VersionsInv, FreshRun, VerifiedInv
  <2>3. \A a \in Artifacts : Vouches(a)'
    BY <1>v, <2>1 DEF Vouches, RunOf
  <2>4. ProofOf(head)
    <3>1. verified # None /\ verified.at = head /\ verified.by \in Artifacts
      BY <1>6 DEF Complete, GateReady, TypeOK
    <3> QED
      BY <1>v, <2>1, <3>1 DEF VerifiedInv, Vouches, RunOf, ProofOf
  <2> QED
    BY <2>1, <2>2, <2>3, <2>4 DEF ProofInv, ProofOf
<1>7. CASE RunSnapshot
  <2>1. UNCHANGED <<made, verified, head, disk>> /\ request.op = "run"
    BY <1>7 DEF RunSnapshot
  <2>2. request'.op = "running" /\ request'.from = disk /\ request'.id = request.id
    BY <1>7 DEF RunSnapshot
  <2>3. VersionsInv' /\ FreshRun' /\ VerifiedInv' /\ ~Completing'
    BY <1>v, <2>1, <2>2 DEF VersionsInv, FreshRun, VerifiedInv, Completing
  <2>4. \A a \in Artifacts : Vouches(a)'
    BY <1>v, <2>1 DEF Vouches, RunOf
  <2> QED
    BY <2>3, <2>4 DEF ProofInv
<1>8. ASSUME NEW passed \in BOOLEAN, RunReceipt(passed) PROVE ProofInv'
  <2>1. request.id \in Artifacts /\ request.op = "running" /\ request.from = head
    BY <1>8, <1>v DEF RunReceipt, VersionsInv, TypeOK, Request
  <2>2. UNCHANGED <<verified, head, disk>>
    BY <1>8 DEF RunReceipt
  <2>3. /\ \A a \in Artifacts \ {request.id} : made'[a] = made[a]
        /\ made'[request.id] = [kind |-> "run", passed |-> passed, at |-> head,
                                ran |-> head .. disk]
    BY <1>8, <2>1 DEF RunReceipt, TypeOK
  <2>4. request'.op = IF disk # head THEN "refresh" ELSE "idle"
    BY <1>8, <2>1 DEF RunReceipt
  <2>5. VersionsInv' /\ FreshRun' /\ ~Completing'
    BY <1>t, <2>2, <2>4 DEF VersionsInv, FreshRun, Completing
  <2>6. \A a \in Artifacts : Vouches(a)'
    <3>1. \A x \in Artifacts : x = request.id => Vouches(x)'
      BY <1>t, <2>2, <2>3, <2>4, ReceiptVouches
    <3>2. \A a \in Artifacts \ {request.id} : Vouches(a)'
      BY <1>v, <2>1, <2>2, <2>3 DEF Vouches, RunOf
    <3> QED
      BY <3>1, <3>2
  <2>7. VerifiedInv'
    <3>1. made[request.id] = None
      BY <1>v, <2>1 DEF FreshRun
    <3> QED
      BY <2>2, <2>3, <3>1, VerifiedKept
  <2> QED
    BY <2>5, <2>6, <2>7 DEF ProofInv
<1>9. ASSUME NEW x \in Artifacts,
             ExperimentPlan(x) \/ ExperimentComplete(x) \/ EvidenceAppend(x) \/ EvidenceResolve(x)
      PROVE  ProofInv'
  <2>1. UNCHANGED <<verified, head, disk, request>> /\ request.op = "idle"
    BY <1>9 DEF ExperimentPlan, ExperimentComplete, EvidenceAppend, EvidenceResolve, Open, Idle
  <2>2. \A a \in Artifacts \ {x} : made'[a] = made[a]
    BY <1>9 DEF ExperimentPlan, ExperimentComplete, EvidenceAppend, EvidenceResolve, TypeOK
  <2>3. /\ made'[x] # None /\ made'[x].kind # "run" /\ made'[x].at <= head
        /\ made[x] # None => made'[x].at = made[x].at /\ made'[x].kind = made[x].kind
    <3>1. CASE ExperimentPlan(x) \/ EvidenceAppend(x)
      <4>1. \E k \in {"experiment", "evidence"}, b \in BOOLEAN :
               made'[x] = [kind |-> k, passed |-> b, at |-> head, ran |-> {}]
        BY <3>1 DEF ExperimentPlan, EvidenceAppend, TypeOK
      <4>2. made'[x] \in Artifact
        BY <1>t, <4>1 DEF Artifact
      <4> QED
        BY <1>t, <3>1, <4>1, <4>2, TrajectoryAssumption DEF ExperimentPlan, EvidenceAppend
    <3>2. CASE ExperimentComplete(x) \/ EvidenceResolve(x)
      <4>1. made[x] # None /\ made[x].kind # "run" /\ made[x] \in Artifact
        BY <3>2 DEF ExperimentComplete, EvidenceResolve, TypeOK
      <4>2. \E b \in BOOLEAN : made'[x] = [made[x] EXCEPT !.passed = b]
        BY <3>2 DEF ExperimentComplete, EvidenceResolve, TypeOK
      <4>3. made'[x] \in Artifact /\ made'[x].at = made[x].at /\ made'[x].kind = made[x].kind
        BY <4>1, <4>2 DEF Artifact
      <4> QED
        BY <1>v, <4>1, <4>3, TrajectoryAssumption DEF Vouches
    <3> QED
      BY <1>9, <3>1, <3>2
  <2>4. VersionsInv' /\ FreshRun' /\ ~Completing'
    BY <1>v, <2>1 DEF VersionsInv, FreshRun, Completing
  <2>5. \A a \in Artifacts : Vouches(a)'
    <3>1. Vouches(x)'
      BY <2>1, <2>3 DEF Vouches, RunOf
    <3>2. \A a \in Artifacts \ {x} : Vouches(a)'
      BY <1>v, <2>1, <2>2 DEF Vouches, RunOf
    <3> QED
      BY <3>1, <3>2
  <2>6. VerifiedInv'
    BY <2>1, <2>2, <2>3, VerifiedKept
  <2> QED
    BY <2>4, <2>5, <2>6 DEF ProofInv
<1>10. CASE Edit
  <2>1. UNCHANGED <<made, verified, head, request>> /\ disk' = disk + 1 /\ request.op # "run"
    BY <1>10 DEF Edit, RunsSettled
  <2>2. head' <= disk' /\ (head < disk => head' < disk')
    BY <1>t, <2>1
  <2>3. VersionsInv' /\ FreshRun'
    BY <1>v, <2>1, <2>2 DEF VersionsInv, FreshRun
  <2>4. \A a \in Artifacts : Vouches(a)'
    BY <1>v, <2>1 DEF Vouches, RunOf
  <2>5. VerifiedInv' /\ (Completing' => ProofOf(head)')
    BY <2>1 DEF ProofInv, VerifiedInv, ProofOf, Completing
  <2> QED
    BY <2>3, <2>4, <2>5 DEF ProofInv
<1>11. CASE Still
  BY <1>11, StillStep
<1>12. CASE UNCHANGED vars
  BY <1>12, StillStep DEF vars, Still
<1> QED
  BY <1>1, <1>2, <1>3, <1>4, <1>5, <1>6, <1>7, <1>8, <1>9, <1>10, <1>11, <1>12, StillSteps
  DEF Next

(* Unless a run is left unrefreshed, or the sources change before its      *)
(* first snapshot, what vouches for a completion saw the version that is   *)
(* completed and no other.                                                 *)
THEOREM CompletedOnProof ==
  ASSUME RunsSettled
  PROVE  Spec => ClosedOnProof
<1>1. ASSUME TypeOK, ProofInv, [Next]_vars
      PROVE  [status # "completed" /\ status' = "completed" => ProofOf(head)]_vars
  <2>1. ASSUME Next, status # "completed", status' = "completed" PROVE Close
    BY <2>1, QuietSteps
    DEF Next, Around, Quiet, Start, StartEvent, StartClock, Advance, Count, Complete, Switch,
        Recover, Stop
  <2>2. Close /\ status' = "completed" => ProofOf(head)
    BY <1>1 DEF Close, ProofInv, Completing
  <2> QED
    BY <1>1, <2>1, <2>2
<1> QED
  BY <1>1, TypeCorrect, ProofInit, ProofStep, PTL DEF Spec, ClosedOnProof
=============================================================================
