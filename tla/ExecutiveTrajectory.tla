------------------------ MODULE ExecutiveTrajectory ------------------------
(***************************************************************************)
(* One executive trajectory: a goal pursued through a fixed cycle of       *)
(* control phases, metered by a budget, and closed only through a          *)
(* completion gate (executive.py, executive_resources.py and the           *)
(* executive operations of HabitatWorkspace).                              *)
(*                                                                         *)
(* The event log is kept as what its readers compute from it: the last     *)
(* control event, whether the sequence of phases is valid, the last passed *)
(* VERIFY, and how much of each resource the events show.  The row of the  *)
(* trajectory keeps its own counts (`metrics'), saved after the event they *)
(* count.  The server runs one request at a time; `request' says between   *)
(* which two saves of which request it is, for that is where the process   *)
(* can die.  Other programs edit the sources at any time.                  *)
(***************************************************************************)
EXTENDS Integers, Sequences, FiniteSets, FiniteSetsExt

CONSTANTS
  Artifacts,    \* receipts of runs, experiments, evidence that is no failure
  None,         \* no artifact, no event, no revision
  Milestones,   \* milestones that may be added
  Critical,     \* those of high or critical priority
  Asked,        \* the statuses milestones may be given
  Initial,      \* the strategies a trajectory may start with
  Ends,         \* how a trajectory may be stopped
  Budget,       \* the declared limits
  Usage,        \* tool calls a provider may report for one step
  Debts,        \* open problems the rest of the workspace may report
  MaxRevision,  \* bound: versions of the sources
  Hazards       \* what may happen beyond crashes that are repaired

Phases == {"OBSERVE", "UPDATE", "DIAGNOSE", "RETRIEVE", "COMPOSE", "DISPATCH",
           "VERIFY", "REFLECT", "RECOVER", "CONTINUE", "CLOSE"}
StepStatus == {"running", "passed", "failed", "inconclusive"}
Strategies == {"direct-analysis", "reframe", "causal-intervention", "rival-hypothesis",
               "external-oracle", "dependency-replan", "scope-reduction"}
MilestoneStatus == {"pending", "in_progress", "passed", "failed", "skipped"}

Event == [phase : Phases, status : StepStatus]

(* A receipt of a run, an experiment or a piece of evidence.               *)
Artifact == [kind : {"run", "experiment", "evidence"},
             passed : BOOLEAN, at : Nat, ran : SUBSET Nat]

(***************************************************************************)
(* steps, failed, switches: counted by the trajectory itself; calls:       *)
(* reported by a provider; wall: the time since the start.  That the time  *)
(* is up only refuses steps, which may fail to come at any moment anyway,  *)
(* so no value of it is kept.                                              *)
(***************************************************************************)
Limits == {"steps", "failed", "switches", "calls", "wall"}

(***************************************************************************)
(* invalidation: pending notifications of the agent; contradiction: an     *)
(* open contradiction; weak oracle: a critical invariant without verifier; *)
(* loop: the visible operations repeat.  Other components keep them, so    *)
(* each reading may find any of them.                                      *)
(***************************************************************************)
AllDebts == {"invalidation", "contradiction", "weak oracle", "loop"}
Blocking == AllDebts \ {"loop"}

(***************************************************************************)
(* "uncounted step": the process dies after the event of a step and before *)
(*                   the counts are saved                                  *)
(* "lost switch":    it dies after the counts that call for another        *)
(*                   strategy and before the strategy is saved             *)
(* "torn stop":      it dies after the CLOSE event of a stop and before    *)
(*                   the status is saved                                   *)
(* "unrefreshed run": it dies after the receipt of a run that changed the  *)
(*                   sources and before the refresh                        *)
(* "early edit":     a program edits the sources after the reconcile of a  *)
(*                   run and before the runner's first snapshot            *)
(***************************************************************************)
AllHazards == {"uncounted step", "lost switch", "torn stop", "unrefreshed run", "early edit"}

ASSUME TrajectoryAssumption ==
  /\ DOMAIN Budget \subseteq Limits /\ \A k \in DOMAIN Budget : Budget[k] \in Nat
  /\ "steps" \in DOMAIN Budget => Budget["steps"] > 0
  /\ None \notin Artifacts \cup Event \cup Artifact /\ Critical \subseteq Milestones
  /\ Asked \subseteq MilestoneStatus /\ Ends \subseteq {"failed", "abandoned"}
  /\ Initial \subseteq Strategies
  /\ Usage \subseteq Nat /\ Debts \subseteq AllDebts /\ MaxRevision \in Nat
  /\ Hazards \subseteq AllHazards

VARIABLES
  status,      \* of the row: "none" before the trajectory starts
  strategy,    \* current_strategy
  metrics,     \* the row's counts: steps, failed, switches, streak
  clock,       \* whether wall_started_ns is set
  last,        \* the last control event: [phase, status], or None
  valid,       \* what verify_phase_sequence says of the control events
  before,      \* the last control event that is not a CLOSE, or None
  verified,    \* the last passed VERIFY: [at, by], or None
  log,         \* what the events show: steps, failed, switches, calls
  milestones,  \* [Milestones -> their row or None]
  made,        \* [Artifacts -> what was recorded, or None]
  head, disk,  \* versions of the sources: the indexed one, the one on disk
  request      \* the request in progress

row == <<status, strategy, metrics, clock>>
events == <<last, valid, before, verified, log>>
world == <<milestones, made>>
vars == <<row, events, world, head, disk, request>>

-----------------------------------------------------------------------------
(* The phases.                                                             *)

Successor ==
  [OBSERVE |-> "UPDATE", UPDATE |-> "DIAGNOSE", DIAGNOSE |-> "RETRIEVE", RETRIEVE |-> "COMPOSE",
   COMPOSE |-> "DISPATCH", DISPATCH |-> "VERIFY", VERIFY |-> "REFLECT", REFLECT |-> "CONTINUE",
   RECOVER |-> "CONTINUE", CONTINUE |-> "OBSERVE"]

Unsuccessful == {"failed", "inconclusive"}

(* expected_control_phases: what may follow the last control event.        *)
Allowed ==
  CASE last = None -> {"OBSERVE"}
    [] last # None /\ last.phase = "CLOSE" -> {}
    [] last # None /\ last.phase # "CLOSE" /\ last.status \in Unsuccessful -> {"RECOVER"}
    [] last # None /\ last.phase # "CLOSE" /\ last.status = "running" -> {last.phase}
    [] last # None /\ last.phase # "CLOSE" /\ last.status = "passed" ->
         {last.phase, Successor[last.phase]}

(* Sensitivity: a passed verification is enough to close.                  *)
CloseAllowedOnVerify ==
  /\ last # None
  /\ \/ last.phase \in {"VERIFY", "REFLECT", "CONTINUE"} /\ last.status = "passed"
     \/ last.phase = "CLOSE"

CloseAllowed ==
  /\ last # None
  /\ \/ last.phase \in {"REFLECT", "CONTINUE"} /\ last.status = "passed"
     \/ last.phase = "CLOSE"

(***************************************************************************)
(* append_executive_event for a control event; verify_phase_sequence then  *)
(* judges it in its place.  The first event must be the start.             *)
(***************************************************************************)
Record(phase, st, forced) ==
  /\ last' = [phase |-> phase, status |-> st]
  /\ before' = IF phase = "CLOSE" THEN before ELSE last'
  /\ valid' = IF last = None THEN phase = "OBSERVE"
              ELSE /\ valid
                   /\ IF phase = "CLOSE" THEN forced \/ CloseAllowed ELSE phase \in Allowed

-----------------------------------------------------------------------------
(* The budget and the diagnosis of failures.                               *)

AtLimit(k, n) == k \in DOMAIN Budget /\ n >= Budget[k]

SwitchesExhausted == AtLimit("switches", metrics.switches)

(* Sensitivity: what the provider reports is measured and never enforced.  *)
ExhaustedUnmetered ==
  \/ AtLimit("steps", metrics.steps)
  \/ metrics.failed > 0 /\ AtLimit("failed", metrics.failed)
  \/ SwitchesExhausted /\ metrics.streak > 0
  \/ "wall" \in DOMAIN Budget /\ ~clock

(* _executive_budget_state: the reasons that refuse a further step.        *)
Exhausted ==
  \/ AtLimit("steps", metrics.steps)
  \/ metrics.failed > 0 /\ AtLimit("failed", metrics.failed)
  \/ SwitchesExhausted /\ metrics.streak > 0
  \/ "wall" \in DOMAIN Budget /\ ~clock
  \/ AtLimit("calls", log.calls)

(* classify_strategy_failure, most urgent sign first, with its remedy.     *)
Urgency == <<"invalidation", "contradiction", "weak oracle", "failed verification", "stagnation">>
Remedy ==
  <<"dependency-replan", "rival-hypothesis", "external-oracle", "causal-intervention", "reframe">>

(* Sensitivity: stagnation starts at the third failure in a row.           *)
SignsLate(debts) ==
  { i \in 1 .. 5 :
      \/ Urgency[i] \in debts
      \/ Urgency[i] = "failed verification" /\ last = [phase |-> "VERIFY", status |-> "failed"]
      \/ Urgency[i] = "stagnation" /\ ("loop" \in debts \/ metrics.streak > 2) }

Signs(debts) ==
  { i \in 1 .. 5 :
      \/ Urgency[i] \in debts
      \/ Urgency[i] = "failed verification" /\ last = [phase |-> "VERIFY", status |-> "failed"]
      \/ Urgency[i] = "stagnation" /\ ("loop" \in debts \/ metrics.streak >= 2) }

(* structural_recovery_strategy never keeps the strategy that failed.      *)
Recovery(signs) ==
  LET preferred == Remedy[Min(signs)]
  IN  IF preferred # strategy THEN preferred
      ELSE IF strategy # "scope-reduction" THEN "scope-reduction" ELSE "external-oracle"

-----------------------------------------------------------------------------
(* Artifacts, milestones and the gate.                                     *)

(* _executive_verifier_artifact finds it and calls it successful.          *)
Successful(ref) == ref \in Artifacts /\ made[ref] # None /\ made[ref].passed

Current(ref) == Successful(ref) /\ made[ref].at = head

Added == { m \in Milestones : milestones[m] # None }

MilestonesProven ==
  \A m \in Added \cap Critical : milestones[m].status = "passed" /\ Successful(milestones[m].ref)

(* Sensitivity: who reflects must have verified, so nobody asks.           *)
GateReadyTrusting(debts) ==
  valid /\ MilestonesProven /\ debts \cap Blocking = {} /\ CloseAllowed

(***************************************************************************)
(* _executive_completion_gate.  Dependencies name earlier milestones only, *)
(* so its search for cycles and missing milestones finds none, and nothing *)
(* rewrites events, so the hash chain is whole.                            *)
(***************************************************************************)
GateReady(debts) ==
  /\ valid /\ MilestonesProven /\ debts \cap Blocking = {}
  /\ verified # None /\ verified.at = head
  /\ CloseAllowed

-----------------------------------------------------------------------------
Idle == request.op = "idle"
Finish == request' = [op |-> "idle"]

(* The world is followed as long as the trajectory has not ended.          *)
Open == Idle /\ status \in {"none", "active"}

Init ==
  /\ status = "none" /\ strategy = "direct-analysis" /\ clock = FALSE
  /\ metrics = [steps |-> 0, failed |-> 0, switches |-> 0, streak |-> 0]
  /\ last = None /\ valid = FALSE /\ before = None /\ verified = None
  /\ log = [steps |-> 0, failed |-> 0, switches |-> 0, calls |-> 0]
  /\ milestones = [m \in Milestones |-> None] /\ made = [a \in Artifacts |-> None]
  /\ head = 0 /\ disk = 0 /\ request = [op |-> "idle"]

(***************************************************************************)
(* executive_start: reconcile, save the row, append the first event, then  *)
(* save the time the budget counts from.                                   *)
(***************************************************************************)
Start(initial) ==
  /\ Idle /\ status = "none"
  /\ head' = disk /\ status' = "active" /\ strategy' = initial
  /\ request' = [op |-> "start event"]
  /\ UNCHANGED <<metrics, clock, events, world, disk>>

StartEvent ==
  /\ request.op = "start event"
  /\ Record("OBSERVE", "passed", FALSE) /\ request' = [op |-> "start clock"]
  /\ UNCHANGED <<row, verified, log, world, head, disk>>

StartClock ==
  /\ request.op = "start clock" /\ clock' = TRUE /\ Finish
  /\ UNCHANGED <<status, strategy, metrics, events, world, head, disk>>

(***************************************************************************)
(* executive_advance, up to its event.  A step whose budget meters a       *)
(* provider must report usage; a receipt already admitted is refused, so   *)
(* each report counts once.                                                *)
(***************************************************************************)
Advance(phase, st, progress, ref, calls) ==
  /\ Idle /\ status = "active" /\ ~Exhausted
  /\ valid /\ phase \in Allowed
  /\ phase = "VERIFY" /\ st = "passed" => Current(ref)
  /\ Record(phase, st, FALSE)
  /\ verified' = IF phase = "VERIFY" /\ st = "passed" THEN [at |-> head, by |-> ref] ELSE verified
  /\ log' = [log EXCEPT !.steps = @ + 1, !.calls = @ + calls,
                        !.failed = IF st \in Unsuccessful THEN @ + 1 ELSE @]
  /\ request' = [op |-> "count", progress |-> progress]
  /\ UNCHANGED <<row, world, head, disk>>

(* Sensitivity: a step that does not fail forgives one that did.           *)
CountForgiving(debts) ==
  /\ request.op = "count" /\ Finish
  /\ metrics' = [metrics EXCEPT
       !.steps = @ + 1,
       !.failed = IF last.status \in Unsuccessful THEN @ + 1 ELSE @,
       !.streak = IF last.status \in Unsuccessful THEN @ + 1 ELSE @ - 1]
  /\ UNCHANGED <<status, strategy, clock, events, world, head, disk>>

(* Sensitivity: any sign of trouble switches, after a step that passed too. *)
CountEager(debts) ==
  /\ request.op = "count"
  /\ UNCHANGED <<status, strategy, clock, events, world, head, disk>>
  /\ LET failing == last.status \in Unsuccessful
     IN  /\ metrics' = [metrics EXCEPT
              !.steps = @ + 1,
              !.failed = IF failing THEN @ + 1 ELSE @,
              !.streak = IF failing THEN @ + 1 ELSE IF request.progress THEN 0 ELSE @]
         /\ request' = IF Signs(debts)' # {} /\ ~SwitchesExhausted'
                       THEN [op |-> "switch", to |-> Recovery(Signs(debts)')]
                       ELSE [op |-> "idle"]

(* The counts are saved; a failure, or two in a row, may call for a switch. *)
Count(debts) ==
  /\ request.op = "count"
  /\ UNCHANGED <<status, strategy, clock, events, world, head, disk>>
  /\ LET failing == last.status \in Unsuccessful
     IN  /\ metrics' = [metrics EXCEPT
              !.steps = @ + 1,
              !.failed = IF failing THEN @ + 1 ELSE @,
              !.streak = IF failing THEN @ + 1 ELSE IF request.progress THEN 0 ELSE @]
         /\ request' = IF /\ failing \/ metrics'.streak >= 2
                          /\ Signs(debts)' # {} /\ ~SwitchesExhausted'
                       THEN [op |-> "switch", to |-> Recovery(Signs(debts)')]
                       ELSE [op |-> "idle"]

Switch ==
  /\ request.op = "switch" /\ strategy' = request.to
  /\ metrics' = [metrics EXCEPT !.switches = @ + 1, !.streak = 0]
  /\ request' = [op |-> "recover"]
  /\ UNCHANGED <<status, clock, events, world, head, disk>>

Recover ==
  /\ request.op = "recover" /\ Record("RECOVER", "passed", FALSE)
  /\ log' = [log EXCEPT !.switches = @ + 1] /\ Finish
  /\ UNCHANGED <<row, verified, world, head, disk>>

(* executive_complete and executive_stop: the CLOSE event, then the status. *)
Complete(debts) ==
  /\ Idle /\ status = "active" /\ GateReady(debts)
  /\ Record("CLOSE", "passed", FALSE) /\ request' = [op |-> "close", as |-> "completed"]
  /\ UNCHANGED <<row, verified, log, world, head, disk>>

Stop(as) ==
  /\ Idle /\ status = "active"
  /\ Record("CLOSE", IF as = "failed" THEN "failed" ELSE "inconclusive", TRUE)
  /\ request' = [op |-> "close", as |-> as]
  /\ UNCHANGED <<row, verified, log, world, head, disk>>

Close ==
  /\ request.op = "close" /\ status' = request.as /\ Finish
  /\ UNCHANGED <<strategy, metrics, clock, events, world, head, disk>>

(***************************************************************************)
(* Milestones.  Their events are no control steps.                         *)
(***************************************************************************)
MilestoneAdd(m, deps, ref) ==
  /\ Idle /\ status = "active" /\ milestones[m] = None
  /\ milestones' = [milestones EXCEPT ![m] = [status |-> "pending", ref |-> ref, deps |-> deps]]
  /\ UNCHANGED <<row, events, made, head, disk, request>>

MilestoneUpdate(m, st, ref) ==
  LET used == IF ref # None THEN ref ELSE milestones[m].ref
  IN  /\ Idle /\ status = "active" /\ m \in Added
      /\ st \in {"in_progress", "passed"} =>
           \A d \in milestones[m].deps : milestones[d].status = "passed"
      /\ st = "passed" /\ m \in Critical => Current(used)
      /\ milestones' = [milestones EXCEPT ![m].status = st, ![m].ref = used]
      /\ UNCHANGED <<row, events, made, head, disk, request>>

(***************************************************************************)
(* A run reconciles, starts its process between two snapshots of the       *)
(* sources, saves its receipt under the revision it reconciled to, and     *)
(* refreshes when the snapshots differ.  `ran' are the versions the        *)
(* process may have seen.                                                  *)
(***************************************************************************)
Run(r) ==
  /\ Open /\ made[r] = None
  /\ head' = disk /\ request' = [op |-> "run", id |-> r]
  /\ UNCHANGED <<row, events, world, disk>>

RunSnapshot ==
  /\ request.op = "run"
  /\ request' = [op |-> "running", id |-> request.id, from |-> disk]
  /\ UNCHANGED <<row, events, world, head, disk>>

RunReceipt(passed) ==
  /\ request.op = "running"
  /\ made' = [made EXCEPT ![request.id] =
                [kind |-> "run", passed |-> passed, at |-> head,
                 ran |-> request.from .. disk]]
  /\ request' = [op |-> IF disk # request.from THEN "refresh" ELSE "idle"]
  /\ UNCHANGED <<row, events, milestones, head, disk>>

RunRefresh ==
  /\ request.op = "refresh" /\ head' = disk /\ Finish
  /\ UNCHANGED <<row, events, world, disk>>

(* experiment_plan and experiment_complete, evidence and its resolution.   *)
ExperimentPlan(x) ==
  /\ Open /\ made[x] = None
  /\ made' = [made EXCEPT ![x] = [kind |-> "experiment", passed |-> FALSE, at |-> head, ran |-> {}]]
  /\ UNCHANGED <<row, events, milestones, head, disk, request>>

ExperimentComplete(x) ==
  /\ Open /\ made[x] # None /\ made[x].kind = "experiment" /\ ~made[x].passed
  /\ made' = [made EXCEPT ![x].passed = TRUE]
  /\ UNCHANGED <<row, events, milestones, head, disk, request>>

EvidenceAppend(x) ==
  /\ Open /\ made[x] = None
  /\ made' = [made EXCEPT ![x] = [kind |-> "evidence", passed |-> TRUE, at |-> head, ran |-> {}]]
  /\ UNCHANGED <<row, events, milestones, head, disk, request>>

EvidenceResolve(x) ==
  /\ Open /\ made[x] # None /\ made[x].kind = "evidence" /\ made[x].passed
  /\ made' = [made EXCEPT ![x].passed = FALSE]
  /\ UNCHANGED <<row, events, milestones, head, disk, request>>

-----------------------------------------------------------------------------
(* Around the trajectory.                                                  *)

(* Any other request perceives the sources as they are.                    *)
Reconcile ==
  /\ Open /\ head # disk /\ head' = disk
  /\ UNCHANGED <<row, events, world, disk, request>>

(* Another program saves something never saved before.                     *)
Edit ==
  /\ status \in {"none", "active"} /\ disk < MaxRevision
  /\ (request.op = "run" => "early edit" \in Hazards)
  /\ disk' = disk + 1
  /\ UNCHANGED <<row, events, world, head, request>>

(* The process dies between two saves; the next one finds what was saved.  *)
Crash ==
  /\ ~Idle
  /\ request.op = "count" => "uncounted step" \in Hazards
  /\ request.op = "switch" => "lost switch" \in Hazards
  /\ request.op = "close" /\ last.status # "passed" => "torn stop" \in Hazards
  /\ request.op = "refresh" => "unrefreshed run" \in Hazards
  /\ Finish
  /\ UNCHANGED <<row, events, world, head, disk>>

Next ==
  \/ \E s \in Initial : Start(s)
  \/ StartEvent \/ StartClock
  \/ \E phase \in (Phases \ {"CLOSE"}) \cap Allowed, st \in StepStatus, progress \in BOOLEAN,
        ref \in Artifacts \cup {None}, calls \in Usage :
       Advance(phase, st, progress, ref, calls)
  \/ \E debts \in SUBSET Debts : Count(debts) \/ Complete(debts)
  \/ Switch \/ Recover \/ Close \/ \E as \in Ends : Stop(as)
  \/ \E m \in Milestones, deps \in SUBSET Added, ref \in Artifacts \cup {None} :
       MilestoneAdd(m, deps, ref)
  \/ \E m \in Milestones, st \in Asked, ref \in Artifacts \cup {None} :
       MilestoneUpdate(m, st, ref)
  \/ \E r \in Artifacts : Run(r)
  \/ RunSnapshot \/ RunRefresh \/ \E passed \in BOOLEAN : RunReceipt(passed)
  \/ \E x \in Artifacts : ExperimentPlan(x) \/ ExperimentComplete(x)
                       \/ EvidenceAppend(x) \/ EvidenceResolve(x)
  \/ Reconcile \/ Edit \/ Crash

Spec == Init /\ [][Next]_vars

-----------------------------------------------------------------------------
(* Properties.                                                             *)

Request ==
  [op : {"idle", "start event", "start clock", "recover", "refresh"}] \cup
  [op : {"switch"}, to : Strategies] \cup
  [op : {"count"}, progress : BOOLEAN] \cup
  [op : {"close"}, as : {"completed", "failed", "abandoned"}] \cup
  [op : {"run"}, id : Artifacts] \cup [op : {"running"}, id : Artifacts, from : Nat]

(* Every variable keeps its type.                                          *)
TypeOK ==
  /\ status \in {"none", "active", "completed", "failed", "abandoned"}
  /\ strategy \in Strategies /\ clock \in BOOLEAN
  /\ metrics \in [steps : Nat, failed : Nat, switches : Nat, streak : Nat]
  /\ log \in [steps : Nat, failed : Nat, switches : Nat, calls : Nat]
  /\ last \in Event \cup {None} /\ before \in Event \cup {None} /\ valid \in BOOLEAN
  /\ verified \in [at : Nat, by : Artifacts] \cup {None}
  /\ milestones \in [Milestones -> {None} \cup
       [status : MilestoneStatus, ref : Artifacts \cup {None}, deps : SUBSET Milestones]]
  /\ made \in [Artifacts -> {None} \cup Artifact]
  /\ head \in Nat /\ disk \in Nat /\ request \in Request

(***************************************************************************)
(* Once the start is recorded, the phases stay a legal cycle: the RECOVER  *)
(* a switch of strategy appends by itself never lands where RECOVER may    *)
(* not follow.  An illegal sequence would refuse every further step and    *)
(* completion.                                                             *)
(***************************************************************************)
SequenceIntact == before # None => valid

(***************************************************************************)
(* Two failed steps in a row are answered: when a further step would be    *)
(* admitted, fewer than two failures are outstanding.                      *)
(***************************************************************************)
RepeatedFailureAnswered ==
  Idle /\ status = "active" /\ ~Exhausted => metrics.streak < 2

(***************************************************************************)
(* A trajectory completes only after a passed REFLECT or CONTINUE, whatever *)
(* stops and completions were cut short before.                            *)
(***************************************************************************)
ClosedOnReflection ==
  status = "completed" =>
    before \in [phase : {"REFLECT", "CONTINUE"}, status : {"passed"}]

(***************************************************************************)
(* What vouches for a completion was made of the version that is completed: *)
(* a run passed, and every version its process may have seen is that one.  *)
(***************************************************************************)
ProofOf(version) ==
  /\ verified # None /\ made[verified.by] # None /\ made[verified.by].at = version
  /\ made[verified.by].kind = "run" => made[verified.by].passed /\ made[verified.by].ran = {version}

ClosedOnProof == [][status # "completed" /\ status' = "completed" => ProofOf(head)]_vars

(***************************************************************************)
(* No step and no switch of strategy is recorded beyond the budget, as the *)
(* events themselves show what was used; a budget of failures always       *)
(* admits the first one, and a clock that was never started admits none.   *)
(***************************************************************************)
AdmittedWithinBudget ==
  [][/\ log'.steps > log.steps =>
          /\ ~AtLimit("steps", log.steps) /\ ~AtLimit("calls", log.calls)
          /\ log.failed > 0 => ~AtLimit("failed", log.failed)
          /\ "wall" \in DOMAIN Budget => clock
     /\ log'.switches > log.switches => ~AtLimit("switches", log.switches)]_vars

=============================================================================
