--------------------------- MODULE PolicyLearning ---------------------------
(***************************************************************************)
(* The learning plane: versions of the context policy, candidates to       *)
(* replace the active one, the evaluations that must bear a candidate out, *)
(* its promotion and its rollback.                                         *)
(*                                                                         *)
(* Several processes may have the workspace open.  Promotion and rollback  *)
(* are one store transaction each; a transition reads the candidate first  *)
(* and then writes it if its state is still the one it read.  Policies are *)
(* immutable, so a version stands for its fingerprint too.                 *)
(***************************************************************************)
EXTENDS Naturals, FiniteSets

CONSTANTS
  Versions,    \* names of policy versions
  Candidates,  \* candidate ids
  Processes,   \* processes that have the workspace open
  Measures     \* what a benchmark run can measure

Nobody == "none"
NoReading == [on |-> Nobody]

VARIABLES
  parents,     \* registered versions and their parent_version
  candidates,  \* candidate rows: policy, baseline, state
  evaluations, \* the latest evaluation admitted of each candidate
  activations, \* the promotion of each candidate: what it replaced, and why
  active,      \* active_context_policy_version
  readings     \* [Processes -> the transition a process is about to write]

vars == <<parents, candidates, evaluations, activations, active, readings>>

Init ==
  /\ parents = <<>> /\ candidates = <<>>
  /\ evaluations = <<>> /\ activations = <<>>
  /\ active = Nobody
  /\ readings = [p \in Processes |-> NoReading]

(* LEGAL_CANDIDATE_TRANSITIONS                                             *)
Legal(state) ==
  CASE state = "candidate" -> {"shadow", "rejected"}
    [] state = "shadow" -> {"experiment", "rejected"}
    [] state = "experiment" -> {"evaluated", "rejected"}
    [] state = "evaluated" -> {"canary", "rejected"}
    [] state = "canary" -> {"promoted", "rejected"}
    [] state = "promoted" -> {"rolled_back"}
    [] OTHER -> {}

(* A row is inserted; of several for a key the latest counts.              *)
Saved(rows, key, row) == [k \in DOMAIN rows \cup {key} |-> IF k = key THEN row ELSE rows[k]]

RegisterContextPolicy(v, parent) ==
  /\ v \notin DOMAIN parents
  /\ parent \in DOMAIN parents \cup {Nobody}
  /\ parents' = Saved(parents, v, parent)
  /\ UNCHANGED <<candidates, evaluations, activations, active, readings>>

CreatePolicyCandidate(c, v, baseline) ==
  /\ c \notin DOMAIN candidates
  /\ {v, baseline} \subseteq DOMAIN parents /\ parents[v] = baseline
  /\ active \in {Nobody, baseline}
  /\ candidates' = Saved(candidates, c, [policy |-> v, baseline |-> baseline, state |-> "candidate"])
  /\ UNCHANGED <<parents, evaluations, activations, active, readings>>

(* admit_evaluation.  A candidate is not evaluated by what generated it.   *)
AdmitEvaluation(c, independent, improved, measured) ==
  /\ c \in DOMAIN candidates
  /\ candidates[c].state \in {"experiment", "evaluated", "canary"}
  /\ independent
  /\ evaluations' = Saved(evaluations, c, [improved |-> improved, baseline |-> measured])
  /\ UNCHANGED <<parents, candidates, activations, active, readings>>

Evaluated(c) == c \in DOMAIN evaluations

(* transition_candidate, up to the write.                                  *)
ReadCandidate(p, c, target) ==
  /\ readings[p] = NoReading /\ c \in DOMAIN candidates
  /\ target \in Legal(candidates[c].state) \ {"promoted", "rolled_back"}
  /\ target \in {"evaluated", "canary"} => Evaluated(c)
  /\ readings' = [readings EXCEPT ![p] = [on |-> c, expected |-> candidates[c].state, to |-> target]]
  /\ UNCHANGED <<parents, candidates, evaluations, activations, active>>

Unmoved(reading) == candidates[reading.on].state = reading.expected

(* update_candidate_state                                                  *)
WriteCandidate(p) ==
  /\ readings[p] # NoReading
  /\ candidates' = IF Unmoved(readings[p]) THEN [candidates EXCEPT ![readings[p].on].state = readings[p].to]
                   ELSE candidates
  /\ readings' = [readings EXCEPT ![p] = NoReading]
  /\ UNCHANGED <<parents, evaluations, activations, active>>

Promotable(c) ==
  /\ c \in DOMAIN candidates /\ candidates[c].state = "canary"
  /\ Evaluated(c) /\ evaluations[c].improved
  /\ active \in {Nobody, candidates[c].baseline}

PromoteCandidate(c) ==
  /\ Promotable(c)
  /\ candidates' = [candidates EXCEPT ![c].state = "promoted"]
  /\ activations' = Saved(activations, c, [previous |-> active, evaluation |-> evaluations[c]])
  /\ active' = candidates[c].policy
  /\ UNCHANGED <<parents, evaluations, readings>>

(* The policy to go back to was run again and measures what it measured    *)
(* when the candidate was compared with it.                                *)
Reproduced(c, measured) == measured = activations[c].evaluation.baseline

RollbackCandidate(c, independent, measured) ==
  /\ c \in DOMAIN candidates /\ candidates[c].state = "promoted"
  /\ active = candidates[c].policy
  /\ activations[c].previous # Nobody
  /\ independent /\ Reproduced(c, measured)
  /\ candidates' = [candidates EXCEPT ![c].state = "rolled_back"]
  /\ active' = activations[c].previous
  /\ UNCHANGED <<parents, evaluations, activations, readings>>

Next ==
  \/ \E v \in Versions, parent \in Versions \cup {Nobody} : RegisterContextPolicy(v, parent)
  \/ \E c \in Candidates, v, baseline \in Versions : CreatePolicyCandidate(c, v, baseline)
  \/ \E c \in Candidates, independent, improved \in BOOLEAN, m \in Measures :
       AdmitEvaluation(c, independent, improved, m)
  \/ \E p \in Processes, c \in Candidates :
       \E target \in {"shadow", "experiment", "evaluated", "canary", "rejected"} :
         ReadCandidate(p, c, target)
  \/ \E p \in Processes : WriteCandidate(p)
  \/ \E c \in Candidates : PromoteCandidate(c)
  \/ \E c \in Candidates, independent \in BOOLEAN, m \in Measures : RollbackCandidate(c, independent, m)

Spec == Init /\ [][Next]_vars

-----------------------------------------------------------------------------
States == {"candidate", "shadow", "experiment", "evaluated", "canary", "promoted", "rejected", "rolled_back"}

TypeOK ==
  /\ DOMAIN parents \subseteq Versions
  /\ DOMAIN candidates \subseteq Candidates
  /\ \A c \in DOMAIN candidates : candidates[c].state \in States
  /\ DOMAIN evaluations \subseteq DOMAIN candidates
  /\ DOMAIN activations \subseteq DOMAIN candidates
  /\ active \in DOMAIN parents \cup {Nobody}

Promoted == {c \in DOMAIN candidates : candidates[c].state = "promoted"}

Policy(c) == candidates[c].policy

(* The active policy was put there by a candidate that still counts as     *)
(* promoted, and beneath it lies, promotion by promotion, what each one    *)
(* replaced: so rolling back candidate after candidate retraces the way.   *)
(* Every one of them was borne out by an evaluation that found it better.  *)
PromotionsStack ==
  /\ active # Nobody => \E c \in Promoted : Policy(c) = active
  /\ \A c \in Promoted :
       /\ activations[c].evaluation.improved
       /\ activations[c].previous \in {Nobody, candidates[c].baseline}
       /\ Policy(c) = active \/ \E d \in Promoted : activations[d].previous = Policy(c)
       /\ activations[c].previous = Nobody \/ \E d \in Promoted : Policy(d) = activations[c].previous
  /\ \A c, d \in Promoted : c # d => Policy(c) # Policy(d) /\ activations[c].previous # activations[d].previous
=============================================================================
