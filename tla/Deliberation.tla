----------------------------- MODULE Deliberation -----------------------------
(***************************************************************************)
(* The explicit state an agent thinks with, and the two schedulers that    *)
(* tell it what to do next and whether it may stop: epistemic items,       *)
(* hypotheses and their experiments under an episode, invalidations of     *)
(* what it has read.                                                       *)
(***************************************************************************)
EXTENDS Naturals, Sequences, FiniteSets, SequencesExt

CONSTANTS
  Agents,         \* agents with a session; "shared" owns what is nobody's
  Hypotheses,     \* hypotheses that may be formed
  Paths,          \* files an agent has read
  Window,         \* open items cognition_next fetches; cognition_plan, one more
  Limits,         \* how many operations cognition_plan is asked for
  MaxItems,       \* bound: epistemic items created
  ThoughtHazards  \* what may happen, see AllThoughtHazards

(***************************************************************************)
(* "overflow": more items are open than the schedulers fetch               *)
(***************************************************************************)
AllThoughtHazards == {"overflow"}

Kinds == {"contradiction", "unknown", "assumption"}
Owners == Agents \cup {"shared"}

VARIABLES
  items,        \* epistemic_items, least recently updated first
  stale,        \* [Agents -> SUBSET Paths]: pending notifications
  hypotheses,   \* [Hypotheses -> status]
  experiments,  \* [Hypotheses -> "none", "planned" or "completed"]
  episode       \* the episode of all of them: "none", "active" or "closed"

vars == <<items, stale, hypotheses, experiments, episode>>

Init ==
  /\ items = <<>> /\ stale = [a \in Agents |-> {}]
  /\ hypotheses = [h \in Hypotheses |-> "none"]
  /\ experiments = [h \in Hypotheses |-> "none"]
  /\ episode = "none"

-----------------------------------------------------------------------------
(* Epistemic items: open, shared or the agent's own; the newest n of them. *)

Visible(a) == {i \in DOMAIN items : items[i].status = "open" /\ items[i].owner \in {a, "shared"}}
Fetched(a, n) == {i \in Visible(a) : Cardinality({j \in Visible(a) : j > i}) < n}
Has(seen, kind) == \E i \in seen : items[i].kind = kind
Overflow == \E a \in Agents : Cardinality(Visible(a)) > Window

EpistemicCreate(kind, owner) ==
  /\ Len(items) < MaxItems
  /\ items' = Append(items, [kind |-> kind, owner |-> owner, status |-> "open"])
  /\ Overflow' => "overflow" \in ThoughtHazards
  /\ UNCHANGED <<stale, hypotheses, experiments, episode>>

(* An update moves the item to the front of what is fetched.               *)
EpistemicUpdate(i, status) ==
  /\ i \in DOMAIN items
  /\ items' = Append(RemoveAt(items, i), [items[i] EXCEPT !.status = status])
  /\ Overflow' => "overflow" \in ThoughtHazards
  /\ UNCHANGED <<stale, hypotheses, experiments, episode>>

(* _notify_observers tells the agents that read a path; one of them acks   *)
(* the notification, or revalidates it by reading the path again.          *)
SourceInvalidated(a, p) ==
  /\ p \notin stale[a]
  /\ stale' = [stale EXCEPT ![a] = @ \cup {p}]
  /\ UNCHANGED <<items, hypotheses, experiments, episode>>

Acknowledge(a, p) ==
  /\ p \in stale[a]
  /\ stale' = [stale EXCEPT ![a] = @ \ {p}]
  /\ UNCHANGED <<items, hypotheses, experiments, episode>>

-----------------------------------------------------------------------------
(* Hypotheses and experiments, while their episode is active.              *)

EpisodeStart ==
  /\ episode = "none" /\ episode' = "active"
  /\ UNCHANGED <<items, stale, hypotheses, experiments>>

EpisodeFinish ==
  /\ episode = "active" /\ episode' = "closed"
  /\ UNCHANGED <<items, stale, hypotheses, experiments>>

HypothesisCreate(h) ==
  /\ episode = "active" /\ hypotheses[h] = "none"
  /\ hypotheses' = [hypotheses EXCEPT ![h] = "active"]
  /\ UNCHANGED <<items, stale, experiments, episode>>

(* hypothesis_update takes any status from any status, episode or not;     *)
(* supported, rejected and superseded are "settled" here.                  *)
HypothesisUpdate(h, status) ==
  /\ hypotheses[h] \notin {"none", status}
  /\ hypotheses' = [hypotheses EXCEPT ![h] = status]
  /\ UNCHANGED <<items, stale, experiments, episode>>

ExperimentPlan(h) ==
  /\ hypotheses[h] = "active" /\ episode = "active" /\ experiments[h] = "none"
  /\ experiments' = [experiments EXCEPT ![h] = "planned"]
  /\ UNCHANGED <<items, stale, hypotheses, episode>>

(* The episode must still be active; the hypothesis need not be.           *)
ExperimentComplete(h) ==
  /\ experiments[h] = "planned" /\ episode = "active"
  /\ experiments' = [experiments EXCEPT ![h] = "completed"]
  /\ UNCHANGED <<items, stale, hypotheses, episode>>

-----------------------------------------------------------------------------
Live == {h \in Hypotheses : hypotheses[h] = "active"}
Planned == {h \in Live : experiments[h] = "planned"}

(* cognition_next: the first reason that applies.                          *)
Reason(a) ==
  LET seen == Fetched(a, Window) IN
  IF stale[a] # {} THEN "selective-revalidate"
  ELSE IF Has(seen, "contradiction") THEN "discriminate-contradiction"
  ELSE IF Cardinality(Live) >= 2 /\ Planned = {} THEN "plan-discriminating-experiment"
  ELSE IF Has(seen, "unknown") THEN "probe-unknown"
  ELSE IF Has(seen, "assumption") THEN "verify-assumption"
  ELSE IF Live = {} /\ episode = "active" THEN "form-rival-hypotheses"
  ELSE "explore-or-act"

NextConverges(a) == ~Has(Fetched(a, Window), "contradiction") /\ stale[a] = {}

(* cognition_plan: every reason, by score, cut at the limit.  An operation *)
(* here stands for up to three with the same score; "around" says whether  *)
(* the activity log repeats itself and evidence and runtime events lack.   *)
Around == {{}, {"looping", "no evidence", "no runtime"}}

Scored == <<"selective-revalidate", "discriminate-contradiction", "break-cognitive-loop",
  "acquire-independent-evidence", "plan-discriminating-experiment", "observe-runtime",
  "form-rival-hypotheses", "probe-unknown", "verify-assumption">>

Applies(a, operation, around) ==
  LET seen == Fetched(a, Window + 1) IN
  CASE operation = "selective-revalidate" -> stale[a] # {}
    [] operation = "discriminate-contradiction" -> Has(seen, "contradiction")
    [] operation = "break-cognitive-loop" -> "looping" \in around
    [] operation = "acquire-independent-evidence" -> Live # {} /\ "no evidence" \in around
    [] operation = "plan-discriminating-experiment" -> Cardinality(Live) >= 2 /\ Planned = {}
    [] operation = "observe-runtime" -> Live # {} /\ "no runtime" \in around
    [] operation = "form-rival-hypotheses" -> Live = {} /\ episode = "active"
    [] operation = "probe-unknown" -> Has(seen, "unknown")
    [] operation = "verify-assumption" -> Has(seen, "assumption")

(* A plan is the positions in Scored of what it asks for; with none, it    *)
(* leaves the agent to explore or act.                                     *)
Plan(a, limit, around) ==
  LET all == {k \in DOMAIN Scored : Applies(a, Scored[k], around)}
  IN {k \in all : Cardinality({j \in all : j < k}) < limit}

PlanConverges(plan) ==
  \A k \in plan : Scored[k] \notin {"selective-revalidate", "discriminate-contradiction"}

Next ==
  \/ \E kind \in Kinds, owner \in Owners : EpistemicCreate(kind, owner)
  \/ \E i \in DOMAIN items, status \in {"open", "resolved"} : EpistemicUpdate(i, status)
  \/ \E a \in Agents, p \in Paths : SourceInvalidated(a, p) \/ Acknowledge(a, p)
  \/ EpisodeStart \/ EpisodeFinish
  \/ \E h \in Hypotheses :
       \/ HypothesisCreate(h) \/ ExperimentPlan(h)
       \/ \E status \in {"active", "settled"} : HypothesisUpdate(h, status)
       \/ ExperimentComplete(h)

Spec == Init /\ [][Next]_vars

-----------------------------------------------------------------------------
TypeOK ==
  /\ \A i \in DOMAIN items : items[i] \in [kind : Kinds, owner : Owners, status : {"open", "resolved"}]
  /\ stale \in [Agents -> SUBSET Paths]
  /\ hypotheses \in [Hypotheses -> {"none", "active", "settled"}]
  /\ experiments \in [Hypotheses -> {"none", "planned", "completed"}]
  /\ episode \in {"none", "active", "closed"}

Unsettled(a) ==
  \/ stale[a] # {}
  \/ \E i \in DOMAIN items : /\ items[i].kind = "contradiction" /\ items[i].status = "open"
                             /\ items[i].owner \in {a, "shared"}

(* "Do not converge while high-severity contradictions or known stale      *)
(* cognition remain unresolved": neither scheduler lets an agent stop over *)
(* a contradiction it can see or an invalidation it has not answered,      *)
(* however few operations it asked for and however old the contradiction,  *)
(* and the two never disagree; nor does either put anything else first.    *)
ConvergenceIsEarned ==
  \A a \in Agents :
    /\ NextConverges(a) <=> ~Unsettled(a)
    /\ \A limit \in Limits, around \in Around :
         LET plan == Plan(a, limit, around) IN
         /\ PlanConverges(plan) <=> ~Unsettled(a)
         /\ Unsettled(a) => \E k \in plan : Scored[k] = Reason(a) /\ \A j \in plan : k <= j
=============================================================================
