---------------------------- MODULE ReleaseEvidence ----------------------------
(***************************************************************************)
(* What a release is promoted on: build_release_manifest and               *)
(* evaluate_promotion of src/habitat/release.py, the receipts of           *)
(* benchmarking/experiment.py and the samples of operations/slo.py.        *)
(*                                                                         *)
(* The manifest is built from files that may be rewritten meanwhile; a     *)
(* report carries its commit, its verdict and the digest of its own text.  *)
(* A digest is the thing it is the digest of.                              *)
(***************************************************************************)
EXTENDS Naturals, Sequences, FiniteSets, FiniteSetsExt

CONSTANTS
  Reports,        \* the reports the target requires
  Reviewers,
  Documents, NoFile, \* what a file can be: [text, commit, status, kind, sealed]
  Commit,         \* the commit to be promoted
  MaxRewrites,
  Conditions, Seeds, Environments,  \* of the experiment plan
  MaxReceipts,
  Sampled,        \* what a scenario can yield: [scenario, completed, latency, memory]
  Cycles, Tolerance, \* of the profile: required cycles, allowed regression
  MaxSamples

Slots == Reports \cup Reviewers \cup {"wheel"}

VARIABLES
  shelf,          \* the files
  snapshots,      \* what was read of them, by slot
  progress,       \* "reports", "reviews", "artifacts", "seal" or "done"
  release,        \* the manifest
  rewritten,
  receipts,       \* the admitted benchmark results
  samples         \* of the SLO evaluation

vars == <<shelf, snapshots, progress, release, rewritten, receipts, samples>>

Unsealed == [hashes |-> <<>>, provenance |-> <<>>]

Init ==
  /\ shelf \in [Slots -> Documents \cup {NoFile}]
  /\ snapshots = <<>> /\ progress = "reports" /\ release = Unsealed /\ rewritten = 0
  /\ receipts = <<>> /\ samples = <<>>

-----------------------------------------------------------------------------
(* _read_named_files and _hash_named_files: every file named must be there.*)
Read(slots, next) ==
  /\ \A s \in slots : shelf[s] # NoFile
  /\ snapshots' = [s \in slots \cup DOMAIN snapshots |->
                    IF s \in slots THEN shelf[s] ELSE snapshots[s]]
  /\ progress' = next
  /\ UNCHANGED <<shelf, release, rewritten, receipts, samples>>

ReadReports == progress = "reports" /\ Read(Reports, "reviews")
ReadReviews == progress = "reviews" /\ Read(Reviewers, "artifacts")
HashArtifacts == progress = "artifacts" /\ Read({"wheel"}, "seal")

(* Sensitivity: the reports are read again when the manifest is sealed.    *)
ProvenanceNow ==
  LET named == Reports \cup Reviewers IN
  [s \in {s \in named : shelf[s].sealed} |-> shelf[s]]

(* _report_provenance: of the bytes that were hashed, when they are sealed.*)
Provenance ==
  LET named == Reports \cup Reviewers IN
  [s \in {s \in named : snapshots[s].sealed} |-> snapshots[s]]

Seal ==
  /\ progress = "seal"
  /\ release' = [hashes |-> snapshots, provenance |-> Provenance]
  /\ progress' = "done"
  /\ UNCHANGED <<shelf, snapshots, rewritten, receipts, samples>>

(* A job of the pipeline writes its report again, or somebody does.        *)
Rewrite(s, doc) ==
  /\ rewritten < MaxRewrites /\ progress \notin {"reports", "done"} /\ shelf[s] # doc
  /\ shelf' = [shelf EXCEPT ![s] = doc] /\ rewritten' = rewritten + 1
  /\ UNCHANGED <<snapshots, progress, release, receipts, samples>>

(* A manifest on disk that is not what was sealed fails its own digest.    *)
Vouched(s, kind) ==
  /\ s \in DOMAIN release.provenance
  /\ release.provenance[s].commit = Commit /\ release.provenance[s].status = "passed"
  /\ release.provenance[s].kind = kind

(* evaluate_promotion.                                                     *)
Admitted ==
  /\ progress = "done"
  /\ \A r \in Reports : Vouched(r, "report")
  /\ Reviewers # {}
  /\ \A v \in Reviewers :
       /\ Vouched(v, "review")
       /\ \A s \in Reports \cup {"wheel"} : release.hashes[v] # release.hashes[s]
       /\ \A r \in Reports : r \in DOMAIN release.provenance =>
                               release.provenance[v] # release.provenance[r]

-----------------------------------------------------------------------------
(* The experiment: every condition is run once for every seed.             *)
PlannedRuns == [condition : Conditions, seed : Seeds]

(* _validate_record_against_planned_run: what was run is what was planned. *)
Matches(receipt) ==
  /\ receipt.environment = "planned"
  /\ receipt.ran.condition = receipt.of.condition /\ receipt.ran.seed = receipt.of.seed

(* ExperimentEvidence: one valid receipt for a planned run.                *)
Submit ==
  \E of, ran \in PlannedRuns, environment \in Environments, success \in BOOLEAN :
    LET receipt == [of |-> of, ran |-> ran, environment |-> environment, success |-> success] IN
    /\ Len(receipts) < MaxReceipts
    /\ Matches(receipt) /\ \A i \in DOMAIN receipts : receipts[i].of # of
    /\ receipts' = Append(receipts, receipt)
    /\ UNCHANGED <<shelf, snapshots, progress, release, rewritten, samples>>

(* compare_conditions: the seeds for which both conditions have a receipt. *)
Compared(baseline, candidate) ==
  {pair \in (DOMAIN receipts) \X (DOMAIN receipts) :
     LET b == receipts[pair[1]].of
         c == receipts[pair[2]].of
     IN b.condition = baseline /\ c.condition = candidate /\ b.seed = c.seed}

-----------------------------------------------------------------------------
(* evaluate_slos: a missing measurement blocks, and a regression is of the *)
(* median latency and of the greatest memory, over a baseline of 1.        *)
(* What would be at a place if the values were sorted: the least of them   *)
(* that as many are not above.                                             *)
Sorted(s, place) ==
  Min({v \in {s[i] : i \in DOMAIN s} : Cardinality({i \in DOMAIN s : s[i] <= v}) >= place})

TwiceMedian(s) ==
  LET n == Len(s) IN
  IF n % 2 = 1 THEN 2 * Sorted(s, (n + 1) \div 2) ELSE Sorted(s, n \div 2) + Sorted(s, n \div 2 + 1)

SloAdmitted(observed) ==
  /\ Len(observed) >= Cycles
  /\ \A i, j \in DOMAIN observed : observed[i].scenario = observed[j].scenario => i = j
  /\ \A i \in DOMAIN observed : observed[i].latency # 0 /\ observed[i].memory # 0
  /\ 2 * Cardinality({i \in DOMAIN observed : observed[i].completed}) >= Len(observed)
  /\ TwiceMedian([i \in DOMAIN observed |-> observed[i].latency]) <= 2 * Tolerance
  /\ \A i \in DOMAIN observed : observed[i].memory <= Tolerance

Sample(s) ==
  /\ Len(samples) < MaxSamples
  /\ samples' = Append(samples, s)
  /\ UNCHANGED <<shelf, snapshots, progress, release, rewritten, receipts>>

ReleaseNext ==
  \/ ReadReports \/ ReadReviews \/ HashArtifacts \/ Seal
  \/ \E s \in Slots, doc \in Documents \cup {NoFile} : Rewrite(s, doc)

Next == ReleaseNext \/ Submit \/ \E s \in Sampled : Sample(s)

Spec == Init /\ [][Next]_vars

-----------------------------------------------------------------------------
(* Every variable keeps its type. *)
TypeOK ==
  /\ shelf \in [Slots -> Documents \cup {NoFile}] /\ DOMAIN snapshots \subseteq Slots
  /\ progress \in {"reports", "reviews", "artifacts", "seal", "done"}
  /\ rewritten \in 0..MaxRewrites /\ Len(receipts) <= MaxReceipts /\ Len(samples) <= MaxSamples

(* A promotion rests on the very bytes its manifest names: each of them is *)
(* a sealed report or review of the commit, and passed, whatever was       *)
(* rewritten while the manifest was built.                                 *)
PromotedOnWhatPassed ==
  Admitted =>
    \A s \in Reports \cup Reviewers :
      LET doc == release.hashes[s] IN
      /\ doc.sealed /\ doc.commit = Commit /\ doc.status = "passed"
      /\ doc.kind = IF s \in Reports THEN "report" ELSE "review"

(* Two runs that are compared differ in their condition only, and no run   *)
(* is counted in two pairs of one comparison.                              *)
PairsAreCausal ==
  \A b, c \in Conditions : b # c =>
    /\ \A pair \in Compared(b, c) :
         LET baseline == receipts[pair[1]].ran
             candidate == receipts[pair[2]].ran
         IN baseline.seed = candidate.seed /\ baseline.condition = b /\ candidate.condition = c
    /\ \A p, q \in Compared(b, c) : (p[1] = q[1] \/ p[2] = q[2]) => p = q

(* Worse is not better: a sample that did not complete, took longer, used  *)
(* more or was not measured never turns a refusal into an admission.       *)
Worse(bad, good) ==
  /\ bad.scenario = good.scenario /\ (bad.completed => good.completed)
  /\ bad.latency = 0 \/ (good.latency # 0 /\ bad.latency >= good.latency)
  /\ bad.memory = 0 \/ (good.memory # 0 /\ bad.memory >= good.memory)

SloIsMonotone ==
  \A i \in DOMAIN samples, bad \in Sampled :
    Worse(bad, samples[i]) /\ SloAdmitted([samples EXCEPT ![i] = bad]) => SloAdmitted(samples)
=============================================================================
