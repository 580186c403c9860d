----------------------------- MODULE ScipRuntime -----------------------------
(***************************************************************************)
(* Precomputed indexes: ScipRuntimeManager runs an indexer, binds the      *)
(* index it wrote to the bytes of the sources and to the workspace         *)
(* revision, and answers from it until one of them has moved; and the gate *)
(* a provider passes, SemanticAdmissionRegistry.                           *)
(*                                                                         *)
(* One provider, one request at a time.  Other programs edit the sources   *)
(* between any two of the files that a request reads.                      *)
(***************************************************************************)
EXTENDS Naturals, FiniteSets

CONSTANTS
  Documents,    \* paths an index may name
  Contents,     \* what a source file can contain
  NoFile,       \* the content of a file that does not exist
  MaxChanges,   \* bound: edits of the sources
  MaxIndexes,   \* bound: runs of the indexer
  ScipHazards   \* what may happen: a subset of {"drifted"}

(***************************************************************************)
(* "drifted": an index is activated over sources that are not those it was *)
(* made from: edited since, or the indexer left an old index in place.     *)
(* An index carries no digests of what it was made from.                   *)
(***************************************************************************)
NoIndex == [valid |-> FALSE]
NoRuntime == [stale |-> TRUE]
NoCandidate == [todo |-> {}]
Waiting == [at |-> "none"]

VARIABLES
  sources,   \* [Documents -> content]
  changes,   \* edits so far
  revision,  \* the workspace revision
  indexer,   \* the indexer's process: what it has read
  indexes,   \* runs of it so far
  artifact,  \* the .scip file
  candidate, \* the activation under way
  runtime,   \* _ScipRuntimeState
  probed,    \* the gate: has the provider that is registered been probed
  admitted,  \*           and admitted
  query,     \* the request that verifies the runtime
  touched    \* history: files edited since that request began

gate == <<probed, admitted>>
vars == <<sources, changes, revision, indexer, indexes, artifact, candidate, runtime, gate, query, touched>>

Init ==
  /\ sources \in [Documents -> {CHOOSE c \in Contents : TRUE}]
  /\ changes = 0 /\ revision = 1
  /\ indexer = Waiting /\ indexes = 0 /\ artifact = NoIndex
  /\ candidate = NoCandidate /\ runtime = NoRuntime
  /\ probed = FALSE /\ admitted = FALSE
  /\ query = Waiting /\ touched = {}

Ready == indexer = Waiting /\ candidate = NoCandidate /\ query = Waiting

-----------------------------------------------------------------------------
(* generate                                                                *)

Generate ==
  /\ Ready /\ indexes < MaxIndexes
  /\ indexes' = indexes + 1
  /\ indexer' = [at |-> "running", todo |-> Documents, about |-> <<>>]
  /\ UNCHANGED <<sources, changes, revision, artifact, candidate, runtime, gate, query, touched>>

(* Files that do not exist are not in the index.                           *)
IndexFile(p) ==
  /\ indexer.at = "running" /\ p \in indexer.todo
  /\ indexer' = [indexer EXCEPT !.todo = @ \ {p},
       !.about = IF sources[p] = NoFile THEN @
                 ELSE [q \in DOMAIN @ \cup {p} |-> IF q = p THEN sources[p] ELSE @[q]]]
  /\ UNCHANGED <<sources, changes, revision, indexes, artifact, candidate, runtime, gate, query, touched>>

(* The process writes an index, garbage, or leaves what was there.         *)
Write ==
  /\ indexer.at = "running" /\ indexer.todo = {}
  /\ artifact' \in {[valid |-> TRUE, about |-> indexer.about], NoIndex, artifact}
  /\ indexer' = [at |-> "exited"]
  /\ UNCHANGED <<sources, changes, revision, indexes, candidate, runtime, gate, query, touched>>

(* It could not be started, timed out and was killed, or exited non-zero.  *)
GenerateFails ==
  /\ indexer.at # "none"
  /\ indexer' = Waiting
  /\ UNCHANGED <<sources, changes, revision, indexes, artifact, candidate, runtime, gate, query, touched>>

-----------------------------------------------------------------------------
(* activate: the whole candidate is made before anything is revoked.       *)

(* parse_scip_index refuses what it cannot admit, and nothing has changed. *)
Activate ==
  /\ Ready \/ indexer.at = "exited"
  /\ artifact.valid
  /\ candidate' = [todo |-> DOMAIN artifact.about, about |-> artifact.about,
                   digests |-> artifact.about, revision |-> revision]
  /\ indexer' = Waiting
  /\ UNCHANGED <<sources, changes, revision, indexes, artifact, runtime, gate, query, touched>>

BindSource(p) ==
  /\ p \in candidate.todo
  /\ sources[p] # candidate.about[p] => "drifted" \in ScipHazards
  /\ candidate' = [candidate EXCEPT !.todo = @ \ {p}, !.digests[p] = sources[p]]
  /\ UNCHANGED <<sources, changes, revision, indexer, indexes, artifact, runtime, gate, query, touched>>

Missing(state) == {p \in DOMAIN state.digests : state.digests[p] = NoFile}

(* revoke, rebind or register, probe and, with every document there, admit *)
Install ==
  /\ candidate # NoCandidate /\ candidate.todo = {}
  /\ probed' = TRUE
  /\ admitted' = (Missing(candidate) = {})
  /\ runtime' = [stale |-> Missing(candidate) # {}, about |-> candidate.about,
                 digests |-> candidate.digests, revision |-> candidate.revision]
  /\ candidate' = NoCandidate
  /\ UNCHANGED <<sources, changes, revision, indexer, indexes, artifact, query, touched>>

CloseProvider ==
  /\ Ready /\ runtime # NoRuntime
  /\ runtime' = NoRuntime /\ admitted' = FALSE
  /\ UNCHANGED <<sources, changes, revision, indexer, indexes, artifact, candidate, probed, query, touched>>

-----------------------------------------------------------------------------
(* definitions, references, document, status: each verifies first.         *)

(* Sensitivity: the provider stays admitted.                               *)
MarkStaleQuietly ==
  /\ runtime' = [runtime EXCEPT !.stale = TRUE]
  /\ query' = Waiting
  /\ UNCHANGED admitted

MarkStale ==
  /\ runtime' = [runtime EXCEPT !.stale = TRUE]
  /\ admitted' = FALSE
  /\ query' = Waiting

(* Sensitivity: the revision is compared and the sources are not.          *)
RequestByRevision(op) ==
  /\ Ready /\ runtime # NoRuntime
  /\ IF runtime.stale \/ revision # runtime.revision
     THEN MarkStale
     ELSE /\ query' = [at |-> "verify", op |-> op, todo |-> {}]
          /\ UNCHANGED <<runtime, admitted>>
  /\ touched' = {}
  /\ UNCHANGED <<sources, changes, revision, indexer, indexes, artifact, candidate, probed>>

Request(op) ==
  /\ Ready /\ runtime # NoRuntime
  /\ IF runtime.stale \/ revision # runtime.revision
     THEN MarkStale
     ELSE /\ query' = [at |-> "verify", op |-> op, todo |-> DOMAIN runtime.digests]
          /\ UNCHANGED <<runtime, admitted>>
  /\ touched' = {}
  /\ UNCHANGED <<sources, changes, revision, indexer, indexes, artifact, candidate, probed>>

Verify(p) ==
  /\ query.at = "verify" /\ p \in query.todo
  /\ IF sources[p] = runtime.digests[p]
     THEN query' = [query EXCEPT !.todo = @ \ {p}] /\ UNCHANGED <<runtime, admitted>>
     ELSE MarkStale
  /\ UNCHANGED <<sources, changes, revision, indexer, indexes, artifact, candidate, probed, touched>>

(* A document the index does not have makes the whole provider stale.      *)
Respond ==
  /\ query.at = "verify" /\ query.todo = {}
  /\ IF query.op \in Documents \ DOMAIN runtime.digests
     THEN MarkStale
     ELSE query' = Waiting /\ UNCHANGED <<runtime, admitted>>
  /\ UNCHANGED <<sources, changes, revision, indexer, indexes, artifact, candidate, probed, touched>>

-----------------------------------------------------------------------------
Edit(p, content) ==
  /\ changes < MaxChanges /\ content # sources[p]
  /\ changes' = changes + 1
  /\ sources' = [sources EXCEPT ![p] = content]
  /\ touched' = IF query = Waiting THEN touched ELSE touched \cup {p}
  /\ UNCHANGED <<revision, indexer, indexes, artifact, candidate, runtime, gate, query>>

(* A refresh finds edits and makes a new revision.                         *)
Refresh ==
  /\ Ready /\ revision <= changes
  /\ revision' = revision + 1
  /\ UNCHANGED <<sources, changes, indexer, indexes, artifact, candidate, runtime, gate, query, touched>>

Ops == Documents \cup {"symbol", "status"}

Next ==
  \/ Generate \/ Write \/ GenerateFails
  \/ Activate \/ Install \/ CloseProvider \/ Respond \/ Refresh
  \/ \E p \in Documents : IndexFile(p) \/ Verify(p)
  \/ \E p \in candidate.todo : BindSource(p)
  \/ \E op \in Ops : Request(op)
  \/ \E p \in Documents, c \in Contents \cup {NoFile} : Edit(p, c)

Spec == Init /\ [][Next]_vars

-----------------------------------------------------------------------------
TypeOK ==
  /\ sources \in [Documents -> Contents \cup {NoFile}]
  /\ changes \in 0 .. MaxChanges /\ revision \in 1 .. MaxChanges + 1
  /\ indexes \in 0 .. MaxIndexes
  /\ indexer.at \in {"none", "running", "exited"}
  /\ candidate.todo \subseteq Documents /\ touched \subseteq Documents
  /\ query.at \in {"none", "verify"}
  /\ admitted => probed /\ ~runtime.stale

Answers == Respond /\ query.op # "status" /\ ~runtime'.stale

(* An answer is taken from an index that says what the sources say, for    *)
(* every document nobody edited while the answer was being made: whatever  *)
(* was edited, removed, re-indexed, activated or refreshed before.         *)
AnswersAreAboutSourcesStep ==
  Answers => \A p \in DOMAIN runtime.about \ touched : runtime.about[p] = sources[p]

AnswersAreAboutSources == [][AnswersAreAboutSourcesStep]_vars
=============================================================================
