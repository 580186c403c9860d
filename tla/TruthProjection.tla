--------------------------- MODULE TruthProjection ---------------------------
(***************************************************************************)
(* truth_projection: the claims the workspace holds about its source, told *)
(* apart into current, stale and contradictory.  The projection reads the  *)
(* index and the files step by step and refreshes nothing, while an editor *)
(* saves files and evidence of earlier revisions is still on record.       *)
(*                                                                         *)
(* A record is derived from a text of a file; "from" keeps which one, the  *)
(* code keeps the revision and, for most kinds, the digest.                *)
(***************************************************************************)
EXTENDS Naturals, FiniteSets, FiniteSetsExt

CONSTANTS
  Paths,        \* indexed files, with one symbol each
  Texts,        \* contents of a file
  Targets,      \* [Texts -> SUBSET of symbols]: what the symbol refers to
  NoDigest,     \* source_digest = None
  Limits,       \* max_claims of a request
  MaxEdits,     \* bound: saves by the editor
  MaxRecords,   \* bound: evidence and semantic claims recorded
  TruthHazards  \* what may happen, see AllTruthHazards

(***************************************************************************)
(* "refresh by another": another process refreshes the same workspace      *)
(*                       while a projection reads the index                *)
(***************************************************************************)
AllTruthHazards == {"refresh by another"}

Resting == [step |-> "idle"]
NoReport == [revision |-> 0]

VARIABLES
  files,     \* [Paths -> text]: what is on disk
  rows,      \* [Paths -> text]: what the index was built from
  revision,  \* a new one for every change of the index
  saves,     \* saves so far
  records,   \* evidence that is active, and semantic claims callers hold
  request,   \* the projection under way
  report     \* the last one answered

vars == <<files, rows, revision, saves, records, request, report>>

Init ==
  /\ files \in [Paths -> Texts] /\ rows = files
  /\ revision = 1 /\ saves = 0
  /\ records = {} /\ request = Resting /\ report = NoReport

(* Bound: a behaviour ends with its first report.                          *)
Idle == request.step = "idle" /\ report = NoReport

Save(p, text) ==
  /\ saves < MaxEdits /\ text # files[p] /\ report = NoReport
  /\ files' = [files EXCEPT ![p] = text] /\ saves' = saves + 1
  /\ UNCHANGED <<rows, revision, records, request, report>>

Refresh ==
  /\ Idle \/ "refresh by another" \in TruthHazards
  /\ rows # files
  /\ rows' = files /\ revision' = revision + 1
  /\ UNCHANGED <<files, saves, records, request, report>>

-----------------------------------------------------------------------------
(* make_truth_claim: equal claims have equal identities.                   *)
Claim(subject, predicate, value, at, path, digest, from) ==
  [subject |-> subject, predicate |-> predicate, value |-> value,
   revision |-> at, path |-> path, digest |-> digest, from |-> from]

(* Verification evidence names a path and no digest; what an observer or a *)
(* provider claims of a file is bound to the digest it saw.                *)
Record(p, value, bound) ==
  /\ Idle /\ Cardinality(records) < MaxRecords
  /\ records' = records \cup
       {Claim(p, "evidence", value, revision, p, IF bound THEN rows[p] ELSE NoDigest, rows[p])}
  /\ UNCHANGED <<files, rows, revision, saves, request, report>>

(* resolve_evidence: what is no longer active is no longer projected.      *)
Resolve(p) ==
  /\ Idle
  /\ records' = {c \in records : c.path # p}
  /\ records' # records
  /\ UNCHANGED <<files, rows, revision, saves, request, report>>

-----------------------------------------------------------------------------
(* The projection: revision and file rows first.                           *)

FileClaim(p, at) == Claim(p, "source_snapshot", rows[p], at, p, rows[p], rows[p])

Begin(limit) ==
  /\ Idle
  /\ request' = [step |-> "symbols", limit |-> limit, revision |-> revision,
                 indexed |-> rows, claims |-> {FileClaim(p, revision) : p \in Paths},
                 hashed |-> [p \in Paths |-> NoDigest], left |-> Paths]
  /\ UNCHANGED <<files, rows, revision, saves, records, report>>

(* A record of a path carries the digest its file row had.                 *)
Bound(p, predicate, value) ==
  Claim(p, predicate, value, request.revision, p, request.indexed[p], rows[p])

Symbols ==
  /\ request.step = "symbols"
  /\ request' = [request EXCEPT !.step = "hash",
                   !.claims = @ \cup {Bound(p, "symbol", rows[p]) : p \in Paths}]
  /\ UNCHANGED <<files, rows, revision, saves, records, report>>

HashFile(p) ==
  /\ request.step = "hash" /\ p \in request.left
  /\ request' = [request EXCEPT !.hashed[p] = files[p], !.left = @ \ {p},
                   !.step = IF request.left = {p} THEN "records" ELSE @]
  /\ UNCHANGED <<files, rows, revision, saves, records, report>>

(* Relations name no path: nothing but the revision can make them stale.   *)
RelationClaims(p) ==
  {Claim(p, "relation", target, request.revision, p, NoDigest, rows[p]) : target \in Targets[rows[p]]}

Records ==
  /\ request.step = "records"
  /\ request' = [request EXCEPT !.step = "project",
                   !.claims = @ \cup (UNION {RelationClaims(p) : p \in Paths})
                                \cup {Bound(p, "occurrence", rows[p]) : p \in Paths}
                                \cup records]
  /\ UNCHANGED <<files, rows, revision, saves, records, report>>

(* Sensitivity: a claim of this revision is current whatever its digest.   *)
StaleByRevision(c) == c.revision # request.revision

Stale(c) ==
  \/ c.revision # request.revision
  \/ c.digest # NoDigest /\ c.digest # request.hashed[c.path]

(* The claims of one subject and predicate that do not say the same.       *)
Disagreeing(claims) ==
  {group \in {{d \in claims : d.subject = c.subject /\ d.predicate = c.predicate} : c \in claims} :
     Cardinality({d.value : d \in group}) > 1}

(* The order is that of the hashed identities: any claims may be kept.     *)
Project ==
  /\ request.step = "project"
  /\ \E chosen \in kSubset(Min({request.limit, Cardinality(request.claims)}), request.claims) :
       LET stale == {c \in chosen : Stale(c)} IN
       report' = [revision |-> request.revision, hashed |-> request.hashed,
                  claims |-> chosen, stale |-> stale,
                  contradictions |-> Disagreeing(chosen \ stale),
                  truncated |-> Cardinality(request.claims) > Cardinality(chosen),
                  all |-> request.claims]
  /\ request' = Resting
  /\ UNCHANGED <<files, rows, revision, saves, records>>

Next ==
  \/ \E p \in Paths, text \in Texts : Save(p, text)
  \/ Refresh
  \/ \E p \in Paths, value \in {"v", "w"}, bound \in BOOLEAN : Record(p, value, bound)
  \/ \E p \in Paths : Resolve(p)
  \/ \E limit \in Limits : Begin(limit)
  \/ Symbols \/ Records \/ Project
  \/ \E p \in Paths : HashFile(p)

Spec == Init /\ [][Next]_vars

-----------------------------------------------------------------------------
TypeOK ==
  /\ files \in [Paths -> Texts] /\ rows \in [Paths -> Texts]
  /\ revision \in 1 .. MaxEdits + 1 /\ saves \in 0 .. MaxEdits
  /\ Cardinality(records) <= MaxRecords
  /\ request.step \in {"idle", "symbols", "hash", "records", "project"}

(* truth_projection never passes off what it should call stale: a claim    *)
(* that is not stale was made at the revision reported and, when bound to  *)
(* a digest, derives from the very bytes that were on disk; every two such *)
(* claims that differ are in one contradiction, whatever earlier revisions *)
(* said; and claims are missing only from an answer called truncated.      *)
CurrentClaimsHold ==
  report # NoReport =>
    LET current == report.claims \ report.stale IN
    /\ \A c \in current :
         /\ c.revision = report.revision
         /\ c.digest # NoDigest => c.from = report.hashed[c.path]
    /\ \A c, d \in current :
         (c.subject = d.subject /\ c.predicate = d.predicate /\ c.value # d.value) <=>
         (c.value # d.value /\ \E group \in report.contradictions : {c, d} \subseteq group)
    /\ report.claims # report.all => report.truncated
=============================================================================
