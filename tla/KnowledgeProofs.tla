-------------------------- MODULE KnowledgeProofs ---------------------------
(***************************************************************************)
(* What holds of the components of KnowledgeServices for any files, claims,*)
(* memories, pages, policies and reports, each proved of its instance, and *)
(* side by side.                                                           *)
(***************************************************************************)
EXTENDS KnowledgeServices, Integers, Sequences, FiniteSetTheorems, Integers, WellFoundedInduction,
  TLAPS

-----------------------------------------------------------------------------
(***************************************************************************)
(* A projection passes nothing stale off as current, for every set of      *)
(* files, records and limits, while an editor saves between its steps.     *)
(*                                                                         *)
(* Why it holds: the index does not change during a projection, so every   *)
(* claim that names a digest names that of the text it derives from, and   *)
(* the digests are compared with hashes taken after the claims' rows.      *)
(***************************************************************************)
(* The instance counts as FiniteSets does. *)
LEMMA TruthCounts ==
  \A S : (Truth!IsFiniteSet(S) <=> IsFiniteSet(S)) /\ Truth!Cardinality(S) = Cardinality(S)
BY DEF Truth!IsFiniteSet, IsFiniteSet, Truth!Cardinality, Cardinality


(* What the theorems assume of the constants, and that no other process    *)
(* refreshes while a projection reads.                                     *)
TruthSensible ==
  /\ Truth!IsFiniteSet(TruthPaths) /\ NoText \notin Texts
  /\ \A text \in Texts : Truth!IsFiniteSet(Targets[text])
  /\ Limits \subseteq Nat /\ MaxTruthEdits \in Nat /\ MaxRecords \in Nat
  /\ "refresh by another" \notin TruthHazards

TruthPredicates == {"source_snapshot", "symbol", "relation", "occurrence", "evidence"}

TruthClaims ==
  [subject : TruthPaths, predicate : TruthPredicates,
    value : Texts \cup {"v", "w"} \cup UNION {Targets[t] : t \in Texts},
   revision : Nat, path : TruthPaths, digest : Texts \cup {NoText}, from : Texts]

TruthSteps == {"symbols", "hash", "records", "project"}

TruthRequests ==
  [step : TruthSteps, limit : Limits, revision : Nat, indexed : [TruthPaths -> Texts],
   claims : SUBSET TruthClaims, hashed : [TruthPaths -> Texts \cup {NoText}],
     left : SUBSET TruthPaths]

(* A claim bound to a digest is bound to the one of its text.              *)
TruthHonest(claims) == \A c \in claims : c.digest = NoText \/ c.digest = c.from

TruthTypeInv ==
  /\ truthFiles \in [TruthPaths -> Texts] /\ truthRows \in [TruthPaths -> Texts]
  /\ truthSaves \in 0 .. MaxTruthEdits /\ truthRevision \in Nat \ {0}
  /\ truthRecords \in SUBSET TruthClaims /\ Truth!IsFiniteSet(truthRecords)
  /\ Truth!Cardinality(truthRecords) <= MaxRecords
  /\ truthRequest = Truth!Resting \/ (truthRequest \in TruthRequests
     /\ Truth!IsFiniteSet(truthRequest.claims))

(* Every change of the index answers an edit. *)
TruthRevisionInv == IF truthRows = truthFiles THEN truthRevision <= truthSaves + 1 ELSE truthRevision <= truthSaves

TruthClaimInv ==
  /\ TruthHonest(truthRecords)
  /\ truthRequest # Truth!Resting =>
       truthRequest.indexed = truthRows /\ truthRequest.revision = truthRevision
         /\ TruthHonest(truthRequest.claims)

TruthInv == TruthTypeInv /\ TruthRevisionInv /\ TruthClaimInv /\ Truth!CurrentClaimsHold

-----------------------------------------------------------------------------
(* The image of a finite set is finite, and no larger. *)
LEMMA TruthBounds ==
  ASSUME TruthSensible PROVE MaxTruthEdits \in Nat /\ MaxRecords \in Nat /\ NoText \notin Texts
BY DEF TruthSensible

LEMMA TruthFiniteImage ==
  ASSUME NEW S, Truth!IsFiniteSet(S), NEW f, DOMAIN f = S
  PROVE  Truth!IsFiniteSet({f[x] : x \in S})
<1> DEFINE T == {f[x] : x \in S}
           g == [x \in S |-> f[x]]
<1>1. g \in Surjection(S, T)
  BY DEF Surjection
<1> QED  BY <1>1, TruthCounts, FS_Surjection

(* The least of two numbers. *)
LEMMA TruthLeastOfTwo ==
  ASSUME NEW m \in Nat, NEW n \in Nat
  PROVE  Truth!Min({m, n}) \in Nat /\ Truth!Min({m, n}) <= m /\ Truth!Min({m, n}) <= n
    /\ Truth!Min({m, n}) \in {m, n}
<1>1. \E x \in {m, n} : \A y \in {m, n} : x <= y
  OBVIOUS
<1>2. Truth!Min({m, n}) \in {m, n} /\ \A y \in {m, n} : Truth!Min({m, n}) <= y
  BY <1>1 DEF Truth!Min
<1> QED  BY <1>2

(* Of a finite set that has two members, more than one is counted.         *)
LEMMA TruthTwoMembers ==
  ASSUME NEW S, Truth!IsFiniteSet(S)
  PROVE  Truth!Cardinality(S) > 1 <=> \E x, y \in S : x # y
<1>1. Truth!Cardinality(S) \in Nat
  BY TruthCounts, FS_CardinalityType
<1>2. Truth!Cardinality(S) = 0 <=> S = {}
  BY TruthCounts, FS_EmptySet
<1>3. Truth!Cardinality(S) = 1 <=> \E x : S = {x}
  BY TruthCounts, FS_Singleton
<1>4. CASE S = {}
  BY <1>2, <1>4
<1>5. CASE S # {}
  <2>1. PICK x \in S : TRUE
    BY <1>5
  <2>2. Truth!Cardinality(S) > 1 <=> ~ (\E z : S = {z})
    BY <1>1, <1>2, <1>3, <1>5
  <2>3. (\E z : S = {z}) <=> \A u, v \in S : u = v
    <3>1. (\A u, v \in S : u = v) => S = {x}
      BY <2>1
    <3> QED  BY <3>1
  <2> QED  BY <2>2, <2>3
<1> QED  BY <1>4, <1>5

LEMMA TruthRequestFacts ==
  ASSUME NEW r \in TruthRequests
  PROVE  /\ r # Truth!Resting /\ r.step \in TruthSteps /\ r.limit \in Limits /\ r.revision \in Nat
         /\ r.indexed \in [TruthPaths -> Texts] /\ r.claims \in SUBSET TruthClaims
         /\ r.hashed \in [TruthPaths -> Texts \cup {NoText}] /\ r.left \in SUBSET TruthPaths
<1>1. r.step \in TruthSteps
  BY DEF TruthRequests
<1>2. Truth!Resting.step \notin TruthSteps
  BY DEF Truth!Resting, TruthSteps
<1> QED  BY <1>1, <1>2 DEF TruthRequests

LEMMA TruthClaimFacts ==
  ASSUME NEW p \in TruthPaths, NEW predicate \in TruthPredicates, NEW at \in Nat,
    NEW from \in Texts,
         NEW value \in Texts \cup {"v", "w"} \cup UNION {Targets[t] : t \in Texts},
         NEW digest \in Texts \cup {NoText}
  PROVE  /\ Truth!Claim(p, predicate, value, at, p, digest, from) \in TruthClaims
         /\ Truth!Claim(p, predicate, value, at, p, digest, from).digest = digest
         /\ Truth!Claim(p, predicate, value, at, p, digest, from).from = from
BY DEF Truth!Claim, TruthClaims

LEMMA TruthInitial == ASSUME TruthSensible PROVE Truth!Init => TruthInv
<1> SUFFICES ASSUME Truth!Init PROVE TruthInv
  OBVIOUS
<1>1. Truth!IsFiniteSet(truthRecords) /\ Truth!Cardinality(truthRecords) = 0
  BY TruthCounts, FS_EmptySet DEF Truth!Init
<1>2. TruthTypeInv
  BY <1>1, TruthBounds DEF Truth!Init, TruthTypeInv
<1> QED  BY <1>2
    DEF Truth!Init, TruthInv, TruthRevisionInv, TruthClaimInv, TruthHonest, Truth!CurrentClaimsHold

LEMMA TruthSaveStep ==
  ASSUME TruthSensible, TruthInv, NEW p \in TruthPaths, NEW text \in Texts, Truth!Save(p, text)
    PROVE TruthInv'
<1>1. /\ truthFiles' = [truthFiles EXCEPT ![p] = text] /\ truthSaves' = truthSaves + 1
      /\ truthSaves < MaxTruthEdits
      /\ UNCHANGED <<truthRows, truthRevision, truthRecords, truthRequest, truthReport>>
  BY DEF Truth!Save
<1>2. truthFiles' \in [TruthPaths -> Texts] /\ truthSaves' \in 0 .. MaxTruthEdits
  BY <1>1, TruthBounds DEF TruthInv, TruthTypeInv
<1>3. TruthTypeInv'
  BY <1>1, <1>2 DEF TruthInv, TruthTypeInv
<1>4. TruthRevisionInv'
  BY <1>1 DEF TruthInv, TruthTypeInv, TruthRevisionInv
<1>5. TruthClaimInv' /\ Truth!CurrentClaimsHold'
  BY <1>1 DEF TruthInv, TruthClaimInv, Truth!CurrentClaimsHold
<1> QED  BY <1>3, <1>4, <1>5 DEF TruthInv

LEMMA TruthRefreshStep == ASSUME TruthSensible, TruthInv, Truth!Refresh PROVE TruthInv'
<1>1. /\ truthRows' = truthFiles /\ truthRevision' = truthRevision + 1 /\ truthRows # truthFiles
      /\ truthRequest.step = "idle"
      /\ UNCHANGED <<truthFiles, truthSaves, truthRecords, truthRequest, truthReport>>
  BY DEF Truth!Refresh, TruthSensible, Truth!Idle
<1>2. truthRequest = Truth!Resting
  BY <1>1, TruthRequestFacts DEF TruthInv, TruthTypeInv, TruthSteps
<1>3. TruthTypeInv'
  BY <1>1 DEF TruthInv, TruthTypeInv
<1>4. TruthRevisionInv'
  BY <1>1 DEF TruthInv, TruthTypeInv, TruthRevisionInv
<1>5. TruthClaimInv' /\ Truth!CurrentClaimsHold'
  BY <1>1, <1>2 DEF TruthInv, TruthClaimInv, Truth!CurrentClaimsHold
<1> QED  BY <1>3, <1>4, <1>5 DEF TruthInv

LEMMA TruthRecordStep ==
  ASSUME TruthSensible, TruthInv, NEW p \in TruthPaths, NEW value \in {"v", "w"},
    NEW bound \in BOOLEAN,
         Truth!Record(p, value, bound)
  PROVE  TruthInv'
<1> DEFINE digest == IF bound THEN truthRows[p] ELSE NoText
           c == Truth!Claim(p, "evidence", value, truthRevision, p, digest, truthRows[p])
<1>1. /\ truthRecords' = truthRecords \cup {c} /\ Truth!Cardinality(truthRecords) < MaxRecords
      /\ UNCHANGED <<truthFiles, truthRows, truthRevision, truthSaves, truthRequest, truthReport>>
  BY DEF Truth!Record
<1>2. digest \in {truthRows[p], NoText} /\ truthRows[p] \in Texts
  BY DEF TruthInv, TruthTypeInv
<1> HIDE DEF digest
<1>3. c \in TruthClaims /\ c.digest = digest /\ c.from = truthRows[p]
  <2>1. p \in TruthPaths /\ "evidence" \in TruthPredicates /\ truthRevision \in Nat
        /\ value \in Texts \cup {"v", "w"} \cup UNION {Targets[t] : t \in Texts}
        /\ digest \in Texts \cup {NoText}
    BY <1>2 DEF TruthInv, TruthTypeInv, TruthPredicates
  <2> HIDE DEF digest
  <2> QED  BY <1>2, <2>1 DEF Truth!Claim, TruthClaims
<1> HIDE DEF c
<1>4. Truth!IsFiniteSet(truthRecords') /\ Truth!Cardinality(truthRecords') <= MaxRecords
  <2>1. Truth!IsFiniteSet(truthRecords) /\ Truth!Cardinality(truthRecords) \in Nat
    BY TruthCounts, FS_CardinalityType DEF TruthInv, TruthTypeInv
  <2>2. Truth!IsFiniteSet(truthRecords \cup {c})
        /\ Truth!Cardinality(truthRecords \cup {c}) \in {Truth!Cardinality(truthRecords),
           Truth!Cardinality(truthRecords) + 1}
    BY <2>1, TruthCounts, FS_AddElement
  <2> QED  BY <1>1, <2>1, <2>2, TruthBounds
<1>5. TruthTypeInv'
  BY <1>1, <1>3, <1>4 DEF TruthInv, TruthTypeInv
<1>6. TruthClaimInv'
  BY <1>1, <1>2, <1>3 DEF TruthInv, TruthClaimInv, TruthHonest
<1>7. TruthRevisionInv' /\ Truth!CurrentClaimsHold'
  BY <1>1 DEF TruthInv, TruthRevisionInv, Truth!CurrentClaimsHold
<1> QED  BY <1>5, <1>6, <1>7 DEF TruthInv

LEMMA TruthResolveStep ==
  ASSUME TruthSensible, TruthInv, NEW p \in TruthPaths, Truth!Resolve(p) PROVE TruthInv'
<1>1. truthRecords' \in SUBSET truthRecords /\ UNCHANGED <<truthFiles, truthRows, truthRevision,
      truthSaves, truthRequest, truthReport>>
  BY DEF Truth!Resolve
<1>2. Truth!IsFiniteSet(truthRecords')
      /\ Truth!Cardinality(truthRecords') <= Truth!Cardinality(truthRecords)
  BY <1>1, TruthCounts, FS_Subset DEF TruthInv, TruthTypeInv
<1>3. Truth!Cardinality(truthRecords') \in Nat /\ Truth!Cardinality(truthRecords) \in Nat
  BY <1>2, TruthCounts, FS_CardinalityType DEF TruthInv, TruthTypeInv
<1>4. TruthTypeInv'
  <2>1. Truth!Cardinality(truthRecords') <= MaxRecords
    BY <1>2, <1>3, TruthBounds DEF TruthInv, TruthTypeInv
  <2> QED  BY <1>1, <1>2, <2>1 DEF TruthInv, TruthTypeInv
<1>5. TruthClaimInv' /\ TruthRevisionInv' /\ Truth!CurrentClaimsHold'
  BY <1>1 DEF TruthInv, TruthClaimInv, TruthHonest, TruthRevisionInv, Truth!CurrentClaimsHold
<1> QED  BY <1>4, <1>5 DEF TruthInv

(* A step of a projection: what it adds is honest and of this index.       *)
LEMMA TruthRequestStep ==
  ASSUME TruthSensible, TruthInv, truthRequest' \in TruthRequests,
    Truth!IsFiniteSet(truthRequest'.claims),
         truthRequest'.indexed = truthRows, truthRequest'.revision = truthRevision,
           TruthHonest(truthRequest'.claims),
         UNCHANGED <<truthFiles, truthRows, truthRevision, truthSaves, truthRecords, truthReport>>
  PROVE  TruthInv'
<1>1. TruthTypeInv'
  BY DEF TruthInv, TruthTypeInv
<1>2. TruthClaimInv'
  BY DEF TruthInv, TruthClaimInv, TruthHonest
<1>3. TruthRevisionInv' /\ Truth!CurrentClaimsHold'
  BY DEF TruthInv, TruthRevisionInv, Truth!CurrentClaimsHold
<1> QED  BY <1>1, <1>2, <1>3 DEF TruthInv

(* One claim for each file. *)
LEMMA TruthFileClaims ==
  ASSUME TruthSensible, NEW f, DOMAIN f = TruthPaths, \A p \in TruthPaths : f[p] \in TruthClaims
  PROVE  {f[p] : p \in TruthPaths} \in SUBSET TruthClaims
    /\ Truth!IsFiniteSet({f[p] : p \in TruthPaths})
BY TruthFiniteImage DEF TruthSensible

LEMMA TruthBeginStep ==
  ASSUME TruthSensible, TruthInv, NEW limit \in Limits, Truth!Begin(limit) PROVE TruthInv'
<1> DEFINE f == [p \in TruthPaths |-> Truth!FileClaim(p, truthRevision)]
           claims == {Truth!FileClaim(p, truthRevision) : p \in TruthPaths}
           hashed == [p \in TruthPaths |-> NoText]
<1>1. /\ truthRequest' = [step |-> "symbols", limit |-> limit, revision |-> truthRevision,
                     indexed |-> truthRows, claims |-> claims, hashed |-> hashed,
                       left |-> TruthPaths]
      /\ UNCHANGED <<truthFiles, truthRows, truthRevision, truthSaves, truthRecords, truthReport>>
  BY DEF Truth!Begin
<1>2. \A p \in TruthPaths : Truth!FileClaim(p, truthRevision) \in TruthClaims
      /\ Truth!FileClaim(p, truthRevision).digest = Truth!FileClaim(p, truthRevision).from
  <2> TAKE p \in TruthPaths
  <2>1. "source_snapshot" \in TruthPredicates /\ truthRevision \in Nat /\ truthRows[p] \in Texts
        /\ truthRows[p] \in Texts \cup {"v", "w"} \cup UNION {Targets[t] : t \in Texts}
        /\ truthRows[p] \in Texts \cup {NoText}
    BY DEF TruthInv, TruthTypeInv, TruthPredicates
  <2> QED  BY <2>1, TruthClaimFacts DEF Truth!FileClaim
<1>3. claims \in SUBSET TruthClaims /\ TruthHonest(claims)
  BY <1>2 DEF TruthHonest
<1>4. Truth!IsFiniteSet(claims)
  <2>1. claims = {f[p] : p \in TruthPaths}
    OBVIOUS
  <2> HIDE DEF claims
  <2>2. DOMAIN f = TruthPaths
    OBVIOUS
  <2> HIDE DEF f
  <2> QED  BY <2>1, <2>2, TruthFiniteImage DEF TruthSensible
<1> HIDE DEF claims, f
<1>5. truthRequest' \in TruthRequests
  BY <1>1, <1>3 DEF TruthRequests, TruthSteps, TruthInv, TruthTypeInv
<1> QED  BY <1>1, <1>3, <1>4, <1>5, TruthRequestStep

LEMMA TruthBoundFacts ==
  ASSUME TruthSensible, TruthInv, truthRequest \in TruthRequests, NEW predicate \in TruthPredicates
  PROVE  LET claims == {Truth!Bound(p, predicate, truthRows[p]) : p \in TruthPaths} IN
           claims \in SUBSET TruthClaims /\ Truth!IsFiniteSet(claims) /\ TruthHonest(claims)
<1> DEFINE f == [p \in TruthPaths |-> Truth!Bound(p, predicate, truthRows[p])]
           claims == {Truth!Bound(p, predicate, truthRows[p]) : p \in TruthPaths}
<1>1. truthRequest.indexed = truthRows /\ truthRequest.revision = truthRevision
  BY TruthRequestFacts DEF TruthInv, TruthClaimInv
<1>2. \A p \in TruthPaths : /\ Truth!Bound(p, predicate, truthRows[p]) \in TruthClaims
                      /\ Truth!Bound(p, predicate, truthRows[p]).digest = Truth!Bound(p, predicate,
                         truthRows[p]).from
  BY <1>1, TruthClaimFacts DEF Truth!Bound, TruthInv, TruthTypeInv
<1>3. claims \in SUBSET TruthClaims /\ TruthHonest(claims)
  BY <1>2 DEF TruthHonest
<1>4. claims = {f[p] : p \in TruthPaths} /\ DOMAIN f = TruthPaths
  OBVIOUS
<1> HIDE DEF claims, f
<1>5. Truth!IsFiniteSet(claims)
  BY <1>4, TruthFiniteImage DEF TruthSensible
<1> QED  BY <1>3, <1>5 DEF claims

LEMMA TruthHonestTogether ==
  ASSUME NEW S, NEW T, TruthHonest(S), TruthHonest(T) PROVE TruthHonest(S \cup T)
BY DEF TruthHonest

LEMMA TruthSymbolsStep == ASSUME TruthSensible, TruthInv, Truth!Symbols PROVE TruthInv'
<1> DEFINE more == {Truth!Bound(p, "symbol", truthRows[p]) : p \in TruthPaths}
<1>1. truthRequest \in TruthRequests /\ Truth!IsFiniteSet(truthRequest.claims)
      /\ truthRequest.indexed = truthRows
      /\ truthRequest.revision = truthRevision /\ TruthHonest(truthRequest.claims)
  BY TruthRequestFacts DEF Truth!Symbols, TruthInv, TruthTypeInv, TruthClaimInv, Truth!Resting
<1>2. more \in SUBSET TruthClaims /\ Truth!IsFiniteSet(more) /\ TruthHonest(more)
  <2>1. "symbol" \in TruthPredicates
    BY DEF TruthPredicates
  <2> QED  BY <1>1, <2>1, TruthBoundFacts
<1>3. /\ truthRequest' = [truthRequest EXCEPT !.step = "hash",
         !.claims = truthRequest.claims \cup more]
      /\ UNCHANGED <<truthFiles, truthRows, truthRevision, truthSaves, truthRecords, truthReport>>
  BY DEF Truth!Symbols
<1> HIDE DEF more
<1>4. truthRequest' = [step |-> "hash", limit |-> truthRequest.limit,
      revision |-> truthRequest.revision,
                  indexed |-> truthRequest.indexed, claims |-> truthRequest.claims \cup more,
                  hashed |-> truthRequest.hashed, left |-> truthRequest.left]
  BY <1>1, <1>3 DEF TruthRequests
<1>5. truthRequest' \in TruthRequests
  BY <1>1, <1>2, <1>4, TruthRequestFacts DEF TruthRequests, TruthSteps
<1>6. Truth!IsFiniteSet(truthRequest.claims \cup more) /\ TruthHonest(truthRequest.claims \cup more)
  BY <1>1, <1>2, TruthCounts, FS_Union, TruthHonestTogether
<1> QED  BY <1>1, <1>3, <1>4, <1>5, <1>6, TruthRequestStep

LEMMA TruthHashStep == ASSUME TruthSensible, TruthInv, NEW p \in TruthPaths, Truth!HashFile(p)
  PROVE TruthInv'
<1> DEFINE step == IF truthRequest.left = {p} THEN "records" ELSE "hash"
           hashed == [truthRequest.hashed EXCEPT ![p] = truthFiles[p]]
<1>1. truthRequest \in TruthRequests /\ Truth!IsFiniteSet(truthRequest.claims)
      /\ truthRequest.indexed = truthRows
      /\ truthRequest.revision = truthRevision /\ TruthHonest(truthRequest.claims)
      /\ truthRequest.step = "hash"
  BY TruthRequestFacts DEF Truth!HashFile, TruthInv, TruthTypeInv, TruthClaimInv, Truth!Resting
<1>2. /\ truthRequest' = [truthRequest EXCEPT !.hashed = hashed, !.left = truthRequest.left \ {p},
         !.step = step]
      /\ UNCHANGED <<truthFiles, truthRows, truthRevision, truthSaves, truthRecords, truthReport>>
  BY <1>1 DEF Truth!HashFile
<1>3. step \in TruthSteps /\ hashed \in [TruthPaths -> Texts \cup {NoText}]
  BY <1>1, TruthRequestFacts DEF TruthSteps, TruthInv, TruthTypeInv
<1> HIDE DEF step, hashed
<1>4. truthRequest' = [step |-> step, limit |-> truthRequest.limit,
      revision |-> truthRequest.revision,
                  indexed |-> truthRequest.indexed, claims |-> truthRequest.claims,
                  hashed |-> hashed, left |-> truthRequest.left \ {p}]
  BY <1>1, <1>2 DEF TruthRequests
<1>5. truthRequest' \in TruthRequests
  BY <1>1, <1>3, <1>4, TruthRequestFacts DEF TruthRequests
<1> QED  BY <1>1, <1>2, <1>4, <1>5, TruthRequestStep

LEMMA TruthRelationFacts ==
  ASSUME TruthSensible, TruthInv, truthRequest \in TruthRequests
  PROVE  LET claims == UNION {Truth!RelationClaims(p) : p \in TruthPaths} IN
           claims \in SUBSET TruthClaims /\ Truth!IsFiniteSet(claims) /\ TruthHonest(claims)
<1> DEFINE claims == UNION {Truth!RelationClaims(p) : p \in TruthPaths}
           g == [p \in TruthPaths |-> Truth!RelationClaims(p)]
<1>1. truthRequest.revision \in Nat
  BY TruthRequestFacts
<1>2. ASSUME NEW p \in TruthPaths
      PROVE  Truth!RelationClaims(p) \in SUBSET TruthClaims
        /\ Truth!IsFiniteSet(Truth!RelationClaims(p)) /\ TruthHonest(Truth!RelationClaims(p))
  <2> DEFINE T == Targets[truthRows[p]]
             f == [t \in T |-> Truth!Claim(p, "relation", t, truthRequest.revision, p, NoText,
               truthRows[p])]
  <2>1. truthRows[p] \in Texts /\ Truth!IsFiniteSet(T)
    BY DEF TruthInv, TruthTypeInv, TruthSensible
  <2>2. \A t \in T : t \in UNION {Targets[x] : x \in Texts}
    BY <2>1
  <2>3. \A t \in T : f[t] \in TruthClaims /\ f[t].digest = NoText
    <3> TAKE t \in T
    <3>1. "relation" \in TruthPredicates /\ truthRows[p] \in Texts /\ NoText \in Texts \cup {NoText}
          /\ t \in Texts \cup {"v", "w"} \cup UNION {Targets[x] : x \in Texts}
      BY <2>1, <2>2 DEF TruthPredicates
    <3> HIDE DEF T
    <3>2. f[t] = Truth!Claim(p, "relation", t, truthRequest.revision, p, NoText, truthRows[p])
      OBVIOUS
    <3> HIDE DEF f
    <3>3. f[t] \in TruthClaims /\ f[t].digest = NoText
      BY <1>1, <3>1, <3>2 DEF Truth!Claim, TruthClaims
    <3> QED  BY <3>3
  <2>4. Truth!RelationClaims(p) = {f[t] : t \in T} /\ DOMAIN f = T
    BY DEF Truth!RelationClaims
  <2> HIDE DEF f, T
  <2> QED  BY <2>1, <2>3, <2>4, TruthFiniteImage DEF TruthHonest
<1>3. {Truth!RelationClaims(p) : p \in TruthPaths} = {g[p] : p \in TruthPaths}
      /\ DOMAIN g = TruthPaths
  OBVIOUS
<1>4. Truth!IsFiniteSet({g[p] : p \in TruthPaths})
  <2>1. DOMAIN g = TruthPaths /\ Truth!IsFiniteSet(TruthPaths)
    BY <1>3 DEF TruthSensible
  <2> HIDE DEF g
  <2> QED  BY <2>1, TruthFiniteImage
<1>5. Truth!IsFiniteSet(claims)
  BY <1>2, <1>3, <1>4, TruthCounts, FS_UNION
<1> QED  BY <1>2, <1>5 DEF TruthHonest

LEMMA TruthRecordsStep == ASSUME TruthSensible, TruthInv, Truth!Records PROVE TruthInv'
<1> DEFINE relations == UNION {Truth!RelationClaims(p) : p \in TruthPaths}
           occurrences == {Truth!Bound(p, "occurrence", truthRows[p]) : p \in TruthPaths}
           all == truthRequest.claims \cup relations \cup occurrences \cup truthRecords
<1>1. truthRequest \in TruthRequests /\ Truth!IsFiniteSet(truthRequest.claims)
      /\ truthRequest.indexed = truthRows
      /\ truthRequest.revision = truthRevision /\ TruthHonest(truthRequest.claims)
  BY TruthRequestFacts DEF Truth!Records, TruthInv, TruthTypeInv, TruthClaimInv, Truth!Resting
<1>2. occurrences \in SUBSET TruthClaims /\ Truth!IsFiniteSet(occurrences)
      /\ TruthHonest(occurrences)
  <2>1. "occurrence" \in TruthPredicates
    BY DEF TruthPredicates
  <2> QED  BY <1>1, <2>1, TruthBoundFacts
<1>3. relations \in SUBSET TruthClaims /\ Truth!IsFiniteSet(relations) /\ TruthHonest(relations)
  BY <1>1, TruthRelationFacts
<1>4. truthRecords \in SUBSET TruthClaims /\ Truth!IsFiniteSet(truthRecords)
      /\ TruthHonest(truthRecords)
  BY DEF TruthInv, TruthTypeInv, TruthClaimInv
<1>5. /\ truthRequest' = [truthRequest EXCEPT !.step = "project", !.claims = all]
      /\ UNCHANGED <<truthFiles, truthRows, truthRevision, truthSaves, truthRecords, truthReport>>
  BY DEF Truth!Records
<1> HIDE DEF relations, occurrences
<1>6. all \in SUBSET TruthClaims /\ Truth!IsFiniteSet(all) /\ TruthHonest(all)
  <2>1. Truth!IsFiniteSet(truthRequest.claims \cup relations \cup occurrences \cup truthRecords)
    BY <1>1, <1>2, <1>3, <1>4, TruthCounts, FS_Union
  <2>2. truthRequest.claims \in SUBSET TruthClaims
    BY <1>1, TruthRequestFacts
  <2> QED  BY <1>1, <1>2, <1>3, <1>4, <2>1, <2>2 DEF TruthHonest
<1> HIDE DEF all
<1>7. truthRequest' = [step |-> "project", limit |-> truthRequest.limit,
      revision |-> truthRequest.revision,
                  indexed |-> truthRequest.indexed, claims |-> all,
                  hashed |-> truthRequest.hashed, left |-> truthRequest.left]
  BY <1>1, <1>5 DEF TruthRequests
<1>8. truthRequest' \in TruthRequests
  BY <1>1, <1>6, <1>7, TruthRequestFacts DEF TruthRequests, TruthSteps
<1> QED  BY <1>1, <1>5, <1>6, <1>7, <1>8, TruthRequestStep

LEMMA TruthProjectStep == ASSUME TruthSensible, TruthInv, Truth!Project PROVE TruthInv'
<1>1. truthRequest \in TruthRequests /\ Truth!IsFiniteSet(truthRequest.claims)
      /\ truthRequest.revision = truthRevision
      /\ TruthHonest(truthRequest.claims)
  BY TruthRequestFacts DEF Truth!Project, TruthInv, TruthTypeInv, TruthClaimInv, Truth!Resting
<1>2. PICK chosen \in Truth!kSubset(Truth!Min({truthRequest.limit,
      Truth!Cardinality(truthRequest.claims)}), truthRequest.claims) :
        LET stale == {c \in chosen : Truth!Stale(c)} IN
        truthReport' = [revision |-> truthRequest.revision, hashed |-> truthRequest.hashed,
                   claims |-> chosen, stale |-> stale,
                   contradictions |-> Truth!Disagreeing(chosen \ stale),
                   truncated |-> Truth!Cardinality(truthRequest.claims) > Truth!Cardinality(chosen),
                   all |-> truthRequest.claims]
  BY DEF Truth!Project
<1> DEFINE stale == {c \in chosen : Truth!Stale(c)}
           current == chosen \ stale
<1>3. /\ chosen \in SUBSET truthRequest.claims
      /\ Truth!Cardinality(chosen) = Truth!Min({truthRequest.limit,
         Truth!Cardinality(truthRequest.claims)})
  BY <1>2 DEF Truth!kSubset
<1>4. /\ Truth!IsFiniteSet(chosen) /\ Truth!Cardinality(chosen) \in Nat
      /\ Truth!Cardinality(truthRequest.claims) \in Nat
      /\ Truth!Cardinality(chosen) <= Truth!Cardinality(truthRequest.claims)
      /\ (Truth!Cardinality(truthRequest.claims) = Truth!Cardinality(chosen)
         => truthRequest.claims = chosen)
  BY <1>1, <1>3, TruthCounts, FS_Subset, FS_CardinalityType
<1>5. truthRequest' = Truth!Resting /\ UNCHANGED <<truthFiles, truthRows, truthRevision, truthSaves,
      truthRecords>>
  BY DEF Truth!Project
<1>6. TruthTypeInv' /\ TruthRevisionInv' /\ TruthClaimInv'
  BY <1>5 DEF TruthInv, TruthTypeInv, TruthRevisionInv, TruthClaimInv, TruthHonest
<1>7. \A c \in current : c.revision = truthRequest.revision
      /\ (c.digest # NoText => c.from = truthRequest.hashed[c.path])
  BY <1>1, <1>3 DEF Truth!Stale, TruthHonest
<1>8. chosen # truthRequest.claims
      => Truth!Cardinality(truthRequest.claims) > Truth!Cardinality(chosen)
  BY <1>4
<1> DEFINE Told(c, d) ==
             (c.subject = d.subject /\ c.predicate = d.predicate /\ c.value # d.value) <=>
             (c.value # d.value /\ \E group \in Truth!Disagreeing(current) : {c, d} \subseteq group)
<1>9. \A c, d \in current : Told(c, d)
  <2> TAKE c, d \in current
  <2> DEFINE Of(x) == {e \in current : e.subject = x.subject /\ e.predicate = x.predicate}
  <2>1. ASSUME NEW x \in current PROVE Truth!IsFiniteSet({e.value : e \in Of(x)})
    <3> DEFINE S == Of(x)
               f == [e \in S |-> e.value]
    <3>1. Truth!IsFiniteSet(S)
      <4>1. S \in SUBSET chosen
        OBVIOUS
      <4> QED  BY <1>4, <4>1, TruthCounts, FS_Subset
    <3>2. {e.value : e \in S} = {f[e] : e \in S} /\ DOMAIN f = S
      OBVIOUS
    <3> HIDE DEF f, S
    <3>3. Truth!IsFiniteSet({f[e] : e \in S})
      BY <3>1, <3>2, TruthFiniteImage
    <3> QED  BY <3>2, <3>3 DEF S
  <2>2. ASSUME c.subject = d.subject, c.predicate = d.predicate, c.value # d.value
        PROVE  \E group \in Truth!Disagreeing(current) : {c, d} \subseteq group
    <3>1. c \in Of(c) /\ d \in Of(c)
      BY <2>2
    <3>2. \E x, y \in {e.value : e \in Of(c)} : x # y
      BY <2>2, <3>1
    <3>3. Truth!Cardinality({e.value : e \in Of(c)}) > 1
      BY <2>1, <3>2, TruthTwoMembers
    <3>4. Of(c) \in Truth!Disagreeing(current)
      BY <3>3 DEF Truth!Disagreeing
    <3> QED  BY <3>1, <3>4
  <2>3. ASSUME NEW group \in Truth!Disagreeing(current), {c, d} \subseteq group
        PROVE  c.subject = d.subject /\ c.predicate = d.predicate
    BY <2>3 DEF Truth!Disagreeing
  <2> QED  BY <2>2, <2>3
<1>10. Truth!CurrentClaimsHold'
  <2>1. /\ truthReport'.claims = chosen /\ truthReport'.stale = stale
        /\ truthReport'.revision = truthRequest.revision
        /\ truthReport'.hashed = truthRequest.hashed
        /\ truthReport'.contradictions = Truth!Disagreeing(current)
        /\ truthReport'.truncated = (Truth!Cardinality(truthRequest.claims) > Truth!Cardinality(chosen))
        /\ truthReport'.all = truthRequest.claims
    BY <1>2
  <2> HIDE DEF stale
  <2>2. /\ \A c \in truthReport'.claims \ truthReport'.stale :
             /\ c.revision = truthReport'.revision
             /\ c.digest # NoText => c.from = truthReport'.hashed[c.path]
        /\ truthReport'.claims # truthReport'.all => truthReport'.truncated
    BY <1>7, <1>8, <2>1
  <2>3. \A c, d \in truthReport'.claims \ truthReport'.stale :
           (c.subject = d.subject /\ c.predicate = d.predicate /\ c.value # d.value) <=>
           (c.value # d.value /\ \E group \in truthReport'.contradictions : {c, d} \subseteq group)
    <3> TAKE c, d \in truthReport'.claims \ truthReport'.stale
    <3>1. c \in current /\ d \in current
      BY <2>1
    <3>2. truthReport'.contradictions = Truth!Disagreeing(current)
      BY <2>1
    <3>3. Told(c, d)
      <4> HIDE DEF Told
      <4> QED  BY <1>9, <3>1
    <3> QED  BY <3>2, <3>3, Zenon
  <2> QED  BY <2>2, <2>3, Zenon DEF Truth!CurrentClaimsHold
<1> QED  BY <1>6, <1>10 DEF TruthInv

LEMMA TruthInductive == ASSUME TruthSensible, TruthInv, [Truth!Next]_Truth!vars PROVE TruthInv'
<1>1. CASE UNCHANGED Truth!vars
  BY <1>1 DEF Truth!vars, TruthInv, TruthTypeInv, TruthRevisionInv, TruthClaimInv, TruthHonest,
    Truth!CurrentClaimsHold
<1> QED
  BY <1>1, TruthSaveStep, TruthRefreshStep, TruthRecordStep, TruthResolveStep, TruthBeginStep,
    TruthSymbolsStep, TruthHashStep,
     TruthRecordsStep, TruthProjectStep DEF Truth!Next

LEMMA TruthInvariant == ASSUME TruthSensible PROVE Truth!Spec => []TruthInv
<1>1. Truth!Init => TruthInv
  BY TruthInitial
<1>2. TruthInv /\ [Truth!Next]_Truth!vars => TruthInv'
  BY TruthInductive
<1> QED  BY <1>1, <1>2, PTL DEF Truth!Spec

(* The variables of the projection have the types the module says.         *)
THEOREM TruthTypeCorrect == ASSUME TruthSensible PROVE Truth!Spec => []Truth!TypeOK
<1>1. ASSUME TruthSensible, TruthInv PROVE Truth!TypeOK
  <2>1. truthRevision \in 1 .. MaxTruthEdits + 1
    BY <1>1, TruthBounds DEF TruthInv, TruthTypeInv, TruthRevisionInv
  <2>2. truthRequest.step \in {"idle", "symbols", "hash", "records", "project"}
    <3>1. CASE truthRequest = Truth!Resting
      BY <3>1 DEF Truth!Resting
    <3>2. CASE truthRequest \in TruthRequests
      BY <3>2, TruthRequestFacts DEF TruthSteps
    <3> QED  BY <1>1, <3>1, <3>2 DEF TruthInv, TruthTypeInv
  <2> QED  BY <1>1, <2>1, <2>2 DEF TruthInv, TruthTypeInv, Truth!TypeOK
<1> QED  BY <1>1, TruthInvariant, PTL

(* Whatever the files, the records and the limit: what a report does not   *)
(* call stale is of the revision reported and, when bound to a digest, of  *)
(* the bytes that were on disk; every two such claims that differ are in   *)
(* one contradiction; and claims are missing only when it says so.         *)
THEOREM TruthNothingStaleIsCurrent == ASSUME TruthSensible
  PROVE Truth!Spec => []Truth!CurrentClaimsHold
<1>1. TruthInv => Truth!CurrentClaimsHold
  BY DEF TruthInv
<1> QED  BY <1>1, TruthInvariant, PTL

(* The variables of the instance, by either name. *)
LEMMA TruthVarsAre == TruthVars' = TruthVars <=> Truth!vars' = Truth!vars
BY DEF TruthVars, Truth!vars

-----------------------------------------------------------------------------
(* What holds of SemanticComparison for any providers, subjects and values *)
(* and any bounds.                                                         *)
(* The instance counts as FiniteSets does. *)
LEMMA CmpCounts ==
  \A S : (Cmp!IsFiniteSet(S) <=> IsFiniteSet(S)) /\ Cmp!Cardinality(S) = Cardinality(S)
BY DEF Cmp!IsFiniteSet, IsFiniteSet, Cmp!Cardinality, Cardinality


(* A value is its body and its place.                                      *)
CmpSensible == \A v, w \in ClaimValues : v.body = w.body /\ v.place = w.place => v = w

(* What is kept of a provider is what it found, all of it in a complete    *)
(* comparison.                                                             *)
CmpParse == [status : {"complete", "incomplete", "unavailable", "error"},
  claims : SUBSET (Cmp!Subjects \X ClaimValues)]

CmpFaithful(found, kept, complete) ==
  /\ found \in Seq(CmpParse) /\ kept \in Seq(SUBSET (Cmp!Subjects \X ClaimValues))
  /\ Len(kept) = Len(found)
  /\ \A i \in DOMAIN found : kept[i] \subseteq found[i].claims
  /\ complete => \A i \in DOMAIN found : found[i].status = "complete" /\ kept[i] = found[i].claims

CmpInv ==
  /\ cmpComparison.at \in {"none", "parsing", "stale", "reported"}
  /\ cmpComparison.at = "parsing" => CmpFaithful(cmpComparison.found, cmpComparison.kept,
     cmpComparison.complete)
  /\ Cmp!ReportIsExact

LEMMA CmpFaithfulStep ==
  ASSUME NEW found, NEW kept, NEW complete, CmpFaithful(found, kept, complete),
         NEW p \in CmpParse, NEW some \in SUBSET p.claims, NEW goes,
         goes => complete /\ p.status = "complete" /\ some = p.claims
  PROVE  CmpFaithful(Append(found, p), Append(kept, some), goes)
<1> DEFINE f == Append(found, p)
           k == Append(kept, some)
<1>1. some \in SUBSET (Cmp!Subjects \X ClaimValues)
  BY DEF CmpParse
<1>2. /\ f \in Seq(CmpParse) /\ k \in Seq(SUBSET (Cmp!Subjects \X ClaimValues))
      /\ Len(f) = Len(found) + 1 /\ Len(k) = Len(f)
      /\ f[Len(found) + 1] = p /\ k[Len(found) + 1] = some
      /\ \A i \in DOMAIN found : f[i] = found[i] /\ k[i] = kept[i]
      /\ DOMAIN f = DOMAIN found \cup {Len(found) + 1}
  BY <1>1 DEF CmpFaithful
<1> HIDE DEF f, k
<1>3. \A i \in DOMAIN f : k[i] \subseteq f[i].claims
  BY <1>2 DEF CmpFaithful
<1>4. ASSUME goes PROVE \A i \in DOMAIN f : f[i].status = "complete" /\ k[i] = f[i].claims
  BY <1>2, <1>4 DEF CmpFaithful
<1> QED
  BY <1>2, <1>3, <1>4 DEF CmpFaithful, f, k

-----------------------------------------------------------------------------
(* What is claimed of a subject was found, and in a complete comparison    *)
(* nothing else was.                                                       *)
LEMMA CmpClaimedIsFound ==
  ASSUME CmpFaithful(cmpComparison.found, cmpComparison.kept, cmpComparison.complete), NEW s
  PROVE  /\ Cmp!AllClaimed(s) \subseteq Cmp!FoundValues(s) /\ Cmp!AllClaimed(s) \subseteq ClaimValues
         /\ Cmp!Silent(s) \subseteq Cmp!Missing(s)
         /\ cmpComparison.complete => Cmp!AllClaimed(s) = Cmp!FoundValues(s)
            /\ Cmp!Missing(s) = Cmp!Silent(s)
<1>1. DOMAIN cmpComparison.found = DOMAIN cmpComparison.kept
  BY DEF CmpFaithful
<1>2. \A i \in DOMAIN cmpComparison.found : Cmp!ClaimedBy(i, s) \subseteq Cmp!Found(i, s)
  BY DEF CmpFaithful, Cmp!ClaimedBy, Cmp!Found
<1>3. cmpComparison.complete => \A i \in DOMAIN cmpComparison.found : Cmp!ClaimedBy(i,
      s) = Cmp!Found(i, s)
  BY DEF CmpFaithful, Cmp!ClaimedBy, Cmp!Found
<1>4. Cmp!AllClaimed(s) \subseteq Cmp!FoundValues(s)
  BY <1>1, <1>2 DEF Cmp!AllClaimed, Cmp!FoundValues
<1>5. Cmp!AllClaimed(s) \subseteq ClaimValues
  BY DEF Cmp!AllClaimed, Cmp!ClaimedBy
<1>6. Cmp!Silent(s) \subseteq Cmp!Missing(s)
  BY <1>1, <1>2 DEF Cmp!Silent, Cmp!Missing
<1>7. ASSUME cmpComparison.complete
      PROVE Cmp!AllClaimed(s) = Cmp!FoundValues(s) /\ Cmp!Missing(s) = Cmp!Silent(s)
  BY <1>1, <1>3, <1>7 DEF Cmp!AllClaimed, Cmp!FoundValues, Cmp!Silent, Cmp!Missing
<1> QED
  BY <1>4, <1>5, <1>6, <1>7

CmpRecord(s) == [subject |-> s, kind |-> Cmp!ConflictKind(s), missing |-> Cmp!Missing(s)]

LEMMA CmpRecordIsTrue ==
  ASSUME CmpSensible, CmpFaithful(cmpComparison.found, cmpComparison.kept, cmpComparison.complete),
    NEW s, Cmp!Conflicting(s)
  PROVE  Cmp!TrueRecord(CmpRecord(s))
<1>1. CmpRecord(s).subject = s /\ CmpRecord(s).kind = Cmp!ConflictKind(s)
      /\ CmpRecord(s).missing = Cmp!Missing(s)
  BY DEF CmpRecord
<1>2. ASSUME Cmp!Missing(s) # {}
      PROVE  Cmp!Missing(s) = Cmp!Silent(s)
        /\ \A i \in Cmp!Missing(s) : cmpComparison.found[i].status = "complete"
  <2>1. cmpComparison.complete
    BY <1>2 DEF Cmp!Conflicting
  <2>2. Cmp!Missing(s) = Cmp!Silent(s)
    BY <2>1, CmpClaimedIsFound
  <2>3. \A i \in Cmp!Missing(s) : i \in DOMAIN cmpComparison.found
    BY DEF Cmp!Missing, CmpFaithful
  <2> QED
    BY <2>1, <2>2, <2>3 DEF CmpFaithful
<1>3. ASSUME Cmp!Missing(s) = {}
      PROVE  Cmp!Several(Cmp!FoundValues(s))
  <2>1. Cmp!Several(Cmp!AllClaimed(s))
    BY <1>3 DEF Cmp!Conflicting
  <2> QED
    BY <2>1, CmpClaimedIsFound DEF Cmp!Several
<1>4. ASSUME Cmp!ConflictKind(s) = "location-conflict"
      PROVE  Cmp!Several({v.place : v \in Cmp!FoundValues(s)})
  <2>1. Cmp!Missing(s) = {} /\ ~Cmp!Several({v.body : v \in Cmp!AllClaimed(s)})
    BY <1>4 DEF Cmp!ConflictKind
  <2>2. PICK v \in Cmp!AllClaimed(s), w \in Cmp!AllClaimed(s) : v # w
    BY <2>1 DEF Cmp!Conflicting, Cmp!Several
  <2>3. v.body = w.body
    BY <2>1 DEF Cmp!Several
  <2>4. v \in ClaimValues /\ w \in ClaimValues /\ v \in Cmp!FoundValues(s)
        /\ w \in Cmp!FoundValues(s)
    BY CmpClaimedIsFound
  <2>5. v.place # w.place
    BY <2>2, <2>3, <2>4 DEF CmpSensible
  <2> QED
    BY <2>4, <2>5 DEF Cmp!Several
<1> QED
  BY <1>1, <1>2, <1>3, <1>4 DEF Cmp!TrueRecord

LEMMA CmpFinishIsExact ==
  ASSUME CmpSensible, CmpInv, Cmp!Finish, ~cmpFileChanged
  PROVE  Cmp!ReportIsExact'
<1> DEFINE all == {s \in Cmp!Grouped : Cmp!Conflicting(s)}
           reached == {s \in Cmp!Grouped : Cmp!Cardinality({q \in all : q < s}) < MaxDisagreements}
           records == {CmpRecord(s) : s \in all \cap reached}
<1>1. CmpFaithful(cmpComparison.found, cmpComparison.kept, cmpComparison.complete)
  BY DEF Cmp!Finish, CmpInv
<1>2. Cmp!Disagreements = [records |-> records, cut |-> reached # Cmp!Grouped]
  BY DEF Cmp!Disagreements, CmpRecord
<1>3. /\ cmpComparison'.found = cmpComparison.found
      /\ cmpComparison'.complete = cmpComparison.complete
      /\ cmpComparison'.records = records /\ cmpComparison'.truncated = (cmpComparison.cut
         \/ reached # Cmp!Grouped)
  <2>1. Cmp!Disagreements.records = records /\ Cmp!Disagreements.cut = (reached # Cmp!Grouped)
    BY <1>2
  <2> HIDE DEF records, reached
  <2> QED
    BY <2>1 DEF Cmp!Finish
<1>4. /\ \A s : Cmp!FoundValues(s)' = Cmp!FoundValues(s) /\ Cmp!Silent(s)' = Cmp!Silent(s)
  BY <1>3 DEF Cmp!FoundValues, Cmp!Silent, Cmp!Found
<1>5. \A r : Cmp!TrueRecord(r) => Cmp!TrueRecord(r)'
  BY <1>3, <1>4 DEF Cmp!TrueRecord
<1>6. \A s \in all : Cmp!TrueRecord(CmpRecord(s))
  BY <1>1, CmpRecordIsTrue
<1>7. \A r \in records : Cmp!TrueRecord(r)'
  BY <1>5, <1>6
<1>8. ASSUME cmpComparison.complete, reached = Cmp!Grouped
      PROVE  {r.subject : r \in records} =
             {s \in Cmp!Subjects : Cmp!FoundValues(s) # {}
               /\ (Cmp!Silent(s) # {} \/ Cmp!Several(Cmp!FoundValues(s)))}
  <2>1. \A s : CmpRecord(s).subject = s
    BY DEF CmpRecord
  <2>2. {r.subject : r \in records} = all
    <3>1. records = {CmpRecord(s) : s \in all}
      BY <1>8
    <3> HIDE DEF all, records
    <3> QED
      BY <2>1, <3>1
  <2>3. \A s \in Cmp!Subjects : Cmp!AllClaimed(s) = Cmp!FoundValues(s)
        /\ Cmp!Missing(s) = Cmp!Silent(s)
    BY <1>1, <1>8, CmpClaimedIsFound
  <2>4. \A s \in Cmp!Subjects : s \in all <=> Cmp!FoundValues(s) # {}
        /\ (Cmp!Silent(s) # {} \/ Cmp!Several(Cmp!FoundValues(s)))
    BY <1>8, <2>3 DEF Cmp!Grouped, Cmp!Conflicting
  <2>5. all \subseteq Cmp!Subjects
    BY DEF Cmp!Grouped
  <2> HIDE DEF all, records
  <2> QED
    BY <2>2, <2>4, <2>5
<1> HIDE DEF all, reached, records
<1>9. \A s : Cmp!Several(Cmp!FoundValues(s))' <=> Cmp!Several(Cmp!FoundValues(s))
  BY <1>4 DEF Cmp!Several
<1> QED
  BY <1>3, <1>4, <1>7, <1>8, <1>9 DEF Cmp!ReportIsExact

-----------------------------------------------------------------------------
LEMMA CmpParseWithFaithful ==
  ASSUME CmpInv, NEW status \in {"complete", "incomplete", "unavailable", "error"},
         NEW claims \in Cmp!ClaimSets, NEW some \in SUBSET claims,
           Cmp!ParseWith(status, claims, some)
  PROVE  CmpInv'
<1> DEFINE p == [status |-> status, claims |-> claims]
<1>1. p \in CmpParse /\ p.claims = claims /\ p.status = status
  BY DEF CmpParse, Cmp!ClaimSets
<1>2. /\ cmpComparison.at = "parsing" /\ cmpComparison'.at = "parsing"
      /\ cmpComparison'.found = Append(cmpComparison.found, p)
      /\ cmpComparison'.kept = Append(cmpComparison.kept, some)
  BY DEF Cmp!ParseWith
<1>3. cmpComparison'.complete => cmpComparison.complete /\ status = "complete" /\ some = claims
  BY DEF Cmp!ParseWith
<1> HIDE DEF p
<1>4. CmpFaithful(cmpComparison.found, cmpComparison.kept, cmpComparison.complete)
  BY <1>2 DEF CmpInv
<1>5. CmpFaithful(Append(cmpComparison.found, p), Append(cmpComparison.kept, some),
      cmpComparison'.complete)
  BY <1>1, <1>3, <1>4, CmpFaithfulStep
<1>6. CmpFaithful(cmpComparison.found, cmpComparison.kept, cmpComparison.complete)'
  BY <1>2, <1>5
<1> QED
  BY <1>2, <1>6 DEF CmpInv, Cmp!ReportIsExact

LEMMA CmpInitial == Cmp!Init => CmpInv
BY DEF Cmp!Init, Cmp!NoComparison, CmpInv, Cmp!ReportIsExact

LEMMA CmpInductive == CmpSensible /\ CmpInv /\ [Cmp!Next]_Cmp!vars => CmpInv'
<1> SUFFICES ASSUME CmpSensible, CmpInv, [Cmp!Next]_Cmp!vars PROVE CmpInv'
  OBVIOUS
<1>1. CASE UNCHANGED cmpComparison
  <2>1. Cmp!ReportIsExact'
    <3>1. cmpComparison' = cmpComparison
      BY <1>1
    <3>2. \A i, s : Cmp!Found(i, s)' = Cmp!Found(i, s)
      BY <3>1 DEF Cmp!Found
    <3>3. \A s : Cmp!FoundValues(s)' = Cmp!FoundValues(s) /\ Cmp!Silent(s)' = Cmp!Silent(s)
      BY <3>1, <3>2 DEF Cmp!FoundValues, Cmp!Silent
    <3>4. \A r : Cmp!TrueRecord(r)' <=> Cmp!TrueRecord(r)
      <4> TAKE r
      <4>1. /\ Cmp!FoundValues(r.subject)' = Cmp!FoundValues(r.subject)
            /\ Cmp!Silent(r.subject)' = Cmp!Silent(r.subject)
        BY <3>3
      <4>2. {v.place : v \in Cmp!FoundValues(r.subject)}' = {v.place : v \in Cmp!FoundValues(r.subject)}
        BY <4>1
      <4> QED
        BY <3>1, <4>1, <4>2 DEF Cmp!TrueRecord, Cmp!Several
    <3>5. \A s : Cmp!Several(Cmp!FoundValues(s))' <=> Cmp!Several(Cmp!FoundValues(s))
      BY <3>3 DEF Cmp!Several
    <3>6. {s \in Cmp!Subjects : Cmp!FoundValues(s) # {}
          /\ (Cmp!Silent(s) # {} \/ Cmp!Several(Cmp!FoundValues(s)))}'
          = {s \in Cmp!Subjects : Cmp!FoundValues(s) # {}
            /\ (Cmp!Silent(s) # {} \/ Cmp!Several(Cmp!FoundValues(s)))}
      BY <3>3, <3>5
    <3> QED
      BY <3>1, <3>4, <3>6 DEF CmpInv, Cmp!ReportIsExact
  <2> QED
    BY <1>1, <2>1 DEF CmpInv
<1>2. CASE Cmp!Begin
  <2>1. /\ cmpComparison'.at = "parsing" /\ cmpComparison'.found = <<>>
        /\ cmpComparison'.kept = <<>>
    BY <1>2 DEF Cmp!Begin
  <2>2. \A c : CmpFaithful(<<>>, <<>>, c)
    BY DEF CmpFaithful
  <2> QED
    BY <2>1, <2>2 DEF CmpInv, Cmp!ReportIsExact, CmpFaithful
<1>3. CASE Cmp!Finish
  <2>1. CASE cmpFileChanged
    <3>1. cmpComparison'.at = "stale"
      BY <1>3, <2>1 DEF Cmp!Finish
    <3> QED
      BY <3>1 DEF CmpInv, Cmp!ReportIsExact
  <2>2. CASE ~cmpFileChanged
    <3>1. cmpComparison'.at = "reported"
      BY <1>3, <2>2 DEF Cmp!Finish
    <3> QED
      BY <1>3, <2>2, <3>1, CmpFinishIsExact DEF CmpInv
  <2> QED
    BY <2>1, <2>2
<1>4. ASSUME NEW status \in {"complete", "incomplete", "unavailable", "error"},
      NEW claims \in Cmp!ClaimSets,
             NEW some \in SUBSET claims, Cmp!ParseWith(status, claims, some)
      PROVE  CmpInv'
  BY <1>4, CmpParseWithFaithful
<1> QED
  BY <1>1, <1>2, <1>3, <1>4 DEF Cmp!Next, Cmp!vars, Cmp!Admit, Cmp!Change

(* No report takes what was cut off, or a provider that failed, for a      *)
(* disagreement, and a complete one misses none, for any bounds.           *)
THEOREM CmpReportsAreExact ==
  ASSUME CmpSensible
  PROVE  Cmp!Spec => []Cmp!ReportIsExact
<1>1. CmpInv => Cmp!ReportIsExact
  BY DEF CmpInv
<1> QED
  BY <1>1, CmpInitial, CmpInductive, PTL DEF Cmp!Spec

-----------------------------------------------------------------------------
CmpBounded ==
  /\ SubjectCount \in Nat /\ Cmp!IsFiniteSet(ClaimValues)
  /\ MaxClaims \in Nat /\ MaxDisagreements \in Nat

(* Finitely many claims of each provider are kept. *)
CmpKeptFinite(kept) == kept \in Seq(SUBSET (Cmp!Subjects \X ClaimValues))

CmpAllKept(kept) == UNION {{i} \X kept[i] : i \in DOMAIN kept}

CmpBoundsInv ==
  /\ Cmp!TypeOK
  /\ cmpComparison.at = "parsing" => CmpKeptFinite(cmpComparison.kept)

LEMMA CmpFiniteClaims ==
  ASSUME CmpBounded, NEW claims, claims \subseteq Cmp!Subjects \X ClaimValues
  PROVE  Cmp!IsFiniteSet(claims) /\ Cmp!Cardinality(claims) \in Nat
<1>1. Cmp!IsFiniteSet(Cmp!Subjects)
  BY CmpCounts, FS_Interval DEF CmpBounded, Cmp!Subjects
<1>2. Cmp!IsFiniteSet(Cmp!Subjects \X ClaimValues)
  BY <1>1, CmpCounts, FS_Product DEF CmpBounded
<1> QED
  BY <1>2, CmpCounts, FS_Subset, FS_CardinalityType

LEMMA CmpFiniteKept ==
  ASSUME CmpBounded, NEW kept, CmpKeptFinite(kept)
  PROVE  Cmp!IsFiniteSet(CmpAllKept(kept))
    /\ Cmp!KeptCount(kept) = Cmp!Cardinality(CmpAllKept(kept)) /\ Cmp!KeptCount(kept) \in Nat
<1> DEFINE Pairs == Cmp!Subjects \X ClaimValues
           n == DOMAIN kept
<1>1. n = 1 .. Len(kept) /\ Len(kept) \in Nat /\ \A i \in n : kept[i] \subseteq Pairs
  BY DEF CmpKeptFinite
<1>2. Cmp!IsFiniteSet(Pairs)
  BY CmpFiniteClaims
<1> HIDE DEF Pairs, n
<1>3. Cmp!IsFiniteSet(n)
  BY <1>1, CmpCounts, FS_Interval
<1>4. Cmp!IsFiniteSet(n \X Pairs)
  BY <1>2, <1>3, CmpCounts, FS_Product
<1>5. CmpAllKept(kept) \subseteq n \X Pairs
  <2>1. \A i \in n : {i} \X kept[i] \subseteq n \X Pairs
    BY <1>1
  <2> QED
    BY <2>1 DEF CmpAllKept, n
<1> QED
  BY <1>4, <1>5, CmpCounts, FS_Subset, FS_CardinalityType DEF Cmp!KeptCount, CmpAllKept

(* One more provider keeps no more than there is room for.                 *)
LEMMA CmpRoomIsKept ==
  ASSUME CmpBounded, NEW kept, CmpKeptFinite(kept), Cmp!KeptCount(kept) <= MaxClaims,
         NEW claims, claims \subseteq Cmp!Subjects \X ClaimValues,
           NEW some \in Cmp!Taken(claims, MaxClaims - Cmp!KeptCount(kept))
  PROVE  /\ some \subseteq Cmp!Subjects \X ClaimValues
         /\ CmpKeptFinite(Append(kept, some)) /\ Cmp!KeptCount(Append(kept, some)) <= MaxClaims
<1> DEFINE room == MaxClaims - Cmp!KeptCount(kept)
           n == Len(kept) + 1
           k == Append(kept, some)
<1>0. Cmp!KeptCount(kept) \in Nat /\ room \in Nat
  BY CmpFiniteKept DEF CmpBounded
<1>1. some \subseteq claims /\ Cmp!Cardinality(some) <= room
  <2>1. CASE Cmp!Cardinality(claims) <= room
    BY <2>1 DEF Cmp!Taken
  <2>2. CASE ~(Cmp!Cardinality(claims) <= room)
    BY <1>0, <2>2 DEF Cmp!Taken
  <2> QED
    BY <2>1, <2>2
<1>2. some \subseteq Cmp!Subjects \X ClaimValues
  BY <1>1
<1>3. Cmp!IsFiniteSet(some) /\ Cmp!Cardinality(some) \in Nat
  BY <1>2, CmpFiniteClaims
<1>4. /\ k \in Seq(SUBSET (Cmp!Subjects \X ClaimValues)) /\ DOMAIN k = DOMAIN kept \cup {n}
      /\ k[n] = some /\ \A i \in DOMAIN kept : k[i] = kept[i]
  BY <1>2 DEF CmpKeptFinite
<1> HIDE DEF k
<1>5. CmpAllKept(k) = CmpAllKept(kept) \cup ({n} \X some)
  BY <1>4 DEF CmpAllKept
<1>6. Cmp!IsFiniteSet({n} \X some) /\ Cmp!Cardinality({n} \X some) = Cmp!Cardinality(some)
  <2>1. Cmp!IsFiniteSet({n}) /\ Cmp!Cardinality({n}) = 1
    BY CmpCounts, FS_Singleton
  <2>2. Cmp!IsFiniteSet({n} \X some)
        /\ Cmp!Cardinality({n} \X some) = Cmp!Cardinality({n}) * Cmp!Cardinality(some)
    BY <1>3, <2>1, CmpCounts, FS_Product
  <2> QED
    BY <1>3, <2>1, <2>2
<1>7. Cmp!Cardinality(CmpAllKept(k)) <= Cmp!Cardinality(CmpAllKept(kept)) + Cmp!Cardinality({n} \X some)
  <2>1. Cmp!IsFiniteSet(CmpAllKept(kept)) /\ Cmp!IsFiniteSet({n} \X some)
    BY <1>6, CmpFiniteKept
  <2>2. /\ Cmp!Cardinality(CmpAllKept(kept) \cup ({n} \X some))
             = Cmp!Cardinality(CmpAllKept(kept)) + Cmp!Cardinality({n} \X some) - Cmp!Cardinality(CmpAllKept(kept) \cap ({n} \X some))
    BY <2>1, CmpCounts, FS_Union
  <2>3. Cmp!Cardinality(CmpAllKept(kept) \cap ({n} \X some)) \in Nat
    BY <2>1, CmpCounts, FS_Intersection, FS_CardinalityType
  <2>4. Cmp!Cardinality(CmpAllKept(kept)) \in Nat /\ Cmp!Cardinality({n} \X some) \in Nat
    BY <2>1, CmpCounts, FS_CardinalityType
  <2> QED
    BY <1>5, <2>2, <2>3, <2>4
<1>8. CmpKeptFinite(k)
  BY <1>4 DEF CmpKeptFinite
<1>9. Cmp!KeptCount(k) = Cmp!Cardinality(CmpAllKept(k)) /\ Cmp!KeptCount(k) \in Nat
      /\ Cmp!KeptCount(kept) = Cmp!Cardinality(CmpAllKept(kept))
  BY <1>8, CmpFiniteKept
<1>10. Cmp!KeptCount(k) <= MaxClaims
  BY <1>0, <1>1, <1>3, <1>6, <1>7, <1>9 DEF CmpBounded
<1> QED
  BY <1>2, <1>8, <1>10 DEF k

LEMMA CmpLastSubject ==
  ASSUME NEW n \in Nat, NEW A, A \subseteq 1 .. n, A # {}
  PROVE  \E m \in A : \A q \in A : q <= m
<1> DEFINE T == {n - q : q \in A}
<1>1. T \in SUBSET Nat /\ T # {}
  <2>1. \A q \in A : n - q \in Nat
    OBVIOUS
  <2> QED
    BY <2>1
<1>2. PICK x \in T : \A y \in T : ~ (<<y, x>> \in OpToRel(<, Nat))
  BY <1>1, NatLessThanWellFounded, WFMin, Zenon
<1>3. \A y \in T : ~ (y < x)
  BY <1>1, <1>2 DEF OpToRel
<1>4. PICK m \in A : x = n - m
  OBVIOUS
<1>5. ASSUME NEW q \in A PROVE q <= m
  <2>1. n - q \in T
    OBVIOUS
  <2>2. ~(n - q < n - m)
    BY <1>3, <1>4, <2>1
  <2>3. q \in Nat /\ m \in Nat
    OBVIOUS
  <2> QED
    BY <2>2, <2>3
<1> QED
  BY <1>5

(* As many disagreements are reported as may be: the last of them had      *)
(* fewer before it.                                                        *)
LEMMA CmpFewAreReported == CmpBounded
  => Cmp!Cardinality(Cmp!Disagreements.records) <= MaxDisagreements
<1> SUFFICES ASSUME CmpBounded PROVE Cmp!Cardinality(Cmp!Disagreements.records) <= MaxDisagreements
  OBVIOUS
<1> DEFINE all == {s \in Cmp!Grouped : Cmp!Conflicting(s)}
           reached == {s \in Cmp!Grouped : Cmp!Cardinality({q \in all : q < s}) < MaxDisagreements}
           A == all \cap reached
           record(s) == [subject |-> s, kind |-> Cmp!ConflictKind(s), missing |-> Cmp!Missing(s)]
           records == {record(s) : s \in A}
<1>1. Cmp!Disagreements.records = records
  BY DEF Cmp!Disagreements
<1>2. Cmp!IsFiniteSet(Cmp!Subjects) /\ all \subseteq Cmp!Subjects /\ A \subseteq all
      /\ Cmp!Subjects \subseteq Nat
  BY CmpCounts, FS_Interval DEF CmpBounded, Cmp!Subjects, Cmp!Grouped
<1>3. Cmp!IsFiniteSet(all) /\ Cmp!IsFiniteSet(A) /\ Cmp!Cardinality(A) \in Nat
  BY <1>2, CmpCounts, FS_Subset, FS_CardinalityType
<1>4. Cmp!Cardinality(A) <= MaxDisagreements
  <2>1. CASE A = {}
    <3>1. Cmp!Cardinality(A) = 0
      BY <2>1, CmpCounts, FS_EmptySet
    <3> HIDE DEF A
    <3> QED
      BY <3>1 DEF CmpBounded
  <2>2. CASE A # {}
    <3> HIDE DEF A, all, reached
    <3>0. A \subseteq 1 .. SubjectCount /\ SubjectCount \in Nat
      BY <1>2 DEF Cmp!Subjects, CmpBounded
    <3>1. PICK m \in A : \A q \in A : q <= m
      BY <2>2, <3>0, CmpLastSubject
    <3> DEFINE before == {q \in all : q < m}
    <3>2. A \ {m} \subseteq before
      BY <1>2, <3>1
    <3>3. Cmp!Cardinality(before) < MaxDisagreements
      BY <3>1 DEF A, reached
    <3>4. Cmp!IsFiniteSet(before) /\ Cmp!Cardinality(before) \in Nat
      BY <1>3, CmpCounts, FS_Subset, FS_CardinalityType
    <3> HIDE DEF before
    <3>5. Cmp!Cardinality(A \ {m}) = Cmp!Cardinality(A) - 1 /\ Cmp!IsFiniteSet(A \ {m})
      BY <1>3, <3>1, CmpCounts, FS_RemoveElement
    <3>6. Cmp!Cardinality(A \ {m}) <= Cmp!Cardinality(before)
      BY <3>2, <3>4, CmpCounts, FS_Subset
    <3> QED
      BY <1>3, <3>3, <3>4, <3>5, <3>6 DEF CmpBounded
  <2> QED
    BY <2>1, <2>2
<1>5. Cmp!Cardinality(records) <= Cmp!Cardinality(A)
  <2>1. [s \in A |-> record(s)] \in Surjection(A, records)
    BY DEF Surjection
  <2> HIDE DEF A, records
  <2> QED
    BY <1>3, <2>1, CmpCounts, FS_Surjection
<1>6. Cmp!IsFiniteSet(records) /\ Cmp!Cardinality(records) \in Nat
  <2>1. [s \in A |-> record(s)] \in Surjection(A, records)
    BY DEF Surjection
  <2> HIDE DEF A, records
  <2> QED
    BY <1>3, <2>1, CmpCounts, FS_Surjection, FS_CardinalityType
<1> HIDE DEF A, records
<1> QED
  BY <1>1, <1>3, <1>4, <1>5, <1>6 DEF CmpBounded

(* The comparison keeps its type, and no more claims and disagreements     *)
(* than it may, for any bounds.                                            *)
THEOREM CmpTypeCorrect ==
  ASSUME CmpBounded
  PROVE  Cmp!Spec => []Cmp!TypeOK
<1>1. Cmp!Init => CmpBoundsInv
  <2> SUFFICES ASSUME Cmp!Init PROVE CmpBoundsInv
    OBVIOUS
  <2>1. cmpComparison.at = "none" /\ cmpAdmittedSet = {} /\ cmpFileChanged = FALSE
    BY DEF Cmp!Init, Cmp!NoComparison
  <2> QED
    BY <2>1 DEF CmpBoundsInv, Cmp!TypeOK
<1>2. CmpBoundsInv /\ [Cmp!Next]_Cmp!vars => CmpBoundsInv'
  <2> SUFFICES ASSUME CmpBoundsInv, [Cmp!Next]_Cmp!vars PROVE CmpBoundsInv'
    OBVIOUS
  <2>0. /\ cmpAdmittedSet \subseteq 1 .. ProviderCount /\ cmpFileChanged \in BOOLEAN
        /\ cmpComparison.at \in {"none", "parsing", "stale", "reported"}
    BY DEF CmpBoundsInv, Cmp!TypeOK
  <2>1. CASE UNCHANGED cmpComparison /\ cmpAdmittedSet' \subseteq 1 .. ProviderCount
        /\ cmpFileChanged' \in BOOLEAN
    BY <2>1 DEF CmpBoundsInv, Cmp!TypeOK, Cmp!KeptCount, CmpKeptFinite
  <2>2. CASE Cmp!Begin
    <3>1. cmpComparison'.at = "parsing" /\ cmpComparison'.kept = <<>>
          /\ UNCHANGED <<cmpAdmittedSet, cmpFileChanged>>
      BY <2>2 DEF Cmp!Begin
    <3>2. CmpKeptFinite(<<>>)
      BY DEF CmpKeptFinite
    <3>3. Cmp!KeptCount(<<>>) = 0
      <4>1. CmpAllKept(<<>>) = {}
        BY DEF CmpAllKept
      <4> QED
        BY <3>2, <4>1, CmpFiniteKept, CmpCounts, FS_EmptySet
    <3>4. Cmp!KeptCount(cmpComparison'.kept) <= MaxClaims /\ CmpKeptFinite(cmpComparison'.kept)
      BY <3>1, <3>2, <3>3 DEF CmpBounded
    <3> QED
      BY <2>0, <3>1, <3>4 DEF CmpBoundsInv, Cmp!TypeOK, Cmp!KeptCount, CmpKeptFinite
  <2>3. CASE Cmp!Finish
    <3>1. UNCHANGED <<cmpAdmittedSet, cmpFileChanged>>
      BY <2>3 DEF Cmp!Finish
    <3>2. CASE cmpFileChanged
      <4>1. cmpComparison'.at = "stale"
        BY <2>3, <3>2 DEF Cmp!Finish
      <4> QED
        BY <2>0, <3>1, <4>1 DEF CmpBoundsInv, Cmp!TypeOK
    <3>3. CASE ~cmpFileChanged
      <4>1. cmpComparison'.at = "reported" /\ cmpComparison'.records = Cmp!Disagreements.records
        BY <2>3, <3>3 DEF Cmp!Finish
      <4>2. Cmp!Cardinality(cmpComparison'.records) <= MaxDisagreements
        BY <4>1, CmpFewAreReported
      <4> QED
        BY <2>0, <3>1, <4>1, <4>2 DEF CmpBoundsInv, Cmp!TypeOK
    <3> QED
      BY <3>2, <3>3
  <2>4. ASSUME NEW status \in {"complete", "incomplete", "unavailable", "error"},
        NEW claims \in Cmp!ClaimSets,
               NEW some \in SUBSET claims, Cmp!ParseWith(status, claims, some)
        PROVE  CmpBoundsInv'
    <3>1. /\ cmpComparison.at = "parsing" /\ UNCHANGED <<cmpAdmittedSet, cmpFileChanged>>
          /\ some \in Cmp!Taken(claims, MaxClaims - Cmp!KeptCount(cmpComparison.kept))
          /\ cmpComparison'.at = "parsing" /\ cmpComparison'.kept = Append(cmpComparison.kept, some)
      BY <2>4 DEF Cmp!ParseWith
    <3>2. claims \subseteq Cmp!Subjects \X ClaimValues
      BY DEF Cmp!ClaimSets
    <3>3. Cmp!KeptCount(cmpComparison.kept) <= MaxClaims /\ CmpKeptFinite(cmpComparison.kept)
      BY <3>1 DEF CmpBoundsInv, Cmp!TypeOK
    <3>4. Cmp!KeptCount(cmpComparison'.kept) <= MaxClaims /\ CmpKeptFinite(cmpComparison'.kept)
      BY <3>1, <3>2, <3>3, CmpRoomIsKept
    <3> QED
      BY <2>0, <3>1, <3>4 DEF CmpBoundsInv, Cmp!TypeOK, Cmp!KeptCount, CmpKeptFinite
  <2> QED
    BY <2>0, <2>1, <2>2, <2>3, <2>4 DEF Cmp!Next, Cmp!vars, Cmp!Admit, Cmp!Change
<1>3. CmpBoundsInv => Cmp!TypeOK
  BY DEF CmpBoundsInv
<1> QED
  BY <1>1, <1>2, <1>3, PTL DEF Cmp!Spec

(* The variables of the instance, by either name. *)
LEMMA CmpVarsAre == CmpVars' = CmpVars <=> Cmp!vars' = Cmp!vars
BY DEF CmpVars, Cmp!vars

-----------------------------------------------------------------------------
(* What holds of ContextMemory for any objects, texts, sizes and           *)
(* capacities, as long as no file is saved under a fetch.                  *)
(* The instance counts as FiniteSets does. *)
LEMMA MemoryCounts ==
  \A S : (Memory!IsFiniteSet(S) <=> IsFiniteSet(S)) /\ Memory!Cardinality(S) = Cardinality(S)
BY DEF Memory!IsFiniteSet, IsFiniteSet, Memory!Cardinality, Cardinality


MemorySensible ==
  /\ Memory!IsFiniteSet(Paths) /\ NoText \notin Texts /\ PageSize \in [Texts -> Nat]
  /\ "edit under a fetch" \notin ContextHazards

MemorySteps == {"idle", "admit", "enforce", "fetch", "touch", "answer", "packet", "materialize"}
MemoryMaps == [Paths -> Texts \cup {NoText}]
MemoryRequests == [step : MemorySteps, left : Seq(Paths), map : MemoryMaps \cup {<<>>}, pins : Nat]

MemoryRowsTyped ==
  /\ memoryRows \in [Paths -> [digest : Texts \cup {NoText}, pinned : BOOLEAN]]
  /\ \A o \in Memory!Residents : memoryRows[o].digest \in Texts

MemoryTyped ==
  /\ MemoryRowsTyped
  /\ memoryDisk \in MemoryMaps /\ memoryIndex \in MemoryMaps
  /\ memorySlice.ranked \in Seq(Paths)
  /\ memoryOp \in MemoryRequests
  /\ memoryOp.step \in {"fetch", "touch", "packet", "materialize"} => memoryOp.map \in MemoryMaps
  /\ memoryOp.step = "touch" => memoryOp.left # <<>>
  /\ \A p \in memoryServed : p.object \in Paths

(* While pages are fetched, those gathered are what the index and the file *)
(* still say: the file is saved only afterwards.                           *)
MemoryPagesStand ==
  /\ \A p \in memoryServed : p.bytes = p.digest
  /\ Memory!Fetching => \A p \in memoryServed : memoryIndex[p.object] = p.bytes
     /\ memoryDisk[p.object] = p.bytes
  /\ memoryOp.step = "answer" => \A p \in memoryServed : memoryOp.map[p.object] = p.bytes

(* A request that touches what is resident goes on to enforce the          *)
(* capacity, or was cut off before it did.                                 *)
MemoryFitsUnlessPinned ==
  memoryOp.step \notin {"admit", "enforce"} /\ ~memoryCut /\ ~Memory!Fits(Memory!Residents)
    => \A o \in Memory!Residents : Memory!Pinned(o)

MemoryInv == MemoryTyped /\ MemoryPagesStand /\ MemoryFitsUnlessPinned

LEMMA MemoryNoTextIsNoRow ==
  ASSUME NEW r, r.digest \in Texts, MemorySensible
  PROVE  r # Memory!NoRow
<1>1. Memory!NoRow.digest = NoText
  BY DEF Memory!NoRow
<1> QED
  BY <1>1 DEF MemorySensible

(* Every set of residents has finitely many bytes, and fewer residents     *)
(* have no more of them.                                                   *)
LEMMA MemoryBytesAreMonotone ==
  ASSUME MemorySensible, MemoryRowsTyped, NEW R, R \subseteq Memory!Residents, NEW Q, Q \subseteq R
  PROVE  /\ Memory!Cardinality(Q) \in Nat /\ Memory!Cardinality(R) \in Nat /\ Memory!Cardinality(Q) <= Memory!Cardinality(R)
         /\ Memory!Bytes(Q) \in Nat /\ Memory!Bytes(R) \in Nat /\ Memory!Bytes(Q) <= Memory!Bytes(R)
<1> DEFINE Of(o) == {o} \X (1..PageSize[memoryRows[o].digest])
           All(S) == {Of(o) : o \in S}
<1>1. Memory!IsFiniteSet(R) /\ Memory!IsFiniteSet(Q)
  <2>1. R \subseteq Paths
    BY DEF Memory!Residents
  <2> QED
    BY <2>1, MemoryCounts, FS_Subset DEF MemorySensible
<1>2. \A o \in R : Memory!IsFiniteSet(Of(o))
  <2> SUFFICES ASSUME NEW o \in R PROVE Memory!IsFiniteSet(Of(o))
    OBVIOUS
  <2>1. PageSize[memoryRows[o].digest] \in Nat
    BY DEF MemorySensible, MemoryRowsTyped
  <2>2. Memory!IsFiniteSet(1..PageSize[memoryRows[o].digest])
    BY <2>1, MemoryCounts, FS_Interval
  <2>3. Memory!IsFiniteSet({o})
    BY MemoryCounts, FS_Singleton
  <2> QED
    BY <2>2, <2>3, MemoryCounts, FS_Product
<1>3. Memory!IsFiniteSet(UNION All(R))
  <2>1. Memory!IsFiniteSet(All(R))
    <3>1. [o \in R |-> Of(o)] \in Surjection(R, All(R))
      BY DEF Surjection
    <3> QED
      BY <1>1, <3>1, MemoryCounts, FS_Surjection
  <2>2. \A S \in All(R) : Memory!IsFiniteSet(S)
    BY <1>2
  <2> QED
    BY <2>1, <2>2, MemoryCounts, FS_UNION
<1>4. UNION All(Q) \subseteq UNION All(R)
  OBVIOUS
<1>5. Memory!Bytes(Q) = Memory!Cardinality(UNION All(Q))
      /\ Memory!Bytes(R) = Memory!Cardinality(UNION All(R))
  BY DEF Memory!Bytes
<1> QED
  BY <1>1, <1>3, <1>4, <1>5, MemoryCounts, FS_Subset, FS_CardinalityType

(* What fits with more residents fits with fewer. *)
LEMMA MemoryFewerFit ==
  ASSUME MemorySensible, MemoryRowsTyped, NEW R, R \subseteq Memory!Residents, NEW Q, Q \subseteq R,
    Memory!Fits(R),
         memoryCapacity \in Nat, MaxPageBytes \in Nat
  PROVE  Memory!Fits(Q)
BY MemoryBytesAreMonotone DEF Memory!Fits

LEMMA MemoryRankingsAreSequences == Memory!Rankings \subseteq Seq(Paths)
<1> SUFFICES ASSUME NEW s \in Memory!Rankings PROVE s \in Seq(Paths)
  OBVIOUS
<1>1. s \in Memory!SeqOf(Paths, Memory!Cardinality(Paths))
  BY DEF Memory!Rankings
<1>2. PICK m \in 0..Memory!Cardinality(Paths) : s \in [1..m -> Paths]
  BY <1>1 DEF Memory!SeqOf
<1>3. m \in Nat
  OBVIOUS
<1> QED
  BY <1>2, <1>3

(***************************************************************************)
(* Types                                                                   *)
(***************************************************************************)
LEMMA MemoryReconcileTyped ==
  ASSUME MemoryTyped, Memory!Reconcile
  PROVE  memoryIndex' \in MemoryMaps
BY DEF MemoryTyped, Memory!Reconcile

LEMMA MemoryRowsKept ==
  ASSUME MemoryRowsTyped, memoryRows' = memoryRows
  PROVE  MemoryRowsTyped' /\ Memory!Residents' = Memory!Residents
BY DEF MemoryRowsTyped, Memory!Residents

LEMMA MemoryDropTyped ==
  ASSUME MemorySensible, MemoryRowsTyped, NEW R, Memory!Drop(R)
  PROVE  /\ MemoryRowsTyped' /\ Memory!Residents' = Memory!Residents \ R
         /\ \A o \in Memory!Residents \ R : memoryRows'[o] = memoryRows[o]
<1>1. \A o \in Paths : memoryRows'[o] = IF o \in R THEN Memory!NoRow ELSE memoryRows[o]
  BY DEF Memory!Drop
<1>2. Memory!Residents' = Memory!Residents \ R
  BY <1>1 DEF Memory!Residents
<1>3. memoryRows' \in [Paths -> [digest : Texts \cup {NoText}, pinned : BOOLEAN]]
  BY DEF Memory!Drop, MemoryRowsTyped, Memory!NoRow
<1>4. \A o \in Memory!Residents' : memoryRows'[o].digest \in Texts
  BY <1>1, <1>2 DEF MemoryRowsTyped, Memory!Residents
<1> QED
  BY <1>1, <1>2, <1>3, <1>4 DEF MemoryRowsTyped, Memory!Residents

(* A request that begins, ends or goes on keeps its types.                 *)
LEMMA MemoryRestTyped ==
  Memory!Rest \in MemoryRequests /\ Memory!Rest.step = "idle" /\ Memory!Rest.left = <<>>
    /\ Memory!Rest.map = <<>> /\ Memory!Rest.pins = 0
BY DEF Memory!Rest, Memory!Request, MemoryRequests, MemorySteps

LEMMA MemoryOpFields ==
  ASSUME MemoryTyped
  PROVE  memoryOp.step \in MemorySteps /\ memoryOp.left \in Seq(Paths)
    /\ memoryOp.map \in MemoryMaps \cup {<<>>} /\ memoryOp.pins \in Nat
BY DEF MemoryTyped, MemoryRequests

(* What is left of a sequence of objects, and what comes first.            *)
LEMMA MemoryLeftFacts ==
  ASSUME NEW l \in Seq(Paths), l # <<>>
  PROVE  l[1] \in Paths /\ Tail(l) \in Seq(Paths)
OBVIOUS

LEMMA MemoryEditTyped ==
  ASSUME MemorySensible, MemoryTyped, NEW o \in Paths, NEW t \in Texts \cup {NoText},
    Memory!Edit(o, t)
  PROVE  MemoryTyped'
<1>1. MemoryRowsTyped'
  BY MemoryRowsKept DEF Memory!Edit, MemoryTyped, Memory!memory
<1>2. memoryDisk' \in MemoryMaps
  BY DEF Memory!Edit, MemoryTyped, MemoryMaps
<1> QED
  BY <1>1, <1>2 DEF Memory!Edit, MemoryTyped, Memory!memory, Memory!known

LEMMA MemoryCrashTyped ==
  ASSUME MemorySensible, MemoryTyped, Memory!Crash
  PROVE  MemoryTyped'
<1>1. MemoryRowsTyped'
  BY MemoryRowsKept DEF Memory!Crash, MemoryTyped
<1>2. memoryOp' \in MemoryRequests /\ memoryOp'.step = "idle" /\ memoryServed' = {}
  BY MemoryRestTyped DEF Memory!Crash
<1> QED
  BY <1>1, <1>2 DEF Memory!Crash, MemoryTyped, Memory!world, Memory!known

LEMMA MemoryCompileTyped ==
  ASSUME MemorySensible, MemoryTyped, NEW ranked \in Memory!Rankings, Memory!Compile(ranked)
  PROVE  MemoryTyped'
<1>1. MemoryRowsTyped'
  BY MemoryRowsKept DEF Memory!Compile, MemoryTyped, Memory!memory
<1>2. memorySlice'.ranked = ranked /\ ranked \in Seq(Paths)
  BY MemoryRankingsAreSequences DEF Memory!Compile
<1> QED
  BY <1>1, <1>2, MemoryReconcileTyped DEF Memory!Compile, MemoryTyped, Memory!world

(* A slice is never empty: its ranking is one of Rankings.                 *)
LEMMA MemoryAdmitBeginTyped ==
  ASSUME MemorySensible, MemoryTyped, NEW pins \in 0..1, NEW most \in 1..Len(memorySlice.ranked),
    Memory!AdmitBegin(pins, most)
  PROVE  MemoryTyped'
<1>1. MemoryRowsTyped'
  BY MemoryRowsKept DEF Memory!AdmitBegin, MemoryTyped, Memory!memory
<1>2. SubSeq(memorySlice.ranked, 1, most) \in Seq(Paths) /\ pins \in Nat
  BY DEF MemoryTyped
<1>3. memoryOp' = memoryOp \/ memoryOp' = Memory!Request("admit",
      SubSeq(memorySlice.ranked, 1, most), <<>>, pins)
  BY DEF Memory!AdmitBegin
<1>4. memoryOp' \in MemoryRequests /\ (memoryOp' = memoryOp \/ memoryOp'.step = "admit")
  BY <1>2, <1>3 DEF MemoryTyped, Memory!Request, MemoryRequests, MemorySteps
<1> QED
  BY <1>1, <1>4, MemoryReconcileTyped DEF Memory!AdmitBegin, MemoryTyped, Memory!world

LEMMA MemoryAdmitTyped ==
  ASSUME MemorySensible, MemoryTyped, Memory!Admit
  PROVE  MemoryTyped'
<1>1. memoryOp.left \in Seq(Paths) /\ memoryOp.map \in MemoryMaps \cup {<<>>}
      /\ memoryOp.pins \in Nat
  BY MemoryOpFields
<1>2. MemoryRowsTyped' /\ memoryOp' \in MemoryRequests /\ memoryOp'.step \in {"admit", "enforce"}
  <2>1. CASE memoryOp.left = <<>>
    <3>1. memoryOp' = Memory!Request("enforce", <<>>, <<>>, 0) /\ memoryRows' = memoryRows
      BY <2>1 DEF Memory!Admit
    <3> QED
      BY <3>1, MemoryRowsKept DEF MemoryTyped, Memory!Request, MemoryRequests, MemorySteps
  <2>2. CASE memoryOp.left # <<>>
    <3> DEFINE o == memoryOp.left[1]
               n == IF memoryOp.pins = 0 THEN 0 ELSE memoryOp.pins - 1
    <3>1. o \in Paths /\ Tail(memoryOp.left) \in Seq(Paths) /\ n \in Nat
      BY <1>1, <2>2, MemoryLeftFacts
    <3>2. memoryOp' = Memory!Request("admit", Tail(memoryOp.left), memoryOp.map, n)
      BY <2>2 DEF Memory!Admit
    <3>3. memoryOp' \in MemoryRequests /\ memoryOp'.step = "admit"
      BY <1>1, <3>1, <3>2 DEF Memory!Request, MemoryRequests, MemorySteps
    <3>4. CASE memoryIndex[o] = NoText
      <4>1. memoryRows' = memoryRows
        BY <2>2, <3>4 DEF Memory!Admit
      <4> QED
        BY <3>3, <4>1, MemoryRowsKept DEF MemoryTyped
    <3>5. CASE memoryIndex[o] # NoText
      <4> DEFINE row == [digest |-> memoryIndex[o], pinned |-> Memory!Pinned(o)
          \/ memoryOp.pins > 0]
      <4>1. memoryRows' = [memoryRows EXCEPT ![o] = row]
        BY <2>2, <3>5 DEF Memory!Admit
      <4>2. memoryIndex[o] \in Texts
        BY <3>1, <3>5 DEF MemoryTyped, MemoryMaps
      <4>3. row \in [digest : Texts \cup {NoText}, pinned : BOOLEAN] /\ row.digest \in Texts
        <5>1. (Memory!Pinned(o) \/ memoryOp.pins > 0) \in BOOLEAN
          OBVIOUS
        <5> QED
          BY <4>2, <5>1
      <4> HIDE DEF row, o
      <4>4. memoryRows' \in [Paths -> [digest : Texts \cup {NoText}, pinned : BOOLEAN]]
        BY <3>1, <4>1, <4>3 DEF MemoryTyped, MemoryRowsTyped
      <4>5. \A x \in Memory!Residents' : memoryRows'[x].digest \in Texts
        BY <3>1, <4>1, <4>3 DEF MemoryTyped, MemoryRowsTyped, Memory!Residents
      <4> QED
        BY <3>3, <4>4, <4>5 DEF MemoryRowsTyped
    <3> QED
      BY <3>4, <3>5
  <2> QED
    BY <2>1, <2>2
<1> QED
  BY <1>2 DEF Memory!Admit, MemoryTyped, Memory!world, Memory!known

LEMMA MemoryEnforceTyped ==
  ASSUME MemorySensible, MemoryTyped, Memory!Enforce
  PROVE  MemoryTyped'
<1>1. PICK E \in SUBSET {o \in Memory!Residents : ~Memory!Pinned(o)} : Memory!Drop(E)
  BY DEF Memory!Enforce
<1>2. MemoryRowsTyped'
  BY <1>1, MemoryDropTyped DEF MemoryTyped
<1>3. memoryOp' \in MemoryRequests /\ memoryOp'.step = "idle"
  BY MemoryRestTyped DEF Memory!Enforce
<1> QED
  BY <1>2, <1>3 DEF Memory!Enforce, MemoryTyped, Memory!world, Memory!known

LEMMA MemoryPinTyped ==
  ASSUME MemorySensible, MemoryTyped, NEW o \in Paths, NEW pinned \in BOOLEAN, Memory!Pin(o, pinned)
  PROVE  MemoryTyped'
<1>1. o \in Memory!Residents /\ memoryRows[o].digest \in Texts
  BY DEF Memory!Pin, MemoryTyped, MemoryRowsTyped
<1>2. memoryRows' = [memoryRows EXCEPT ![o].pinned = pinned]
  BY DEF Memory!Pin
<1>3. memoryRows' \in [Paths -> [digest : Texts \cup {NoText}, pinned : BOOLEAN]]
  BY <1>2 DEF MemoryTyped, MemoryRowsTyped
<1>4. \A x \in Paths : memoryRows'[x].digest = memoryRows[x].digest
      /\ (x # o => memoryRows'[x] = memoryRows[x])
  BY <1>2 DEF MemoryTyped, MemoryRowsTyped
<1>5. MemoryRowsTyped'
  BY <1>1, <1>3, <1>4 DEF MemoryTyped, MemoryRowsTyped, Memory!Residents
<1>6. memoryOp' \in MemoryRequests /\ memoryOp'.step = "enforce"
  BY DEF Memory!Pin, Memory!Request, MemoryRequests, MemorySteps
<1> QED
  BY <1>5, <1>6, MemoryReconcileTyped DEF Memory!Pin, MemoryTyped, Memory!world

LEMMA MemoryConfigureTyped ==
  ASSUME MemorySensible, MemoryTyped, NEW most \in Capacities, Memory!Configure(most)
  PROVE  MemoryTyped'
<1>1. MemoryRowsTyped'
  BY MemoryRowsKept DEF Memory!Configure, MemoryTyped
<1>2. memoryOp' \in MemoryRequests /\ memoryOp'.step = "enforce"
  BY DEF Memory!Configure, Memory!Request, MemoryRequests, MemorySteps
<1> QED
  BY <1>1, <1>2, MemoryReconcileTyped DEF Memory!Configure, MemoryTyped, Memory!world

LEMMA MemoryTouchTyped ==
  ASSUME MemorySensible, MemoryTyped, NEW o \in Paths, Memory!Touch(o)
  PROVE  MemoryTyped'
<1>1. MemoryRowsTyped'
  BY MemoryRowsKept DEF Memory!Touch, MemoryTyped
<1> QED
  BY <1>1, MemoryReconcileTyped DEF Memory!Touch, MemoryTyped, Memory!world

LEMMA MemoryEvictTyped ==
  ASSUME MemorySensible, MemoryTyped, NEW named \in SUBSET Paths, NEW staleOnly \in BOOLEAN,
    Memory!Evict(named, staleOnly)
  PROVE  MemoryTyped'
<1>1. MemoryRowsTyped'
  BY MemoryDropTyped DEF Memory!Evict, MemoryTyped
<1> QED
  BY <1>1, MemoryReconcileTyped DEF Memory!Evict, MemoryTyped, Memory!world

LEMMA MemoryReadBeginTyped ==
  ASSUME MemorySensible, MemoryTyped, NEW step \in {"fetch", "packet", "materialize"},
    NEW left \in Seq(Paths),
         Memory!ReadBegin(step, left)
  PROVE  MemoryTyped'
<1>1. MemoryRowsTyped'
  BY MemoryRowsKept DEF Memory!ReadBegin, MemoryTyped, Memory!memory
<1>2. memoryIndex' \in MemoryMaps
  BY MemoryReconcileTyped DEF Memory!ReadBegin
<1>3. [o \in Paths |-> memoryRows[o].digest] \in MemoryMaps
  BY DEF MemoryTyped, MemoryRowsTyped, MemoryMaps
<1>4. PICK m \in MemoryMaps : memoryOp' = memoryOp \/ memoryOp' = Memory!Request(step, left, m, 0)
  BY <1>2, <1>3 DEF Memory!ReadBegin
<1>5. memoryOp' \in MemoryRequests /\ (memoryOp' = memoryOp
      \/ (memoryOp'.step = step /\ memoryOp'.map \in MemoryMaps))
  BY <1>4 DEF MemoryTyped, Memory!Request, MemoryRequests, MemorySteps
<1>6. memoryServed' = {}
  BY DEF Memory!ReadBegin
<1> QED
  BY <1>1, <1>2, <1>5, <1>6 DEF Memory!ReadBegin, MemoryTyped, Memory!world

LEMMA MemoryFetchPageTyped ==
  ASSUME MemorySensible, MemoryTyped, Memory!FetchPage
  PROVE  MemoryTyped'
<1>1. memoryOp.left \in Seq(Paths) /\ memoryOp.map \in MemoryMaps /\ memoryOp.left # <<>>
  BY MemoryOpFields DEF Memory!FetchPage, MemoryTyped
<1>2. memoryOp.left[1] \in Paths /\ Tail(memoryOp.left) \in Seq(Paths)
  BY <1>1, MemoryLeftFacts
<1>3. memoryOp' = Memory!Request("touch", memoryOp.left, memoryOp.map, 0)
      \/ memoryOp' = Memory!Request("fetch", Tail(memoryOp.left), memoryOp.map, 0)
  BY DEF Memory!FetchPage
<1>4. /\ memoryOp' \in MemoryRequests /\ memoryOp'.map \in MemoryMaps
      /\ memoryOp'.step = "touch" => memoryOp'.left # <<>>
  BY <1>1, <1>2, <1>3 DEF Memory!Request, MemoryRequests, MemorySteps
<1>5. Memory!Page(memoryOp.left[1]).object = memoryOp.left[1]
  BY DEF Memory!Page
<1>6. \A p \in memoryServed' : p.object \in Paths
  BY <1>2, <1>5 DEF Memory!FetchPage, MemoryTyped
<1>7. MemoryRowsTyped'
  BY MemoryRowsKept DEF Memory!FetchPage, MemoryTyped, Memory!memory
<1> QED
  BY <1>4, <1>6, <1>7 DEF Memory!FetchPage, MemoryTyped, Memory!world, Memory!known

LEMMA MemoryFetchTouchTyped ==
  ASSUME MemorySensible, MemoryTyped, Memory!FetchTouch
  PROVE  MemoryTyped'
<1>1. memoryOp.left \in Seq(Paths) /\ memoryOp.map \in MemoryMaps /\ memoryOp.left # <<>>
  BY MemoryOpFields DEF Memory!FetchTouch, MemoryTyped
<1>2. Tail(memoryOp.left) \in Seq(Paths)
  BY <1>1, MemoryLeftFacts
<1>3. memoryOp' \in MemoryRequests /\ memoryOp'.map \in MemoryMaps /\ memoryOp'.step = "fetch"
  BY <1>1, <1>2 DEF Memory!FetchTouch, Memory!Request, MemoryRequests, MemorySteps
<1>4. MemoryRowsTyped'
  BY MemoryRowsKept DEF Memory!FetchTouch, MemoryTyped
<1> QED
  BY <1>3, <1>4, MemoryReconcileTyped DEF Memory!FetchTouch, MemoryTyped, Memory!world

LEMMA MemoryObserveTyped ==
  ASSUME MemorySensible, MemoryTyped, Memory!Observe
  PROVE  MemoryTyped'
<1>1. [o \in Paths |-> IF o \in Memory!Shown THEN memoryIndex[o] ELSE NoText] \in MemoryMaps
  BY DEF MemoryTyped, MemoryMaps
<1>2. memoryOp' \in MemoryRequests /\ memoryOp'.step = "answer"
  BY <1>1 DEF Memory!Observe, Memory!Request, MemoryRequests, MemorySteps
<1>3. MemoryRowsTyped'
  BY MemoryRowsKept DEF Memory!Observe, MemoryTyped, Memory!memory
<1> QED
  BY <1>2, <1>3 DEF Memory!Observe, MemoryTyped, Memory!world, Memory!known

LEMMA MemoryAnswerTyped ==
  ASSUME MemorySensible, MemoryTyped, Memory!Answer
  PROVE  MemoryTyped'
<1>1. memoryOp' \in MemoryRequests /\ memoryOp'.step = "idle" /\ memoryServed' = {}
  BY MemoryRestTyped DEF Memory!Answer
<1>2. MemoryRowsTyped'
  BY MemoryRowsKept DEF Memory!Answer, MemoryTyped, Memory!memory
<1> QED
  BY <1>1, <1>2 DEF Memory!Answer, MemoryTyped, Memory!world, Memory!known

LEMMA MemoryMaterializeObjectTyped ==
  ASSUME MemorySensible, MemoryTyped, Memory!MaterializeObject
  PROVE  MemoryTyped'
<1>1. memoryOp.left \in Seq(Paths) /\ memoryOp.map \in MemoryMaps /\ memoryOp.left # <<>>
      /\ memoryOp.step \in {"packet", "materialize"}
  BY MemoryOpFields DEF Memory!MaterializeObject, MemoryTyped
<1>2. memoryOp.left[1] \in Paths /\ Tail(memoryOp.left) \in Seq(Paths)
  BY <1>1, MemoryLeftFacts
<1>3. /\ memoryOp' = Memory!Rest \/ memoryOp' = Memory!Request(memoryOp.step, Tail(memoryOp.left),
         memoryOp.map, 0)
      /\ memoryServed' = memoryServed \/ memoryServed' = {}
         \/ memoryServed' = memoryServed \cup {Memory!Page(memoryOp.left[1])}
  BY DEF Memory!MaterializeObject
<1>4. /\ memoryOp' \in MemoryRequests /\ memoryOp'.step \in {"idle", "packet", "materialize"}
      /\ memoryOp'.step # "idle" => memoryOp'.map \in MemoryMaps
  <2>1. CASE memoryOp' = Memory!Rest
    BY <2>1, MemoryRestTyped
  <2>2. CASE memoryOp' = Memory!Request(memoryOp.step, Tail(memoryOp.left), memoryOp.map, 0)
    BY <1>1, <1>2, <2>2 DEF Memory!Request, MemoryRequests, MemorySteps
  <2> QED
    BY <1>3, <2>1, <2>2
<1>5. Memory!Page(memoryOp.left[1]).object = memoryOp.left[1]
  BY DEF Memory!Page
<1>6. \A p \in memoryServed' : p.object \in Paths
  BY <1>2, <1>3, <1>5 DEF MemoryTyped
<1>7. MemoryRowsTyped'
  BY MemoryRowsKept DEF Memory!MaterializeObject, MemoryTyped, Memory!memory
<1> QED
  BY <1>4, <1>6, <1>7 DEF Memory!MaterializeObject, MemoryTyped, Memory!world, Memory!known

LEMMA MemoryMaterializeEndTyped ==
  ASSUME MemorySensible, MemoryTyped, Memory!MaterializeEnd
  PROVE  MemoryTyped'
<1>1. memoryOp' \in MemoryRequests /\ memoryOp'.step = "idle" /\ memoryServed' = {}
  BY MemoryRestTyped DEF Memory!MaterializeEnd
<1>2. MemoryRowsTyped'
  BY MemoryRowsKept DEF Memory!MaterializeEnd, MemoryTyped
<1> QED
  BY <1>1, <1>2 DEF Memory!MaterializeEnd, MemoryTyped, Memory!world, Memory!known

LEMMA MemoryInitial == MemorySensible /\ Memory!Init => MemoryInv
<1> SUFFICES ASSUME MemorySensible, Memory!Init PROVE MemoryInv
  OBVIOUS
<1>1. Memory!Residents = {}
  BY DEF Memory!Init, Memory!Residents
<1>2. MemoryRowsTyped
  BY <1>1 DEF Memory!Init, MemoryRowsTyped, Memory!NoRow
<1>3. memoryOp \in MemoryRequests /\ memoryOp.step = "idle" /\ memoryOp.left = <<>>
      /\ memoryOp.map = <<>> /\ memoryOp.pins = 0
  BY MemoryRestTyped DEF Memory!Init
<1>4. MemoryTyped
  BY <1>2, <1>3 DEF Memory!Init, MemoryTyped, Memory!NoSlice, MemoryMaps
<1>5. MemoryPagesStand
  BY <1>3 DEF Memory!Init, MemoryPagesStand, Memory!Fetching
<1>6. MemoryFitsUnlessPinned
  BY <1>1 DEF MemoryFitsUnlessPinned
<1> QED
  BY <1>4, <1>5, <1>6 DEF MemoryInv

(***************************************************************************)
(* Pages                                                                   *)
(***************************************************************************)
(* A file whose page is gathered is not saved while others are fetched.    *)
LEMMA MemoryEditPages ==
  ASSUME MemorySensible, MemoryTyped, MemoryPagesStand, NEW o \in Paths,
    NEW t \in Texts \cup {NoText}, Memory!Edit(o, t)
  PROVE  MemoryPagesStand'
<1>1. Memory!Fetching => \A p \in memoryServed : p.object # o
  BY DEF Memory!Edit, MemorySensible, Memory!Shown
<1>2. \A p \in memoryServed : p.object # o => memoryDisk'[p.object] = memoryDisk[p.object]
  BY DEF Memory!Edit, MemoryTyped, MemoryMaps
<1>3. memoryServed' = memoryServed /\ memoryOp' = memoryOp /\ memoryIndex' = memoryIndex
      /\ (Memory!Fetching' <=> Memory!Fetching)
  BY DEF Memory!Edit, Memory!known, Memory!Fetching
<1> QED
  BY <1>1, <1>2, <1>3 DEF MemoryPagesStand

(* The actions that neither read nor end a request.                        *)
LEMMA MemoryNoPages ==
  ASSUME memoryServed' = {}
  PROVE  MemoryPagesStand'
BY DEF MemoryPagesStand

LEMMA MemoryIdlePages ==
  ASSUME MemoryPagesStand, memoryServed' = memoryServed,
    memoryOp'.step \notin {"fetch", "touch", "answer"}
  PROVE  MemoryPagesStand'
BY DEF MemoryPagesStand, Memory!Fetching

(* What is read is what the index says, and the index is what was mapped.  *)
LEMMA MemoryGoodPage ==
  ASSUME MemoryTyped, NEW o \in Paths, Memory!Mapped(o), Memory!Readable(o)
  PROVE  /\ Memory!Page(o).object = o /\ Memory!Page(o).bytes = Memory!Page(o).digest
         /\ memoryIndex[o] = Memory!Page(o).bytes /\ memoryDisk[o] = Memory!Page(o).bytes
BY DEF Memory!Mapped, Memory!Readable, Memory!Page

LEMMA MemoryFetchPagePages ==
  ASSUME MemorySensible, MemoryTyped, MemoryPagesStand, Memory!FetchPage
  PROVE  MemoryPagesStand'
<1> DEFINE o == memoryOp.left[1]
<1>1. o \in Paths
  BY MemoryOpFields, MemoryLeftFacts DEF Memory!FetchPage
<1>2. memoryOp'.step \in {"fetch", "touch"} /\ Memory!Fetching
  BY DEF Memory!FetchPage, Memory!Request, Memory!Fetching
<1>3. memoryIndex' = memoryIndex /\ memoryDisk' = memoryDisk
  BY DEF Memory!FetchPage, Memory!world, Memory!known
<1>4. memoryServed' = memoryServed \/ (Memory!Mapped(o) /\ Memory!Readable(o)
      /\ memoryServed' = memoryServed \cup {Memory!Page(o)})
  BY DEF Memory!FetchPage
<1>5. \A p \in memoryServed : p.bytes = p.digest /\ memoryIndex[p.object] = p.bytes
      /\ memoryDisk[p.object] = p.bytes
  BY <1>2 DEF MemoryPagesStand
<1>6. \A p \in memoryServed' : p.bytes = p.digest /\ memoryIndex[p.object] = p.bytes
      /\ memoryDisk[p.object] = p.bytes
  <2> HIDE DEF o
  <2> QED
    BY <1>1, <1>4, <1>5, MemoryGoodPage
<1> QED
  BY <1>2, <1>3, <1>6 DEF MemoryPagesStand

LEMMA MemoryFetchTouchPages ==
  ASSUME MemorySensible, MemoryTyped, MemoryPagesStand, Memory!FetchTouch
  PROVE  MemoryPagesStand'
<1>1. memoryOp'.step = "fetch" /\ Memory!Fetching
  BY DEF Memory!FetchTouch, Memory!Request, Memory!Fetching
<1>2. memoryIndex' = memoryDisk /\ memoryDisk' = memoryDisk /\ memoryServed' = memoryServed
  BY DEF Memory!FetchTouch, Memory!Reconcile, Memory!world
<1> QED
  BY <1>1, <1>2 DEF MemoryPagesStand

LEMMA MemoryObservePages ==
  ASSUME MemorySensible, MemoryTyped, MemoryPagesStand, Memory!Observe
  PROVE  MemoryPagesStand'
<1>1. memoryOp'.step = "answer" /\ Memory!Fetching /\ memoryServed' = memoryServed
      /\ memoryOp'.map = [o \in Paths |-> IF o \in Memory!Shown THEN memoryIndex[o] ELSE NoText]
  BY DEF Memory!Observe, Memory!Request, Memory!Fetching
<1>2. \A p \in memoryServed : memoryOp'.map[p.object] = memoryIndex[p.object]
  BY <1>1 DEF Memory!Shown, MemoryTyped
<1> QED
  BY <1>1, <1>2 DEF MemoryPagesStand, Memory!Fetching

LEMMA MemoryMaterializeObjectPages ==
  ASSUME MemorySensible, MemoryTyped, MemoryPagesStand, Memory!MaterializeObject
  PROVE  MemoryPagesStand'
<1> DEFINE o == memoryOp.left[1]
<1>1. o \in Paths
  BY MemoryOpFields, MemoryLeftFacts DEF Memory!MaterializeObject
<1>2. memoryOp'.step \in {"idle", "packet", "materialize"}
  BY DEF Memory!MaterializeObject, Memory!Request, Memory!Rest
<1>3. \/ memoryServed' = memoryServed \/ memoryServed' = {}
      \/ Memory!Mapped(o) /\ Memory!Readable(o)
         /\ memoryServed' = memoryServed \cup {Memory!Page(o)}
  BY DEF Memory!MaterializeObject
<1>4. \A p \in memoryServed' : p.bytes = p.digest
  <2> HIDE DEF o
  <2> QED
    BY <1>1, <1>3, MemoryGoodPage DEF MemoryPagesStand
<1> QED
  BY <1>2, <1>4 DEF MemoryPagesStand, Memory!Fetching

(***************************************************************************)
(* Capacity                                                                *)
(***************************************************************************)
(* A request that leaves the residents and the capacity as they are leaves *)
(* what was said of them.                                                  *)
LEMMA MemorySameResidents ==
  ASSUME MemoryFitsUnlessPinned, memoryRows' = memoryRows, memoryCapacity' = memoryCapacity,
    memoryCut => memoryCut',
         memoryOp.step \in {"admit", "enforce"} => memoryOp'.step \in {"admit", "enforce"}
           \/ memoryCut'
  PROVE  MemoryFitsUnlessPinned'
<1>1. Memory!Residents' = Memory!Residents /\ (Memory!Fits(Memory!Residents)'
      <=> Memory!Fits(Memory!Residents))
      /\ \A o \in Memory!Residents : Memory!Pinned(o)' <=> Memory!Pinned(o)
  BY DEF Memory!Residents, Memory!Fits, Memory!Bytes, Memory!Pinned
<1> QED
  BY <1>1 DEF MemoryFitsUnlessPinned

(* Once the residents that may go are gone, what is left fits or is pinned.*)
LEMMA MemoryEnforceFits ==
  ASSUME MemorySensible, MemoryTyped, Memory!Enforce
  PROVE  MemoryFitsUnlessPinned'
<1> DEFINE loose == {o \in Memory!Residents : ~Memory!Pinned(o)}
<1>1. PICK E \in SUBSET loose : Memory!Drop(E) /\ (Memory!Fits(Memory!Residents \ E) \/ E = loose)
  BY DEF Memory!Enforce
<1>2. /\ Memory!Residents' = Memory!Residents \ E
      /\ \A o \in Memory!Residents \ E : memoryRows'[o] = memoryRows[o]
  BY <1>1, MemoryDropTyped DEF MemoryTyped
<1>3. CASE Memory!Fits(Memory!Residents \ E)
  <2>1. memoryCapacity' = memoryCapacity
    BY DEF Memory!Enforce
  <2>2. Memory!Fits(Memory!Residents)' <=> Memory!Fits(Memory!Residents \ E)
    BY <1>2, <2>1 DEF Memory!Fits, Memory!Bytes
  <2> QED
    BY <1>3, <2>2 DEF MemoryFitsUnlessPinned
<1>4. CASE E = loose
  <2>1. \A o \in Memory!Residents' : Memory!Pinned(o)'
    BY <1>2, <1>4 DEF Memory!Pinned
  <2> QED
    BY <2>1 DEF MemoryFitsUnlessPinned
<1> QED
  BY <1>1, <1>3, <1>4

LEMMA MemoryEvictFits ==
  ASSUME MemorySensible, MemoryTyped, MemoryFitsUnlessPinned, NEW named \in SUBSET Paths,
    NEW staleOnly \in BOOLEAN,
         memoryCapacity \in Nat, MaxPageBytes \in Nat, Memory!Evict(named, staleOnly)
  PROVE  MemoryFitsUnlessPinned'
<1>1. PICK R \in SUBSET {o \in Memory!Residents : ~Memory!Pinned(o)} : Memory!Drop(R)
  BY DEF Memory!Evict
<1>2. /\ Memory!Residents' = Memory!Residents \ R
      /\ \A o \in Memory!Residents \ R : memoryRows'[o] = memoryRows[o]
  BY <1>1, MemoryDropTyped DEF MemoryTyped
<1>3. memoryOp' = memoryOp /\ memoryCut' = memoryCut /\ memoryCapacity' = memoryCapacity
  BY DEF Memory!Evict
<1>4. Memory!Fits(Memory!Residents)' <=> Memory!Fits(Memory!Residents \ R)
  BY <1>2, <1>3 DEF Memory!Fits, Memory!Bytes
<1>5. CASE Memory!Fits(Memory!Residents)
  <2>1. Memory!Fits(Memory!Residents \ R)
    BY <1>5, MemoryFewerFit DEF MemoryTyped
  <2> QED
    BY <1>4, <2>1 DEF MemoryFitsUnlessPinned
<1>6. CASE ~Memory!Fits(Memory!Residents)
  <2>1. memoryOp'.step \notin {"admit", "enforce"} /\ ~memoryCut'
        => \A o \in Memory!Residents : Memory!Pinned(o)
    BY <1>3, <1>6 DEF MemoryFitsUnlessPinned
  <2>2. \A o \in Memory!Residents' : Memory!Pinned(o)' <=> Memory!Pinned(o)
    BY <1>2 DEF Memory!Pinned
  <2> QED
    BY <1>2, <2>1, <2>2 DEF MemoryFitsUnlessPinned
<1> QED
  BY <1>5, <1>6

(***************************************************************************)
(* Every step                                                              *)
(***************************************************************************)
MemoryBounded == Capacities \subseteq Nat /\ MaxPageBytes \in Nat

MemoryCapacityTyped == memoryCapacity \in Nat

LEMMA MemoryCapacityStays ==
  ASSUME MemoryBounded
  PROVE  /\ Memory!Init => MemoryCapacityTyped
         /\ MemoryCapacityTyped /\ [Memory!Next]_Memory!vars => MemoryCapacityTyped'
<1>1. Memory!Init => MemoryCapacityTyped
  BY DEF MemoryBounded, Memory!Init, MemoryCapacityTyped
<1>2. ASSUME MemoryCapacityTyped, [Memory!Next]_Memory!vars
      PROVE  memoryCapacity' = memoryCapacity \/ \E most \in Capacities : memoryCapacity' = most
  BY <1>2 DEF Memory!Next, Memory!vars, Memory!memory, Memory!Edit, Memory!Crash, Memory!Compile,
    Memory!AdmitBegin, Memory!Admit, Memory!Enforce, Memory!Pin, Memory!Configure, Memory!Touch,
              Memory!Evict, Memory!FetchBegin, Memory!FetchPage, Memory!FetchTouch, Memory!Observe,
                Memory!Answer, Memory!PacketBegin, Memory!MaterializeBegin,
              Memory!MaterializeObject, Memory!MaterializeEnd, Memory!ReadBegin
<1> QED
  BY <1>1, <1>2 DEF MemoryBounded, MemoryCapacityTyped

LEMMA MemoryReadBeginHolds ==
  ASSUME MemorySensible, MemoryInv, NEW step \in {"fetch", "packet", "materialize"},
    NEW left \in Seq(Paths),
         Memory!ReadBegin(step, left)
  PROVE  MemoryInv'
<1>1. memoryServed' = {}
  BY DEF Memory!ReadBegin
<1>2. memoryOp.step = "idle" /\ memoryRows' = memoryRows /\ memoryCapacity' = memoryCapacity
      /\ memoryCut' = memoryCut
  BY DEF Memory!ReadBegin, Memory!Idle, Memory!memory
<1> QED
  BY <1>1, <1>2, MemoryReadBeginTyped, MemoryNoPages, MemorySameResidents DEF MemoryInv

LEMMA MemoryInductive ==
  ASSUME MemorySensible, MemoryCapacityTyped, MemoryBounded, MemoryInv, [Memory!Next]_Memory!vars
  PROVE  MemoryInv'
<1> USE DEF MemoryInv
<1>1. ASSUME NEW o \in Paths, NEW t \in Texts \cup {NoText}, Memory!Edit(o, t)
      PROVE  MemoryInv'
  <2>1. MemoryFitsUnlessPinned'
    BY <1>1, MemorySameResidents DEF Memory!Edit, Memory!memory
  <2> QED
    BY <1>1, <2>1, MemoryEditTyped, MemoryEditPages
<1>2. CASE Memory!Crash
  <2>1. MemoryFitsUnlessPinned'
    BY <1>2, MemorySameResidents DEF Memory!Crash
  <2> QED
    BY <1>2, <2>1, MemoryCrashTyped, MemoryNoPages DEF Memory!Crash
<1>3. ASSUME NEW ranked \in Memory!Rankings, Memory!Compile(ranked)
      PROVE  MemoryInv'
  <2>1. MemoryFitsUnlessPinned'
    BY <1>3, MemorySameResidents DEF Memory!Compile, Memory!memory
  <2>2. MemoryPagesStand'
    BY <1>3, MemoryIdlePages DEF Memory!Compile, Memory!Idle
  <2> QED
    BY <1>3, <2>1, <2>2, MemoryCompileTyped
<1>4. ASSUME NEW pins \in 0..1, NEW most \in 1..Len(memorySlice.ranked),
      Memory!AdmitBegin(pins, most)
      PROVE  MemoryInv'
  <2>1. memoryOp' = memoryOp \/ memoryOp'.step = "admit"
    BY <1>4 DEF Memory!AdmitBegin, Memory!Request
  <2>2. memoryOp.step = "idle" /\ memoryServed' = memoryServed /\ memoryRows' = memoryRows
        /\ memoryCapacity' = memoryCapacity /\ memoryCut' = memoryCut
    BY <1>4 DEF Memory!AdmitBegin, Memory!Idle, Memory!memory
  <2>3. MemoryFitsUnlessPinned'
    BY <2>1, <2>2, MemorySameResidents
  <2>4. MemoryPagesStand'
    BY <2>1, <2>2, MemoryIdlePages
  <2> QED
    BY <1>4, <2>3, <2>4, MemoryAdmitBeginTyped
<1>5. CASE Memory!Admit
  <2>1. memoryOp'.step \in {"admit", "enforce"}
    BY <1>5 DEF Memory!Admit, Memory!Request
  <2>2. MemoryFitsUnlessPinned'
    BY <2>1 DEF MemoryFitsUnlessPinned
  <2>3. MemoryPagesStand'
    BY <1>5, <2>1, MemoryIdlePages DEF Memory!Admit
  <2> QED
    BY <1>5, <2>2, <2>3, MemoryAdmitTyped
<1>6. CASE Memory!Enforce
  <2>1. memoryOp'.step = "idle" /\ memoryServed' = memoryServed
    BY <1>6, MemoryRestTyped DEF Memory!Enforce
  <2>2. MemoryPagesStand'
    BY <2>1, MemoryIdlePages
  <2> QED
    BY <1>6, <2>2, MemoryEnforceTyped, MemoryEnforceFits
<1>7. ASSUME NEW o \in Paths, NEW pinned \in BOOLEAN, Memory!Pin(o, pinned)
      PROVE  MemoryInv'
  <2>1. memoryOp'.step = "enforce" /\ memoryServed' = memoryServed
    BY <1>7 DEF Memory!Pin, Memory!Request
  <2>2. MemoryFitsUnlessPinned' /\ MemoryPagesStand'
    BY <2>1, MemoryIdlePages DEF MemoryFitsUnlessPinned
  <2> QED
    BY <1>7, <2>2, MemoryPinTyped
<1>8. ASSUME NEW most \in Capacities, Memory!Configure(most)
      PROVE  MemoryInv'
  <2>1. memoryOp'.step = "enforce" /\ memoryServed' = memoryServed
    BY <1>8 DEF Memory!Configure, Memory!Request
  <2>2. MemoryFitsUnlessPinned' /\ MemoryPagesStand'
    BY <2>1, MemoryIdlePages DEF MemoryFitsUnlessPinned
  <2> QED
    BY <1>8, <2>2, MemoryConfigureTyped
<1>9. ASSUME NEW o \in Paths, Memory!Touch(o)
      PROVE  MemoryInv'
  <2>1. MemoryFitsUnlessPinned'
    BY <1>9, MemorySameResidents DEF Memory!Touch
  <2>2. MemoryPagesStand'
    BY <1>9, MemoryIdlePages DEF Memory!Touch, Memory!Idle
  <2> QED
    BY <1>9, <2>1, <2>2, MemoryTouchTyped
<1>10. ASSUME NEW named \in SUBSET Paths, NEW staleOnly \in BOOLEAN, Memory!Evict(named, staleOnly)
       PROVE  MemoryInv'
  <2>1. MemoryPagesStand'
    BY <1>10, MemoryIdlePages DEF Memory!Evict, Memory!Idle
  <2> QED
    BY <1>10, <2>1, MemoryEvictTyped, MemoryEvictFits DEF MemoryCapacityTyped, MemoryBounded
<1>11. ASSUME NEW asked \in Memory!Rankings, Memory!FetchBegin(asked)
       PROVE  MemoryInv'
  BY <1>11, MemoryRankingsAreSequences, MemoryReadBeginHolds DEF Memory!FetchBegin
<1>12. CASE Memory!FetchPage
  <2>1. MemoryFitsUnlessPinned'
    BY <1>12, MemorySameResidents DEF Memory!FetchPage, Memory!memory
  <2> QED
    BY <1>12, <2>1, MemoryFetchPageTyped, MemoryFetchPagePages
<1>13. CASE Memory!FetchTouch
  <2>1. MemoryFitsUnlessPinned'
    BY <1>13, MemorySameResidents DEF Memory!FetchTouch
  <2> QED
    BY <1>13, <2>1, MemoryFetchTouchTyped, MemoryFetchTouchPages
<1>14. CASE Memory!Observe
  <2>1. MemoryFitsUnlessPinned'
    BY <1>14, MemorySameResidents DEF Memory!Observe, Memory!memory
  <2> QED
    BY <1>14, <2>1, MemoryObserveTyped, MemoryObservePages
<1>15. CASE Memory!Answer
  <2>1. MemoryFitsUnlessPinned'
    BY <1>15, MemorySameResidents DEF Memory!Answer, Memory!memory
  <2> QED
    BY <1>15, <2>1, MemoryAnswerTyped, MemoryNoPages DEF Memory!Answer
<1>16. CASE Memory!PacketBegin
  BY <1>16, MemoryReadBeginHolds DEF Memory!PacketBegin, MemoryTyped
<1>17. ASSUME NEW order \in Memory!Rankings, Memory!MaterializeBegin(order)
       PROVE  MemoryInv'
  BY <1>17, MemoryRankingsAreSequences, MemoryReadBeginHolds DEF Memory!MaterializeBegin
<1>18. CASE Memory!MaterializeObject
  <2>1. MemoryFitsUnlessPinned'
    BY <1>18, MemorySameResidents DEF Memory!MaterializeObject, Memory!memory
  <2> QED
    BY <1>18, <2>1, MemoryMaterializeObjectTyped, MemoryMaterializeObjectPages
<1>19. CASE Memory!MaterializeEnd
  <2>1. MemoryFitsUnlessPinned'
    BY <1>19, MemorySameResidents DEF Memory!MaterializeEnd
  <2> QED
    BY <1>19, <2>1, MemoryMaterializeEndTyped, MemoryNoPages DEF Memory!MaterializeEnd
<1>20. CASE UNCHANGED Memory!vars
  <2>1. /\ memoryDisk' = memoryDisk /\ memoryIndex' = memoryIndex /\ memorySlice' = memorySlice
        /\ memoryRows' = memoryRows /\ memoryOp' = memoryOp /\ memoryServed' = memoryServed
        /\ memoryCapacity' = memoryCapacity /\ memoryCut' = memoryCut
    BY <1>20 DEF Memory!vars, Memory!world, Memory!known, Memory!memory
  <2>2. MemoryFitsUnlessPinned'
    BY <2>1, MemorySameResidents
  <2>3. MemoryTyped'
    BY <2>1, MemoryRowsKept DEF MemoryTyped
  <2>4. MemoryPagesStand'
    BY <2>1 DEF MemoryPagesStand, Memory!Fetching
  <2> QED
    BY <2>2, <2>3, <2>4
<1> QED
  BY <1>1, <1>2, <1>3, <1>4, <1>5, <1>6, <1>7, <1>8, <1>9, <1>10, <1>11, <1>12, <1>13, <1>14, <1>15,
    <1>16,
     <1>17, <1>18, <1>19, <1>20 DEF Memory!Next

(* What an agent reads is what it was shown to be, and only pins exceed    *)
(* the capacity, for any objects, texts, sizes and capacities.             *)
THEOREM MemoryAttentionIsKept ==
  ASSUME MemorySensible, MemoryBounded
  PROVE  Memory!Spec => [](Memory!PagesAreAsMapped /\ Memory!OvercommitOnlyByPins)
<1>1. Memory!Init => MemoryInv /\ MemoryCapacityTyped
  BY MemoryInitial, MemoryCapacityStays
<1>2. MemoryInv /\ MemoryCapacityTyped /\ [Memory!Next]_Memory!vars => MemoryInv'
      /\ MemoryCapacityTyped'
  BY MemoryInductive, MemoryCapacityStays
<1>3. MemoryInv => Memory!PagesAreAsMapped /\ Memory!OvercommitOnlyByPins
  BY DEF MemoryInv, MemoryPagesStand, Memory!PagesAreAsMapped, MemoryFitsUnlessPinned,
    Memory!OvercommitOnlyByPins, Memory!Idle
<1> QED
  BY <1>1, <1>2, <1>3, PTL DEF Memory!Spec


-----------------------------------------------------------------------------
(***************************************************************************)
(* The order of the residents: any two of them have been touched one       *)
(* before the other.                                                       *)
(***************************************************************************)
MemoryOrdered(R, order) ==
  /\ \A a, b \in Paths : <<a, b>> \in order <=> a # b /\ {a, b} \subseteq R /\ <<b, a>> \notin order
  /\ \A a, b, c \in Paths : {<<a, b>>, <<b, c>>} \subseteq order => <<a, c>> \in order

MemoryRecencyInv ==
  /\ MemoryOrdered(Memory!Residents, memoryRecency)
  /\ memoryOp.step = "touch" => memoryOp.left[1] \in Memory!Residents

MemorySliceTyped ==
  /\ memoryHead \in Nat /\ memorySlice.revision \in -1..memoryHead
  /\ memorySlice.ranked \in Memory!Rankings \cup {<<>>}
  /\ memoryCapacity \in Capacities /\ memoryCut \in BOOLEAN

LEMMA MemoryUntouchedPairs ==
  ASSUME NEW D, NEW a, NEW b
  PROVE  <<a, b>> \in Memory!Untouched(D) <=> <<a, b>> \in memoryRecency /\ a \notin D /\ b \notin D
BY DEF Memory!Untouched

LEMMA MemoryFewerAreOrdered ==
  ASSUME MemoryOrdered(Memory!Residents, memoryRecency), NEW D
  PROVE  MemoryOrdered(Memory!Residents \ D, Memory!Untouched(D))
<1>1. ASSUME NEW a \in Paths, NEW b \in Paths
      PROVE  <<a, b>> \in Memory!Untouched(D) <=>
               a # b /\ {a, b} \subseteq Memory!Residents \ D /\ <<b, a>> \notin Memory!Untouched(D)
  <2>1. <<a, b>> \in memoryRecency <=> a # b /\ {a, b} \subseteq Memory!Residents
        /\ <<b, a>> \notin memoryRecency
    BY DEF MemoryOrdered
  <2> QED
    BY <2>1, MemoryUntouchedPairs
<1>2. ASSUME NEW a \in Paths, NEW b \in Paths, NEW c \in Paths,
             <<a, b>> \in Memory!Untouched(D), <<b, c>> \in Memory!Untouched(D)
      PROVE  <<a, c>> \in Memory!Untouched(D)
  <2>1. <<a, b>> \in memoryRecency /\ <<b, c>> \in memoryRecency /\ a \notin D /\ c \notin D
    BY <1>2, MemoryUntouchedPairs
  <2>2. <<a, c>> \in memoryRecency
    BY <2>1 DEF MemoryOrdered
  <2> QED
    BY <2>1, <2>2, MemoryUntouchedPairs
<1> QED
  BY <1>1, <1>2 DEF MemoryOrdered

(* What comes after all the rest, in an order of its own.                  *)
LEMMA MemoryOneAfterTheOther ==
  ASSUME NEW Q, NEW T, NEW q, NEW t, Q \cap T = {}, MemoryOrdered(Q, q), MemoryOrdered(T, t)
  PROVE  MemoryOrdered(Q \cup T, q \cup (Q \X T) \cup t)
<1> DEFINE o == q \cup (Q \X T) \cup t
<1>1. \A a, b \in Paths : <<a, b>> \in q => a \in Q /\ b \in Q
  BY DEF MemoryOrdered
<1>2. \A a, b \in Paths : <<a, b>> \in t => a \in T /\ b \in T
  BY DEF MemoryOrdered
<1>3. \A a, b \in Paths : <<a, b>> \in o <=> <<a, b>> \in q \/ (a \in Q /\ b \in T)
      \/ <<a, b>> \in t
  OBVIOUS
<1> HIDE DEF o
<1>4. ASSUME NEW a \in Paths, NEW b \in Paths
      PROVE  <<a, b>> \in o <=> a # b /\ {a, b} \subseteq Q \cup T /\ <<b, a>> \notin o
  <2>1. <<a, b>> \in q <=> a # b /\ a \in Q /\ b \in Q /\ <<b, a>> \notin q
    BY DEF MemoryOrdered
  <2>2. <<a, b>> \in t <=> a # b /\ a \in T /\ b \in T /\ <<b, a>> \notin t
    BY DEF MemoryOrdered
  <2>3. \A x : ~(x \in Q /\ x \in T)
    OBVIOUS
  <2>4. <<b, a>> \in q => b \in Q /\ a \in Q
    BY <1>1
  <2>5. <<b, a>> \in t => b \in T /\ a \in T
    BY <1>2
  <2>6. <<a, b>> \in o <=> <<a, b>> \in q \/ (a \in Q /\ b \in T) \/ <<a, b>> \in t
    BY <1>3
  <2>7. <<b, a>> \in o <=> <<b, a>> \in q \/ (b \in Q /\ a \in T) \/ <<b, a>> \in t
    BY <1>3
  <2> QED
    BY <2>1, <2>2, <2>3, <2>4, <2>5, <2>6, <2>7
<1>5. ASSUME NEW a \in Paths, NEW b \in Paths, NEW c \in Paths, <<a, b>> \in o, <<b, c>> \in o
      PROVE  <<a, c>> \in o
  <2>1. \A x : ~(x \in Q /\ x \in T)
    OBVIOUS
  <2>2. <<a, b>> \in q /\ <<b, c>> \in q => <<a, c>> \in q
    BY DEF MemoryOrdered
  <2>3. <<a, b>> \in t /\ <<b, c>> \in t => <<a, c>> \in t
    BY DEF MemoryOrdered
  <2>4. <<a, b>> \in q \/ (a \in Q /\ b \in T) \/ <<a, b>> \in t
    BY <1>3, <1>5
  <2>5. <<b, c>> \in q \/ (b \in Q /\ c \in T) \/ <<b, c>> \in t
    BY <1>3, <1>5
  <2>6. /\ <<a, b>> \in q => a \in Q /\ b \in Q
        /\ <<b, c>> \in q => b \in Q /\ c \in Q
        /\ <<a, b>> \in t => a \in T /\ b \in T
        /\ <<b, c>> \in t => b \in T /\ c \in T
    BY <1>1, <1>2
  <2>7. <<a, c>> \in q \/ (a \in Q /\ c \in T) \/ <<a, c>> \in t
    BY <2>1, <2>2, <2>3, <2>4, <2>5, <2>6
  <2> QED
    BY <1>3, <2>7
<1> QED
  BY <1>4, <1>5 DEF MemoryOrdered, o

LEMMA MemoryNewestIsLast ==
  ASSUME MemoryOrdered(Memory!Residents, memoryRecency), NEW x \in Paths
  PROVE  MemoryOrdered(Memory!Residents \cup {x}, Memory!Newest(x))
<1> DEFINE Q == Memory!Residents \ {x}
           q == Memory!Untouched({x})
<1>1. MemoryOrdered(Q, q)
  BY MemoryFewerAreOrdered
<1>2. MemoryOrdered({x}, {})
  BY DEF MemoryOrdered
<1>3. Memory!Newest(x) = q \cup (Q \X {x}) \cup {}
  BY DEF Memory!Newest
<1>4. Q \cup {x} = Memory!Residents \cup {x} /\ Q \cap {x} = {}
  OBVIOUS
<1> HIDE DEF Q, q
<1>5. MemoryOrdered(Q \cup {x}, q \cup (Q \X {x}) \cup {})
  BY <1>1, <1>2, <1>4, MemoryOneAfterTheOther
<1> QED
  BY <1>3, <1>4, <1>5, Zenon

(* The residents of a packet, pinned ones first.                           *)
LEMMA MemoryPrecedesIsAnOrder ==
  ASSUME MemoryRowsTyped, MemoryOrdered(Memory!Residents, memoryRecency), NEW T,
    T \subseteq Memory!Residents
  PROVE  MemoryOrdered(T, {e \in T \X T : Memory!Precedes(e[1], e[2])})
<1> DEFINE order == {e \in T \X T : Memory!Precedes(e[1], e[2])}
<1>1. \A a, b : <<a, b>> \in order <=> a \in T /\ b \in T /\ Memory!Precedes(a, b)
  OBVIOUS
<1> HIDE DEF order
<1>2. T \subseteq Paths
  BY DEF Memory!Residents
<1>3. \A a \in T : Memory!Pinned(a) \in BOOLEAN
  BY <1>2 DEF MemoryRowsTyped, Memory!Pinned
<1>4. \A a, b \in T : /\ Memory!Pinned(a) <=> Memory!Pinned(b) => (Memory!Precedes(a, b) <=> <<b, a>> \in memoryRecency)
                      /\ ~(Memory!Pinned(a) <=> Memory!Pinned(b))
                         => (Memory!Precedes(a, b) <=> Memory!Pinned(a))
  <2> SUFFICES ASSUME NEW a \in T, NEW b \in T
               PROVE  /\ Memory!Pinned(a) <=> Memory!Pinned(b) => (Memory!Precedes(a, b) <=> <<b, a>> \in memoryRecency)
                      /\ ~(Memory!Pinned(a) <=> Memory!Pinned(b))
                         => (Memory!Precedes(a, b) <=> Memory!Pinned(a))
    OBVIOUS
  <2>1. (Memory!Pinned(a) = Memory!Pinned(b)) <=> (Memory!Pinned(a) <=> Memory!Pinned(b))
    BY <1>3
  <2> QED
    BY <2>1 DEF Memory!Precedes
<1>5. ASSUME NEW a \in Paths, NEW b \in Paths
      PROVE  <<a, b>> \in order <=> a # b /\ {a, b} \subseteq T /\ <<b, a>> \notin order
  <2>1. <<a, b>> \in memoryRecency <=> a # b /\ {a, b} \subseteq Memory!Residents
        /\ <<b, a>> \notin memoryRecency
    BY DEF MemoryOrdered
  <2>2. CASE a \in T /\ b \in T
    <3>1. {a, b} \subseteq Memory!Residents
      BY <2>2
    <3>2. Memory!Precedes(a, b) <=> a # b /\ ~Memory!Precedes(b, a)
      BY <1>3, <1>4, <2>1, <2>2, <3>1
    <3> QED
      BY <1>1, <2>2, <3>2
  <2> QED
    BY <1>1, <2>2
<1>6. ASSUME NEW a \in Paths, NEW b \in Paths, NEW c \in Paths, <<a, b>> \in order,
      <<b, c>> \in order
      PROVE  <<a, c>> \in order
  <2>1. a \in T /\ b \in T /\ c \in T /\ Memory!Precedes(a, b) /\ Memory!Precedes(b, c)
    BY <1>1, <1>6
  <2>2. <<c, b>> \in memoryRecency /\ <<b, a>> \in memoryRecency => <<c, a>> \in memoryRecency
    BY DEF MemoryOrdered
  <2>3. Memory!Precedes(a, c)
    BY <1>3, <1>4, <2>1, <2>2
  <2> QED
    BY <1>1, <2>1, <2>3
<1> QED
  BY <1>5, <1>6 DEF MemoryOrdered, order

LEMMA MemorySameOrder ==
  ASSUME MemoryRecencyInv, MemoryTyped, UNCHANGED <<memoryRows, memoryRecency>>,
    memoryOp'.step # "touch"
  PROVE  MemoryRecencyInv'
<1>1. Memory!Residents' = Memory!Residents
  BY MemoryRowsKept DEF MemoryTyped
<1> QED
  BY <1>1 DEF MemoryRecencyInv, MemoryOrdered

LEMMA MemoryTouchOrders ==
  ASSUME MemoryRecencyInv, MemoryTyped, NEW x \in Memory!Residents,
    memoryRecency' = Memory!Newest(x), memoryRows' = memoryRows, memoryOp'.step # "touch"
  PROVE  MemoryRecencyInv'
<1>1. Memory!Residents' = Memory!Residents
  BY MemoryRowsKept DEF MemoryTyped
<1>2. x \in Paths /\ Memory!Residents \cup {x} = Memory!Residents
  BY DEF Memory!Residents
<1>3. MemoryOrdered(Memory!Residents, Memory!Newest(x))
  BY <1>2, MemoryNewestIsLast DEF MemoryRecencyInv
<1> QED
  BY <1>1, <1>3 DEF MemoryRecencyInv, MemoryOrdered

LEMMA MemoryDropOrders ==
  ASSUME MemorySensible, MemoryRecencyInv, MemoryTyped, NEW D, Memory!Drop(D),
    memoryOp'.step # "touch"
  PROVE  MemoryRecencyInv'
<1>1. Memory!Residents' = Memory!Residents \ D
  BY MemoryDropTyped DEF MemoryTyped
<1>2. memoryRecency' = Memory!Untouched(D)
  BY DEF Memory!Drop
<1>3. MemoryOrdered(Memory!Residents \ D, Memory!Untouched(D))
  BY MemoryFewerAreOrdered DEF MemoryRecencyInv
<1> QED
  BY <1>1, <1>2, <1>3 DEF MemoryRecencyInv, MemoryOrdered

LEMMA MemoryAdmitOrders ==
  ASSUME MemorySensible, MemoryRecencyInv, MemoryTyped, Memory!Admit
  PROVE  MemoryRecencyInv'
<1> DEFINE x == memoryOp.left[1]
<1>1. memoryOp'.step # "touch"
  BY DEF Memory!Admit, Memory!Request
<1>2. CASE UNCHANGED <<memoryRows, memoryRecency>>
  BY <1>1, <1>2, MemorySameOrder
<1>3. CASE ~UNCHANGED <<memoryRows, memoryRecency>>
  <2>1. /\ memoryOp.left # <<>> /\ memoryIndex[x] # NoText
        /\ memoryRows' = [memoryRows EXCEPT ![x] = [digest |-> memoryIndex[x],
           pinned |-> Memory!Pinned(x) \/ memoryOp.pins > 0]]
        /\ memoryRecency' = Memory!Newest(x)
    BY <1>3 DEF Memory!Admit
  <2>2. x \in Paths /\ memoryIndex[x] \in Texts
    BY <2>1, MemoryOpFields, MemoryLeftFacts DEF MemoryTyped, MemoryMaps
  <2> DEFINE row == [digest |-> memoryIndex[x], pinned |-> Memory!Pinned(x) \/ memoryOp.pins > 0]
  <2>3. row # Memory!NoRow
    <3>1. row.digest = memoryIndex[x]
      OBVIOUS
    <3> HIDE DEF row
    <3> QED
      BY <2>2, <3>1, MemoryNoTextIsNoRow
  <2>4. memoryRows' = [memoryRows EXCEPT ![x] = row]
    BY <2>1
  <2> HIDE DEF row, x
  <2>5. \A o \in Paths : memoryRows'[o] = IF o = x THEN row ELSE memoryRows[o]
    BY <2>4 DEF MemoryTyped, MemoryRowsTyped
  <2>6. Memory!Residents' = Memory!Residents \cup {x}
    BY <2>2, <2>3, <2>5 DEF Memory!Residents
  <2>7. MemoryOrdered(Memory!Residents \cup {x}, Memory!Newest(x))
    BY <2>2, MemoryNewestIsLast DEF MemoryRecencyInv
  <2> QED
    BY <1>1, <2>1, <2>6, <2>7 DEF MemoryRecencyInv, MemoryOrdered, x
<1> QED
  BY <1>2, <1>3

LEMMA MemoryPinOrders ==
  ASSUME MemorySensible, MemoryRecencyInv, MemoryTyped, NEW o \in Paths, NEW pinned \in BOOLEAN,
    Memory!Pin(o, pinned)
  PROVE  MemoryRecencyInv'
<1>1. o \in Memory!Residents /\ memoryRows' = [memoryRows EXCEPT ![o].pinned = pinned]
  BY DEF Memory!Pin
<1>2. \A x \in Paths : memoryRows'[x].digest = memoryRows[x].digest
      /\ (x # o => memoryRows'[x] = memoryRows[x])
  BY <1>1 DEF MemoryTyped, MemoryRowsTyped
<1>3. memoryRows'[o] # Memory!NoRow
  <2>1. memoryRows'[o].digest \in Texts
    BY <1>1, <1>2 DEF MemoryTyped, MemoryRowsTyped
  <2> QED
    BY <2>1, MemoryNoTextIsNoRow
<1>4. Memory!Residents' = Memory!Residents
  BY <1>1, <1>2, <1>3 DEF Memory!Residents
<1>5. memoryRecency' = memoryRecency /\ memoryOp'.step = "enforce"
  BY DEF Memory!Pin, Memory!Request
<1> QED
  BY <1>4, <1>5 DEF MemoryRecencyInv, MemoryOrdered

LEMMA MemoryMaterializeEndOrders ==
  ASSUME MemorySensible, MemoryRecencyInv, MemoryTyped, Memory!MaterializeEnd
  PROVE  MemoryRecencyInv'
<1> DEFINE T == IF memoryOp.step = "materialize" THEN Memory!Residents \cap Memory!Shown ELSE {}
           order == {e \in T \X T : Memory!Precedes(e[1], e[2])}
           q == Memory!Untouched(T)
           Q == Memory!Residents \ T
<1>1. memoryRecency' = q \cup (Q \X T) \cup order /\ memoryRows' = memoryRows
      /\ memoryOp'.step = "idle"
  BY MemoryRestTyped DEF Memory!MaterializeEnd
<1>2. T \subseteq Memory!Residents
  OBVIOUS
<1> HIDE DEF T
<1>3. MemoryOrdered(Q, q)
  BY MemoryFewerAreOrdered DEF MemoryRecencyInv
<1>4. MemoryOrdered(T, order)
  BY <1>2, MemoryPrecedesIsAnOrder DEF MemoryRecencyInv, MemoryTyped
<1>5. Q \cap T = {} /\ Q \cup T = Memory!Residents
  BY <1>2
<1> HIDE DEF Q, q, order
<1>6. MemoryOrdered(Q \cup T, q \cup (Q \X T) \cup order)
  BY <1>3, <1>4, <1>5, MemoryOneAfterTheOther
<1>7. MemoryOrdered(Memory!Residents, memoryRecency')
  BY <1>1, <1>5, <1>6
<1>8. Memory!Residents' = Memory!Residents
  BY <1>1, MemoryRowsKept DEF MemoryTyped
<1> QED
  BY <1>1, <1>7, <1>8 DEF MemoryRecencyInv, MemoryOrdered

LEMMA MemoryFetchPageOrders ==
  ASSUME MemorySensible, MemoryRecencyInv, MemoryTyped, Memory!FetchPage
  PROVE  MemoryRecencyInv'
<1>1. UNCHANGED <<memoryRows, memoryRecency>>
  BY DEF Memory!FetchPage, Memory!memory
<1>2. Memory!Residents' = Memory!Residents
  BY <1>1, MemoryRowsKept DEF MemoryTyped
<1>3. memoryOp'.step = "touch" => memoryOp'.left[1] \in Memory!Residents
  BY DEF Memory!FetchPage, Memory!Request
<1> QED
  BY <1>1, <1>2, <1>3 DEF MemoryRecencyInv, MemoryOrdered

LEMMA MemoryRecencyStays ==
  ASSUME MemorySensible, MemoryRecencyInv, MemoryTyped, [Memory!Next]_Memory!vars
  PROVE  MemoryRecencyInv'
<1>1. CASE UNCHANGED Memory!vars
  <2>1. UNCHANGED <<memoryRows, memoryRecency, memoryOp>>
    BY <1>1 DEF Memory!vars, Memory!memory
  <2>2. Memory!Residents' = Memory!Residents
    BY <2>1, MemoryRowsKept DEF MemoryTyped
  <2> QED
    BY <2>1, <2>2 DEF MemoryRecencyInv, MemoryOrdered
<1>2. ASSUME NEW o \in Paths, NEW t \in Texts \cup {NoText}, Memory!Edit(o, t)
      PROVE MemoryRecencyInv'
  <2>1. UNCHANGED <<memoryRows, memoryRecency, memoryOp>>
    BY <1>2 DEF Memory!Edit, Memory!memory
  <2>2. Memory!Residents' = Memory!Residents
    BY <2>1, MemoryRowsKept DEF MemoryTyped
  <2> QED
    BY <2>1, <2>2 DEF MemoryRecencyInv, MemoryOrdered
<1>3. CASE Memory!Crash
  BY <1>3, MemorySameOrder, MemoryRestTyped DEF Memory!Crash
<1>4. ASSUME NEW ranked \in Memory!Rankings, Memory!Compile(ranked) PROVE MemoryRecencyInv'
  BY <1>4, MemorySameOrder DEF Memory!Compile, Memory!memory, Memory!Idle
<1>5. ASSUME NEW pins \in 0..1, NEW most \in 1..Len(memorySlice.ranked),
      Memory!AdmitBegin(pins, most) PROVE MemoryRecencyInv'
  BY <1>5, MemorySameOrder DEF Memory!AdmitBegin, Memory!memory, Memory!Idle, Memory!Request
<1>6. CASE Memory!Admit
  BY <1>6, MemoryAdmitOrders
<1>7. CASE Memory!Enforce
  BY <1>7, MemoryDropOrders, MemoryRestTyped DEF Memory!Enforce
<1>8. ASSUME NEW o \in Paths, NEW pinned \in BOOLEAN, Memory!Pin(o, pinned) PROVE MemoryRecencyInv'
  BY <1>8, MemoryPinOrders
<1>9. ASSUME NEW most \in Capacities, Memory!Configure(most) PROVE MemoryRecencyInv'
  BY <1>9, MemorySameOrder DEF Memory!Configure, Memory!Request
<1>10. ASSUME NEW o \in Paths, Memory!Touch(o) PROVE MemoryRecencyInv'
  BY <1>10, MemoryTouchOrders DEF Memory!Touch, Memory!Idle
<1>11. ASSUME NEW named \in SUBSET Paths, NEW staleOnly \in BOOLEAN, Memory!Evict(named, staleOnly)
       PROVE MemoryRecencyInv'
  BY <1>11, MemoryDropOrders DEF Memory!Evict, Memory!Idle
<1>12. ASSUME NEW step \in {"fetch", "packet", "materialize"}, NEW left,
       Memory!ReadBegin(step, left) PROVE MemoryRecencyInv'
  <2>1. memoryOp' = memoryOp \/ memoryOp'.step = step
    BY <1>12 DEF Memory!ReadBegin, Memory!Request
  <2> QED
    BY <1>12, <2>1, MemorySameOrder DEF Memory!ReadBegin, Memory!memory, Memory!Idle
<1>13. CASE Memory!FetchPage
  BY <1>13, MemoryFetchPageOrders
<1>14. CASE Memory!FetchTouch
  BY <1>14, MemoryTouchOrders DEF Memory!FetchTouch, MemoryRecencyInv, Memory!Request
<1>15. CASE Memory!Observe \/ Memory!Answer
  BY <1>15, MemorySameOrder, MemoryRestTyped
    DEF Memory!Observe, Memory!Answer, Memory!memory, Memory!Request
<1>16. CASE Memory!MaterializeObject
  <2>1. memoryOp' = Memory!Rest \/ memoryOp'.step = memoryOp.step
    BY <1>16 DEF Memory!MaterializeObject, Memory!Request
  <2> QED
    BY <1>16, <2>1, MemorySameOrder, MemoryRestTyped DEF Memory!MaterializeObject, Memory!memory
<1>17. CASE Memory!MaterializeEnd
  BY <1>17, MemoryMaterializeEndOrders
<1> QED
  BY <1>1, <1>2, <1>3, <1>4, <1>5, <1>6, <1>7, <1>8, <1>9, <1>10, <1>11, <1>12, <1>13, <1>14, <1>15,
    <1>16,
     <1>17 DEF Memory!Next, Memory!FetchBegin, Memory!PacketBegin, Memory!MaterializeBegin

LEMMA MemorySliceStays ==
  ASSUME MemorySliceTyped, [Memory!Next]_Memory!vars
  PROVE  MemorySliceTyped'
<1>0. Memory!Reconcile => memoryHead' \in Nat /\ memoryHead <= memoryHead'
  BY DEF Memory!Reconcile, MemorySliceTyped
<1>1. CASE memorySlice' = memorySlice /\ memoryCapacity' = memoryCapacity /\ memoryCut' = memoryCut
      /\ (memoryHead' = memoryHead \/ Memory!Reconcile)
  BY <1>0, <1>1 DEF MemorySliceTyped
<1>2. ASSUME NEW ranked \in Memory!Rankings, Memory!Compile(ranked) PROVE MemorySliceTyped'
  BY <1>0, <1>2 DEF Memory!Compile, MemorySliceTyped, Memory!memory
<1>3. ASSUME NEW most \in Capacities, Memory!Configure(most) PROVE MemorySliceTyped'
  BY <1>0, <1>3 DEF Memory!Configure, MemorySliceTyped
<1>4. CASE Memory!Crash
  BY <1>4 DEF Memory!Crash, MemorySliceTyped, Memory!known
<1>5. CASE Memory!Enforce
  BY <1>5 DEF Memory!Enforce, MemorySliceTyped, Memory!known
<1> QED
  BY <1>1, <1>2, <1>3, <1>4, <1>5
    DEF Memory!Next, Memory!vars, Memory!known, Memory!memory, Memory!Edit, Memory!AdmitBegin,
      Memory!Admit, Memory!Pin, Memory!Touch, Memory!Evict,
     Memory!FetchBegin, Memory!ReadBegin, Memory!FetchPage, Memory!FetchTouch, Memory!Observe,
       Memory!Answer, Memory!PacketBegin, Memory!MaterializeObject,
     Memory!MaterializeEnd, Memory!MaterializeBegin

(* Every variable keeps its type, and the residents stay in one order of   *)
(* use, for any objects, texts, sizes and capacities.                      *)
THEOREM MemoryTypeCorrect ==
  ASSUME MemorySensible, MemoryBounded
  PROVE  Memory!Spec => []Memory!TypeOK
<1>1. Memory!Init => MemoryInv /\ MemoryCapacityTyped /\ MemoryRecencyInv /\ MemorySliceTyped
  <2> SUFFICES ASSUME Memory!Init
      PROVE MemoryInv /\ MemoryCapacityTyped /\ MemoryRecencyInv /\ MemorySliceTyped
    OBVIOUS
  <2>1. Memory!Residents = {} /\ memoryRecency = {} /\ memoryOp.step = "idle"
    BY MemoryRestTyped DEF Memory!Init, Memory!Residents
  <2>2. MemoryOrdered({}, {})
    BY DEF MemoryOrdered
  <2>3. MemoryRecencyInv
    BY <2>1, <2>2 DEF MemoryRecencyInv
  <2>4. MemorySliceTyped
    <3>1. memorySlice.revision = -1 /\ memorySlice.ranked = <<>>
      BY DEF Memory!Init, Memory!NoSlice
    <3>2. memoryHead = 0 /\ memoryCapacity \in Capacities /\ memoryCut = FALSE
      BY DEF Memory!Init
    <3>3. memorySlice.revision \in -1..memoryHead
      BY <3>1, <3>2
    <3>4. memorySlice.ranked \in Memory!Rankings \cup {<<>>}
      BY <3>1
    <3> QED
      BY <3>2, <3>3, <3>4 DEF MemorySliceTyped
  <2> QED
    BY <2>3, <2>4, MemoryInitial, MemoryCapacityStays
<1>2. MemoryInv /\ MemoryCapacityTyped /\ MemoryRecencyInv /\ MemorySliceTyped
      /\ [Memory!Next]_Memory!vars
      => MemoryInv' /\ MemoryCapacityTyped' /\ MemoryRecencyInv' /\ MemorySliceTyped'
  BY MemoryInductive, MemoryCapacityStays, MemoryRecencyStays, MemorySliceStays DEF MemoryInv
<1>3. MemoryInv /\ MemoryRecencyInv /\ MemorySliceTyped => Memory!TypeOK
  <2> SUFFICES ASSUME MemoryInv, MemoryRecencyInv, MemorySliceTyped PROVE Memory!TypeOK
    OBVIOUS
  <2>1. /\ {memoryDisk, memoryIndex} \subseteq [Paths -> Texts \cup {NoText}]
        /\ memoryRows \in [Paths -> [digest : Texts \cup {NoText}, pinned : BOOLEAN]]
    BY DEF MemoryInv, MemoryTyped, MemoryRowsTyped, MemoryMaps
  <2>2. memoryOp.step \in {"idle", "admit", "enforce", "fetch", "touch", "answer", "packet",
        "materialize"}
    BY MemoryOpFields DEF MemoryInv, MemorySteps
  <2>3. Memory!Range(memoryOp.left) \subseteq Paths
    <3>1. memoryOp.left \in Seq(Paths)
      BY MemoryOpFields DEF MemoryInv
    <3> QED
      BY <3>1 DEF Memory!Range
  <2> QED
    BY <2>1, <2>2, <2>3 DEF Memory!TypeOK, MemoryRecencyInv, MemorySliceTyped, MemoryOrdered
<1> QED
  BY <1>1, <1>2, <1>3, PTL DEF Memory!Spec

(* The variables of the instance, by either name. *)
LEMMA MemoryVarsAre == MemoryVars' = MemoryVars <=> Memory!vars' = Memory!vars
BY DEF MemoryVars, Memory!vars, Memory!world, Memory!known, Memory!memory

-----------------------------------------------------------------------------
(* What holds of ProjectMemory for every set of statements and agents and  *)
(* any number of memories and revisions.                                   *)
(* Overwriting an element of a sequence. *)
LEMMA RememberOverwritten ==
  ASSUME NEW S, NEW s \in Seq(S), NEW i \in DOMAIN s, NEW x \in S, NEW r, r = [s EXCEPT ![i] = x]
  PROVE  /\ r \in Seq(S) /\ Len(r) = Len(s) /\ DOMAIN r = DOMAIN s
         /\ r[i] = x /\ \A j \in DOMAIN s : j # i => r[j] = s[j]
OBVIOUS

RememberRows ==
  [statement : Statements, owner : Agents \cup {Remember!Shared}, base : Nat,
   status : {"active", "superseded", "invalidated"}, supersedes : Nat, by : Nat]

(* A row with another status and successor.                                *)
RememberOverwrite(r, status, by) ==
  [statement |-> r.statement, owner |-> r.owner, base |-> r.base, status |-> status,
   supersedes |-> r.supersedes, by |-> by]

LEMMA RememberOverwriteTyped ==
  ASSUME NEW r \in RememberRows, NEW s \in {"superseded", "invalidated"}, NEW b \in Nat
  PROVE  RememberOverwrite(r, s, b) \in RememberRows
BY DEF RememberRows, RememberOverwrite

(* Between its two commits a new memory is the last one, and names an      *)
(* older one that it supersedes.                                           *)
RememberHalfRecorded ==
  /\ rememberRecording.new = Len(rememberMemories)
  /\ rememberRecording.old \in 1 .. Len(rememberMemories) - 1
  /\ rememberMemories[rememberRecording.new].supersedes = rememberRecording.old

RememberMemoryInv ==
  /\ rememberMemories \in Seq(RememberRows) /\ rememberRecording \in [new : Nat, old : Nat]
  /\ rememberRevision \in 1 .. MaxRevision
  /\ \A m \in DOMAIN rememberMemories : rememberMemories[m].base \in 1 .. MaxRevision
  /\ \A m \in DOMAIN rememberMemories : rememberMemories[m].supersedes < m
     /\ rememberMemories[m].by <= Len(rememberMemories)
  /\ rememberRecalled \subseteq DOMAIN rememberMemories
  /\ ~Remember!Idle => RememberHalfRecorded

LEMMA RememberRowFacts ==
  ASSUME RememberMemoryInv, NEW m \in DOMAIN rememberMemories
  PROVE  rememberMemories[m].by \in Nat /\ rememberMemories[m].by <= Len(rememberMemories)
<1>1. rememberMemories[m] \in RememberRows
  BY DEF RememberMemoryInv
<1>2. rememberMemories[m].by <= Len(rememberMemories)
  BY DEF RememberMemoryInv
<1> QED
  BY <1>1, <1>2 DEF RememberRows

RememberBounded == MaxRevision \in Nat \ {0}

LEMMA RememberMemoryInit == RememberBounded /\ Remember!Init => RememberMemoryInv
BY DEF RememberBounded, Remember!Init, RememberMemoryInv, Remember!Idle, Remember!NoRecording,
  Remember!None

(* A row is appended or one row's status and successor are overwritten.    *)
LEMMA RememberRecordFacts ==
  ASSUME RememberMemoryInv, RememberBounded, NEW statement \in Statements,
    NEW owner \in Agents \cup {Remember!Shared},
         NEW old \in DOMAIN rememberMemories \cup {Remember!None},
           Remember!Record(statement, owner, old)
  PROVE  /\ rememberMemories' \in Seq(RememberRows) /\ Len(rememberMemories') = Len(rememberMemories) + 1
         /\ \A m \in DOMAIN rememberMemories : rememberMemories'[m] = rememberMemories[m]
         /\ rememberMemories'[Len(rememberMemories) + 1] = Remember!Row(statement, owner, old)
         /\ old \in 0 .. Len(rememberMemories)
<1>1. old \in 0 .. Len(rememberMemories)
  BY DEF RememberMemoryInv, Remember!None
<1>2. Remember!Row(statement, owner, old) \in RememberRows
  BY <1>1 DEF Remember!Row, RememberRows, RememberMemoryInv, RememberBounded, Remember!None
<1> QED
  BY <1>1, <1>2 DEF Remember!Record, RememberMemoryInv

LEMMA RememberSupersedeFacts ==
  ASSUME RememberMemoryInv, Remember!Supersede
  PROVE  /\ rememberMemories' \in Seq(RememberRows) /\ Len(rememberMemories') = Len(rememberMemories)
         /\ DOMAIN rememberMemories' = DOMAIN rememberMemories
         /\ rememberRecording.old \in DOMAIN rememberMemories
         /\ rememberRecording.new \in DOMAIN rememberMemories
         /\ rememberRecording.new > rememberRecording.old
         /\ rememberMemories[rememberRecording.new].supersedes = rememberRecording.old
         /\ \A m \in DOMAIN rememberMemories : m # rememberRecording.old
            => rememberMemories'[m] = rememberMemories[m]
         /\ rememberMemories'[rememberRecording.old] =
              RememberOverwrite(rememberMemories[rememberRecording.old], "superseded",
                rememberRecording.new)
<1>1. /\ rememberRecording.old \in DOMAIN rememberMemories
      /\ rememberRecording.new \in DOMAIN rememberMemories
      /\ rememberRecording.new > rememberRecording.old
      /\ rememberMemories[rememberRecording.new].supersedes = rememberRecording.old
      /\ rememberRecording.new \in Nat
  BY DEF RememberMemoryInv, Remember!Supersede, RememberHalfRecorded
<1>2. rememberMemories \in Seq(RememberRows)
      /\ rememberMemories \in [DOMAIN rememberMemories -> RememberRows]
  BY DEF RememberMemoryInv
<1>3. rememberMemories' = [rememberMemories EXCEPT ![rememberRecording.old] =
                     RememberOverwrite(rememberMemories[rememberRecording.old], "superseded",
                       rememberRecording.new)]
  <2>1. rememberMemories' = [rememberMemories EXCEPT ![rememberRecording.old].status = "superseded",
        ![rememberRecording.old].by = rememberRecording.new]
    BY DEF Remember!Supersede
  <2>2. rememberMemories' \in [DOMAIN rememberMemories -> {rememberMemories'[j] : j \in DOMAIN rememberMemories}]
    BY <1>2, <2>1
  <2>3. rememberMemories'[rememberRecording.old] = RememberOverwrite(rememberMemories[rememberRecording.old], "superseded", rememberRecording.new)
    BY <1>1, <1>2, <2>1 DEF RememberRows, RememberOverwrite
  <2>4. \A j \in DOMAIN rememberMemories \ {rememberRecording.old} : rememberMemories'[j] = rememberMemories[j]
    BY <1>1, <1>2, <2>1
  <2> QED
    BY <1>1, <2>2, <2>3, <2>4
<1>4. RememberOverwrite(rememberMemories[rememberRecording.old], "superseded",
      rememberRecording.new) \in RememberRows
  BY <1>1, <1>2, RememberOverwriteTyped
<1> QED
  BY <1>1, <1>2, <1>3, <1>4, RememberOverwritten

LEMMA RememberInvalidateFacts ==
  ASSUME RememberMemoryInv, NEW m \in DOMAIN rememberMemories, Remember!Invalidate(m)
  PROVE  /\ rememberMemories' \in Seq(RememberRows) /\ Len(rememberMemories') = Len(rememberMemories)
         /\ DOMAIN rememberMemories' = DOMAIN rememberMemories
         /\ \A n \in DOMAIN rememberMemories : n # m => rememberMemories'[n] = rememberMemories[n]
         /\ rememberMemories'[m] = RememberOverwrite(rememberMemories[m], "invalidated", 0)
<1>1. rememberMemories \in Seq(RememberRows)
      /\ rememberMemories \in [DOMAIN rememberMemories -> RememberRows]
  BY DEF RememberMemoryInv
<1>2. rememberMemories' = [rememberMemories EXCEPT ![m] = RememberOverwrite(rememberMemories[m],
      "invalidated", 0)]
  <2>1. rememberMemories' = [rememberMemories EXCEPT ![m].status = "invalidated", ![m].by = 0]
    BY DEF Remember!Invalidate, Remember!None
  <2>2. rememberMemories' \in [DOMAIN rememberMemories -> {rememberMemories'[j] : j \in DOMAIN rememberMemories}]
    BY <2>1
  <2>3. rememberMemories'[m] = RememberOverwrite(rememberMemories[m], "invalidated", 0)
    BY <1>1, <2>1 DEF RememberRows, RememberOverwrite
  <2>4. \A j \in DOMAIN rememberMemories \ {m} : rememberMemories'[j] = rememberMemories[j]
    BY <1>1, <2>1
  <2> QED
    BY <1>1, <2>2, <2>3, <2>4
<1>3. RememberOverwrite(rememberMemories[m], "invalidated", 0) \in RememberRows
  BY <1>1, RememberOverwriteTyped
<1> QED
  BY <1>1, <1>2, <1>3, RememberOverwritten

LEMMA RememberMemoryStep == RememberBounded /\ RememberMemoryInv /\ [Remember!Next]_Remember!vars
  => RememberMemoryInv'
<1> SUFFICES ASSUME RememberBounded, RememberMemoryInv, [Remember!Next]_Remember!vars
    PROVE RememberMemoryInv'
  OBVIOUS
<1>1. CASE UNCHANGED Remember!vars
  BY <1>1 DEF Remember!vars, RememberMemoryInv, Remember!Idle, RememberHalfRecorded
<1>2. ASSUME NEW statement \in Statements, NEW owner \in Agents \cup {Remember!Shared},
             NEW old \in DOMAIN rememberMemories \cup {Remember!None},
               Remember!Record(statement, owner, old)
      PROVE  RememberMemoryInv'
  <2>1. /\ rememberMemories' \in Seq(RememberRows)
        /\ Len(rememberMemories') = Len(rememberMemories) + 1
        /\ \A m \in DOMAIN rememberMemories : rememberMemories'[m] = rememberMemories[m]
        /\ rememberMemories'[Len(rememberMemories) + 1] = Remember!Row(statement, owner, old)
        /\ old \in 0 .. Len(rememberMemories)
    BY <1>2, RememberRecordFacts
  <2>2. rememberRecording' = IF old = Remember!None THEN Remember!NoRecording ELSE [new |-> Len(rememberMemories) + 1, old |-> old]
    BY <1>2 DEF Remember!Record
  <2>3. rememberRecalled' = {} /\ rememberRevision' = rememberRevision
    BY <1>2 DEF Remember!Record
  <2>4. /\ rememberMemories'[Len(rememberMemories) + 1].base = rememberRevision
        /\ rememberMemories'[Len(rememberMemories) + 1].supersedes = old
        /\ rememberMemories'[Len(rememberMemories) + 1].by = 0
    BY <2>1 DEF Remember!Row, Remember!None
  <2>5. DOMAIN rememberMemories = 1 .. Len(rememberMemories)
        /\ DOMAIN rememberMemories' = 1 .. Len(rememberMemories) + 1
        /\ Len(rememberMemories) \in Nat
    BY <2>1 DEF RememberMemoryInv
  <2>6. \A m \in DOMAIN rememberMemories' : m \in DOMAIN rememberMemories
        \/ m = Len(rememberMemories) + 1
    BY <2>5
  <2>7. \A m \in DOMAIN rememberMemories' : rememberMemories'[m].base \in 1 .. MaxRevision
    BY <2>1, <2>4, <2>6 DEF RememberMemoryInv
  <2>8. \A m \in DOMAIN rememberMemories' : rememberMemories'[m].supersedes < m
        /\ rememberMemories'[m].by <= Len(rememberMemories')
    <3> TAKE m \in DOMAIN rememberMemories'
    <3>1. CASE m \in DOMAIN rememberMemories
      <4>1. rememberMemories[m].by \in Nat /\ rememberMemories[m].by <= Len(rememberMemories)
        BY <3>1, RememberRowFacts
      <4>2. rememberMemories[m].supersedes < m
        BY <3>1 DEF RememberMemoryInv
      <4> QED
        BY <3>1, <4>1, <4>2, <2>1, <2>5
    <3>2. CASE m = Len(rememberMemories) + 1
      BY <3>2, <2>1, <2>4, <2>5
    <3> QED
      BY <3>1, <3>2, <2>6
  <2>9. Remember!Idle' \/ RememberHalfRecorded'
    <3>1. CASE old = Remember!None
      BY <3>1, <2>2 DEF Remember!Idle, Remember!NoRecording
    <3>2. CASE old # Remember!None
      <4>1. rememberRecording'.new = Len(rememberMemories) + 1 /\ rememberRecording'.old = old
        BY <3>2, <2>2
      <4> QED
        BY <4>1, <3>2, <2>1, <2>4, <2>5 DEF RememberHalfRecorded, Remember!None
    <3> QED
      BY <3>1, <3>2
  <2>10. rememberRecording' \in [new : Nat, old : Nat]
    BY <2>1, <2>2, <2>5 DEF Remember!NoRecording, Remember!None
  <2> QED
    BY <2>1, <2>3, <2>7, <2>8, <2>9, <2>10 DEF RememberMemoryInv
<1>3. CASE Remember!Supersede
  <2>1. rememberRecording' = Remember!NoRecording
        /\ UNCHANGED <<rememberRevision, rememberRecalled>>
    BY <1>3 DEF Remember!Supersede
  <2>2. /\ rememberMemories' \in Seq(RememberRows) /\ Len(rememberMemories') = Len(rememberMemories)
        /\ DOMAIN rememberMemories' = DOMAIN rememberMemories
    BY <1>3, RememberSupersedeFacts
  <2>3. \A m \in DOMAIN rememberMemories :
          /\ rememberMemories'[m].base = rememberMemories[m].base
          /\ rememberMemories'[m].supersedes = rememberMemories[m].supersedes
          /\ rememberMemories'[m].by \in {rememberMemories[m].by, rememberRecording.new}
    BY <1>3, RememberSupersedeFacts DEF RememberOverwrite
  <2>4. rememberRecording.new <= Len(rememberMemories)
    BY <1>3, RememberSupersedeFacts DEF RememberMemoryInv
  <2> QED
    BY <2>1, <2>2, <2>3, <2>4
      DEF RememberMemoryInv, Remember!Idle, Remember!NoRecording, Remember!None
<1>4. CASE Remember!Crash
  BY <1>4 DEF Remember!Crash, RememberMemoryInv, Remember!Idle, Remember!NoRecording, Remember!None
<1>5. ASSUME NEW m \in DOMAIN rememberMemories, Remember!Invalidate(m) PROVE RememberMemoryInv'
  <2>1. Remember!Idle /\ rememberRecording' = rememberRecording
        /\ rememberRevision' = rememberRevision /\ rememberRecalled' = {}
    BY <1>5 DEF Remember!Invalidate
  <2>2. /\ rememberMemories' \in Seq(RememberRows) /\ Len(rememberMemories') = Len(rememberMemories)
        /\ DOMAIN rememberMemories' = DOMAIN rememberMemories
    BY <1>5, RememberInvalidateFacts
  <2>3. \A n \in DOMAIN rememberMemories :
          /\ rememberMemories'[n].base = rememberMemories[n].base
          /\ rememberMemories'[n].supersedes = rememberMemories[n].supersedes
          /\ rememberMemories'[n].by \in {rememberMemories[n].by, 0}
    <3>1. /\ \A n \in DOMAIN rememberMemories : n # m => rememberMemories'[n] = rememberMemories[n]
          /\ rememberMemories'[m] = RememberOverwrite(rememberMemories[m], "invalidated", 0)
      BY <1>5, RememberInvalidateFacts
    <3> QED
      BY <3>1 DEF RememberOverwrite
  <2> QED
    BY <2>1, <2>2, <2>3 DEF RememberMemoryInv, Remember!Idle
<1>6. ASSUME NEW a \in Agents, NEW statement \in Statements, Remember!Recall(a, statement)
      PROVE RememberMemoryInv'
  BY <1>6 DEF Remember!Recall, RememberMemoryInv, Remember!Idle, RememberHalfRecorded
<1>7. CASE Remember!NewRevision
  BY <1>7 DEF Remember!NewRevision, RememberMemoryInv, Remember!Idle, RememberHalfRecorded,
    RememberBounded
<1> QED
  BY <1>1, <1>2, <1>3, <1>4, <1>5, <1>6, <1>7 DEF Remember!Next

(* Every remembered row keeps its type, and refers to rows there are.      *)
THEOREM RememberTypeCorrect == ASSUME RememberBounded PROVE Remember!Spec => []Remember!TypeOK
<1>1. ASSUME RememberMemoryInv PROVE Remember!TypeOK
  <2>1. \A m \in DOMAIN rememberMemories : rememberMemories[m] \in RememberRows
    BY <1>1 DEF RememberMemoryInv
  <2>2. DOMAIN rememberMemories = 1 .. Len(rememberMemories) /\ Len(rememberMemories) \in Nat
    BY <1>1 DEF RememberMemoryInv
  <2>3. ASSUME NEW m \in DOMAIN rememberMemories
        PROVE  rememberMemories[m].supersedes \in 0 .. m - 1
          /\ rememberMemories[m].by \in 0 .. Len(rememberMemories)
    BY <1>1, <2>1, <2>2 DEF RememberMemoryInv, RememberRows
  <2> QED
    BY <1>1, <2>1, <2>3 DEF RememberMemoryInv, Remember!TypeOK, RememberRows
<1> QED
  BY <1>1, RememberMemoryInit, RememberMemoryStep, PTL DEF Remember!Spec

-----------------------------------------------------------------------------
LEMMA RememberSuccessorInit == Remember!Init => Remember!SupersededHasSuccessor
BY DEF Remember!Init, Remember!SupersededHasSuccessor

LEMMA RememberBySuccessor ==
  ASSUME RememberMemoryInv, Remember!SupersededHasSuccessor, NEW m \in DOMAIN rememberMemories,
         rememberMemories[m].status = "superseded"
  PROVE  rememberMemories[m].by \in DOMAIN rememberMemories /\ rememberMemories[m].by > m
<1>1. rememberMemories[m].by > m
  BY DEF Remember!SupersededHasSuccessor
<1>2. rememberMemories[m].by \in Nat /\ rememberMemories[m].by <= Len(rememberMemories)
  BY RememberRowFacts
<1>3. DOMAIN rememberMemories = 1 .. Len(rememberMemories) /\ Len(rememberMemories) \in Nat
  BY DEF RememberMemoryInv
<1> QED
  BY <1>1, <1>2, <1>3

(* A step that changes no statement, owner, base or reference of a row,    *)
(* and brings none back, keeps the property if whatever is superseded      *)
(* after it has its successor.                                             *)
LEMMA RememberSuccessorFrame ==
  ASSUME RememberMemoryInv, Remember!SupersededHasSuccessor,
    DOMAIN rememberMemories' = DOMAIN rememberMemories,
         \A m \in DOMAIN rememberMemories :
           /\ rememberMemories'[m].statement = rememberMemories[m].statement
           /\ rememberMemories'[m].owner = rememberMemories[m].owner
           /\ rememberMemories'[m].base = rememberMemories[m].base
           /\ rememberMemories'[m].supersedes = rememberMemories[m].supersedes
           /\ rememberMemories'[m].status = "active" => rememberMemories[m].status = "active"
           /\ rememberMemories'[m].status = "superseded" =>
                \/ rememberMemories[m].status = "superseded"
                   /\ rememberMemories'[m].by = rememberMemories[m].by
                \/ /\ rememberMemories'[m].by \in DOMAIN rememberMemories
                      /\ rememberMemories'[m].by > m
                   /\ rememberMemories[rememberMemories'[m].by].supersedes = m
  PROVE  Remember!SupersededHasSuccessor'
<1>1. \A m \in DOMAIN rememberMemories : rememberMemories[m].status = "superseded" =>
        rememberMemories[m].by \in DOMAIN rememberMemories /\ rememberMemories[m].by > m
  BY RememberBySuccessor
<1>2. \A m \in DOMAIN rememberMemories' : rememberMemories'[m].status = "superseded" =>
        rememberMemories'[m].by > m /\ rememberMemories'[rememberMemories'[m].by].supersedes = m
  BY <1>1 DEF Remember!SupersededHasSuccessor
<1>3. \A m, n \in DOMAIN rememberMemories' :
        /\ m < n /\ rememberMemories'[m].status = "active" /\ rememberMemories'[n].status = "active"
        /\ rememberMemories'[m].statement = rememberMemories'[n].statement
        /\ rememberMemories'[m].owner = rememberMemories'[n].owner
        /\ rememberMemories'[m].base = rememberMemories'[n].base
        => rememberMemories'[n].supersedes # Remember!None
  BY DEF Remember!SupersededHasSuccessor, Remember!Live
<1> QED
  BY <1>2, <1>3 DEF Remember!SupersededHasSuccessor, Remember!Live

LEMMA RememberSuccessorStep ==
  RememberBounded /\ RememberMemoryInv /\ Remember!SupersededHasSuccessor
    /\ [Remember!Next]_Remember!vars => Remember!SupersededHasSuccessor'
<1> SUFFICES ASSUME RememberBounded, RememberMemoryInv, Remember!SupersededHasSuccessor,
    [Remember!Next]_Remember!vars
             PROVE  Remember!SupersededHasSuccessor'
  OBVIOUS
<1>1. CASE UNCHANGED rememberMemories
  BY <1>1, RememberSuccessorFrame
<1>2. ASSUME NEW statement \in Statements, NEW owner \in Agents \cup {Remember!Shared},
             NEW old \in DOMAIN rememberMemories \cup {Remember!None},
               Remember!Record(statement, owner, old)
      PROVE  Remember!SupersededHasSuccessor'
  <2> DEFINE new == Len(rememberMemories) + 1
  <2>1. /\ rememberMemories' \in Seq(RememberRows)
        /\ Len(rememberMemories') = Len(rememberMemories) + 1
        /\ \A m \in DOMAIN rememberMemories : rememberMemories'[m] = rememberMemories[m]
        /\ rememberMemories'[new] = Remember!Row(statement, owner, old)
    BY <1>2, RememberRecordFacts
  <2>2. /\ rememberMemories'[new].status = "active"
        /\ rememberMemories'[new].base = rememberRevision
        /\ rememberMemories'[new].supersedes = old
        /\ rememberMemories'[new].statement = statement /\ rememberMemories'[new].owner = owner
    BY <2>1 DEF Remember!Row
  <2>3. /\ DOMAIN rememberMemories = 1 .. Len(rememberMemories) /\ Len(rememberMemories) \in Nat
        /\ \A m \in DOMAIN rememberMemories' : m \in DOMAIN rememberMemories \/ m = new
    BY <2>1 DEF RememberMemoryInv
  <2>4. old = Remember!None => ~Remember!Echo(statement, owner)
    BY <1>2 DEF Remember!Record
  <2>5. \A m \in DOMAIN rememberMemories : rememberMemories[m].status = "superseded" =>
          rememberMemories[m].by \in DOMAIN rememberMemories /\ rememberMemories[m].by > m
    BY RememberBySuccessor
  <2> HIDE DEF new
  <2>6. \A m \in DOMAIN rememberMemories' : rememberMemories'[m].status = "superseded" =>
          rememberMemories'[m].by > m /\ rememberMemories'[rememberMemories'[m].by].supersedes = m
    BY <2>1, <2>2, <2>3, <2>5 DEF Remember!SupersededHasSuccessor
  <2>7. ASSUME NEW m \in DOMAIN rememberMemories', NEW n \in DOMAIN rememberMemories',
               m < n, rememberMemories'[m].status = "active",
                 rememberMemories'[n].status = "active",
               rememberMemories'[m].statement = rememberMemories'[n].statement,
               rememberMemories'[m].owner = rememberMemories'[n].owner,
                 rememberMemories'[m].base = rememberMemories'[n].base
        PROVE  rememberMemories'[n].supersedes # Remember!None
    <3>1. m \in DOMAIN rememberMemories
      BY <2>3, <2>7 DEF new
    <3>2. CASE n \in DOMAIN rememberMemories
      BY <3>1, <3>2, <2>1, <2>7 DEF Remember!SupersededHasSuccessor, Remember!Live
    <3>3. CASE n = new
      BY <3>1, <3>3, <2>1, <2>2, <2>4, <2>7 DEF Remember!Echo, Remember!Live
    <3> QED
      BY <2>3, <3>2, <3>3
  <2> QED
    BY <2>6, <2>7 DEF Remember!SupersededHasSuccessor, Remember!Live
<1>3. CASE Remember!Supersede
  <2>1. LET r == rememberMemories'[rememberRecording.old] IN
          /\ r.statement = rememberMemories[rememberRecording.old].statement
          /\ r.owner = rememberMemories[rememberRecording.old].owner
          /\ r.base = rememberMemories[rememberRecording.old].base
          /\ r.supersedes = rememberMemories[rememberRecording.old].supersedes
          /\ r.status = "superseded" /\ r.by = rememberRecording.new
    BY <1>3, RememberSupersedeFacts DEF RememberOverwrite
  <2> QED
    BY <1>3, RememberSupersedeFacts, <2>1, RememberSuccessorFrame
<1>4. ASSUME NEW m \in DOMAIN rememberMemories, Remember!Invalidate(m)
      PROVE Remember!SupersededHasSuccessor'
  <2>1. LET r == rememberMemories'[m] IN
          /\ r.statement = rememberMemories[m].statement /\ r.owner = rememberMemories[m].owner
          /\ r.base = rememberMemories[m].base /\ r.supersedes = rememberMemories[m].supersedes
          /\ r.status = "invalidated"
    <3>1. rememberMemories'[m] = RememberOverwrite(rememberMemories[m], "invalidated", 0)
      BY <1>4, RememberInvalidateFacts
    <3> QED
      BY <3>1 DEF RememberOverwrite
  <2> QED
    BY <1>4, RememberInvalidateFacts, <2>1, RememberSuccessorFrame
<1> QED
  BY <1>1, <1>2, <1>3, <1>4
    DEF Remember!Next, Remember!vars, Remember!Crash, Remember!NewRevision, Remember!Recall

(* A memory that supersession took out of recall has a later one on record *)
(* that names it, whenever the process stopped between the two commits of  *)
(* memory_record and whatever was recorded, invalidated or asked again;    *)
(* and an echo is only kept as the successor of something.                 *)
THEOREM RememberSuccessorsRemain == ASSUME RememberBounded
  PROVE Remember!Spec => []Remember!SupersededHasSuccessor
BY RememberMemoryInit, RememberMemoryStep, RememberSuccessorInit, RememberSuccessorStep, PTL
  DEF Remember!Spec

(* The variables of the instance, by either name. *)
LEMMA RememberVarsAre == RememberVars' = RememberVars <=> Remember!vars' = Remember!vars
BY DEF RememberVars, Remember!vars

-----------------------------------------------------------------------------
(* What holds of Deliberation for any agents, hypotheses, paths and any    *)
(* window and limits, while no more is open than the window shows.         *)
(* The instance counts as FiniteSets does. *)
LEMMA ThoughtCounts ==
  \A S : (Thought!IsFiniteSet(S) <=> IsFiniteSet(S)) /\ Thought!Cardinality(S) = Cardinality(S)
BY DEF Thought!IsFiniteSet, IsFiniteSet, Thought!Cardinality, Cardinality


ThoughtSensible ==
  /\ ItemWindow \in Nat /\ PlanLimits \subseteq Nat \ {0}
  /\ "overflow" \notin ThoughtHazards

ThoughtItems == [kind : Thought!Kinds, owner : Thought!Owners, status : {"open", "resolved"}]

ThoughtInv == thoughtItems \in Seq(ThoughtItems) /\ ~Thought!Overflow

(* What an agent sees of finitely many items is finite.                    *)
LEMMA ThoughtVisibleFinite ==
  ASSUME thoughtItems \in Seq(ThoughtItems), NEW a \in Agents
  PROVE  Thought!IsFiniteSet(Thought!Visible(a)) /\ Thought!Cardinality(Thought!Visible(a)) \in Nat
    /\ Thought!Visible(a) \subseteq Nat
<1>1. Thought!IsFiniteSet(1..Len(thoughtItems)) /\ Thought!Visible(a) \subseteq 1..Len(thoughtItems)
      /\ 1..Len(thoughtItems) \subseteq Nat
  BY ThoughtCounts, FS_Interval DEF Thought!Visible
<1> QED
  BY <1>1, ThoughtCounts, FS_Subset, FS_CardinalityType

(* A window that holds all of them shows all of them.                      *)
LEMMA ThoughtWindowShowsAll ==
  ASSUME ThoughtSensible, ThoughtInv, NEW a \in Agents, NEW n \in Nat, n >= ItemWindow
  PROVE  Thought!Fetched(a, n) = Thought!Visible(a)
<1>1. Thought!Cardinality(Thought!Visible(a)) <= n
      /\ Thought!Cardinality(Thought!Visible(a)) \in Nat
  BY ThoughtVisibleFinite DEF ThoughtInv, Thought!Overflow, ThoughtSensible
<1>2. ASSUME NEW i \in Thought!Visible(a)
      PROVE  Thought!Cardinality({j \in Thought!Visible(a) : j > i}) < n
  <2> DEFINE newer == {j \in Thought!Visible(a) : j > i}
  <2>1. newer \subseteq Thought!Visible(a) \ {i}
    BY ThoughtVisibleFinite DEF ThoughtInv
  <2>2. /\ Thought!IsFiniteSet(Thought!Visible(a) \ {i})
        /\ Thought!Cardinality(Thought!Visible(a) \ {i}) = Thought!Cardinality(Thought!Visible(a)) - 1
    BY <1>2, ThoughtVisibleFinite, ThoughtCounts, FS_RemoveElement DEF ThoughtInv
  <2>3. Thought!Cardinality(newer) <= Thought!Cardinality(Thought!Visible(a) \ {i})
        /\ Thought!Cardinality(newer) \in Nat
    BY <2>1, <2>2, ThoughtCounts, FS_Subset, FS_CardinalityType
  <2> QED
    BY <1>1, <2>2, <2>3
<1> QED
  BY <1>2 DEF Thought!Fetched

LEMMA ThoughtSeesContradiction ==
  ASSUME NEW a \in Agents
  PROVE  Thought!Unsettled(a) <=> thoughtStale[a] # {}
    \/ Thought!Has(Thought!Visible(a), "contradiction")
BY DEF Thought!Unsettled, Thought!Has, Thought!Visible

(* The two operations that put off converging come first, and apply        *)
(* exactly when something is unsettled.                                    *)
LEMMA ThoughtFirstTwo ==
  ASSUME NEW a \in Agents, NEW around
  PROVE  /\ Thought!Scored[1] = "selective-revalidate" /\ Thought!Scored[2] = "discriminate-contradiction"
         /\ \A k \in DOMAIN Thought!Scored : k \notin {1, 2} =>
              Thought!Scored[k] \notin {"selective-revalidate", "discriminate-contradiction"}
         /\ DOMAIN Thought!Scored = 1..9
         /\ Thought!Applies(a, "selective-revalidate", around) <=> thoughtStale[a] # {}
         /\ Thought!Applies(a, "discriminate-contradiction", around)
            <=> Thought!Has(Thought!Fetched(a, ItemWindow + 1), "contradiction")
<1>1. Thought!Scored[1] = "selective-revalidate" /\ Thought!Scored[2] = "discriminate-contradiction"
  BY DEF Thought!Scored
<1>2. DOMAIN Thought!Scored = 1..9
  BY DEF Thought!Scored
<1>3. \A k \in 3..9 : Thought!Scored[k] \notin {"selective-revalidate",
      "discriminate-contradiction"}
  BY DEF Thought!Scored
<1>4. Thought!Applies(a, "selective-revalidate", around) <=> thoughtStale[a] # {}
  BY DEF Thought!Applies
<1>5. Thought!Applies(a, "discriminate-contradiction", around)
      <=> Thought!Has(Thought!Fetched(a, ItemWindow + 1), "contradiction")
  BY DEF Thought!Applies
<1> QED
  BY <1>1, <1>2, <1>3, <1>4, <1>5

LEMMA ThoughtPlanIsRight ==
  ASSUME ThoughtSensible, ThoughtInv, NEW a \in Agents, NEW limit \in PlanLimits, NEW around
  PROVE  /\ Thought!PlanConverges(Thought!Plan(a, limit, around)) <=> ~Thought!Unsettled(a)
         /\ Thought!Unsettled(a) => \E k \in Thought!Plan(a, limit, around) :
              /\ Thought!Scored[k] = Thought!Reason(a)
              /\ \A j \in Thought!Plan(a, limit, around) : k <= j
<1> DEFINE all == {k \in DOMAIN Thought!Scored : Thought!Applies(a, Thought!Scored[k], around)}
           plan == Thought!Plan(a, limit, around)
<1>1. plan = {k \in all : Thought!Cardinality({j \in all : j < k}) < limit}
  BY DEF Thought!Plan
<1>2. Thought!Fetched(a, ItemWindow) = Thought!Visible(a)
      /\ Thought!Fetched(a, ItemWindow + 1) = Thought!Visible(a)
  BY ThoughtWindowShowsAll DEF ThoughtSensible
<1>3. (1 \in all <=> thoughtStale[a] # {}) /\ (2 \in all
      <=> Thought!Has(Thought!Visible(a), "contradiction"))
  BY <1>2, ThoughtFirstTwo
<1>4. limit \in Nat \ {0} /\ Thought!Cardinality({}) = 0
  BY ThoughtCounts, FS_EmptySet DEF ThoughtSensible
<1>5. all \subseteq 1..9
  BY ThoughtFirstTwo
<1>6. plan \subseteq all
  BY <1>1
<1>7. \A j \in all : j \in Nat /\ j >= 1
  BY <1>5
<1> HIDE DEF all, plan
<1>8. CASE thoughtStale[a] # {}
  <2>1. {j \in all : j < 1} = {}
    BY <1>7
  <2>2. 1 \in plan
    BY <1>1, <1>3, <1>4, <1>8, <2>1
  <2>3. Thought!Scored[1] = Thought!Reason(a) /\ Thought!Scored[1] = "selective-revalidate"
    BY <1>8, ThoughtFirstTwo DEF Thought!Reason
  <2>4. Thought!Unsettled(a) /\ ~Thought!PlanConverges(plan)
    BY <1>8, <2>2, <2>3, ThoughtSeesContradiction DEF Thought!PlanConverges
  <2>5. \A j \in plan : 1 <= j
    BY <1>5, <1>6
  <2> QED
    BY <2>2, <2>3, <2>4, <2>5 DEF plan
<1>9. CASE thoughtStale[a] = {} /\ Thought!Has(Thought!Visible(a), "contradiction")
  <2>1. {j \in all : j < 2} = {}
    <3>1. \A j \in all : j # 1
      BY <1>3, <1>9
    <3> QED
      BY <1>7, <3>1
  <2>2. 2 \in plan
    BY <1>1, <1>3, <1>4, <1>9, <2>1
  <2>3. Thought!Scored[2] = Thought!Reason(a) /\ Thought!Scored[2] = "discriminate-contradiction"
    BY <1>2, <1>9, ThoughtFirstTwo DEF Thought!Reason
  <2>4. Thought!Unsettled(a) /\ ~Thought!PlanConverges(plan)
    BY <1>9, <2>2, <2>3, ThoughtSeesContradiction DEF Thought!PlanConverges
  <2>5. \A j \in plan : 2 <= j
    BY <1>3, <1>5, <1>6, <1>9
  <2> QED
    BY <2>2, <2>3, <2>4, <2>5 DEF plan
<1>10. CASE thoughtStale[a] = {} /\ ~Thought!Has(Thought!Visible(a), "contradiction")
  <2>1. ~Thought!Unsettled(a)
    BY <1>10, ThoughtSeesContradiction
  <2>2. \A k \in plan : k \in DOMAIN Thought!Scored /\ k \notin {1, 2}
    BY <1>3, <1>5, <1>6, <1>10, ThoughtFirstTwo
  <2>3. Thought!PlanConverges(plan)
    BY <2>2, ThoughtFirstTwo DEF Thought!PlanConverges
  <2> QED
    BY <2>1, <2>3 DEF plan
<1> QED
  BY <1>8, <1>9, <1>10

LEMMA ThoughtEarnedWhileInView == ThoughtSensible /\ ThoughtInv => Thought!ConvergenceIsEarned
<1> SUFFICES ASSUME ThoughtSensible, ThoughtInv, NEW a \in Agents
             PROVE  /\ Thought!NextConverges(a) <=> ~Thought!Unsettled(a)
                    /\ \A limit \in PlanLimits, around \in Thought!Around :
                         LET plan == Thought!Plan(a, limit, around) IN
                         /\ Thought!PlanConverges(plan) <=> ~Thought!Unsettled(a)
                         /\ Thought!Unsettled(a)
                            => \E k \in plan : Thought!Scored[k] = Thought!Reason(a)
                              /\ \A j \in plan : k <= j
  BY DEF Thought!ConvergenceIsEarned
<1>1. Thought!Fetched(a, ItemWindow) = Thought!Visible(a)
  BY ThoughtWindowShowsAll DEF ThoughtSensible
<1>2. Thought!NextConverges(a) <=> ~Thought!Unsettled(a)
  BY <1>1, ThoughtSeesContradiction DEF Thought!NextConverges
<1> QED
  BY <1>2, ThoughtPlanIsRight

LEMMA ThoughtInitial == ThoughtSensible /\ Thought!Init => ThoughtInv
<1> SUFFICES ASSUME ThoughtSensible, Thought!Init PROVE ThoughtInv
  OBVIOUS
<1>1. \A a \in Agents : Thought!Visible(a) = {}
  BY DEF Thought!Init, Thought!Visible
<1>2. ~Thought!Overflow
  BY <1>1, ThoughtCounts, FS_EmptySet DEF Thought!Overflow, ThoughtSensible
<1> QED
  BY <1>2 DEF Thought!Init, ThoughtInv

LEMMA ThoughtInductive == ThoughtSensible /\ ThoughtInv /\ [Thought!Next]_Thought!vars
  => ThoughtInv'
<1> SUFFICES ASSUME ThoughtSensible, ThoughtInv, [Thought!Next]_Thought!vars PROVE ThoughtInv'
  OBVIOUS
<1>1. ASSUME NEW kind \in Thought!Kinds, NEW owner \in Thought!Owners,
      Thought!EpistemicCreate(kind, owner)
      PROVE  ThoughtInv'
  <2>1. [kind |-> kind, owner |-> owner, status |-> "open"] \in ThoughtItems
    BY DEF ThoughtItems
  <2>2. thoughtItems' \in Seq(ThoughtItems)
    BY <1>1, <2>1 DEF Thought!EpistemicCreate, ThoughtInv
  <2> QED
    BY <1>1, <2>2 DEF Thought!EpistemicCreate, ThoughtInv, ThoughtSensible
<1>2. ASSUME NEW i \in DOMAIN thoughtItems, NEW status \in {"open", "resolved"},
      Thought!EpistemicUpdate(i, status)
      PROVE  ThoughtInv'
  <2> DEFINE item == [thoughtItems[i] EXCEPT !.status = status]
  <2>1. item \in ThoughtItems
    <3>1. thoughtItems[i] \in ThoughtItems
      BY DEF ThoughtInv
    <3> QED
      BY <3>1 DEF ThoughtItems
  <2>2. Thought!RemoveAt(thoughtItems, i) \in Seq(ThoughtItems)
    BY DEF Thought!RemoveAt, ThoughtInv
  <2>3. thoughtItems' = Append(Thought!RemoveAt(thoughtItems, i), item)
    BY <1>2 DEF Thought!EpistemicUpdate
  <2> HIDE DEF item
  <2>4. thoughtItems' \in Seq(ThoughtItems)
    BY <2>1, <2>2, <2>3
  <2> QED
    BY <1>2, <2>4 DEF Thought!EpistemicUpdate, ThoughtInv, ThoughtSensible
<1>3. CASE UNCHANGED thoughtItems
  BY <1>3 DEF ThoughtInv, Thought!Overflow, Thought!Visible
<1> QED
  BY <1>1, <1>2, <1>3
    DEF Thought!Next, Thought!vars, Thought!SourceInvalidated, Thought!Acknowledge,
      Thought!EpisodeStart, Thought!EpisodeFinish,
       Thought!HypothesisCreate, Thought!HypothesisUpdate, Thought!ExperimentPlan,
         Thought!ExperimentComplete

(* No agent is told to stop over a contradiction or an invalidation, for   *)
(* any number of items, however many operations it asks for.               *)
THEOREM ThoughtConvergenceIsAlwaysEarned ==
  ASSUME ThoughtSensible
  PROVE  Thought!Spec => []Thought!ConvergenceIsEarned
<1>1. Thought!Init => ThoughtInv
  BY ThoughtInitial
<1>2. ThoughtInv /\ [Thought!Next]_Thought!vars => ThoughtInv'
  BY ThoughtInductive
<1>3. ThoughtInv => Thought!ConvergenceIsEarned
  BY ThoughtEarnedWhileInView
<1> QED
  BY <1>1, <1>2, <1>3, PTL DEF Thought!Spec

LEMMA ThoughtTypeKept == thoughtItems \in Seq(ThoughtItems) /\ Thought!TypeOK
  /\ [Thought!Next]_Thought!vars => thoughtItems' \in Seq(ThoughtItems) /\ Thought!TypeOK'
<1> SUFFICES ASSUME thoughtItems \in Seq(ThoughtItems), Thought!TypeOK, [Thought!Next]_Thought!vars
    PROVE thoughtItems' \in Seq(ThoughtItems) /\ Thought!TypeOK'
  OBVIOUS
<1>1. CASE UNCHANGED <<thoughtStale, thoughtHypotheses, thoughtExperiments, thoughtEpisode>>
  <2>1. thoughtItems' \in Seq(ThoughtItems)
    <3>1. ASSUME NEW kind \in Thought!Kinds, NEW owner \in Thought!Owners,
          Thought!EpistemicCreate(kind, owner)
          PROVE  thoughtItems' \in Seq(ThoughtItems)
      <4>1. [kind |-> kind, owner |-> owner, status |-> "open"] \in ThoughtItems
        BY DEF ThoughtItems
      <4> QED
        BY <3>1, <4>1 DEF Thought!EpistemicCreate
    <3>2. ASSUME NEW i \in DOMAIN thoughtItems, NEW status \in {"open", "resolved"},
          Thought!EpistemicUpdate(i, status)
          PROVE  thoughtItems' \in Seq(ThoughtItems)
      <4> DEFINE item == [thoughtItems[i] EXCEPT !.status = status]
      <4>1. item \in ThoughtItems
        <5>1. thoughtItems[i] \in ThoughtItems
          OBVIOUS
        <5> QED
          BY <5>1 DEF ThoughtItems
      <4>2. Thought!RemoveAt(thoughtItems, i) \in Seq(ThoughtItems)
        BY DEF Thought!RemoveAt
      <4>3. thoughtItems' = Append(Thought!RemoveAt(thoughtItems, i), item)
        BY <3>2 DEF Thought!EpistemicUpdate
      <4> HIDE DEF item
      <4> QED
        BY <4>1, <4>2, <4>3
    <3>3. CASE UNCHANGED thoughtItems
      BY <3>3
    <3> QED
      BY <3>1, <3>2, <3>3
        DEF Thought!Next, Thought!vars, Thought!SourceInvalidated, Thought!Acknowledge,
          Thought!EpisodeStart, Thought!EpisodeFinish,
           Thought!HypothesisCreate, Thought!HypothesisUpdate, Thought!ExperimentPlan,
             Thought!ExperimentComplete
  <2>2. \A i \in DOMAIN thoughtItems' : thoughtItems'[i] \in ThoughtItems
    BY <2>1
  <2> QED
    BY <1>1, <2>1, <2>2 DEF Thought!TypeOK, ThoughtItems
<1>2. CASE \E a \in Agents, p \in ThoughtPaths : Thought!SourceInvalidated(a, p)
      \/ Thought!Acknowledge(a, p)
  <2>1. PICK a \in Agents, p \in ThoughtPaths : Thought!SourceInvalidated(a, p)
        \/ Thought!Acknowledge(a, p)
    BY <1>2
  <2>2. thoughtStale[a] \in SUBSET ThoughtPaths
    BY DEF Thought!TypeOK
  <2>3. thoughtStale' \in [Agents -> SUBSET ThoughtPaths]
    BY <2>1, <2>2 DEF Thought!SourceInvalidated, Thought!Acknowledge, Thought!TypeOK
  <2> QED
    BY <2>1, <2>3 DEF Thought!SourceInvalidated, Thought!Acknowledge, Thought!TypeOK
<1>3. CASE Thought!EpisodeStart \/ Thought!EpisodeFinish
  BY <1>3 DEF Thought!EpisodeStart, Thought!EpisodeFinish, Thought!TypeOK
<1>4. CASE \E h \in Hypotheses : \/ Thought!HypothesisCreate(h) \/ Thought!ExperimentPlan(h)
                                 \/ \E status \in {"active",
                                    "settled"} : Thought!HypothesisUpdate(h, status)
                                 \/ Thought!ExperimentComplete(h)
  BY <1>4 DEF Thought!HypothesisCreate, Thought!HypothesisUpdate, Thought!ExperimentPlan,
    Thought!ExperimentComplete, Thought!TypeOK
<1> QED
  BY <1>1, <1>2, <1>3, <1>4
    DEF Thought!Next, Thought!vars, Thought!EpistemicCreate, Thought!EpistemicUpdate

(* Every variable keeps its type, whatever the constants. *)
THEOREM ThoughtTypeCorrect == Thought!Spec => []Thought!TypeOK
<1>1. Thought!Init => thoughtItems \in Seq(ThoughtItems) /\ Thought!TypeOK
  BY DEF Thought!Init, Thought!TypeOK
<1>2. thoughtItems \in Seq(ThoughtItems) /\ Thought!TypeOK /\ [Thought!Next]_Thought!vars
      => (thoughtItems \in Seq(ThoughtItems) /\ Thought!TypeOK)'
  BY ThoughtTypeKept DEF ThoughtItems
<1> QED
  BY <1>1, <1>2, PTL DEF Thought!Spec

(* The variables of the instance, by either name. *)
LEMMA ThoughtVarsAre == ThoughtVars' = ThoughtVars <=> Thought!vars' = Thought!vars
BY DEF ThoughtVars, Thought!vars

-----------------------------------------------------------------------------
(* What holds of PolicyLearning for any versions, candidates and           *)
(* processes.                                                              *)
(* Tables                                                                  *)

LEMMA LearnSavedTyped ==
  ASSUME NEW f, NEW S, f \in [DOMAIN f -> S], NEW k, NEW x \in S
  PROVE  Learn!Saved(f, k, x) \in [DOMAIN f \cup {k} -> S]
BY DEF Learn!Saved

LearnRows == [policy : PolicyVersions, baseline : PolicyVersions, state : Learn!States]

(* A candidate moves to another state.                                     *)
LEMMA LearnMoved ==
  ASSUME NEW f, f \in [DOMAIN f -> LearnRows], NEW c \in DOMAIN f, NEW s \in Learn!States, NEW g,
         g = [f EXCEPT ![c].state = s]
  PROVE  /\ DOMAIN g = DOMAIN f /\ g \in [DOMAIN g -> LearnRows] /\ g[c].state = s
         /\ \A d \in DOMAIN f : g[d].policy = f[d].policy /\ g[d].baseline = f[d].baseline
         /\ \A d \in DOMAIN f \ {c} : g[d] = f[d]
<1>1. f[c] \in LearnRows
  OBVIOUS
<1>2. g[c] = [policy |-> f[c].policy, baseline |-> f[c].baseline, state |-> s]
  BY <1>1 DEF LearnRows
<1>3. f[c].policy \in PolicyVersions /\ f[c].baseline \in PolicyVersions
  BY <1>1 DEF LearnRows
<1>4. g[c] \in LearnRows
  BY <1>2, <1>3 DEF LearnRows
<1>5. g[c].state = s /\ g[c].policy = f[c].policy /\ g[c].baseline = f[c].baseline
  BY <1>2
<1>6. \A d \in DOMAIN f \ {c} : g[d] = f[d]
  OBVIOUS
<1>7. DOMAIN g = DOMAIN f /\ g \in [DOMAIN f -> {g[d] : d \in DOMAIN f}]
  OBVIOUS
<1>8. \A d \in DOMAIN f : g[d] \in LearnRows
  BY <1>4, <1>6
<1>9. g \in [DOMAIN g -> LearnRows]
  BY <1>7, <1>8
<1> QED
  BY <1>5, <1>6, <1>7, <1>9

-----------------------------------------------------------------------------
(* Type correctness                                                        *)

LearnSensible == Learn!Nobody \notin PolicyVersions

(* A transition on its way is neither to nor from a promotion.             *)
LearnReading(r) ==
  /\ r.on \in DOMAIN learnCandidates
  /\ r.to \in {"shadow", "experiment", "evaluated", "canary", "rejected"}
  /\ r.expected # "promoted"

LearnTypeInv ==
  /\ DOMAIN learnParents \subseteq PolicyVersions
  /\ \A v \in DOMAIN learnParents : learnParents[v] \in DOMAIN learnParents \cup {Learn!Nobody}
  /\ DOMAIN learnCandidates \subseteq PolicyCandidates
  /\ learnCandidates \in [DOMAIN learnCandidates -> LearnRows]
  /\ \A c \in DOMAIN learnCandidates :
       /\ learnCandidates[c].policy \in DOMAIN learnParents
       /\ learnCandidates[c].baseline \in DOMAIN learnParents
       /\ learnParents[learnCandidates[c].policy] = learnCandidates[c].baseline
  /\ DOMAIN learnEvaluations \subseteq DOMAIN learnCandidates
  /\ DOMAIN learnActivations \subseteq DOMAIN learnCandidates
  /\ \A c \in DOMAIN learnActivations : learnActivations[c].previous \in DOMAIN learnParents \cup {Learn!Nobody}
  /\ Learn!Promoted \subseteq DOMAIN learnActivations
  /\ learnActive \in DOMAIN learnParents \cup {Learn!Nobody}
  /\ DOMAIN learnReadings = Processes
  /\ \A p \in Processes : learnReadings[p] # Learn!NoReading => LearnReading(learnReadings[p])

LEMMA LearnTypeInit == Learn!Init => LearnTypeInv
<1> SUFFICES ASSUME Learn!Init PROVE LearnTypeInv
  OBVIOUS
<1>1. DOMAIN learnParents = {} /\ DOMAIN learnCandidates = {} /\ DOMAIN learnEvaluations = {}
      /\ DOMAIN learnActivations = {}
  BY DEF Learn!Init
<1>2. learnCandidates \in [DOMAIN learnCandidates -> LearnRows]
  BY <1>1 DEF Learn!Init
<1>3. Learn!Promoted = {}
  BY <1>1 DEF Learn!Promoted
<1> QED
  BY <1>1, <1>2, <1>3 DEF Learn!Init, LearnTypeInv

LEMMA LearnRegisterFacts ==
  ASSUME LearnTypeInv, NEW v \in PolicyVersions, NEW parent \in PolicyVersions \cup {Learn!Nobody},
         Learn!RegisterContextPolicy(v, parent)
  PROVE  /\ v \notin DOMAIN learnParents /\ parent \in DOMAIN learnParents \cup {Learn!Nobody}
         /\ DOMAIN learnParents' = DOMAIN learnParents \cup {v} /\ learnParents'[v] = parent
         /\ \A w \in DOMAIN learnParents : learnParents'[w] = learnParents[w]
<1>1. learnParents' = Learn!Saved(learnParents, v, parent)
  BY DEF Learn!RegisterContextPolicy
<1>2. v \notin DOMAIN learnParents /\ parent \in DOMAIN learnParents \cup {Learn!Nobody}
  BY DEF Learn!RegisterContextPolicy
<1>3. /\ DOMAIN Learn!Saved(learnParents, v, parent) = DOMAIN learnParents \cup {v}
      /\ Learn!Saved(learnParents, v, parent)[v] = parent
      /\ \A w \in DOMAIN learnParents \ {v} : Learn!Saved(learnParents, v,
         parent)[w] = learnParents[w]
  BY DEF Learn!Saved
<1> QED
  BY <1>1, <1>2, <1>3

LEMMA LearnCreateFacts ==
  ASSUME LearnTypeInv, NEW c \in PolicyCandidates, NEW v \in PolicyVersions,
    NEW baseline \in PolicyVersions,
         Learn!CreatePolicyCandidate(c, v, baseline)
  PROVE  /\ DOMAIN learnCandidates' = DOMAIN learnCandidates \cup {c} /\ learnCandidates' \in [DOMAIN learnCandidates' -> LearnRows]
         /\ learnCandidates'[c] = [policy |-> v, baseline |-> baseline, state |-> "candidate"]
         /\ \A d \in DOMAIN learnCandidates : learnCandidates'[d] = learnCandidates[d]
         /\ c \notin DOMAIN learnCandidates
<1>1. [policy |-> v, baseline |-> baseline, state |-> "candidate"] \in LearnRows
  BY DEF LearnRows, Learn!States
<1>2. learnCandidates' = Learn!Saved(learnCandidates, c,
      [policy |-> v, baseline |-> baseline, state |-> "candidate"])
  BY DEF Learn!CreatePolicyCandidate
<1>3. learnCandidates \in [DOMAIN learnCandidates -> LearnRows] /\ c \notin DOMAIN learnCandidates
  BY DEF LearnTypeInv, Learn!CreatePolicyCandidate
<1> HIDE DEF LearnRows
<1>4. learnCandidates' \in [DOMAIN learnCandidates \cup {c} -> LearnRows]
  BY <1>1, <1>2, <1>3, LearnSavedTyped
<1> DEFINE row == [policy |-> v, baseline |-> baseline, state |-> "candidate"]
<1>5. /\ DOMAIN Learn!Saved(learnCandidates, c, row) = DOMAIN learnCandidates \cup {c}
      /\ Learn!Saved(learnCandidates, c, row)[c] = row
      /\ \A d \in DOMAIN learnCandidates \ {c} : Learn!Saved(learnCandidates, c,
         row)[d] = learnCandidates[d]
  BY DEF Learn!Saved
<1>6. learnCandidates' = Learn!Saved(learnCandidates, c, row)
  BY <1>2
<1>7. /\ DOMAIN learnCandidates' = DOMAIN learnCandidates \cup {c} /\ learnCandidates'[c] = row
      /\ \A d \in DOMAIN learnCandidates : learnCandidates'[d] = learnCandidates[d]
  BY <1>3, <1>5, <1>6
<1>8. learnCandidates' \in [DOMAIN learnCandidates' -> LearnRows]
  BY <1>4, <1>7
<1> QED
  BY <1>3, <1>7, <1>8

(* What moves a candidate: a written transition, a promotion, a rollback.  *)
LearnMoves(c, s) ==
  /\ DOMAIN learnCandidates' = DOMAIN learnCandidates
  /\ learnCandidates' \in [DOMAIN learnCandidates' -> LearnRows]
  /\ learnCandidates'[c].state = s
  /\ \A d \in DOMAIN learnCandidates :
       learnCandidates'[d].policy = learnCandidates[d].policy
         /\ learnCandidates'[d].baseline = learnCandidates[d].baseline
  /\ \A d \in DOMAIN learnCandidates \ {c} : learnCandidates'[d] = learnCandidates[d]

LEMMA LearnMovesFacts ==
  ASSUME LearnTypeInv, NEW c \in DOMAIN learnCandidates, NEW s \in Learn!States,
         learnCandidates' = [learnCandidates EXCEPT ![c].state = s]
  PROVE  LearnMoves(c, s)
<1>1. learnCandidates \in [DOMAIN learnCandidates -> LearnRows]
  BY DEF LearnTypeInv
<1> QED
  BY <1>1, LearnMoved DEF LearnMoves

LEMMA LearnPromoteFacts ==
  ASSUME LearnTypeInv, NEW c \in PolicyCandidates, Learn!PromoteCandidate(c)
  PROVE  /\ c \in DOMAIN learnCandidates /\ learnCandidates[c].state = "canary"
         /\ learnEvaluations[c].improved /\ learnActive \in {Learn!Nobody,
            learnCandidates[c].baseline}
         /\ LearnMoves(c, "promoted") /\ Learn!Promoted' = Learn!Promoted \cup {c}
         /\ c \notin Learn!Promoted
         /\ DOMAIN learnActivations' = DOMAIN learnActivations \cup {c}
         /\ learnActivations'[c] = [previous |-> learnActive, evaluation |-> learnEvaluations[c]]
         /\ \A d \in DOMAIN learnActivations \ {c} : learnActivations'[d] = learnActivations[d]
         /\ learnActive' = learnCandidates[c].policy
         /\ UNCHANGED <<learnParents, learnEvaluations, learnReadings>>
<1>1. c \in DOMAIN learnCandidates /\ learnCandidates[c].state = "canary"
  BY DEF Learn!PromoteCandidate, Learn!Promotable
<1>2. LearnMoves(c, "promoted")
  BY <1>1, LearnMovesFacts DEF Learn!PromoteCandidate, Learn!States
<1>3. Learn!Promoted' = Learn!Promoted \cup {c} /\ c \notin Learn!Promoted
  BY <1>1, <1>2 DEF Learn!Promoted, LearnMoves
<1>4. /\ DOMAIN learnActivations' = DOMAIN learnActivations \cup {c}
      /\ learnActivations'[c] = [previous |-> learnActive, evaluation |-> learnEvaluations[c]]
      /\ \A d \in DOMAIN learnActivations \ {c} : learnActivations'[d] = learnActivations[d]
  <2> DEFINE row == [previous |-> learnActive, evaluation |-> learnEvaluations[c]]
  <2>1. learnActivations' = Learn!Saved(learnActivations, c, row)
    BY DEF Learn!PromoteCandidate
  <2>2. /\ DOMAIN Learn!Saved(learnActivations, c, row) = DOMAIN learnActivations \cup {c}
        /\ Learn!Saved(learnActivations, c, row)[c] = row
        /\ \A d \in DOMAIN learnActivations \ {c} : Learn!Saved(learnActivations, c,
           row)[d] = learnActivations[d]
    BY DEF Learn!Saved
  <2> QED
    BY <2>1, <2>2
<1> QED
  BY <1>1, <1>2, <1>3, <1>4 DEF Learn!PromoteCandidate, Learn!Promotable

LEMMA LearnRollbackFacts ==
  ASSUME LearnTypeInv, NEW c \in PolicyCandidates, NEW independent, NEW m,
         Learn!RollbackCandidate(c, independent, m)
  PROVE  /\ c \in Learn!Promoted /\ learnActive = learnCandidates[c].policy /\ learnActivations[c].previous # Learn!Nobody
         /\ LearnMoves(c, "rolled_back") /\ Learn!Promoted' = Learn!Promoted \ {c}
         /\ learnActive' = learnActivations[c].previous
         /\ UNCHANGED <<learnParents, learnEvaluations, learnActivations, learnReadings>>
<1>1. c \in DOMAIN learnCandidates /\ learnCandidates[c].state = "promoted"
  BY DEF Learn!RollbackCandidate
<1>2. LearnMoves(c, "rolled_back")
  BY <1>1, LearnMovesFacts DEF Learn!RollbackCandidate, Learn!States
<1>3. Learn!Promoted' = Learn!Promoted \ {c} /\ c \in Learn!Promoted
  BY <1>1, <1>2 DEF Learn!Promoted, LearnMoves
<1> QED
  BY <1>2, <1>3 DEF Learn!RollbackCandidate

(* A written transition leaves the promoted ones alone.                    *)
LEMMA LearnWriteFacts ==
  ASSUME LearnTypeInv, NEW p \in Processes, Learn!WriteCandidate(p)
  PROVE  /\ Learn!Promoted' = Learn!Promoted
         /\ DOMAIN learnCandidates' = DOMAIN learnCandidates
         /\ learnCandidates' \in [DOMAIN learnCandidates' -> LearnRows]
         /\ \A d \in DOMAIN learnCandidates :
              learnCandidates'[d].policy = learnCandidates[d].policy
                /\ learnCandidates'[d].baseline = learnCandidates[d].baseline
<1>1. LearnReading(learnReadings[p])
  BY DEF LearnTypeInv, Learn!WriteCandidate
<1>2. CASE ~Learn!Unmoved(learnReadings[p])
  <2>1. UNCHANGED learnCandidates
    BY <1>2 DEF Learn!WriteCandidate
  <2> QED
    BY <2>1 DEF LearnTypeInv, Learn!Promoted
<1>3. CASE Learn!Unmoved(learnReadings[p])
  <2> DEFINE c == learnReadings[p].on  s == learnReadings[p].to
  <2>1. learnCandidates' = [learnCandidates EXCEPT ![c].state = s]
    BY <1>3 DEF Learn!WriteCandidate
  <2>2. c \in DOMAIN learnCandidates /\ s \in Learn!States /\ s # "promoted"
        /\ learnCandidates[c].state # "promoted"
    BY <1>1, <1>3 DEF LearnReading, Learn!Unmoved, Learn!States
  <2> HIDE DEF c, s
  <2>3. LearnMoves(c, s)
    BY <2>1, <2>2, LearnMovesFacts
  <2> QED
    BY <2>2, <2>3 DEF LearnMoves, Learn!Promoted
<1> QED
  BY <1>2, <1>3

LEMMA LearnTypeStep == LearnSensible /\ LearnTypeInv /\ [Learn!Next]_Learn!vars => LearnTypeInv'
<1> SUFFICES ASSUME LearnSensible, LearnTypeInv, [Learn!Next]_Learn!vars PROVE LearnTypeInv'
  OBVIOUS
<1>1. CASE UNCHANGED Learn!vars
  BY <1>1 DEF Learn!vars, LearnTypeInv, Learn!Promoted, LearnReading
<1>2. ASSUME NEW v \in PolicyVersions, NEW parent \in PolicyVersions \cup {Learn!Nobody},
             Learn!RegisterContextPolicy(v, parent)
      PROVE  LearnTypeInv'
  <2>1. UNCHANGED <<learnCandidates, learnEvaluations, learnActivations, learnActive,
        learnReadings>>
    BY <1>2 DEF Learn!RegisterContextPolicy
  <2> QED
    <3>1. /\ v \notin DOMAIN learnParents /\ parent \in DOMAIN learnParents \cup {Learn!Nobody}
          /\ DOMAIN learnParents' = DOMAIN learnParents \cup {v} /\ learnParents'[v] = parent
          /\ \A w \in DOMAIN learnParents : learnParents'[w] = learnParents[w]
      BY <1>2, LearnRegisterFacts
    <3>2. \A w \in DOMAIN learnParents' : learnParents'[w] \in DOMAIN learnParents' \cup {Learn!Nobody}
      BY <3>1 DEF LearnTypeInv
    <3>3. \A c \in DOMAIN learnCandidates :
            /\ learnCandidates[c].policy \in DOMAIN learnParents'
            /\ learnCandidates[c].baseline \in DOMAIN learnParents'
            /\ learnParents'[learnCandidates[c].policy] = learnCandidates[c].baseline
      BY <3>1 DEF LearnTypeInv
    <3>4. DOMAIN learnParents' \subseteq PolicyVersions
          /\ DOMAIN learnParents \subseteq DOMAIN learnParents'
      BY <3>1 DEF LearnTypeInv
    <3> QED
      BY <2>1, <3>2, <3>3, <3>4 DEF LearnTypeInv, Learn!Promoted, LearnReading
<1>3. ASSUME NEW c \in PolicyCandidates, NEW v \in PolicyVersions, NEW baseline \in PolicyVersions,
             Learn!CreatePolicyCandidate(c, v, baseline)
      PROVE  LearnTypeInv'
  <2>1. /\ UNCHANGED <<learnParents, learnEvaluations, learnActivations, learnActive,
           learnReadings>>
        /\ v \in DOMAIN learnParents /\ baseline \in DOMAIN learnParents
        /\ learnParents[v] = baseline
    BY <1>3 DEF Learn!CreatePolicyCandidate
  <2>2. /\ DOMAIN learnCandidates' = DOMAIN learnCandidates \cup {c}
        /\ learnCandidates' \in [DOMAIN learnCandidates' -> LearnRows]
        /\ learnCandidates'[c] = [policy |-> v, baseline |-> baseline, state |-> "candidate"]
        /\ \A d \in DOMAIN learnCandidates : learnCandidates'[d] = learnCandidates[d]
        /\ c \notin DOMAIN learnCandidates
    BY <1>3, LearnCreateFacts
  <2>3. Learn!Promoted' = Learn!Promoted
    BY <2>2 DEF Learn!Promoted
  <2>4. \A d \in DOMAIN learnCandidates' :
          /\ learnCandidates'[d].policy \in DOMAIN learnParents
          /\ learnCandidates'[d].baseline \in DOMAIN learnParents
          /\ learnParents[learnCandidates'[d].policy] = learnCandidates'[d].baseline
    <3>1. /\ learnCandidates'[c].policy \in DOMAIN learnParents
          /\ learnCandidates'[c].baseline \in DOMAIN learnParents
          /\ learnParents[learnCandidates'[c].policy] = learnCandidates'[c].baseline
      BY <2>1, <2>2
    <3> QED
      BY <2>2, <3>1 DEF LearnTypeInv
  <2> HIDE DEF LearnRows
  <2>5. DOMAIN learnCandidates' \subseteq PolicyCandidates
        /\ DOMAIN learnCandidates \subseteq DOMAIN learnCandidates'
    BY <2>2 DEF LearnTypeInv
  <2>6. \A p \in Processes : learnReadings[p] # Learn!NoReading => LearnReading(learnReadings[p])'
    BY <2>1, <2>5 DEF LearnTypeInv, LearnReading
  <2>7. learnCandidates' \in [DOMAIN learnCandidates' -> LearnRows]
    BY <2>2
  <2> QED
    BY <2>1, <2>3, <2>4, <2>5, <2>6, <2>7 DEF LearnTypeInv
<1>4. ASSUME NEW c \in PolicyCandidates, NEW independent, NEW improved, NEW m,
             Learn!AdmitEvaluation(c, independent, improved, m)
      PROVE  LearnTypeInv'
  <2>1. UNCHANGED <<learnParents, learnCandidates, learnActivations, learnActive, learnReadings>>
    BY <1>4 DEF Learn!AdmitEvaluation
  <2>2. DOMAIN learnEvaluations' \subseteq DOMAIN learnCandidates
    <3> DEFINE row == [improved |-> improved, baseline |-> m]
    <3>1. learnEvaluations' = Learn!Saved(learnEvaluations, c, row) /\ c \in DOMAIN learnCandidates
      BY <1>4 DEF Learn!AdmitEvaluation
    <3>2. DOMAIN Learn!Saved(learnEvaluations, c, row) = DOMAIN learnEvaluations \cup {c}
      BY DEF Learn!Saved
    <3> QED
      BY <3>1, <3>2 DEF LearnTypeInv
  <2> QED
    BY <2>1, <2>2 DEF LearnTypeInv, Learn!Promoted, LearnReading
<1>5. ASSUME NEW p \in Processes, NEW c \in PolicyCandidates,
             NEW target \in {"shadow", "experiment", "evaluated", "canary", "rejected"},
             Learn!ReadCandidate(p, c, target)
      PROVE  LearnTypeInv'
  <2>1. UNCHANGED <<learnParents, learnCandidates, learnEvaluations, learnActivations, learnActive>>
    BY <1>5 DEF Learn!ReadCandidate
  <2>2. learnCandidates[c].state # "promoted"
    BY <1>5 DEF Learn!ReadCandidate, Learn!Legal
  <2>3. DOMAIN learnReadings' = Processes
        /\ \A q \in Processes : learnReadings'[q] = learnReadings[q] \/
          learnReadings'[q] = [on |-> c, expected |-> learnCandidates[c].state, to |-> target]
    BY <1>5 DEF Learn!ReadCandidate, LearnTypeInv
  <2>4. LearnReading([on |-> c, expected |-> learnCandidates[c].state, to |-> target])
    BY <1>5, <2>2 DEF Learn!ReadCandidate, LearnReading
  <2> QED
    BY <2>1, <2>3, <2>4 DEF LearnTypeInv, Learn!Promoted, LearnReading
<1>6. ASSUME NEW p \in Processes, Learn!WriteCandidate(p) PROVE LearnTypeInv'
  <2>1. /\ UNCHANGED <<learnParents, learnEvaluations, learnActivations, learnActive>>
        /\ learnReadings' = [learnReadings EXCEPT ![p] = Learn!NoReading]
    BY <1>6 DEF Learn!WriteCandidate
  <2>2. DOMAIN learnReadings' = Processes
        /\ \A q \in Processes : learnReadings'[q] \in {learnReadings[q], Learn!NoReading}
    BY <2>1 DEF LearnTypeInv
  <2> QED
    BY <1>6, <2>1, <2>2, LearnWriteFacts DEF LearnTypeInv, LearnReading
<1>7. ASSUME NEW c \in PolicyCandidates, Learn!PromoteCandidate(c) PROVE LearnTypeInv'
  <2>1. /\ c \in DOMAIN learnCandidates
        /\ LearnMoves(c, "promoted") /\ Learn!Promoted' = Learn!Promoted \cup {c}
        /\ DOMAIN learnActivations' = DOMAIN learnActivations \cup {c}
        /\ learnActivations'[c] = [previous |-> learnActive, evaluation |-> learnEvaluations[c]]
        /\ \A d \in DOMAIN learnActivations \ {c} : learnActivations'[d] = learnActivations[d]
        /\ learnActive' = learnCandidates[c].policy
        /\ UNCHANGED <<learnParents, learnEvaluations, learnReadings>>
    BY <1>7, LearnPromoteFacts
  <2>2. learnActive' \in DOMAIN learnParents
    BY <2>1 DEF LearnTypeInv
  <2>3. \A d \in DOMAIN learnActivations' : learnActivations'[d].previous \in DOMAIN learnParents \cup {Learn!Nobody}
    <3>1. learnActivations'[c].previous = learnActive
      BY <2>1
    <3> QED
      BY <2>1, <3>1 DEF LearnTypeInv
  <2> HIDE DEF LearnRows
  <2> QED
    BY <2>1, <2>2, <2>3 DEF LearnTypeInv, LearnReading, LearnMoves
<1>8. ASSUME NEW c \in PolicyCandidates, NEW independent, NEW m,
      Learn!RollbackCandidate(c, independent, m)
      PROVE  LearnTypeInv'
  BY <1>8, LearnRollbackFacts DEF LearnTypeInv, LearnReading, LearnMoves
<1> QED
  BY <1>1, <1>2, <1>3, <1>4, <1>5, <1>6, <1>7, <1>8 DEF Learn!Next

(* Versions, candidates, policies and readings keep their types; a policy  *)
(* has the baseline it was proposed against as its parent.                 *)
THEOREM LearnTypeCorrect == ASSUME LearnSensible PROVE Learn!Spec => []Learn!TypeOK
<1>1. LearnTypeInv => Learn!TypeOK
  <2>1. ASSUME LearnTypeInv, NEW c \in DOMAIN learnCandidates
        PROVE learnCandidates[c].state \in Learn!States
    <3>1. learnCandidates[c] \in LearnRows
      BY <2>1 DEF LearnTypeInv
    <3> QED
      BY <3>1 DEF LearnRows
  <2> QED
    BY <2>1 DEF LearnTypeInv, Learn!TypeOK
<1> QED
  BY <1>1, LearnTypeInit, LearnTypeStep, PTL DEF Learn!Spec

-----------------------------------------------------------------------------
(* Promotions stack                                                        *)

(* A parent is registered before its child, so versions have a rank; what  *)
(* is promoted is no higher than what is active, and of any two promoted   *)
(* one replaced something no lower than the other.                         *)
LearnRanked(rank) ==
  /\ rank \in [PolicyVersions -> Nat]
  /\ \A v \in DOMAIN learnParents : learnParents[v] # Learn!Nobody
     => rank[learnParents[v]] < rank[v]
  /\ \A c \in Learn!Promoted : rank[Learn!Policy(c)] <= rank[learnActive]
  /\ \A c, d \in Learn!Promoted : c # d =>
       \/ learnActivations[c].previous # Learn!Nobody
          /\ rank[Learn!Policy(d)] <= rank[learnActivations[c].previous]
       \/ learnActivations[d].previous # Learn!Nobody
          /\ rank[Learn!Policy(c)] <= rank[learnActivations[d].previous]

LearnBorne == \A c \in Learn!Promoted : learnActivations[c].evaluation.improved

(* PromotionsStack, what bears them out apart.                             *)
LearnLinked ==
  /\ learnActive = Learn!Nobody => Learn!Promoted = {}
  /\ learnActive # Learn!Nobody => \E c \in Learn!Promoted : Learn!Policy(c) = learnActive
  /\ \A c \in Learn!Promoted :
       /\ learnActivations[c].previous \in {Learn!Nobody, learnCandidates[c].baseline}
       /\ Learn!Policy(c) = learnActive
          \/ \E d \in Learn!Promoted : learnActivations[d].previous = Learn!Policy(c)
       /\ learnActivations[c].previous = Learn!Nobody
          \/ \E d \in Learn!Promoted : Learn!Policy(d) = learnActivations[c].previous

LearnStackInv == LearnLinked /\ \E rank \in [PolicyVersions -> Nat] : LearnRanked(rank)

LEMMA LearnStackInit == Learn!Init => LearnStackInv /\ LearnBorne
<1> SUFFICES ASSUME Learn!Init PROVE LearnStackInv /\ LearnBorne
  OBVIOUS
<1>1. Learn!Promoted = {} /\ DOMAIN learnParents = {}
  BY DEF Learn!Init, Learn!Promoted
<1> DEFINE zero == [v \in PolicyVersions |-> 0]
<1>2. zero \in [PolicyVersions -> Nat] /\ LearnRanked(zero)
  BY <1>1 DEF LearnRanked
<1> QED
  BY <1>1, <1>2 DEF Learn!Init, LearnStackInv, LearnLinked, LearnBorne

(* What a promoted candidate replaced is below it.                         *)
LEMMA LearnBelow ==
  ASSUME LearnSensible, LearnTypeInv, LearnLinked, NEW rank, LearnRanked(rank),
    NEW c \in Learn!Promoted
  PROVE  /\ c \in DOMAIN learnCandidates /\ Learn!Policy(c) \in PolicyVersions /\ rank[Learn!Policy(c)] \in Nat
         /\ learnActivations[c].previous # Learn!Nobody =>
              /\ learnActivations[c].previous \in PolicyVersions
              /\ rank[learnActivations[c].previous] \in Nat
              /\ rank[learnActivations[c].previous] < rank[Learn!Policy(c)]
<1>1. c \in DOMAIN learnCandidates /\ learnCandidates[c].policy \in DOMAIN learnParents
      /\ learnCandidates[c].baseline \in DOMAIN learnParents
      /\ learnParents[learnCandidates[c].policy] = learnCandidates[c].baseline
  BY DEF LearnTypeInv, Learn!Promoted
<1>2. learnCandidates[c].policy \in PolicyVersions /\ learnCandidates[c].baseline \in PolicyVersions
      /\ learnCandidates[c].baseline # Learn!Nobody
  BY <1>1 DEF LearnTypeInv, LearnSensible
<1>3. rank[learnCandidates[c].baseline] < rank[learnCandidates[c].policy]
  BY <1>1, <1>2 DEF LearnRanked
<1>4. learnActivations[c].previous # Learn!Nobody
      => learnActivations[c].previous = learnCandidates[c].baseline
  BY DEF LearnLinked
<1> QED
  BY <1>1, <1>2, <1>3, <1>4 DEF Learn!Policy, LearnRanked

(* Steps that promote nothing and roll nothing back.                       *)
LearnKeeps ==
  /\ Learn!Promoted' = Learn!Promoted /\ UNCHANGED <<learnActivations, learnActive>>
  /\ \A c \in DOMAIN learnCandidates :
       learnCandidates'[c].policy = learnCandidates[c].policy
         /\ learnCandidates'[c].baseline = learnCandidates[c].baseline

LEMMA LearnKeepsLinked == LearnKeeps => (LearnLinked => LearnLinked') /\ (LearnBorne => LearnBorne')
<1> SUFFICES ASSUME LearnKeeps PROVE (LearnLinked => LearnLinked') /\ (LearnBorne => LearnBorne')
  OBVIOUS
<1>1. \A c \in Learn!Promoted : Learn!Policy(c)' = Learn!Policy(c)
      /\ learnCandidates'[c].baseline = learnCandidates[c].baseline
  BY DEF Learn!Policy, Learn!Promoted, LearnKeeps
<1>2. LearnLinked => LearnLinked'
  BY <1>1 DEF LearnLinked, LearnKeeps
<1>3. Learn!Promoted' = Learn!Promoted /\ learnActivations' = learnActivations
  BY DEF LearnKeeps
<1>4. LearnBorne => LearnBorne'
  BY <1>3, Zenon DEF LearnBorne
<1> QED
  BY <1>2, <1>4

LEMMA LearnKeepsRanked ==
  ASSUME LearnKeeps, NEW rank, LearnRanked(rank), UNCHANGED learnParents
  PROVE  LearnRanked(rank)'
<1>1. \A c \in Learn!Promoted : Learn!Policy(c)' = Learn!Policy(c)
  BY DEF Learn!Policy, Learn!Promoted, LearnKeeps
<1> QED
  BY <1>1 DEF LearnRanked, LearnKeeps

LEMMA LearnKeepsStack == LearnKeeps /\ UNCHANGED learnParents => (LearnStackInv => LearnStackInv')
  /\ (LearnBorne => LearnBorne')
<1> SUFFICES ASSUME LearnKeeps, UNCHANGED learnParents
    PROVE (LearnStackInv => LearnStackInv') /\ (LearnBorne => LearnBorne')
  OBVIOUS
<1>1. ASSUME LearnStackInv PROVE LearnStackInv'
  <2>1. PICK rank \in [PolicyVersions -> Nat] : LearnRanked(rank)
    BY <1>1 DEF LearnStackInv
  <2>2. LearnRanked(rank)' /\ LearnLinked'
    BY <1>1, <2>1, LearnKeepsRanked, LearnKeepsLinked DEF LearnStackInv
  <2> QED
    BY <2>2 DEF LearnStackInv
<1> QED
  BY <1>1, LearnKeepsLinked

(* A new version is put above its parent; nothing hangs below it yet.      *)
LEMMA LearnRegisterStack ==
  ASSUME LearnSensible, LearnTypeInv, LearnStackInv, NEW v \in PolicyVersions,
    NEW parent \in PolicyVersions \cup {Learn!Nobody},
         Learn!RegisterContextPolicy(v, parent)
  PROVE  LearnStackInv' /\ (LearnBorne => LearnBorne')
<1>1. PICK rank \in [PolicyVersions -> Nat] : LearnRanked(rank)
  BY DEF LearnStackInv
<1>2. /\ v \notin DOMAIN learnParents /\ parent \in DOMAIN learnParents \cup {Learn!Nobody}
      /\ DOMAIN learnParents' = DOMAIN learnParents \cup {v} /\ learnParents'[v] = parent
      /\ \A w \in DOMAIN learnParents : learnParents'[w] = learnParents[w]
  BY LearnRegisterFacts
<1>3. LearnKeeps
  BY DEF LearnKeeps, Learn!RegisterContextPolicy, Learn!Promoted
<1>4. DOMAIN learnParents \subseteq PolicyVersions
      /\ \A w \in DOMAIN learnParents : learnParents[w] \in DOMAIN learnParents \cup {Learn!Nobody}
  BY DEF LearnTypeInv
<1> DEFINE above == IF parent = Learn!Nobody THEN 0 ELSE rank[parent] + 1
           higher == [rank EXCEPT ![v] = above]
<1>5. above \in Nat
  BY <1>2, <1>4
<1>6. higher \in [PolicyVersions -> Nat] /\ higher[v] = above
      /\ \A w \in PolicyVersions \ {v} : higher[w] = rank[w]
  BY <1>5
<1> HIDE DEF higher
<1>7. \A w \in DOMAIN learnParents : w \in PolicyVersions /\ higher[w] = rank[w]
  BY <1>2, <1>4, <1>6
<1>8. \A w \in DOMAIN learnParents' : learnParents'[w] # Learn!Nobody
      => higher[learnParents'[w]] < higher[w]
  <2>1. learnParents'[v] # Learn!Nobody => higher[learnParents'[v]] < higher[v]
    BY <1>2, <1>4, <1>6, <1>7
  <2>2. ASSUME NEW w \in DOMAIN learnParents, learnParents'[w] # Learn!Nobody
        PROVE higher[learnParents'[w]] < higher[w]
    BY <1>1, <1>2, <1>4, <1>7, <2>2 DEF LearnRanked
  <2> QED
    BY <1>2, <2>1, <2>2
<1>9. \A c \in Learn!Promoted : Learn!Policy(c) \in DOMAIN learnParents
      /\ Learn!Policy(c)' = Learn!Policy(c)
      /\ learnActivations[c].previous \in DOMAIN learnParents \cup {Learn!Nobody}
  BY <1>3 DEF LearnTypeInv, Learn!Promoted, Learn!Policy, LearnKeeps
<1>10. learnActive \in DOMAIN learnParents \cup {Learn!Nobody}
       /\ (learnActive = Learn!Nobody => Learn!Promoted = {})
  BY DEF LearnTypeInv, LearnStackInv, LearnLinked
<1>11. \A c \in Learn!Promoted : higher[Learn!Policy(c)] <= higher[learnActive]
  BY <1>1, <1>7, <1>9, <1>10 DEF LearnRanked
<1>12. \A c, d \in Learn!Promoted : c # d =>
         \/ learnActivations[c].previous # Learn!Nobody
            /\ higher[Learn!Policy(d)] <= higher[learnActivations[c].previous]
         \/ learnActivations[d].previous # Learn!Nobody
            /\ higher[Learn!Policy(c)] <= higher[learnActivations[d].previous]
  BY <1>1, <1>7, <1>9 DEF LearnRanked
<1>13. LearnRanked(higher)'
  BY <1>3, <1>6, <1>8, <1>9, <1>11, <1>12 DEF LearnRanked, LearnKeeps
<1> QED
  BY <1>3, <1>6, <1>13, LearnKeepsLinked DEF LearnStackInv

(* A promotion goes on top: what it replaces was active.                   *)
LEMMA LearnPromoteStack ==
  ASSUME LearnSensible, LearnTypeInv, LearnStackInv, NEW c \in PolicyCandidates,
    Learn!PromoteCandidate(c)
  PROVE  LearnStackInv'
<1>1. PICK rank \in [PolicyVersions -> Nat] : LearnRanked(rank)
  BY DEF LearnStackInv
<1>2. /\ c \in DOMAIN learnCandidates /\ learnActive \in {Learn!Nobody, learnCandidates[c].baseline}
      /\ LearnMoves(c, "promoted") /\ Learn!Promoted' = Learn!Promoted \cup {c}
      /\ c \notin Learn!Promoted
      /\ learnActivations'[c] = [previous |-> learnActive, evaluation |-> learnEvaluations[c]]
      /\ \A d \in DOMAIN learnActivations \ {c} : learnActivations'[d] = learnActivations[d]
      /\ learnActive' = learnCandidates[c].policy /\ UNCHANGED learnParents
  BY LearnPromoteFacts
<1>3. learnActivations'[c].previous = learnActive
  BY <1>2
<1>4. \A d \in Learn!Promoted : d \in DOMAIN learnCandidates /\ d # c
      /\ learnActivations'[d] = learnActivations[d]
  BY <1>2 DEF LearnTypeInv, Learn!Promoted
<1>5. \A d \in DOMAIN learnCandidates : Learn!Policy(d)' = Learn!Policy(d)
      /\ learnCandidates'[d].baseline = learnCandidates[d].baseline
  BY <1>2 DEF LearnMoves, Learn!Policy
<1>6. learnActive' = Learn!Policy(c) /\ Learn!Policy(c) \in PolicyVersions
      /\ Learn!Policy(c) # Learn!Nobody
  BY <1>2 DEF LearnTypeInv, LearnSensible, Learn!Policy
<1>7. learnActive # Learn!Nobody => rank[learnActive] < rank[Learn!Policy(c)]
      /\ learnActive \in PolicyVersions
  <2>1. learnParents[learnCandidates[c].policy] = learnCandidates[c].baseline
        /\ learnCandidates[c].policy \in DOMAIN learnParents
        /\ learnCandidates[c].baseline \in PolicyVersions
    BY <1>2 DEF LearnTypeInv
  <2> QED
    BY <1>1, <1>2, <2>1 DEF LearnRanked, Learn!Policy
<1>8. LearnLinked
  BY DEF LearnStackInv
<1>9. \A d \in Learn!Promoted : learnActive # Learn!Nobody
      /\ rank[Learn!Policy(d)] <= rank[learnActive]
                          /\ rank[Learn!Policy(d)] \in Nat /\ Learn!Policy(d) \in PolicyVersions
  BY <1>1, <1>8, LearnBelow DEF LearnRanked, LearnLinked
<1>10. LearnLinked'
  <2>1. \A d \in Learn!Promoted' : learnActivations'[d].previous \in {Learn!Nobody,
        learnCandidates'[d].baseline}
    BY <1>2, <1>3, <1>4, <1>5, <1>8 DEF LearnLinked
  <2>2. \A d \in Learn!Promoted' : Learn!Policy(d)' = learnActive'
        \/ \E e \in Learn!Promoted' : learnActivations'[e].previous = Learn!Policy(d)'
    <3>1. ASSUME NEW d \in Learn!Promoted
          PROVE \E e \in Learn!Promoted' : learnActivations'[e].previous = Learn!Policy(d)'
      <4>1. Learn!Policy(d)' = Learn!Policy(d)
        BY <1>4, <1>5
      <4>2. CASE Learn!Policy(d) = learnActive
        BY <1>2, <1>3, <4>1, <4>2
      <4>3. CASE \E e \in Learn!Promoted : learnActivations[e].previous = Learn!Policy(d)
        BY <1>2, <1>4, <4>1, <4>3
      <4> QED
        BY <1>8, <4>2, <4>3 DEF LearnLinked
    <3> QED
      BY <1>2, <1>5, <1>6, <3>1
  <2>3. \A d \in Learn!Promoted' :
          learnActivations'[d].previous = Learn!Nobody
            \/ \E e \in Learn!Promoted' : Learn!Policy(e)' = learnActivations'[d].previous
    <3>1. learnActive # Learn!Nobody => \E e \in Learn!Promoted : Learn!Policy(e)' = learnActive
      BY <1>4, <1>5, <1>8 DEF LearnLinked
    <3>2. \A d \in Learn!Promoted :
            learnActivations'[d].previous = Learn!Nobody
              \/ \E e \in Learn!Promoted : Learn!Policy(e)' = learnActivations'[d].previous
      BY <1>4, <1>5, <1>8 DEF LearnLinked
    <3> QED
      BY <1>2, <1>3, <3>1, <3>2
  <2>4. learnActive' # Learn!Nobody /\ \E d \in Learn!Promoted' : Learn!Policy(d)' = learnActive'
    BY <1>2, <1>5, <1>6
  <2> QED
    BY <2>1, <2>2, <2>3, <2>4 DEF LearnLinked
<1>11. \A d \in Learn!Promoted' : rank[Learn!Policy(d)'] <= rank[learnActive']
  BY <1>1, <1>2, <1>4, <1>5, <1>6, <1>7, <1>9
<1>12. \A d \in Learn!Promoted : learnActivations'[c].previous # Learn!Nobody
       /\ rank[Learn!Policy(d)'] <= rank[learnActivations'[c].previous]
  BY <1>3, <1>4, <1>5, <1>9
<1>13. \A d, e \in Learn!Promoted : d # e =>
         \/ learnActivations'[d].previous # Learn!Nobody
            /\ rank[Learn!Policy(e)'] <= rank[learnActivations'[d].previous]
         \/ learnActivations'[e].previous # Learn!Nobody
            /\ rank[Learn!Policy(d)'] <= rank[learnActivations'[e].previous]
  BY <1>1, <1>4, <1>5 DEF LearnRanked
<1>14. LearnRanked(rank)'
  BY <1>1, <1>2, <1>11, <1>12, <1>13 DEF LearnRanked
<1> QED
  BY <1>1, <1>10, <1>14 DEF LearnStackInv

(* A rollback takes the top off: nothing promoted replaced it.             *)
LEMMA LearnRollbackStack ==
  ASSUME LearnSensible, LearnTypeInv, LearnStackInv, NEW c \in PolicyCandidates, NEW independent,
    NEW m,
         Learn!RollbackCandidate(c, independent, m)
  PROVE  LearnStackInv'
<1>1. PICK rank \in [PolicyVersions -> Nat] : LearnRanked(rank)
  BY DEF LearnStackInv
<1>2. /\ c \in Learn!Promoted /\ learnActive = learnCandidates[c].policy
      /\ learnActivations[c].previous # Learn!Nobody
      /\ LearnMoves(c, "rolled_back") /\ Learn!Promoted' = Learn!Promoted \ {c}
      /\ learnActive' = learnActivations[c].previous /\ UNCHANGED <<learnParents, learnActivations>>
  BY LearnRollbackFacts
<1>3. \A d \in DOMAIN learnCandidates : Learn!Policy(d)' = Learn!Policy(d)
      /\ learnCandidates'[d].baseline = learnCandidates[d].baseline
  BY <1>2 DEF LearnMoves, Learn!Policy
<1>4. Learn!Promoted \subseteq DOMAIN learnCandidates
  BY DEF Learn!Promoted
<1>5. LearnLinked
  BY DEF LearnStackInv
<1>6. \A d \in Learn!Promoted :
        /\ Learn!Policy(d) \in PolicyVersions /\ rank[Learn!Policy(d)] \in Nat
        /\ learnActivations[d].previous # Learn!Nobody =>
             /\ learnActivations[d].previous \in PolicyVersions
             /\ rank[learnActivations[d].previous] \in Nat
             /\ rank[learnActivations[d].previous] < rank[Learn!Policy(d)]
  BY <1>1, <1>5, LearnBelow
<1>7. learnActive = Learn!Policy(c) /\ rank[Learn!Policy(c)] \in Nat
      /\ \A d \in Learn!Promoted : rank[Learn!Policy(d)] <= rank[Learn!Policy(c)]
  BY <1>1, <1>2, <1>6 DEF Learn!Policy, LearnRanked
<1>8. \A d \in Learn!Promoted : learnActivations[d].previous # Learn!Nobody =>
        rank[learnActivations[d].previous] < rank[Learn!Policy(c)]
          /\ learnActivations[d].previous # Learn!Policy(c)
  BY <1>6, <1>7
<1>9. \A d \in Learn!Promoted \ {c} : rank[Learn!Policy(d)] <= rank[learnActivations[c].previous]
      /\ Learn!Policy(d) # Learn!Policy(c)
  <2>1. ASSUME NEW d \in Learn!Promoted \ {c}
        PROVE rank[Learn!Policy(d)] <= rank[learnActivations[c].previous]
    <3>1. \/ rank[Learn!Policy(d)] <= rank[learnActivations[c].previous]
          \/ learnActivations[d].previous # Learn!Nobody
             /\ rank[Learn!Policy(c)] <= rank[learnActivations[d].previous]
      BY <1>1, <1>2 DEF LearnRanked
    <3> QED
      BY <1>6, <1>7, <1>8, <3>1
  <2> QED
    BY <1>2, <1>6, <1>7, <2>1
<1>10. LearnLinked'
  <2>1. \A d \in Learn!Promoted' : learnActivations[d].previous \in {Learn!Nobody,
        learnCandidates'[d].baseline}
    BY <1>2, <1>3, <1>4, <1>5 DEF LearnLinked
  <2>2. \A d \in Learn!Promoted' : Learn!Policy(d)' = learnActive'
        \/ \E e \in Learn!Promoted' : learnActivations[e].previous = Learn!Policy(d)'
    <3>1. ASSUME NEW d \in Learn!Promoted \ {c} PROVE
            Learn!Policy(d) = learnActive'
              \/ \E e \in Learn!Promoted \ {c} : learnActivations[e].previous = Learn!Policy(d)
      <4>1. PICK e \in Learn!Promoted : learnActivations[e].previous = Learn!Policy(d)
        BY <1>5, <1>7, <1>9 DEF LearnLinked
      <4> QED
        BY <1>2, <4>1
    <3> QED
      BY <1>2, <1>3, <1>4, <3>1
  <2>3. \A d \in Learn!Promoted' :
          learnActivations[d].previous = Learn!Nobody
            \/ \E e \in Learn!Promoted' : Learn!Policy(e)' = learnActivations[d].previous
    <3>1. ASSUME NEW d \in Learn!Promoted \ {c}, learnActivations[d].previous # Learn!Nobody
          PROVE  \E e \in Learn!Promoted \ {c} : Learn!Policy(e) = learnActivations[d].previous
      <4>1. PICK e \in Learn!Promoted : Learn!Policy(e) = learnActivations[d].previous
        BY <1>5, <3>1 DEF LearnLinked
      <4> QED
        BY <1>8, <3>1, <4>1
    <3> QED
      BY <1>2, <1>3, <1>4, <3>1
  <2>4. learnActive' # Learn!Nobody /\ \E d \in Learn!Promoted' : Learn!Policy(d)' = learnActive'
    <3>1. PICK d \in Learn!Promoted : Learn!Policy(d) = learnActivations[c].previous
      BY <1>2, <1>5 DEF LearnLinked
    <3>2. d # c
      BY <1>2, <1>8, <3>1
    <3> QED
      BY <1>2, <1>3, <1>4, <3>1, <3>2
  <2> QED
    BY <1>2, <2>1, <2>2, <2>3, <2>4 DEF LearnLinked
<1>11. \A d \in Learn!Promoted' : rank[Learn!Policy(d)'] <= rank[learnActive']
  BY <1>2, <1>3, <1>4, <1>9
<1>12. \A d, e \in Learn!Promoted' : d # e =>
         \/ learnActivations[d].previous # Learn!Nobody
            /\ rank[Learn!Policy(e)'] <= rank[learnActivations[d].previous]
         \/ learnActivations[e].previous # Learn!Nobody
            /\ rank[Learn!Policy(d)'] <= rank[learnActivations[e].previous]
  BY <1>1, <1>2, <1>3, <1>4 DEF LearnRanked
<1>13. LearnRanked(rank)'
  BY <1>1, <1>2, <1>11, <1>12 DEF LearnRanked
<1> QED
  BY <1>1, <1>10, <1>13 DEF LearnStackInv

LEMMA LearnPromoteBorne ==
  ASSUME LearnTypeInv, LearnBorne, NEW c \in PolicyCandidates, Learn!PromoteCandidate(c)
  PROVE  LearnBorne'
<1>1. /\ learnEvaluations[c].improved
      /\ Learn!Promoted' = Learn!Promoted \cup {c} /\ c \notin Learn!Promoted
      /\ learnActivations'[c] = [previous |-> learnActive, evaluation |-> learnEvaluations[c]]
      /\ \A d \in DOMAIN learnActivations \ {c} : learnActivations'[d] = learnActivations[d]
  BY LearnPromoteFacts
<1>2. learnActivations'[c].evaluation = learnEvaluations[c]
  BY <1>1
<1>3. \A d \in Learn!Promoted : learnActivations'[d] = learnActivations[d]
  BY <1>1 DEF LearnTypeInv
<1>4. learnActivations'[c].evaluation.improved
  BY <1>1, <1>2, Zenon
<1>5. \A d \in Learn!Promoted : learnActivations'[d].evaluation.improved
  BY <1>3, Zenon DEF LearnBorne
<1> QED
  BY <1>1, <1>4, <1>5, Zenon DEF LearnBorne

LEMMA LearnStackStep == LearnSensible /\ LearnTypeInv /\ LearnStackInv /\ LearnBorne
  /\ [Learn!Next]_Learn!vars => LearnStackInv' /\ LearnBorne'
<1> SUFFICES ASSUME LearnSensible, LearnTypeInv, LearnStackInv, LearnBorne, [Learn!Next]_Learn!vars
    PROVE LearnStackInv' /\ LearnBorne'
  OBVIOUS
<1>1. CASE UNCHANGED Learn!vars
  <2>1. LearnKeeps /\ UNCHANGED learnParents
    BY <1>1 DEF Learn!vars, LearnKeeps, Learn!Promoted
  <2> QED
    BY <2>1, LearnKeepsStack
<1>2. ASSUME NEW v \in PolicyVersions, NEW parent \in PolicyVersions \cup {Learn!Nobody},
      Learn!RegisterContextPolicy(v, parent)
      PROVE  LearnStackInv' /\ LearnBorne'
  BY <1>2, LearnRegisterStack
<1>3. ASSUME NEW c \in PolicyCandidates, NEW v \in PolicyVersions, NEW baseline \in PolicyVersions,
             Learn!CreatePolicyCandidate(c, v, baseline)
      PROVE  LearnStackInv' /\ LearnBorne'
  <2>1. /\ DOMAIN learnCandidates' = DOMAIN learnCandidates \cup {c}
        /\ learnCandidates'[c] = [policy |-> v, baseline |-> baseline, state |-> "candidate"]
        /\ \A d \in DOMAIN learnCandidates : learnCandidates'[d] = learnCandidates[d]
    BY <1>3, LearnCreateFacts
  <2>2. LearnKeeps /\ UNCHANGED learnParents
    BY <1>3, <2>1 DEF LearnKeeps, Learn!Promoted, Learn!CreatePolicyCandidate
  <2> QED
    BY <2>2, LearnKeepsStack
<1>4. ASSUME NEW c \in PolicyCandidates, NEW independent, NEW improved, NEW m,
             Learn!AdmitEvaluation(c, independent, improved, m)
      PROVE  LearnStackInv' /\ LearnBorne'
  <2>1. LearnKeeps /\ UNCHANGED learnParents
    BY <1>4 DEF Learn!AdmitEvaluation, LearnKeeps, Learn!Promoted
  <2> QED
    BY <2>1, LearnKeepsStack
<1>5. ASSUME NEW p \in Processes, NEW c \in PolicyCandidates,
             NEW target \in {"shadow", "experiment", "evaluated", "canary", "rejected"},
             Learn!ReadCandidate(p, c, target)
      PROVE  LearnStackInv' /\ LearnBorne'
  <2>1. LearnKeeps /\ UNCHANGED learnParents
    BY <1>5 DEF Learn!ReadCandidate, LearnKeeps, Learn!Promoted
  <2> QED
    BY <2>1, LearnKeepsStack
<1>6. ASSUME NEW p \in Processes, Learn!WriteCandidate(p) PROVE LearnStackInv' /\ LearnBorne'
  <2>1. UNCHANGED <<learnParents, learnActivations, learnActive>>
    BY <1>6 DEF Learn!WriteCandidate
  <2>2. LearnKeeps /\ UNCHANGED learnParents
    BY <1>6, <2>1, LearnWriteFacts DEF LearnKeeps
  <2> QED
    BY <2>2, LearnKeepsStack
<1>7. ASSUME NEW c \in PolicyCandidates, Learn!PromoteCandidate(c)
      PROVE LearnStackInv' /\ LearnBorne'
  BY <1>7, LearnPromoteStack, LearnPromoteBorne
<1>8. ASSUME NEW c \in PolicyCandidates, NEW independent, NEW m,
      Learn!RollbackCandidate(c, independent, m)
      PROVE  LearnStackInv' /\ LearnBorne'
  <2>1. Learn!Promoted' \subseteq Learn!Promoted /\ learnActivations' = learnActivations
    BY <1>8, LearnRollbackFacts
  <2>2. LearnBorne'
    BY <2>1, Zenon DEF LearnBorne
  <2> QED
    BY <1>8, <2>2, LearnRollbackStack
<1> QED
  BY <1>1, <1>2, <1>3, <1>4, <1>5, <1>6, <1>7, <1>8 DEF Learn!Next

LEMMA LearnStackIsOne == LearnSensible /\ LearnTypeInv /\ LearnStackInv /\ LearnBorne
  => Learn!PromotionsStack
<1> SUFFICES ASSUME LearnSensible, LearnTypeInv, LearnStackInv, LearnBorne
    PROVE Learn!PromotionsStack
  OBVIOUS
<1>1. PICK rank \in [PolicyVersions -> Nat] : LearnRanked(rank)
  BY DEF LearnStackInv
<1>2. LearnLinked
  BY DEF LearnStackInv
<1>3. \A c \in Learn!Promoted :
        /\ rank[Learn!Policy(c)] \in Nat
        /\ learnActivations[c].previous # Learn!Nobody =>
             /\ rank[learnActivations[c].previous] \in Nat
             /\ rank[learnActivations[c].previous] < rank[Learn!Policy(c)]
  BY <1>1, <1>2, LearnBelow
<1>4. ASSUME NEW c \in Learn!Promoted, NEW d \in Learn!Promoted, c # d,
             learnActivations[c].previous # Learn!Nobody,
               rank[Learn!Policy(d)] <= rank[learnActivations[c].previous]
      PROVE  Learn!Policy(c) # Learn!Policy(d)
        /\ learnActivations[c].previous # learnActivations[d].previous
  BY <1>3, <1>4
<1>5. \A c, d \in Learn!Promoted : c # d =>
        Learn!Policy(c) # Learn!Policy(d)
          /\ learnActivations[c].previous # learnActivations[d].previous
  BY <1>1, <1>4 DEF LearnRanked
<1>6. \A c \in Learn!Promoted : learnActivations[c].evaluation.improved
  BY Zenon DEF LearnBorne
<1>7. /\ learnActive # Learn!Nobody => \E c \in Learn!Promoted : Learn!Policy(c) = learnActive
      /\ \A c \in Learn!Promoted :
           /\ learnActivations[c].previous \in {Learn!Nobody, learnCandidates[c].baseline}
           /\ Learn!Policy(c) = learnActive
              \/ \E d \in Learn!Promoted : learnActivations[d].previous = Learn!Policy(c)
           /\ learnActivations[c].previous = Learn!Nobody
              \/ \E d \in Learn!Promoted : Learn!Policy(d) = learnActivations[c].previous
  BY <1>2 DEF LearnLinked
<1> QED
  BY <1>5, <1>6, <1>7, Zenon DEF Learn!PromotionsStack

(* However transitions of several processes interleave with promotions and *)
(* rollbacks, what is promoted forms a stack under the active policy, each *)
(* borne out by its evaluation, so rolling back retraces the promotions.   *)
THEOREM LearnPromotionsRetrace == ASSUME LearnSensible PROVE Learn!Spec => []Learn!PromotionsStack
<1>1. Learn!Init /\ LearnSensible => LearnTypeInv /\ LearnStackInv /\ LearnBorne
  BY LearnTypeInit, LearnStackInit
<1>2. LearnTypeInv /\ LearnStackInv /\ LearnBorne => Learn!PromotionsStack
  BY LearnStackIsOne
<1> QED
  BY <1>1, <1>2, LearnTypeStep, LearnStackStep, PTL DEF Learn!Spec

(* The variables of the instance, by either name. *)
LEMMA LearnVarsAre == LearnVars' = LearnVars <=> Learn!vars' = Learn!vars
BY DEF LearnVars, Learn!vars

-----------------------------------------------------------------------------
(***************************************************************************)
(* A release rests on the bytes its manifest names, and the runs compared  *)
(* differ in their condition only, for any reports, reviewers and plans;   *)
(* and a worse sample never turns a refusal of an SLO into an admission.   *)
(*                                                                         *)
(* Why it holds: the provenance is taken of what was hashed, not of the    *)
(* files; and a planned run is admitted once, as it was planned.           *)
(***************************************************************************)
(* The instance counts as FiniteSets does. *)
LEMMA RelCounts ==
  \A S : (Rel!IsFiniteSet(S) <=> IsFiniteSet(S)) /\ Rel!Cardinality(S) = Cardinality(S)
BY DEF Rel!IsFiniteSet, IsFiniteSet, Rel!Cardinality, Cardinality


(* What a sample can be: any scenario, and any measurements.               *)
RelTaken == {s \in Sampled : s.completed \in BOOLEAN /\ s.latency \in Nat /\ s.memory \in Nat}

(* What the theorems assume of the constants. *)
RelSensible ==
  /\ MaxRewrites \in Nat /\ MaxReceipts \in Nat /\ MaxSamples \in Nat
  /\ Sampled \subseteq RelTaken /\ Cycles \in Nat /\ Tolerance \in Nat

RelResults == [of : Rel!PlannedRuns, ran : Rel!PlannedRuns, environment : Environments,
  success : BOOLEAN]

RelTypeInv ==
  /\ relShelf \in [Rel!Slots -> PipelineFiles \cup {NoPipelineFile}]
  /\ DOMAIN relSnapshots \subseteq Rel!Slots
  /\ relProgress \in {"reports", "reviews", "artifacts", "seal", "done"}
  /\ relRewritten \in 0 .. MaxRewrites
  /\ relReceipts \in Seq(RelResults) /\ Len(relReceipts) <= MaxReceipts
  /\ relSamples \in Seq(Sampled) /\ Len(relSamples) <= MaxSamples

(* What is vouched for is what was hashed. *)
RelReleaseInv ==
  \A s \in DOMAIN relRelease.provenance :
    relRelease.provenance[s] = relRelease.hashes[s] /\ relRelease.hashes[s].sealed

(* Every planned run has one receipt at most, of a run as it was planned.  *)
RelReceiptsInv ==
  /\ \A i \in DOMAIN relReceipts : Rel!Matches(relReceipts[i])
  /\ \A i, j \in DOMAIN relReceipts : relReceipts[i].of = relReceipts[j].of => i = j

RelInv == RelTypeInv /\ RelReleaseInv /\ RelReceiptsInv

LEMMA RelAppended ==
  ASSUME NEW S, NEW s \in Seq(S), NEW x \in S
  PROVE  /\ Append(s, x) \in Seq(S) /\ Len(Append(s, x)) = Len(s) + 1
         /\ DOMAIN Append(s, x) = DOMAIN s \cup {Len(s) + 1}
         /\ \A i \in DOMAIN s : Append(s, x)[i] = s[i]
         /\ Append(s, x)[Len(s) + 1] = x
OBVIOUS

LEMMA RelInitial == RelSensible /\ Rel!Init => RelInv
<1> SUFFICES ASSUME RelSensible, Rel!Init PROVE RelInv
  OBVIOUS
<1>1. relReceipts \in Seq(RelResults) /\ Len(relReceipts) = 0 /\ relSamples \in Seq(Sampled)
      /\ Len(relSamples) = 0
      /\ DOMAIN relReceipts = {} /\ DOMAIN relSnapshots = {}
  BY DEF Rel!Init
<1>2. DOMAIN relRelease.provenance = {}
  BY DEF Rel!Init, Rel!Unsealed
<1> QED  BY <1>1, <1>2 DEF Rel!Init, RelInv, RelTypeInv, RelReleaseInv, RelReceiptsInv, RelSensible

LEMMA RelReadStep ==
  ASSUME RelInv, NEW slots \in SUBSET Rel!Slots, NEW next \in {"reviews", "artifacts", "seal"},
         Rel!Read(slots, next)
  PROVE  RelInv'
<1>1. RelTypeInv'
  BY DEF RelInv, RelTypeInv, Rel!Read
<1>2. RelReleaseInv' /\ RelReceiptsInv'
  BY DEF RelInv, RelReleaseInv, RelReceiptsInv, Rel!Matches, Rel!Read
<1> QED  BY <1>1, <1>2 DEF RelInv

LEMMA RelSealStep == ASSUME RelInv, Rel!Seal PROVE RelInv'
<1>1. RelTypeInv'
  BY DEF RelInv, RelTypeInv, Rel!Seal
<1>2. RelReleaseInv'
  <2>1. relRelease' = [hashes |-> relSnapshots, provenance |-> Rel!Provenance]
    BY DEF Rel!Seal
  <2> QED  BY <2>1 DEF RelReleaseInv, Rel!Provenance
<1>3. RelReceiptsInv'
  BY DEF RelInv, RelReceiptsInv, Rel!Matches, Rel!Seal
<1> QED  BY <1>1, <1>2, <1>3 DEF RelInv

LEMMA RelRewriteStep ==
  ASSUME RelSensible, RelInv, NEW s \in Rel!Slots, NEW doc \in PipelineFiles \cup {NoPipelineFile},
    Rel!Rewrite(s, doc)
  PROVE  RelInv'
<1>1. RelTypeInv'
  BY DEF RelInv, RelTypeInv, Rel!Rewrite, RelSensible
<1>2. RelReleaseInv' /\ RelReceiptsInv'
  BY DEF RelInv, RelReleaseInv, RelReceiptsInv, Rel!Matches, Rel!Rewrite
<1> QED  BY <1>1, <1>2 DEF RelInv

LEMMA RelSubmitStep == ASSUME RelSensible, RelInv, Rel!Submit PROVE RelInv'
<1>1. PICK of \in Rel!PlannedRuns, ran \in Rel!PlannedRuns, environment \in Environments,
      success \in BOOLEAN :
        LET receipt == [of |-> of, ran |-> ran, environment |-> environment, success |-> success] IN
        /\ Len(relReceipts) < MaxReceipts
        /\ Rel!Matches(receipt) /\ \A i \in DOMAIN relReceipts : relReceipts[i].of # of
        /\ relReceipts' = Append(relReceipts, receipt)
        /\ UNCHANGED <<relShelf, relSnapshots, relProgress, relRelease, relRewritten, relSamples>>
  BY DEF Rel!Submit
<1> DEFINE receipt == [of |-> of, ran |-> ran, environment |-> environment, success |-> success]
<1>2. receipt \in RelResults /\ receipt.of = of
  BY DEF RelResults
<1>3. /\ Len(relReceipts) < MaxReceipts
      /\ Rel!Matches(receipt) /\ \A i \in DOMAIN relReceipts : relReceipts[i].of # of
      /\ relReceipts' = Append(relReceipts, receipt)
      /\ UNCHANGED <<relShelf, relSnapshots, relProgress, relRelease, relRewritten, relSamples>>
  BY <1>1
<1> HIDE DEF receipt
<1>4. relReceipts \in Seq(RelResults) /\ Len(relReceipts) \in Nat
  BY DEF RelInv, RelTypeInv
<1>5. /\ relReceipts' \in Seq(RelResults) /\ Len(relReceipts') = Len(relReceipts) + 1
      /\ DOMAIN relReceipts' = DOMAIN relReceipts \cup {Len(relReceipts) + 1}
      /\ \A i \in DOMAIN relReceipts : relReceipts'[i] = relReceipts[i]
      /\ relReceipts'[Len(relReceipts) + 1] = receipt
  BY <1>2, <1>3, <1>4, RelAppended
<1>6. RelTypeInv'
  BY <1>3, <1>4, <1>5 DEF RelInv, RelTypeInv, RelSensible
<1>7. RelReleaseInv'
  BY <1>3 DEF RelInv, RelReleaseInv
<1>8. \A i \in DOMAIN relReceipts' : Rel!Matches(relReceipts'[i])
  BY <1>3, <1>5 DEF RelInv, RelReceiptsInv
<1>9. \A i, j \in DOMAIN relReceipts' : relReceipts'[i].of = relReceipts'[j].of => i = j
  BY <1>2, <1>3, <1>5 DEF RelInv, RelReceiptsInv
<1>10. RelReceiptsInv'
  BY <1>8, <1>9 DEF RelReceiptsInv, Rel!Matches
<1> QED  BY <1>6, <1>7, <1>10 DEF RelInv

LEMMA RelSampleStep == ASSUME RelSensible, RelInv, NEW s \in Sampled, Rel!Sample(s) PROVE RelInv'
<1>1. relSamples \in Seq(Sampled) /\ Len(relSamples) \in Nat
  BY DEF RelInv, RelTypeInv
<1>2. relSamples' \in Seq(Sampled) /\ Len(relSamples') = Len(relSamples) + 1
  BY <1>1, RelAppended DEF Rel!Sample
<1>3. RelTypeInv'
  BY <1>1, <1>2 DEF RelInv, RelTypeInv, Rel!Sample, RelSensible
<1>4. RelReleaseInv' /\ RelReceiptsInv'
  BY DEF RelInv, RelReleaseInv, RelReceiptsInv, Rel!Matches, Rel!Sample
<1> QED  BY <1>3, <1>4 DEF RelInv

LEMMA RelInductive == ASSUME RelSensible PROVE RelInv /\ [Rel!Next]_Rel!vars => RelInv'
<1> SUFFICES ASSUME RelInv, [Rel!Next]_Rel!vars PROVE RelInv'
  OBVIOUS
<1>1. ASSUME Rel!ReadReports \/ Rel!ReadReviews \/ Rel!HashArtifacts
      PROVE  RelInv'
  BY <1>1, RelReadStep DEF Rel!ReadReports, Rel!ReadReviews, Rel!HashArtifacts, Rel!Slots
<1>2. CASE Rel!ReleaseNext
  BY <1>1, <1>2, RelSealStep, RelRewriteStep DEF Rel!ReleaseNext
<1>3. CASE UNCHANGED Rel!vars
  BY <1>3 DEF Rel!vars, RelInv, RelTypeInv, RelReleaseInv, RelReceiptsInv, Rel!Matches
<1> QED  BY <1>2, <1>3, RelSubmitStep, RelSampleStep DEF Rel!Next

LEMMA RelInvariant == ASSUME RelSensible PROVE Rel!Spec => []RelInv
<1>1. Rel!Init => RelInv
  BY RelInitial
<1>2. RelInv /\ [Rel!Next]_Rel!vars => RelInv'
  BY RelInductive
<1> QED  BY <1>1, <1>2, PTL DEF Rel!Spec

(* The files, what was read of them and what was measured keep their types.*)
THEOREM RelTypeCorrect == ASSUME RelSensible PROVE Rel!Spec => []Rel!TypeOK
<1>1. RelInv => Rel!TypeOK
  BY DEF RelInv, RelTypeInv, Rel!TypeOK
<1> QED  BY <1>1, RelInvariant, PTL

LEMMA RelPromotionFacts == RelInv => Rel!PromotedOnWhatPassed
<1> SUFFICES ASSUME RelInv, Rel!Admitted, NEW s \in Reports \cup Reviewers
             PROVE  LET doc == relRelease.hashes[s] IN
                    /\ doc.sealed /\ doc.commit = ReleaseCommit /\ doc.status = "passed"
                    /\ doc.kind = IF s \in Reports THEN "report" ELSE "review"
  BY DEF Rel!PromotedOnWhatPassed
<1>1. Rel!Vouched(s, IF s \in Reports THEN "report" ELSE "review")
  BY DEF Rel!Admitted
<1>2. s \in DOMAIN relRelease.provenance /\ relRelease.provenance[s] = relRelease.hashes[s]
      /\ relRelease.hashes[s].sealed
  BY <1>1 DEF Rel!Vouched, RelInv, RelReleaseInv
<1> QED  BY <1>1, <1>2 DEF Rel!Vouched

LEMMA RelPairFacts == RelInv => Rel!PairsAreCausal
<1> SUFFICES ASSUME RelInv, NEW b \in Conditions, NEW c \in Conditions, b # c
             PROVE  /\ \A pair \in Rel!Compared(b, c) :
                         LET baseline == relReceipts[pair[1]].ran
                             candidate == relReceipts[pair[2]].ran
                         IN baseline.seed = candidate.seed /\ baseline.condition = b
                           /\ candidate.condition = c
                    /\ \A p, q \in Rel!Compared(b, c) : (p[1] = q[1] \/ p[2] = q[2]) => p = q
  BY DEF Rel!PairsAreCausal
<1>1. \A i \in DOMAIN relReceipts :
        /\ relReceipts[i].of \in Rel!PlannedRuns
        /\ relReceipts[i].ran.condition = relReceipts[i].of.condition
        /\ relReceipts[i].ran.seed = relReceipts[i].of.seed
  <2>1. \A i \in DOMAIN relReceipts : relReceipts[i] \in RelResults /\ Rel!Matches(relReceipts[i])
    BY DEF RelInv, RelTypeInv, RelReceiptsInv
  <2> QED  BY <2>1 DEF Rel!Matches, RelResults
<1>2. ASSUME NEW pair \in Rel!Compared(b, c)
      PROVE  /\ pair \in (DOMAIN relReceipts) \X (DOMAIN relReceipts)
             /\ pair[1] \in DOMAIN relReceipts /\ pair[2] \in DOMAIN relReceipts
             /\ relReceipts[pair[1]].of.condition = b /\ relReceipts[pair[2]].of.condition = c
             /\ relReceipts[pair[1]].of.seed = relReceipts[pair[2]].of.seed
  BY <1>2 DEF Rel!Compared
<1>3. ASSUME NEW i \in DOMAIN relReceipts, NEW j \in DOMAIN relReceipts,
             relReceipts[i].of.condition = relReceipts[j].of.condition,
               relReceipts[i].of.seed = relReceipts[j].of.seed
      PROVE  i = j
  <2>1. relReceipts[i].of = relReceipts[j].of
    BY <1>1, <1>3 DEF Rel!PlannedRuns
  <2> QED  BY <2>1 DEF RelInv, RelReceiptsInv
<1>4. ASSUME NEW p \in Rel!Compared(b, c), NEW q \in Rel!Compared(b, c), p[1] = q[1] \/ p[2] = q[2]
      PROVE  p = q
  <2>1. p[1] = q[1] /\ p[2] = q[2]
    BY <1>2, <1>3, <1>4
  <2> QED  BY <1>2, <2>1
<1> QED  BY <1>1, <1>2, <1>4

(* Nothing is promoted that did not pass, and what is compared is causal.  *)
THEOREM RelPromotionIsEarned == ASSUME RelSensible
  PROVE Rel!Spec => [](Rel!PromotedOnWhatPassed /\ Rel!PairsAreCausal)
BY RelInvariant, RelPromotionFacts, RelPairFacts, PTL

-----------------------------------------------------------------------------
LEMMA RelLeastNumber ==
  ASSUME NEW T, T \in SUBSET Nat, T # {}
  PROVE  \E x \in T : \A y \in T : x <= y
<1>1. PICK x \in T : \A y \in T : ~ (<<y, x>> \in OpToRel(<, Nat))
  BY NatLessThanWellFounded, WFMin, Zenon
<1>2. \A y \in T : ~ (y < x)
  BY <1>1 DEF OpToRel
<1> QED
  BY <1>2

LEMMA RelOrder ==
  ASSUME NEW x \in Nat, NEW y \in Nat, NEW z \in Nat, x <= y, y <= z
  PROVE  x <= z
OBVIOUS

(* The values of a sequence have a greatest one: the first place where     *)
(* those so far have none would be a place after one where they have.      *)
LEMMA RelGreatestValue ==
  ASSUME NEW n \in Nat \ {0}, NEW s \in [1..n -> Nat]
  PROVE  \E g \in 1..n : \A i \in 1..n : s[i] <= s[g]
<1> DEFINE Has(m) == \E g \in 1..m : \A i \in 1..m : s[i] <= s[g]
           T == {m \in 1..n : ~Has(m)}
<1> SUFFICES ASSUME T # {} PROVE FALSE
  <2> n \in 1..n
    OBVIOUS
  <2> QED  OBVIOUS
<1>1. PICK m \in T : \A k \in T : m <= k
  <2> T \in SUBSET Nat
    OBVIOUS
  <2> HIDE DEF T
  <2> QED  BY RelLeastNumber
<1>2. m \in 1..n /\ ~Has(m)
  OBVIOUS
<1>3. CASE m = 1
  BY <1>2, <1>3
<1>4. CASE m # 1
  <2>1. m - 1 \in 1..n /\ Has(m - 1)
    <3>1. m - 1 \in 1..n /\ ~(m <= m - 1)
      BY <1>2, <1>4
    <3> QED  BY <1>1, <3>1
  <2>2. PICK g \in 1..(m - 1) : \A i \in 1..(m - 1) : s[i] <= s[g]
    BY <2>1
  <2>3. \A i \in 1..m : i \in 1..(m - 1) \/ i = m
    BY <1>2
  <2>4. g \in 1..m /\ m \in 1..m /\ s[g] \in Nat /\ s[m] \in Nat /\ \A i \in 1..m : s[i] \in Nat
    BY <1>2, <2>1
  <2>5. CASE s[m] <= s[g]
    BY <1>2, <2>2, <2>3, <2>4, <2>5
  <2>6. CASE s[g] <= s[m]
    <3>1. \A i \in 1..m : s[i] <= s[m]
      <4> SUFFICES ASSUME NEW i \in 1..m PROVE s[i] <= s[m]
        OBVIOUS
      <4>1. CASE i \in 1..(m - 1)
        <5>1. s[i] <= s[g] /\ s[i] \in Nat
          BY <2>2, <2>4, <4>1
        <5> QED  BY <2>4, <2>6, <5>1, RelOrder, Zenon
      <4>2. CASE i = m
        BY <2>4, <4>2
      <4> QED  BY <2>3, <4>1, <4>2
    <3> QED  BY <1>2, <2>4, <3>1
  <2> QED  BY <2>4, <2>5, <2>6
<1> QED  BY <1>3, <1>4

(* A part of a range counts no more than a part that has it all.           *)
LEMMA RelCountsGrow ==
  ASSUME NEW n \in Nat, NEW U, NEW V, U \subseteq V, V \subseteq 1..n
  PROVE  Rel!Cardinality(U) \in Nat /\ Rel!Cardinality(V) \in Nat
    /\ Rel!Cardinality(U) <= Rel!Cardinality(V)
<1>1. Rel!IsFiniteSet(1..n)
  BY RelCounts, FS_Interval
<1>2. Rel!IsFiniteSet(V)
  BY <1>1, RelCounts, FS_Subset
<1> QED  BY <1>2, RelCounts, FS_Subset, FS_CardinalityType

(* What is at a place is a value, and the least with enough below it.      *)
LEMMA RelSortedIs ==
  ASSUME NEW n \in Nat, NEW s \in [1..n -> Nat], NEW place \in 1..n
  PROVE  /\ \E i \in 1..n : Rel!Sorted(s, place) = s[i]
         /\ Rel!Sorted(s, place) \in Nat
         /\ Rel!Cardinality({i \in 1..n : s[i] <= Rel!Sorted(s, place)}) >= place
         /\ \A j \in 1..n : Rel!Cardinality({i \in 1..n : s[i] <= s[j]}) >= place
            => Rel!Sorted(s, place) <= s[j]
<1> DEFINE Upto(v) == {i \in 1..n : s[i] <= v}
           T == {v \in {s[i] : i \in 1..n} : Rel!Cardinality(Upto(v)) >= place}
<1>1. Rel!Sorted(s, place) = Rel!Min(T)
  BY DEF Rel!Sorted
<1>2. T \in SUBSET Nat
  OBVIOUS
<1>3. T # {}
  <2>1. PICK g \in 1..n : \A i \in 1..n : s[i] <= s[g]
    <3>1. n \in Nat \ {0}
      OBVIOUS
    <3> QED  BY <3>1, RelGreatestValue
  <2>2. Upto(s[g]) = 1..n
    BY <2>1
  <2>3. Rel!Cardinality(1..n) = n
    <3>1. 1 \in Int /\ n \in Int /\ ~(1 > n)
      OBVIOUS
    <3> QED  BY <3>1, RelCounts, FS_Interval
  <2> HIDE DEF Upto
  <2>4. s[g] \in T
    BY <2>2, <2>3
  <2> QED  BY <2>4
<1>4. PICK x \in T : \A y \in T : x <= y
  <2> HIDE DEF T
  <2> QED  BY <1>2, <1>3, RelLeastNumber
<1>5. Rel!Min(T) \in T /\ \A y \in T : Rel!Min(T) <= y
  <2> HIDE DEF T
  <2> QED  BY <1>4 DEF Rel!Min
<1> HIDE DEF Upto
<1>6. \A j \in 1..n : Rel!Cardinality(Upto(s[j])) >= place => s[j] \in T
  OBVIOUS
<1>7. (\E i \in 1..n : Rel!Min(T) = s[i]) /\ Rel!Cardinality(Upto(Rel!Min(T))) >= place
  BY <1>5
<1> HIDE DEF T
<1> QED  BY <1>1, <1>2, <1>5, <1>6, <1>7 DEF Upto

(* Greater values have nothing less at any place.                          *)
LEMMA RelSortedIsMonotone ==
  ASSUME NEW n \in Nat, NEW s \in [1..n -> Nat], NEW t \in [1..n -> Nat], NEW place \in 1..n,
         \A i \in 1..n : t[i] <= s[i]
  PROVE  Rel!Sorted(t, place) <= Rel!Sorted(s, place)
<1> DEFINE b == Rel!Sorted(s, place)
           U == {i \in 1..n : s[i] <= b}
           W == {i \in 1..n : t[i] <= b}
<1>1. b \in Nat /\ Rel!Cardinality(U) >= place /\ place \in Nat /\ place # 0
  <2>1. b \in Nat /\ Rel!Cardinality(U) >= place
    BY RelSortedIs
  <2>2. place \in Nat /\ place # 0
    OBVIOUS
  <2> QED  BY <2>1, <2>2
<1> HIDE DEF b
<1>2. U \subseteq W
  <2> SUFFICES ASSUME NEW i \in 1..n, s[i] <= b PROVE t[i] <= b
    OBVIOUS
  <2>1. t[i] <= s[i] /\ t[i] \in Nat /\ s[i] \in Nat
    OBVIOUS
  <2> QED  BY <1>1, <2>1
<1>3. Rel!Cardinality(W) \in Nat /\ Rel!Cardinality(W) >= place
  <2>1. W \subseteq 1..n
    OBVIOUS
  <2> HIDE DEF U, W
  <2>2. Rel!Cardinality(U) \in Nat /\ Rel!Cardinality(W) \in Nat
        /\ Rel!Cardinality(U) <= Rel!Cardinality(W)
    BY <1>2, <2>1, RelCountsGrow
  <2> QED  BY <1>1, <2>2
<1>4. W # {}
  <2> HIDE DEF W
  <2>1. Rel!Cardinality({}) = 0
    BY RelCounts, FS_EmptySet
  <2>2. Rel!Cardinality(W) # 0
    <3> HIDE DEF U
    <3> QED  BY <1>1, <1>3
  <2> QED  BY <2>1, <2>2
<1> DEFINE T == {b - t[i] : i \in W}
<1>5. T \in SUBSET Nat /\ T # {}
  <2>1. \A i \in W : b - t[i] \in Nat
    <3> SUFFICES ASSUME NEW i \in 1..n, t[i] <= b PROVE b - t[i] \in Nat
      OBVIOUS
    <3> t[i] \in Nat
      OBVIOUS
    <3> QED  BY <1>1
  <2> HIDE DEF W
  <2> QED  BY <1>4, <2>1
<1>6. PICK x \in T : \A y \in T : x <= y
  <2> HIDE DEF T
  <2> QED  BY <1>5, RelLeastNumber
<1>7. PICK g \in W : x = b - t[g]
  BY <1>6
<1>8. \A i \in W : t[i] <= t[g]
  <2> SUFFICES ASSUME NEW i \in W PROVE t[i] <= t[g]
    OBVIOUS
  <2>1. b - t[i] \in T /\ t[i] \in Nat /\ t[g] \in Nat
    BY <1>1
  <2>2. b - t[g] <= b - t[i]
    BY <1>6, <1>7, <2>1
  <2> QED  BY <1>1, <2>1, <2>2
<1>9. {i \in 1..n : t[i] <= t[g]} = W
  <2>1. \A i \in 1..n : t[i] <= t[g] => t[i] <= b
    <3>1. t[g] <= b /\ t[g] \in Nat /\ \A i \in 1..n : t[i] \in Nat
      OBVIOUS
    <3> QED  BY <1>1, <3>1
  <2> QED  BY <1>8, <2>1
<1>10. g \in 1..n /\ t[g] <= b /\ t[g] \in Nat
  OBVIOUS
<1>11. Rel!Sorted(t, place) <= t[g] /\ Rel!Sorted(t, place) \in Nat
  <2> HIDE DEF W
  <2> QED  BY <1>3, <1>9, <1>10, RelSortedIs
<1> QED  BY <1>1, <1>10, <1>11 DEF b

LEMMA RelMedianIsMonotone ==
  ASSUME NEW n \in Nat \ {0}, NEW s \in [1..n -> Nat], NEW t \in [1..n -> Nat],
         Len(s) = n, Len(t) = n, \A i \in 1..n : t[i] <= s[i]
  PROVE  Rel!TwiceMedian(t) <= Rel!TwiceMedian(s) /\ Rel!TwiceMedian(t) \in Nat
    /\ Rel!TwiceMedian(s) \in Nat
<1>1. \A place \in 1..n : /\ Rel!Sorted(t, place) <= Rel!Sorted(s, place)
                          /\ Rel!Sorted(t, place) \in Nat /\ Rel!Sorted(s, place) \in Nat
  BY RelSortedIs, RelSortedIsMonotone
<1>2. CASE n % 2 = 1
  <2>1. (n + 1) \div 2 \in 1..n
    OBVIOUS
  <2>2. Rel!TwiceMedian(t) = 2 * Rel!Sorted(t, (n + 1) \div 2)
        /\ Rel!TwiceMedian(s) = 2 * Rel!Sorted(s, (n + 1) \div 2)
    BY <1>2 DEF Rel!TwiceMedian
  <2> QED  BY <1>1, <2>1, <2>2
<1>3. CASE n % 2 # 1
  <2>1. n \div 2 \in 1..n /\ n \div 2 + 1 \in 1..n
    BY <1>3
  <2>2. /\ Rel!TwiceMedian(t) = Rel!Sorted(t, n \div 2) + Rel!Sorted(t, n \div 2 + 1)
        /\ Rel!TwiceMedian(s) = Rel!Sorted(s, n \div 2) + Rel!Sorted(s, n \div 2 + 1)
    BY <1>3 DEF Rel!TwiceMedian
  <2> QED  BY <1>1, <2>1, <2>2
<1> QED  BY <1>2, <1>3

LEMMA RelSloFacts == RelSensible /\ RelInv => Rel!SloIsMonotone
<1> SUFFICES ASSUME RelSensible, RelInv, NEW i \in DOMAIN relSamples, NEW bad \in Sampled,
                    Rel!Worse(bad, relSamples[i]), Rel!SloAdmitted([relSamples EXCEPT ![i] = bad])
             PROVE  Rel!SloAdmitted(relSamples)
  BY DEF Rel!SloIsMonotone
<1> DEFINE n == Len(relSamples)
           other == [relSamples EXCEPT ![i] = bad]
<1>1. n \in Nat \ {0} /\ DOMAIN relSamples = 1..n /\ \A j \in 1..n : relSamples[j] \in RelTaken
  <2>1. relSamples \in Seq(Sampled) /\ Sampled \subseteq RelTaken
    BY DEF RelInv, RelTypeInv, RelSensible
  <2> QED  BY <2>1
<1>2. /\ DOMAIN other = 1..n /\ Len(other) = n /\ other[i] = bad /\ bad \in RelTaken
      /\ \A j \in 1..n : j # i => other[j] = relSamples[j]
  <2>1. relSamples \in Seq(Sampled) /\ Sampled \subseteq RelTaken
    BY DEF RelInv, RelTypeInv, RelSensible
  <2> QED  BY <1>1, <2>1
<1> HIDE DEF n, other
<1>3. /\ n >= Cycles
      /\ \A j, k \in 1..n : other[j].scenario = other[k].scenario => j = k
      /\ \A j \in 1..n : other[j].latency # 0 /\ other[j].memory # 0
      /\ 2 * Rel!Cardinality({j \in 1..n : other[j].completed}) >= n
      /\ Rel!TwiceMedian([j \in 1..n |-> other[j].latency]) <= 2 * Tolerance
      /\ \A j \in 1..n : other[j].memory <= Tolerance
  BY <1>2 DEF Rel!SloAdmitted, other
<1>4. /\ bad.scenario = relSamples[i].scenario /\ (bad.completed => relSamples[i].completed)
      /\ relSamples[i].latency # 0 /\ relSamples[i].latency <= bad.latency
      /\ relSamples[i].memory # 0 /\ relSamples[i].memory <= bad.memory
  <2>1. bad.latency # 0 /\ bad.memory # 0
    BY <1>1, <1>2, <1>3
  <2>2. relSamples[i].latency \in Nat /\ relSamples[i].memory \in Nat /\ bad.latency \in Nat
        /\ bad.memory \in Nat
    BY <1>1, <1>2 DEF RelTaken
  <2> QED  BY <2>1, <2>2 DEF Rel!Worse
<1>5. /\ \A j \in 1..n : relSamples[j].scenario = other[j].scenario
      /\ \A j \in 1..n : other[j].completed => relSamples[j].completed
      /\ \A j \in 1..n : relSamples[j].latency # 0 /\ relSamples[j].memory # 0
  BY <1>1, <1>2, <1>3, <1>4
<1>6. /\ \A j \in 1..n : relSamples[j].latency \in Nat /\ other[j].latency \in Nat
      /\ \A j \in 1..n : relSamples[j].memory \in Nat /\ other[j].memory \in Nat
  <2>1. \A j \in 1..n : relSamples[j] \in RelTaken /\ other[j] \in RelTaken
    BY <1>1, <1>2
  <2> QED  BY <2>1 DEF RelTaken
<1>7. \A j \in 1..n : relSamples[j].latency <= other[j].latency
      /\ relSamples[j].memory <= other[j].memory
  <2> SUFFICES ASSUME NEW j \in 1..n
               PROVE  relSamples[j].latency <= other[j].latency
                 /\ relSamples[j].memory <= other[j].memory
    OBVIOUS
  <2>1. CASE j = i
    BY <1>2, <1>4, <2>1
  <2>2. CASE j # i
    BY <1>2, <1>6, <2>2
  <2> QED  BY <2>1, <2>2
<1>8. 2 * Rel!Cardinality({j \in 1..n : relSamples[j].completed}) >= n
  <2> DEFINE U == {j \in 1..n : other[j].completed}
             V == {j \in 1..n : relSamples[j].completed}
  <2>1. U \subseteq V /\ V \subseteq 1..n
    BY <1>5
  <2>2. 2 * Rel!Cardinality(U) >= n
    BY <1>3
  <2> HIDE DEF U, V
  <2>3. 2 * Rel!Cardinality(V) >= n
    BY <1>1, <2>1, <2>2, RelCountsGrow
  <2> QED  BY <2>3 DEF V
<1>9. Rel!TwiceMedian([j \in 1..n |-> relSamples[j].latency]) <= 2 * Tolerance
  <2> DEFINE s == [j \in 1..n |-> other[j].latency]
             t == [j \in 1..n |-> relSamples[j].latency]
  <2>1. s \in [1..n -> Nat] /\ t \in [1..n -> Nat] /\ Len(s) = n /\ Len(t) = n
    BY <1>1, <1>6
  <2>2. \A j \in 1..n : t[j] <= s[j]
    BY <1>7
  <2>3. Rel!TwiceMedian(s) <= 2 * Tolerance /\ Tolerance \in Nat
    BY <1>3 DEF RelSensible
  <2> HIDE DEF s, t
  <2>4. Rel!TwiceMedian(t) <= Rel!TwiceMedian(s) /\ Rel!TwiceMedian(t) \in Nat
        /\ Rel!TwiceMedian(s) \in Nat
    BY <1>1, <2>1, <2>2, RelMedianIsMonotone
  <2>5. Rel!TwiceMedian(t) <= 2 * Tolerance
    BY <2>3, <2>4
  <2> QED  BY <2>5 DEF t
<1>10. \A j \in 1..n : relSamples[j].memory <= Tolerance
  <2>1. Tolerance \in Nat
    BY DEF RelSensible
  <2> QED  BY <1>3, <1>6, <1>7, <2>1
<1>11. \A j, k \in 1..n : relSamples[j].scenario = relSamples[k].scenario => j = k
  BY <1>3, <1>5
<1> QED  BY <1>1, <1>3, <1>5, <1>8, <1>9, <1>10, <1>11 DEF Rel!SloAdmitted, n

(* A sample that did not complete, took longer, used more or was not       *)
(* measured never turns a refusal into an admission.                       *)
THEOREM RelSloIsAlwaysMonotone == ASSUME RelSensible PROVE Rel!Spec => []Rel!SloIsMonotone
<1>1. RelInv => Rel!SloIsMonotone
  BY RelSloFacts
<1> QED  BY <1>1, RelInvariant, PTL

(* The variables of the instance, by either name. *)
LEMMA RelVarsAre == RelVars' = RelVars <=> Rel!vars' = Rel!vars
BY DEF RelVars, Rel!vars

-----------------------------------------------------------------------------
(* What holds of SemanticUi for any elements and keys, and any page.       *)
(* The instance counts as FiniteSets does. *)
LEMMA UiCounts ==
  \A S : (Ui!IsFiniteSet(S) <=> IsFiniteSet(S)) /\ Ui!Cardinality(S) = Cardinality(S)
BY DEF Ui!IsFiniteSet, IsFiniteSet, Ui!Cardinality, Cardinality


(* Keys are sequences, of letters or of whatever else.                     *)
UiSensible == \E S : Nat \subseteq S /\ Keys \subseteq Seq(S) \ {Ui!NoHandle}

(* A walk over i elements.                                       *)
UiWalked(w, i) ==
  /\ w.page \in Seq(Ui!Element) /\ Len(w.page) = i
  /\ w.claimed = {w.page[j].mark : j \in 1 .. i} /\ Ui!IsFiniteSet(w.claimed)
  /\ \A j, k \in 1 .. i : w.page[j].mark = w.page[k].mark => j = k
  /\ \A j \in 1 .. i : w.page[j].mark \in Ui!Handles /\ w.page[j].of = w.page[j].node
  /\ w.counter \in Nat
  /\ DOMAIN w.registry \subseteq Elements
     /\ \A n \in DOMAIN w.registry : w.registry[n] \in Ui!Handles

UiInv ==
  /\ uiPage \in Seq(Ui!Element) /\ uiCounter \in Nat
  /\ DOMAIN uiRegistry \subseteq Elements
     /\ \A n \in DOMAIN uiRegistry : uiRegistry[n] \in Ui!Handles
  /\ Ui!NoHandle \notin DOMAIN uiMeant
  /\ \A i \in DOMAIN uiPage :
       uiPage[i].mark # Ui!NoHandle => uiPage[i].mark \in DOMAIN uiMeant
         /\ uiMeant[uiPage[i].mark] = uiPage[i].of
  /\ uiReply.ok => uiReply.node = uiReply.meant
  /\ uiDelta = Ui!Delta(uiBefore, uiPrevious)

-----------------------------------------------------------------------------
LEMMA UiLeastNumber ==
  ASSUME NEW T, T \in SUBSET Nat, T # {}
  PROVE  \E x \in T : \A y \in T : x <= y
<1>1. PICK x \in T : \A y \in T : ~ (<<y, x>> \in OpToRel(<, Nat))
  BY NatLessThanWellFounded, WFMin, Zenon
<1>2. \A y \in T : ~ (y < x)
  BY <1>1 DEF OpToRel
<1> QED
  BY <1>2

LEMMA UiNumbersDiffer ==
  ASSUME UiSensible, NEW key \in Ui!Called, NEW m \in Nat, NEW n \in Nat
  PROVE  /\ Ui!Numbered(key, m) # Ui!NoHandle /\ key # Ui!NoHandle
         /\ Ui!Numbered(key, m) = Ui!Numbered(key, n) => m = n
<1>1. PICK S : Nat \subseteq S /\ Keys \subseteq Seq(S) \ {Ui!NoHandle}
  BY DEF UiSensible
<1>2. key \in Seq(S \cup {"auto"}) /\ key # <<>>
  <2>1. CASE key = Ui!Auto
    BY <2>1 DEF Ui!Auto
  <2>2. CASE key \in Keys
    <3>1. key \in Seq(S) /\ key # <<>>
      BY <1>1, <2>2 DEF Ui!NoHandle
    <3> QED
      BY <3>1
  <2> QED
    BY <2>1, <2>2 DEF Ui!Called
<1>3. /\ Append(key, m)[Len(key) + 1] = m /\ Append(key, n)[Len(key) + 1] = n
      /\ Len(Append(key, m)) = Len(key) + 1 /\ Len(key) \in Nat
  BY <1>1, <1>2
<1>4. Append(key, m) # <<>>
  BY <1>3
<1> QED
  BY <1>2, <1>3, <1>4 DEF Ui!Numbered, Ui!NoHandle

LEMMA UiNoHandleIsNone == UiSensible => Ui!NoHandle \notin Ui!Handles
BY UiNumbersDiffer DEF Ui!Handles

(* As many numbers are tried as have been taken, and one more.             *)
LEMMA UiANumberIsFree ==
  ASSUME UiSensible, NEW w, w.counter \in Nat, Ui!IsFiniteSet(w.claimed), NEW key \in Ui!Called
  PROVE  Ui!Min(Ui!Free(w, key)) \in Nat \ {0}
    /\ Ui!Numbered(key, Ui!Min(Ui!Free(w, key))) \notin w.claimed
<1> DEFINE F == Ui!Free(w, key)
           R == w.counter + 1 .. w.counter + 1 + Ui!Cardinality(w.claimed)
           f == [n \in R |-> Ui!Numbered(key, n)]
<1>1. Ui!Cardinality(w.claimed) \in Nat
  BY UiCounts, FS_CardinalityType
<1>2. Ui!IsFiniteSet(R) /\ Ui!Cardinality(R) = Ui!Cardinality(w.claimed) + 1
  <2> DEFINE a == w.counter + 1
             b == w.counter + 1 + Ui!Cardinality(w.claimed)
  <2>1. a \in Int /\ b \in Int /\ ~(a > b) /\ b - a + 1 = Ui!Cardinality(w.claimed) + 1
    BY <1>1
  <2>2. R = a .. b
    OBVIOUS
  <2> HIDE DEF a, b
  <2>3. Ui!IsFiniteSet(a .. b) /\ Ui!Cardinality(a .. b) = b - a + 1
    BY <2>1, UiCounts, FS_Interval
  <2> QED
    BY <2>1, <2>2, <2>3
<1>3. F \subseteq Nat \ {0}
  BY <1>1 DEF Ui!Free
<1>4. F # {}
  <2> SUFFICES ASSUME F = {} PROVE FALSE
    OBVIOUS
  <2>1. \A n \in R : Ui!Numbered(key, n) \in w.claimed
    BY DEF Ui!Free
  <2>2. f \in [R -> w.claimed]
    BY <2>1
  <2>3. \E x, y \in R : x # y /\ f[x] = f[y]
    <3> HIDE DEF f, R
    <3> QED
      BY <1>1, <1>2, <2>2, UiCounts, FS_PigeonHole
  <2>4. R \subseteq Nat
    BY <1>1
  <2>5. PICK x \in R, y \in R : x # y /\ f[x] = f[y]
    BY <2>3
  <2>6. Ui!Numbered(key, x) = Ui!Numbered(key, y)
    BY <2>5
  <2> QED
    BY <2>4, <2>5, <2>6, UiNumbersDiffer
<1> HIDE DEF F
<1>5. \E x \in F : \A y \in F : x <= y
  BY <1>3, <1>4, UiLeastNumber
<1>6. Ui!Min(F) \in F
  BY <1>5 DEF Ui!Min
<1>7. \A n \in F : Ui!Numbered(key, n) \notin w.claimed
  BY DEF F, Ui!Free
<1> QED
  BY <1>3, <1>6, <1>7 DEF F

LEMMA UiAllocateWalks ==
  ASSUME UiSensible, NEW i \in Nat, NEW w, UiWalked(w, i), NEW e \in Ui!Element
  PROVE  UiWalked(Ui!Allocate(w, e), i + 1)
<1> DEFINE known == e.node \in DOMAIN w.registry /\ w.registry[e.node] \notin w.claimed
           bare == e.key # Ui!Auto /\ e.key \notin w.claimed
           n == Ui!Min(Ui!Free(w, e.key))
           h == IF known THEN w.registry[e.node] ELSE IF bare THEN e.key ELSE Ui!Numbered(e.key, n)
           r == [node |-> e.node, of |-> e.node, key |-> e.key, text |-> e.text, mark |-> h]
           d == Ui!Allocate(w, e)
<1>1. e.key \in Ui!Called /\ e.node \in Elements /\ e.text \in {0, 1}
  BY DEF Ui!Element
<1>2. n \in Nat \ {0} /\ Ui!Numbered(e.key, n) \notin w.claimed
  BY <1>1, UiANumberIsFree DEF UiWalked
<1>3. h \in Ui!Handles /\ h \notin w.claimed
  <2>1. CASE known
    <3>1. w.registry[e.node] \in Ui!Handles
      BY <2>1 DEF UiWalked
    <3> QED
      BY <2>1, <3>1
  <2>2. CASE ~known /\ bare
    <3>1. e.key \in Ui!Handles
      BY <1>1, <2>2 DEF Ui!Handles
    <3> QED
      BY <2>2, <3>1
  <2>3. CASE ~known /\ ~bare
    <3>1. Ui!Numbered(e.key, n) \in Ui!Handles
      BY <1>1, <1>2 DEF Ui!Handles
    <3> QED
      BY <1>2, <2>3, <3>1
  <2> QED
    BY <2>1, <2>2, <2>3
<1>4. /\ d.claimed = w.claimed \cup {h} /\ d.page = Append(w.page, r)
      /\ d.counter = IF known \/ bare THEN w.counter ELSE n
      /\ d.registry = [x \in DOMAIN w.registry \cup {e.node} |-> IF x = e.node THEN h ELSE w.registry[x]]
  BY DEF Ui!Allocate
<1> HIDE DEF n, h, d, known, bare
<1>5. r \in Ui!Element /\ r.mark = h /\ r.of = r.node
  BY <1>1, <1>3 DEF Ui!Element
<1> HIDE DEF r
<1>6. /\ d.page \in Seq(Ui!Element) /\ Len(d.page) = i + 1
      /\ d.page[i + 1] = r /\ \A j \in 1 .. i : d.page[j] = w.page[j]
  BY <1>4, <1>5 DEF UiWalked
<1>7. d.claimed = {d.page[j].mark : j \in 1 .. i + 1}
  <2>1. 1 .. i + 1 = (1 .. i) \cup {i + 1}
    OBVIOUS
  <2> QED
    BY <1>4, <1>5, <1>6, <2>1 DEF UiWalked
<1>8. Ui!IsFiniteSet(d.claimed)
  <2>1. Ui!IsFiniteSet(w.claimed)
    BY DEF UiWalked
  <2> QED
    BY <1>4, <2>1, UiCounts, FS_AddElement
<1>9. ASSUME NEW j \in 1 .. i + 1, NEW k \in 1 .. i + 1, d.page[j].mark = d.page[k].mark
      PROVE  j = k
  <2>1. \A m \in 1 .. i : w.page[m].mark \in w.claimed
    BY DEF UiWalked
  <2>2. \A m \in 1 .. i : d.page[m].mark # h
    BY <1>3, <1>6, <2>1
  <2>3. d.page[i + 1].mark = h
    BY <1>5, <1>6
  <2>4. CASE j \in 1 .. i /\ k \in 1 .. i
    BY <1>6, <1>9, <2>4 DEF UiWalked
  <2> QED
    BY <1>9, <2>2, <2>3, <2>4
<1>10. \A j \in 1 .. i + 1 : d.page[j].mark \in Ui!Handles /\ d.page[j].of = d.page[j].node
  BY <1>3, <1>5, <1>6 DEF UiWalked
<1>11. d.counter \in Nat
  BY <1>2, <1>4 DEF UiWalked
<1>12. DOMAIN d.registry \subseteq Elements
       /\ \A x \in DOMAIN d.registry : d.registry[x] \in Ui!Handles
  BY <1>1, <1>3, <1>4 DEF UiWalked
<1> QED
  BY <1>6, <1>7, <1>8, <1>9, <1>10, <1>11, <1>12 DEF UiWalked, d

(* The walk is what its definition says, and it makes no handle twice.     *)
LEMMA UiWalkIsDefined ==
  ASSUME uiPage \in Seq(Ui!Element)
  PROVE  Ui!Walk = [i \in 0 .. Len(uiPage) |->
                  IF i = 0 THEN [claimed |-> {}, counter |-> uiCounter, registry |-> uiRegistry,
                    page |-> <<>>]
                  ELSE Ui!Allocate(Ui!Walk[i - 1], uiPage[i])]
<1> DEFINE s == [claimed |-> {}, counter |-> uiCounter, registry |-> uiRegistry, page |-> <<>>]
           Def(f, n) == f = [i \in 0 .. n |-> IF i = 0 THEN s ELSE Ui!Allocate(f[i - 1], uiPage[i])]
           T == {n \in Nat : ~\E f : Def(f, n)}
<1>1. T = {}
  <2> SUFFICES ASSUME T # {} PROVE FALSE
    OBVIOUS
  <2>1. PICK n \in T : \A m \in T : n <= m
    BY UiLeastNumber
  <2>2. n # 0
    <3>1. Def([i \in 0 .. 0 |-> s], 0)
      OBVIOUS
    <3> QED
      BY <3>1
  <2>3. n \in Nat /\ n - 1 \in Nat /\ n - 1 \notin T
    <3>1. n \in Nat
      OBVIOUS
    <3> HIDE DEF T
    <3> QED
      BY <2>1, <2>2, <3>1
  <2>4. \E f : Def(f, n - 1)
    BY <2>3
  <2>5. PICK f : Def(f, n - 1)
    BY <2>4
  <2> DEFINE g == [i \in 0 .. n |-> IF i = n THEN Ui!Allocate(f[n - 1], uiPage[n]) ELSE f[i]]
  <2>6. \A i \in 0 .. n : g[i] = IF i = 0 THEN s ELSE Ui!Allocate(g[i - 1], uiPage[i])
    <3> SUFFICES ASSUME NEW i \in 0 .. n
                 PROVE  g[i] = IF i = 0 THEN s ELSE Ui!Allocate(g[i - 1], uiPage[i])
      OBVIOUS
    <3>1. CASE i = n
      <4>1. g[i] = Ui!Allocate(f[n - 1], uiPage[n]) /\ g[i - 1] = f[n - 1]
        BY <2>2, <2>3, <3>1
      <4> QED
        BY <2>2, <3>1, <4>1
    <3>2. CASE i # n
      <4>1. i \in 0 .. n - 1
        BY <2>2, <3>2
      <4>2. g[i] = f[i] /\ (i # 0 => g[i - 1] = f[i - 1])
        BY <3>2, <4>1
      <4>3. f[i] = IF i = 0 THEN s ELSE Ui!Allocate(f[i - 1], uiPage[i])
        BY <2>5, <4>1
      <4> QED
        BY <4>2, <4>3
    <3> QED
      BY <3>1, <3>2
  <2>7. Def(g, n)
    <3>1. g = [i \in 0 .. n |-> g[i]]
      OBVIOUS
    <3> HIDE DEF g
    <3> QED
      BY <2>6, <3>1
  <2> QED
    BY <2>7
<1>2. \E f : Def(f, Len(uiPage))
  <2>1. Len(uiPage) \in Nat
    OBVIOUS
  <2>2. Len(uiPage) \notin T
    BY <1>1
  <2> QED
    BY <2>1, <2>2
<1> HIDE DEF s
<1> QED
  BY <1>2, Zenon DEF Ui!Walk, s

LEMMA UiWalkIsSound == UiSensible /\ UiInv => UiWalked(Ui!Extract, Len(uiPage))
<1> SUFFICES ASSUME UiSensible, UiInv PROVE UiWalked(Ui!Extract, Len(uiPage))
  OBVIOUS
<1>1. uiPage \in Seq(Ui!Element) /\ Len(uiPage) \in Nat /\ DOMAIN uiPage = 1 .. Len(uiPage)
  BY DEF UiInv
<1> DEFINE s == [claimed |-> {}, counter |-> uiCounter, registry |-> uiRegistry, page |-> <<>>]
           T == {n \in 0 .. Len(uiPage) : ~UiWalked(Ui!Walk[n], n)}
<1>2. \A i \in 0 .. Len(uiPage) : Ui!Walk[i] = IF i = 0 THEN s ELSE Ui!Allocate(Ui!Walk[i - 1],
      uiPage[i])
  <2> HIDE DEF Ui!Walk
  <2>1. Ui!Walk = [i \in 0 .. Len(uiPage) |-> IF i = 0 THEN s ELSE Ui!Allocate(Ui!Walk[i - 1],
        uiPage[i])]
    BY <1>1, UiWalkIsDefined
  <2> HIDE DEF s
  <2> QED
    BY <2>1
<1>3. UiWalked(s, 0)
  <2>1. Ui!IsFiniteSet({})
    BY UiCounts, FS_EmptySet
  <2> QED
    BY <2>1 DEF UiWalked, UiInv
<1>4. \A n \in Nat : UiWalked(Ui!Walk[n], n) /\ n + 1 <= Len(uiPage)
      => UiWalked(Ui!Walk[n + 1], n + 1)
  <2> SUFFICES ASSUME NEW n \in Nat, UiWalked(Ui!Walk[n], n), n + 1 <= Len(uiPage)
               PROVE  UiWalked(Ui!Walk[n + 1], n + 1)
    OBVIOUS
  <2>1. n + 1 \in 0 .. Len(uiPage) /\ n + 1 # 0 /\ n + 1 - 1 = n /\ uiPage[n + 1] \in Ui!Element
    BY <1>1
  <2>2. Ui!Walk[n + 1] = Ui!Allocate(Ui!Walk[n], uiPage[n + 1])
    BY <1>2, <2>1
  <2> QED
    BY <2>1, <2>2, UiAllocateWalks
<1>5. T = {}
  <2> SUFFICES ASSUME T # {} PROVE FALSE
    OBVIOUS
  <2>1. T \in SUBSET Nat
    BY <1>1
  <2>2. PICK n \in T : \A m \in T : n <= m
    BY <2>1, UiLeastNumber
  <2>3. n \in 0 .. Len(uiPage) /\ n \in Nat /\ ~UiWalked(Ui!Walk[n], n)
    BY <1>1
  <2>4. Ui!Walk[0] = s
    <3>1. 0 \in 0 .. Len(uiPage)
      BY <1>1
    <3> QED
      BY <1>2, <3>1
  <2>5. n # 0
    BY <1>3, <2>3, <2>4
  <2>6. n - 1 \notin T
    <3> HIDE DEF T
    <3> QED
      BY <2>2, <2>3
  <2>7. n - 1 \in Nat /\ n - 1 \in 0 .. Len(uiPage) /\ n - 1 + 1 = n /\ n - 1 + 1 <= Len(uiPage)
    BY <1>1, <2>3, <2>5
  <2>8. UiWalked(Ui!Walk[n - 1], n - 1)
    BY <2>6, <2>7
  <2>9. UiWalked(Ui!Walk[n - 1 + 1], n - 1 + 1)
    BY <1>4, <2>7, <2>8
  <2> QED
    BY <2>3, <2>7, <2>9
<1>6. Len(uiPage) \in 0 .. Len(uiPage)
  BY <1>1
<1> QED
  BY <1>5, <1>6 DEF Ui!Extract

-----------------------------------------------------------------------------
LEMMA UiListingIsOfThePage ==
  ASSUME NEW p \in Seq(Ui!Element), \A j, k \in DOMAIN p : p[j].mark = p[k].mark => j = k
  PROVE  /\ DOMAIN Ui!Listing(p) = {p[i].mark : i \in DOMAIN p}
         /\ \A i \in DOMAIN p : Ui!Listing(p)[p[i].mark].node = p[i].node
<1>1. ASSUME NEW i \in DOMAIN p
      PROVE  Ui!Listing(p)[p[i].mark].node = p[i].node
  <2> DEFINE Final(j) == p[j].mark = p[i].mark /\ \A k \in (j + 1)..Len(p) : p[k].mark # p[i].mark
  <2>1. i \in 1 .. Len(p) /\ Len(p) \in Nat /\ DOMAIN p = 1 .. Len(p)
    OBVIOUS
  <2>2. \A k \in (i + 1)..Len(p) : p[k].mark # p[i].mark
    BY <2>1
  <2>3. \E j \in DOMAIN p : Final(j)
    BY <2>2
  <2>4. \A j \in DOMAIN p : Final(j) => j = i
    OBVIOUS
  <2>5. (CHOOSE j \in DOMAIN p : Final(j)) = i
    <3> HIDE DEF Final
    <3> QED
      BY <2>3, <2>4
  <2>6. p[i].mark \in {p[k].mark : k \in DOMAIN p}
    OBVIOUS
  <2> QED
    BY <2>5, <2>6 DEF Ui!Listing
<1> QED
  BY <1>1 DEF Ui!Listing

(* The walk, and after it an observation of page p: each element is shown  *)
(* under a handle that is its own.                                         *)
LEMMA UiObserveKeeps ==
  ASSUME UiSensible, UiInv, NEW p \in Seq(Ui!Element), Ui!ObserveAs(p), Len(p) = Len(uiPage),
         \A i \in DOMAIN p : /\ p[i].mark = Ui!Extract.page[i].mark /\ p[i].of = Ui!Extract.page[i].of
                             /\ p[i].node = Ui!Extract.page[i].node,
         uiReply'.ok => uiReply'.node = uiReply'.meant
  PROVE  UiInv'
<1>1. UiWalked(Ui!Extract, Len(uiPage)) /\ DOMAIN p = 1 .. Len(uiPage)
  BY UiWalkIsSound
<1> DEFINE x == Ui!Extract
           listing == Ui!Listing(p)
<1>2. /\ uiPage' = p /\ uiRegistry' = x.registry /\ uiCounter' = x.counter
      /\ uiPrevious' = listing /\ uiBefore' = uiPrevious /\ uiDelta' = Ui!Delta(uiPrevious, listing)
      /\ uiMeant' = [h \in DOMAIN uiMeant \cup DOMAIN listing |->
                    IF h \in DOMAIN listing THEN listing[h].node ELSE uiMeant[h]]
  BY DEF Ui!ObserveAs
<1>3. \A j, k \in DOMAIN p : p[j].mark = p[k].mark => j = k
  BY <1>1 DEF UiWalked
<1>4. /\ DOMAIN listing = {p[i].mark : i \in DOMAIN p}
      /\ \A i \in DOMAIN p : listing[p[i].mark].node = p[i].node
  BY <1>3, UiListingIsOfThePage
<1>5. \A i \in DOMAIN p : p[i].mark \in Ui!Handles /\ p[i].of = p[i].node
  BY <1>1 DEF UiWalked
<1>6. /\ x.counter \in Nat /\ DOMAIN x.registry \subseteq Elements
      /\ \A n \in DOMAIN x.registry : x.registry[n] \in Ui!Handles
  BY <1>1 DEF UiWalked
<1> HIDE DEF x, listing
<1>7. \A i \in DOMAIN p : p[i].mark \in DOMAIN uiMeant' /\ uiMeant'[p[i].mark] = p[i].of
  BY <1>2, <1>4, <1>5
<1>8. Ui!NoHandle \notin DOMAIN uiMeant'
  BY <1>2, <1>4, <1>5, UiNoHandleIsNone DEF UiInv
<1>9. (uiDelta = Ui!Delta(uiBefore, uiPrevious))'
  BY <1>2 DEF Ui!Delta
<1> QED
  BY <1>2, <1>6, <1>7, <1>8, <1>9 DEF UiInv

-----------------------------------------------------------------------------
UiElements(p) == {p[j] : j \in DOMAIN p}

LEMMA UiEditKeeps ==
  ASSUME UiInv, NEW q \in Seq(Ui!Element), Ui!Edit(q),
         \A i \in DOMAIN q : \/ q[i].mark = Ui!NoHandle
                             \/ \E j \in DOMAIN uiPage : q[i].mark = uiPage[j].mark
                                /\ q[i].of = uiPage[j].of
  PROVE  UiInv'
BY DEF UiInv, Ui!Edit, Ui!Delta

LEMMA UiInsertedElements ==
  ASSUME NEW p \in Seq(Ui!Element), NEW i \in 1 .. Len(p) + 1, NEW e \in Ui!Element
  PROVE  /\ Ui!InsertAt(p, i, e) \in Seq(Ui!Element)
         /\ \A k \in DOMAIN Ui!InsertAt(p, i, e) : Ui!InsertAt(p, i,
            e)[k] \in UiElements(p) \cup {e}
<1> DEFINE R == UiElements(p) \cup {e}
<1>1. p \in Seq(R) /\ e \in R /\ R \subseteq Ui!Element
  BY DEF UiElements
<1> HIDE DEF R
<1>2. Ui!InsertAt(p, i, e) \in Seq(R)
  BY <1>1 DEF Ui!InsertAt
<1>3. \A k \in DOMAIN Ui!InsertAt(p, i, e) : Ui!InsertAt(p, i, e)[k] \in R
  BY <1>2
<1>4. Ui!InsertAt(p, i, e) \in Seq(Ui!Element)
  BY <1>1, <1>2
<1> QED
  BY <1>3, <1>4 DEF R

LEMMA UiRemainingElements ==
  ASSUME NEW p \in Seq(Ui!Element), NEW i \in DOMAIN p
  PROVE  /\ Ui!RemoveAt(p, i) \in Seq(Ui!Element)
         /\ \A k \in DOMAIN Ui!RemoveAt(p, i) : Ui!RemoveAt(p, i)[k] \in UiElements(p)
<1> DEFINE R == UiElements(p)
<1>1. p \in Seq(R) /\ R \subseteq Ui!Element
  BY DEF UiElements
<1> HIDE DEF R
<1>2. Ui!RemoveAt(p, i) \in Seq(R)
  BY <1>1 DEF Ui!RemoveAt
<1>3. \A k \in DOMAIN Ui!RemoveAt(p, i) : Ui!RemoveAt(p, i)[k] \in R
  BY <1>2
<1>4. Ui!RemoveAt(p, i) \in Seq(Ui!Element)
  BY <1>1, <1>2
<1> QED
  BY <1>3, <1>4 DEF R

(* An element that its page's code changes is the same element.            *)
LEMMA UiChangedElement ==
  ASSUME NEW p \in Seq(Ui!Element), NEW i \in DOMAIN p, NEW e \in Ui!Element,
         e.mark = p[i].mark, e.of = p[i].of
  PROVE  /\ [p EXCEPT ![i] = e] \in Seq(Ui!Element)
         /\ \A k \in DOMAIN [p EXCEPT ![i] = e] :
              \E j \in DOMAIN p : /\ [p EXCEPT ![i] = e][k].mark = p[j].mark
                                  /\ [p EXCEPT ![i] = e][k].of = p[j].of
<1> DEFINE q == [p EXCEPT ![i] = e]
<1>1. q \in Seq(Ui!Element) /\ DOMAIN q = DOMAIN p
  OBVIOUS
<1>2. \A k \in DOMAIN p : q[k] = IF k = i THEN e ELSE p[k]
  OBVIOUS
<1> HIDE DEF q
<1>3. \A k \in DOMAIN q : q[k].mark = p[k].mark /\ q[k].of = p[k].of
  BY <1>1, <1>2
<1> QED
  BY <1>1, <1>3 DEF q

LEMMA UiTextOfElement ==
  ASSUME NEW e \in Ui!Element, NEW text \in {0, 1}
  PROVE  /\ Ui!WithText(e, text) \in Ui!Element
         /\ Ui!WithText(e, text).mark = e.mark /\ Ui!WithText(e, text).of = e.of
         /\ Ui!WithText(e, text).node = e.node
<1> DEFINE d == Ui!WithText(e, text)
<1>1. d = [node |-> e.node, of |-> e.of, key |-> e.key, text |-> text, mark |-> e.mark]
  BY DEF Ui!WithText, Ui!Element
<1> QED
  BY <1>1 DEF Ui!Element

LEMMA UiInitial == Ui!Init => UiInv
BY DEF Ui!Init, UiInv, Ui!Delta, Ui!NoReply

LEMMA UiInductive == UiSensible /\ UiInv /\ [Ui!Next]_Ui!vars => UiInv'
<1> SUFFICES ASSUME UiSensible, UiInv, [Ui!Next]_Ui!vars PROVE UiInv'
  OBVIOUS
<1>0. uiPage \in Seq(Ui!Element) /\ DOMAIN uiPage = 1 .. Len(uiPage) /\ Len(uiPage) \in Nat
  BY DEF UiInv
<1>1. CASE UNCHANGED Ui!vars
  BY <1>1 DEF UiInv, Ui!vars, Ui!Delta
<1>2. CASE Ui!Observe
  <2>1. Ui!Extract.page \in Seq(Ui!Element) /\ Len(Ui!Extract.page) = Len(uiPage)
    BY UiWalkIsSound DEF UiWalked
  <2>2. Ui!ObserveAs(Ui!Extract.page) /\ uiReply' = uiReply
    BY <1>2 DEF Ui!Observe
  <2> QED
    BY <2>1, <2>2, UiObserveKeeps DEF UiInv
<1>3. ASSUME NEW n \in Elements, NEW k \in Ui!Called, NEW i \in 1 .. Len(uiPage) + 1,
             Ui!Edit(Ui!InsertAt(uiPage, i, [node |-> n, of |-> n, key |-> k, text |-> 0,
               mark |-> Ui!NoHandle]))
      PROVE  UiInv'
  <2> DEFINE e == [node |-> n, of |-> n, key |-> k, text |-> 0, mark |-> Ui!NoHandle]
  <2>1. e \in Ui!Element /\ e.mark = Ui!NoHandle
    BY DEF Ui!Element
  <2> HIDE DEF e
  <2>2. /\ Ui!InsertAt(uiPage, i, e) \in Seq(Ui!Element)
        /\ \A j \in DOMAIN Ui!InsertAt(uiPage, i, e) : Ui!InsertAt(uiPage, i,
           e)[j] \in UiElements(uiPage) \cup {e}
    BY <1>0, <2>1, UiInsertedElements
  <2>3. Ui!Edit(Ui!InsertAt(uiPage, i, e))
    BY <1>3 DEF e
  <2> QED
    BY <2>1, <2>2, <2>3, UiEditKeeps DEF UiElements
<1>4. ASSUME NEW i \in DOMAIN uiPage, Ui!Edit(Ui!RemoveAt(uiPage, i))
      PROVE  UiInv'
  <2>1. /\ Ui!RemoveAt(uiPage, i) \in Seq(Ui!Element)
        /\ \A j \in DOMAIN Ui!RemoveAt(uiPage, i) : Ui!RemoveAt(uiPage, i)[j] \in UiElements(uiPage)
    BY <1>0, UiRemainingElements
  <2> QED
    BY <1>4, <2>1, UiEditKeeps DEF UiElements
<1>5. ASSUME NEW n \in Elements, NEW i \in DOMAIN uiPage, NEW j \in 1 .. Len(uiPage) + 1,
             Ui!Edit(Ui!InsertAt(uiPage, j, [uiPage[i] EXCEPT !.node = n]))
      PROVE  UiInv'
  <2> DEFINE e == [uiPage[i] EXCEPT !.node = n]
  <2>0. uiPage[i] \in Ui!Element
    BY <1>0
  <2>1. e = [node |-> n, of |-> uiPage[i].of, key |-> uiPage[i].key, text |-> uiPage[i].text,
        mark |-> uiPage[i].mark]
    BY <2>0 DEF Ui!Element
  <2>2. e \in Ui!Element /\ e.mark = uiPage[i].mark /\ e.of = uiPage[i].of
    BY <2>0, <2>1 DEF Ui!Element
  <2> HIDE DEF e
  <2>3. /\ Ui!InsertAt(uiPage, j, e) \in Seq(Ui!Element)
        /\ \A m \in DOMAIN Ui!InsertAt(uiPage, j, e) : Ui!InsertAt(uiPage, j,
           e)[m] \in UiElements(uiPage) \cup {e}
    BY <1>0, <2>2, UiInsertedElements
  <2>4. Ui!Edit(Ui!InsertAt(uiPage, j, e))
    BY <1>5 DEF e
  <2> QED
    BY <2>2, <2>3, <2>4, UiEditKeeps DEF UiElements
<1>6. ASSUME NEW i \in DOMAIN uiPage, NEW e \in Ui!Element, e.mark = uiPage[i].mark,
      e.of = uiPage[i].of,
             Ui!Edit([uiPage EXCEPT ![i] = e])
      PROVE  UiInv'
  BY <1>0, <1>6, UiChangedElement, UiEditKeeps
<1>7. CASE Ui!Change
  <2>1. PICK i \in DOMAIN uiPage : Ui!Edit([uiPage EXCEPT ![i] = Ui!WithText(uiPage[i],
        1 - uiPage[i].text)])
    BY <1>7 DEF Ui!Change
  <2>2. uiPage[i] \in Ui!Element
    BY <1>0
  <2>3. 1 - uiPage[i].text \in {0, 1}
    BY <2>2 DEF Ui!Element
  <2> QED
    BY <1>6, <2>1, <2>2, <2>3, UiTextOfElement
<1>8. CASE Ui!Rename
  <2>1. PICK i \in DOMAIN uiPage,
        k \in Ui!Called : Ui!Edit([uiPage EXCEPT ![i] = [uiPage[i] EXCEPT !.key = k]])
    BY <1>8 DEF Ui!Rename
  <2> DEFINE e == [uiPage[i] EXCEPT !.key = k]
  <2>0. uiPage[i] \in Ui!Element
    BY <1>0
  <2>2. e = [node |-> uiPage[i].node, of |-> uiPage[i].of, key |-> k, text |-> uiPage[i].text,
        mark |-> uiPage[i].mark]
    BY <2>0 DEF Ui!Element
  <2>3. e \in Ui!Element /\ e.mark = uiPage[i].mark /\ e.of = uiPage[i].of
    BY <2>0, <2>2 DEF Ui!Element
  <2>4. Ui!Edit([uiPage EXCEPT ![i] = e])
    BY <2>1
  <2> HIDE DEF e
  <2> QED
    BY <1>6, <2>3, <2>4
<1>9. ASSUME NEW h \in DOMAIN uiMeant, Ui!Act(h)
      PROVE  UiInv'
  <2>1. CASE Ui!Cardinality(Ui!Carrying(h)) # 1
    <3>1. /\ UNCHANGED <<uiPage, uiRegistry, uiCounter, uiPrevious, uiMeant, uiDelta, uiBefore>>
          /\ uiReply' = Ui!NoReply
      BY <1>9, <2>1 DEF Ui!Act
    <3> QED
      BY <3>1 DEF UiInv, Ui!Delta, Ui!NoReply
  <2>2. CASE Ui!Cardinality(Ui!Carrying(h)) = 1
    <3>1. PICK i \in Ui!Carrying(h), text \in {0, 1} :
            /\ uiReply' = [ok |-> TRUE, node |-> uiPage[i].of, meant |-> uiMeant[h]]
            /\ Ui!ObserveAs([Ui!Extract.page EXCEPT ![i] = Ui!WithText(Ui!Extract.page[i], text)])
      BY <1>9, <2>2 DEF Ui!Act
    <3> DEFINE x == Ui!Extract.page
               p == [x EXCEPT ![i] = Ui!WithText(x[i], text)]
    <3>2. x \in Seq(Ui!Element) /\ Len(x) = Len(uiPage)
      BY UiWalkIsSound DEF UiWalked
    <3>3. i \in DOMAIN uiPage /\ uiPage[i].mark = h
      BY DEF Ui!Carrying
    <3>4. uiMeant[h] = uiPage[i].of
      BY <3>3 DEF UiInv
    <3>5. i \in DOMAIN x /\ x[i] \in Ui!Element /\ DOMAIN x = DOMAIN uiPage
      BY <1>0, <3>2, <3>3
    <3>6. Ui!ObserveAs(p)
      BY <3>1
    <3> HIDE DEF x
    <3>7. /\ Ui!WithText(x[i], text) \in Ui!Element
          /\ Ui!WithText(x[i], text).mark = x[i].mark /\ Ui!WithText(x[i], text).of = x[i].of
          /\ Ui!WithText(x[i], text).node = x[i].node
      BY <3>5, UiTextOfElement
    <3>8. p \in Seq(Ui!Element) /\ Len(p) = Len(uiPage) /\ DOMAIN p = DOMAIN uiPage
      BY <3>2, <3>5, <3>7
    <3>9. \A j \in DOMAIN p : p[j].mark = x[j].mark /\ p[j].of = x[j].of /\ p[j].node = x[j].node
      BY <3>5, <3>7, <3>8
    <3> HIDE DEF p
    <3>10. uiReply'.ok => uiReply'.node = uiReply'.meant
      BY <3>1, <3>4
    <3> QED
      BY <3>6, <3>8, <3>9, <3>10, UiObserveKeeps DEF x
  <2> QED
    BY <2>1, <2>2
<1>10. CASE Ui!Insert
  BY <1>3, <1>10 DEF Ui!Insert
<1>11. CASE Ui!Detach
  BY <1>4, <1>11 DEF Ui!Detach
<1>12. CASE Ui!Copy
  BY <1>5, <1>12 DEF Ui!Copy
<1> QED
  BY <1>1, <1>2, <1>7, <1>8, <1>9, <1>10, <1>11, <1>12 DEF Ui!Next

(* Whatever a page's code inserts, copies, removes and renames between two *)
(* observations, no two elements share a handle, an action reaches the     *)
(* element that its handle was shown for, or a copy of it, and what is     *)
(* reported as changed is what differs.                                    *)
THEOREM UiHandlesAlwaysReach ==
  ASSUME UiSensible
  PROVE  Ui!Spec => [](Ui!HandlesAreUnique /\ Ui!ActsOnWhatWasMeant /\ Ui!DeltaIsExact)
<1>1. UiInv => Ui!HandlesAreUnique /\ Ui!ActsOnWhatWasMeant /\ Ui!DeltaIsExact
  <2> SUFFICES ASSUME UiInv PROVE Ui!HandlesAreUnique /\ Ui!ActsOnWhatWasMeant /\ Ui!DeltaIsExact
    OBVIOUS
  <2>1. Ui!HandlesAreUnique
    BY UiWalkIsSound DEF UiWalked, Ui!HandlesAreUnique
  <2>2. Ui!ActsOnWhatWasMeant
    BY DEF UiInv, Ui!ActsOnWhatWasMeant
  <2>3. Ui!DeltaIsExact
    BY DEF UiInv, Ui!DeltaIsExact, Ui!Delta
  <2> QED
    BY <2>1, <2>2, <2>3
<1> QED
  BY <1>1, UiInitial, UiInductive, PTL DEF Ui!Spec

-----------------------------------------------------------------------------
UiBounded == {MaxPage, MaxUiEdits, MaxObserved} \subseteq Nat

UiCounted == Len(uiPage) <= MaxPage /\ uiEdits \in 0 .. MaxUiEdits
  /\ uiObserved \in 0 .. MaxObserved

LEMMA UiSpliceLength ==
  ASSUME NEW p \in Seq(Ui!Element)
  PROVE  /\ \A i \in 1 .. Len(p) + 1, e \in Ui!Element : Len(Ui!InsertAt(p, i, e)) = Len(p) + 1
         /\ \A i \in DOMAIN p : Len(Ui!RemoveAt(p, i)) = Len(p) - 1
<1>1. ASSUME NEW i \in 1 .. Len(p) + 1, NEW e \in Ui!Element
      PROVE  Len(Ui!InsertAt(p, i, e)) = Len(p) + 1
  <2>1. /\ SubSeq(p, 1, i - 1) \in Seq(Ui!Element) /\ Len(SubSeq(p, 1, i - 1)) = i - 1
        /\ SubSeq(p, i, Len(p)) \in Seq(Ui!Element) /\ Len(SubSeq(p, i, Len(p))) = Len(p) - i + 1
    OBVIOUS
  <2> DEFINE a == SubSeq(p, 1, i - 1)
             b == SubSeq(p, i, Len(p))
  <2>2. Ui!InsertAt(p, i, e) = (a \o <<e>>) \o b
    BY DEF Ui!InsertAt
  <2>3. i \in Nat /\ Len(p) \in Nat
    OBVIOUS
  <2>4. a \in Seq(Ui!Element) /\ b \in Seq(Ui!Element) /\ Len(a) = i - 1 /\ Len(b) = Len(p) - i + 1
    BY <2>1
  <2> HIDE DEF a, b
  <2>5. a \o <<e>> \in Seq(Ui!Element) /\ Len(a \o <<e>>) = Len(a) + 1
    BY <2>4
  <2>6. Len((a \o <<e>>) \o b) = Len(a \o <<e>>) + Len(b)
    BY <2>4, <2>5
  <2>7. Len((a \o <<e>>) \o b) = Len(p) + 1
    <3> DEFINE m == Len(a)
               n == Len(b)
               k == Len(p)
    <3>1. m = i - 1 /\ n = k - i + 1 /\ i \in Nat /\ k \in Nat
      BY <2>3, <2>4
    <3>2. Len((a \o <<e>>) \o b) = m + 1 + n
      BY <2>5, <2>6
    <3> HIDE DEF m, n
    <3> QED
      BY <3>1, <3>2
  <2> QED
    BY <2>2, <2>7, Zenon
<1>2. ASSUME NEW i \in DOMAIN p
      PROVE  Len(Ui!RemoveAt(p, i)) = Len(p) - 1
  <2>1. /\ SubSeq(p, 1, i - 1) \in Seq(Ui!Element) /\ Len(SubSeq(p, 1, i - 1)) = i - 1
        /\ SubSeq(p, i + 1, Len(p)) \in Seq(Ui!Element)
        /\ Len(SubSeq(p, i + 1, Len(p))) = Len(p) - i
    OBVIOUS
  <2> DEFINE a == SubSeq(p, 1, i - 1)
             b == SubSeq(p, i + 1, Len(p))
  <2>2. Ui!RemoveAt(p, i) = a \o b
    BY DEF Ui!RemoveAt
  <2>3. i \in Nat /\ Len(p) \in Nat
    OBVIOUS
  <2> HIDE DEF a, b
  <2>4. Len(a \o b) = Len(a) + Len(b)
    BY <2>1 DEF a, b
  <2>5. Len(a \o b) = Len(p) - 1
    <3> DEFINE m == Len(a)
               n == Len(b)
               k == Len(p)
    <3>1. m = i - 1 /\ n = k - i /\ i \in Nat /\ k \in Nat
      BY <2>1, <2>3 DEF a, b
    <3>2. Len(a \o b) = m + n
      BY <2>4
    <3> HIDE DEF m, n
    <3> QED
      BY <3>1, <3>2
  <2> QED
    BY <2>2, <2>5, Zenon
<1> QED
  BY <1>1, <1>2

LEMMA UiCountedStays == UiSensible /\ UiBounded /\ UiInv /\ UiCounted /\ [Ui!Next]_Ui!vars
  => UiCounted'
<1> SUFFICES ASSUME UiSensible, UiBounded, UiInv, UiCounted, [Ui!Next]_Ui!vars PROVE UiCounted'
  OBVIOUS
<1>0. uiPage \in Seq(Ui!Element) /\ DOMAIN uiPage = 1 .. Len(uiPage) /\ Len(uiPage) \in Nat
  BY DEF UiInv
<1>1. ASSUME NEW q, Ui!Edit(q), Len(q) <= MaxPage PROVE UiCounted'
  BY <1>1 DEF Ui!Edit, UiCounted, UiBounded
<1>2. ASSUME NEW q, Ui!ObserveAs(q), uiObserved < MaxObserved, uiEdits' = uiEdits,
      Len(q) = Len(uiPage) PROVE UiCounted'
  BY <1>2 DEF Ui!ObserveAs, UiCounted, UiBounded
<1>3. CASE UNCHANGED Ui!vars
  BY <1>3 DEF Ui!vars, UiCounted
<1>4. CASE Ui!Observe
  <2>1. Len(Ui!Extract.page) = Len(uiPage)
    BY UiWalkIsSound DEF UiWalked
  <2> QED
    BY <1>2, <1>4, <2>1 DEF Ui!Observe
<1>5. CASE Ui!Insert
  <2>1. PICK n \in Elements, k \in Ui!Called, i \in 1 .. Len(uiPage) + 1 :
          /\ Len(uiPage) < MaxPage
          /\ Ui!Edit(Ui!InsertAt(uiPage, i, [node |-> n, of |-> n, key |-> k, text |-> 0,
             mark |-> Ui!NoHandle]))
    BY <1>5 DEF Ui!Insert
  <2>2. [node |-> n, of |-> n, key |-> k, text |-> 0, mark |-> Ui!NoHandle] \in Ui!Element
    BY DEF Ui!Element
  <2>3. Len(Ui!InsertAt(uiPage, i, [node |-> n, of |-> n, key |-> k, text |-> 0,
        mark |-> Ui!NoHandle])) = Len(uiPage) + 1
    BY <1>0, <2>2, UiSpliceLength
  <2>4. Len(uiPage) + 1 <= MaxPage
    BY <1>0, <2>1 DEF UiBounded
  <2> QED
    BY <1>1, <2>1, <2>3, <2>4
<1>6. CASE Ui!Detach
  <2>1. PICK i \in DOMAIN uiPage : Ui!Edit(Ui!RemoveAt(uiPage, i))
    BY <1>6 DEF Ui!Detach
  <2>2. Len(Ui!RemoveAt(uiPage, i)) = Len(uiPage) - 1
    BY <1>0, UiSpliceLength
  <2>3. Len(uiPage) - 1 <= MaxPage
    BY <1>0 DEF UiBounded, UiCounted
  <2> QED
    BY <1>1, <2>1, <2>2, <2>3
<1>7. CASE Ui!Copy
  <2>1. PICK n \in Elements, i \in DOMAIN uiPage, j \in 1 .. Len(uiPage) + 1 :
          Len(uiPage) < MaxPage /\ Ui!Edit(Ui!InsertAt(uiPage, j, [uiPage[i] EXCEPT !.node = n]))
    BY <1>7 DEF Ui!Copy
  <2> DEFINE e == [uiPage[i] EXCEPT !.node = n]
  <2>2. e \in Ui!Element
    <3>1. uiPage[i] \in Ui!Element
      BY <1>0
    <3>2. e = [node |-> n, of |-> uiPage[i].of, key |-> uiPage[i].key, text |-> uiPage[i].text,
          mark |-> uiPage[i].mark]
      BY <3>1 DEF Ui!Element
    <3> QED
      BY <3>1, <3>2 DEF Ui!Element
  <2>3. Ui!Edit(Ui!InsertAt(uiPage, j, e))
    BY <2>1
  <2> HIDE DEF e
  <2>4. Len(Ui!InsertAt(uiPage, j, e)) = Len(uiPage) + 1
    BY <1>0, <2>2, UiSpliceLength
  <2>5. Len(uiPage) + 1 <= MaxPage
    BY <1>0, <2>1 DEF UiBounded
  <2> QED
    BY <1>1, <2>3, <2>4, <2>5
<1>8. CASE Ui!Change \/ Ui!Rename
  <2>1. PICK i \in DOMAIN uiPage : \E e : Ui!Edit([uiPage EXCEPT ![i] = e])
    BY <1>8 DEF Ui!Change, Ui!Rename
  <2>2. \A e : Len([uiPage EXCEPT ![i] = e]) = Len(uiPage)
    BY <1>0
  <2> QED
    BY <1>1, <2>1, <2>2 DEF UiCounted
<1>9. ASSUME NEW h \in DOMAIN uiMeant, Ui!Act(h) PROVE UiCounted'
  <2>1. CASE UNCHANGED <<uiPage, uiEdits, uiObserved>>
    BY <2>1 DEF UiCounted
  <2>2. CASE \E i \in Ui!Carrying(h), text \in {0, 1} :
               Ui!ObserveAs([Ui!Extract.page EXCEPT ![i] = Ui!WithText(Ui!Extract.page[i], text)])
    <3>1. PICK i, t : Ui!ObserveAs([Ui!Extract.page EXCEPT ![i] = t])
      BY <2>2
    <3>2. Ui!Extract.page \in Seq(Ui!Element) /\ Len(Ui!Extract.page) = Len(uiPage)
      BY UiWalkIsSound DEF UiWalked
    <3> DEFINE x == Ui!Extract.page
    <3> HIDE DEF x
    <3>3. Len([x EXCEPT ![i] = t]) = Len(uiPage)
      BY <3>2 DEF x
    <3>4. uiObserved < MaxObserved /\ uiEdits' = uiEdits
      BY <1>9 DEF Ui!Act
    <3> QED
      BY <1>2, <3>1, <3>3, <3>4 DEF x
  <2> QED
    BY <1>9, <2>1, <2>2 DEF Ui!Act
<1> QED
  BY <1>3, <1>4, <1>5, <1>6, <1>7, <1>8, <1>9 DEF Ui!Next

(* Every variable keeps its type, for any elements, keys and bounds. *)
THEOREM UiTypeCorrect ==
  ASSUME UiSensible, UiBounded
  PROVE  Ui!Spec => []Ui!TypeOK
<1>1. Ui!Init => UiInv /\ UiCounted
  <2>1. Ui!Init => UiCounted
    BY DEF Ui!Init, UiCounted, UiBounded
  <2> QED
    BY <2>1, UiInitial
<1>2. UiInv /\ UiCounted /\ [Ui!Next]_Ui!vars => UiInv' /\ UiCounted'
  BY UiInductive, UiCountedStays
<1>3. UiInv /\ UiCounted => Ui!TypeOK
  <2> SUFFICES ASSUME UiInv, UiCounted PROVE Ui!TypeOK
    OBVIOUS
  <2>1. ASSUME NEW i \in DOMAIN uiPage
        PROVE uiPage[i].key \in Ui!Called /\ {uiPage[i].node, uiPage[i].of} \subseteq Elements
    <3>1. uiPage[i] \in Ui!Element
      BY DEF UiInv
    <3> QED
      BY <3>1 DEF Ui!Element
  <2> QED
    BY <2>1 DEF Ui!TypeOK, UiInv, UiCounted
<1> QED
  BY <1>1, <1>2, <1>3, PTL DEF Ui!Spec

(* The variables of the instance, by either name. *)
LEMMA UiVarsAre == UiVars' = UiVars <=> Ui!vars' = Ui!vars
BY DEF UiVars, Ui!vars

-----------------------------------------------------------------------------
(* Side by side: the scene stays, and its component keeps its own laws.    *)

LEMMA TruthScene ==
  KnowledgeSpec => /\ Playing("truth") => Truth!Spec /\ []Playing("truth")
                   /\ ~Playing("truth") => []~Playing("truth")
<1>1. KnowledgeInit /\ Playing("truth") => Truth!Init
  BY DEF KnowledgeInit, Releasing, Playing
<1>2. [KnowledgeNext]_KnowledgeVars /\ Playing("truth")
        => [Truth!Next]_Truth!vars /\ Playing("truth")'
  BY TruthVarsAre, CmpVarsAre, MemoryVarsAre, RememberVarsAre, ThoughtVarsAre, LearnVarsAre,
    RelVarsAre, UiVarsAre DEF KnowledgeNext, KnowledgeVars, KnowledgeOwn, Releasing, Playing
<1>3. [KnowledgeNext]_KnowledgeVars /\ ~Playing("truth") => ~Playing("truth")'
  BY DEF KnowledgeNext, KnowledgeVars, Releasing, Playing
<1> QED  BY <1>1, <1>2, <1>3, PTL DEF KnowledgeSpec, Truth!Spec

LEMMA ComparisonScene ==
  KnowledgeSpec => /\ Playing("comparison") => Cmp!Spec /\ []Playing("comparison")
                   /\ ~Playing("comparison") => []~Playing("comparison")
<1>1. KnowledgeInit /\ Playing("comparison") => Cmp!Init
  BY DEF KnowledgeInit, Releasing, Playing
<1>2. [KnowledgeNext]_KnowledgeVars /\ Playing("comparison")
        => [Cmp!Next]_Cmp!vars /\ Playing("comparison")'
  BY TruthVarsAre, CmpVarsAre, MemoryVarsAre, RememberVarsAre, ThoughtVarsAre, LearnVarsAre,
    RelVarsAre, UiVarsAre DEF KnowledgeNext, KnowledgeVars, KnowledgeOwn, Releasing, Playing
<1>3. [KnowledgeNext]_KnowledgeVars /\ ~Playing("comparison") => ~Playing("comparison")'
  BY DEF KnowledgeNext, KnowledgeVars, Releasing, Playing
<1> QED  BY <1>1, <1>2, <1>3, PTL DEF KnowledgeSpec, Cmp!Spec

LEMMA MemoryScene ==
  KnowledgeSpec => /\ Playing("memory") => Memory!Spec /\ []Playing("memory")
                   /\ ~Playing("memory") => []~Playing("memory")
<1>1. KnowledgeInit /\ Playing("memory") => Memory!Init
  BY DEF KnowledgeInit, Releasing, Playing
<1>2. [KnowledgeNext]_KnowledgeVars /\ Playing("memory")
        => [Memory!Next]_Memory!vars /\ Playing("memory")'
  BY TruthVarsAre, CmpVarsAre, MemoryVarsAre, RememberVarsAre, ThoughtVarsAre, LearnVarsAre,
    RelVarsAre, UiVarsAre DEF KnowledgeNext, KnowledgeVars, KnowledgeOwn, Releasing, Playing
<1>3. [KnowledgeNext]_KnowledgeVars /\ ~Playing("memory") => ~Playing("memory")'
  BY DEF KnowledgeNext, KnowledgeVars, Releasing, Playing
<1> QED  BY <1>1, <1>2, <1>3, PTL DEF KnowledgeSpec, Memory!Spec

LEMMA RememberScene ==
  KnowledgeSpec => /\ Playing("remember") => Remember!Spec /\ []Playing("remember")
                   /\ ~Playing("remember") => []~Playing("remember")
<1>1. KnowledgeInit /\ Playing("remember") => Remember!Init
  BY DEF KnowledgeInit, Releasing, Playing
<1>2. [KnowledgeNext]_KnowledgeVars /\ Playing("remember")
        => [Remember!Next]_Remember!vars /\ Playing("remember")'
  BY TruthVarsAre, CmpVarsAre, MemoryVarsAre, RememberVarsAre, ThoughtVarsAre, LearnVarsAre,
    RelVarsAre, UiVarsAre DEF KnowledgeNext, KnowledgeVars, KnowledgeOwn, Releasing, Playing
<1>3. [KnowledgeNext]_KnowledgeVars /\ ~Playing("remember") => ~Playing("remember")'
  BY DEF KnowledgeNext, KnowledgeVars, Releasing, Playing
<1> QED  BY <1>1, <1>2, <1>3, PTL DEF KnowledgeSpec, Remember!Spec

LEMMA ThoughtScene ==
  KnowledgeSpec => /\ Playing("thought") => Thought!Spec /\ []Playing("thought")
                   /\ ~Playing("thought") => []~Playing("thought")
<1>1. KnowledgeInit /\ Playing("thought") => Thought!Init
  BY DEF KnowledgeInit, Releasing, Playing
<1>2. [KnowledgeNext]_KnowledgeVars /\ Playing("thought")
        => [Thought!Next]_Thought!vars /\ Playing("thought")'
  BY TruthVarsAre, CmpVarsAre, MemoryVarsAre, RememberVarsAre, ThoughtVarsAre, LearnVarsAre,
    RelVarsAre, UiVarsAre DEF KnowledgeNext, KnowledgeVars, KnowledgeOwn, Releasing, Playing
<1>3. [KnowledgeNext]_KnowledgeVars /\ ~Playing("thought") => ~Playing("thought")'
  BY DEF KnowledgeNext, KnowledgeVars, Releasing, Playing
<1> QED  BY <1>1, <1>2, <1>3, PTL DEF KnowledgeSpec, Thought!Spec

LEMMA LearningScene ==
  KnowledgeSpec => /\ Playing("learning") => Learn!Spec /\ []Playing("learning")
                   /\ ~Playing("learning") => []~Playing("learning")
<1>1. KnowledgeInit /\ Playing("learning") => Learn!Init
  BY DEF KnowledgeInit, Releasing, Playing
<1>2. [KnowledgeNext]_KnowledgeVars /\ Playing("learning")
        => [Learn!Next]_Learn!vars /\ Playing("learning")'
  BY TruthVarsAre, CmpVarsAre, MemoryVarsAre, RememberVarsAre, ThoughtVarsAre, LearnVarsAre,
    RelVarsAre, UiVarsAre DEF KnowledgeNext, KnowledgeVars, KnowledgeOwn, Releasing, Playing
<1>3. [KnowledgeNext]_KnowledgeVars /\ ~Playing("learning") => ~Playing("learning")'
  BY DEF KnowledgeNext, KnowledgeVars, Releasing, Playing
<1> QED  BY <1>1, <1>2, <1>3, PTL DEF KnowledgeSpec, Learn!Spec

LEMMA ReleaseScene ==
  KnowledgeSpec => /\ Releasing => Rel!Spec /\ []Releasing
                   /\ ~Releasing => []~Releasing
<1>1. KnowledgeInit /\ Releasing => Rel!Init
  BY DEF KnowledgeInit, Releasing, Playing
<1>2. [KnowledgeNext]_KnowledgeVars /\ Releasing
        => [Rel!Next]_Rel!vars /\ Releasing'
  BY TruthVarsAre, CmpVarsAre, MemoryVarsAre, RememberVarsAre, ThoughtVarsAre, LearnVarsAre,
    RelVarsAre, UiVarsAre DEF KnowledgeNext, KnowledgeVars, KnowledgeOwn, Releasing, Playing
<1>3. [KnowledgeNext]_KnowledgeVars /\ ~Releasing => ~Releasing'
  BY DEF KnowledgeNext, KnowledgeVars, Releasing, Playing
<1> QED  BY <1>1, <1>2, <1>3, PTL DEF KnowledgeSpec, Rel!Spec

LEMMA UiScene ==
  KnowledgeSpec => /\ Playing("ui") => Ui!Spec /\ []Playing("ui")
                   /\ ~Playing("ui") => []~Playing("ui")
<1>1. KnowledgeInit /\ Playing("ui") => Ui!Init
  BY DEF KnowledgeInit, Releasing, Playing
<1>2. [KnowledgeNext]_KnowledgeVars /\ Playing("ui")
        => [Ui!Next]_Ui!vars /\ Playing("ui")'
  BY TruthVarsAre, CmpVarsAre, MemoryVarsAre, RememberVarsAre, ThoughtVarsAre, LearnVarsAre,
    RelVarsAre, UiVarsAre DEF KnowledgeNext, KnowledgeVars, KnowledgeOwn, Releasing, Playing
<1>3. [KnowledgeNext]_KnowledgeVars /\ ~Playing("ui") => ~Playing("ui")'
  BY DEF KnowledgeNext, KnowledgeVars, Releasing, Playing
<1> QED  BY <1>1, <1>2, <1>3, PTL DEF KnowledgeSpec, Ui!Spec

(* Everything that is held to be so keeps its types, and with them the     *)
(* bounds of a report and the order in which residents were used.          *)
THEOREM KnowledgeAlwaysTyped ==
  ASSUME TruthSensible, CmpBounded, MemorySensible, MemoryBounded, RememberBounded,
         LearnSensible, RelSensible, UiSensible, UiBounded
  PROVE  KnowledgeSpec => []KnowledgeTyped
<1>1. /\ ~Playing("truth") \/ Truth!TypeOK
      /\ ~Playing("comparison") \/ Cmp!TypeOK
      /\ ~Playing("memory") \/ Memory!TypeOK
      /\ ~Playing("remember") \/ Remember!TypeOK
      /\ ~Playing("thought") \/ Thought!TypeOK
      /\ ~Playing("learning") \/ Learn!TypeOK
      /\ ~Releasing \/ Rel!TypeOK
      /\ ~Playing("ui") \/ Ui!TypeOK
      => KnowledgeTyped
  BY DEF KnowledgeTyped
<1>2. KnowledgeSpec => [](~Playing("truth") \/ Truth!TypeOK)
  BY TruthScene, TruthTypeCorrect, PTL
<1>3. KnowledgeSpec => [](~Playing("comparison") \/ Cmp!TypeOK)
  BY ComparisonScene, CmpTypeCorrect, PTL
<1>4. KnowledgeSpec => [](~Playing("memory") \/ Memory!TypeOK)
  BY MemoryScene, MemoryTypeCorrect, PTL
<1>5. KnowledgeSpec => [](~Playing("remember") \/ Remember!TypeOK)
  BY RememberScene, RememberTypeCorrect, PTL
<1>6. KnowledgeSpec => [](~Playing("thought") \/ Thought!TypeOK)
  BY ThoughtScene, ThoughtTypeCorrect, PTL
<1>7. KnowledgeSpec => [](~Playing("learning") \/ Learn!TypeOK)
  BY LearningScene, LearnTypeCorrect, PTL
<1>8. KnowledgeSpec => [](~Releasing \/ Rel!TypeOK)
  BY ReleaseScene, RelTypeCorrect, PTL
<1>9. KnowledgeSpec => [](~Playing("ui") \/ Ui!TypeOK)
  BY UiScene, UiTypeCorrect, PTL
<1> QED  BY <1>1, <1>2, <1>3, <1>4, <1>5, <1>6, <1>7, <1>8, <1>9, PTL

(* What is reported current is, what is superseded has a successor, and    *)
(* what providers disagree on is reported, for any files, claims, memories,*)
(* agents and providers.                                                   *)
THEOREM KnowledgeAlwaysHolds ==
  ASSUME TruthSensible, RememberBounded, CmpSensible
  PROVE  KnowledgeSpec => []KnowledgeHolds
<1>1. /\ ~Playing("truth") \/ Truth!CurrentClaimsHold
      /\ ~Playing("remember") \/ Remember!SupersededHasSuccessor
      /\ ~Playing("comparison") \/ Cmp!ReportIsExact
      => KnowledgeHolds
  BY DEF KnowledgeHolds
<1>2. KnowledgeSpec => [](~Playing("truth") \/ Truth!CurrentClaimsHold)
  BY TruthScene, TruthNothingStaleIsCurrent, PTL
<1>3. KnowledgeSpec => [](~Playing("remember") \/ Remember!SupersededHasSuccessor)
  BY RememberScene, RememberSuccessorsRemain, PTL
<1>4. KnowledgeSpec => [](~Playing("comparison") \/ Cmp!ReportIsExact)
  BY ComparisonScene, CmpReportsAreExact, PTL
<1> QED  BY <1>1, <1>2, <1>3, <1>4, PTL

(* What an agent is given is what it was promised, for any files, sizes,   *)
(* capacities, hypotheses, agents and pages, and through any crash between *)
(* two steps of a request.                                                 *)
THEOREM AttentionAlwaysHolds ==
  ASSUME MemorySensible, MemoryBounded, ThoughtSensible, UiSensible
  PROVE  KnowledgeSpec => []AttentionHolds
<1> DEFINE OfMemory == Memory!PagesAreAsMapped /\ Memory!OvercommitOnlyByPins
           OfPage == Ui!HandlesAreUnique /\ Ui!ActsOnWhatWasMeant /\ Ui!DeltaIsExact
<1>1. /\ ~Playing("memory") \/ OfMemory
      /\ ~Playing("thought") \/ Thought!ConvergenceIsEarned
      /\ ~Playing("ui") \/ OfPage
      => AttentionHolds
  BY DEF AttentionHolds
<1>2. KnowledgeSpec => [](~Playing("memory") \/ OfMemory)
  BY MemoryScene, MemoryAttentionIsKept, PTL
<1>3. KnowledgeSpec => [](~Playing("thought") \/ Thought!ConvergenceIsEarned)
  BY ThoughtScene, ThoughtConvergenceIsAlwaysEarned, PTL
<1>4. KnowledgeSpec => [](~Playing("ui") \/ OfPage)
  BY UiScene, UiHandlesAlwaysReach, PTL
<1> HIDE DEF OfMemory, OfPage
<1> QED  BY <1>1, <1>2, <1>3, <1>4, PTL

(* What is promoted, policy or release, is promoted on what its evidence   *)
(* says, however processes interleave and files are rewritten, and no      *)
(* sample beside those an SLO was admitted on can undo its admission.      *)
THEOREM PromotionsAreAlwaysEarned ==
  ASSUME LearnSensible, RelSensible
  PROVE  KnowledgeSpec => []PromotionsAreEarned
<1> DEFINE OfRelease == Rel!PromotedOnWhatPassed /\ Rel!PairsAreCausal /\ Rel!SloIsMonotone
<1>1. /\ ~Playing("learning") \/ Learn!PromotionsStack
      /\ ~Releasing \/ OfRelease
      => PromotionsAreEarned
  BY DEF PromotionsAreEarned
<1>2. KnowledgeSpec => [](~Playing("learning") \/ Learn!PromotionsStack)
  BY LearningScene, LearnPromotionsRetrace, PTL
<1>3. KnowledgeSpec => [](~Releasing \/ OfRelease)
  BY ReleaseScene, RelPromotionIsEarned, RelSloIsAlwaysMonotone, PTL
<1> HIDE DEF OfRelease
<1> QED  BY <1>1, <1>2, <1>3, PTL
=============================================================================
