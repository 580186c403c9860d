--------------------- MODULE CounterfactualWorldsProofs ---------------------
(* What holds of CounterfactualWorlds for every set of files, texts,       *)
(* change lists and worlds.                                                *)
EXTENDS CounterfactualWorlds, FiniteSetTheorems, TLAPS

-----------------------------------------------------------------------------
(* Type correctness                                                        *)

(* The functions whose values TypeOK speaks of, and the request in         *)
(* progress: what is left of it are changes, an edit still has a           *)
(* generation to go to, and a promotion writes files.                      *)
Total ==
  /\ overlay = [w \in Worlds |-> overlay[w]]
  /\ changes = [w \in Worlds |-> changes[w]]
  /\ asked = [t \in Txs |-> asked[t]]

Patching == {"patch", "row", "more"}

InProgress ==
  /\ todo \in Seq(Requests)
  /\ pc = "row" => todo # <<>>
  /\ pc \in Patching => generation[cur] < MaxGeneration
  /\ pc = "commit" => tx \in Txs /\ \A p \in Paths \cap DOMAIN asked[tx].post : asked[tx].post[p] \in File

TypeInv == TypeOK /\ Total /\ InProgress

(* What a change is, by what it asks for.                                  *)
LEMMA RequestFacts ==
  ASSUME NEW r \in Requests
  PROVE  /\ r.op \in {"replace", "create", "delete"} /\ r.path \in Paths
         /\ r.op = "replace" => r.old \in Tokens /\ r.new \in Tokens
         /\ r.op = "create" => r.text \in Texts
BY DEF Requests

LEMMA ReplacedTyped ==
  ASSUME NEW text \in Texts, NEW old, NEW new \in Tokens
  PROVE  Replaced(text, old, new) \in Texts
BY DEF Texts, Replaced

(* The text a change starts from is one, if there is any.                  *)
LEMMA CurrentTyped ==
  ASSUME TypeOK, NEW w \in Worlds, NEW rows, NEW p \in Paths, Current(w, rows, p) # Absent
  PROVE  Current(w, rows, p) \in Texts
BY DEF TypeOK, Current, File

(* An overlay stays a set of files when a change is written to it.         *)
LEMMA PatchedTyped ==
  ASSUME TypeOK, cur \in Worlds, NEW r \in Requests, Accepts(cur, known, r)
  PROVE  /\ DOMAIN Patched(r) \subseteq Paths
         /\ \A p \in DOMAIN Patched(r) : Patched(r)[p] \in Texts
<1>1. DOMAIN overlay[cur] \subseteq Paths /\ \A p \in DOMAIN overlay[cur] : overlay[cur][p] \in Texts
  BY DEF TypeOK
<1>2. CASE r.op = "delete"
  BY <1>1, <1>2, RequestFacts DEF Patched, Restrict
<1>3. CASE r.op = "create"
  BY <1>1, <1>3, RequestFacts DEF Patched
<1>4. CASE r.op = "replace"
  <2>1. Replaced(Current(cur, known, r.path), r.old, r.new) \in Texts
    BY <1>4, RequestFacts, CurrentTyped, ReplacedTyped DEF Accepts
  <2> QED
    BY <1>1, <1>4, <2>1, RequestFacts DEF Patched
<1> QED
  BY <1>2, <1>3, <1>4, RequestFacts

LEMMA TypeInit == Init => TypeInv
<1> SUFFICES ASSUME Init PROVE TypeInv
  OBVIOUS
<1>1. TypeOK
  BY WorldsAssumption DEF Init, TypeOK, None, Never
<1>2. Total
  BY DEF Init, Total
<1>3. InProgress
  BY DEF Init, InProgress, Patching
<1> QED
  BY <1>1, <1>2, <1>3 DEF TypeInv

LEMMA TypeStep == TypeInv /\ [Next]_vars => TypeInv'
<1> SUFFICES ASSUME TypeInv, [Next]_vars PROVE TypeInv'
  OBVIOUS
<1>0. TypeOK /\ Total /\ InProgress
  BY DEF TypeInv
<1>1. \A now : HeadIs(now) /\ now \in [Paths -> File] => index' \in [Paths -> File] /\ based' \subseteq Worlds
  BY <1>0 DEF HeadIs, TypeOK
<1>2. disk \in [Paths -> File]
  BY <1>0 DEF TypeOK
<1>3. Idle => InProgress' /\ pc' = "idle"
  BY DEF Idle, InProgress, Patching
<1>a. ASSUME Reconcile PROVE TypeInv'
  BY <1>0, <1>1, <1>2, <1>a DEF Reconcile, sources, record, server, history, TypeInv, TypeOK, Total, InProgress
<1>b. ASSUME NEW w \in Worlds, Fork(w) PROVE TypeInv'
  <2>1. based' \subseteq Worlds /\ index' \in [Paths -> File]
    BY <1>0, <1>b DEF Fork, TypeOK
  <2> QED
    BY <1>0, <1>b, <2>1 DEF Fork, sources, server, history, TypeInv, TypeOK, Total, InProgress
<1>c. ASSUME NEW w \in Worlds, NEW b \in Batches, BeginApply(w, b) PROVE TypeInv'
  <2>1. b \in Seq(Requests)
    BY WorldsAssumption
  <2> QED
    BY <1>0, <1>c, <2>1 DEF BeginApply, sources, revision, record, history, TypeInv, TypeOK, Total,
       InProgress, Patching
<1>d. ASSUME WriteOverlay PROVE TypeInv'
  <2>1. cur \in Worlds /\ todo[1] \in Requests
    BY <1>0, <1>d DEF WriteOverlay, TypeOK, InProgress
  <2>2. /\ DOMAIN Patched(todo[1]) \subseteq Paths
        /\ \A p \in DOMAIN Patched(todo[1]) : Patched(todo[1])[p] \in Texts
    BY <1>0, <1>d, <2>1, PatchedTyped DEF WriteOverlay
  <2>3. overlay' = [w \in Worlds |-> IF w = cur THEN Patched(todo[1]) ELSE overlay[w]]
    BY <1>0, <1>d DEF WriteOverlay, Total
  <2>4. \A w \in Worlds :
          DOMAIN overlay'[w] \subseteq Paths /\ \A p \in DOMAIN overlay'[w] : overlay'[w][p] \in Texts
    BY <1>0, <2>2, <2>3 DEF TypeOK
  <2>5. TypeOK'
    BY <1>0, <1>d, <2>4 DEF WriteOverlay, sources, revision, TypeOK
  <2> QED
    BY <1>0, <1>d, <2>3, <2>5 DEF WriteOverlay, sources, TypeInv, Total, InProgress, Patching
<1>e. ASSUME SaveChange PROVE TypeInv'
  <2>1. cur \in Worlds /\ todo[1] \in Requests /\ todo[1].path \in Paths /\ Tail(todo) \in Seq(Requests)
    BY <1>0, <1>e, RequestFacts DEF SaveChange, TypeOK, InProgress
  <2> DEFINE rows == [p \in DOMAIN changes[cur] \cup {todo[1].path} |->
                        IF p = todo[1].path THEN todo[1] ELSE changes[cur][p]]
  <2>2. changes' = [w \in Worlds |-> IF w = cur THEN rows ELSE changes[w]]
    BY <1>0, <1>e DEF SaveChange, Total
  <2>3. DOMAIN rows \subseteq Paths /\ \A p \in DOMAIN rows : rows[p] \in Requests /\ rows[p].path = p
    BY <1>0, <2>1 DEF TypeOK
  <2>4. \A w \in Worlds :
          /\ DOMAIN changes'[w] \subseteq Paths
          /\ \A p \in DOMAIN changes'[w] : changes'[w][p] \in Requests /\ changes'[w][p].path = p
    <3> HIDE DEF rows
    <3> QED
      BY <1>0, <2>2, <2>3 DEF TypeOK
  <2>5. TypeOK'
    BY <1>0, <1>e, <2>4 DEF SaveChange, sources, revision, TypeOK
  <2> QED
    BY <1>0, <1>e, <2>1, <2>2, <2>5 DEF SaveChange, sources, TypeInv, Total, InProgress, Patching
<1>f. ASSUME Idle, UNCHANGED <<sources, record>>, UNCHANGED revision \/ HeadIs(disk) PROVE TypeInv'
  <2>1. TypeOK'
    BY <1>0, <1>1, <1>2, <1>3, <1>f DEF sources, revision, record, TypeOK
  <2> QED
    BY <1>0, <1>3, <1>f, <2>1 DEF sources, record, TypeInv, Total
<1>g. ASSUME BumpGeneration PROVE TypeInv'
  <2>1. cur \in Worlds /\ generation[cur] \in 0..MaxGeneration /\ generation[cur] < MaxGeneration
    BY <1>0, <1>g DEF BumpGeneration, TypeOK, InProgress, Patching
  <2>2. generation' \in [Worlds -> 0..MaxGeneration]
    BY <1>0, <1>g, <2>1, WorldsAssumption DEF BumpGeneration, TypeOK
  <2>3. verdict' \in [Worlds -> {"never", "passed", "failed", "unknown", "stale"}]
    BY <1>0, <1>g, <2>1 DEF BumpGeneration, TypeOK
  <2>4. TypeOK'
    BY <1>0, <1>3, <1>g, <2>2, <2>3 DEF BumpGeneration, sources, revision, TypeOK
  <2> QED
    BY <1>0, <1>3, <1>g, <2>4 DEF BumpGeneration, sources, TypeInv, Total
<1>h. ASSUME NEW w \in Worlds, BuildCopy(w) PROVE TypeInv'
  BY <1>0, <1>h DEF BuildCopy, sources, revision, record, history, TypeInv, TypeOK, Total, InProgress, Patching
<1>i. ASSUME NEW result \in {"passed", "failed", "unknown"}, SaveVerdict(result) PROVE TypeInv'
  <2>1. cur \in Worlds /\ generation[cur] \in 0..MaxGeneration /\ MaxGeneration \in Nat
    BY <1>0, <1>i, WorldsAssumption DEF SaveVerdict, TypeOK
  <2>2. verifiedAt' \in [Worlds -> -1..MaxGeneration]
    BY <1>0, <1>i, <2>1 DEF SaveVerdict, TypeOK
  <2>3. verdict' \in [Worlds -> {"never", "passed", "failed", "unknown", "stale"}]
    BY <1>0, <1>i, <2>1 DEF SaveVerdict, TypeOK
  <2>4. TypeOK'
    BY <1>0, <1>3, <1>i, <2>2, <2>3 DEF SaveVerdict, sources, revision, TypeOK
  <2> QED
    BY <1>0, <1>3, <1>i, <2>4 DEF SaveVerdict, sources, TypeInv, Total
<1>j. ASSUME NEW w \in Worlds, NEW t \in Txs, StagePromotion(w, t) PROVE TypeInv'
  <2> DEFINE post == [p \in DOMAIN changes[w] |-> Outcome(changes[w][p])]
             pre == Restrict(disk, DOMAIN changes[w])
  <2>1. \A p \in DOMAIN changes[w] : Outcome(changes[w][p]) \in File
    <3> TAKE p \in DOMAIN changes[w]
    <3>1. p \in Paths /\ changes[w][p] \in Requests /\ changes[w][p].path = p
      BY <1>0 DEF TypeOK
    <3>2. changes[w][p].op # "create" /\ disk[p] # Absent
      BY <1>j DEF StagePromotion
    <3>3. disk[p] \in Texts
      BY <1>2, <3>1, <3>2 DEF File
    <3>4. CASE changes[w][p].op = "delete"
      BY <3>4 DEF Outcome, File
    <3>5. CASE changes[w][p].op = "replace"
      BY <3>1, <3>3, <3>5, RequestFacts, ReplacedTyped DEF Outcome, File
    <3> QED
      BY <3>1, <3>2, <3>4, <3>5, RequestFacts
  <2>2. /\ txs' = [txs EXCEPT ![t] = "staged"] /\ asked' = [asked EXCEPT ![t] = [pre |-> pre, post |-> post]]
        /\ disk' = disk /\ pc' = "commit" /\ cur' = w /\ tx' = t /\ HeadIs(disk)
    BY <1>j DEF StagePromotion, Engine!Stage
  <2>3. asked'[t].post = post
    BY <1>0, <2>2 DEF Total
  <2>4. InProgress'
    BY <1>0, <1>j, <2>1, <2>2, <2>3 DEF StagePromotion, InProgress, Patching
  <2>5. TypeOK'
    BY <1>0, <1>1, <1>2, <1>j, <2>2 DEF StagePromotion, record, TypeOK
  <2>6. Total'
    BY <1>0, <1>j, <2>2 DEF StagePromotion, record, Total
  <2> QED
    BY <2>4, <2>5, <2>6 DEF TypeInv
<1>k. ASSUME CommitPromotion PROVE TypeInv'
  <2>1. /\ txs' = [txs EXCEPT ![tx] = "committed"] /\ asked' = asked
        /\ disk' = Engine!Overlay(asked[tx].post) /\ HeadIs(disk') /\ pc = "commit" /\ pc' = "close"
    BY <1>k DEF CommitPromotion, Engine!Commit
  <2>2. disk' \in [Paths -> File]
    BY <1>0, <1>2, <2>1 DEF InProgress, Engine!Overlay
  <2>3. TypeOK'
    BY <1>0, <1>1, <1>k, <2>1, <2>2 DEF CommitPromotion, record, TypeOK
  <2> QED
    BY <1>0, <1>k, <2>1, <2>3 DEF CommitPromotion, record, TypeInv, Total, InProgress, Patching
<1>l. ASSUME PromotionFails PROVE TypeInv'
  <2>1. /\ disk' = disk /\ asked' = asked /\ HeadIs(disk) /\ Idle
        /\ txs' = txs \/ txs' = [txs EXCEPT ![tx] = "rolled-back"]
    BY <1>l DEF PromotionFails, Engine!Abort, sources
  <2>2. txs' \in [Txs -> {"none", "staged", "committed", "rolled-back"}]
    BY <1>0, <2>1 DEF TypeOK
  <2>3. TypeOK'
    BY <1>0, <1>1, <1>2, <1>3, <1>l, <2>1, <2>2 DEF PromotionFails, record, TypeOK
  <2> QED
    BY <1>0, <1>3, <1>l, <2>1, <2>3 DEF PromotionFails, record, TypeInv, Total
<1>m. ASSUME ClosePromotion \/ SaveDiscarded PROVE TypeInv'
  <2>1. status' \in [Worlds -> {"none", "open", "promoted", "discarded"}]
    BY <1>0, <1>m DEF ClosePromotion, SaveDiscarded, TypeOK
  <2>2. TypeOK'
    BY <1>0, <1>3, <1>m, <2>1 DEF ClosePromotion, SaveDiscarded, sources, revision, TypeOK
  <2> QED
    BY <1>0, <1>3, <1>m, <2>2 DEF ClosePromotion, SaveDiscarded, sources, TypeInv, Total
<1>n. ASSUME NEW w \in Worlds, RemoveOverlay(w) PROVE TypeInv'
  <2>1. overlay' = [v \in Worlds |-> IF v = w THEN None ELSE overlay[v]]
    BY <1>0, <1>n DEF RemoveOverlay, Total
  <2>2. \A v \in Worlds :
          DOMAIN overlay'[v] \subseteq Paths /\ \A p \in DOMAIN overlay'[v] : overlay'[v][p] \in Texts
    BY <1>0, <2>1 DEF TypeOK, None
  <2>3. TypeOK'
    BY <1>0, <1>n, <2>2 DEF RemoveOverlay, sources, revision, TypeOK
  <2> QED
    BY <1>0, <1>n, <2>1, <2>3 DEF RemoveOverlay, sources, TypeInv, Total, InProgress, Patching
<1>o. ASSUME NEW p \in Paths, NEW c \in Drafts, Edit(p, c) PROVE TypeInv'
  <2>1. disk' = [disk EXCEPT ![p] = c] /\ UNCHANGED <<txs, asked>>
    BY <1>o DEF Edit, Engine!Edit
  <2>2. disk' \in [Paths -> File]
    BY <1>2, <2>1, WorldsAssumption
  <2>3. TypeOK'
    BY <1>0, <1>1, <1>o, <2>1, <2>2 DEF Edit, revision, record, server, TypeOK
  <2> QED
    BY <1>0, <1>o, <2>1, <2>3 DEF Edit, record, server, TypeInv, Total, InProgress
<1>p. ASSUME UNCHANGED vars PROVE TypeInv'
  BY <1>0, <1>p DEF vars, sources, revision, record, server, TypeInv, TypeOK, Total, InProgress
<1> QED
  BY <1>a, <1>b, <1>c, <1>d, <1>e, <1>f, <1>g, <1>h, <1>i, <1>j, <1>k, <1>l, <1>m, <1>n, <1>o, <1>p
     DEF Next, RefuseChange, Crash

(* The state of the worlds has its type in every reachable state.          *)
THEOREM TypeCorrect == Spec => []TypeOK
<1>1. TypeInv => TypeOK
  BY DEF TypeInv
<1> QED
  BY <1>1, TypeInit, TypeStep, PTL DEF Spec

-----------------------------------------------------------------------------
(* What a verdict allows                                                   *)

(* A verdict in the record is that of a verification that was made, and    *)
(* only a passed one, or none at all, is on its way to the sources.        *)
VerdictInv ==
  /\ outcome = [w \in Worlds |-> outcome[w]] /\ landed = [w \in Worlds |-> landed[w]]
  /\ \A w \in Worlds :
       /\ verifiedAt[w] = Never => outcome[w] = "never"
       /\ verdict[w] = "passed" => outcome[w] = "passed"
  /\ pc = "commit" => outcome[cur] \in {"never", "passed"}

LEMMA VerdictInit == Init => VerdictInv
BY DEF Init, VerdictInv

LEMMA VerdictStep == TypeInv /\ VerdictInv /\ [Next]_vars => VerdictInv'
<1> SUFFICES ASSUME TypeInv, VerdictInv, [Next]_vars PROVE VerdictInv'
  OBVIOUS
<1>a. ASSUME UNCHANGED <<outcome, landed, verdict, verifiedAt>>, pc' # "commit" \/ UNCHANGED <<pc, cur>>
      PROVE  VerdictInv'
  BY <1>a DEF VerdictInv
<1>b. ASSUME BumpGeneration PROVE VerdictInv'
  <2>1. \A w \in Worlds : verdict'[w] = "passed" => verdict[w] = "passed"
    BY <1>b DEF BumpGeneration, TypeInv, TypeOK
  <2> QED
    BY <1>b, <2>1 DEF BumpGeneration, Idle, history, VerdictInv
<1>c. ASSUME NEW result \in {"passed", "failed", "unknown"}, SaveVerdict(result) PROVE VerdictInv'
  <2>1. /\ outcome' = [outcome EXCEPT ![cur] = result] /\ verdict' = [verdict EXCEPT ![cur] = result]
        /\ verifiedAt' = [verifiedAt EXCEPT ![cur] = generation[cur]] /\ landed' = landed /\ pc' = "idle"
        /\ cur \in Worlds
    BY <1>c DEF SaveVerdict, Idle, TypeInv, TypeOK
  <2>2. generation[cur] # Never
    BY <2>1, WorldsAssumption DEF TypeInv, TypeOK, Never
  <2>3. outcome' = [w \in Worlds |-> IF w = cur THEN result ELSE outcome[w]]
    BY <2>1 DEF VerdictInv
  <2>4. \A w \in Worlds : /\ verdict'[w] = IF w = cur THEN result ELSE verdict[w]
                          /\ verifiedAt'[w] = IF w = cur THEN generation[cur] ELSE verifiedAt[w]
    BY <2>1 DEF TypeInv, TypeOK
  <2> QED
    BY <2>1, <2>2, <2>3, <2>4 DEF VerdictInv
<1>d. ASSUME NEW w \in Worlds, NEW t \in Txs, StagePromotion(w, t) PROVE VerdictInv'
  <2>1. UNCHANGED <<outcome, landed, verdict, verifiedAt>> /\ cur' = w /\ Promotable(w)
    BY <1>d DEF StagePromotion, history, record
  <2> QED
    BY <2>1 DEF VerdictInv, Promotable
<1>e. ASSUME CommitPromotion PROVE VerdictInv'
  <2>1. /\ UNCHANGED <<outcome, verdict, verifiedAt>> /\ pc' = "close"
        /\ landed' = [landed EXCEPT ![cur] = @ + 1]
    BY <1>e DEF CommitPromotion, record
  <2> QED
    BY <2>1 DEF VerdictInv
<1> QED
  <2>1. CASE CommitPromotion \/ BumpGeneration \/ (\E w \in Worlds, t \in Txs : StagePromotion(w, t))
             \/ \E result \in {"passed", "failed", "unknown"} : SaveVerdict(result)
    BY <2>1, <1>b, <1>c, <1>d, <1>e
  <2>2. CASE \E w \in Worlds : Fork(w) \/ BuildCopy(w) \/ RemoveOverlay(w) \/ \E b \in Batches : BeginApply(w, b)
    BY <2>2, <1>a DEF Fork, BuildCopy, RemoveOverlay, BeginApply, server, record, history
  <2>3. CASE Reconcile \/ WriteOverlay \/ SaveChange \/ RefuseChange \/ PromotionFails \/ ClosePromotion
             \/ SaveDiscarded \/ Crash \/ (\E p \in Paths, c \in Drafts : Edit(p, c)) \/ UNCHANGED vars
    BY <2>3, <1>a DEF Reconcile, WriteOverlay, SaveChange, RefuseChange, PromotionFails, ClosePromotion,
       SaveDiscarded, Crash, Edit, Idle, vars, server, record, history
  <2> QED
    BY <2>1, <2>2, <2>3 DEF Next

LEMMA VerdictAlways == Spec => [](TypeInv /\ VerdictInv)
<1>1. Init => TypeInv /\ VerdictInv
  BY TypeInit, VerdictInit
<1>2. TypeInv /\ VerdictInv /\ [Next]_vars => TypeInv' /\ VerdictInv'
  BY TypeStep, VerdictStep
<1> QED
  BY <1>1, <1>2, PTL DEF Spec

(* Only a commit of a promotion lands anything, and only for its world.    *)
LEMMA LandsByCommit ==
  ASSUME TypeInv, VerdictInv, [Next]_vars, NEW w \in Worlds, Lands(w)
  PROVE  CommitPromotion /\ w = cur
<1>1. landed' = landed \/ CommitPromotion
  BY DEF Next, vars, Reconcile, Fork, BeginApply, BuildCopy, RemoveOverlay, StagePromotion, WriteOverlay,
         SaveChange, RefuseChange, BumpGeneration, SaveVerdict, PromotionFails, ClosePromotion,
         SaveDiscarded, Crash, Edit, history
<1>2. CommitPromotion
  BY <1>1 DEF Lands
<1>3. landed' = [v \in Worlds |-> IF v = cur THEN landed[v] + 1 ELSE landed[v]]
  BY <1>2 DEF CommitPromotion, VerdictInv
<1> QED
  BY <1>2, <1>3 DEF Lands

(* A verdict that is not "passed" never leads to a promotion, whatever     *)
(* crashes, torn edits and foreign writes come in between.                 *)
THEOREM FailedStaysOut == Spec => FailedNeverLands
<1>1. TypeInv /\ VerdictInv /\ [Next]_vars
      => \A w \in Worlds : Lands(w) => outcome[w] \in {"never", "passed"}
  BY LandsByCommit DEF CommitPromotion, VerdictInv
<1> QED
  BY <1>1, VerdictAlways, PTL DEF Spec, FailedNeverLands

-----------------------------------------------------------------------------
(* Landing once                                                            *)

(* Every write of another program is followed by a request that sees it,   *)
(* and a replacement puts something else in the place of what it finds.    *)
AllSeen == "unseen edit" \notin Hazards
Alters(r) == r.op = "replace" => r.old # r.new
EveryChangeAlters == \A b \in Batches : \A i \in DOMAIN b : Alters(b[i])

Perceived == index = disk

(* The change rows, and the changes on their way to them, alter the text.  *)
RowsAlter ==
  /\ \A w \in Worlds :
       /\ changes[w] = [p \in DOMAIN changes[w] |-> changes[w][p]]
       /\ \A p \in DOMAIN changes[w] : Alters(changes[w][p])
  /\ \A i \in DOMAIN todo : Alters(todo[i])

(* What is staged will move the head revision, and with it every world     *)
(* that has landed is bound to an old one, where nothing verifies it.      *)
Moves == pc = "commit" => \E p \in Paths \cap DOMAIN asked[tx].post : asked[tx].post[p] # disk[p]

Spent ==
  /\ landed \in [Worlds -> Nat]
  /\ \A w \in Worlds :
       /\ landed[w] # 0 => w \notin based /\ status[w] # "none"
       /\ verifiedAt[w] # Never => landed[w] <= 1
  /\ pc = "commit" => status[cur] # "none" /\ (verifiedAt[cur] # Never => cur \in based)
  /\ pc = "test" => cur \in based

LandInv == Perceived /\ RowsAlter /\ Moves /\ Spent

LEMMA LandInit == Init => LandInv
BY DEF Init, LandInv, Perceived, RowsAlter, Moves, Spent, None

(* A replacement that finds its place once, or a deletion of a file that   *)
(* is there, makes the file another.                                       *)
LEMMA OutcomeDiffers ==
  ASSUME NEW r \in Requests, Alters(r), disk[r.path] \in Texts, r.op # "create",
         r.op = "replace" => Once(disk[r.path], r.old)
  PROVE  Outcome(r) # disk[r.path]
<1>1. CASE r.op = "delete"
  BY <1>1, WorldsAssumption DEF Outcome
<1>2. CASE r.op = "replace"
  <2>1. {s \in Slots : disk[r.path][s] = r.old} # {}
    BY <1>2, FS_EmptySet DEF Once
  <2>2. PICK s \in Slots : disk[r.path][s] = r.old
    BY <2>1
  <2>3. Outcome(r)[s] = r.new
    BY <1>2, <2>2 DEF Outcome, Replaced
  <2> QED
    BY <1>2, <2>2, <2>3 DEF Alters
<1> QED
  BY <1>1, <1>2, RequestFacts

LEMMA LandStep ==
  ASSUME AllSeen, EveryChangeAlters, TypeInv, LandInv, [Next]_vars
  PROVE  LandInv'
<1>0. /\ Perceived /\ RowsAlter /\ Moves /\ Spent /\ TypeOK /\ Total /\ InProgress
      /\ disk \in [Paths -> File]
  BY DEF LandInv, TypeInv, TypeOK
<1>a. ASSUME UNCHANGED <<sources, landed, changes>>, UNCHANGED revision \/ HeadIs(disk),
             UNCHANGED <<pc, cur, todo, tx, verifiedAt, status>>
      PROVE  LandInv'
  <2>1. UNCHANGED <<index, based>>
    BY <1>0, <1>a DEF HeadIs, revision, Perceived
  <2> QED
    BY <1>0, <1>a, <2>1 DEF sources, LandInv, Perceived, RowsAlter, Moves, Spent
<1>b. ASSUME NEW w \in Worlds, Fork(w) PROVE LandInv'
  <2>1. /\ UNCHANGED <<disk, asked, landed, changes, pc, cur, todo, tx, verifiedAt>> /\ index' = disk
        /\ based' = {w} \cup based
        /\ status[w] = "none" /\ \A v \in Worlds \ {w} : status'[v] = status[v]
        /\ status'[w] = "open"
    BY <1>0, <1>b DEF Fork, sources, server, history, Perceived, TypeOK
  <2>2. Perceived' /\ RowsAlter' /\ Moves'
    BY <1>0, <2>1 DEF Perceived, RowsAlter, Moves
  <2>3. Spent'
    BY <1>0, <2>1 DEF Spent, TypeOK
  <2> QED
    BY <2>2, <2>3 DEF LandInv
<1>c. ASSUME NEW w \in Worlds, NEW b \in Batches, BeginApply(w, b) PROVE LandInv'
  <2>1. \A i \in DOMAIN b : Alters(b[i])
    BY DEF EveryChangeAlters
  <2> QED
    BY <1>0, <1>c, <2>1 DEF BeginApply, sources, revision, record, history, LandInv, Perceived, RowsAlter,
       Moves, Spent
<1>d. ASSUME WriteOverlay PROVE LandInv'
  BY <1>0, <1>d DEF WriteOverlay, sources, revision, history, LandInv, Perceived, RowsAlter, Moves, Spent
<1>e. ASSUME SaveChange PROVE LandInv'
  <2> DEFINE rows == [p \in DOMAIN changes[cur] \cup {todo[1].path} |->
                        IF p = todo[1].path THEN todo[1] ELSE changes[cur][p]]
  <2>1. changes' = [w \in Worlds |-> IF w = cur THEN rows ELSE changes[w]]
    BY <1>0, <1>e DEF SaveChange, Total
  <2>2. todo # <<>> /\ todo \in Seq(Requests) /\ todo' = Tail(todo)
    BY <1>0, <1>e DEF SaveChange, InProgress
  <2>3. 1 \in DOMAIN todo /\ \A i \in DOMAIN todo' : i + 1 \in DOMAIN todo /\ todo'[i] = todo[i + 1]
    BY <2>2
  <2>4. Alters(todo[1]) /\ \A i \in DOMAIN todo' : Alters(todo'[i])
    BY <1>0, <2>3 DEF RowsAlter
  <2>5. rows = [p \in DOMAIN rows |-> rows[p]] /\ \A p \in DOMAIN rows : Alters(rows[p])
    BY <1>0, <1>e, <2>4 DEF RowsAlter, SaveChange, TypeOK
  <2>6. RowsAlter'
    <3> HIDE DEF rows
    <3> QED
      BY <1>0, <2>1, <2>4, <2>5 DEF RowsAlter
  <2> QED
    BY <1>0, <1>e, <2>6 DEF SaveChange, sources, revision, history, LandInv, Perceived, Moves, Spent
<1>f. ASSUME Idle, UNCHANGED <<disk, landed, changes, verifiedAt>>, UNCHANGED revision \/ HeadIs(disk),
             \A w \in Worlds : status[w] # "none" => status'[w] # "none"
      PROVE  LandInv'
  <2>1. UNCHANGED <<index, based>> /\ pc' = "idle" /\ todo' = <<>>
    BY <1>0, <1>f DEF HeadIs, revision, Perceived, Idle
  <2>2. Perceived' /\ RowsAlter' /\ Moves'
    BY <1>0, <1>f, <2>1 DEF Perceived, RowsAlter, Moves
  <2>3. Spent'
    BY <1>0, <1>f, <2>1 DEF Spent
  <2> QED
    BY <2>2, <2>3 DEF LandInv
<1>h. ASSUME NEW w \in Worlds, BuildCopy(w) \/ RemoveOverlay(w) PROVE LandInv'
  <2>1. /\ UNCHANGED <<disk, index, based, landed, changes, todo, status, verifiedAt>>
        /\ pc' \in {"test", "discard"} /\ cur' = w /\ (pc' = "test" => w \in based)
    BY <1>h DEF BuildCopy, RemoveOverlay, Open, sources, revision, record, history
  <2> QED
    BY <1>0, <2>1 DEF LandInv, Perceived, RowsAlter, Moves, Spent
<1>i. ASSUME NEW result \in {"passed", "failed", "unknown"}, SaveVerdict(result) PROVE LandInv'
  <2>1. /\ UNCHANGED <<disk, index, based, landed, changes, status>> /\ pc' = "idle" /\ todo' = <<>>
        /\ cur \in based /\ \A w \in Worlds \ {cur} : verifiedAt'[w] = verifiedAt[w]
    BY <1>0, <1>i DEF SaveVerdict, Idle, sources, revision, Spent, TypeOK
  <2>2. cur \in Worlds /\ landed[cur] = 0
    BY <1>0, <1>i, <2>1 DEF SaveVerdict, Spent, TypeOK
  <2>3. Perceived' /\ RowsAlter' /\ Moves'
    BY <1>0, <2>1 DEF Perceived, RowsAlter, Moves
  <2>4. Spent'
    BY <1>0, <2>1, <2>2 DEF Spent
  <2> QED
    BY <2>3, <2>4 DEF LandInv
<1>j. ASSUME NEW w \in Worlds, NEW t \in Txs, StagePromotion(w, t) PROVE LandInv'
  <2> DEFINE post == [p \in DOMAIN changes[w] |-> Outcome(changes[w][p])]
             pre == Restrict(disk, DOMAIN changes[w])
  <2>1. /\ asked' = [asked EXCEPT ![t] = [pre |-> pre, post |-> post]]
        /\ disk' = disk /\ pc' = "commit" /\ cur' = w /\ tx' = t /\ HeadIs(disk)
        /\ UNCHANGED <<landed, changes, todo, status, verifiedAt>>
        /\ status[w] = "open" /\ Promotable(w)
    BY <1>j DEF StagePromotion, Engine!Stage, record, history
  <2>2. asked'[t].post = post
    BY <1>0, <2>1 DEF Total
  <2>3. UNCHANGED <<index, based>>
    BY <1>0, <2>1 DEF HeadIs, Perceived
  <2>4. PICK p \in DOMAIN changes[w] : TRUE
    <3>1. DOMAIN changes[w] # {}
      BY <1>0, <1>j DEF StagePromotion, RowsAlter, None
    <3> QED
      BY <3>1
  <2>5. p \in Paths /\ changes[w][p] \in Requests /\ changes[w][p].path = p /\ Alters(changes[w][p])
    BY <1>0, <2>4 DEF TypeOK, RowsAlter
  <2>6. /\ changes[w][p].op # "create" /\ disk[p] # Absent
        /\ changes[w][p].op = "replace" => Once(disk[p], changes[w][p].old)
    BY <1>j, <2>4 DEF StagePromotion
  <2>7. disk[p] \in Texts
    BY <1>0, <2>5, <2>6 DEF File
  <2>8. Outcome(changes[w][p]) # disk[p]
    BY <2>5, <2>6, <2>7, OutcomeDiffers
  <2>9. Moves'
    <3>1. p \in Paths \cap DOMAIN asked'[tx'].post /\ asked'[tx'].post[p] = Outcome(changes[w][p])
      BY <2>1, <2>2, <2>4, <2>5
    <3> QED
      BY <2>1, <2>8, <3>1 DEF Moves
  <2>10. verifiedAt[w] # Never => w \in based
    BY <2>1 DEF Promotable, Fresh
  <2> QED
    BY <1>0, <2>1, <2>3, <2>9, <2>10 DEF LandInv, Perceived, RowsAlter, Spent
<1>k. ASSUME CommitPromotion PROVE LandInv'
  <2>1. /\ disk' = Engine!Overlay(asked[tx].post) /\ HeadIs(disk') /\ pc = "commit" /\ pc' = "close"
        /\ landed' = [landed EXCEPT ![cur] = @ + 1]
        /\ UNCHANGED <<changes, todo, status, verifiedAt, cur>> /\ cur \in Worlds
    BY <1>0, <1>k DEF CommitPromotion, Engine!Commit, record, TypeOK
  <2>2. PICK p \in Paths \cap DOMAIN asked[tx].post : asked[tx].post[p] # disk[p]
    BY <1>0, <2>1 DEF Moves
  <2>3. disk'[p] # disk[p]
    BY <2>1, <2>2 DEF Engine!Overlay
  <2>4. based' = {} /\ index' = disk'
    BY <1>0, <2>1, <2>3 DEF HeadIs, Perceived
  <2>5. verifiedAt[cur] # Never => landed[cur] = 0
    BY <1>0, <2>1 DEF Spent
  <2>6. Spent'
    BY <1>0, <2>1, <2>4, <2>5 DEF Spent
  <2> QED
    BY <1>0, <2>1, <2>4, <2>6 DEF LandInv, Perceived, RowsAlter, Moves
<1>l. ASSUME NEW p \in Paths, NEW c \in Drafts, Edit(p, c) PROVE LandInv'
  <2>1. /\ pc = "idle" /\ HeadIs(disk') /\ UNCHANGED <<landed, changes, todo, status, verifiedAt, pc, cur>>
    BY <1>l DEF Edit, AllSeen, record, server, history
  <2>2. index' = disk' /\ based' \subseteq based
    BY <2>1 DEF HeadIs
  <2> QED
    BY <1>0, <2>1, <2>2 DEF LandInv, Perceived, RowsAlter, Moves, Spent
<1> QED
  <2>1. CASE Reconcile \/ UNCHANGED vars
    BY <2>1, <1>a DEF Reconcile, vars, sources, revision, record, server, history
  <2>2. CASE \E w \in Worlds : Fork(w) \/ BuildCopy(w) \/ RemoveOverlay(w) \/ \E b \in Batches : BeginApply(w, b)
    BY <2>2, <1>b, <1>c, <1>h
  <2>3. CASE RefuseChange \/ BumpGeneration \/ PromotionFails \/ ClosePromotion \/ SaveDiscarded \/ Crash
    BY <1>0, <2>3, <1>f DEF RefuseChange, BumpGeneration, PromotionFails, ClosePromotion, SaveDiscarded, Crash,
       Engine!Abort, sources, record, history, TypeOK
  <2> QED
    BY <2>1, <2>2, <2>3, <1>d, <1>e, <1>i, <1>j, <1>k, <1>l DEF Next

(* A verified world takes effect at most once: its own landing moves the   *)
(* head revision away from the one it was verified at, so that neither a   *)
(* crash before its closing is saved nor the return of the old text lets   *)
(* it land again.                                                          *)
THEOREM LandsAtMostOnce == ASSUME AllSeen, EveryChangeAlters PROVE Spec => []LandsOnce
<1>1. Init => TypeInv /\ LandInv
  BY TypeInit, LandInit
<1>2. TypeInv /\ LandInv /\ [Next]_vars => TypeInv' /\ LandInv'
  BY TypeStep, LandStep
<1>3. LandInv => LandsOnce
  BY DEF LandInv, Spent, LandsOnce
<1> QED
  BY <1>1, <1>2, <1>3, PTL DEF Spec

-----------------------------------------------------------------------------
(* What a verdict is about                                                 *)

(* Beside the hazards, a change list names each file once: the second      *)
(* change of a file would be read against the text before the first, and   *)
(* could be refused with the first one saved.                              *)
OncePerFile ==
  \A b \in Batches : \A i, j \in DOMAIN b : b[i].path = b[j].path => i = j

Sheltered == Hazards = {} /\ OncePerFile

(* The file whose overlay is written and whose row is not.                 *)
InHand(w, p) == pc = "row" /\ w = cur /\ p = todo[1].path

(* What a row asks of the file that is there, and a tree that has it.      *)
Replays(text, r) ==
  r.op = "replace" /\ disk[r.path] # Absent => text = Replaced(disk[r.path], r.old, r.new)

Agrees(w, tree) ==
  \A p \in DOMAIN changes[w] :
    /\ p \in DOMAIN overlay[w] => tree[p] = overlay[w][p]
    /\ w \in based =>
         /\ changes[w][p].op = "delete" => tree[p] = Absent
         /\ Replays(tree[p], changes[w][p])

(* The rows say what the overlay is: nothing where a file is deleted, the  *)
(* file on disk with the last replacement made, and a created file where   *)
(* there is none.                                                          *)
RowsDescribe ==
  \A w \in Worlds : \A p \in DOMAIN changes[w] :
    /\ p \in DOMAIN overlay[w] /\ ~InHand(w, p) =>
         /\ changes[w][p].op # "delete"
         /\ w \in based => Replays(overlay[w][p], changes[w][p])
    /\ w \in based /\ changes[w][p].op = "create" => index[p] = Absent

Unforked ==
  /\ \A w \in Worlds : status[w] = "none" => DOMAIN changes[w] = {}
  /\ pc # "idle" => status[cur] # "none"

(* The change in hand is already what its row will say.                    *)
HandDescribed ==
  pc = "row" =>
    /\ todo[1].op = "delete" => todo[1].path \notin DOMAIN overlay[cur]
    /\ todo[1].op = "create" => index[todo[1].path] = Absent
    /\ todo[1].path \in DOMAIN overlay[cur] => Replays(overlay[cur][todo[1].path], todo[1])

(* The rows read at the start, and that no change after the first is going *)
(* to be refused.                                                          *)
Planned ==
  pc \in Patching =>
    /\ cur \in based
    /\ \A i \in DOMAIN todo : todo[i].path \in DOMAIN known /\ todo[i].op = "replace" =>
         known[todo[i].path].op # "replace"
    /\ \A p \in DOMAIN known : known[p].op = "replace" \/ known[p].op = "delete" \/ index[p] = Absent
    /\ \A i, j \in DOMAIN todo : todo[i].path = todo[j].path => i = j
    /\ \A i \in DOMAIN todo : \/ pc = "patch" /\ Len(todo) = 1
                              \/ pc = "row" /\ i = 1
                              \/ Accepts(cur, known, todo[i])

(* A verdict is about the overlay and the rows as they are, but for the    *)
(* world being changed.                                                    *)
Vouched ==
  /\ \A w \in Worlds :
       verdict[w] \in {"passed", "failed"} /\ verifiedAt[w] = generation[w]
         /\ ~(pc \in {"row", "more"} /\ w = cur) => Agrees(w, tested[w])
  /\ pc = "test" => Agrees(cur, built)

Promised ==
  pc = "commit" =>
    /\ verifiedAt[cur] # Never => Fresh(cur)
    /\ DOMAIN asked[tx].post = DOMAIN changes[cur]
    /\ \A p \in DOMAIN changes[cur] :
         /\ changes[cur][p].op # "create" /\ disk[p] # Absent
         /\ asked[tx].post[p] = Outcome(changes[cur][p])

WorldInv ==
  /\ Perceived /\ RowsDescribe /\ Unforked /\ HandDescribed /\ Planned /\ Vouched /\ Promised
  /\ tested = [w \in Worlds |-> tested[w]]

LEMMA WorldInit == Init => WorldInv
BY DEF Init, WorldInv, Perceived, RowsDescribe, Unforked, HandDescribed, Planned, Patching, Vouched, Promised,
       Agrees, None

(* What a verdict says of a world depends on no more than this.            *)
LEMMA AgreesFrame ==
  ASSUME UNCHANGED <<disk, based>>, NEW w, NEW tree, Agrees(w, tree),
         changes'[w] = changes[w], overlay'[w] = overlay[w]
  PROVE  Agrees(w, tree)'
BY DEF Agrees, Replays

(* Nothing is in hand before or after, and no file and no row changes.     *)
LEMMA WorldFrame ==
  ASSUME WorldInv,
         UNCHANGED <<disk, index, based, overlay, changes, generation, verdict, verifiedAt, tested>>,
         pc \notin {"row", "more"}, pc' \in {"idle", "close", "discard"},
         \A w \in Worlds : status'[w] = "none" => status[w] = "none",
         pc' # "idle" => status'[cur'] # "none"
  PROVE  WorldInv'
<1>1. Perceived' /\ HandDescribed' /\ Planned' /\ Promised' /\ Unforked' /\ tested' = [w \in Worlds |-> tested'[w]]
  BY DEF WorldInv, Perceived, HandDescribed, Planned, Patching, Promised, Unforked
<1>2. RowsDescribe'
  BY DEF WorldInv, RowsDescribe, InHand, Replays
<1>3. Vouched'
  BY AgreesFrame DEF WorldInv, Vouched
<1> QED
  BY <1>1, <1>2, <1>3 DEF WorldInv

(* Whether a change is accepted depends on the overlay of its own file.    *)
LEMMA AcceptsFrame ==
  ASSUME UNCHANGED <<disk, index, known>>, NEW r, Accepts(cur, known, r), cur' = cur,
         r.path \in DOMAIN overlay'[cur] <=> r.path \in DOMAIN overlay[cur],
         r.path \in DOMAIN overlay[cur] => overlay'[cur][r.path] = overlay[cur][r.path]
  PROVE  Accepts(cur, known, r)'
<1>1. Current(cur, known, r.path)' = Current(cur, known, r.path)
  BY DEF Current
<1> QED
  BY <1>1 DEF Accepts

(* What writing a change does to the overlay.                              *)
LEMMA PatchedFacts ==
  ASSUME NEW r
  PROVE  /\ \A p : p # r.path => (p \in DOMAIN Patched(r) <=> p \in DOMAIN overlay[cur])
         /\ \A p \in DOMAIN overlay[cur] : p # r.path => Patched(r)[p] = overlay[cur][p]
         /\ r.op = "delete" => r.path \notin DOMAIN Patched(r)
         /\ r.op = "replace" =>
              Patched(r)[r.path] = Replaced(Current(cur, known, r.path), r.old, r.new)
BY DEF Patched, Restrict

LEMMA WriteOverlayStep ==
  ASSUME Sheltered, TypeInv, WorldInv, WriteOverlay
  PROVE  WorldInv'
<1> DEFINE r == todo[1]
<1>1. /\ pc \in {"patch", "more"} /\ pc' = "row" /\ todo # <<>> /\ Accepts(cur, known, r)
      /\ UNCHANGED <<disk, index, based, status, changes, generation, verdict, verifiedAt, cur, todo, known, tested>>
      /\ cur \in Worlds /\ r \in Requests
  BY DEF WriteOverlay, sources, revision, history, TypeInv, TypeOK, InProgress
<1>2. overlay' = [w \in Worlds |-> IF w = cur THEN Patched(r) ELSE overlay[w]]
  BY DEF WriteOverlay, TypeInv, Total
<1>3. /\ r.op \in {"replace", "create", "delete"} /\ r.path \in Paths
      /\ todo \in Seq(Requests) /\ 1 \in DOMAIN todo
  BY <1>1, RequestFacts DEF TypeInv, InProgress
<1> HIDE DEF r
<1>4. HandDescribed'
  <2>1. r.op = "delete" => r.path \notin DOMAIN overlay'[cur]
    BY <1>1, <1>2, PatchedFacts
  <2>2. r.op = "create" => index[r.path] = Absent
    BY <1>1 DEF Accepts
  <2>3. r.op = "replace" /\ disk[r.path] # Absent =>
          overlay'[cur][r.path] = Replaced(disk[r.path], r.old, r.new)
    <3> SUFFICES ASSUME r.op = "replace", disk[r.path] # Absent
                 PROVE  overlay'[cur][r.path] = Replaced(disk[r.path], r.old, r.new)
      OBVIOUS
    <3>1. index[r.path] # Absent
      BY DEF WorldInv, Perceived
    <3>2. ~(r.path \in DOMAIN known /\ known[r.path].op # "delete")
      BY <1>1, <1>3, <3>1 DEF WorldInv, Planned, Patching, r
    <3>3. Current(cur, known, r.path) = disk[r.path]
      BY <3>1, <3>2 DEF Current
    <3> QED
      BY <1>1, <1>2, <3>3, PatchedFacts
  <2> QED
    BY <1>1, <2>1, <2>2, <2>3 DEF HandDescribed, Replays, r
<1>5. RowsDescribe'
  <2>1. \A p : p # r.path => /\ p \in DOMAIN overlay'[cur] <=> p \in DOMAIN overlay[cur]
                             /\ p \in DOMAIN overlay[cur] => overlay'[cur][p] = overlay[cur][p]
    BY <1>1, <1>2, PatchedFacts
  <2>2. \A w \in Worlds \ {cur} : overlay'[w] = overlay[w]
    BY <1>2
  <2> QED
    BY <1>1, <2>1, <2>2 DEF WorldInv, RowsDescribe, InHand, Replays, r
<1>6. Planned'
  <2>1. \A i \in DOMAIN todo : i # 1 => Accepts(cur, known, todo[i])'
    <3> TAKE i \in DOMAIN todo
    <3> HAVE i # 1
    <3>1. todo[i].path # r.path /\ Accepts(cur, known, todo[i])
      BY <1>1, <1>3 DEF WorldInv, Planned, Patching, r
    <3>2. /\ todo[i].path \in DOMAIN overlay'[cur] <=> todo[i].path \in DOMAIN overlay[cur]
          /\ todo[i].path \in DOMAIN overlay[cur] => overlay'[cur][todo[i].path] = overlay[cur][todo[i].path]
      BY <1>1, <1>2, <3>1, PatchedFacts
    <3>3. \A q : q = todo[i] => Accepts(cur, known, q)'
      BY <1>1, <3>1, <3>2, AcceptsFrame
    <3> QED
      BY <1>1, <3>3
  <2> QED
    BY <1>1, <2>1 DEF WorldInv, Planned, Patching
<1>7. Vouched'
  BY <1>1, <1>2, AgreesFrame DEF WorldInv, Vouched
<1> QED
  BY <1>1, <1>4, <1>5, <1>6, <1>7 DEF WorldInv, Perceived, Unforked, Promised

LEMMA SaveChangeStep ==
  ASSUME TypeInv, WorldInv, SaveChange
  PROVE  WorldInv'
<1> DEFINE r == todo[1]
           rows == [p \in DOMAIN changes[cur] \cup {r.path} |-> IF p = r.path THEN r ELSE changes[cur][p]]
<1>1. /\ pc = "row" /\ pc' = "more" /\ todo' = Tail(todo) /\ todo # <<>> /\ todo \in Seq(Requests)
      /\ UNCHANGED <<disk, index, based, status, overlay, generation, verdict, verifiedAt, cur, known, tested>>
      /\ cur \in Worlds /\ r \in Requests
  BY DEF SaveChange, sources, revision, history, TypeInv, TypeOK, InProgress
<1>2. changes' = [w \in Worlds |-> IF w = cur THEN rows ELSE changes[w]]
  BY DEF SaveChange, TypeInv, Total
<1>3. /\ DOMAIN rows = DOMAIN changes[cur] \cup {r.path} /\ rows[r.path] = r
      /\ \A p \in DOMAIN changes[cur] : p # r.path => rows[p] = changes[cur][p]
  OBVIOUS
<1>4. \A i \in DOMAIN todo' : i + 1 \in DOMAIN todo /\ todo'[i] = todo[i + 1] /\ i + 1 # 1
  BY <1>1
<1>5. RowsDescribe'
  <2>1. \A w \in Worlds \ {cur} : changes'[w] = changes[w]
    BY <1>2
  <2>2. changes'[cur] = rows
    BY <1>1, <1>2
  <2>3. r.path \in DOMAIN overlay[cur] => r.op # "delete" /\ Replays(overlay[cur][r.path], r)
    BY <1>1 DEF WorldInv, HandDescribed
  <2>4. r.op = "create" => index[r.path] = Absent
    BY <1>1 DEF WorldInv, HandDescribed
  <2>5. ASSUME NEW p \in DOMAIN rows
        PROVE  /\ p \in DOMAIN overlay[cur] => rows[p].op # "delete" /\ (cur \in based => Replays(overlay[cur][p], rows[p]))
               /\ cur \in based /\ rows[p].op = "create" => index[p] = Absent
    <3>1. CASE p = r.path
      BY <1>3, <2>3, <2>4, <3>1
    <3>2. CASE p # r.path
      BY <1>1, <1>3, <3>2 DEF WorldInv, RowsDescribe, InHand
    <3> QED
      BY <3>1, <3>2
  <2> HIDE DEF rows
  <2>6. ASSUME NEW w \in Worlds, NEW p \in DOMAIN changes'[w]
        PROVE  /\ p \in DOMAIN overlay[w] => changes'[w][p].op # "delete" /\ (w \in based => Replays(overlay[w][p], changes'[w][p]))
               /\ w \in based /\ changes'[w][p].op = "create" => index[p] = Absent
    BY <1>1, <2>1, <2>2, <2>5 DEF WorldInv, RowsDescribe, InHand
  <2> QED
    BY <1>1, <2>6 DEF RowsDescribe, Replays
<1>6. Planned'
  <2>1. \A i \in DOMAIN todo' : Accepts(cur, known, todo[i])'
    BY <1>1, <1>4 DEF WorldInv, Planned, Patching, Accepts, Current
  <2> QED
    BY <1>1, <1>4, <2>1 DEF WorldInv, Planned, Patching
<1>7. Vouched'
  BY <1>1, <1>2, AgreesFrame DEF WorldInv, Vouched
<1>8. Unforked'
  BY <1>1, <1>2 DEF WorldInv, Unforked
<1> QED
  BY <1>1, <1>5, <1>6, <1>7, <1>8 DEF WorldInv, Perceived, HandDescribed, Promised

LEMMA BumpGenerationStep ==
  ASSUME TypeInv, WorldInv, BumpGeneration
  PROVE  WorldInv'
<1>1. /\ pc = "more" /\ pc' = "idle" /\ cur \in Worlds
      /\ UNCHANGED <<disk, index, based, status, overlay, changes, verifiedAt, tested>>
  BY DEF BumpGeneration, Idle, sources, revision, history, TypeInv, TypeOK
<1>2. /\ verdict'[cur] \notin {"passed", "failed"}
      /\ \A w \in Worlds \ {cur} : verdict'[w] = verdict[w] /\ generation'[w] = generation[w]
  BY <1>1 DEF BumpGeneration, TypeInv, TypeOK
<1>3. RowsDescribe'
  BY <1>1 DEF WorldInv, RowsDescribe, InHand, Replays
<1>4. Vouched'
  BY <1>1, <1>2, AgreesFrame DEF WorldInv, Vouched
<1> QED
  BY <1>1, <1>3, <1>4 DEF WorldInv, Perceived, Unforked, HandDescribed, Planned, Patching, Promised

LEMMA BeginApplyStep ==
  ASSUME Sheltered, TypeInv, WorldInv, NEW w \in Worlds, NEW b \in Batches, BeginApply(w, b)
  PROVE  WorldInv'
<1>1. /\ pc = "idle" /\ pc' = "patch" /\ cur' = w /\ todo' = b /\ known' = changes[w]
      /\ status[w] = "open" /\ w \in based
      /\ UNCHANGED <<disk, index, based, status, overlay, changes, generation, verdict, verifiedAt, tested>>
      /\ Len(b) = 1 \/ \A i \in DOMAIN b : Accepts(w, changes[w], b[i])
      /\ \A i \in DOMAIN b : ~Again(w, b[i])
  BY DEF BeginApply, Open, Sheltered, sources, revision, record, history
<1>2. \A i \in DOMAIN b : Accepts(w, changes[w], b[i]) => Accepts(cur, known, todo[i])'
  BY <1>1 DEF Accepts, Current
<1>3. \A p \in DOMAIN changes[w] :
        changes[w][p].op = "replace" \/ changes[w][p].op = "delete" \/ index[p] = Absent
  BY <1>1, RequestFacts DEF WorldInv, RowsDescribe, TypeInv, TypeOK
<1>4. Planned'
  BY <1>1, <1>2, <1>3 DEF Planned, Patching, Again, Sheltered, OncePerFile
<1>5. RowsDescribe'
  BY <1>1 DEF WorldInv, RowsDescribe, InHand, Replays
<1>6. Vouched'
  BY <1>1, AgreesFrame DEF WorldInv, Vouched
<1> QED
  BY <1>1, <1>4, <1>5, <1>6 DEF WorldInv, Perceived, Unforked, HandDescribed, Promised

(* The copy under test is what the overlay and the rows describe.          *)
LEMMA BuildCopyStep ==
  ASSUME TypeInv, WorldInv, NEW w \in Worlds, BuildCopy(w)
  PROVE  WorldInv'
<1>1. /\ pc = "idle" /\ pc' = "test" /\ cur' = w /\ built' = Tree(w) /\ status[w] = "open" /\ w \in based
      /\ UNCHANGED <<disk, index, based, status, overlay, changes, generation, verdict, verifiedAt, tested>>
      /\ \A p \in DOMAIN changes[w] : changes[w][p].op # "delete" => p \in DOMAIN overlay[w]
  BY DEF BuildCopy, Open, sources, revision, record, history
<1>2. Agrees(w, Tree(w))
  <2> SUFFICES ASSUME NEW p \in DOMAIN changes[w]
               PROVE  /\ p \in DOMAIN overlay[w] => Tree(w)[p] = overlay[w][p]
                      /\ changes[w][p].op = "delete" => Tree(w)[p] = Absent
                      /\ Replays(Tree(w)[p], changes[w][p])
    BY DEF Agrees
  <2>1. p \in Paths
    BY DEF TypeInv, TypeOK
  <2>2. Tree(w)[p] = IF changes[w][p].op = "delete" THEN Absent ELSE overlay[w][p]
    BY <2>1 DEF Tree
  <2>3. p \in DOMAIN overlay[w] => changes[w][p].op # "delete" /\ Replays(overlay[w][p], changes[w][p])
    BY <1>1 DEF WorldInv, RowsDescribe, InHand
  <2> QED
    BY <1>1, <2>2, <2>3 DEF Replays
<1>3. Vouched'
  <2>1. Agrees(cur, built)'
    BY <1>1, <1>2 DEF Agrees, Replays
  <2> QED
    BY <1>1, <2>1, AgreesFrame DEF WorldInv, Vouched
<1>4. RowsDescribe'
  BY <1>1 DEF WorldInv, RowsDescribe, InHand, Replays
<1> QED
  BY <1>1, <1>3, <1>4 DEF WorldInv, Perceived, Unforked, HandDescribed, Planned, Patching, Promised

LEMMA SaveVerdictStep ==
  ASSUME TypeInv, WorldInv, NEW result, SaveVerdict(result)
  PROVE  WorldInv'
<1>1. /\ pc = "test" /\ pc' = "idle" /\ cur \in Worlds
      /\ UNCHANGED <<disk, index, based, status, overlay, changes, generation>>
      /\ tested' = [tested EXCEPT ![cur] = built]
      /\ \A w \in Worlds \ {cur} : verdict'[w] = verdict[w] /\ verifiedAt'[w] = verifiedAt[w]
  BY DEF SaveVerdict, Idle, sources, revision, TypeInv, TypeOK
<1>2. tested' = [w \in Worlds |-> IF w = cur THEN built ELSE tested[w]]
  BY <1>1 DEF WorldInv
<1>3. \A w \in Worlds : w # cur => tested'[w] = tested[w]
  BY <1>2
<1>4. tested'[cur] = built
  BY <1>1, <1>2
<1>5. Vouched'
  <2>1. \A w \in Worlds : w = cur => Agrees(w, tested[w])'
    BY <1>1, <1>4 DEF WorldInv, Vouched, Agrees, Replays
  <2>2. ASSUME NEW w \in Worlds, w # cur, verdict'[w] \in {"passed", "failed"}, verifiedAt'[w] = generation'[w]
        PROVE  Agrees(w, tested[w])'
    BY <1>1, <1>3, <2>2 DEF WorldInv, Vouched, Agrees, Replays
  <2> QED
    BY <1>1, <2>1, <2>2 DEF Vouched
<1>6. RowsDescribe'
  BY <1>1 DEF WorldInv, RowsDescribe, InHand, Replays
<1> QED
  BY <1>1, <1>2, <1>5, <1>6 DEF WorldInv, Perceived, Unforked, HandDescribed, Planned, Patching, Promised

LEMMA ForkStep ==
  ASSUME TypeInv, WorldInv, NEW w \in Worlds, Fork(w)
  PROVE  WorldInv'
<1>1. /\ pc = "idle" /\ pc' = "idle" /\ status[w] = "none"
      /\ UNCHANGED <<disk, overlay, changes, generation, verdict, verifiedAt, cur, tested>>
      /\ index' = index /\ based' = {w} \cup based
      /\ status' = [status EXCEPT ![w] = "open"]
  BY DEF Fork, sources, server, history, WorldInv, Perceived
<1>2. DOMAIN changes[w] = {}
  BY <1>1 DEF WorldInv, Unforked
<1>3. RowsDescribe'
  BY <1>1, <1>2 DEF WorldInv, RowsDescribe, InHand, Replays
<1>4. Vouched'
  BY <1>1, <1>2 DEF WorldInv, Vouched, Agrees, Replays
<1>5. Unforked'
  BY <1>1 DEF WorldInv, Unforked, TypeInv, TypeOK
<1> QED
  BY <1>1, <1>3, <1>4, <1>5 DEF WorldInv, Perceived, HandDescribed, Planned, Patching, Promised

LEMMA RemoveOverlayStep ==
  ASSUME TypeInv, WorldInv, NEW w \in Worlds, RemoveOverlay(w)
  PROVE  WorldInv'
<1>1. /\ pc = "idle" /\ pc' = "discard" /\ cur' = w /\ status[w] \in {"open", "discarded"}
      /\ UNCHANGED <<disk, index, based, status, changes, generation, verdict, verifiedAt, tested>>
      /\ DOMAIN overlay'[w] = {} /\ \A v \in Worlds \ {w} : overlay'[v] = overlay[v]
  BY DEF RemoveOverlay, sources, revision, history, TypeInv, Total, None
<1>2. RowsDescribe'
  BY <1>1 DEF WorldInv, RowsDescribe, InHand, Replays
<1>3. Vouched'
  BY <1>1 DEF WorldInv, Vouched, Agrees, Replays
<1> QED
  BY <1>1, <1>2, <1>3 DEF WorldInv, Perceived, Unforked, HandDescribed, Planned, Patching, Promised

(* The head revision moves: no world is bound to it any more.              *)
LEMMA HeadMoves ==
  ASSUME TypeInv, WorldInv, HeadIs(disk'), UNCHANGED <<status, overlay, changes, generation, verdict, verifiedAt, tested, cur>>,
         pc \in {"idle", "commit"}, pc' \in {"idle", "close"}, pc' # "idle" => pc # "idle"
  PROVE  WorldInv'
<1>1. CASE disk' = disk
  BY <1>1, WorldFrame DEF HeadIs, WorldInv, Perceived, Unforked
<1>2. CASE disk' # disk
  <2>1. based' = {} /\ index' = disk'
    BY <1>2 DEF HeadIs, WorldInv, Perceived
  <2>2. RowsDescribe' /\ Vouched'
    BY <2>1 DEF WorldInv, RowsDescribe, InHand, Vouched, Agrees
  <2> QED
    BY <2>1, <2>2 DEF WorldInv, Perceived, Unforked, HandDescribed, Planned, Patching, Promised
<1> QED
  BY <1>1, <1>2

LEMMA StagePromotionStep ==
  ASSUME TypeInv, WorldInv, NEW w \in Worlds, NEW t \in Txs, StagePromotion(w, t)
  PROVE  WorldInv'
<1> DEFINE post == [p \in DOMAIN changes[w] |-> Outcome(changes[w][p])]
           pre == Restrict(disk, DOMAIN changes[w])
<1>1. /\ asked' = [asked EXCEPT ![t] = [pre |-> pre, post |-> post]]
      /\ disk' = disk /\ pc = "idle" /\ pc' = "commit" /\ cur' = w /\ tx' = t
      /\ UNCHANGED <<index, based>>
      /\ UNCHANGED <<status, overlay, changes, generation, verdict, verifiedAt, tested>>
      /\ status[w] = "open" /\ Promotable(w)
      /\ \A p \in DOMAIN changes[w] : changes[w][p].op # "create" /\ disk[p] # Absent
  BY DEF StagePromotion, Engine!Stage, HeadIs, WorldInv, Perceived, record, history
<1>2. asked'[t].post = post
  BY <1>1 DEF TypeInv, Total
<1>3. \A p \in DOMAIN changes[w] : Outcome(changes[w][p])' = Outcome(changes[w][p])
  BY <1>1 DEF Outcome
<1>4. verifiedAt[w] # Never => Fresh(w)'
  BY <1>1 DEF Promotable, Fresh
<1>5. Promised'
  BY <1>1, <1>2, <1>3, <1>4 DEF Promised
<1>6. RowsDescribe'
  BY <1>1 DEF WorldInv, RowsDescribe, InHand, Replays
<1>7. Vouched'
  BY <1>1, AgreesFrame DEF WorldInv, Vouched
<1> QED
  BY <1>1, <1>5, <1>6, <1>7 DEF WorldInv, Perceived, Unforked, HandDescribed, Planned, Patching

LEMMA WorldStep ==
  ASSUME Sheltered, TypeInv, WorldInv, [Next]_vars
  PROVE  WorldInv'
<1>1. CASE CommitPromotion
  <2>1. /\ pc = "commit" /\ pc' = "close" /\ HeadIs(disk') /\ UNCHANGED <<cur, tested>>
        /\ UNCHANGED <<status, overlay, changes, generation, verdict, verifiedAt>>
    BY <1>1 DEF CommitPromotion, record
  <2> QED
    BY <2>1, HeadMoves
<1>2. ASSUME NEW p \in Paths, NEW c \in Drafts, Edit(p, c) PROVE WorldInv'
  BY <1>2, HeadMoves DEF Edit, Sheltered, record, server, history
<1>3. CASE Reconcile \/ PromotionFails
  BY <1>3, WorldFrame DEF Reconcile, PromotionFails, Engine!Abort, HeadIs, Idle, sources, record, server, history,
     WorldInv, Perceived
<1>4. CASE RefuseChange
  <2>1. pc = "patch"
    <3>1. pc = "more" => Accepts(cur, known, todo[1])
      BY <1>4 DEF RefuseChange, WorldInv, Planned, Patching, TypeInv, InProgress
    <3> QED
      BY <1>4, <3>1 DEF RefuseChange
  <2> QED
    BY <1>4, <2>1, WorldFrame DEF RefuseChange, Idle, sources, revision, record, history
<1>5. CASE Crash
  BY <1>5, WorldFrame DEF Crash, Sheltered, Idle, sources, revision, record, history
<1>6. CASE ClosePromotion \/ SaveDiscarded
  <2>1. \A w \in Worlds : status'[w] = "none" => status[w] = "none"
    BY <1>6 DEF ClosePromotion, SaveDiscarded, TypeInv, TypeOK
  <2> QED
    BY <1>6, <2>1, WorldFrame DEF ClosePromotion, SaveDiscarded, Idle, sources, revision, history
<1>7. CASE UNCHANGED vars
  <2>1. UNCHANGED <<disk, asked, index, based, status, overlay, changes, generation, verdict, verifiedAt, tested,
                    pc, cur, todo, known, built, tx>>
    BY <1>7 DEF vars, sources, revision, record, server, history
  <2>2. Perceived' /\ RowsDescribe' /\ Unforked' /\ HandDescribed'
    BY <2>1 DEF WorldInv, Perceived, RowsDescribe, Unforked, HandDescribed, InHand, Replays
  <2>3. Planned'
    BY <2>1 DEF WorldInv, Planned, Accepts, Current
  <2>4. Vouched' /\ Promised'
    BY <2>1 DEF WorldInv, Vouched, Promised, Agrees, Replays, Fresh, Outcome
  <2> QED
    BY <2>1, <2>2, <2>3, <2>4 DEF WorldInv
<1> QED
  BY <1>1, <1>2, <1>3, <1>4, <1>5, <1>6, <1>7, ForkStep, BeginApplyStep, BuildCopyStep, RemoveOverlayStep,
     StagePromotionStep, WriteOverlayStep, SaveChangeStep, BumpGenerationStep, SaveVerdictStep DEF Next

LEMMA WorldAlways == ASSUME Sheltered PROVE Spec => [](TypeInv /\ VerdictInv /\ WorldInv)
<1>1. Init => WorldInv
  BY WorldInit
<1>2. TypeInv /\ WorldInv /\ [Next]_vars => WorldInv'
  BY WorldStep
<1> QED
  BY <1>1, <1>2, VerdictAlways, PTL DEF Spec

(* A verdict in force is about the overlay as it is, through every order   *)
(* of edits, verifications, interrupted discards and crashes between them. *)
THEOREM VerdictIsOfThisOverlay == ASSUME Sheltered PROVE Spec => []VerdictOfThisOverlay
<1>1. WorldInv => VerdictOfThisOverlay
  BY DEF WorldInv, Vouched, Agrees, Fresh, VerdictOfThisOverlay
<1> QED
  BY <1>1, WorldAlways, PTL

(* What a promotion of a verified world makes of a file is what was        *)
(* tested: the requests replayed on the sources and the overlay that was   *)
(* built by them are the same text.                                        *)
THEOREM WhatLandsWasTested == ASSUME Sheltered PROVE Spec => LandsAsTested
<1>1. ASSUME TypeInv, VerdictInv, WorldInv, [Next]_vars, NEW w \in Worlds, Lands(w), verifiedAt[w] # Never,
             NEW p \in DOMAIN changes[w]
      PROVE  disk'[p] = tested[w][p]
  <2>1. CommitPromotion /\ w = cur /\ pc = "commit"
    BY <1>1, LandsByCommit DEF CommitPromotion
  <2>2. /\ Fresh(w) /\ p \in DOMAIN asked[tx].post /\ asked[tx].post[p] = Outcome(changes[w][p])
        /\ changes[w][p].op # "create" /\ disk[p] # Absent
    BY <1>1, <2>1 DEF WorldInv, Promised
  <2>3. p \in Paths /\ changes[w][p] \in Requests /\ changes[w][p].path = p
    BY <1>1 DEF TypeInv, TypeOK
  <2>4. disk'[p] = Outcome(changes[w][p])
    BY <2>1, <2>2, <2>3 DEF CommitPromotion, Engine!Commit, Engine!Overlay
  <2>5. Agrees(w, tested[w]) /\ w \in based
    BY <1>1, <2>1, <2>2 DEF WorldInv, Vouched, Fresh
  <2>6. Outcome(changes[w][p]) = tested[w][p]
    BY <2>2, <2>3, <2>5, RequestFacts DEF Agrees, Replays, Outcome
  <2> QED
    BY <2>4, <2>6
<1>2. TypeInv /\ VerdictInv /\ WorldInv /\ [Next]_vars
      => \A w \in Worlds : Lands(w) /\ verifiedAt[w] # Never =>
           \A p \in DOMAIN changes[w] : disk'[p] = tested[w][p]
  BY <1>1
<1> QED
  BY <1>2, WorldAlways, PTL DEF Spec, LandsAsTested

=============================================================================
