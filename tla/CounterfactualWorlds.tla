------------------------ MODULE CounterfactualWorlds ------------------------
(***************************************************************************)
(* Counterfactual worlds: patch overlays forked from a revision, edited    *)
(* and verified in isolation, then promoted through a governed change or   *)
(* discarded (the counterfactual operations of HabitatWorkspace).          *)
(*                                                                         *)
(* A world is a directory of patched files, a row for each patched path    *)
(* that keeps the LAST change asked of it, and a record with a generation  *)
(* and the verdict of the last verification.  The server runs one request  *)
(* at a time; `pc' stops between two saves, where a crash can fall, and    *)
(* while tests run.  A promotion stages and commits one transaction of     *)
(* AtomicChange; its policy, leases and approvals are in Coordination.     *)
(***************************************************************************)
EXTENDS Integers, Sequences, FiniteSets, Functions

CONSTANTS
  Paths,          \* source files
  Slots,          \* the places in a text a replacement can match
  Tokens,         \* what can be at a place
  Absent,         \* what a path maps to when there is no file
  Start,          \* the sources a project may start with
  Batches,        \* change lists a client may apply, see Requests
  Worlds,         \* worlds that may be forked
  Txs,            \* transactions promotions may stage
  NoPlan,         \* the operations of a transaction not staged yet
  NoWorld,        \* no world is being worked on
  MaxGeneration,  \* bound: edits of one world
  Drafts,         \* what other programs may write
  Hazards         \* what may happen beyond crashes between requests

Texts == [Slots -> Tokens]
File == Texts \cup {Absent}

(***************************************************************************)
(* "torn apply":  counterfactual_apply ends at a change that does not      *)
(*                apply, after it has saved others                         *)
(* "apply crash": the process dies in counterfactual_apply after it has    *)
(*                saved something                                          *)
(* "second edit": a replacement is asked of a path already replaced        *)
(* "unseen edit": another program writes a file and no request that        *)
(*                reconciles follows before the world is used              *)
(***************************************************************************)
AllHazards == {"torn apply", "apply crash", "second edit", "unseen edit"}

Requests ==
  [op : {"replace"}, path : Paths, old : Tokens, new : Tokens] \cup
  [op : {"create"}, path : Paths, text : Texts] \cup
  [op : {"delete"}, path : Paths]

ASSUME WorldsAssumption ==
  /\ Absent \notin Texts /\ NoWorld \notin Worlds
  /\ Start \subseteq [Paths -> File]
  /\ \A b \in Batches : b \in Seq(Requests) /\ b # <<>>
  /\ Drafts \subseteq File /\ Hazards \subseteq AllHazards
  /\ MaxGeneration \in Nat

VARIABLES
  disk, txs, asked,  \* the sources and their transactions, see AtomicChange
  index,       \* [Paths -> File]: the files the head revision is made of
  based,       \* worlds whose base_revision is the head revision
  status,      \* [Worlds -> "none" | "open" | "promoted" | "discarded"]
  overlay,     \* per world: the files in its overlay directory
  changes,     \* per world: the change row of each patched path
  generation,  \* per world: overlay_generation
  verdict,     \* per world: verification_status
  verifiedAt,  \* per world: verified_generation, Never without one
  pc,          \* where the running request is, lost in a crash
  cur,         \* the world it is about
  todo,        \* the changes it has still to apply
  known,       \* the change rows it read when it started
  built,       \* the disposable copy under test
  tx,          \* the transaction it has staged
  tested,      \* history: the tree each world was last verified with
  outcome,     \* history: how that verification ended
  landed       \* history: how often a world's changes were committed

sources == <<disk, txs, asked>>
revision == <<index, based>>
record == <<status, overlay, changes, generation, verdict, verifiedAt>>
server == <<pc, cur, todo, known, built, tx>>
history == <<tested, outcome, landed>>
vars == <<sources, revision, record, server, history>>

Engine == INSTANCE AtomicChange
  WITH Contents <- Texts, Plans <- {}, files <- disk, status <- txs, ops <- asked

Never == -1
None == [p \in {} |-> Absent]

(* reconcile, after which the sources are `now'.                           *)
HeadIs(now) ==
  /\ index' = now
  /\ based' = IF now = index THEN based ELSE {}

Idle ==
  /\ pc' = "idle" /\ cur' = NoWorld
  /\ todo' = <<>> /\ known' = None /\ built' = None /\ tx' = NoPlan

-----------------------------------------------------------------------------
Init ==
  /\ disk \in Start /\ index = disk /\ based = {}
  /\ txs = [t \in Txs |-> "none"] /\ asked = [t \in Txs |-> NoPlan]
  /\ status = [w \in Worlds |-> "none"]
  /\ overlay = [w \in Worlds |-> None] /\ changes = [w \in Worlds |-> None]
  /\ generation = [w \in Worlds |-> 0]
  /\ verdict = [w \in Worlds |-> "never"] /\ verifiedAt = [w \in Worlds |-> Never]
  /\ pc = "idle" /\ cur = NoWorld
  /\ todo = <<>> /\ known = None /\ built = None /\ tx = NoPlan
  /\ tested = [w \in Worlds |-> None] /\ outcome = [w \in Worlds |-> "never"]
  /\ landed = [w \in Worlds |-> 0]

(* Any other request: most of them reconcile first.                        *)
Reconcile ==
  /\ pc = "idle" /\ HeadIs(disk)
  /\ UNCHANGED <<sources, record, server, history>>

Fork(w) ==
  /\ pc = "idle" /\ status[w] = "none"
  /\ index' = disk
  /\ based' = {w} \cup IF disk = index THEN based ELSE {}
  /\ status' = [status EXCEPT ![w] = "open"]
  /\ UNCHANGED <<sources, overlay, changes, generation, verdict, verifiedAt, server, history>>

-----------------------------------------------------------------------------
(* counterfactual_apply                                                    *)

Open(w) == status[w] = "open" /\ w \in based

Once(text, old) == Cardinality({s \in Slots : text[s] = old}) = 1
Replaced(text, old, new) == [s \in Slots |-> IF text[s] = old THEN new ELSE text[s]]

(* The text a replacement starts from: the overlay's if the rows read at   *)
(* the start name the path, else the file a base row stands for.           *)
Current(w, rows, p) ==
  IF p \in DOMAIN rows /\ rows[p].op # "delete" /\ p \in DOMAIN overlay[w]
  THEN overlay[w][p]
  ELSE IF index[p] # Absent THEN disk[p] ELSE Absent

Accepts(w, rows, r) ==
  \/ /\ r.op = "replace"
     /\ Current(w, rows, r.path) # Absent
     /\ Once(Current(w, rows, r.path), r.old)
  \/ /\ r.op = "create"
     /\ index[r.path] = Absent /\ r.path \notin DOMAIN overlay[w]
  \/ /\ r.op = "delete"
     /\ index[r.path] # Absent \/ r.path \in DOMAIN overlay[w]

Again(w, r) ==
  r.op = "replace" /\ r.path \in DOMAIN changes[w] /\ changes[w][r.path].op = "replace"

BeginApply(w, batch) ==
  /\ pc = "idle" /\ Open(w) /\ generation[w] < MaxGeneration
  /\ \/ "torn apply" \in Hazards
     \/ Len(batch) = 1
     \/ \A i \in DOMAIN batch : Accepts(w, changes[w], batch[i])
  /\ \A i \in DOMAIN batch : Again(w, batch[i]) => "second edit" \in Hazards
  /\ pc' = "patch" /\ cur' = w /\ todo' = batch /\ known' = changes[w]
  /\ UNCHANGED <<sources, revision, record, built, tx, history>>

(* Sensitivity: a deleted file leaves a marker in the overlay.             *)
PatchedWithMarkers(r) ==
  [p \in DOMAIN overlay[cur] \cup {r.path} |->
     IF p # r.path THEN overlay[cur][p]
     ELSE IF r.op = "delete" THEN Absent
     ELSE IF r.op = "create" THEN r.text
     ELSE Replaced(Current(cur, known, p), r.old, r.new)]

Patched(r) ==
  IF r.op = "delete" THEN Restrict(overlay[cur], DOMAIN overlay[cur] \ {r.path})
  ELSE [p \in DOMAIN overlay[cur] \cup {r.path} |->
         IF p # r.path THEN overlay[cur][p]
         ELSE IF r.op = "create" THEN r.text
         ELSE Replaced(Current(cur, known, p), r.old, r.new)]

WriteOverlay ==
  /\ pc \in {"patch", "more"} /\ todo # <<>>
  /\ Accepts(cur, known, todo[1])
  /\ overlay' = [overlay EXCEPT ![cur] = Patched(todo[1])]
  /\ pc' = "row"
  /\ UNCHANGED <<sources, revision, status, changes, generation, verdict, verifiedAt,
                 cur, todo, known, built, tx, history>>

(* One row for each path: a later change replaces an earlier one.          *)
SaveChange ==
  /\ pc = "row"
  /\ changes' = [changes EXCEPT ![cur] =
       [p \in DOMAIN @ \cup {todo[1].path} |-> IF p = todo[1].path THEN todo[1] ELSE @[p]]]
  /\ todo' = Tail(todo)
  /\ pc' = "more"
  /\ UNCHANGED <<sources, revision, status, overlay, generation, verdict, verifiedAt,
                 cur, known, built, tx, history>>

(* A change that does not apply ends the request where it is.              *)
RefuseChange ==
  /\ pc \in {"patch", "more"} /\ todo # <<>>
  /\ ~Accepts(cur, known, todo[1])
  /\ Idle
  /\ UNCHANGED <<sources, revision, record, history>>

(* Sensitivity: the generation moves on, the old verdict stays.            *)
BumpGenerationOnly ==
  /\ pc = "more" /\ todo = <<>>
  /\ generation' = [generation EXCEPT ![cur] = @ + 1]
  /\ verifiedAt' = [verifiedAt EXCEPT ![cur] = IF @ = Never THEN @ ELSE @ + 1]
  /\ Idle
  /\ UNCHANGED <<sources, revision, status, overlay, changes, verdict, history>>

BumpGeneration ==
  /\ pc = "more" /\ todo = <<>>
  /\ generation' = [generation EXCEPT ![cur] = @ + 1]
  /\ verdict' = [verdict EXCEPT ![cur] = IF @ \in {"passed", "failed"} THEN "stale" ELSE @]
  /\ Idle
  /\ UNCHANGED <<sources, revision, status, overlay, changes, verifiedAt, history>>

-----------------------------------------------------------------------------
(* counterfactual_verify                                                   *)

(* The tree the rows and the overlay of w make of the files on disk.       *)
Tree(w) ==
  [p \in Paths |-> IF p \notin DOMAIN changes[w] THEN disk[p]
                   ELSE IF changes[w][p].op = "delete" THEN Absent
                   ELSE overlay[w][p]]

BuildCopy(w) ==
  /\ pc = "idle" /\ Open(w)
  /\ \A p \in DOMAIN changes[w] : changes[w][p].op # "delete" => p \in DOMAIN overlay[w]
  /\ built' = Tree(w)
  /\ pc' = "test" /\ cur' = w
  /\ UNCHANGED <<sources, revision, record, todo, known, tx, history>>

(* The tests end, in one of the ways a run receipt can say they did.       *)
SaveVerdict(result) ==
  /\ pc = "test"
  /\ verdict' = [verdict EXCEPT ![cur] = result]
  /\ verifiedAt' = [verifiedAt EXCEPT ![cur] = generation[cur]]
  /\ tested' = [tested EXCEPT ![cur] = built]
  /\ outcome' = [outcome EXCEPT ![cur] = result]
  /\ Idle
  /\ UNCHANGED <<sources, revision, status, overlay, changes, generation, landed>>

-----------------------------------------------------------------------------
(* counterfactual_promote and counterfactual_discard                       *)

(* Sensitivity: a verdict outlives the revision it was given at.           *)
FreshWhateverTheRevision(w) ==
  verdict[w] \in {"passed", "failed"} /\ verifiedAt[w] = generation[w]

Fresh(w) ==
  verdict[w] \in {"passed", "failed"} /\ verifiedAt[w] = generation[w] /\ w \in based

(* Sensitivity: a fresh verdict is enough, whatever it says.               *)
PromotableWhenFresh(w) ==
  /\ verdict[w] # "stale"
  /\ verifiedAt[w] # Never => Fresh(w)

(* A world that was never verified may be promoted.                        *)
Promotable(w) ==
  /\ verdict[w] # "stale"
  /\ verifiedAt[w] # Never => Fresh(w) /\ verdict[w] = "passed"

(* Sensitivity: a replacement replayed the other way round.                *)
OutcomeReversed(r) ==
  IF r.op = "delete" THEN Absent ELSE Replaced(disk[r.path], r.new, r.old)

(* What the change of a row makes of the file that is there now.           *)
Outcome(r) ==
  IF r.op = "delete" THEN Absent ELSE Replaced(disk[r.path], r.old, r.new)

(* The rows become operations of a change.  A created file is passed on    *)
(* under a key the mutation engine does not accept, so it is refused.      *)
StagePromotion(w, t) ==
  /\ pc = "idle" /\ status[w] = "open" /\ Promotable(w)
  /\ changes[w] # None
  /\ \A p \in DOMAIN changes[w] :
       /\ changes[w][p].op # "create" /\ disk[p] # Absent
       /\ changes[w][p].op = "replace" => Once(disk[p], changes[w][p].old)
  /\ HeadIs(disk)
  /\ Engine!Stage(t, [pre |-> Restrict(disk, DOMAIN changes[w]),
                      post |-> [p \in DOMAIN changes[w] |-> Outcome(changes[w][p])]])
  /\ pc' = "commit" /\ cur' = w /\ tx' = t
  /\ UNCHANGED <<record, todo, known, built, history>>

CommitPromotion ==
  /\ pc = "commit"
  /\ Engine!Commit(tx)
  /\ HeadIs(disk')
  /\ landed' = [landed EXCEPT ![cur] = @ + 1]
  /\ pc' = "close"
  /\ UNCHANGED <<record, cur, todo, known, built, tx, tested, outcome>>

(* The commit is refused or undone; the world stays open.                  *)
PromotionFails ==
  /\ pc = "commit"
  /\ Engine!Abort(tx) \/ UNCHANGED sources
  /\ HeadIs(disk)
  /\ Idle
  /\ UNCHANGED <<record, history>>

ClosePromotion ==
  /\ pc = "close"
  /\ status' = [status EXCEPT ![cur] = "promoted"]
  /\ Idle
  /\ UNCHANGED <<sources, revision, overlay, changes, generation, verdict, verifiedAt, history>>

RemoveOverlay(w) ==
  /\ pc = "idle" /\ status[w] \in {"open", "discarded"}
  /\ overlay' = [overlay EXCEPT ![w] = None]
  /\ pc' = "discard" /\ cur' = w
  /\ UNCHANGED <<sources, revision, status, changes, generation, verdict, verifiedAt,
                 todo, known, built, tx, history>>

SaveDiscarded ==
  /\ pc = "discard"
  /\ status' = [status EXCEPT ![cur] = "discarded"]
  /\ Idle
  /\ UNCHANGED <<sources, revision, overlay, changes, generation, verdict, verifiedAt, history>>

-----------------------------------------------------------------------------
(* The process dies; the request it was serving is gone.  A verification   *)
(* that raises leaves no more behind than one the process died in.         *)
Crash ==
  /\ pc # "idle"
  /\ pc \in {"row", "more"} => "apply crash" \in Hazards
  /\ Idle
  /\ UNCHANGED <<sources, revision, record, history>>

(* Another program writes a file.                                          *)
Edit(p, c) ==
  /\ Engine!Edit(p, c)
  /\ \/ "unseen edit" \in Hazards /\ UNCHANGED revision
     \/ pc = "idle" /\ HeadIs(disk')
  /\ UNCHANGED <<record, server, history>>

Next ==
  \/ Reconcile
  \/ \E w \in Worlds :
       \/ Fork(w) \/ BuildCopy(w) \/ RemoveOverlay(w)
       \/ \E b \in Batches : BeginApply(w, b)
       \/ \E t \in Txs : StagePromotion(w, t)
  \/ WriteOverlay \/ SaveChange \/ RefuseChange \/ BumpGeneration
  \/ \E result \in {"passed", "failed", "unknown"} : SaveVerdict(result)
  \/ CommitPromotion \/ PromotionFails \/ ClosePromotion \/ SaveDiscarded
  \/ Crash
  \/ \E p \in Paths, c \in Drafts : Edit(p, c)

Spec == Init /\ [][Next]_vars

-----------------------------------------------------------------------------
(* Properties                                                              *)

(* Every variable has its type.                                            *)
TypeOK ==
  /\ disk \in [Paths -> File] /\ index \in [Paths -> File] /\ based \subseteq Worlds
  /\ txs \in [Txs -> {"none", "staged", "committed", "rolled-back"}]
  /\ status \in [Worlds -> {"none", "open", "promoted", "discarded"}]
  /\ \A w \in Worlds :
       /\ DOMAIN overlay[w] \subseteq Paths /\ \A p \in DOMAIN overlay[w] : overlay[w][p] \in Texts
       /\ DOMAIN changes[w] \subseteq Paths
       /\ \A p \in DOMAIN changes[w] : changes[w][p] \in Requests /\ changes[w][p].path = p
  /\ generation \in [Worlds -> 0..MaxGeneration]
  /\ verdict \in [Worlds -> {"never", "passed", "failed", "unknown", "stale"}]
  /\ verifiedAt \in [Worlds -> -1..MaxGeneration]
  /\ pc \in {"idle", "patch", "row", "more", "test", "commit", "close", "discard"}
  /\ pc # "idle" => cur \in Worlds

(* A verdict in force is about the overlay as it is: the bytes a world     *)
(* would be compared, shown or built with are the bytes that were tested.  *)
VerdictOfThisOverlay ==
  pc = "idle" =>
    \A w \in Worlds : status[w] = "open" /\ Fresh(w) =>
      \A p \in DOMAIN changes[w] \cap DOMAIN overlay[w] : tested[w][p] = overlay[w][p]

Lands(w) == landed'[w] # landed[w]

(* What a promotion commits of a verified world is what was tested, file   *)
(* by file, and not some other way of applying the same requests.          *)
LandsAsTested ==
  [][\A w \in Worlds : Lands(w) /\ verifiedAt[w] # Never =>
       \A p \in DOMAIN changes[w] : disk'[p] = tested[w][p]]_vars

(* No path leads from a failed or unknown verdict to a promotion: edits,   *)
(* crashes and interrupted discards do not launder it.                     *)
FailedNeverLands ==
  [][\A w \in Worlds : Lands(w) => outcome[w] \in {"never", "passed"}]_vars

(* A verified world takes effect at most once, although the process may    *)
(* die between the commit and the save that marks the world promoted and   *)
(* although the old text may come back.                                    *)
LandsOnce == \A w \in Worlds : verifiedAt[w] # Never => landed[w] <= 1

=============================================================================
