----------------------------- MODULE SourceSync -----------------------------
(***************************************************************************)
(* How a workspace perceives its sources: the authority and the mirror it  *)
(* is materialized in, the index, the fingerprints it compares to notice   *)
(* edits, refreshes and ranged reads, and the background watcher.          *)
(*                                                                         *)
(* One request runs at a time on the foreground thread; other programs and *)
(* the watcher's thread run beside it, so a refresh is cut into the steps  *)
(* in which it reads one file.  Its rows are saved by one store            *)
(* transaction (Finalize); what it copied into the mirror stays.           *)
(***************************************************************************)
EXTENDS Naturals, Sequences, FiniteSets, SequencesExt

CONSTANTS
  Paths,     \* source files
  Texts,     \* what a file can contain
  NoText,    \* the content of a file that does not exist
  MaxClock,  \* bound: writes to the authority
  MaxQueue,  \* max_queue of the watcher
  MaxReads,  \* bound: ranged reads
  Hazards    \* what may happen, see AllHazards

(***************************************************************************)
(* "late edit": a file is written after a refresh has read it and before   *)
(*              that refresh takes its fingerprint                         *)
(* "early poll": watch_poll refreshes some files before anything has       *)
(*              noticed that the toolchain is another                      *)
(***************************************************************************)
AllHazards == {"late edit", "early poll"}

Compilers == {1, 2}
Absent == [text |-> NoText, mtime |-> 0, ctime |-> 0]
NoEntry == [text |-> NoText, built |-> 1]
NoRead == [at |-> "none"]

VARIABLES
  kind,      \* "none" | "shared" (local files) | "mirror"
  auth,      \* [Paths -> file]: text, and its times, 0 for no file
  mirror,    \* [Paths -> text]: the materialized tree of a mirror
  clock,     \* the last change time given out
  half,      \* a write whose mirror half is still to be done
  index,     \* [Paths -> [text, built]]: the rows and who compiled them
  prints,    \* [Paths -> change time]: source-os-fingerprints-v1
  revisions, \* the trees recorded, the head last, with what each changed
  compiler,  \* the toolchain installed
  known,     \* the toolchain the index says it was compiled with
  run,       \* the synchronization under way
  reader,    \* the ranged read under way
  served,    \* history: the last ranged read answered
  reads,     \* ranged reads so far
  watch      \* the watcher: its snapshot and its queue

tree == <<auth, mirror, clock, half>>
rows == <<index, prints, revisions, known>>
vars == <<kind, tree, rows, compiler, run, reader, served, reads, watch>>

Untracked == [p \in Paths |-> 0]
Idle == [mode |-> "idle", sync |-> {}, hash |-> {}, paths |-> {},
         work |-> [p \in Paths |-> NoEntry], calm |-> TRUE]
NoWatch == [on |-> FALSE, snapshot |-> Untracked, queue |-> <<>>, dropped |-> FALSE]

Init ==
  /\ kind = "none"
  /\ auth = [p \in Paths |-> Absent]
  /\ mirror = [p \in Paths |-> NoText]
  /\ clock = 0 /\ half = {}
  /\ index = [p \in Paths |-> NoEntry]
  /\ prints = Untracked
  /\ revisions = <<>>
  /\ compiler = 1 /\ known = 1
  /\ run = Idle
  /\ reader = NoRead /\ served = NoRead /\ reads = 0
  /\ watch = NoWatch

(* What the compiler reads: the tree under source_root.                    *)
Seen(p) == IF kind = "mirror" THEN mirror[p] ELSE auth[p].text

Ready == kind # "none" /\ run.mode = "idle" /\ half = {} /\ reader = NoRead

(* Sensitivity: a deep refresh reads the mirror as it is.                  *)
StartedUnsynced(k, mode, paths) ==
  run' = [mode |-> mode, paths |-> paths, work |-> index, calm |-> TRUE,
          sync |-> IF k = "mirror" /\ mode # "deep" THEN paths ELSE {},
          hash |-> IF mode \in {"deep", "targeted"} THEN paths ELSE {}]

(***************************************************************************)
(* Synchronizations: "open" (a mirror's constructor), "reconcile",         *)
(* "deep" (refresh) and "targeted" (refresh_paths).                        *)
(***************************************************************************)
Started(k, mode, paths) ==
  run' = [mode |-> mode, paths |-> paths, work |-> index, calm |-> TRUE,
          sync |-> IF k = "mirror" THEN paths ELSE {},
          hash |-> IF mode \in {"deep", "targeted"} THEN paths ELSE {}]

Begin(mode, paths) == Started(kind, mode, paths)

Create(k) ==
  /\ kind = "none"
  /\ kind' = k
  /\ Started(k, "deep", Paths)
  /\ UNCHANGED <<tree, rows, compiler, reader, served, reads, watch>>

Refresh ==
  /\ Ready
  /\ Begin("deep", Paths)
  /\ UNCHANGED <<kind, tree, rows, compiler, reader, served, reads, watch>>

Reconcile ==
  /\ Ready
  /\ Begin("reconcile", Paths)
  /\ UNCHANGED <<kind, tree, rows, compiler, reader, served, reads, watch>>

(* The mirror's copy of one path becomes what the authority has.           *)
SyncPath(p) ==
  /\ p \in run.sync
  /\ mirror' = [mirror EXCEPT ![p] = auth[p].text]
  /\ run' = [run EXCEPT !.sync = @ \ {p}]
  /\ UNCHANGED <<kind, auth, clock, half, rows, compiler, reader, served, reads, watch>>

Opened ==
  /\ run.mode = "open" /\ run.sync = {}
  /\ run' = Idle
  /\ UNCHANGED <<kind, tree, rows, compiler, reader, served, reads, watch>>

(* Only files listed in the materialized tree are fingerprinted.           *)
Current(p) == IF Seen(p) = NoText THEN 0 ELSE auth[p].ctime

Candidates == {p \in Paths : prints[p] # Current(p)}

Compare ==
  /\ run.mode = "reconcile" /\ run.sync = {}
  /\ \/ known # compiler /\ Begin("deep", Paths)
     \/ known = compiler /\ Candidates # {} /\ Begin("targeted", Candidates)
     \/ known = compiler /\ Candidates = {} /\ run' = Idle
  /\ UNCHANGED <<kind, tree, rows, compiler, reader, served, reads, watch>>

(* Sensitivity: rows of another toolchain are reused.                      *)
CacheValidByText(p, text) == index[p].text = text

CacheValid(p, text) == index[p].text = text /\ index[p].built = compiler

Compiled(p, text) ==
  IF CacheValid(p, text) THEN index[p] ELSE [text |-> text, built |-> compiler]

HashPath(p) ==
  /\ run.mode \in {"deep", "targeted"} /\ run.sync = {} /\ p \in run.hash
  /\ run' = [run EXCEPT !.hash = @ \ {p},
               !.work[p] = IF Seen(p) = NoText THEN NoEntry ELSE Compiled(p, Seen(p))]
  /\ UNCHANGED <<kind, tree, rows, compiler, reader, served, reads, watch>>

Tree(entries) == [p \in Paths |-> entries[p].text]

Changed == {p \in Paths : run.work[p].text # index[p].text}

(* Fingerprints are taken now, of files that were read a while ago.        *)
Fingerprinted(p) ==
  IF run.work[p].text = NoText THEN 0
  ELSE IF p \in run.paths THEN auth[p].ctime ELSE prints[p]

(* A tree that has not changed keeps its revision.                         *)
Recorded ==
  IF revisions # <<>> /\ Last(revisions).tree = Tree(run.work) THEN revisions
  ELSE Append(revisions, [tree |-> Tree(run.work), changed |-> Changed])

Finalize ==
  /\ run.mode \in {"deep", "targeted"} /\ run.sync = {} /\ run.hash = {}
  /\ revisions' = Recorded
  /\ index' = run.work
  /\ prints' = [p \in Paths |-> Fingerprinted(p)]
  /\ known' = compiler
  /\ run' = Idle
  /\ UNCHANGED <<kind, tree, compiler, reader, served, reads, watch>>

DiffSince(i) == UNION {revisions[j].changed : j \in i + 1 .. Len(revisions)}

(* An exception rolls the store transaction back.                          *)
Fail ==
  /\ run.mode \notin {"idle", "open"}
  /\ run' = Idle
  /\ UNCHANGED <<kind, tree, rows, compiler, reader, served, reads, watch>>

-----------------------------------------------------------------------------
(* Writes through the authority: the authority first, the mirror second.   *)

Put(f, p, text) ==
  [f EXCEPT ![p] = IF text = NoText THEN Absent
                   ELSE [text |-> text, mtime |-> clock + 1, ctime |-> clock + 1]]

Tick == clock < MaxClock /\ clock' = clock + 1

Write(p, text) ==
  /\ Ready /\ Tick
  /\ text = NoText => auth[p] # Absent
  /\ auth' = Put(auth, p, text)
  /\ half' = IF kind = "mirror" THEN {[from |-> p, to |-> p, text |-> text]} ELSE {}
  /\ UNCHANGED <<kind, mirror, rows, compiler, run, reader, served, reads, watch>>

Move(p, q) ==
  /\ Ready /\ Tick
  /\ auth[p] # Absent /\ auth[q] = Absent
  /\ auth' = [Put(auth, p, NoText) EXCEPT ![q] = [auth[p] EXCEPT !.ctime = clock + 1]]
  /\ half' = IF kind = "mirror" THEN {[from |-> p, to |-> q, text |-> auth[p].text]} ELSE {}
  /\ UNCHANGED <<kind, mirror, rows, compiler, run, reader, served, reads, watch>>

(* A move renames the mirror's own copy where it has one.                  *)
MirrorHalf ==
  /\ \E h \in half :
       LET renamed == h.from # h.to /\ mirror[h.from] # NoText
       IN mirror' = [mirror EXCEPT
            ![h.from] = NoText,
            ![h.to] = IF renamed THEN mirror[h.from] ELSE h.text]
  /\ half' = {}
  /\ UNCHANGED <<kind, auth, clock, rows, compiler, run, reader, served, reads, watch>>

-----------------------------------------------------------------------------
(* A ranged read: fingerprint, bytes, fingerprint; then both are compared  *)
(* with each other and with the one on record.                             *)

BeginRead(p) ==
  /\ Ready /\ reads < MaxReads
  /\ index[p] # NoEntry /\ auth[p] # Absent
  /\ reads' = reads + 1
  /\ reader' = [at |-> "read", path |-> p, expected |-> prints[p], before |-> auth[p].ctime]
  /\ UNCHANGED <<kind, tree, rows, compiler, run, served, watch>>

ReadBytes ==
  /\ reader.at = "read"
  /\ reader' = IF auth[reader.path] = Absent THEN NoRead
               ELSE [at |-> "check", path |-> reader.path, expected |-> reader.expected,
                     before |-> reader.before, text |-> auth[reader.path].text]
  /\ UNCHANGED <<kind, tree, rows, compiler, run, served, reads, watch>>

(* Sensitivity: the file is compared with itself, not with the index.      *)
TrustedIfStill == reader.before = auth[reader.path].ctime

Trusted ==
  /\ reader.before = auth[reader.path].ctime
  /\ reader.expected # 0 => reader.before = reader.expected

EndRead ==
  /\ reader.at = "check"
  /\ served' = IF Trusted THEN [path |-> reader.path, text |-> reader.text] ELSE served
  /\ reader' = NoRead
  /\ UNCHANGED <<kind, tree, rows, compiler, run, reads, watch>>

-----------------------------------------------------------------------------
(* The watcher's thread compares sizes and modification times only.        *)

Times == [p \in Paths |-> auth[p].mtime]

WatchStart ==
  /\ Ready /\ kind = "shared"
  /\ watch' = [on |-> TRUE, snapshot |-> Times, queue |-> <<>>, dropped |-> FALSE]
  /\ UNCHANGED <<kind, tree, rows, compiler, run, reader, served, reads>>

WatchStop ==
  /\ Ready /\ watch.on
  /\ watch' = NoWatch
  /\ UNCHANGED <<kind, tree, rows, compiler, run, reader, served, reads>>

(* A bounded queue forgets its oldest observation.                         *)
Scan ==
  LET moved == {p \in Paths : watch.snapshot[p] # auth[p].mtime}
      full == Len(watch.queue) = MaxQueue
  IN
  /\ watch.on /\ moved # {}
  /\ watch' = [watch EXCEPT !.snapshot = Times,
                 !.dropped = @ \/ full,
                 !.queue = Append(IF full THEN Tail(@) ELSE @, moved)]
  /\ UNCHANGED <<kind, tree, rows, compiler, run, reader, served, reads>>

(* watch_poll takes the observations and then refreshes what they name.    *)
WatchPoll(limit) ==
  /\ Ready /\ watch.on /\ limit \in DOMAIN watch.queue
  /\ known # compiler => "early poll" \in Hazards
  /\ Begin("targeted", UNION Range(SubSeq(watch.queue, 1, limit)))
  /\ watch' = [watch EXCEPT !.queue = SubSeq(@, limit + 1, Len(@))]
  /\ UNCHANGED <<kind, tree, rows, compiler, reader, served, reads>>

-----------------------------------------------------------------------------
(* The world outside the workspace.                                        *)

(* The refresh under way has read p and not yet fingerprinted it.          *)
Late(p) ==
  /\ run.mode \in {"deep", "targeted"} /\ p \in run.paths
  /\ p \notin run.sync
  /\ kind = "mirror" \/ p \notin run.hash

Edit(p, text, keepsTime) ==
  /\ Tick
  /\ text # auth[p].text
  /\ Late(p) => "late edit" \in Hazards
  /\ keepsTime => text # NoText /\ auth[p] # Absent
  /\ auth' = [Put(auth, p, text) EXCEPT ![p].mtime = IF keepsTime THEN auth[p].mtime ELSE @]
  /\ run' = IF run.mode = "idle" THEN run ELSE [run EXCEPT !.calm = FALSE]
  /\ UNCHANGED <<kind, mirror, half, rows, compiler, reader, served, reads, watch>>

Upgrade ==
  /\ compiler = 1 /\ run.mode = "idle"
  /\ compiler' = 2
  /\ UNCHANGED <<kind, tree, rows, run, reader, served, reads, watch>>

(* The process dies and is started again: a mirror is synced as it opens.  *)
Restart ==
  /\ kind # "none"
  /\ Begin("open", Paths)
  /\ half' = {} /\ reader' = NoRead /\ watch' = NoWatch
  /\ UNCHANGED <<kind, auth, mirror, clock, rows, compiler, served, reads>>

Sync ==
  \/ \E p \in run.sync : SyncPath(p)
  \/ \E p \in run.hash : HashPath(p)
  \/ Opened \/ Compare \/ Finalize \/ Fail

Request ==
  \/ \E k \in {"shared", "mirror"} : Create(k)
  \/ Refresh \/ Reconcile
  \/ \E p \in Paths, text \in Texts \cup {NoText} : Write(p, text)
  \/ \E p, q \in Paths : Move(p, q)
  \/ MirrorHalf
  \/ \E p \in Paths : BeginRead(p)
  \/ ReadBytes \/ EndRead
  \/ WatchStart \/ WatchStop
  \/ \E limit \in DOMAIN watch.queue : WatchPoll(limit)

Outside ==
  \/ \E p \in Paths, text \in Texts \cup {NoText}, keepsTime \in BOOLEAN : Edit(p, text, keepsTime)
  \/ Scan \/ Upgrade \/ Restart

Next == Sync \/ Request \/ Outside

Spec == Init /\ [][Next]_vars

-----------------------------------------------------------------------------
Entries == [text : Texts \cup {NoText}, built : Compilers]

TypeOK ==
  /\ kind \in {"none", "shared", "mirror"}
  /\ auth \in [Paths -> [text : Texts \cup {NoText}, mtime : 0 .. MaxClock, ctime : 0 .. MaxClock]]
  /\ mirror \in [Paths -> Texts \cup {NoText}]
  /\ clock \in 0 .. MaxClock
  /\ half \subseteq [from : Paths, to : Paths, text : Texts \cup {NoText}]
  /\ index \in [Paths -> Entries] /\ prints \in [Paths -> 0 .. MaxClock]
  /\ compiler \in Compilers /\ known \in Compilers
  /\ run.mode \in {"idle", "open", "reconcile", "deep", "targeted"}
  /\ run.sync \subseteq run.paths /\ run.hash \subseteq run.paths /\ run.paths \subseteq Paths
  /\ run.work \in [Paths -> Entries]
  /\ \A i \in DOMAIN revisions : revisions[i].changed \subseteq Paths
  /\ Len(watch.queue) <= MaxQueue

(* A fingerprint on record that still is the file's vouches for the index: *)
(* what lets reconcile skip every file whose fingerprint has not moved.    *)
PrintVouches ==
  \A p \in Paths : prints[p] # 0 /\ prints[p] = auth[p].ctime => index[p].text = auth[p].text

(* read_source_line_range never serves bytes of another version than the   *)
(* one that is indexed, however edits fall around it.                      *)
ReadIsIndexedStep ==
  served' # served => served'.text = index[served'.path].text

ReadIsIndexed == [][ReadIsIndexedStep]_vars

(* A deep refresh during which nobody writes leaves index, mirror and      *)
(* fingerprints all at what the authority has, whatever went wrong before: *)
(* half a mirrored write, an edit missed, a failed refresh.                *)
DeepRefreshHealsStep ==
  Finalize /\ run.mode = "deep" /\ run.calm =>
    \A p \in Paths : /\ index'[p].text = auth[p].text
                     /\ prints'[p] = auth[p].ctime
                     /\ kind = "mirror" => mirror[p] = auth[p].text

DeepRefreshHeals == [][DeepRefreshHealsStep]_vars

(* Symbols on record were compiled by the toolchain the index is said to   *)
(* be compiled with.                                                       *)
ToolchainVouches == \A p \in Paths : index[p] # NoEntry => index[p].built = known

(* diff_since names every path whose content differs between a recorded    *)
(* revision and the head.                                                  *)
DiffSinceComplete ==
  \A i \in DOMAIN revisions :
    \A p \in Paths \ DiffSince(i) : revisions[i].tree[p] = Last(revisions).tree[p]
=============================================================================
