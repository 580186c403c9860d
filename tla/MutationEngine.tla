--------------------------- MODULE MutationEngine ---------------------------
(***************************************************************************)
(* habitat.mutation.MutationEngine: staged multi-file transactions applied *)
(* through a write-ahead journal, undone when a step raises, rolled back   *)
(* on request, and recovered when the workspace is opened after a crash.   *)
(*                                                                         *)
(* One process runs one operation at a time (the stdio server is           *)
(* sequential); `pc' stops at every point where something has become       *)
(* durable, because that is where a crash can leave it.  Other writers of  *)
(* the sources are the action Edit.  A file's bytes and their digest are   *)
(* the same thing here (digests do not collide).                           *)
(***************************************************************************)
CONSTANTS
  Paths,      \* source files
  Contents,   \* what a file may hold
  Absent,     \* what a path maps to when there is no file
  Txs,        \* transaction identities
  NoTx,       \* no transaction
  Plans,      \* operation lists clients may stage, see IsPlan
  NoPlan,     \* the operations of a transaction that was never staged
  Adversity   \* what the environment may do beyond an ordinary crash or
              \* fault while changes are being applied, see Adversities

File == Contents \cup {Absent}

(***************************************************************************)
(* "edit race":      another program writes a file of the transaction in   *)
(*                   progress, between its digest check and its last write *)
(* "rollback crash": the process dies while it undoes a transaction that   *)
(*                   the database already records as committed             *)
(* "undo fault":     restoring the backups raises too                      *)
(* "recommit":       a client commits a committed transaction again        *)
(***************************************************************************)
Adversities == {"edit race", "rollback crash", "undo fault", "recommit"}

(***************************************************************************)
(* An operation list, reduced to its effect.  `pre' gives what every path  *)
(* it touches must hold (the expected digest; Absent for the destination   *)
(* of a create or a move) and `post' what the path holds afterwards.  A    *)
(* move appears as one pair of `moves', the other operations touch one     *)
(* path each.                                                              *)
(***************************************************************************)
IsPlan(o) ==
  /\ \E S \in SUBSET Paths :
       /\ S # {}
       /\ o \in [pre : [S -> File], post : [S -> File], moves : SUBSET (S \X S)]
       /\ \A p \in S : o.pre[p] \in Contents \/ o.post[p] \in Contents
  /\ \A m \in o.moves :
       /\ o.pre[m[1]] \in Contents /\ o.post[m[1]] = Absent
       /\ o.pre[m[2]] = Absent /\ o.post[m[2]] = o.pre[m[1]]
  /\ \A m, n \in o.moves :
       m[1] = n[1] \/ m[2] = n[2] => m = n

ASSUME PlansAssumption == \A o \in Plans : IsPlan(o)
ASSUME DistinctAssumption == Absent \notin Contents /\ NoTx \notin Txs /\ NoPlan \notin Plans
ASSUME AdversityAssumption == Adversity \subseteq Adversities

VARIABLES
  \* durable
  src,        \* [Paths -> File]: the sources
  backup,     \* per transaction: the backed up files
  journal,    \* per transaction: the state of journal.json, "none" without one
  status,     \* per transaction: the status of its record in the database
  ops,        \* per transaction: the operations of its record
  index,      \* [Paths -> File]: the digests the head revision is built from
  atBase,     \* transactions whose base_revision is the head revision
  atCommit,   \* transactions whose committed_revision is the head revision
  \* lost in a crash
  pc,         \* where the running operation is
  mode,       \* who asked for the restore in progress
  cur,        \* the transaction being worked on
  orig,       \* the original bytes _prepare read
  todo,       \* the paths still to write or to restore
  recovered   \* has recover_pending recovered anything so far?

durable == <<src, backup, journal, status, ops>>
world == <<index, atBase, atCommit>>
memory == <<pc, mode, cur, orig, todo, recovered>>
vars == <<durable, world, memory>>

NoFiles == [p \in {} |-> Absent]

-----------------------------------------------------------------------------
(* Reading a transaction's operations.                                     *)

Footprint(t) == DOMAIN ops[t].pre
Existing(t) == {p \in Footprint(t) : ops[t].pre[p] \in Contents}
Created(t) == {p \in Footprint(t) : ops[t].pre[p] = Absent}
MoveEnds(t) == UNION {{m[1], m[2]} : m \in ops[t].moves}
Outputs(t) == {p \in Footprint(t) \ MoveEnds(t) : ops[t].post[p] \in Contents}
Deletes(t) == {p \in Footprint(t) \ MoveEnds(t) : ops[t].post[p] = Absent}

(* A journal that recover_pending does not skip.                           *)
Pending(t) == journal[t] \in {"prepared", "applying"}

(* The project compiled again from the files of S: the head revision moves *)
(* exactly when the root digest does.                                      *)
Compiled(S) == [p \in Paths |-> IF p \in S THEN src[p] ELSE index[p]]

(* Sensitivity: a refresh that forgets to advance the head revision.       *)
StillHeadAlways(T, S) == T

StillHead(T, S) == IF Compiled(S) = index THEN T ELSE {}

Refresh(S) ==
  /\ index' = Compiled(S)
  /\ atBase' = StillHead(atBase, S)
  /\ atCommit' = StillHead(atCommit, S)

Goto(from, to) == pc = from /\ pc' = to

Idle ==
  /\ pc' = "idle"
  /\ cur' = NoTx
  /\ todo' = {}
  /\ orig' = NoFiles
  /\ UNCHANGED <<mode, recovered>>

-----------------------------------------------------------------------------
Init ==
  /\ src \in [Paths -> File]
  /\ index = src
  /\ backup = [t \in Txs |-> NoFiles]
  /\ journal = [t \in Txs |-> "none"]
  /\ status = [t \in Txs |-> "none"]
  /\ ops = [t \in Txs |-> NoPlan]
  /\ atBase = {} /\ atCommit = {}
  /\ pc = "idle" /\ mode = "undo" /\ cur = NoTx
  /\ orig = NoFiles /\ todo = {} /\ recovered = FALSE

(* Every operation that reads the world first brings it up to date; a      *)
(* commit or a rollback that is refused does no more than this.            *)
Reconcile ==
  /\ pc = "idle"
  /\ Refresh(Paths)
  /\ UNCHANGED <<durable, memory>>

(* Sensitivity: the record is saved without its operations.                *)
StageWithoutOperations(t, o) ==
  /\ pc = "idle" /\ status[t] = "none"
  /\ \A p \in DOMAIN o.pre : src[p] = o.pre[p]
  /\ status' = [status EXCEPT ![t] = "staged"]
  /\ UNCHANGED <<src, backup, journal, ops, world, memory>>

Stage(t, o) ==
  /\ pc = "idle" /\ status[t] = "none"
  /\ \A p \in DOMAIN o.pre : src[p] = o.pre[p]
  /\ index' = Compiled(Paths)
  /\ atBase' = StillHead(atBase, Paths) \cup {t}
  /\ atCommit' = StillHead(atCommit, Paths)
  /\ status' = [status EXCEPT ![t] = "staged"]
  /\ ops' = [ops EXCEPT ![t] = o]
  /\ UNCHANGED <<src, backup, journal, memory>>

-----------------------------------------------------------------------------
(* apply                                                                   *)

(* Sensitivity: the digests are trusted while the base revision is head.   *)
BeginApplyTrusting(t) ==
  /\ Goto("idle", "backup")
  /\ status[t] \notin {"none", "committed"}
  /\ t \notin atBase => \A p \in Footprint(t) : src[p] = ops[t].pre[p]
  /\ Refresh(Paths)
  /\ cur' = t
  /\ orig' = [p \in Existing(t) |-> src[p]]
  /\ UNCHANGED <<durable, mode, todo, recovered>>

(* The destination check is only made when the revision moved since the    *)
(* transaction was staged; the status of the record is not looked at.      *)
BeginApply(t) ==
  /\ Goto("idle", "backup")
  /\ status[t] # "none"
  /\ status[t] = "committed" => "recommit" \in Adversity
  /\ Refresh(Paths)
  /\ t \notin atBase' => \A p \in Created(t) : src[p] = Absent
  /\ \A p \in Existing(t) : src[p] = ops[t].pre[p]
  /\ cur' = t
  /\ orig' = [p \in Existing(t) |-> src[p]]
  /\ UNCHANGED <<durable, mode, todo, recovered>>

(* Sensitivity: the backup copies the files instead of the bytes checked.  *)
WriteBackupFromDisk ==
  /\ Goto("backup", "prepare")
  /\ backup' = [backup EXCEPT ![cur] = [p \in Existing(cur) |-> src[p]]]
  /\ UNCHANGED <<src, journal, status, ops, world, mode, cur, orig, todo, recovered>>

WriteBackup ==
  /\ Goto("backup", "prepare")
  /\ backup' = [backup EXCEPT ![cur] = orig]
  /\ UNCHANGED <<src, journal, status, ops, world, mode, cur, orig, todo, recovered>>

WritePrepared ==
  /\ Goto("prepare", "begin")
  /\ journal' = [journal EXCEPT ![cur] = "prepared"]
  /\ UNCHANGED <<src, backup, status, ops, world, mode, cur, orig, todo, recovered>>

WriteApplying ==
  /\ Goto("begin", "write")
  /\ journal' = [journal EXCEPT ![cur] = "applying"]
  /\ todo' = Footprint(cur)
  /\ UNCHANGED <<src, backup, status, ops, world, mode, cur, orig, recovered>>

(* Replacements and new files come first, deletions and moves after them.  *)
WriteFile(p) ==
  /\ pc = "write" /\ p \in todo \cap Outputs(cur)
  /\ src' = [src EXCEPT ![p] = ops[cur].post[p]]
  /\ todo' = todo \ {p}
  /\ UNCHANGED <<backup, journal, status, ops, world, pc, mode, cur, orig, recovered>>

DeleteFile(p) ==
  /\ pc = "write" /\ p \in todo \cap Deletes(cur)
  /\ todo \cap Outputs(cur) = {}
  /\ src' = [src EXCEPT ![p] = Absent]
  /\ todo' = todo \ {p}
  /\ UNCHANGED <<backup, journal, status, ops, world, pc, mode, cur, orig, recovered>>

MoveFile(m) ==
  /\ pc = "write" /\ m[1] \in todo
  /\ todo \cap Outputs(cur) = {}
  /\ src[m[1]] # Absent /\ src[m[2]] = Absent
  /\ src' = [src EXCEPT ![m[1]] = Absent, ![m[2]] = src[m[1]]]
  /\ todo' = todo \ {m[1], m[2]}
  /\ UNCHANGED <<backup, journal, status, ops, world, pc, mode, cur, orig, recovered>>

RefreshWritten ==
  /\ Goto("write", "save")
  /\ todo = {}
  /\ Refresh(Footprint(cur))
  /\ UNCHANGED <<durable, mode, cur, orig, todo, recovered>>

SaveCommitted ==
  /\ Goto("save", "finish")
  /\ status' = [status EXCEPT ![cur] = "committed"]
  /\ atCommit' = atCommit \cup {cur}
  /\ UNCHANGED <<src, backup, journal, ops, index, atBase, mode, cur, orig, todo, recovered>>

(* Sensitivity: the final journal write is forgotten.                      *)
WriteCommittedForgotten ==
  /\ pc = "finish"
  /\ Idle
  /\ UNCHANGED <<durable, world>>

WriteCommitted ==
  /\ pc = "finish"
  /\ journal' = [journal EXCEPT ![cur] = "committed"]
  /\ Idle
  /\ UNCHANGED <<src, backup, status, ops, world>>

(* A step of apply raises.  Before its try block nothing has to be undone. *)
RaiseEarly ==
  /\ pc \in {"backup", "prepare"}
  /\ Idle
  /\ UNCHANGED <<durable, world>>

UndoCurrent ==
  /\ pc' = "restore"
  /\ mode' = "undo"
  /\ todo' = Footprint(cur)
  /\ UNCHANGED <<durable, world, cur, orig, recovered>>

Raise ==
  /\ pc \in {"begin", "write", "save", "finish"}
  /\ UndoCurrent

(* A move whose source is gone or whose destination exists always raises.  *)
MoveRefused(m) ==
  /\ pc = "write" /\ m[1] \in todo
  /\ todo \cap Outputs(cur) = {}
  /\ src[m[1]] = Absent \/ src[m[2]] # Absent
  /\ UndoCurrent

-----------------------------------------------------------------------------
(* rollback_committed                                                      *)

CancelStaged(t) ==
  /\ pc = "idle" /\ status[t] = "staged"
  /\ status' = [status EXCEPT ![t] = "rolled-back"]
  /\ UNCHANGED <<src, backup, journal, ops, world, memory>>

(* Sensitivity: the record is saved before the files are restored.         *)
BeginRollbackSavingFirst(t) ==
  /\ Goto("idle", "restore")
  /\ status[t] = "committed" /\ journal[t] # "none"
  /\ Refresh(Paths)
  /\ t \in atCommit'
  /\ status' = [status EXCEPT ![t] = "rolled-back"]
  /\ mode' = "rollback"
  /\ cur' = t
  /\ todo' = Footprint(t)
  /\ UNCHANGED <<src, backup, journal, ops, orig, recovered>>

BeginRollback(t) ==
  /\ Goto("idle", "restore")
  /\ status[t] = "committed" /\ journal[t] # "none"
  /\ Refresh(Paths)
  /\ t \in atCommit'
  /\ mode' = "rollback"
  /\ cur' = t
  /\ todo' = Footprint(t)
  /\ UNCHANGED <<durable, orig, recovered>>

-----------------------------------------------------------------------------
(* _restore_from_journal and what its three callers do after it            *)

(* Sensitivity: new files survive the restore.                             *)
RestoreFileKeepingNew(p) ==
  /\ pc = "restore" /\ p \in todo
  /\ src' = [src EXCEPT ![p] = IF p \in DOMAIN backup[cur] THEN backup[cur][p] ELSE @]
  /\ todo' = todo \ {p}
  /\ UNCHANGED <<backup, journal, status, ops, world, pc, mode, cur, orig, recovered>>

(* New files and move destinations go first, then the originals return     *)
(* from the backup, if it has them.                                        *)
RestoreFile(p) ==
  /\ pc = "restore" /\ p \in todo
  /\ p \in Created(cur) \/ todo \cap Created(cur) = {}
  /\ src' = [src EXCEPT ![p] = IF p \in Created(cur) THEN Absent
                               ELSE IF p \in DOMAIN backup[cur] THEN backup[cur][p]
                               ELSE @]
  /\ todo' = todo \ {p}
  /\ UNCHANGED <<backup, journal, status, ops, world, pc, mode, cur, orig, recovered>>

MarkRolledBack ==
  /\ pc = "restore" /\ todo = {}
  /\ journal' = [journal EXCEPT ![cur] = "rolled-back"]
  /\ pc' = IF mode = "recover" THEN "close" ELSE "reindex"
  /\ UNCHANGED <<src, backup, status, ops, world, mode, cur, orig, todo, recovered>>

RefreshRestored ==
  /\ Goto("reindex", "close")
  /\ Refresh(Footprint(cur))
  /\ UNCHANGED <<durable, mode, cur, orig, todo, recovered>>

SaveRolledBack ==
  /\ pc = "close" /\ mode # "recover"
  /\ status' = [status EXCEPT ![cur] = "rolled-back"]
  /\ atCommit' = IF mode = "rollback" THEN atCommit \cup {cur} ELSE atCommit
  /\ Idle
  /\ UNCHANGED <<src, backup, journal, ops, index, atBase>>

(* An exception inside the restore leaves the operation where it is.       *)
RaiseInUndo ==
  /\ "undo fault" \in Adversity
  /\ pc \in {"restore", "reindex", "close"} /\ mode # "recover"
  /\ Idle
  /\ UNCHANGED <<durable, world>>

-----------------------------------------------------------------------------
(* crashes and recover_pending                                             *)

UndoingCommitted(t) ==
  /\ pc \in {"restore", "reindex", "close"} /\ mode # "recover"
  /\ cur = t /\ status[t] = "committed"

Crash ==
  /\ pc # "down"
  /\ (\E t \in Txs : UndoingCommitted(t)) => "rollback crash" \in Adversity
  /\ pc' = "down"
  /\ cur' = NoTx /\ todo' = {} /\ orig' = NoFiles
  /\ UNCHANGED <<durable, world, mode, recovered>>

Restart ==
  /\ Goto("down", "scan")
  /\ recovered' = FALSE
  /\ UNCHANGED <<durable, world, mode, cur, orig, todo>>

FinalizeMarker(t) ==
  /\ pc = "scan" /\ Pending(t) /\ status[t] = "committed"
  /\ journal' = [journal EXCEPT ![t] = "committed"]
  /\ recovered' = TRUE
  /\ UNCHANGED <<src, backup, status, ops, world, pc, mode, cur, orig, todo>>

(* Sensitivity: only transactions still recorded as staged are recovered.  *)
BeginRecoverStaged(t) ==
  /\ Goto("scan", "restore")
  /\ Pending(t) /\ status[t] = "staged"
  /\ mode' = "recover"
  /\ cur' = t
  /\ todo' = Footprint(t)
  /\ UNCHANGED <<durable, world, orig, recovered>>

BeginRecover(t) ==
  /\ Goto("scan", "restore")
  /\ Pending(t) /\ status[t] # "committed"
  /\ mode' = "recover"
  /\ cur' = t
  /\ todo' = Footprint(t)
  /\ UNCHANGED <<durable, world, orig, recovered>>

SaveRecovered ==
  /\ Goto("close", "scan")
  /\ mode = "recover"
  /\ status' = [status EXCEPT ![cur] = "rolled-back"]
  /\ recovered' = TRUE
  /\ cur' = NoTx
  /\ UNCHANGED <<src, backup, journal, ops, world, mode, orig, todo>>

EndRecovery ==
  /\ Goto("scan", "idle")
  /\ \A t \in Txs : ~Pending(t)
  /\ IF recovered THEN Refresh(Paths) ELSE UNCHANGED world
  /\ UNCHANGED <<durable, mode, cur, orig, todo, recovered>>

-----------------------------------------------------------------------------
(* Another program writes a source file.                                   *)
Edit(p, c) ==
  /\ src[p] # c
  /\ cur # NoTx => p \notin Footprint(cur) \/ "edit race" \in Adversity
  /\ src' = [src EXCEPT ![p] = c]
  /\ UNCHANGED <<backup, journal, status, ops, world, memory>>

Request ==
  \/ Reconcile
  \/ \E t \in Txs, o \in Plans : Stage(t, o)
  \/ \E t \in Txs : BeginApply(t) \/ CancelStaged(t) \/ BeginRollback(t)

(* What the process does on its own once an operation is under way.        *)
Step ==
  \/ WriteBackup \/ WritePrepared \/ WriteApplying
  \/ \E p \in Paths : WriteFile(p) \/ DeleteFile(p) \/ RestoreFile(p)
  \/ cur # NoTx /\ \E m \in ops[cur].moves : (MoveFile(m) \/ MoveRefused(m))
  \/ RefreshWritten \/ SaveCommitted \/ WriteCommitted
  \/ MarkRolledBack \/ RefreshRestored \/ SaveRolledBack
  \/ Restart \/ SaveRecovered \/ EndRecovery
  \/ \E t \in Txs : FinalizeMarker(t) \/ BeginRecover(t)

Trouble == RaiseEarly \/ Raise \/ RaiseInUndo \/ Crash

Next ==
  \/ Request
  \/ Step
  \/ Trouble
  \/ \E p \in Paths, c \in File : Edit(p, c)

(* A started operation runs on, and a dead process is started again.       *)
Spec == Init /\ [][Next]_vars /\ WF_vars(Step)

-----------------------------------------------------------------------------
(* Properties                                                              *)

Partial(S) == UNION {[T -> Contents] : T \in SUBSET S}

(* Every variable has its type; a transaction has operations once it has a *)
(* record.                                                                 *)
TypeOK ==
  /\ src \in [Paths -> File] /\ index \in [Paths -> File]
  /\ backup \in [Txs -> Partial(Paths)]
  /\ journal \in [Txs -> {"none", "prepared", "applying", "committed", "rolled-back"}]
  /\ status \in [Txs -> {"none", "staged", "committed", "rolled-back"}]
  /\ ops \in [Txs -> Plans \cup {NoPlan}]
  /\ \A t \in Txs : status[t] # "none" <=> ops[t] \in Plans
  /\ atBase \subseteq Txs /\ atCommit \subseteq Txs
  /\ pc \in {"down", "scan", "idle", "backup", "prepare", "begin", "write", "save",
             "finish", "restore", "reindex", "close"}
  /\ mode \in {"undo", "rollback", "recover"}
  /\ cur \in Txs \cup {NoTx}
  /\ orig \in Partial(Paths) /\ todo \subseteq Paths
  /\ recovered \in BOOLEAN

(* What was saved of t is exactly what its operations expect to find.      *)
Holds(saved, t) ==
  /\ DOMAIN saved = Existing(t)
  /\ \A p \in Existing(t) : saved[p] = ops[t].pre[p]

(* Write-ahead: while recovery could still be asked to undo a transaction, *)
(* its backup holds exactly the bytes its operations expected to find, so  *)
(* no crash point can make _restore_from_journal lose or invent content.   *)
BackupFaithful == \A t \in Txs : Pending(t) => Holds(backup[t], t)

(* The two durable markers of a commit never contradict each other: the    *)
(* journal says committed only when the database does, whatever crashed or *)
(* raised in between.                                                      *)
MarkerAgrees ==
  \A t \in Txs : journal[t] = "committed" => status[t] = "committed"

(* Outside an operation the markers have caught up with each other, so a   *)
(* restart has nothing left to undo or to finalise.                        *)
SettledWhenIdle ==
  pc = "idle" =>
    \A t \in Txs :
      /\ ~Pending(t)
      /\ status[t] = "committed" => journal[t] = "committed"
      /\ status[t] = "rolled-back" => journal[t] \in {"none", "rolled-back"}

(* A revision a transaction is bound to still vouches for its files: the   *)
(* index of its base revision shows what the operations expect, the index  *)
(* of its committed revision what they produced.  This is what lets apply  *)
(* skip the destination check and rollback skip the digests.               *)
RevisionVouches ==
  \A t \in Txs :
    /\ t \in atBase => \A p \in Footprint(t) : index[p] = ops[t].pre[p]
    /\ t \in atCommit /\ status[t] = "committed" =>
         \A p \in Footprint(t) : index[p] = ops[t].post[p]

(* apply never writes over a file that is no longer what the transaction   *)
(* was staged against.                                                     *)
FailsClosedOnDrift ==
  [][\A p \in Paths : pc = "write" /\ p \in todo \ todo' => src[p] = ops[cur].pre[p]]_vars

(* The sources as recovery would leave them, and the life of a transaction *)
(* with the moment a rollback is decided as its end.                       *)
Undone(t) ==
  \/ Pending(t) /\ status[t] # "committed"
  \/ UndoingCommitted(t)

files ==
  [p \in Paths |->
    IF \E t \in Txs : Undone(t) /\ p \in Footprint(t)
    THEN ops[CHOOSE t \in Txs : Undone(t) /\ p \in Footprint(t)].pre[p]
    ELSE src[p]]

life == [t \in Txs |-> IF UndoingCommitted(t) THEN "rolled-back" ELSE status[t]]

Atomic == INSTANCE AtomicChange WITH status <- life

(* All or nothing: behind the journal, every transaction takes effect in   *)
(* one step and goes away in one step, across any crash; and what looks    *)
(* like an edit by another program is one, never a slip of an undo.        *)
AllOrNothing ==
  /\ Atomic!Spec
  /\ [][files' # files => Atomic!Govern \/ \E p \in Paths, c \in File : Edit(p, c)]_vars

(* If crashes, faults and foreign edits stop, the process keeps coming     *)
(* back to serve requests: whatever markers the last crash or the last     *)
(* fault inside an undo left, recovery has a case for them and ends, and   *)
(* so does every apply and every rollback.                                 *)
CalmFromNowOn == <>[][~Trouble /\ \A p \in Paths, c \in File : ~Edit(p, c)]_vars

AlwaysServesAgain == CalmFromNowOn => []<>(pc = "idle")

=============================================================================
