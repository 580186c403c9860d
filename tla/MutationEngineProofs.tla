------------------------ MODULE MutationEngineProofs ------------------------
(* What holds of MutationEngine for every set of paths, contents,          *)
(* transactions and plans.                                                 *)
EXTENDS MutationEngine, TLAPS

-----------------------------------------------------------------------------
(* Type correctness                                                        *)

(* Between the first and the last step of an operation there is a current  *)
(* transaction, and it has a record.                                       *)
Resting == {"down", "scan", "idle"}
BusyTyped == pc \notin Resting => cur \in Txs /\ status[cur] # "none"

(* There is no journal before there is a record.                           *)
Recorded == \A t \in Txs : status[t] = "none" => journal[t] = "none"

TypeInv == TypeOK /\ BusyTyped /\ Recorded

(* A plan is about paths, maps them to files, and moves between them.      *)
LEMMA PlanFacts ==
  ASSUME NEW o \in Plans
  PROVE  /\ DOMAIN o.pre \subseteq Paths
         /\ DOMAIN o.post = DOMAIN o.pre
         /\ \A p \in DOMAIN o.pre : o.pre[p] \in File /\ o.post[p] \in File
         /\ \A m \in o.moves : m[1] \in DOMAIN o.pre /\ m[2] \in DOMAIN o.pre
<1>1. PICK S \in SUBSET Paths :
        o \in [pre : [S -> File], post : [S -> File], moves : SUBSET (S \X S)]
  BY PlansAssumption DEF IsPlan
<1> QED
  BY <1>1

(* What Partial stands for.                                                *)
LEMMA PartialFacts ==
  ASSUME NEW S, NEW f \in Partial(S)
  PROVE  DOMAIN f \subseteq S /\ \A p \in DOMAIN f : f[p] \in Contents
BY DEF Partial

(* And how to show that a function is one.                                 *)
LEMMA PartialIntro ==
  ASSUME NEW S, NEW T \in SUBSET S, NEW f \in [T -> Contents]
  PROVE  f \in Partial(S)
BY DEF Partial

(* The empty backup and the empty set of originals are partial functions.  *)
LEMMA NoFilesPartial == NoFiles \in Partial(Paths)
<1>1. NoFiles \in [{} -> Contents]
  BY DEF NoFiles
<1> QED
  BY <1>1, PartialIntro

(* The operations of a transaction that has a record are about paths.      *)
LEMMA FootprintFacts ==
  ASSUME TypeOK, NEW t \in Txs, status[t] # "none"
  PROVE  /\ ops[t] \in Plans
         /\ Footprint(t) \subseteq Paths
         /\ \A p \in Footprint(t) : ops[t].pre[p] \in File /\ ops[t].post[p] \in File
         /\ \A m \in ops[t].moves : m[1] \in Paths /\ m[2] \in Paths
<1>1. ops[t] \in Plans
  BY DEF TypeOK
<1> QED
  BY <1>1, PlanFacts DEF Footprint

(* A refresh keeps the index and the two sets of revision bindings typed.  *)
LEMMA RefreshTyped ==
  ASSUME TypeOK, NEW S, Refresh(S)
  PROVE  index' \in [Paths -> File] /\ atBase' \subseteq Txs /\ atCommit' \subseteq Txs
BY DEF TypeOK, Refresh, Compiled, StillHead

LEMMA TypeInit == Init => TypeInv
<1> SUFFICES ASSUME Init PROVE TypeInv
  OBVIOUS
<1>1. src \in [Paths -> File] /\ index \in [Paths -> File]
  BY DEF Init
<1>2. backup \in [Txs -> Partial(Paths)] /\ orig \in Partial(Paths)
  BY NoFilesPartial DEF Init
<1>3. \A t \in Txs : status[t] # "none" <=> ops[t] \in Plans
  BY DistinctAssumption DEF Init
<1> QED
  BY <1>1, <1>2, <1>3 DEF Init, TypeInv, TypeOK, BusyTyped, Resting, Recorded

LEMMA TypeStep == TypeInv /\ [Next]_vars => TypeInv'
<1> SUFFICES ASSUME TypeInv, [Next]_vars PROVE TypeInv'
  OBVIOUS
<1> USE DEF TypeInv
<1>a. ASSUME Reconcile PROVE TypeInv'
  <2>1. index' \in [Paths -> File] /\ atBase' \subseteq Txs /\ atCommit' \subseteq Txs
    BY <1>a, RefreshTyped DEF Reconcile
  <2> QED
    BY <1>a, <2>1 DEF Reconcile, durable, memory, TypeOK, BusyTyped, Resting, Recorded
<1>b. ASSUME NEW t \in Txs, NEW o \in Plans, Stage(t, o) PROVE TypeInv'
  <2>1. index' \in [Paths -> File] /\ atBase' \subseteq Txs /\ atCommit' \subseteq Txs
    BY <1>b DEF Stage, TypeOK, Compiled, StillHead
  <2>2. \A u \in Txs : status'[u] # "none" <=> ops'[u] \in Plans
    BY <1>b DEF Stage, TypeOK
  <2> QED
    BY <1>b, <2>1, <2>2 DEF Stage, memory, TypeOK, BusyTyped, Resting, Recorded
<1>c. ASSUME NEW t \in Txs, BeginApply(t) PROVE TypeInv'
  <2>1. index' \in [Paths -> File] /\ atBase' \subseteq Txs /\ atCommit' \subseteq Txs
    BY <1>c, RefreshTyped DEF BeginApply
  <2>2. Existing(t) \subseteq Paths
    BY <1>c, FootprintFacts DEF BeginApply, Existing
  <2>3. orig' \in [Existing(t) -> Contents]
    BY <1>c DEF BeginApply, Existing
  <2>4. orig' \in Partial(Paths)
    BY <2>2, <2>3, PartialIntro
  <2> QED
    BY <1>c, <2>1, <2>4 DEF BeginApply, Goto, durable, TypeOK, BusyTyped, Resting, Recorded
<1>d. ASSUME WriteBackup PROVE TypeInv'
  BY <1>d DEF WriteBackup, Goto, world, TypeOK, BusyTyped, Resting, Recorded
<1>e. ASSUME WritePrepared PROVE TypeInv'
  BY <1>e DEF WritePrepared, Goto, world, TypeOK, BusyTyped, Resting, Recorded
<1>f. ASSUME WriteApplying PROVE TypeInv'
  <2>1. Footprint(cur) \subseteq Paths
    BY <1>f, FootprintFacts DEF WriteApplying, Goto, BusyTyped, Resting
  <2> QED
    BY <1>f, <2>1 DEF WriteApplying, Goto, world, TypeOK, BusyTyped, Resting, Recorded
<1>g. ASSUME NEW p \in Paths, WriteFile(p) PROVE TypeInv'
  <2>1. ops[cur].post[p] \in File
    BY <1>g, FootprintFacts DEF WriteFile, Outputs, BusyTyped, Resting
  <2> QED
    BY <1>g, <2>1 DEF WriteFile, world, TypeOK, BusyTyped, Resting, Recorded
<1>h. ASSUME NEW p \in Paths, DeleteFile(p) PROVE TypeInv'
  BY <1>h DEF DeleteFile, world, File, TypeOK, BusyTyped, Resting, Recorded
<1>i. ASSUME NEW m \in ops[cur].moves, MoveFile(m) PROVE TypeInv'
  <2>1. m[1] \in Paths /\ m[2] \in Paths
    BY <1>i, FootprintFacts DEF MoveFile, BusyTyped, Resting
  <2>2. src' \in [Paths -> File]
    BY <1>i, <2>1 DEF MoveFile, File, TypeOK
  <2> QED
    BY <1>i, <2>2 DEF MoveFile, world, TypeOK, BusyTyped, Resting, Recorded
<1>j. ASSUME RefreshWritten PROVE TypeInv'
  <2>1. index' \in [Paths -> File] /\ atBase' \subseteq Txs /\ atCommit' \subseteq Txs
    BY <1>j, RefreshTyped DEF RefreshWritten
  <2> QED
    BY <1>j, <2>1 DEF RefreshWritten, Goto, durable, TypeOK, BusyTyped, Resting, Recorded
<1>k. ASSUME SaveCommitted PROVE TypeInv'
  <2>1. cur \in Txs /\ status[cur] # "none"
    BY <1>k DEF SaveCommitted, Goto, BusyTyped, Resting
  <2>2. \A t \in Txs : status'[t] # "none" <=> ops'[t] \in Plans
    BY <1>k, <2>1 DEF SaveCommitted, TypeOK
  <2> QED
    BY <1>k, <2>1, <2>2 DEF SaveCommitted, Goto, TypeOK, BusyTyped, Resting, Recorded
<1>l. ASSUME WriteCommitted PROVE TypeInv'
  BY <1>l, NoFilesPartial DEF WriteCommitted, Idle, world, TypeOK, BusyTyped, Resting, Recorded
<1>m. ASSUME RaiseEarly PROVE TypeInv'
  BY <1>m, NoFilesPartial DEF RaiseEarly, Idle, durable, world, TypeOK, BusyTyped, Resting, Recorded
<1>n. ASSUME UndoCurrent, pc \notin Resting PROVE TypeInv'
  <2>1. Footprint(cur) \subseteq Paths
    BY <1>n, FootprintFacts DEF BusyTyped
  <2> QED
    BY <1>n, <2>1 DEF UndoCurrent, durable, world, TypeOK, BusyTyped, Resting, Recorded
<1>o. ASSUME NEW t \in Txs, CancelStaged(t) PROVE TypeInv'
  <2>1. \A u \in Txs : status'[u] # "none" <=> ops'[u] \in Plans
    BY <1>o DEF CancelStaged, TypeOK
  <2> QED
    BY <1>o, <2>1 DEF CancelStaged, world, memory, TypeOK, BusyTyped, Resting, Recorded
<1>p. ASSUME NEW t \in Txs, BeginRollback(t) PROVE TypeInv'
  <2>1. index' \in [Paths -> File] /\ atBase' \subseteq Txs /\ atCommit' \subseteq Txs
    BY <1>p, RefreshTyped DEF BeginRollback
  <2>2. Footprint(t) \subseteq Paths
    BY <1>p, FootprintFacts DEF BeginRollback
  <2> QED
    BY <1>p, <2>1, <2>2 DEF BeginRollback, Goto, durable, TypeOK, BusyTyped, Resting, Recorded
<1>q. ASSUME NEW p \in Paths, RestoreFile(p) PROVE TypeInv'
  <2>1. cur \in Txs
    BY <1>q DEF RestoreFile, BusyTyped, Resting
  <2>2. \A r \in DOMAIN backup[cur] : backup[cur][r] \in Contents
    BY <2>1, PartialFacts DEF TypeOK
  <2>3. src' \in [Paths -> File]
    BY <1>q, <2>2 DEF RestoreFile, File, TypeOK
  <2> QED
    BY <1>q, <2>3 DEF RestoreFile, world, TypeOK, BusyTyped, Resting, Recorded
<1>r. ASSUME MarkRolledBack PROVE TypeInv'
  BY <1>r DEF MarkRolledBack, world, TypeOK, BusyTyped, Resting, Recorded
<1>s. ASSUME RefreshRestored PROVE TypeInv'
  <2>1. index' \in [Paths -> File] /\ atBase' \subseteq Txs /\ atCommit' \subseteq Txs
    BY <1>s, RefreshTyped DEF RefreshRestored
  <2> QED
    BY <1>s, <2>1 DEF RefreshRestored, Goto, durable, TypeOK, BusyTyped, Resting, Recorded
<1>t. ASSUME SaveRolledBack PROVE TypeInv'
  <2>1. cur \in Txs /\ status[cur] # "none"
    BY <1>t DEF SaveRolledBack, BusyTyped, Resting
  <2>2. \A t \in Txs : status'[t] # "none" <=> ops'[t] \in Plans
    BY <1>t, <2>1 DEF SaveRolledBack, TypeOK
  <2>3. atCommit' \subseteq Txs
    BY <1>t, <2>1 DEF SaveRolledBack, TypeOK
  <2> QED
    BY <1>t, <2>2, <2>3, NoFilesPartial DEF SaveRolledBack, Idle, TypeOK, BusyTyped, Resting, Recorded
<1>u. ASSUME RaiseInUndo PROVE TypeInv'
  BY <1>u, NoFilesPartial DEF RaiseInUndo, Idle, durable, world, TypeOK, BusyTyped, Resting, Recorded
<1>v. ASSUME Crash PROVE TypeInv'
  BY <1>v, NoFilesPartial DEF Crash, durable, world, TypeOK, BusyTyped, Resting, Recorded
<1>w. ASSUME Restart PROVE TypeInv'
  BY <1>w DEF Restart, Goto, durable, world, TypeOK, BusyTyped, Resting, Recorded
<1>x. ASSUME NEW t \in Txs, FinalizeMarker(t) PROVE TypeInv'
  BY <1>x DEF FinalizeMarker, world, TypeOK, BusyTyped, Resting, Recorded
<1>y. ASSUME NEW t \in Txs, BeginRecover(t) PROVE TypeInv'
  <2>1. status[t] # "none"
    BY <1>y DEF BeginRecover, Recorded, Pending
  <2>2. Footprint(t) \subseteq Paths
    BY <2>1, FootprintFacts
  <2> QED
    BY <1>y, <2>1, <2>2 DEF BeginRecover, Goto, durable, world, TypeOK, BusyTyped, Resting, Recorded
<1>z. ASSUME SaveRecovered PROVE TypeInv'
  <2>1. cur \in Txs /\ status[cur] # "none"
    BY <1>z DEF SaveRecovered, Goto, BusyTyped, Resting
  <2>2. \A t \in Txs : status'[t] # "none" <=> ops'[t] \in Plans
    BY <1>z, <2>1 DEF SaveRecovered, TypeOK
  <2> QED
    BY <1>z, <2>2 DEF SaveRecovered, Goto, world, TypeOK, BusyTyped, Resting, Recorded
<1>1. ASSUME EndRecovery PROVE TypeInv'
  <2>1. index' \in [Paths -> File] /\ atBase' \subseteq Txs /\ atCommit' \subseteq Txs
    BY <1>1, RefreshTyped DEF EndRecovery, world, TypeOK
  <2> QED
    BY <1>1, <2>1 DEF EndRecovery, Goto, durable, TypeOK, BusyTyped, Resting, Recorded
<1>2. ASSUME NEW p \in Paths, NEW c \in File, Edit(p, c) PROVE TypeInv'
  BY <1>2 DEF Edit, world, memory, TypeOK, BusyTyped, Resting, Recorded
<1>3. ASSUME UNCHANGED vars PROVE TypeInv'
  BY <1>3 DEF vars, durable, world, memory, TypeOK, BusyTyped, Resting, Recorded
<1> QED
  <2>1. CASE Request
    BY <2>1, <1>a, <1>b, <1>c, <1>o, <1>p DEF Request
  <2>2. CASE Step
    BY <2>2, <1>d, <1>e, <1>f, <1>g, <1>h, <1>i, <1>j, <1>k, <1>l, <1>n, <1>q, <1>r,
       <1>s, <1>t, <1>w, <1>x, <1>y, <1>z, <1>1 DEF Step, MoveRefused, Resting
  <2>3. CASE Trouble
    BY <2>3, <1>m, <1>n, <1>u, <1>v DEF Trouble, Raise, Resting
  <2> QED
    BY <2>1, <2>2, <2>3, <1>2, <1>3 DEF Next

(* The state of the engine has its type in every reachable state.          *)
THEOREM TypeCorrect == Spec => []TypeOK
<1>1. TypeInv => TypeOK
  BY DEF TypeInv
<1> QED
  BY <1>1, TypeInit, TypeStep, PTL DEF Spec

-----------------------------------------------------------------------------
(* The write-ahead facts: they hold whatever the environment does          *)

(* The bytes checked against the operations are the bytes backed up, and   *)
(* the backup is complete before the journal says that recovery needs it.  *)
CarriedOver ==
  /\ pc = "backup" => Holds(orig, cur)
  /\ pc \in {"prepare", "begin"} => Holds(backup[cur], cur)

(* The last journal write of a commit comes after the record, and the      *)
(* record of an undo after the last journal write.                         *)
CommitRecorded == pc = "finish" => status[cur] = "committed"
UndoMarked == pc \in {"reindex", "close"} => journal[cur] = "rolled-back"

JournalInv == BackupFaithful /\ MarkerAgrees /\ CarriedOver /\ CommitRecorded /\ UndoMarked

(* Nothing but Stage changes operations, and Holds reads only these.       *)
LEMMA HoldsFrame ==
  ASSUME NEW t, NEW saved, Holds(saved, t), ops'[t] = ops[t]
  PROVE  Holds(saved, t)'
BY DEF Holds, Existing, Footprint

LEMMA JournalInit == Init => JournalInv
BY DEF Init, JournalInv, BackupFaithful, Pending, MarkerAgrees, CarriedOver,
       CommitRecorded, UndoMarked

(* The steps that write none of the facts: operations, backups, journals   *)
(* and records stay as they are, and so does the place or it is a place    *)
(* where nothing more is known.                                            *)
LEMMA JournalFrame ==
  ASSUME JournalInv,
         UNCHANGED <<backup, journal, status, ops>>,
         \/ UNCHANGED <<pc, cur, orig>>
         \/ pc' \in Resting \cup {"write", "save", "restore"}
  PROVE  JournalInv'
<1>1. BackupFaithful' /\ MarkerAgrees'
  BY DEF JournalInv, BackupFaithful, MarkerAgrees, Pending, Holds, Existing, Footprint
<1>2. CarriedOver'
  BY DEF JournalInv, CarriedOver, Holds, Existing, Footprint, Resting
<1> QED
  BY <1>1, <1>2 DEF JournalInv, CommitRecorded, UndoMarked, Resting

LEMMA JournalStep == TypeInv /\ JournalInv /\ [Next]_vars => JournalInv'
<1> SUFFICES ASSUME TypeInv, JournalInv, [Next]_vars PROVE JournalInv'
  OBVIOUS
<1> USE DEF JournalInv
<1>a. ASSUME Reconcile PROVE JournalInv'
  BY <1>a, JournalFrame DEF Reconcile, durable, memory
<1>b. ASSUME NEW t \in Txs, NEW o \in Plans, Stage(t, o) PROVE JournalInv'
  <2>1. \A u \in Txs \ {t} : ops'[u] = ops[u] /\ status'[u] = status[u]
    BY <1>b DEF Stage, TypeInv, TypeOK
  <2>2. journal[t] = "none" /\ ~Pending(t)
    BY <1>b DEF Stage, TypeInv, Recorded, Pending
  <2>3. BackupFaithful'
    BY <1>b, <2>1, <2>2 DEF Stage, BackupFaithful, Pending, Holds, Existing, Footprint
  <2>4. MarkerAgrees'
    BY <1>b, <2>1, <2>2 DEF Stage, MarkerAgrees
  <2> QED
    BY <1>b, <2>3, <2>4 DEF Stage, memory, CarriedOver, CommitRecorded, UndoMarked
<1>c. ASSUME NEW t \in Txs, BeginApply(t) PROVE JournalInv'
  <2>1. BackupFaithful' /\ MarkerAgrees'
    BY <1>c DEF BeginApply, durable, BackupFaithful, MarkerAgrees, Pending, Holds, Existing,
                Footprint
  <2>2. Holds(orig, cur)'
    BY <1>c DEF BeginApply, durable, Holds, Existing, Footprint
  <2> QED
    BY <1>c, <2>1, <2>2 DEF BeginApply, Goto, CarriedOver, CommitRecorded, UndoMarked
<1>d. ASSUME WriteBackup PROVE JournalInv'
  <2>1. cur \in Txs /\ backup' = [backup EXCEPT ![cur] = orig]
    BY <1>d DEF WriteBackup, Goto, TypeInv, BusyTyped, Resting
  <2>2. backup'[cur] = orig /\ \A t \in Txs \ {cur} : backup'[t] = backup[t]
    BY <2>1 DEF TypeInv, TypeOK
  <2>3. Holds(orig, cur)
    BY <1>d DEF WriteBackup, Goto, CarriedOver
  <2>4. Holds(backup[cur], cur)'
    BY <1>d, <2>2, <2>3 DEF WriteBackup, Holds, Existing, Footprint
  <2>5. BackupFaithful'
    BY <1>d, <2>2, <2>4 DEF WriteBackup, BackupFaithful, Pending, Holds, Existing, Footprint
  <2> QED
    BY <1>d, <2>4, <2>5 DEF WriteBackup, Goto, MarkerAgrees, CarriedOver, CommitRecorded, UndoMarked
<1>e. ASSUME WritePrepared PROVE JournalInv'
  <2>1. cur \in Txs /\ Holds(backup[cur], cur)
    BY <1>e DEF WritePrepared, Goto, TypeInv, BusyTyped, Resting, CarriedOver
  <2>2. journal'[cur] = "prepared" /\ \A t \in Txs \ {cur} : journal'[t] = journal[t]
    BY <1>e, <2>1 DEF WritePrepared, TypeInv, TypeOK
  <2>3. Holds(backup[cur], cur)'
    BY <1>e, <2>1 DEF WritePrepared, Holds, Existing, Footprint
  <2>4. BackupFaithful'
    BY <1>e, <2>2, <2>3 DEF WritePrepared, BackupFaithful, Pending, Holds, Existing, Footprint
  <2>5. MarkerAgrees'
    BY <1>e, <2>2 DEF WritePrepared, MarkerAgrees
  <2> QED
    BY <1>e, <2>3, <2>4, <2>5 DEF WritePrepared, Goto, CarriedOver, CommitRecorded, UndoMarked
<1>f. ASSUME WriteApplying PROVE JournalInv'
  <2>1. cur \in Txs /\ Holds(backup[cur], cur)
    BY <1>f DEF WriteApplying, Goto, TypeInv, BusyTyped, Resting, CarriedOver
  <2>2. journal'[cur] = "applying" /\ \A t \in Txs \ {cur} : journal'[t] = journal[t]
    BY <1>f, <2>1 DEF WriteApplying, TypeInv, TypeOK
  <2>3. BackupFaithful'
    BY <1>f, <2>1, <2>2 DEF WriteApplying, BackupFaithful, Pending, Holds, Existing, Footprint
  <2>4. MarkerAgrees'
    BY <1>f, <2>2 DEF WriteApplying, MarkerAgrees
  <2> QED
    BY <1>f, <2>3, <2>4 DEF WriteApplying, Goto, CarriedOver, CommitRecorded, UndoMarked
<1>g. ASSUME NEW p \in Paths, WriteFile(p) PROVE JournalInv'
  BY <1>g, JournalFrame DEF WriteFile
<1>h. ASSUME NEW p \in Paths, DeleteFile(p) PROVE JournalInv'
  BY <1>h, JournalFrame DEF DeleteFile
<1>i. ASSUME NEW m \in ops[cur].moves, MoveFile(m) PROVE JournalInv'
  BY <1>i, JournalFrame DEF MoveFile
<1>j. ASSUME RefreshWritten PROVE JournalInv'
  BY <1>j, JournalFrame DEF RefreshWritten, Goto, durable
<1>k. ASSUME SaveCommitted PROVE JournalInv'
  <2>1. cur \in Txs
    BY <1>k DEF SaveCommitted, Goto, TypeInv, BusyTyped, Resting
  <2>2. status'[cur] = "committed" /\ \A t \in Txs \ {cur} : status'[t] = status[t]
    BY <1>k, <2>1 DEF SaveCommitted, TypeInv, TypeOK
  <2>3. BackupFaithful'
    BY <1>k DEF SaveCommitted, BackupFaithful, Pending, Holds, Existing, Footprint
  <2>4. MarkerAgrees'
    BY <1>k, <2>2 DEF SaveCommitted, MarkerAgrees
  <2> QED
    BY <1>k, <2>2, <2>3, <2>4 DEF SaveCommitted, Goto, CarriedOver, CommitRecorded, UndoMarked
<1>l. ASSUME WriteCommitted PROVE JournalInv'
  <2>1. cur \in Txs /\ status[cur] = "committed"
    BY <1>l DEF WriteCommitted, TypeInv, BusyTyped, Resting, CommitRecorded
  <2>2. journal'[cur] = "committed" /\ \A t \in Txs \ {cur} : journal'[t] = journal[t]
    BY <1>l, <2>1 DEF WriteCommitted, TypeInv, TypeOK
  <2>3. BackupFaithful'
    BY <1>l, <2>2 DEF WriteCommitted, BackupFaithful, Pending, Holds, Existing, Footprint
  <2>4. MarkerAgrees'
    BY <1>l, <2>1, <2>2 DEF WriteCommitted, MarkerAgrees
  <2> QED
    BY <1>l, <2>3, <2>4 DEF WriteCommitted, Idle, CarriedOver, CommitRecorded, UndoMarked
<1>m. ASSUME RaiseEarly PROVE JournalInv'
  BY <1>m, JournalFrame DEF RaiseEarly, Idle, durable, Resting
<1>n. ASSUME UndoCurrent PROVE JournalInv'
  BY <1>n, JournalFrame DEF UndoCurrent, durable
<1>o. ASSUME NEW t \in Txs, CancelStaged(t) PROVE JournalInv'
  <2>1. status[t] = "staged" /\ \A u \in Txs \ {t} : status'[u] = status[u]
    BY <1>o DEF CancelStaged, TypeInv, TypeOK
  <2>2. BackupFaithful'
    BY <1>o DEF CancelStaged, BackupFaithful, Pending, Holds, Existing, Footprint
  <2>3. MarkerAgrees'
    BY <1>o, <2>1 DEF CancelStaged, MarkerAgrees
  <2> QED
    BY <1>o, <2>2, <2>3 DEF CancelStaged, memory, CarriedOver, CommitRecorded, UndoMarked
<1>p. ASSUME NEW t \in Txs, BeginRollback(t) PROVE JournalInv'
  BY <1>p, JournalFrame DEF BeginRollback, Goto, durable
<1>q. ASSUME NEW p \in Paths, RestoreFile(p) PROVE JournalInv'
  BY <1>q, JournalFrame DEF RestoreFile
<1>r. ASSUME MarkRolledBack PROVE JournalInv'
  <2>1. cur \in Txs
    BY <1>r DEF MarkRolledBack, TypeInv, BusyTyped, Resting
  <2>2. journal'[cur] = "rolled-back" /\ \A t \in Txs \ {cur} : journal'[t] = journal[t]
    BY <1>r, <2>1 DEF MarkRolledBack, TypeInv, TypeOK
  <2>3. BackupFaithful'
    BY <1>r, <2>2 DEF MarkRolledBack, BackupFaithful, Pending, Holds, Existing, Footprint
  <2>4. MarkerAgrees'
    BY <1>r, <2>2 DEF MarkRolledBack, MarkerAgrees
  <2> QED
    BY <1>r, <2>2, <2>3, <2>4 DEF MarkRolledBack, CarriedOver, CommitRecorded, UndoMarked
<1>s. ASSUME RefreshRestored PROVE JournalInv'
  <2>1. BackupFaithful' /\ MarkerAgrees'
    BY <1>s DEF RefreshRestored, durable, BackupFaithful, MarkerAgrees, Pending, Holds, Existing,
                Footprint
  <2> QED
    BY <1>s, <2>1 DEF RefreshRestored, Goto, durable, CarriedOver, CommitRecorded, UndoMarked
<1>t. ASSUME SaveRolledBack PROVE JournalInv'
  <2>1. cur \in Txs /\ journal[cur] = "rolled-back"
    BY <1>t DEF SaveRolledBack, TypeInv, BusyTyped, Resting, UndoMarked
  <2>2. \A u \in Txs \ {cur} : status'[u] = status[u]
    BY <1>t, <2>1 DEF SaveRolledBack, TypeInv, TypeOK
  <2>3. BackupFaithful'
    BY <1>t DEF SaveRolledBack, BackupFaithful, Pending, Holds, Existing, Footprint
  <2>4. MarkerAgrees'
    BY <1>t, <2>1, <2>2 DEF SaveRolledBack, MarkerAgrees
  <2> QED
    BY <1>t, <2>3, <2>4 DEF SaveRolledBack, Idle, CarriedOver, CommitRecorded, UndoMarked
<1>u. ASSUME RaiseInUndo PROVE JournalInv'
  BY <1>u, JournalFrame DEF RaiseInUndo, Idle, durable, Resting
<1>v. ASSUME Crash PROVE JournalInv'
  BY <1>v, JournalFrame DEF Crash, durable, Resting
<1>w. ASSUME Restart PROVE JournalInv'
  BY <1>w, JournalFrame DEF Restart, Goto, durable, Resting
<1>x. ASSUME NEW t \in Txs, FinalizeMarker(t) PROVE JournalInv'
  <2>1. journal'[t] = "committed" /\ \A u \in Txs \ {t} : journal'[u] = journal[u]
    BY <1>x DEF FinalizeMarker, TypeInv, TypeOK
  <2>2. BackupFaithful'
    BY <1>x, <2>1 DEF FinalizeMarker, BackupFaithful, Pending, Holds, Existing, Footprint
  <2>3. MarkerAgrees'
    BY <1>x, <2>1 DEF FinalizeMarker, MarkerAgrees
  <2> QED
    BY <1>x, <2>2, <2>3 DEF FinalizeMarker, CarriedOver, CommitRecorded, UndoMarked
<1>y. ASSUME NEW t \in Txs, BeginRecover(t) PROVE JournalInv'
  BY <1>y, JournalFrame DEF BeginRecover, Goto, durable
<1>z. ASSUME SaveRecovered PROVE JournalInv'
  <2>1. cur \in Txs /\ journal[cur] = "rolled-back"
    BY <1>z DEF SaveRecovered, Goto, TypeInv, BusyTyped, Resting, UndoMarked
  <2>2. \A u \in Txs \ {cur} : status'[u] = status[u]
    BY <1>z, <2>1 DEF SaveRecovered, TypeInv, TypeOK
  <2>3. BackupFaithful'
    BY <1>z DEF SaveRecovered, BackupFaithful, Pending, Holds, Existing, Footprint
  <2>4. MarkerAgrees'
    BY <1>z, <2>1, <2>2 DEF SaveRecovered, MarkerAgrees
  <2> QED
    BY <1>z, <2>3, <2>4 DEF SaveRecovered, Goto, CarriedOver, CommitRecorded, UndoMarked
<1>1. ASSUME EndRecovery PROVE JournalInv'
  BY <1>1, JournalFrame DEF EndRecovery, Goto, durable, Resting
<1>2. ASSUME NEW p \in Paths, NEW c \in File, Edit(p, c) PROVE JournalInv'
  BY <1>2, JournalFrame DEF Edit, memory
<1>3. ASSUME UNCHANGED vars PROVE JournalInv'
  BY <1>3, JournalFrame DEF vars, durable, memory
<1> QED
  <2>1. CASE Request
    BY <2>1, <1>a, <1>b, <1>c, <1>o, <1>p DEF Request
  <2>2. CASE Step
    BY <2>2, <1>d, <1>e, <1>f, <1>g, <1>h, <1>i, <1>j, <1>k, <1>l, <1>n, <1>q, <1>r,
       <1>s, <1>t, <1>w, <1>x, <1>y, <1>z, <1>1 DEF Step, MoveRefused
  <2>3. CASE Trouble
    BY <2>3, <1>m, <1>n, <1>u, <1>v DEF Trouble, Raise
  <2> QED
    BY <2>1, <2>2, <2>3, <1>2, <1>3 DEF Next

(* Every reachable state satisfies both invariants together.               *)
LEMMA JournalAlways == Spec => [](TypeInv /\ JournalInv)
<1>1. Init => TypeInv /\ JournalInv
  BY TypeInit, JournalInit
<1>2. TypeInv /\ JournalInv /\ [Next]_vars => TypeInv' /\ JournalInv'
  BY TypeStep, JournalStep
<1> QED
  BY <1>1, <1>2, PTL DEF Spec

(* Write-ahead: at every instant, whatever crashed, raised or raced, the   *)
(* backup of a transaction that recovery may still undo is exactly what    *)
(* its operations expected to find.                                        *)
THEOREM WriteAhead == Spec => []BackupFaithful
BY JournalAlways, PTL DEF JournalInv

(* The journal never says committed before the database does.              *)
THEOREM MarkersAgree == Spec => []MarkerAgrees
BY JournalAlways, PTL DEF JournalInv

-----------------------------------------------------------------------------
(* What a revision vouches for                                             *)

BaseVouches == \A t \in atBase : \A p \in Footprint(t) : index[p] = ops[t].pre[p]

CommitVouches ==
  \A t \in atCommit : status[t] = "committed" =>
    \A p \in Footprint(t) : index[p] = ops[t].post[p]

(* An apply finds the files as it expects them until it has written them,  *)
(* and its refresh builds the index from what it wrote.                    *)
Before == pc \in {"backup", "prepare", "begin"} => \A p \in Footprint(cur) : src[p] = ops[cur].pre[p]

Midway ==
  pc = "write" =>
    /\ todo \subseteq Footprint(cur)
    /\ \A p \in Footprint(cur) :
         /\ p \in todo => src[p] = ops[cur].pre[p]
         /\ p \notin todo => src[p] = ops[cur].post[p]

Built == pc = "save" => \A p \in Footprint(cur) : index[p] = ops[cur].post[p]

VouchInv == BaseVouches /\ CommitVouches /\ Before /\ Midway /\ Built

(* What the two ends of a move expect and leave.                           *)
LEMMA MoveFacts ==
  ASSUME TypeOK, NEW t \in Txs, status[t] # "none", NEW m \in ops[t].moves
  PROVE  /\ m[1] \in Footprint(t) /\ m[2] \in Footprint(t)
         /\ ops[t].pre[m[1]] \in Contents /\ ops[t].post[m[1]] = Absent
         /\ ops[t].pre[m[2]] = Absent /\ ops[t].post[m[2]] = ops[t].pre[m[1]]
<1>1. ops[t] \in Plans
  BY DEF TypeOK
<1>2. IsPlan(ops[t])
  BY <1>1, PlansAssumption
<1> QED
  BY <1>1, <1>2, PlanFacts DEF IsPlan, Footprint

(* A refresh either keeps the index or drops every binding to it.          *)
LEMMA RefreshVouches ==
  ASSUME NEW S, Refresh(S), ops' = ops, status' = status, BaseVouches, CommitVouches
  PROVE  BaseVouches' /\ CommitVouches'
<1>1. CASE Compiled(S) = index
  BY <1>1 DEF Refresh, StillHead, BaseVouches, CommitVouches, Footprint
<1>2. CASE Compiled(S) # index
  BY <1>2 DEF Refresh, StillHead, BaseVouches, CommitVouches
<1> QED
  BY <1>1, <1>2

(* Steps that leave the revision alone and commit nothing.                 *)
LEMMA VouchFrame ==
  ASSUME UNCHANGED <<world, ops>>, BaseVouches, CommitVouches,
         \A t \in atCommit : status'[t] = "committed" => status[t] = "committed"
  PROVE  BaseVouches' /\ CommitVouches'
BY DEF world, BaseVouches, CommitVouches, Footprint

LEMMA VouchInit == Init => VouchInv
BY DEF Init, VouchInv, BaseVouches, CommitVouches, Before, Midway, Built

(* The revision after a step.                                              *)
LEMMA VouchStep == TypeInv /\ VouchInv /\ [Next]_vars => BaseVouches' /\ CommitVouches'
<1> SUFFICES ASSUME TypeInv, VouchInv, [Next]_vars PROVE BaseVouches' /\ CommitVouches'
  OBVIOUS
<1>0. BaseVouches /\ CommitVouches
  BY DEF VouchInv
<1>a. ASSUME Reconcile PROVE BaseVouches' /\ CommitVouches'
  BY <1>a, <1>0, RefreshVouches DEF Reconcile, durable
<1>b. ASSUME NEW t \in Txs, NEW o \in Plans, Stage(t, o) PROVE BaseVouches' /\ CommitVouches'
  <2>1. /\ ops'[t] = o /\ status'[t] = "staged"
        /\ \A u \in Txs \ {t} : ops'[u] = ops[u] /\ status'[u] = status[u]
    BY <1>b DEF Stage, TypeInv, TypeOK
  <2>2. \A p \in DOMAIN o.pre : index'[p] = o.pre[p]
    BY <1>b, PlanFacts DEF Stage, Compiled
  <2>3. atBase \subseteq Txs /\ atCommit \subseteq Txs
    BY DEF TypeInv, TypeOK
  <2>4. CASE Compiled(Paths) = index
    BY <1>b, <1>0, <2>1, <2>2, <2>3, <2>4 DEF Stage, StillHead, BaseVouches, CommitVouches, Footprint
  <2>5. CASE Compiled(Paths) # index
    BY <1>b, <2>1, <2>2, <2>5 DEF Stage, StillHead, BaseVouches, CommitVouches, Footprint
  <2> QED
    BY <2>4, <2>5
<1>c. ASSUME NEW t \in Txs, BeginApply(t) PROVE BaseVouches' /\ CommitVouches'
  BY <1>c, <1>0, RefreshVouches DEF BeginApply, durable
<1>d. ASSUME \/ WriteBackup \/ WritePrepared \/ WriteApplying \/ WriteCommitted \/ RaiseEarly
             \/ UndoCurrent \/ MarkRolledBack \/ RaiseInUndo \/ Crash \/ Restart
             \/ UNCHANGED vars
             \/ \E p \in Paths : WriteFile(p) \/ DeleteFile(p) \/ RestoreFile(p)
             \/ \E m \in ops[cur].moves : MoveFile(m)
             \/ \E t \in Txs : FinalizeMarker(t) \/ BeginRecover(t)
             \/ \E p \in Paths, c \in File : Edit(p, c)
      PROVE  BaseVouches' /\ CommitVouches'
  <2>1. UNCHANGED <<world, ops, status>>
    BY <1>d DEF WriteBackup, WritePrepared, WriteApplying, WriteCommitted, RaiseEarly, UndoCurrent,
                MarkRolledBack, RaiseInUndo, Crash, Restart, vars, WriteFile, DeleteFile,
                RestoreFile, MoveFile, FinalizeMarker, BeginRecover, Edit, durable
  <2> QED
    BY <2>1, <1>0, VouchFrame
<1>e. ASSUME RefreshWritten PROVE BaseVouches' /\ CommitVouches'
  BY <1>e, <1>0, RefreshVouches DEF RefreshWritten, durable
<1>f. ASSUME SaveCommitted PROVE BaseVouches' /\ CommitVouches'
  <2>1. cur \in Txs /\ \A p \in Footprint(cur) : index[p] = ops[cur].post[p]
    BY <1>f DEF SaveCommitted, Goto, TypeInv, BusyTyped, Resting, VouchInv, Built
  <2>2. \A t \in Txs \ {cur} : status'[t] = status[t]
    BY <1>f, <2>1 DEF SaveCommitted, TypeInv, TypeOK
  <2>3. atCommit \subseteq Txs
    BY DEF TypeInv, TypeOK
  <2> QED
    BY <1>f, <1>0, <2>1, <2>2, <2>3 DEF SaveCommitted, BaseVouches, CommitVouches, Footprint
<1>g. ASSUME NEW t \in Txs, CancelStaged(t) PROVE BaseVouches' /\ CommitVouches'
  BY <1>g, <1>0, VouchFrame DEF CancelStaged, TypeInv, TypeOK
<1>h. ASSUME NEW t \in Txs, BeginRollback(t) PROVE BaseVouches' /\ CommitVouches'
  BY <1>h, <1>0, RefreshVouches DEF BeginRollback, durable
<1>i. ASSUME RefreshRestored PROVE BaseVouches' /\ CommitVouches'
  BY <1>i, <1>0, RefreshVouches DEF RefreshRestored, durable
<1>j. ASSUME SaveRolledBack PROVE BaseVouches' /\ CommitVouches'
  <2>1. cur \in Txs
    BY <1>j DEF SaveRolledBack, TypeInv, BusyTyped, Resting
  <2>2. status'[cur] # "committed" /\ \A t \in Txs \ {cur} : status'[t] = status[t]
    BY <1>j, <2>1 DEF SaveRolledBack, TypeInv, TypeOK
  <2>3. atCommit' \subseteq Txs /\ atCommit' \subseteq atCommit \cup {cur}
    BY <1>j, <2>1 DEF SaveRolledBack, TypeInv, TypeOK
  <2> QED
    BY <1>j, <1>0, <2>1, <2>2, <2>3 DEF SaveRolledBack, BaseVouches, CommitVouches, Footprint
<1>k. ASSUME SaveRecovered PROVE BaseVouches' /\ CommitVouches'
  BY <1>k, <1>0, VouchFrame DEF SaveRecovered, Goto, TypeInv, TypeOK
<1>l. ASSUME EndRecovery PROVE BaseVouches' /\ CommitVouches'
  BY <1>l, <1>0, RefreshVouches, VouchFrame DEF EndRecovery, durable
<1> QED
  <2>1. CASE Request
    BY <2>1, <1>a, <1>b, <1>c, <1>g, <1>h DEF Request
  <2>2. CASE Step
    BY <2>2, <1>d, <1>e, <1>f, <1>i, <1>j, <1>k, <1>l DEF Step, MoveRefused
  <2>3. CASE Trouble
    BY <2>3, <1>d DEF Trouble, Raise
  <2> QED
    BY <2>1, <2>2, <2>3, <1>d DEF Next

(* The assumption under which the files of a running transaction are its   *)
(* own: nobody else writes them meanwhile.                                 *)
NoRaces == "edit race" \notin Adversity

(* A step that stops at none of the places where something is known.       *)
LEMMA ProgressFrame ==
  ASSUME pc' \notin {"backup", "prepare", "begin", "write", "save"}
  PROVE  Before' /\ Midway' /\ Built'
BY DEF Before, Midway, Built

LEMMA ProgressStep ==
  ASSUME NoRaces, TypeInv, VouchInv, [Next]_vars
  PROVE  Before' /\ Midway' /\ Built'
<1>0. Before /\ Midway /\ Built /\ BaseVouches
  BY DEF VouchInv
<1>1. BaseVouches'
  BY VouchStep
<1>a. ASSUME \/ Reconcile \/ WriteCommitted \/ RaiseEarly \/ UndoCurrent \/ RaiseInUndo \/ Crash
             \/ SaveCommitted \/ MarkRolledBack \/ RefreshRestored \/ SaveRolledBack \/ Restart
             \/ SaveRecovered \/ EndRecovery
             \/ \E p \in Paths : RestoreFile(p)
             \/ \E t \in Txs : \/ CancelStaged(t) \/ BeginRollback(t) \/ FinalizeMarker(t)
                               \/ BeginRecover(t) \/ \E o \in Plans : Stage(t, o)
      PROVE  Before' /\ Midway' /\ Built'
  <2>1. pc' \notin {"backup", "prepare", "begin", "write", "save"}
    BY <1>a DEF Reconcile, WriteCommitted, RaiseEarly, UndoCurrent, RaiseInUndo, Crash, SaveCommitted,
                MarkRolledBack, RefreshRestored, SaveRolledBack, Restart, SaveRecovered, EndRecovery,
                RestoreFile, CancelStaged, BeginRollback, FinalizeMarker, BeginRecover, Stage, Idle,
                Goto, memory
  <2> QED
    BY <2>1, ProgressFrame
<1>b. ASSUME NEW t \in Txs, BeginApply(t) PROVE Before' /\ Midway' /\ Built'
  <2>1. \A p \in Footprint(t) : p \in Paths /\ ops[t].pre[p] \in File
    BY <1>b, FootprintFacts DEF BeginApply, TypeInv
  <2>2. \A p \in Existing(t) : src[p] = ops[t].pre[p]
    BY <1>b DEF BeginApply
  <2>3. CASE t \in atBase'
    <3>1. \A p \in Footprint(t) : index'[p] = ops[t].pre[p]
      BY <1>1, <1>b, <2>3 DEF BaseVouches, BeginApply, durable, Footprint
    <3>2. \A p \in Footprint(t) : index'[p] = src[p]
      BY <1>b, <2>1 DEF BeginApply, Refresh, Compiled
    <3> QED
      BY <1>b, <3>1, <3>2 DEF BeginApply, Goto, durable, Before, Midway, Built, Footprint
  <2>4. CASE t \notin atBase'
    <3>1. \A p \in Created(t) : src[p] = Absent
      BY <1>b, <2>4 DEF BeginApply
    <3>2. \A p \in Footprint(t) : src[p] = ops[t].pre[p]
      BY <2>1, <2>2, <3>1 DEF Existing, Created, File
    <3> QED
      BY <1>b, <3>2 DEF BeginApply, Goto, durable, Before, Midway, Built, Footprint
  <2> QED
    BY <2>3, <2>4
<1>c. ASSUME WriteBackup \/ WritePrepared PROVE Before' /\ Midway' /\ Built'
  BY <1>c, <1>0 DEF WriteBackup, WritePrepared, Goto, Before, Midway, Built, Footprint
<1>d. ASSUME WriteApplying PROVE Before' /\ Midway' /\ Built'
  BY <1>d, <1>0 DEF WriteApplying, Goto, Before, Midway, Built, Footprint
<1>e. ASSUME NEW p \in Paths, WriteFile(p) \/ DeleteFile(p) PROVE Before' /\ Midway' /\ Built'
  <2>1. p \in Footprint(cur) /\ src' = [src EXCEPT ![p] = ops[cur].post[p]]
    BY <1>e DEF WriteFile, DeleteFile, Outputs, Deletes
  <2>2. src'[p] = ops[cur].post[p] /\ \A q \in Paths \ {p} : src'[q] = src[q]
    BY <2>1 DEF TypeInv, TypeOK
  <2>3. \A q \in Footprint(cur) : q \in Paths
    BY <1>e, FootprintFacts DEF WriteFile, DeleteFile, TypeInv, BusyTyped, Resting
  <2>4. Midway'
    BY <1>e, <1>0, <2>1, <2>2, <2>3 DEF WriteFile, DeleteFile, Midway, Footprint
  <2> QED
    BY <1>e, <2>4 DEF WriteFile, DeleteFile, Before, Built
<1>f. ASSUME NEW m \in ops[cur].moves, MoveFile(m) PROVE Before' /\ Midway' /\ Built'
  <2>1. cur \in Txs /\ status[cur] # "none"
    BY <1>f DEF MoveFile, TypeInv, BusyTyped, Resting
  <2>2. /\ m[1] \in Footprint(cur) /\ m[2] \in Footprint(cur)
        /\ ops[cur].pre[m[1]] \in Contents /\ ops[cur].post[m[1]] = Absent
        /\ ops[cur].pre[m[2]] = Absent /\ ops[cur].post[m[2]] = ops[cur].pre[m[1]]
    BY <2>1, MoveFacts DEF TypeInv
  <2>3. m[1] # m[2]
    BY <2>2, DistinctAssumption
  <2>4. \A q \in Footprint(cur) : q \in Paths
    BY <2>1, FootprintFacts DEF TypeInv
  <2>5. src[m[1]] = ops[cur].pre[m[1]]
    BY <1>f, <1>0, <2>2 DEF MoveFile, Midway
  <2>6. /\ src'[m[1]] = ops[cur].post[m[1]] /\ src'[m[2]] = ops[cur].post[m[2]]
        /\ \A q \in Paths \ {m[1], m[2]} : src'[q] = src[q]
    BY <1>f, <2>2, <2>3, <2>4, <2>5 DEF MoveFile, TypeInv, TypeOK
  <2>7. Midway'
    BY <1>f, <1>0, <2>4, <2>6 DEF MoveFile, Midway, Footprint
  <2> QED
    BY <1>f, <2>7 DEF MoveFile, Before, Built
<1>g. ASSUME RefreshWritten PROVE Before' /\ Midway' /\ Built'
  <2>1. \A p \in Footprint(cur) : p \in Paths
    BY <1>g, FootprintFacts DEF RefreshWritten, Goto, TypeInv, BusyTyped, Resting
  <2>2. \A p \in Footprint(cur) : src[p] = ops[cur].post[p]
    BY <1>g, <1>0 DEF RefreshWritten, Goto, Midway
  <2>3. Built'
    BY <1>g, <2>1, <2>2 DEF RefreshWritten, Refresh, Compiled, durable, Built, Footprint
  <2> QED
    BY <1>g, <2>3 DEF RefreshWritten, Goto, Before, Midway
<1>h. ASSUME NEW p \in Paths, NEW c \in File, Edit(p, c) PROVE Before' /\ Midway' /\ Built'
  <2>1. pc \notin Resting => p \notin Footprint(cur)
    BY <1>h, DistinctAssumption DEF Edit, NoRaces, TypeInv, BusyTyped
  <2>2. \A q \in Paths \ {p} : src'[q] = src[q]
    BY <1>h DEF Edit, TypeInv, TypeOK
  <2>3. pc \notin Resting => \A q \in Footprint(cur) : src'[q] = src[q]
    BY <2>1, <2>2, FootprintFacts DEF TypeInv, BusyTyped
  <2> QED
    BY <1>h, <1>0, <2>3 DEF Edit, memory, world, Before, Midway, Built, Footprint, Resting
<1>i. ASSUME UNCHANGED vars PROVE Before' /\ Midway' /\ Built'
  BY <1>i, <1>0 DEF vars, durable, world, memory, Before, Midway, Built, Footprint
<1> QED
  <2>1. CASE Request
    BY <2>1, <1>a, <1>b DEF Request
  <2>2. CASE Step
    BY <2>2, <1>a, <1>c, <1>d, <1>e, <1>f, <1>g DEF Step, MoveRefused
  <2>3. CASE Trouble
    BY <2>3, <1>a DEF Trouble, Raise
  <2> QED
    BY <2>1, <2>2, <2>3, <1>h, <1>i DEF Next

LEMMA VouchAlways == ASSUME NoRaces PROVE Spec => [](TypeInv /\ VouchInv)
<1>1. Init => TypeInv /\ VouchInv
  BY TypeInit, VouchInit
<1>2. TypeInv /\ VouchInv /\ [Next]_vars => TypeInv' /\ VouchInv'
  BY TypeStep, VouchStep, ProgressStep DEF VouchInv
<1> QED
  BY <1>1, <1>2, PTL DEF Spec

(* A revision a transaction is bound to shows what the transaction expects *)
(* or what it produced, unless editors write the files of a transaction    *)
(* while it is applied.                                                    *)
THEOREM RevisionsVouch == ASSUME NoRaces PROVE Spec => []RevisionVouches
<1>1. TypeInv /\ VouchInv => RevisionVouches
  BY DEF TypeInv, TypeOK, VouchInv, BaseVouches, CommitVouches, RevisionVouches
<1> QED
  BY <1>1, VouchAlways, PTL

(* No file is written over that is not what the transaction expects, even  *)
(* if apply skips the check of what it creates because the revision says   *)
(* nothing has changed.                                                    *)
THEOREM DriftIsRefused == ASSUME NoRaces PROVE Spec => FailsClosedOnDrift
<1>1. VouchInv => \A p \in Paths : pc = "write" /\ p \in todo \ todo' => src[p] = ops[cur].pre[p]
  BY DEF VouchInv, Midway
<1> QED
  BY <1>1, VouchAlways, PTL DEF FailsClosedOnDrift

-----------------------------------------------------------------------------
(* What an operation leaves behind                                         *)

(* The assumption under which an undo, once begun, ends.                   *)
NoTornUndo == "undo fault" \notin Adversity /\ "rollback crash" \notin Adversity

(* A transaction nothing is left to do about.                              *)
Settled(t) ==
  /\ ~Pending(t)
  /\ status[t] = "committed" => journal[t] = "committed"
  /\ status[t] = "rolled-back" => journal[t] \in {"none", "rolled-back"}

(* A transaction recovery can settle: a committed one still has its        *)
(* journal.                                                                *)
Recoverable(t) == status[t] = "committed" => journal[t] \in {"prepared", "applying", "committed"}

(* Between a crash and the end of the recovery after it.                   *)
Recovering == pc \in {"down", "scan"} \/ (pc \in {"restore", "close"} /\ mode = "recover")

(* Only the transaction being worked on may be unsettled, or, until the    *)
(* recovery ends, those that can be recovered.                             *)
OthersSettled ==
  IF Recovering THEN \A t \in Txs : Recoverable(t) ELSE \A t \in Txs \ {cur} : Settled(t)

(* The one being worked on is settled until its journal is written, and    *)
(* then pending until it is committed or undone.                           *)
OwnSettled ==
  /\ pc \in Resting => cur = NoTx
  /\ pc = "reindex" => mode # "recover"
  /\ pc \in {"backup", "prepare"} => Settled(cur)
  /\ pc \in {"begin", "write", "save", "finish"} => Pending(cur)
  /\ Recovering /\ cur # NoTx => status[cur] # "committed"

SettleInv == OthersSettled /\ OwnSettled

LEMMA SettleInit == Init => SettleInv
BY DEF Init, SettleInv, OthersSettled, OwnSettled, Settled, Recovering, Pending, Resting

(* Steps that touch neither journals nor records.                          *)
LEMMA SettleFrame ==
  ASSUME SettleInv, UNCHANGED <<journal, status, mode, cur>>,
         \/ pc' = pc
         \/ pc = "backup" /\ pc' = "prepare"
         \/ pc = "write" /\ pc' = "save"
         \/ pc = "reindex" /\ pc' = "close"
  PROVE  SettleInv'
BY DEF SettleInv, OthersSettled, OwnSettled, Settled, Recoverable, Recovering, Pending, Resting

LEMMA SettleStep ==
  ASSUME NoTornUndo, TypeInv, JournalInv, SettleInv, [Next]_vars
  PROVE  SettleInv'
<1>0. NoTx \notin Txs /\ MarkerAgrees
  BY DistinctAssumption DEF JournalInv
<1>a. ASSUME Reconcile PROVE SettleInv'
  BY <1>a, SettleFrame DEF Reconcile, durable, memory
<1>b. ASSUME NEW t \in Txs, NEW o \in Plans, Stage(t, o) PROVE SettleInv'
  <2>1. status'[t] = "staged" /\ \A u \in Txs \ {t} : status'[u] = status[u]
    BY <1>b DEF Stage, TypeInv, TypeOK
  <2>2. pc = "idle" /\ cur = NoTx /\ UNCHANGED <<journal, pc, mode, cur>>
    BY <1>b DEF Stage, memory, SettleInv, OwnSettled, Resting
  <2>3. \A u \in Txs : Settled(u)
    BY <1>0, <2>2 DEF SettleInv, OthersSettled, Recovering
  <2>4. \A u \in Txs : Settled(u)'
    BY <2>1, <2>2, <2>3 DEF Settled, Pending
  <2> QED
    BY <2>2, <2>4 DEF SettleInv, OthersSettled, OwnSettled, Recovering, Resting
<1>c. ASSUME NEW t \in Txs, BeginApply(t) PROVE SettleInv'
  <2>1. cur = NoTx /\ pc = "idle" /\ pc' = "backup" /\ cur' = t /\ UNCHANGED <<journal, status>>
    BY <1>c DEF BeginApply, Goto, durable, SettleInv, OwnSettled, Resting
  <2>2. \A u \in Txs : Settled(u)
    BY <1>0, <2>1 DEF SettleInv, OthersSettled, Recovering
  <2>3. \A u \in Txs : Settled(u)'
    BY <2>1, <2>2 DEF Settled, Pending
  <2> QED
    BY <2>1, <2>3 DEF SettleInv, OthersSettled, OwnSettled, Recovering, Resting
<1>d. ASSUME WriteBackup \/ RefreshWritten \/ RefreshRestored PROVE SettleInv'
  BY <1>d, SettleFrame DEF WriteBackup, RefreshWritten, RefreshRestored, Goto, durable
<1>e. ASSUME WritePrepared \/ WriteApplying PROVE SettleInv'
  <2>1. /\ pc \in {"prepare", "begin"} /\ pc' \in {"begin", "write"} /\ cur \in Txs
        /\ UNCHANGED <<status, mode, cur>>
    BY <1>e DEF WritePrepared, WriteApplying, Goto, TypeInv, BusyTyped, Resting
  <2>2. journal'[cur] \in {"prepared", "applying"} /\ \A u \in Txs \ {cur} : journal'[u] = journal[u]
    BY <1>e, <2>1 DEF WritePrepared, WriteApplying, TypeInv, TypeOK
  <2>3. \A u \in Txs \ {cur} : Settled(u)'
    BY <2>1, <2>2 DEF SettleInv, OthersSettled, Recovering, Settled, Pending
  <2> QED
    BY <2>1, <2>2, <2>3 DEF SettleInv, OthersSettled, OwnSettled, Recovering, Pending, Resting
<1>f. ASSUME \/ \E p \in Paths : WriteFile(p) \/ DeleteFile(p) \/ RestoreFile(p)
             \/ \E m \in ops[cur].moves : MoveFile(m)
             \/ \E p \in Paths, c \in File : Edit(p, c)
             \/ UNCHANGED vars
      PROVE  SettleInv'
  <2>1. UNCHANGED <<journal, status, mode, cur, pc>>
    BY <1>f DEF WriteFile, DeleteFile, RestoreFile, MoveFile, Edit, vars, durable, memory
  <2> QED
    BY <2>1, SettleFrame
<1>g. ASSUME SaveCommitted PROVE SettleInv'
  <2>1. pc = "save" /\ pc' = "finish" /\ cur \in Txs /\ UNCHANGED <<journal, mode, cur>>
    BY <1>g DEF SaveCommitted, Goto, TypeInv, BusyTyped, Resting
  <2>2. \A u \in Txs \ {cur} : status'[u] = status[u]
    BY <1>g, <2>1 DEF SaveCommitted, TypeInv, TypeOK
  <2>3. \A u \in Txs \ {cur} : Settled(u)'
    BY <2>1, <2>2 DEF SettleInv, OthersSettled, Recovering, Settled, Pending
  <2> QED
    BY <2>1, <2>3 DEF SettleInv, OthersSettled, OwnSettled, Recovering, Pending, Resting
<1>h. ASSUME WriteCommitted PROVE SettleInv'
  <2>1. /\ pc = "finish" /\ pc' = "idle" /\ cur' = NoTx /\ cur \in Txs /\ status' = status
        /\ status[cur] = "committed"
    BY <1>h DEF WriteCommitted, Idle, TypeInv, BusyTyped, Resting, JournalInv, CommitRecorded
  <2>2. journal'[cur] = "committed" /\ \A u \in Txs \ {cur} : journal'[u] = journal[u]
    BY <1>h, <2>1 DEF WriteCommitted, TypeInv, TypeOK
  <2>3. \A u \in Txs : Settled(u)'
    BY <2>1, <2>2 DEF SettleInv, OthersSettled, Recovering, Settled, Pending
  <2> QED
    BY <2>1, <2>3 DEF SettleInv, OthersSettled, OwnSettled, Recovering, Resting
<1>i. ASSUME RaiseEarly PROVE SettleInv'
  <2>1. /\ pc \in {"backup", "prepare"} /\ pc' = "idle" /\ cur' = NoTx
        /\ UNCHANGED <<journal, status>>
    BY <1>i DEF RaiseEarly, Idle, durable
  <2>2. \A u \in Txs : Settled(u)'
    BY <2>1 DEF SettleInv, OthersSettled, OwnSettled, Recovering, Settled, Pending
  <2> QED
    BY <2>1, <2>2 DEF SettleInv, OthersSettled, OwnSettled, Recovering, Resting
<1>j. ASSUME UndoCurrent, pc \in {"begin", "write", "save", "finish"} PROVE SettleInv'
  <2>1. pc' = "restore" /\ mode' = "undo" /\ UNCHANGED <<journal, status, cur>>
    BY <1>j DEF UndoCurrent, durable
  <2>2. \A u \in Txs \ {cur} : Settled(u)'
    BY <1>j, <2>1 DEF SettleInv, OthersSettled, Recovering, Settled, Pending
  <2> QED
    BY <2>1, <2>2 DEF SettleInv, OthersSettled, OwnSettled, Recovering, Resting
<1>k. ASSUME NEW t \in Txs, CancelStaged(t) PROVE SettleInv'
  <2>1. pc = "idle" /\ cur = NoTx /\ UNCHANGED <<journal, pc, mode, cur>> /\ status[t] = "staged"
    BY <1>k DEF CancelStaged, memory, SettleInv, OwnSettled, Resting
  <2>2. status'[t] = "rolled-back" /\ \A u \in Txs \ {t} : status'[u] = status[u]
    BY <1>k DEF CancelStaged, TypeInv, TypeOK
  <2>3. \A u \in Txs : Settled(u)
    BY <1>0, <2>1 DEF SettleInv, OthersSettled, Recovering
  <2>4. journal[t] \in {"none", "rolled-back"}
    BY <1>0, <2>1, <2>3 DEF MarkerAgrees, Settled, Pending, TypeInv, TypeOK
  <2>5. \A u \in Txs : Settled(u)'
    BY <2>1, <2>2, <2>3, <2>4 DEF Settled, Pending
  <2> QED
    BY <2>1, <2>5 DEF SettleInv, OthersSettled, OwnSettled, Recovering, Resting
<1>l. ASSUME NEW t \in Txs, BeginRollback(t) PROVE SettleInv'
  <2>1. /\ cur = NoTx /\ pc = "idle" /\ pc' = "restore" /\ mode' = "rollback" /\ cur' = t
        /\ UNCHANGED <<journal, status>>
    BY <1>l DEF BeginRollback, Goto, durable, SettleInv, OwnSettled, Resting
  <2>2. \A u \in Txs : Settled(u)'
    BY <1>0, <2>1 DEF SettleInv, OthersSettled, Recovering, Settled, Pending
  <2> QED
    BY <2>1, <2>2 DEF SettleInv, OthersSettled, OwnSettled, Recovering, Resting
<1>m. ASSUME MarkRolledBack PROVE SettleInv'
  <2>1. /\ pc = "restore" /\ cur \in Txs /\ UNCHANGED <<status, mode, cur>>
        /\ pc' = IF mode = "recover" THEN "close" ELSE "reindex"
    BY <1>m DEF MarkRolledBack, TypeInv, BusyTyped, Resting
  <2>2. journal'[cur] = "rolled-back" /\ \A u \in Txs \ {cur} : journal'[u] = journal[u]
    BY <1>m, <2>1 DEF MarkRolledBack, TypeInv, TypeOK
  <2>3. CASE mode = "recover"
    <3>1. \A u \in Txs : Recoverable(u)'
      BY <1>0, <2>1, <2>2, <2>3 DEF SettleInv, OthersSettled, OwnSettled, Recovering, Recoverable
    <3> QED
      BY <2>1, <2>3, <3>1, <1>0 DEF SettleInv, OthersSettled, OwnSettled, Recovering, Resting
  <2>4. CASE mode # "recover"
    <3>1. \A u \in Txs \ {cur} : Settled(u)'
      BY <2>1, <2>2, <2>4 DEF SettleInv, OthersSettled, Recovering, Settled, Pending
    <3> QED
      BY <2>1, <2>4, <3>1 DEF SettleInv, OthersSettled, OwnSettled, Recovering, Resting
  <2> QED
    BY <2>3, <2>4
<1>n. ASSUME SaveRolledBack PROVE SettleInv'
  <2>1. /\ pc = "close" /\ mode # "recover" /\ pc' = "idle" /\ cur' = NoTx /\ cur \in Txs
        /\ journal' = journal /\ journal[cur] = "rolled-back"
    BY <1>n DEF SaveRolledBack, Idle, TypeInv, BusyTyped, Resting, JournalInv, UndoMarked
  <2>2. status'[cur] = "rolled-back" /\ \A u \in Txs \ {cur} : status'[u] = status[u]
    BY <1>n, <2>1 DEF SaveRolledBack, TypeInv, TypeOK
  <2>3. \A u \in Txs : Settled(u)'
    BY <2>1, <2>2 DEF SettleInv, OthersSettled, Recovering, Settled, Pending
  <2> QED
    BY <2>1, <2>3 DEF SettleInv, OthersSettled, OwnSettled, Recovering, Resting
<1>o. ASSUME RaiseInUndo PROVE SettleInv'
  BY <1>o DEF RaiseInUndo, NoTornUndo
<1>p. ASSUME Crash PROVE SettleInv'
  <2>1. pc' = "down" /\ cur' = NoTx /\ UNCHANGED <<journal, status>>
    BY <1>p DEF Crash, durable
  <2>2. \A t \in Txs : ~UndoingCommitted(t)
    BY <1>p DEF Crash, NoTornUndo
  <2>3. \A t \in Txs \ {cur} : Recoverable(t)
    BY DEF SettleInv, OthersSettled, Settled, Recoverable
  <2>4. cur \in Txs => Recoverable(cur)
    BY <1>0, <2>2 DEF SettleInv, OthersSettled, OwnSettled, Settled, Recoverable, Recovering, Pending,
                UndoingCommitted, TypeInv, TypeOK, Resting
  <2>5. \A t \in Txs : Recoverable(t)'
    BY <2>1, <2>3, <2>4 DEF Recoverable
  <2> QED
    BY <2>1, <2>5 DEF SettleInv, OthersSettled, OwnSettled, Recovering, Resting
<1>q. ASSUME Restart PROVE SettleInv'
  BY <1>q DEF Restart, Goto, durable, SettleInv, OthersSettled, OwnSettled, Recovering, Recoverable, Resting
<1>r. ASSUME NEW t \in Txs, FinalizeMarker(t) PROVE SettleInv'
  <2>1. pc = "scan" /\ UNCHANGED <<status, pc, mode, cur>>
    BY <1>r DEF FinalizeMarker
  <2>2. journal'[t] = "committed" /\ \A u \in Txs \ {t} : journal'[u] = journal[u]
    BY <1>r DEF FinalizeMarker, TypeInv, TypeOK
  <2> QED
    BY <2>1, <2>2 DEF SettleInv, OthersSettled, OwnSettled, Recovering, Recoverable, Resting
<1>s. ASSUME NEW t \in Txs, BeginRecover(t) PROVE SettleInv'
  BY <1>s DEF BeginRecover, Goto, durable, SettleInv, OthersSettled, OwnSettled, Recovering,
              Recoverable, Resting
<1>t. ASSUME SaveRecovered PROVE SettleInv'
  <2>1. pc = "close" /\ mode = "recover" /\ pc' = "scan" /\ cur' = NoTx /\ cur \in Txs /\ journal' = journal
    BY <1>t DEF SaveRecovered, Goto, TypeInv, BusyTyped, Resting
  <2>2. status'[cur] = "rolled-back" /\ \A u \in Txs \ {cur} : status'[u] = status[u]
    BY <1>t, <2>1 DEF SaveRecovered, TypeInv, TypeOK
  <2>3. \A u \in Txs : Recoverable(u)'
    BY <2>1, <2>2 DEF SettleInv, OthersSettled, Recovering, Recoverable
  <2> QED
    BY <2>1, <2>3 DEF SettleInv, OthersSettled, OwnSettled, Recovering, Resting
<1>u. ASSUME EndRecovery PROVE SettleInv'
  <2>1. /\ pc = "scan" /\ pc' = "idle" /\ cur' = cur /\ cur = NoTx /\ UNCHANGED <<journal, status>>
        /\ \A t \in Txs : ~Pending(t)
    BY <1>u DEF EndRecovery, Goto, durable, SettleInv, OwnSettled, Resting
  <2>2. \A t \in Txs : Recoverable(t)
    BY <2>1 DEF SettleInv, OthersSettled, Recovering
  <2>3. \A t \in Txs : Settled(t)
    BY <1>0, <2>1, <2>2 DEF Settled, Recoverable, Pending, MarkerAgrees, TypeInv, TypeOK
  <2>4. \A t \in Txs : Settled(t)'
    BY <2>1, <2>3 DEF Settled, Pending
  <2> QED
    BY <2>1, <2>4 DEF SettleInv, OthersSettled, OwnSettled, Recovering, Resting
<1> QED
  <2>1. CASE Request
    BY <2>1, <1>a, <1>b, <1>c, <1>k, <1>l DEF Request
  <2>2. CASE Step
    BY <2>2, <1>d, <1>e, <1>f, <1>g, <1>h, <1>j, <1>m, <1>n, <1>q, <1>r, <1>s, <1>t, <1>u
       DEF Step, MoveRefused
  <2>3. CASE Trouble
    BY <2>3, <1>i, <1>j, <1>o, <1>p DEF Trouble, Raise
  <2> QED
    BY <2>1, <2>2, <2>3, <1>f DEF Next

LEMMA SettleAlways == ASSUME NoTornUndo PROVE Spec => [](TypeInv /\ JournalInv /\ SettleInv)
<1>1. Init => SettleInv
  BY SettleInit
<1>2. TypeInv /\ JournalInv /\ SettleInv /\ [Next]_vars => SettleInv'
  BY SettleStep
<1> QED
  BY <1>1, <1>2, JournalAlways, PTL DEF Spec

(* Whoever finds the process idle finds every transaction settled: nothing *)
(* to undo, nothing to finalise, in whatever way the last operation or the *)
(* last recovery ended, as long as an undo that was begun is ended.        *)
THEOREM SettlesWhenIdle == ASSUME NoTornUndo PROVE Spec => []SettledWhenIdle
<1>1. SettleInv => SettledWhenIdle
  BY DistinctAssumption DEF SettleInv, OthersSettled, OwnSettled, Recovering, Settled, Resting,
     SettledWhenIdle
<1> QED
  BY <1>1, SettleAlways, PTL

-----------------------------------------------------------------------------
(* What is applied or undone, seen from outside                            *)

(* The assumption under which the engine is atomic: no race, no double     *)
(* commit, and every undo that is begun ends.                              *)
NoAdversity == Adversity = {}

(* What a restore puts back: a journal comes with a backup and stays with  *)
(* it, also when nothing is pending.                                       *)
Backups == \A t \in Txs : journal[t] # "none" => Holds(backup[t], t)

(* At most one transaction is masked from whoever reads the sources.       *)
OneUndone == \A s, t \in Txs : Undone(s) /\ Undone(t) => s = t

(* What is on disk once the writes, or a restore, are done.                *)
Written == pc \in {"save", "finish"} => \A p \in Footprint(cur) : src[p] = ops[cur].post[p]

Restored ==
  /\ pc \in {"restore", "reindex", "close"} =>
       \A p \in Footprint(cur) \ todo : src[p] = ops[cur].pre[p]
  /\ pc \in {"restore", "reindex", "close"} => todo \subseteq Footprint(cur)
  /\ pc \in {"reindex", "close"} => todo = {}

(* An apply is of a transaction not committed, and a restore of one that   *)
(* is pending or committed.                                                *)
Uncommitted == pc \in {"backup", "prepare", "begin", "write", "save"} => status[cur] # "committed"

Undoable ==
  pc = "restore" => journal[cur] # "none" /\ (Pending(cur) \/ status[cur] = "committed")

UndoInv == Backups /\ OneUndone /\ Written /\ Restored /\ Uncommitted /\ Undoable

LEMMA UndoInit == Init => UndoInv
BY DEF Init, UndoInv, Backups, OneUndone, Undone, UndoingCommitted, Pending, Written, Restored,
       Uncommitted, Undoable

(* Steps that leave operations, backups and journals alone.                *)
LEMMA BackupsFrame ==
  ASSUME Backups, UNCHANGED <<backup, journal, ops>>
  PROVE  Backups'
BY DEF Backups, Holds, Existing, Footprint

(* A journal rewritten for a transaction that had one, or whose backup is  *)
(* known to be complete.                                                   *)
LEMMA BackupsJournal ==
  ASSUME Backups, NEW t \in Txs, NEW j, journal' = [journal EXCEPT ![t] = j],
         journal[t] # "none" \/ Holds(backup[t], t), UNCHANGED <<backup, ops>>, TypeOK
  PROVE  Backups'
<1>1. \A u \in Txs : journal'[u] # "none" => Holds(backup[u], u)
  BY DEF Backups, TypeOK
<1> QED
  BY <1>1 DEF Backups, Holds, Existing, Footprint

(* Outside recovery only the transaction being worked on is undone.        *)
LEMMA OwnUndone ==
  ASSUME SettleInv, ~Recovering, NEW t \in Txs, Undone(t)
  PROVE  t = cur
BY DEF SettleInv, OthersSettled, Settled, Undone, UndoingCommitted

LEMMA OwnUndoneNext ==
  ASSUME SettleInv', ~Recovering', NEW t \in Txs, Undone(t)'
  PROVE  t = cur'
BY DEF SettleInv, OthersSettled, Settled, Undone, UndoingCommitted

(* The backups after a step.                                               *)
LEMMA BackupsStep ==
  ASSUME TypeInv, JournalInv, SettleInv, UndoInv, [Next]_vars
  PROVE  Backups'
<1>0. Backups /\ TypeOK
  BY DEF UndoInv, TypeInv
<1>b. ASSUME NEW t \in Txs, NEW o \in Plans, Stage(t, o) PROVE Backups'
  <2>1. journal'[t] = "none" /\ \A u \in Txs \ {t} : ops'[u] = ops[u]
    BY <1>b DEF Stage, TypeInv, TypeOK, Recorded
  <2> QED
    BY <1>0, <1>b, <2>1 DEF Stage, Backups, Holds, Existing, Footprint
<1>d. ASSUME WriteBackup PROVE Backups'
  <2>1. /\ backup'[cur] = orig /\ \A t \in Txs \ {cur} : backup'[t] = backup[t]
        /\ Holds(orig, cur) /\ cur \in Txs
    BY <1>d DEF WriteBackup, Goto, TypeInv, TypeOK, BusyTyped, Resting, JournalInv, CarriedOver
  <2>2. \A t \in Txs : journal[t] # "none" => Holds(backup'[t], t)
    BY <1>0, <2>1 DEF Backups
  <2> QED
    BY <1>d, <2>2 DEF WriteBackup, Backups, Holds, Existing, Footprint
<1>e. ASSUME WritePrepared PROVE Backups'
  BY <1>0, <1>e, BackupsJournal DEF WritePrepared, Goto, TypeInv, BusyTyped, Resting, JournalInv, CarriedOver
<1>f. ASSUME WriteApplying PROVE Backups'
  BY <1>0, <1>f, BackupsJournal DEF WriteApplying, Goto, TypeInv, BusyTyped, Resting, JournalInv, CarriedOver
<1>l. ASSUME WriteCommitted PROVE Backups'
  <2>1. cur \in Txs /\ journal[cur] # "none"
    BY <1>l DEF WriteCommitted, TypeInv, BusyTyped, Resting, SettleInv, OwnSettled, Pending
  <2> QED
    BY <1>0, <1>l, <2>1, BackupsJournal DEF WriteCommitted
<1>r. ASSUME MarkRolledBack PROVE Backups'
  <2>1. cur \in Txs /\ journal[cur] # "none"
    BY <1>r DEF MarkRolledBack, TypeInv, BusyTyped, Resting, UndoInv, Undoable
  <2> QED
    BY <1>0, <1>r, <2>1, BackupsJournal DEF MarkRolledBack
<1>x. ASSUME NEW t \in Txs, FinalizeMarker(t) PROVE Backups'
  <2>1. journal[t] # "none"
    BY <1>x DEF FinalizeMarker, Pending
  <2> QED
    BY <1>0, <1>x, <2>1, BackupsJournal DEF FinalizeMarker
<1>z. ASSUME UNCHANGED <<backup, journal, ops>> PROVE Backups'
  BY <1>0, <1>z, BackupsFrame
<1> QED
  <2>1. CASE Request
    BY <2>1, <1>b, <1>z DEF Request, Reconcile, BeginApply, CancelStaged, BeginRollback, durable
  <2>2. CASE Step
    BY <2>2, <1>d, <1>e, <1>f, <1>l, <1>r, <1>x, <1>z
       DEF Step, WriteFile, DeleteFile, MoveFile, MoveRefused, UndoCurrent, RefreshWritten,
           SaveCommitted, RestoreFile, RefreshRestored, SaveRolledBack, Restart, BeginRecover,
           SaveRecovered, EndRecovery, durable
  <2>3. CASE Trouble
    BY <2>3, <1>z DEF Trouble, RaiseEarly, Raise, UndoCurrent, RaiseInUndo, Crash, durable
  <2> QED
    BY <2>1, <2>2, <2>3, <1>z DEF Next, Edit, vars, durable

(* A crash and a recovery mask nothing that was not masked.                *)
LEMMA OneUndoneStep ==
  ASSUME NoAdversity, TypeInv, SettleInv, UndoInv, SettleInv', [Next]_vars
  PROVE  OneUndone'
<1>1. CASE ~Recovering'
  BY <1>1, OwnUndoneNext DEF OneUndone
<1>2. CASE Recovering'
  <2>1. ASSUME Crash PROVE \A t \in Txs : Undone(t)' => Undone(t)
    BY <2>1 DEF Crash, durable, Undone, UndoingCommitted, Pending
  <2>2. ASSUME Restart PROVE \A t \in Txs : Undone(t)' => Undone(t)
    BY <2>2 DEF Restart, Goto, durable, Undone, UndoingCommitted, Pending
  <2>3. ASSUME NEW u \in Txs, FinalizeMarker(u) PROVE \A t \in Txs : Undone(t)' => Undone(t)
    BY <2>3 DEF FinalizeMarker, Undone, UndoingCommitted, Pending, TypeInv, TypeOK
  <2>4. ASSUME NEW u \in Txs, BeginRecover(u) PROVE \A t \in Txs : Undone(t)' => Undone(t)
    BY <2>4 DEF BeginRecover, durable, Undone, UndoingCommitted, Pending
  <2>5. ASSUME MarkRolledBack PROVE \A t \in Txs : Undone(t)' => Undone(t)
    BY <1>2, <2>5 DEF MarkRolledBack, Undone, UndoingCommitted, Pending, Recovering, TypeInv, TypeOK
  <2>6. ASSUME SaveRecovered PROVE \A t \in Txs : Undone(t)' => Undone(t)
    <3>1. cur \in Txs /\ status[cur] # "committed" /\ cur' = NoTx /\ journal' = journal
      BY <2>6, DistinctAssumption DEF SaveRecovered, Goto, TypeInv, BusyTyped, Resting, SettleInv,
         OwnSettled, Recovering
    <3>2. \A t \in Txs \ {cur} : status'[t] = status[t]
      BY <2>6 DEF SaveRecovered, TypeInv, TypeOK
    <3> QED
      BY <3>1, <3>2, DistinctAssumption DEF Undone, UndoingCommitted, Pending
  <2>7. ASSUME UNCHANGED <<journal, status, pc, mode, cur>>
        PROVE  \A t \in Txs : Undone(t)' => Undone(t)
    BY <2>7 DEF Undone, UndoingCommitted, Pending
  <2>8. \A t \in Txs : Undone(t)' => Undone(t)
    <3>1. CASE Request
      BY <1>2, <2>7, <3>1 DEF Request, Reconcile, Stage, BeginApply, CancelStaged, BeginRollback, Goto,
         memory, durable, Recovering
    <3>2. CASE Step
      <4>1. ~(WriteBackup \/ WritePrepared \/ WriteApplying \/ RefreshWritten \/ SaveCommitted)
        BY <1>2 DEF WriteBackup, WritePrepared, WriteApplying, RefreshWritten, SaveCommitted, Goto, Recovering
      <4>2. ~(WriteCommitted \/ RefreshRestored \/ SaveRolledBack \/ EndRecovery)
        BY <1>2 DEF WriteCommitted, RefreshRestored, SaveRolledBack, EndRecovery, Goto, Idle, Recovering,
                    SettleInv, OwnSettled
      <4>3. \A m : ~MoveRefused(m)
        BY <1>2 DEF MoveRefused, UndoCurrent, Recovering
      <4>4. (\E m : MoveFile(m)) \/ (\E p \in Paths : WriteFile(p) \/ DeleteFile(p) \/ RestoreFile(p))
              => UNCHANGED <<journal, status, pc, mode, cur>>
        BY DEF MoveFile, WriteFile, DeleteFile, RestoreFile
      <4> QED
        BY <2>2, <2>3, <2>4, <2>5, <2>6, <2>7, <3>2, <4>1, <4>2, <4>3, <4>4 DEF Step
    <3>3. CASE Trouble
      BY <1>2, <2>1, <3>3 DEF Trouble, RaiseEarly, Raise, UndoCurrent, RaiseInUndo, Idle, Recovering
    <3> QED
      BY <2>7, <3>1, <3>2, <3>3 DEF Next, Edit, vars, durable, memory
  <2> QED
    BY <2>8 DEF UndoInv, OneUndone
<1> QED
  BY <1>1, <1>2

(* A restore writes back what the transaction expects to find.             *)
LEMMA RestoreFileFacts ==
  ASSUME TypeInv, Backups, Undoable, NEW p \in Paths, RestoreFile(p)
  PROVE  /\ cur \in Txs /\ p \in todo /\ todo' = todo \ {p}
         /\ p \in Footprint(cur) => src'[p] = ops[cur].pre[p]
         /\ \A r \in Paths \ {p} : src'[r] = src[r]
<1>1. cur \in Txs /\ status[cur] # "none" /\ pc = "restore"
  BY DEF RestoreFile, TypeInv, BusyTyped, Resting
<1>2. Holds(backup[cur], cur)
  BY <1>1 DEF Backups, Undoable
<1>3. p \in Footprint(cur) => p \in Created(cur) \/ p \in Existing(cur)
  BY <1>1, FootprintFacts DEF TypeInv, Created, Existing, File
<1>4. p \in Existing(cur) => p \in DOMAIN backup[cur] /\ backup[cur][p] = ops[cur].pre[p]
  BY <1>2 DEF Holds
<1>5. p \in Existing(cur) => p \notin Created(cur)
  BY DistinctAssumption DEF Existing, Created
<1>6. /\ src'[p] = IF p \in Created(cur) THEN Absent
                   ELSE IF p \in DOMAIN backup[cur] THEN backup[cur][p] ELSE src[p]
      /\ \A r \in Paths \ {p} : src'[r] = src[r]
  BY DEF RestoreFile, TypeInv, TypeOK
<1>7. p \in Created(cur) => ops[cur].pre[p] = Absent
  BY DEF Created
<1> QED
  <2>1. p \in Footprint(cur) => src'[p] = ops[cur].pre[p]
    BY <1>3, <1>4, <1>5, <1>6, <1>7
  <2> QED
    BY <1>1, <1>6, <2>1 DEF RestoreFile

(* What is on disk, and what is worked on, after a step.                   *)
Shown == Written /\ Restored /\ Uncommitted /\ Undoable

LEMMA ShownStep ==
  ASSUME NoAdversity, TypeInv, VouchInv, SettleInv, UndoInv, [Next]_vars
  PROVE  Shown'
<1>0. Written /\ Restored /\ Uncommitted /\ Undoable /\ Backups /\ TypeOK
  BY DEF UndoInv, TypeInv
<1>a. ASSUME pc' \in Resting PROVE Shown'
  BY <1>a DEF Shown, Written, Restored, Uncommitted, Undoable, Resting
<1>c. ASSUME NEW t \in Txs, BeginApply(t) PROVE Shown'
  <2>1. pc' = "backup" /\ cur' = t /\ status' = status /\ status[t] # "committed"
    BY <1>c DEF BeginApply, Goto, durable, NoAdversity
  <2> QED
    BY <2>1 DEF Shown, Written, Restored, Uncommitted, Undoable
<1>d. ASSUME WriteBackup \/ WritePrepared \/ WriteApplying \/ \E p \in Paths : WriteFile(p) \/ DeleteFile(p)
      PROVE  Shown'
  <2>1. /\ pc \in {"backup", "prepare", "begin", "write"} /\ UNCHANGED <<status, cur>>
        /\ pc' \in {"backup", "prepare", "begin", "write"}
    BY <1>d DEF WriteBackup, WritePrepared, WriteApplying, WriteFile, DeleteFile, Goto
  <2> QED
    BY <1>0, <2>1 DEF Shown, Written, Restored, Uncommitted, Undoable
<1>e. ASSUME NEW m \in ops[cur].moves, MoveFile(m) PROVE Shown'
  <2>1. pc = "write" /\ UNCHANGED <<pc, status, cur>>
    BY <1>e DEF MoveFile
  <2> QED
    BY <1>0, <2>1 DEF Shown, Written, Restored, Uncommitted, Undoable
<1>f. ASSUME RefreshWritten PROVE Shown'
  <2>1. pc = "write" /\ pc' = "save" /\ todo = {} /\ UNCHANGED <<src, status, ops, cur>>
    BY <1>f DEF RefreshWritten, Goto, durable
  <2>2. \A p \in Footprint(cur) : src[p] = ops[cur].post[p]
    BY <2>1 DEF VouchInv, Midway
  <2> QED
    BY <1>0, <2>1, <2>2 DEF Shown, Written, Restored, Uncommitted, Undoable, Footprint
<1>g. ASSUME SaveCommitted PROVE Shown'
  <2>1. pc = "save" /\ pc' = "finish" /\ UNCHANGED <<src, ops, cur>>
    BY <1>g DEF SaveCommitted, Goto
  <2> QED
    BY <1>0, <2>1 DEF Shown, Written, Restored, Uncommitted, Undoable, Footprint
<1>h. ASSUME UndoCurrent, pc \in {"begin", "write", "save", "finish"} PROVE Shown'
  <2>1. /\ pc' = "restore" /\ todo' = Footprint(cur) /\ UNCHANGED <<journal, ops, status, cur>>
        /\ Pending(cur)
    BY <1>h DEF UndoCurrent, durable, SettleInv, OwnSettled
  <2> QED
    BY <2>1 DEF Shown, Written, Restored, Uncommitted, Undoable, Pending, Footprint
<1>i. ASSUME NEW t \in Txs, BeginRollback(t) \/ BeginRecover(t) PROVE Shown'
  <2>1. /\ pc' = "restore" /\ cur' = t /\ todo' = Footprint(t) /\ UNCHANGED <<journal, ops, status>>
        /\ journal[t] # "none" /\ (Pending(t) \/ status[t] = "committed")
    BY <1>i DEF BeginRollback, BeginRecover, Goto, durable, Pending
  <2> QED
    BY <2>1 DEF Shown, Written, Restored, Uncommitted, Undoable, Pending, Footprint
<1>j. ASSUME NEW p \in Paths, RestoreFile(p) PROVE Shown'
  <2>1. pc = "restore" /\ UNCHANGED <<pc, journal, status, ops, cur>>
    BY <1>j DEF RestoreFile
  <2>2. Footprint(cur) \subseteq Paths
    BY <1>0, <2>1, FootprintFacts DEF TypeInv, BusyTyped, Resting
  <2>3. \A r \in Footprint(cur) \ todo' : src'[r] = ops[cur].pre[r]
    BY <1>0, <1>j, <2>1, <2>2, RestoreFileFacts DEF Restored
  <2>4. todo' \subseteq todo
    BY <1>j DEF RestoreFile
  <2> QED
    BY <1>0, <2>1, <2>3, <2>4 DEF Shown, Written, Restored, Uncommitted, Undoable, Pending, Footprint
<1>k. ASSUME MarkRolledBack \/ RefreshRestored PROVE Shown'
  <2>1. /\ pc \in {"restore", "reindex"} /\ pc' \in {"reindex", "close"} /\ todo = {} /\ todo' = {}
        /\ UNCHANGED <<src, ops, cur>>
    BY <1>0, <1>k DEF MarkRolledBack, RefreshRestored, Goto, durable, Restored
  <2> QED
    BY <1>0, <2>1 DEF Shown, Written, Restored, Uncommitted, Undoable, Footprint
<1>l. ASSUME NEW p \in Paths, NEW c \in File, Edit(p, c) PROVE Shown'
  <2>1. /\ UNCHANGED <<pc, journal, status, ops, cur, todo>>
        /\ \A r \in Paths \ {p} : src'[r] = src[r]
        /\ cur # NoTx => p \notin Footprint(cur)
    BY <1>0, <1>l DEF Edit, memory, NoAdversity, TypeOK
  <2>2. pc \notin Resting => cur # NoTx /\ Footprint(cur) \subseteq Paths
    BY <1>0, FootprintFacts, DistinctAssumption DEF TypeInv, BusyTyped
  <2>3. pc \notin Resting => \A r \in Footprint(cur) : src'[r] = src[r]
    BY <2>1, <2>2
  <2> QED
    BY <1>0, <2>1, <2>3 DEF Shown, Written, Restored, Uncommitted, Undoable, Pending, Footprint, Resting
<1>m. ASSUME UNCHANGED vars PROVE Shown'
  BY <1>0, <1>m DEF vars, durable, memory, Shown, Written, Restored, Uncommitted, Undoable, Pending, Footprint
<1> QED
  <2>1. CASE Request
    BY <2>1, <1>a, <1>c, <1>i DEF Request, Reconcile, Stage, CancelStaged, memory, Resting
  <2>2. CASE Step
    <3>1. WriteCommitted \/ SaveRolledBack \/ Restart \/ SaveRecovered \/ EndRecovery \/ (\E t \in Txs : FinalizeMarker(t))
            => pc' \in Resting
      BY DEF WriteCommitted, SaveRolledBack, Restart, SaveRecovered, EndRecovery, FinalizeMarker, Idle, Goto, Resting
    <3> QED
      BY <2>2, <3>1, <1>a, <1>d, <1>e, <1>f, <1>g, <1>h, <1>i, <1>j, <1>k DEF Step, MoveRefused
  <2>3. CASE Trouble
    BY <2>3, <1>a, <1>h DEF Trouble, RaiseEarly, Raise, RaiseInUndo, Crash, Idle, Resting
  <2> QED
    BY <2>1, <2>2, <2>3, <1>l, <1>m DEF Next

LEMMA UndoAlways ==
  ASSUME NoAdversity
  PROVE  Spec => [](TypeInv /\ JournalInv /\ VouchInv /\ SettleInv /\ UndoInv)
<1>1. NoRaces /\ NoTornUndo
  BY DEF NoAdversity, NoRaces, NoTornUndo
<1>2. Init => UndoInv
  BY UndoInit
<1>3. /\ TypeInv /\ JournalInv /\ VouchInv /\ SettleInv /\ SettleInv' /\ UndoInv /\ [Next]_vars
      => UndoInv'
  BY BackupsStep, OneUndoneStep, ShownStep DEF UndoInv, Shown
<1>4. Spec => [](TypeInv /\ VouchInv)
  BY <1>1, VouchAlways
<1>5. Spec => [](TypeInv /\ JournalInv /\ SettleInv)
  BY <1>1, SettleAlways
<1> QED
  BY <1>2, <1>3, <1>4, <1>5, PTL DEF Spec

-----------------------------------------------------------------------------
(* The engine implements AtomicChange                                      *)

EngineInv == TypeInv /\ JournalInv /\ VouchInv /\ SettleInv /\ UndoInv

(* What a reader of the sources is told while u is undone.                 *)
Masking(u) == [p \in Paths |-> IF p \in Footprint(u) THEN ops[u].pre[p] ELSE src[p]]

LEMMA FilesMasked ==
  ASSUME NEW u \in Txs, Undone(u), \A t \in Txs : Undone(t) => t = u
  PROVE  files = Masking(u)
<1>1. ASSUME NEW p \in Paths
      PROVE  files[p] = IF p \in Footprint(u) THEN ops[u].pre[p] ELSE src[p]
  <2>1. CASE p \in Footprint(u)
    <3>1. (CHOOSE t \in Txs : Undone(t) /\ p \in Footprint(t)) = u
      BY <2>1
    <3> QED
      BY <2>1, <3>1 DEF files
  <2>2. CASE p \notin Footprint(u)
    BY <2>2 DEF files
  <2> QED
    BY <2>1, <2>2
<1>2. files = [p \in Paths |-> files[p]]
  BY DEF files
<1> QED
  BY <1>1, <1>2 DEF Masking

(* The sources are what they are when nothing is undone, and also when     *)
(* what is undone is back in its place.                                    *)
LEMMA FilesPlain ==
  ASSUME TypeOK, NEW u, \A t \in Txs : Undone(t) => t = u,
         u \in Txs => ~Undone(u) \/ \A p \in Footprint(u) : src[p] = ops[u].pre[p]
  PROVE  files = src
<1>1. CASE \A t \in Txs : ~Undone(t)
  <2>1. files = [p \in Paths |-> src[p]]
    BY <1>1 DEF files
  <2> QED
    BY <2>1 DEF TypeOK
<1>2. CASE u \in Txs /\ Undone(u)
  <2>1. files = Masking(u)
    BY <1>2, FilesMasked
  <2>2. \A p \in Paths : Masking(u)[p] = src[p]
    BY <1>2 DEF Masking
  <2> QED
    BY <2>1, <2>2 DEF Masking, TypeOK
<1> QED
  BY <1>1, <1>2

(* The same two facts about the state after a step.                        *)
LEMMA FilesMaskedNext ==
  ASSUME NEW u \in Txs, Undone(u)', \A t \in Txs : Undone(t)' => t = u
  PROVE  files' = Masking(u)'
<1>1. ASSUME NEW p \in Paths
      PROVE  files'[p] = IF p \in Footprint(u)' THEN ops'[u].pre[p] ELSE src'[p]
  <2>1. CASE p \in Footprint(u)'
    <3>1. (CHOOSE t \in Txs : Undone(t)' /\ p \in Footprint(t)') = u
      BY <2>1
    <3> QED
      BY <2>1, <3>1 DEF files
  <2>2. CASE p \notin Footprint(u)'
    BY <2>2 DEF files
  <2> QED
    BY <2>1, <2>2
<1>2. files' = [p \in Paths |-> files'[p]]
  BY DEF files
<1> QED
  BY <1>1, <1>2 DEF Masking

LEMMA FilesPlainNext ==
  ASSUME TypeOK', NEW u, \A t \in Txs : Undone(t)' => t = u,
         u \in Txs => ~Undone(u)' \/ \A p \in Footprint(u)' : src'[p] = ops'[u].pre[p]
  PROVE  files' = src'
<1>1. CASE \A t \in Txs : ~Undone(t)'
  <2>1. files' = [p \in Paths |-> src'[p]]
    BY <1>1 DEF files
  <2> QED
    BY <2>1 DEF TypeOK
<1>2. CASE u \in Txs /\ Undone(u)'
  <2>1. files' = Masking(u)'
    BY <1>2, FilesMaskedNext
  <2>2. \A p \in Paths : Masking(u)'[p] = src'[p]
    BY <1>2 DEF Masking
  <2> QED
    BY <2>1, <2>2 DEF Masking, TypeOK
<1> QED
  BY <1>1, <1>2

(* Who is undone, by where the operation is.                               *)
UndoneWhere ==
  /\ pc \in {"idle", "backup", "prepare", "finish"} => \A t \in Txs : ~Undone(t)
  /\ pc \in {"begin", "write", "save", "restore"} => cur \in Txs /\ Undone(cur)
  /\ \A s, t \in Txs : Undone(s) /\ Undone(t) => s = t

(* And what is shown to a reader.                                          *)
FilesWhere ==
  /\ pc \in {"idle", "backup", "prepare", "finish"} => files = src
  /\ pc \in {"begin", "write", "save", "restore"} => files = Masking(cur)

LEMMA UndonePlaces == EngineInv => UndoneWhere /\ FilesWhere
<1> SUFFICES ASSUME EngineInv PROVE UndoneWhere /\ FilesWhere
  OBVIOUS
<1>1. ~Recovering => \A t \in Txs : Undone(t) => t = cur
  BY OwnUndone DEF EngineInv
<1>2. pc = "idle" => cur \notin Txs
  BY DistinctAssumption DEF EngineInv, SettleInv, OwnSettled, Resting
<1>3. pc \in {"backup", "prepare", "finish"} => ~Undone(cur)
  BY DEF EngineInv, SettleInv, OwnSettled, Settled, JournalInv, CommitRecorded, Undone, UndoingCommitted
<1>4. pc \notin Resting => cur \in Txs /\ cur # NoTx
  BY DistinctAssumption DEF EngineInv, TypeInv, BusyTyped
<1>5. pc \in {"begin", "write", "save"} => Undone(cur)
  BY DEF EngineInv, SettleInv, OwnSettled, UndoInv, Uncommitted, Undone
<1>6. pc = "restore" => Undone(cur)
  BY <1>4 DEF EngineInv, SettleInv, OwnSettled, UndoInv, Undoable, Undone, UndoingCommitted, Recovering, Resting
<1>7. UndoneWhere
  BY <1>1, <1>2, <1>3, <1>4, <1>5, <1>6
     DEF UndoneWhere, Recovering, Resting, EngineInv, UndoInv, OneUndone
<1>8. FilesWhere
  BY <1>7, FilesPlain, FilesMasked DEF UndoneWhere, FilesWhere, EngineInv, TypeInv
<1> QED
  BY <1>7, <1>8

LEMMA UndonePlacesNext == EngineInv' => UndoneWhere' /\ FilesWhere'
BY UndonePlaces, PTL

(* What a step shows: a step of AtomicChange, and an edit only when there  *)
(* is one.                                                                 *)
Shows ==
  /\ [Atomic!Next]_(Atomic!vars)
  /\ files' # files => Atomic!Govern \/ \E p \in Paths, c \in File : Edit(p, c)

LEMMA ShowsNothing ==
  ASSUME UNCHANGED <<files, life, ops>>
  PROVE  Shows
BY DEF Shows, Atomic!vars

LEMMA ShowsGovern ==
  ASSUME Atomic!Govern
  PROVE  Shows
BY DEF Shows, Atomic!Next

(* Who is undone stays undone, and the sources change only behind it.      *)
LEMMA FilesKept ==
  ASSUME EngineInv, EngineInv', UNCHANGED ops,
         \A t \in Txs : Undone(t)' <=> Undone(t),
         \A p \in Paths : src'[p] = src[p] \/ \E t \in Txs : Undone(t) /\ p \in Footprint(t)
  PROVE  files' = files
<1>1. CASE \E u \in Txs : Undone(u)
  <2>1. PICK u \in Txs : Undone(u)
    BY <1>1
  <2>2. \A t \in Txs : Undone(t) => t = u
    BY <2>1, UndonePlaces DEF UndoneWhere
  <2>3. files = Masking(u) /\ files' = Masking(u)'
    BY <2>1, <2>2, FilesMasked, FilesMaskedNext
  <2>4. \A p \in Paths : p \notin Footprint(u) => src'[p] = src[p]
    BY <2>2
  <2> QED
    BY <2>3, <2>4 DEF Masking, Footprint
<1>2. CASE \A u \in Txs : ~Undone(u)
  <2>1. files = src /\ files' = src'
    BY <1>2, FilesPlain, FilesPlainNext DEF EngineInv, TypeInv
  <2>2. src' = src
    BY <1>2 DEF EngineInv, TypeInv, TypeOK
  <2> QED
    BY <2>1, <2>2
<1> QED
  BY <1>1, <1>2

LEMMA ShowsMasked ==
  ASSUME EngineInv, EngineInv', UNCHANGED <<status, ops>>,
         \A t \in Txs : (Undone(t)' <=> Undone(t)) /\ (UndoingCommitted(t)' <=> UndoingCommitted(t)),
         \A p \in Paths : src'[p] = src[p] \/ \E t \in Txs : Undone(t) /\ p \in Footprint(t)
  PROVE  Shows
<1>1. life' = life
  BY DEF life
<1> QED
  BY <1>1, FilesKept, ShowsNothing

(* Steps without a durable effect: only what is being undone could change. *)
LEMMA ShowsQuiet ==
  ASSUME EngineInv, EngineInv', UNCHANGED <<src, journal, status, ops>>,
         \A t \in Txs : UndoingCommitted(t)' <=> UndoingCommitted(t)
  PROVE  Shows
<1>1. \A t \in Txs : Undone(t)' <=> Undone(t)
  BY DEF Undone, Pending
<1> QED
  BY <1>1, ShowsMasked

(* The journal of the one transaction that could be undone starts or stops *)
(* to matter while the sources hold what an undo of it would put back.     *)
LEMMA ShowsInPlace ==
  ASSUME EngineInv, EngineInv', UNCHANGED <<src, ops, life>>, NEW u \in Txs,
         \A t \in Txs : Undone(t) \/ Undone(t)' => t = u,
         \A p \in Footprint(u) : src[p] = ops[u].pre[p]
  PROVE  Shows
<1>1. files = src
  BY FilesPlain DEF EngineInv, TypeInv
<1>2. \A p \in Footprint(u)' : src'[p] = ops'[u].pre[p]
  BY DEF Footprint
<1>3. files' = src'
  BY <1>2, FilesPlainNext DEF EngineInv, TypeInv
<1> QED
  BY <1>1, <1>3, ShowsNothing

(* A client stages a transaction.                                          *)
LEMMA ShowsStage ==
  ASSUME EngineInv, EngineInv', NEW t \in Txs, NEW o \in Plans, Stage(t, o)
  PROVE  Shows
<1>1. pc = "idle" /\ pc' = "idle" /\ src' = src
  BY DEF Stage, memory
<1>2. \A u \in Txs : ~Undone(u) /\ ~Undone(u)'
  <2>1. \A u \in Txs : ~Undone(u) /\ ~Pending(u)
    BY <1>1, UndonePlaces, DistinctAssumption DEF UndoneWhere, EngineInv, SettleInv, OthersSettled, OwnSettled,
       Recovering, Settled, Resting
  <2> QED
    BY <1>1, <2>1 DEF Stage, Undone, UndoingCommitted, Pending
<1>3. files = src /\ files' = src'
  BY <1>2, FilesPlain, FilesPlainNext DEF EngineInv, TypeInv
<1>4. life = status /\ life' = status'
  BY <1>1 DEF EngineInv, TypeInv, TypeOK, life, UndoingCommitted
<1>5. Atomic!Stage(t, o)
  BY <1>1, <1>3, <1>4 DEF Stage, Atomic!Stage, Atomic!Matches
<1> QED
  BY <1>5, ShowsGovern DEF Atomic!Govern

(* The record of an apply is saved: the transaction takes effect.          *)
LEMMA ShowsCommit ==
  ASSUME EngineInv, EngineInv', SaveCommitted
  PROVE  Shows
<1>1. /\ pc = "save" /\ pc' = "finish" /\ UNCHANGED <<src, ops, cur>>
      /\ status' = [status EXCEPT ![cur] = "committed"]
  BY DEF SaveCommitted, Goto
<1>2. cur \in Txs /\ status[cur] \in {"staged", "rolled-back"}
  BY <1>1 DEF EngineInv, TypeInv, TypeOK, BusyTyped, Resting, UndoInv, Uncommitted
<1>3. ops[cur] \in Plans
  BY <1>2, FootprintFacts DEF EngineInv, TypeInv
<1>4. files = Masking(cur) /\ files' = src
  BY <1>1, UndonePlaces, UndonePlacesNext DEF FilesWhere
<1>5. \A p \in Footprint(cur) : src[p] = ops[cur].post[p]
  BY <1>1 DEF EngineInv, UndoInv, Written
<1>6. Atomic!Matches(ops[cur].pre)
  BY <1>2, <1>3, <1>4, PlanFacts DEF Atomic!Matches, Masking, Footprint
<1>7. files' = Atomic!Overlay(ops[cur].post)
  <2>1. DOMAIN ops[cur].post = Footprint(cur) /\ Footprint(cur) \subseteq Paths
    BY <1>3, PlanFacts DEF Footprint
  <2>2. \A p \in Paths : src[p] = Atomic!Overlay(ops[cur].post)[p]
    BY <1>4, <1>5, <2>1 DEF Atomic!Overlay, Masking
  <2> QED
    BY <1>4, <2>2 DEF Atomic!Overlay, EngineInv, TypeInv, TypeOK
<1>8. life[cur] = status[cur] /\ life' = [life EXCEPT ![cur] = "committed"]
  <2>1. life = [t \in Txs |-> status[t]] /\ life' = [t \in Txs |-> status'[t]]
    BY <1>1 DEF life, UndoingCommitted
  <2> QED
    BY <1>1, <1>2, <2>1 DEF EngineInv, TypeInv, TypeOK
<1>9. Atomic!Commit(cur)
  BY <1>1, <1>2, <1>6, <1>7, <1>8 DEF Atomic!Commit
<1> QED
  BY <1>2, <1>9, ShowsGovern DEF Atomic!Govern

(* A rollback is decided, or a commit raises after its record was saved:   *)
(* the transaction goes away at once.                                      *)
LEMMA ShowsRevert ==
  ASSUME EngineInv, EngineInv', NEW u \in Txs, UNCHANGED <<src, status, ops>>,
         pc \in {"idle", "finish"}, pc' = "restore", mode' # "recover", cur' = u,
         status[u] = "committed",
         \A p \in Footprint(u) : src[p] = ops[u].post[p]
  PROVE  Shows
<1>1. ops[u] \in Plans
  BY FootprintFacts DEF EngineInv, TypeInv
<1>2. files = src /\ files' = Masking(u)'
  BY UndonePlaces, UndonePlacesNext DEF FilesWhere
<1>3. Atomic!Matches(ops[u].post)
  BY <1>1, <1>2, PlanFacts DEF Atomic!Matches, Footprint
<1>4. files' = Atomic!Overlay(ops[u].pre)
  BY <1>2 DEF Atomic!Overlay, Masking, Footprint
<1>5. life[u] = "committed" /\ life' = [life EXCEPT ![u] = "rolled-back"]
  <2>1. life = [t \in Txs |-> status[t]]
    BY DEF life, UndoingCommitted
  <2>2. life' = [t \in Txs |-> IF t = u THEN "rolled-back" ELSE status[t]]
    BY DEF life, UndoingCommitted
  <2> QED
    BY <2>1, <2>2
<1>6. Atomic!Revert(u)
  BY <1>3, <1>4, <1>5 DEF Atomic!Revert
<1> QED
  BY <1>6, ShowsGovern DEF Atomic!Govern

(* A transaction that is not committed is recorded as rolled back.         *)
LEMMA ShowsAbort ==
  ASSUME EngineInv, EngineInv', NEW u \in Txs, UNCHANGED <<src, journal, ops>>, ~Pending(u),
         status[u] \in {"staged", "rolled-back"},
         status' = [status EXCEPT ![u] = "rolled-back"],
         \A t \in Txs : ~UndoingCommitted(t) /\ ~UndoingCommitted(t)'
  PROVE  Shows
<1>1. \A t \in Txs \ {u} : status'[t] = status[t]
  BY DEF EngineInv, TypeInv, TypeOK
<1>2. \A t \in Txs : Undone(t)' <=> Undone(t)
  BY <1>1 DEF Undone, Pending
<1>3. files' = files
  BY <1>2, FilesKept
<1>4. life[u] = status[u] /\ life' = [life EXCEPT ![u] = "rolled-back"]
  <2>1. life = [t \in Txs |-> status[t]] /\ life' = [t \in Txs |-> status'[t]]
    BY DEF life
  <2> QED
    BY <2>1 DEF EngineInv, TypeInv, TypeOK
<1>5. Atomic!Abort(u)
  BY <1>3, <1>4 DEF Atomic!Abort
<1> QED
  BY <1>5, ShowsGovern DEF Atomic!Govern

(* Another program writes a file: it is seen at once, unless an undo is    *)
(* about to write over it.                                                 *)
LEMMA ShowsEdit ==
  ASSUME EngineInv, EngineInv', NEW p \in Paths, NEW c \in File, Edit(p, c)
  PROVE  Shows
<1>1. /\ src' = [src EXCEPT ![p] = c] /\ UNCHANGED <<journal, status, ops, pc, mode, cur>>
  BY DEF Edit, memory
<1>2. \A t \in Txs : (Undone(t)' <=> Undone(t)) /\ (UndoingCommitted(t)' <=> UndoingCommitted(t))
  BY <1>1 DEF Undone, UndoingCommitted, Pending
<1>3. CASE \E t \in Txs : Undone(t) /\ p \in Footprint(t)
  BY <1>1, <1>2, <1>3, ShowsMasked DEF EngineInv, TypeInv, TypeOK
<1>4. CASE \A t \in Txs : Undone(t) => p \notin Footprint(t)
  <2>1. files' = [files EXCEPT ![p] = c]
    <3>1. CASE \E u \in Txs : Undone(u)
      <4>1. PICK u \in Txs : Undone(u)
        BY <3>1
      <4>2. files = Masking(u) /\ files' = Masking(u)'
        BY <1>2, <4>1, UndonePlaces, FilesMasked, FilesMaskedNext DEF UndoneWhere
      <4> QED
        BY <1>1, <1>4, <4>1, <4>2 DEF Masking, Footprint, EngineInv, TypeInv, TypeOK
    <3>2. CASE \A u \in Txs : ~Undone(u)
      <4>1. files = src /\ files' = src'
        BY <1>2, <3>2, FilesPlain, FilesPlainNext DEF EngineInv, TypeInv
      <4> QED
        BY <1>1, <4>1
    <3> QED
      BY <3>1, <3>2
  <2>2. life' = life
    BY <1>1, <1>2 DEF life
  <2>3. Atomic!Edit(p, c)
    BY <1>1, <2>1, <2>2 DEF Atomic!Edit
  <2> QED
    BY <2>3 DEF Shows, Atomic!Next, Atomic!File, File
<1> QED
  BY <1>3, <1>4

LEMMA StepShows ==
  ASSUME NoAdversity, EngineInv, EngineInv', [Next]_vars
  PROVE  Shows
<1> DEFINE Undoing == {"restore", "reindex", "close"}
<1>0. /\ UndoneWhere /\ UndoneWhere'
      /\ pc \notin Undoing => \A t \in Txs : ~UndoingCommitted(t)
      /\ pc' \notin Undoing => \A t \in Txs : ~UndoingCommitted(t)'
  BY UndonePlaces, UndonePlacesNext DEF UndoingCommitted
<1>1. pc \notin Resting => cur \in Txs /\ status[cur] \in {"staged", "committed", "rolled-back"}
  BY DEF EngineInv, TypeInv, TypeOK, BusyTyped
<1>a. ASSUME UNCHANGED <<src, journal, status, ops>>, pc \notin Undoing, pc' \notin Undoing PROVE Shows
  BY <1>0, <1>a, ShowsQuiet
<1>b. ASSUME NEW t \in Txs, NEW o \in Plans, Stage(t, o) PROVE Shows
  BY <1>b, ShowsStage
<1>c. ASSUME NEW t \in Txs, CancelStaged(t) PROVE Shows
  <2>1. pc = "idle" /\ pc' = "idle" /\ UNCHANGED <<src, journal, ops>>
    BY <1>c DEF CancelStaged, memory
  <2>2. ~Pending(t)
    BY <2>1, DistinctAssumption DEF EngineInv, SettleInv, OthersSettled, OwnSettled, Recovering, Settled, Resting
  <2> QED
    BY <1>0, <1>c, <2>1, <2>2, ShowsAbort DEF CancelStaged
<1>d. ASSUME NEW t \in Txs, BeginRollback(t) PROVE Shows
  <2>1. /\ pc = "idle" /\ pc' = "restore" /\ mode' = "rollback" /\ cur' = t
        /\ status[t] = "committed" /\ UNCHANGED <<src, status, ops>>
    BY <1>d DEF BeginRollback, Goto, durable
  <2>2. t \in atCommit /\ index = Compiled(Paths)
    BY <1>d DEF BeginRollback, Refresh, StillHead
  <2>3. index = src
    BY <2>2 DEF Compiled, EngineInv, TypeInv, TypeOK
  <2>4. \A p \in Footprint(t) : src[p] = ops[t].post[p]
    BY <2>1, <2>2, <2>3 DEF EngineInv, VouchInv, CommitVouches
  <2> QED
    BY <2>1, <2>4, ShowsRevert
<1>e. ASSUME WritePrepared PROVE Shows
  <2>1. pc = "prepare" /\ pc' = "begin" /\ UNCHANGED <<src, status, ops, cur>>
    BY <1>e DEF WritePrepared, Goto
  <2>2. cur \in Txs /\ \A p \in Footprint(cur) : src[p] = ops[cur].pre[p]
    BY <1>1, <2>1 DEF EngineInv, VouchInv, Before, Resting
  <2>3. \A t \in Txs : Undone(t) \/ Undone(t)' => t = cur
    BY <1>0, <2>1 DEF UndoneWhere
  <2>4. life' = life
    BY <1>0, <2>1 DEF life
  <2> QED
    BY <2>1, <2>2, <2>3, <2>4, ShowsInPlace
<1>f. ASSUME WriteApplying PROVE Shows
  <2>1. pc = "begin" /\ pc' = "write" /\ UNCHANGED <<src, status, ops, cur>>
    BY <1>f DEF WriteApplying, Goto
  <2>2. \A t \in Txs : Undone(t)' <=> Undone(t)
    BY <1>0, <2>1 DEF UndoneWhere
  <2> QED
    BY <1>0, <2>1, <2>2, ShowsMasked
<1>g. ASSUME pc \in {"write", "restore"}, UNCHANGED <<pc, mode, cur, journal, status, ops>>,
             \A p \in Paths : src'[p] = src[p] \/ p \in Footprint(cur)
      PROVE  Shows
  <2>1. \A t \in Txs : (Undone(t)' <=> Undone(t)) /\ (UndoingCommitted(t)' <=> UndoingCommitted(t))
    BY <1>g DEF Undone, UndoingCommitted, Pending
  <2>2. cur \in Txs /\ Undone(cur)
    BY <1>0, <1>g DEF UndoneWhere
  <2> QED
    BY <1>g, <2>1, <2>2, ShowsMasked
<1>h. ASSUME NEW p \in Paths, WriteFile(p) \/ DeleteFile(p) PROVE Shows
  <2>1. p \in Footprint(cur) /\ \A r \in Paths : src'[r] = src[r] \/ r = p
    BY <1>h DEF WriteFile, DeleteFile, Outputs, Deletes, EngineInv, TypeInv, TypeOK
  <2> QED
    BY <1>g, <1>h, <2>1 DEF WriteFile, DeleteFile
<1>i. ASSUME NEW m \in ops[cur].moves, MoveFile(m) PROVE Shows
  <2>1. m[1] \in Footprint(cur) /\ m[2] \in Footprint(cur)
    BY <1>1, <1>i, MoveFacts DEF MoveFile, Resting, EngineInv, TypeInv
  <2>2. \A r \in Paths : src'[r] = src[r] \/ r = m[1] \/ r = m[2]
    BY <1>i DEF MoveFile, EngineInv, TypeInv, TypeOK
  <2> QED
    BY <1>g, <1>i, <2>1, <2>2 DEF MoveFile
<1>j. ASSUME NEW p \in Paths, RestoreFile(p) PROVE Shows
  <2>1. pc = "restore" /\ p \in todo /\ \A r \in Paths : src'[r] = src[r] \/ r = p
    BY <1>j DEF RestoreFile, EngineInv, TypeInv, TypeOK
  <2>2. todo \subseteq Footprint(cur)
    BY <2>1 DEF EngineInv, UndoInv, Restored
  <2> QED
    BY <1>g, <1>j, <2>1, <2>2 DEF RestoreFile
<1>k. ASSUME SaveCommitted PROVE Shows
  BY <1>k, ShowsCommit
<1>l. ASSUME WriteCommitted PROVE Shows
  <2>1. pc = "finish" /\ pc' = "idle" /\ UNCHANGED <<src, status, ops>>
    BY <1>l DEF WriteCommitted, Idle
  <2>2. \A t \in Txs : Undone(t)' <=> Undone(t)
    BY <1>0, <2>1 DEF UndoneWhere
  <2> QED
    BY <1>0, <2>1, <2>2, ShowsMasked
<1>m. ASSUME UndoCurrent, pc \in {"begin", "write", "save"} PROVE Shows
  <2>1. pc' = "restore" /\ UNCHANGED <<src, journal, status, ops, cur>>
    BY <1>m DEF UndoCurrent, durable
  <2>2. status[cur] # "committed"
    BY <1>m, <1>0 DEF UndoneWhere, Undone, UndoingCommitted
  <2>3. \A t \in Txs : ~UndoingCommitted(t)'
    BY <2>1, <2>2 DEF UndoingCommitted
  <2> QED
    BY <1>0, <1>m, <2>1, <2>3, ShowsQuiet
<1>n. ASSUME UndoCurrent, pc = "finish" PROVE Shows
  <2>1. pc' = "restore" /\ mode' = "undo" /\ UNCHANGED <<src, status, ops, cur>>
    BY <1>n DEF UndoCurrent, durable
  <2>2. cur \in Txs /\ status[cur] = "committed" /\ \A p \in Footprint(cur) : src[p] = ops[cur].post[p]
    BY <1>1, <1>n DEF Resting, EngineInv, JournalInv, CommitRecorded, UndoInv, Written
  <2> QED
    BY <1>n, <2>1, <2>2, ShowsRevert
<1>o. ASSUME MarkRolledBack PROVE Shows
  <2>1. /\ pc = "restore" /\ todo = {} /\ UNCHANGED <<src, status, ops, mode, cur>>
        /\ pc' = IF mode = "recover" THEN "close" ELSE "reindex"
        /\ cur \in Txs
    BY <1>1, <1>o DEF MarkRolledBack, Resting
  <2>2. \A p \in Footprint(cur) : src[p] = ops[cur].pre[p]
    BY <2>1 DEF EngineInv, UndoInv, Restored
  <2>3. \A t \in Txs : UndoingCommitted(t)' <=> UndoingCommitted(t)
    BY <2>1 DEF UndoingCommitted
  <2>4. \A t \in Txs : Undone(t)' => Undone(t)
    <3>1. \A t \in Txs : journal'[t] = journal[t] \/ journal'[t] = "rolled-back"
      BY <1>o DEF MarkRolledBack, EngineInv, TypeInv, TypeOK
    <3> QED
      BY <2>1, <2>3, <3>1 DEF Undone, Pending
  <2>5. \A t \in Txs : Undone(t) \/ Undone(t)' => t = cur
    BY <1>0, <2>1, <2>4 DEF UndoneWhere
  <2>6. life' = life
    BY <2>1, <2>3 DEF life
  <2> QED
    BY <2>1, <2>2, <2>5, <2>6, ShowsInPlace
<1>p. ASSUME RefreshRestored PROVE Shows
  <2>1. /\ pc = "reindex" /\ pc' = "close" /\ UNCHANGED <<src, journal, status, ops, mode, cur>>
    BY <1>p DEF RefreshRestored, Goto, durable
  <2>2. \A t \in Txs : UndoingCommitted(t)' <=> UndoingCommitted(t)
    BY <2>1 DEF UndoingCommitted
  <2> QED
    BY <2>1, <2>2, ShowsQuiet
<1>q. ASSUME SaveRolledBack \/ SaveRecovered PROVE Shows
  <2>1. /\ pc = "close" /\ pc' \notin Undoing /\ UNCHANGED <<src, journal, ops>>
        /\ status' = [status EXCEPT ![cur] = "rolled-back"] /\ cur \in Txs
    BY <1>1, <1>q DEF SaveRolledBack, SaveRecovered, Goto, Idle, Resting
  <2>2. ~Pending(cur)
    BY <2>1 DEF EngineInv, JournalInv, UndoMarked, Pending
  <2>3. CASE mode = "recover" \/ status[cur] # "committed"
    <3>1. status[cur] # "committed"
      BY <2>1, <2>3, DistinctAssumption DEF EngineInv, SettleInv, OwnSettled, Recovering
    <3>2. \A t \in Txs : ~UndoingCommitted(t)
      BY <3>1 DEF UndoingCommitted
    <3>3. status[cur] \in {"staged", "rolled-back"}
      BY <1>1, <2>1, <3>1 DEF Resting
    <3> QED
      BY <1>0, <2>1, <2>2, <3>2, <3>3, ShowsAbort
  <2>4. CASE mode # "recover" /\ status[cur] = "committed"
    <3>1. pc' = "idle"
      BY <1>q, <2>4 DEF SaveRolledBack, SaveRecovered, Idle
    <3>2. \A t \in Txs : Undone(t) \/ Undone(t)' => t = cur
      BY <1>0, <2>1, <2>4, <3>1, OwnUndone DEF UndoneWhere, EngineInv, Recovering
    <3>3. \A p \in Footprint(cur) : src[p] = ops[cur].pre[p]
      BY <2>1 DEF EngineInv, UndoInv, Restored
    <3>4. \A t \in Txs : UndoingCommitted(t) <=> t = cur
      BY <2>1, <2>4 DEF UndoingCommitted
    <3>5. life' = life
      BY <1>0, <2>1, <3>4 DEF life, EngineInv, TypeInv, TypeOK
    <3> QED
      BY <2>1, <3>2, <3>3, <3>5, ShowsInPlace
  <2> QED
    BY <2>3, <2>4
<1>r. ASSUME Crash PROVE Shows
  <2>1. pc' = "down" /\ UNCHANGED <<src, journal, status, ops>> /\ \A t \in Txs : ~UndoingCommitted(t)
    BY <1>r DEF Crash, durable, NoAdversity
  <2> QED
    BY <1>0, <2>1, ShowsQuiet
<1>s. ASSUME NEW t \in Txs, FinalizeMarker(t) PROVE Shows
  <2>1. /\ pc = "scan" /\ UNCHANGED <<src, status, ops, pc>> /\ status[t] = "committed"
        /\ \A u \in Txs \ {t} : journal'[u] = journal[u]
    BY <1>s DEF FinalizeMarker, EngineInv, TypeInv, TypeOK
  <2>2. \A u \in Txs : Undone(u)' <=> Undone(u)
    BY <1>0, <2>1 DEF Undone, Pending
  <2> QED
    BY <1>0, <2>1, <2>2, ShowsMasked
<1>t. ASSUME NEW t \in Txs, BeginRecover(t) PROVE Shows
  <2>1. pc = "scan" /\ mode' = "recover" /\ UNCHANGED <<src, journal, status, ops>>
    BY <1>t DEF BeginRecover, Goto, durable
  <2>2. \A u \in Txs : ~UndoingCommitted(u)'
    BY <2>1 DEF UndoingCommitted
  <2> QED
    BY <1>0, <2>1, <2>2, ShowsQuiet
<1>u. ASSUME UNCHANGED vars PROVE Shows
  <2>1. \A t \in Txs : (UndoingCommitted(t)' <=> UndoingCommitted(t))
    BY <1>u DEF vars, durable, memory, UndoingCommitted
  <2> QED
    BY <1>u, <2>1, ShowsQuiet DEF vars, durable
<1> QED
  <2>1. CASE Request
    BY <2>1, <1>a, <1>b, <1>c, <1>d DEF Request, Reconcile, BeginApply, Goto, durable, memory
  <2>2. CASE Step
    <3>1. WriteBackup \/ RefreshWritten \/ Restart \/ EndRecovery => Shows
      BY <1>a DEF WriteBackup, RefreshWritten, Restart, EndRecovery, Goto, durable
    <3> QED
      BY <2>2, <3>1, <1>e, <1>f, <1>h, <1>i, <1>j, <1>k, <1>l, <1>m, <1>o, <1>p, <1>q, <1>s, <1>t
         DEF Step, MoveRefused
  <2>3. CASE Trouble
    BY <2>3, <1>a, <1>m, <1>n, <1>r DEF Trouble, RaiseEarly, Raise, RaiseInUndo, Idle, durable, NoAdversity
  <2> QED
    BY <2>1, <2>2, <2>3, <1>u, ShowsEdit DEF Next

(* Governed mutation is all or nothing: whatever the plans are, a          *)
(* transaction takes effect in one step and goes away in one step, across  *)
(* crashes and exceptions anywhere but inside the undo of a commit, and    *)
(* nothing that an undo writes looks like the work of another program.     *)
THEOREM EngineImplements == ASSUME NoAdversity PROVE Spec => AllOrNothing
<1>1. Init => Atomic!Init
  <2> SUFFICES ASSUME Init PROVE Atomic!Init
    OBVIOUS
  <2>1. TypeOK /\ \A t \in Txs : ~Undone(t) /\ ~UndoingCommitted(t)
    BY TypeInit DEF TypeInv, Init, Undone, UndoingCommitted, Pending
  <2>2. files = src
    BY <2>1, FilesPlain
  <2>3. life = status
    BY <2>1 DEF life, Init
  <2> QED
    BY <2>2, <2>3 DEF Init, Atomic!Init, Atomic!File, File
<1>2. EngineInv /\ EngineInv' /\ [Next]_vars => Shows
  BY StepShows
<1>3. Spec => []EngineInv
  BY UndoAlways DEF EngineInv
<1>4. Shows => [Atomic!Next]_(Atomic!vars)
  BY DEF Shows
<1>5. Shows => [files' # files => Atomic!Govern \/ \E p \in Paths, c \in File : Edit(p, c)]_vars
  BY DEF Shows
<1> QED
  BY <1>1, <1>2, <1>3, <1>4, <1>5, PTL DEF Spec, AllOrNothing, Atomic!Spec

=============================================================================
