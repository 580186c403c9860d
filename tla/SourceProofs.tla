---------------------------- MODULE SourceProofs ----------------------------
(***************************************************************************)
(* What holds of the components of SourceServices for any files, texts,    *)
(* writes and bounds, each proved of its instance, and side by side.       *)
(***************************************************************************)
EXTENDS SourceServices, Integers, Sequences, TLAPS

-----------------------------------------------------------------------------
(***************************************************************************)
(* What is read of a file is what was indexed of it, and a deep refresh    *)
(* heals, for any files and any number of writes, reads and revisions.     *)
(*                                                                         *)
(* Why it holds: every write has a change time of its own, so a file with  *)
(* the time on record has the text on record; a synchronization works on   *)
(* the rows it started from, and has read of each file what the authority  *)
(* still has when it takes the fingerprints.                               *)
(***************************************************************************)
(* What the theorems assume of the constants. *)
SyncSensible == NoText \notin Texts /\ MaxClock \in Nat /\ MaxQueue \in Nat \ {0}

SyncNoLateEdit == "late edit" \notin SourceHazards
SyncNoEarlyPoll == "early poll" \notin SourceHazards

SyncContents == Texts \cup {NoText}
SyncClocks == 0 .. MaxClock
SyncFiles == [text : SyncContents, mtime : SyncClocks, ctime : SyncClocks]
SyncHalves == [from : Paths, to : Paths, text : SyncContents]
SyncTrees == [Paths -> SyncContents]
SyncRecordings == [tree : SyncTrees, changed : SUBSET Paths]
SyncModes == {"idle", "open", "reconcile", "deep", "targeted"}
SyncRuns == [mode : SyncModes, sync : SUBSET Paths, hash : SUBSET Paths, paths : SUBSET Paths,
         work : [Paths -> Sync!Entries], calm : BOOLEAN]
SyncWatches == [on : BOOLEAN, snapshot : [Paths -> SyncClocks], queue : Seq(SUBSET Paths),
  dropped : BOOLEAN]
SyncReading == [at : {"read"}, path : Paths, expected : SyncClocks, before : SyncClocks]
SyncChecking == [at : {"check"}, path : Paths, expected : SyncClocks, before : SyncClocks,
  text : SyncContents]
SyncReaders == {Sync!NoRead} \cup SyncReading \cup SyncChecking

SyncTypeInv ==
  /\ syncKind \in {"none", "shared", "mirror"} /\ syncAuth \in [Paths -> SyncFiles]
  /\ syncMirror \in SyncTrees
  /\ syncClock \in SyncClocks /\ syncHalf \in SUBSET SyncHalves
  /\ syncIndex \in [Paths -> Sync!Entries] /\ syncPrints \in [Paths -> SyncClocks]
  /\ syncCompiler \in Sync!Compilers /\ syncKnown \in Sync!Compilers /\ syncRun \in SyncRuns
  /\ syncRun.sync \subseteq syncRun.paths /\ syncRun.hash \subseteq syncRun.paths
  /\ syncRevisions \in Seq(SyncRecordings) /\ syncReader \in SyncReaders
  /\ syncWatch \in SyncWatches /\ Len(syncWatch.queue) <= MaxQueue

(* Change times: none is given twice, and a file has one if it exists.     *)
SyncClockInv ==
  \A p \in Paths :
    /\ syncAuth[p].ctime <= syncClock /\ syncPrints[p] <= syncClock
    /\ syncAuth[p].text = NoText => syncAuth[p] = Sync!Absent
    /\ syncAuth[p].text # NoText => syncAuth[p].ctime # 0

SyncIndexInv ==
  /\ \A p \in Paths : syncIndex[p].text = NoText => syncIndex[p] = Sync!NoEntry
  /\ SyncNoLateEdit => Sync!PrintVouches /\ \A p \in Paths : syncIndex[p].text # NoText
     => syncPrints[p] # 0
  /\ SyncNoEarlyPoll => Sync!ToolchainVouches

SyncIndexing == syncRun.mode \in {"deep", "targeted"}

(* What a synchronization has worked out so far.                           *)
SyncWorkOf(p) ==
  /\ syncRun.work[p].text = NoText => syncRun.work[p] = Sync!NoEntry
  /\ p \notin syncRun.paths \/ p \in syncRun.hash => syncRun.work[p] = syncIndex[p]
  /\ p \in syncRun.paths /\ p \notin syncRun.hash =>
       /\ syncRun.sync = {}
       /\ syncRun.work[p] # Sync!NoEntry => syncRun.work[p].built = syncCompiler
       /\ syncRun.calm \/ SyncNoLateEdit => syncRun.work[p].text = syncAuth[p].text
  /\ syncKind = "mirror" /\ p \in syncRun.paths /\ p \notin syncRun.sync
     /\ (syncRun.calm \/ SyncNoLateEdit) =>
       syncMirror[p] = syncAuth[p].text

SyncRunInv ==
  /\ SyncIndexing => \A p \in Paths : SyncWorkOf(p)
  /\ syncRun.mode = "deep" => syncRun.paths = Paths
  /\ syncRun.mode = "targeted" /\ SyncNoEarlyPoll => syncKnown = syncCompiler
  /\ syncKind = "none" => syncRun.mode = "idle" /\ syncHalf = {} /\ syncReader = Sync!NoRead
  /\ syncHalf # {} => syncRun.mode = "idle"

(* While a range is read the rows stay as they are.                        *)
SyncReaderInv ==
  syncReader # Sync!NoRead =>
    /\ syncRun.mode = "idle" /\ syncReader.expected = syncPrints[syncReader.path]
    /\ syncIndex[syncReader.path] # Sync!NoEntry /\ syncReader.before # 0
    /\ syncReader.before <= syncClock
    /\ syncReader.at = "check" /\ syncReader.before = syncAuth[syncReader.path].ctime =>
         syncReader.text = syncAuth[syncReader.path].text

SyncHistoryInv ==
  /\ syncRevisions # <<>> => syncRevisions[Len(syncRevisions)].tree = Sync!Tree(syncIndex)
  /\ Sync!DiffSinceComplete

SyncInv == SyncTypeInv /\ SyncClockInv /\ SyncIndexInv /\ SyncRunInv /\ SyncReaderInv
  /\ SyncHistoryInv

LEMMA SyncRunFacts ==
  ASSUME NEW r \in SyncRuns
  PROVE  /\ r.mode \in SyncModes /\ r.sync \in SUBSET Paths /\ r.hash \in SUBSET Paths
         /\ r.paths \in SUBSET Paths /\ r.work \in [Paths -> Sync!Entries] /\ r.calm \in BOOLEAN
BY DEF SyncRuns

LEMMA SyncIdleFacts == Sync!Idle \in SyncRuns /\ Sync!Idle.mode = "idle" /\ Sync!Idle.sync = {}
  /\ Sync!Idle.hash = {} /\ Sync!Idle.paths = {}
<1>1. Sync!NoEntry \in Sync!Entries
  BY DEF Sync!NoEntry, Sync!Entries, Sync!Compilers
<1> QED  BY <1>1 DEF Sync!Idle, SyncRuns, SyncModes

LEMMA SyncFileFacts ==
  ASSUME NEW f \in SyncFiles
  PROVE  f.text \in SyncContents /\ f.mtime \in SyncClocks /\ f.ctime \in SyncClocks
BY DEF SyncFiles

LEMMA SyncAbsentFacts == ASSUME SyncSensible
  PROVE Sync!Absent \in SyncFiles /\ Sync!Absent.text = NoText /\ Sync!Absent.ctime = 0
BY DEF SyncSensible, Sync!Absent, SyncFiles, SyncContents, SyncClocks

LEMMA SyncEntryFacts ==
  /\ Sync!NoEntry.text = NoText
  /\ \A e \in Sync!Entries : e.text \in SyncContents /\ e.built \in Sync!Compilers
BY DEF Sync!NoEntry, Sync!Entries, SyncContents

(* A synchronization that starts works on the rows as they are. *)
LEMMA SyncStartFacts ==
  ASSUME SyncInv, NEW mode \in SyncModes, NEW paths \in SUBSET Paths,
    Sync!Started(syncKind', mode, paths),
         UNCHANGED <<syncIndex, syncKnown, syncCompiler>>, syncReader' = Sync!NoRead,
           syncHalf' = {}, syncKind' # "none",
         mode = "deep" => paths = Paths,
         mode = "targeted" /\ SyncNoEarlyPoll => syncKnown = syncCompiler
  PROVE  SyncRunInv' /\ syncRun' \in SyncRuns /\ syncRun'.sync \subseteq syncRun'.paths
    /\ syncRun'.hash \subseteq syncRun'.paths
<1> DEFINE s == IF syncKind' = "mirror" THEN paths ELSE {}
           h == IF mode \in {"deep", "targeted"} THEN paths ELSE {}
<1>1. syncRun' = [mode |-> mode, paths |-> paths, work |-> syncIndex, calm |-> TRUE, sync |-> s,
      hash |-> h]
  BY DEF Sync!Started
<1>2. s \in SUBSET Paths /\ h \in SUBSET Paths /\ s \subseteq paths /\ h \subseteq paths
  OBVIOUS
<1>3. syncIndex \in [Paths -> Sync!Entries]
  BY DEF SyncInv, SyncTypeInv
<1>4. syncRun' \in SyncRuns
  BY <1>1, <1>2, <1>3 DEF SyncRuns
<1>5. /\ syncRun'.mode = mode /\ syncRun'.paths = paths /\ syncRun'.work = syncIndex
      /\ syncRun'.sync = s /\ syncRun'.hash = h
  BY <1>1
<1>6. ASSUME NEW p \in Paths, mode \in {"deep", "targeted"}
      PROVE  SyncWorkOf(p)'
  BY <1>5, <1>6 DEF SyncWorkOf, SyncInv, SyncIndexInv
<1>7. SyncRunInv'
  BY <1>5, <1>6 DEF SyncRunInv, SyncIndexing
<1> QED  BY <1>2, <1>4, <1>5, <1>7

(* Once it is idle nothing is claimed of it. *)
LEMMA SyncStopFacts ==
  ASSUME SyncInv, syncRun' = Sync!Idle, UNCHANGED <<syncKind, syncHalf, syncReader>>
  PROVE  SyncRunInv' /\ syncRun' \in SyncRuns /\ syncRun'.sync \subseteq syncRun'.paths
    /\ syncRun'.hash \subseteq syncRun'.paths
BY SyncIdleFacts DEF SyncRunInv, SyncIndexing, SyncInv

(* Files that are written have a new change time. *)
LEMMA SyncWrittenFacts ==
  ASSUME SyncSensible, SyncInv, syncClock' = syncClock + 1, syncClock' \in SyncClocks,
    UNCHANGED <<syncIndex, syncPrints, syncKnown>>,
         \A p \in Paths :
           \/ syncAuth'[p] = syncAuth[p] \/ syncAuth'[p] = Sync!Absent
           \/ syncAuth'[p].ctime = syncClock + 1 /\ syncAuth'[p].text # NoText
  PROVE  SyncClockInv' /\ SyncIndexInv'
<1>1. syncClock \in Nat /\ syncClock' \in Nat /\ syncClock' = syncClock + 1
  BY DEF SyncInv, SyncTypeInv, SyncClocks, SyncSensible
<1>2. ASSUME NEW p \in Paths
      PROVE  /\ syncAuth'[p].ctime <= syncClock' /\ syncPrints[p] <= syncClock'
             /\ syncAuth'[p].text = NoText => syncAuth'[p] = Sync!Absent
             /\ syncAuth'[p].text # NoText => syncAuth'[p].ctime # 0
             /\ syncPrints[p] # 0 /\ syncPrints[p] = syncAuth'[p].ctime
                => syncAuth'[p] = syncAuth[p]
  <2>1. /\ syncAuth[p].ctime \in Nat /\ syncPrints[p] \in Nat /\ syncAuth[p].ctime <= syncClock
        /\ syncPrints[p] <= syncClock
        /\ syncAuth[p].text = NoText => syncAuth[p] = Sync!Absent
        /\ syncAuth[p].text # NoText => syncAuth[p].ctime # 0
    BY SyncFileFacts DEF SyncInv, SyncTypeInv, SyncClockInv, SyncClocks
  <2>2. CASE syncAuth'[p] = syncAuth[p]
    BY <1>1, <2>1, <2>2
  <2>3. CASE syncAuth'[p] = Sync!Absent
    BY <1>1, <2>1, <2>3, SyncAbsentFacts
  <2>4. CASE syncAuth'[p].ctime = syncClock + 1 /\ syncAuth'[p].text # NoText
    BY <1>1, <2>1, <2>4
  <2> QED  BY <2>2, <2>3, <2>4
<1>3. SyncClockInv'
  BY <1>2 DEF SyncClockInv
<1>4. SyncIndexInv'
  BY <1>2 DEF SyncInv, SyncIndexInv, Sync!PrintVouches, Sync!ToolchainVouches
<1> QED  BY <1>3, <1>4

LEMMA SyncInitial == ASSUME SyncSensible PROVE Sync!Init => SyncInv
<1> SUFFICES ASSUME Sync!Init PROVE SyncInv
  OBVIOUS
<1>1. Sync!NoEntry \in Sync!Entries /\ 0 \in SyncClocks /\ NoText \in SyncContents
      /\ Sync!Absent \in SyncFiles
  BY SyncAbsentFacts
    DEF Sync!NoEntry, Sync!Entries, Sync!Compilers, SyncClocks, SyncContents, SyncSensible
<1>2. /\ <<>> \in Seq(SUBSET Paths) /\ Len(<<>>) = 0 /\ <<>> \in Seq(SyncRecordings)
      /\ DOMAIN <<>> = {}
  OBVIOUS
<1>3. syncWatch \in SyncWatches /\ syncWatch.queue = <<>>
  BY <1>1, <1>2 DEF Sync!Init, Sync!NoWatch, Sync!Untracked, SyncWatches
<1>4. SyncTypeInv
  <2>1. syncAuth \in [Paths -> SyncFiles] /\ syncMirror \in SyncTrees
        /\ syncIndex \in [Paths -> Sync!Entries]
        /\ syncPrints \in [Paths -> SyncClocks] /\ syncReader \in SyncReaders
        /\ syncHalf \in SUBSET SyncHalves
        /\ syncCompiler \in Sync!Compilers /\ syncKnown \in Sync!Compilers
    BY <1>1 DEF Sync!Init, SyncTrees, Sync!Untracked, SyncReaders, Sync!Compilers
  <2> QED  BY <1>1, <1>2, <1>3, <2>1, SyncIdleFacts DEF Sync!Init, SyncTypeInv, SyncSensible
<1>5. SyncClockInv
  <2>1. syncClock = 0 /\ \A p \in Paths : syncAuth[p] = Sync!Absent /\ syncPrints[p] = 0
    BY DEF Sync!Init, Sync!Untracked
  <2>2. Sync!Absent.text = NoText /\ Sync!Absent.ctime = 0
    BY DEF Sync!Absent
  <2>3. ASSUME NEW p \in Paths
        PROVE  /\ syncAuth[p].ctime <= syncClock /\ syncPrints[p] <= syncClock
               /\ syncAuth[p].text = NoText /\ syncAuth[p] = Sync!Absent
    BY <2>1, <2>2
  <2> QED  BY <2>3 DEF SyncClockInv
<1>6. SyncIndexInv
  BY DEF Sync!Init, SyncIndexInv, Sync!PrintVouches, Sync!ToolchainVouches, Sync!NoEntry,
    Sync!Untracked
<1>7. SyncRunInv /\ SyncReaderInv
  BY SyncIdleFacts DEF Sync!Init, SyncRunInv, SyncReaderInv, SyncIndexing
<1>8. SyncHistoryInv
  BY <1>2 DEF Sync!Init, SyncHistoryInv, Sync!DiffSinceComplete
<1> QED  BY <1>4, <1>5, <1>6, <1>7, <1>8 DEF SyncInv

-----------------------------------------------------------------------------
(* Synchronizations start, fail and end.                                   *)

LEMMA SyncSameRows ==
  ASSUME SyncInv, UNCHANGED <<syncIndex, syncRevisions>>
  PROVE  SyncHistoryInv'
BY DEF SyncInv, SyncHistoryInv, Sync!DiffSinceComplete, Sync!DiffSince, Sync!Tree, Sync!Last

LEMMA SyncSameFiles ==
  ASSUME SyncInv, UNCHANGED <<syncAuth, syncClock, syncIndex, syncPrints, syncKnown>>
  PROVE  SyncClockInv' /\ SyncIndexInv'
BY DEF SyncInv, SyncClockInv, SyncIndexInv, Sync!PrintVouches, Sync!ToolchainVouches

LEMMA SyncStartStep ==
  ASSUME SyncInv, NEW mode \in SyncModes, NEW paths \in SUBSET Paths,
    Sync!Started(syncKind', mode, paths),
         syncKind' \in {"shared", "mirror"}, UNCHANGED <<syncAuth, syncMirror, syncClock, Sync!rows,
           syncCompiler>>,
         syncReader' = Sync!NoRead, syncHalf' = {}, syncWatch' \in SyncWatches,
           Len(syncWatch'.queue) <= MaxQueue,
         mode = "deep" => paths = Paths,
         mode = "targeted" /\ SyncNoEarlyPoll => syncKnown = syncCompiler
  PROVE  SyncInv'
<1>1. UNCHANGED <<syncIndex, syncPrints, syncRevisions, syncKnown>>
  BY DEF Sync!rows
<1>2. SyncRunInv' /\ syncRun' \in SyncRuns /\ syncRun'.sync \subseteq syncRun'.paths
      /\ syncRun'.hash \subseteq syncRun'.paths
  BY <1>1, SyncStartFacts
<1>3. SyncTypeInv'
  BY <1>1, <1>2 DEF SyncInv, SyncTypeInv, SyncReaders
<1>4. SyncClockInv' /\ SyncIndexInv' /\ SyncHistoryInv'
  BY <1>1, SyncSameFiles, SyncSameRows
<1>5. SyncReaderInv'
  BY DEF SyncReaderInv
<1> QED  BY <1>2, <1>3, <1>4, <1>5 DEF SyncInv

LEMMA SyncWatchFacts ==
  ASSUME SyncInv
  PROVE  syncWatch \in SyncWatches /\ syncWatch.queue \in Seq(SUBSET Paths)
    /\ Len(syncWatch.queue) <= MaxQueue
         /\ Len(syncWatch.queue) \in Nat
BY DEF SyncInv, SyncTypeInv, SyncWatches

LEMMA SyncCreateStep == ASSUME SyncInv, NEW k \in {"shared", "mirror"}, Sync!Create(k)
  PROVE SyncInv'
<1>1. /\ syncKind' = k /\ Sync!Started(syncKind', "deep", Paths) /\ syncKind = "none"
      /\ UNCHANGED <<Sync!tree, Sync!rows, syncCompiler, syncReader, syncServed, syncReads,
         syncWatch>>
  BY DEF Sync!Create
<1>2. syncReader' = Sync!NoRead /\ syncHalf' = {}
      /\ UNCHANGED <<syncAuth, syncMirror, syncClock, syncWatch>>
  BY <1>1 DEF Sync!tree, SyncInv, SyncRunInv
<1> QED  BY <1>1, <1>2, SyncWatchFacts, SyncStartStep DEF SyncModes

LEMMA SyncReadyFacts ==
  ASSUME SyncInv, Sync!Ready
  PROVE  syncKind \in {"shared", "mirror"} /\ syncRun.mode = "idle" /\ syncHalf = {}
    /\ syncReader = Sync!NoRead
BY DEF Sync!Ready, SyncInv, SyncTypeInv

LEMMA SyncRefreshStep == ASSUME SyncInv, Sync!Refresh PROVE SyncInv'
<1>1. /\ Sync!Started(syncKind', "deep", Paths) /\ Sync!Ready
      /\ UNCHANGED <<syncKind, Sync!tree, Sync!rows, syncCompiler, syncReader, syncServed,
         syncReads, syncWatch>>
  BY DEF Sync!Refresh, Sync!Begin
<1>2. syncReader' = Sync!NoRead /\ syncHalf' = {}
      /\ UNCHANGED <<syncAuth, syncMirror, syncClock, syncWatch>>
      /\ syncKind' \in {"shared", "mirror"}
  BY <1>1, SyncReadyFacts DEF Sync!tree
<1> QED  BY <1>1, <1>2, SyncWatchFacts, SyncStartStep DEF SyncModes

LEMMA SyncReconcileStep == ASSUME SyncInv, Sync!Reconcile PROVE SyncInv'
<1>1. /\ Sync!Started(syncKind', "reconcile", Paths) /\ Sync!Ready
      /\ UNCHANGED <<syncKind, Sync!tree, Sync!rows, syncCompiler, syncReader, syncServed,
         syncReads, syncWatch>>
  BY DEF Sync!Reconcile, Sync!Begin
<1>2. syncReader' = Sync!NoRead /\ syncHalf' = {}
      /\ UNCHANGED <<syncAuth, syncMirror, syncClock, syncWatch>>
      /\ syncKind' \in {"shared", "mirror"}
  BY <1>1, SyncReadyFacts DEF Sync!tree
<1> QED  BY <1>1, <1>2, SyncWatchFacts, SyncStartStep DEF SyncModes

(* A synchronization runs in a workspace nobody reads or writes through.   *)
LEMMA SyncRunningFacts ==
  ASSUME SyncInv, syncRun.mode # "idle"
  PROVE  syncKind \in {"shared", "mirror"} /\ syncHalf = {} /\ syncReader = Sync!NoRead
BY DEF SyncInv, SyncTypeInv, SyncRunInv, SyncReaderInv

LEMMA SyncStopStep ==
  ASSUME SyncInv, syncRun' = Sync!Idle, UNCHANGED <<syncKind, Sync!tree, Sync!rows, syncCompiler,
    syncReader, syncServed, syncReads, syncWatch>>
  PROVE  SyncInv'
<1>1. UNCHANGED <<syncAuth, syncMirror, syncClock, syncHalf, syncIndex, syncPrints, syncRevisions,
      syncKnown>>
  BY DEF Sync!tree, Sync!rows
<1>2. SyncRunInv' /\ syncRun' \in SyncRuns /\ syncRun'.sync \subseteq syncRun'.paths
      /\ syncRun'.hash \subseteq syncRun'.paths
  BY <1>1, SyncStopFacts
<1>3. SyncTypeInv'
  BY <1>1, <1>2 DEF SyncInv, SyncTypeInv
<1>4. SyncClockInv' /\ SyncIndexInv' /\ SyncHistoryInv'
  BY <1>1, SyncSameFiles, SyncSameRows
<1>5. SyncReaderInv'
  BY <1>1, SyncIdleFacts DEF SyncInv, SyncReaderInv
<1> QED  BY <1>2, <1>3, <1>4, <1>5 DEF SyncInv

LEMMA SyncOpenedStep == ASSUME SyncInv, Sync!Opened PROVE SyncInv'
BY SyncStopStep DEF Sync!Opened

LEMMA SyncFailStep == ASSUME SyncInv, Sync!Fail PROVE SyncInv'
BY SyncStopStep DEF Sync!Fail

LEMMA SyncCompareStep == ASSUME SyncInv, Sync!Compare PROVE SyncInv'
<1>1. /\ syncRun.mode = "reconcile"
      /\ UNCHANGED <<syncKind, Sync!tree, Sync!rows, syncCompiler, syncReader, syncServed,
         syncReads, syncWatch>>
      /\ \/ Sync!Started(syncKind', "deep", Paths)
         \/ syncKnown = syncCompiler /\ Sync!Started(syncKind', "targeted", Sync!Candidates)
         \/ syncRun' = Sync!Idle
  BY DEF Sync!Compare, Sync!Begin
<1>2. syncReader' = Sync!NoRead /\ syncHalf' = {}
      /\ UNCHANGED <<syncAuth, syncMirror, syncClock, syncWatch>>
      /\ syncKind' \in {"shared", "mirror"}
  BY <1>1, SyncRunningFacts DEF Sync!tree
<1>3. CASE Sync!Started(syncKind', "deep", Paths)
  BY <1>1, <1>2, <1>3, SyncWatchFacts, SyncStartStep DEF SyncModes
<1>4. CASE syncKnown = syncCompiler /\ Sync!Started(syncKind', "targeted", Sync!Candidates)
  <2>1. Sync!Candidates \in SUBSET Paths
    BY DEF Sync!Candidates
  <2> QED  BY <1>1, <1>2, <1>4, <2>1, SyncWatchFacts, SyncStartStep DEF SyncModes
<1> QED  BY <1>1, <1>3, <1>4, SyncStopStep

LEMMA SyncRestartStep == ASSUME SyncSensible, SyncInv, Sync!Restart PROVE SyncInv'
<1>1. /\ Sync!Started(syncKind', "open", Paths) /\ syncKind' = syncKind /\ syncKind # "none"
      /\ syncHalf' = {} /\ syncReader' = Sync!NoRead /\ syncWatch' = Sync!NoWatch
      /\ UNCHANGED <<syncAuth, syncMirror, syncClock, Sync!rows, syncCompiler>>
  BY DEF Sync!Restart, Sync!Begin
<1>2. syncKind' \in {"shared", "mirror"}
  BY <1>1 DEF SyncInv, SyncTypeInv
<1>3. syncWatch' \in SyncWatches /\ Len(syncWatch'.queue) <= MaxQueue
  <2>1. 0 \in SyncClocks /\ 0 <= MaxQueue
    BY DEF SyncSensible, SyncClocks
  <2>2. <<>> \in Seq(SUBSET Paths) /\ Len(<<>>) = 0
    OBVIOUS
  <2> QED  BY <1>1, <2>1, <2>2 DEF Sync!NoWatch, Sync!Untracked, SyncWatches
<1> QED  BY <1>1, <1>2, <1>3, SyncStartStep DEF SyncModes

LEMMA SyncSubSeqFacts ==
  ASSUME NEW S, NEW s \in Seq(S), NEW n \in DOMAIN s
  PROVE  /\ SubSeq(s, 1, n) \in Seq(S) /\ SubSeq(s, n + 1, Len(s)) \in Seq(S)
         /\ Len(SubSeq(s, n + 1, Len(s))) <= Len(s)
OBVIOUS

LEMMA SyncWatchPollStep ==
  ASSUME SyncSensible, SyncInv, NEW limit \in DOMAIN syncWatch.queue, Sync!WatchPoll(limit)
  PROVE  SyncInv'
<1> DEFINE q == syncWatch.queue
           taken == UNION Sync!Range(SubSeq(q, 1, limit))
           left == SubSeq(q, limit + 1, Len(q))
<1>1. Sync!Started(syncKind', "targeted", taken) /\ syncWatch' = [syncWatch EXCEPT !.queue = left]
  BY DEF Sync!WatchPoll, Sync!Begin
<1>2. /\ syncReader' = Sync!NoRead /\ syncHalf' = {}
      /\ UNCHANGED <<syncAuth, syncMirror, syncClock, Sync!rows, syncCompiler>>
      /\ syncKind' \in {"shared", "mirror"} /\ (SyncNoEarlyPoll => syncKnown = syncCompiler)
  <2>1. Sync!Ready /\ UNCHANGED <<syncKind, Sync!tree, Sync!rows, syncCompiler, syncReader>>
        /\ (SyncNoEarlyPoll => syncKnown = syncCompiler)
    BY DEF Sync!WatchPoll, SyncNoEarlyPoll
  <2> QED  BY <2>1, SyncReadyFacts DEF Sync!tree
<1>3. /\ SubSeq(q, 1, limit) \in Seq(SUBSET Paths) /\ left \in Seq(SUBSET Paths)
      /\ Len(left) <= Len(q) /\ Len(q) <= MaxQueue /\ Len(q) \in Nat /\ Len(left) \in Nat
  BY SyncWatchFacts, SyncSubSeqFacts
<1>4. taken \in SUBSET Paths
  BY <1>3 DEF Sync!Range
<1>5. syncWatch' \in SyncWatches /\ syncWatch'.queue = left
  BY <1>1, <1>3, SyncWatchFacts DEF SyncWatches
<1>6. Len(syncWatch'.queue) <= MaxQueue
  BY <1>3, <1>5 DEF SyncSensible
<1>7. Sync!Started(syncKind', "targeted", taken) /\ syncWatch' \in SyncWatches
  BY <1>1, <1>5
<1>8. "targeted" \in SyncModes
  BY DEF SyncModes
<1> HIDE DEF q, taken, left
<1> QED  BY <1>2, <1>4, <1>6, <1>7, <1>8, SyncStartStep

-----------------------------------------------------------------------------
(* The steps of a synchronization.                                         *)

LEMMA SyncSyncPathStep == ASSUME SyncInv, NEW p \in syncRun.sync, Sync!SyncPath(p) PROVE SyncInv'
<1>1. /\ syncMirror' = [syncMirror EXCEPT ![p] = syncAuth[p].text]
      /\ syncRun' = [syncRun EXCEPT !.sync = syncRun.sync \ {p}]
      /\ UNCHANGED <<syncKind, syncAuth, syncClock, syncHalf, Sync!rows, syncCompiler, syncReader,
         syncServed, syncReads, syncWatch>>
  BY DEF Sync!SyncPath
<1>2. UNCHANGED <<syncIndex, syncPrints, syncRevisions, syncKnown>>
  BY <1>1 DEF Sync!rows
<1>3. /\ syncRun \in SyncRuns /\ syncRun.sync \subseteq syncRun.paths
      /\ syncRun.hash \subseteq syncRun.paths /\ p \in Paths
      /\ syncAuth \in [Paths -> SyncFiles] /\ syncMirror \in SyncTrees
  BY SyncRunFacts DEF SyncInv, SyncTypeInv
<1>4. /\ syncRun' \in SyncRuns /\ syncRun'.mode = syncRun.mode /\ syncRun'.paths = syncRun.paths
      /\ syncRun'.hash = syncRun.hash
      /\ syncRun'.work = syncRun.work /\ syncRun'.calm = syncRun.calm
      /\ syncRun'.sync = syncRun.sync \ {p}
  BY <1>1, <1>3, SyncRunFacts DEF SyncRuns
<1>5. syncMirror' \in SyncTrees
      /\ \A q \in Paths : syncMirror'[q] = IF q = p THEN syncAuth[p].text ELSE syncMirror[q]
  BY <1>1, <1>3, SyncFileFacts DEF SyncTrees
<1>6. SyncTypeInv'
  BY <1>1, <1>2, <1>3, <1>4, <1>5 DEF SyncInv, SyncTypeInv
<1>7. SyncClockInv' /\ SyncIndexInv' /\ SyncHistoryInv'
  BY <1>1, <1>2, SyncSameFiles, SyncSameRows
<1>8. ASSUME NEW q \in Paths, SyncIndexing
      PROVE  SyncWorkOf(q)'
  <2>1. SyncWorkOf(q)
    BY <1>8 DEF SyncInv, SyncRunInv
  <2> QED  BY <1>1, <1>2, <1>4, <1>5, <2>1 DEF SyncWorkOf
<1>9. SyncRunInv'
  BY <1>1, <1>2, <1>4, <1>8 DEF SyncInv, SyncRunInv, SyncIndexing
<1>10. SyncReaderInv'
  BY <1>1, <1>2, <1>4 DEF SyncInv, SyncReaderInv
<1> QED  BY <1>6, <1>7, <1>9, <1>10 DEF SyncInv

LEMMA SyncCompiledFacts ==
  ASSUME SyncInv, NEW p \in Paths, NEW text \in SyncContents, text # NoText
  PROVE  /\ Sync!Compiled(p, text) \in Sync!Entries /\ Sync!Compiled(p, text).text = text
         /\ Sync!Compiled(p, text).built = syncCompiler
BY DEF SyncInv, SyncTypeInv, Sync!Compiled, Sync!CacheValid, Sync!Entries, SyncContents

LEMMA SyncHashPathStep == ASSUME SyncInv, NEW p \in syncRun.hash, Sync!HashPath(p) PROVE SyncInv'
<1> DEFINE e == IF Sync!Seen(p) = NoText THEN Sync!NoEntry ELSE Sync!Compiled(p, Sync!Seen(p))
<1>1. /\ SyncIndexing /\ syncRun.sync = {} /\ p \in syncRun.hash
      /\ syncRun' = [syncRun EXCEPT !.hash = syncRun.hash \ {p}, !.work[p] = e]
      /\ UNCHANGED <<syncKind, Sync!tree, Sync!rows, syncCompiler, syncReader, syncServed,
         syncReads, syncWatch>>
  BY DEF Sync!HashPath, SyncIndexing
<1>2. UNCHANGED <<syncIndex, syncPrints, syncRevisions, syncKnown, syncAuth, syncMirror, syncClock,
      syncHalf>>
  BY <1>1 DEF Sync!rows, Sync!tree
<1>3. /\ syncRun \in SyncRuns /\ syncRun.sync \subseteq syncRun.paths
      /\ syncRun.hash \subseteq syncRun.paths /\ p \in Paths
      /\ syncAuth \in [Paths -> SyncFiles] /\ syncMirror \in SyncTrees
  BY SyncRunFacts DEF SyncInv, SyncTypeInv
<1>4. Sync!Seen(p) \in SyncContents
  BY <1>3, SyncFileFacts DEF Sync!Seen, SyncTrees
<1>5. /\ e \in Sync!Entries /\ (e.text = NoText => e = Sync!NoEntry)
         /\ (e # Sync!NoEntry => e.built = syncCompiler)
      /\ e.text = Sync!Seen(p)
  <2>1. Sync!NoEntry \in Sync!Entries
    BY DEF Sync!NoEntry, Sync!Entries, Sync!Compilers
  <2> QED  BY <1>3, <1>4, <2>1, SyncEntryFacts, SyncCompiledFacts
<1> HIDE DEF e
<1>6. /\ syncRun' \in SyncRuns /\ syncRun'.mode = syncRun.mode /\ syncRun'.paths = syncRun.paths
      /\ syncRun'.hash = syncRun.hash \ {p}
      /\ syncRun'.work = [syncRun.work EXCEPT ![p] = e] /\ syncRun'.calm = syncRun.calm
      /\ syncRun'.sync = syncRun.sync
  <2>1. syncRun' = [mode |-> syncRun.mode, sync |-> syncRun.sync, hash |-> syncRun.hash \ {p},
        paths |-> syncRun.paths,
                work |-> [syncRun.work EXCEPT ![p] = e], calm |-> syncRun.calm]
    BY <1>1, <1>3 DEF SyncRuns
  <2>2. [syncRun.work EXCEPT ![p] = e] \in [Paths -> Sync!Entries]
    BY <1>3, <1>5, SyncRunFacts
  <2> QED  BY <1>3, <2>1, <2>2, SyncRunFacts DEF SyncRuns
<1>7. \A q \in Paths : syncRun'.work[q] = IF q = p THEN e ELSE syncRun.work[q]
  BY <1>3, <1>6, SyncRunFacts
<1>8. SyncTypeInv'
  BY <1>1, <1>2, <1>3, <1>6 DEF SyncInv, SyncTypeInv
<1>9. SyncClockInv' /\ SyncIndexInv' /\ SyncHistoryInv'
  BY <1>2, SyncSameFiles, SyncSameRows
<1>10. ASSUME NEW q \in Paths
       PROVE  SyncWorkOf(q)'
  <2>1. SyncWorkOf(q)
    BY <1>1 DEF SyncInv, SyncRunInv
  <2>2. CASE q # p
    BY <1>1, <1>2, <1>6, <1>7, <2>1, <2>2 DEF SyncWorkOf
  <2>3. CASE q = p
    <3>1. syncRun.calm \/ SyncNoLateEdit => e.text = syncAuth[p].text
      BY <1>1, <1>3, <1>5, <2>1, <2>3 DEF SyncWorkOf, Sync!Seen
    <3> QED  BY <1>1, <1>2, <1>3, <1>5, <1>6, <1>7, <2>1, <2>3, <3>1 DEF SyncWorkOf
  <2> QED  BY <2>2, <2>3
<1>11. SyncRunInv'
  BY <1>1, <1>2, <1>6, <1>10 DEF SyncInv, SyncRunInv, SyncIndexing
<1>12. SyncReaderInv'
  BY <1>1, <1>2, <1>6 DEF SyncInv, SyncReaderInv
<1> QED  BY <1>8, <1>9, <1>11, <1>12 DEF SyncInv

LEMMA SyncAppendFacts ==
  ASSUME NEW S, NEW s \in Seq(S), NEW x \in S
  PROVE  /\ Append(s, x) \in Seq(S) /\ Len(Append(s, x)) = Len(s) + 1
         /\ Append(s, x)[Len(s) + 1] = x /\ \A i \in 1 .. Len(s) : Append(s, x)[i] = s[i]
OBVIOUS

(* A revision that is recorded says what it changed of the one before.     *)
LEMMA SyncRecordedFacts ==
  ASSUME SyncInv, syncRevisions' = Sync!Recorded, syncIndex' = syncRun.work
  PROVE  syncRevisions' \in Seq(SyncRecordings) /\ SyncHistoryInv'
<1> DEFINE n == Len(syncRevisions)
           new == [tree |-> Sync!Tree(syncRun.work), changed |-> Sync!Changed]
<1>1. /\ syncRevisions \in Seq(SyncRecordings) /\ n \in Nat /\ DOMAIN syncRevisions = 1 .. n
      /\ syncRun.work \in [Paths -> Sync!Entries]
  BY SyncRunFacts DEF SyncInv, SyncTypeInv
<1>2. new \in SyncRecordings /\ new.tree = Sync!Tree(syncRun.work) /\ new.changed = Sync!Changed
  BY <1>1, SyncEntryFacts DEF Sync!Tree, Sync!Changed, SyncRecordings, SyncTrees
<1>3. CASE syncRevisions' = syncRevisions /\ syncRevisions # <<>>
      /\ Sync!Last(syncRevisions).tree = Sync!Tree(syncRun.work)
  BY <1>1, <1>3 DEF SyncHistoryInv, Sync!DiffSinceComplete, Sync!DiffSince, SyncInv, Sync!Last
<1>4. CASE syncRevisions' = Append(syncRevisions, new)
  <2> HIDE DEF new
  <2>1. /\ syncRevisions' \in Seq(SyncRecordings) /\ Len(syncRevisions') = n + 1
        /\ syncRevisions'[n + 1] = new
        /\ \A i \in 1 .. n : syncRevisions'[i] = syncRevisions[i]
    BY <1>1, <1>2, <1>4, SyncAppendFacts
  <2>2. syncRevisions' # <<>> => syncRevisions'[Len(syncRevisions')].tree = Sync!Tree(syncIndex)'
    BY <1>2, <2>1 DEF Sync!Tree
  <2>3. ASSUME NEW i \in 1 .. n + 1, NEW p \in Paths, p \notin Sync!DiffSince(i)'
        PROVE  syncRevisions'[i].tree[p] = new.tree[p]
    <3>1. CASE i = n + 1
      BY <2>1, <3>1
    <3>2. CASE i # n + 1
      <4>1. i \in 1 .. n /\ n + 1 \in i + 1 .. n + 1 /\ n # 0
        BY <1>1, <3>2
      <4>2. p \notin new.changed
        BY <2>1, <2>3, <4>1 DEF Sync!DiffSince
      <4>3. p \notin Sync!DiffSince(i)
        <5>1. \A j \in i + 1 .. n : j \in i + 1 .. n + 1 /\ j \in 1 .. n
          BY <1>1, <4>1
        <5> QED  BY <2>1, <2>3, <5>1 DEF Sync!DiffSince
      <4>4. syncRevisions[i].tree[p] = syncRevisions[n].tree[p]
            /\ syncRevisions[n].tree = Sync!Tree(syncIndex)
        BY <1>1, <4>1, <4>3 DEF SyncInv, SyncHistoryInv, Sync!DiffSinceComplete, Sync!Last
      <4>5. Sync!Tree(syncIndex)[p] = new.tree[p]
        BY <1>2, <4>2 DEF Sync!Changed, Sync!Tree
      <4> QED  BY <2>1, <4>1, <4>4, <4>5
    <3> QED  BY <3>1, <3>2
  <2>4. Sync!DiffSinceComplete'
    <3>1. DOMAIN syncRevisions' = 1 .. n + 1 /\ Sync!Last(syncRevisions)' = new
      BY <1>1, <2>1 DEF Sync!Last
    <3> QED  BY <2>3, <3>1 DEF Sync!DiffSinceComplete
  <2> QED  BY <2>1, <2>2, <2>4 DEF SyncHistoryInv
<1> QED  BY <1>3, <1>4 DEF Sync!Recorded

LEMMA SyncFinalizeStep == ASSUME SyncSensible, SyncInv, Sync!Finalize PROVE SyncInv'
<1>1. /\ SyncIndexing /\ syncRun.mode # "idle" /\ syncRun.sync = {} /\ syncRun.hash = {}
      /\ syncRevisions' = Sync!Recorded /\ syncIndex' = syncRun.work
      /\ syncPrints' = [p \in Paths |-> Sync!Fingerprinted(p)]
      /\ syncKnown' = syncCompiler /\ syncRun' = Sync!Idle
      /\ UNCHANGED <<syncKind, Sync!tree, syncCompiler, syncReader, syncServed, syncReads,
         syncWatch>>
  BY DEF Sync!Finalize, SyncIndexing
<1>2. UNCHANGED <<syncAuth, syncMirror, syncClock, syncHalf>>
  BY <1>1 DEF Sync!tree
<1>3. syncHalf = {} /\ syncReader = Sync!NoRead
  BY <1>1, SyncRunningFacts
<1>4. syncRevisions' \in Seq(SyncRecordings) /\ SyncHistoryInv'
  BY <1>1, SyncRecordedFacts
<1>5. SyncRunInv' /\ syncRun' \in SyncRuns /\ syncRun'.sync \subseteq syncRun'.paths
      /\ syncRun'.hash \subseteq syncRun'.paths
  BY <1>1, <1>2, SyncStopFacts
<1>6. /\ syncRun.work \in [Paths -> Sync!Entries] /\ syncIndex \in [Paths -> Sync!Entries]
      /\ syncPrints \in [Paths -> SyncClocks]
      /\ syncAuth \in [Paths -> SyncFiles] /\ syncClock \in SyncClocks /\ 0 \in SyncClocks
      /\ syncRun.paths \subseteq Paths
  BY SyncRunFacts DEF SyncInv, SyncTypeInv, SyncClocks, SyncSensible
<1>7. \A p \in Paths : syncPrints'[p] \in SyncClocks /\ syncPrints'[p] <= syncClock
  <2>1. \A p \in Paths : syncAuth[p].ctime \in SyncClocks /\ syncAuth[p].ctime <= syncClock
        /\ syncPrints[p] <= syncClock
    BY <1>6, SyncFileFacts DEF SyncInv, SyncClockInv
  <2> QED  BY <1>1, <1>6, <2>1 DEF Sync!Fingerprinted, SyncClocks
<1>8. syncPrints' \in [Paths -> SyncClocks]
  BY <1>1, <1>7
<1>9. SyncTypeInv'
  BY <1>1, <1>2, <1>4, <1>5, <1>6, <1>8 DEF SyncInv, SyncTypeInv
<1>10. SyncClockInv'
  BY <1>2, <1>7 DEF SyncInv, SyncClockInv
<1>11. ASSUME NEW p \in Paths
       PROVE  /\ syncIndex'[p].text = NoText => syncIndex'[p] = Sync!NoEntry
              /\ SyncNoLateEdit =>
                   /\ syncPrints'[p] # 0 /\ syncPrints'[p] = syncAuth[p].ctime
                      => syncIndex'[p].text = syncAuth[p].text
                   /\ syncIndex'[p].text # NoText => syncPrints'[p] # 0
              /\ SyncNoEarlyPoll /\ syncIndex'[p] # Sync!NoEntry
                 => syncIndex'[p].built = syncCompiler
  <2>1. SyncWorkOf(p) /\ (SyncNoEarlyPoll /\ p \notin syncRun.paths => syncKnown = syncCompiler)
    BY <1>1 DEF SyncInv, SyncRunInv, SyncIndexing
  <2>2. syncAuth[p].text # NoText => syncAuth[p].ctime # 0
    BY DEF SyncInv, SyncClockInv
  <2>3. syncPrints'[p] = Sync!Fingerprinted(p)
    BY <1>1
  <2>4. CASE p \in syncRun.paths
    BY <1>1, <2>1, <2>2, <2>3, <2>4 DEF SyncWorkOf, Sync!Fingerprinted
  <2>5. CASE p \notin syncRun.paths
    BY <1>1, <2>1, <2>3, <2>5
      DEF SyncWorkOf, Sync!Fingerprinted, SyncInv, SyncIndexInv, Sync!PrintVouches,
        Sync!ToolchainVouches
  <2> QED  BY <2>4, <2>5
<1>12. SyncIndexInv'
  BY <1>1, <1>2, <1>11 DEF SyncIndexInv, Sync!PrintVouches, Sync!ToolchainVouches
<1>13. SyncReaderInv'
  BY <1>1, <1>3 DEF SyncReaderInv
<1> QED  BY <1>4, <1>5, <1>9, <1>10, <1>12, <1>13 DEF SyncInv

-----------------------------------------------------------------------------
(* Writes, through the workspace and beside it.                            *)

LEMMA SyncPutFacts ==
  ASSUME SyncSensible, SyncInv, Sync!Tick, NEW p \in Paths, NEW text \in SyncContents
  PROVE  /\ syncClock' = syncClock + 1 /\ syncClock' \in SyncClocks /\ syncClock + 1 \in SyncClocks
         /\ Sync!Put(syncAuth, p, text) \in [Paths -> SyncFiles]
         /\ \A r \in Paths : r # p => Sync!Put(syncAuth, p, text)[r] = syncAuth[r]
         /\ text = NoText => Sync!Put(syncAuth, p, text)[p] = Sync!Absent
         /\ text # NoText => Sync!Put(syncAuth, p, text)[p] = [text |-> text,
            mtime |-> syncClock + 1, ctime |-> syncClock + 1]
<1>1. syncClock \in Nat /\ syncClock < MaxClock /\ syncClock' = syncClock + 1 /\ MaxClock \in Nat
  BY DEF Sync!Tick, SyncInv, SyncTypeInv, SyncClocks, SyncSensible
<1>2. syncClock + 1 \in SyncClocks
  BY <1>1 DEF SyncClocks
<1>3. [text |-> text, mtime |-> syncClock + 1, ctime |-> syncClock + 1] \in SyncFiles
  BY <1>2 DEF SyncFiles
<1>4. syncAuth \in [Paths -> SyncFiles]
  BY DEF SyncInv, SyncTypeInv
<1> QED  BY <1>1, <1>2, <1>3, <1>4, SyncAbsentFacts DEF Sync!Put

(* A workspace that is written through is doing nothing else. *)
LEMMA SyncWrittenThrough ==
  ASSUME SyncSensible, SyncInv, Sync!Ready, syncClock' = syncClock + 1, syncClock' \in SyncClocks,
         syncAuth' \in [Paths -> SyncFiles], syncHalf' \in SUBSET SyncHalves,
         UNCHANGED <<syncKind, syncMirror, Sync!rows, syncCompiler, syncRun, syncReader, syncServed,
           syncReads, syncWatch>>,
         \A p \in Paths :
           \/ syncAuth'[p] = syncAuth[p] \/ syncAuth'[p] = Sync!Absent
           \/ syncAuth'[p].ctime = syncClock + 1 /\ syncAuth'[p].text # NoText
  PROVE  SyncInv'
<1>1. UNCHANGED <<syncIndex, syncPrints, syncRevisions, syncKnown>>
  BY DEF Sync!rows
<1>2. syncKind \in {"shared", "mirror"} /\ syncRun.mode = "idle" /\ syncReader = Sync!NoRead
  BY SyncReadyFacts
<1>3. SyncTypeInv'
  BY <1>1 DEF SyncInv, SyncTypeInv
<1>4. SyncClockInv' /\ SyncIndexInv'
  BY <1>1, SyncWrittenFacts
<1>5. SyncHistoryInv'
  BY <1>1, SyncSameRows
<1>6. SyncRunInv' /\ SyncReaderInv'
  BY <1>2 DEF SyncRunInv, SyncReaderInv, SyncIndexing
<1> QED  BY <1>3, <1>4, <1>5, <1>6 DEF SyncInv

LEMMA SyncWriteStep ==
  ASSUME SyncSensible, SyncInv, NEW p \in Paths, NEW text \in SyncContents, Sync!Write(p, text)
  PROVE  SyncInv'
<1>1. /\ Sync!Ready /\ Sync!Tick /\ syncAuth' = Sync!Put(syncAuth, p, text)
      /\ syncHalf' = IF syncKind = "mirror" THEN {[from |-> p, to |-> p, text |-> text]} ELSE {}
      /\ UNCHANGED <<syncKind, syncMirror, Sync!rows, syncCompiler, syncRun, syncReader, syncServed,
         syncReads, syncWatch>>
  BY DEF Sync!Write
<1>2. syncHalf' \in SUBSET SyncHalves
  BY <1>1 DEF SyncHalves
<1>3. \A r \in Paths : \/ syncAuth'[r] = syncAuth[r] \/ syncAuth'[r] = Sync!Absent
                       \/ syncAuth'[r].ctime = syncClock + 1 /\ syncAuth'[r].text # NoText
  <2> DEFINE put == Sync!Put(syncAuth, p, text)
  <2>1. /\ \A r \in Paths : r # p => put[r] = syncAuth[r]
        /\ text = NoText => put[p] = Sync!Absent
        /\ text # NoText => put[p] = [text |-> text, mtime |-> syncClock + 1,
           ctime |-> syncClock + 1]
    BY <1>1, SyncPutFacts
  <2>2. syncAuth' = put
    BY <1>1
  <2>3. text # NoText => put[p].ctime = syncClock + 1 /\ put[p].text # NoText
    BY <2>1
  <2> HIDE DEF put
  <2>4. ASSUME NEW r \in Paths, r # p PROVE syncAuth'[r] = syncAuth[r]
    BY <2>1, <2>2, <2>4
  <2>5. syncAuth'[p] = Sync!Absent \/ (syncAuth'[p].ctime = syncClock + 1
        /\ syncAuth'[p].text # NoText)
    BY <2>1, <2>2, <2>3
  <2> QED  BY <2>4, <2>5
<1>4. syncClock' = syncClock + 1 /\ syncClock' \in SyncClocks /\ syncAuth' \in [Paths -> SyncFiles]
  BY <1>1, SyncPutFacts
<1> QED  BY <1>1, <1>2, <1>3, <1>4, SyncWrittenThrough

LEMMA SyncMoveStep ==
  ASSUME SyncSensible, SyncInv, NEW p \in Paths, NEW q \in Paths, Sync!Move(p, q)
  PROVE  SyncInv'
<1>1. /\ Sync!Ready /\ Sync!Tick /\ syncAuth[p] # Sync!Absent /\ syncAuth[q] = Sync!Absent /\ p # q
      /\ syncAuth' = [Sync!Put(syncAuth, p,
         NoText) EXCEPT ![q] = [syncAuth[p] EXCEPT !.ctime = syncClock + 1]]
      /\ syncHalf' = IF syncKind = "mirror" THEN {[from |-> p, to |-> q,
         text |-> syncAuth[p].text]} ELSE {}
      /\ UNCHANGED <<syncKind, syncMirror, Sync!rows, syncCompiler, syncRun, syncReader, syncServed,
         syncReads, syncWatch>>
  BY DEF Sync!Move
<1>2. syncAuth[p] \in SyncFiles /\ syncAuth[p].text \in SyncContents /\ syncAuth[p].text # NoText
  BY <1>1, SyncFileFacts DEF SyncInv, SyncTypeInv, SyncClockInv
<1>3. /\ [syncAuth[p] EXCEPT !.ctime = syncClock + 1] \in SyncFiles
      /\ [syncAuth[p] EXCEPT !.ctime = syncClock + 1].ctime = syncClock + 1
      /\ [syncAuth[p] EXCEPT !.ctime = syncClock + 1].text = syncAuth[p].text
  <2>1. syncClock + 1 \in SyncClocks
    BY <1>1, <1>2, SyncPutFacts
  <2> QED  BY <1>2, <2>1 DEF SyncFiles
<1>4. syncHalf' \in SUBSET SyncHalves
  BY <1>1, <1>2 DEF SyncHalves
<1>5. NoText \in SyncContents
  BY DEF SyncContents
<1>6. /\ syncAuth' \in [Paths -> SyncFiles]
      /\ \A r \in Paths : \/ syncAuth'[r] = syncAuth[r] \/ syncAuth'[r] = Sync!Absent
                          \/ syncAuth'[r].ctime = syncClock + 1 /\ syncAuth'[r].text # NoText
  <2> DEFINE put == Sync!Put(syncAuth, p, NoText)
             moved == [syncAuth[p] EXCEPT !.ctime = syncClock + 1]
  <2>1. put \in [Paths -> SyncFiles] /\ put[p] = Sync!Absent /\ \A r \in Paths : r # p
        => put[r] = syncAuth[r]
    BY <1>1, <1>5, SyncPutFacts
  <2>2. syncAuth' = [put EXCEPT ![q] = moved] /\ moved \in SyncFiles
    BY <1>1, <1>3
  <2>3. moved.ctime = syncClock + 1 /\ moved.text # NoText
    BY <1>2, <1>3
  <2> HIDE DEF put, moved
  <2> QED  BY <2>1, <2>2, <2>3
<1>7. syncClock' = syncClock + 1 /\ syncClock' \in SyncClocks
  BY <1>1, <1>5, SyncPutFacts
<1> QED  BY <1>1, <1>4, <1>6, <1>7, SyncWrittenThrough

LEMMA SyncMirrorHalfStep == ASSUME SyncInv, Sync!MirrorHalf PROVE SyncInv'
<1>1. PICK h \in syncHalf :
        syncMirror' = [syncMirror EXCEPT ![h.from] = NoText,
                     ![h.to] = IF h.from # h.to /\ syncMirror[h.from] # NoText
                               THEN syncMirror[h.from] ELSE h.text]
  BY DEF Sync!MirrorHalf
<1>2. /\ syncHalf' = {}
      /\ UNCHANGED <<syncKind, syncAuth, syncClock, Sync!rows, syncCompiler, syncRun, syncReader,
         syncServed, syncReads, syncWatch>>
  BY DEF Sync!MirrorHalf
<1>3. UNCHANGED <<syncIndex, syncPrints, syncRevisions, syncKnown>>
  BY <1>2 DEF Sync!rows
<1>4. syncMirror' \in SyncTrees
  <2>1. h.from \in Paths /\ h.to \in Paths /\ h.text \in SyncContents /\ syncMirror \in SyncTrees
        /\ NoText \in SyncContents
    BY DEF SyncInv, SyncTypeInv, SyncHalves, SyncContents
  <2> QED  BY <1>1, <2>1 DEF SyncTrees
<1>5. SyncTypeInv'
  BY <1>2, <1>3, <1>4 DEF SyncInv, SyncTypeInv
<1>6. SyncClockInv' /\ SyncIndexInv' /\ SyncHistoryInv'
  BY <1>2, <1>3, SyncSameFiles, SyncSameRows
<1>7. syncRun.mode = "idle"
  BY DEF SyncInv, SyncRunInv
<1>8. SyncRunInv' /\ SyncReaderInv'
  BY <1>2, <1>3, <1>7 DEF SyncInv, SyncRunInv, SyncReaderInv, SyncIndexing
<1> QED  BY <1>5, <1>6, <1>8 DEF SyncInv

(* An editor writes when it likes, except between the read and the         *)
(* fingerprint of one file.                                                *)
LEMMA SyncEditStep ==
  ASSUME SyncSensible, SyncInv, NEW p \in Paths, NEW text \in SyncContents,
    NEW keepsTime \in BOOLEAN,
         Sync!Edit(p, text, keepsTime)
  PROVE  SyncInv'
<1> DEFINE put == Sync!Put(syncAuth, p, text)
           mtime == IF keepsTime THEN syncAuth[p].mtime ELSE put[p].mtime
<1>1. /\ Sync!Tick /\ (SyncNoLateEdit => ~Sync!Late(p))
         /\ (keepsTime => text # NoText /\ syncAuth[p] # Sync!Absent)
      /\ syncAuth' = [put EXCEPT ![p] = [put[p] EXCEPT !.mtime = mtime]]
      /\ syncRun' = IF syncRun.mode = "idle" THEN syncRun ELSE [syncRun EXCEPT !.calm = FALSE]
      /\ UNCHANGED <<syncKind, syncMirror, syncHalf, Sync!rows, syncCompiler, syncReader,
         syncServed, syncReads, syncWatch>>
  BY DEF Sync!Edit, SyncNoLateEdit
<1>2. UNCHANGED <<syncIndex, syncPrints, syncRevisions, syncKnown>>
  BY <1>1 DEF Sync!rows
<1>3. /\ syncClock' = syncClock + 1 /\ syncClock' \in SyncClocks /\ syncClock + 1 \in SyncClocks
      /\ put \in [Paths -> SyncFiles]
      /\ \A r \in Paths : r # p => put[r] = syncAuth[r]
      /\ text = NoText => put[p] = Sync!Absent
      /\ text # NoText => put[p] = [text |-> text, mtime |-> syncClock + 1, ctime |-> syncClock + 1]
  BY <1>1, SyncPutFacts
<1>4. mtime \in SyncClocks /\ (~keepsTime => mtime = put[p].mtime)
  BY <1>3, SyncFileFacts DEF SyncInv, SyncTypeInv
<1> HIDE DEF put, mtime
<1>5. /\ syncAuth' \in [Paths -> SyncFiles] /\ \A r \in Paths : r # p => syncAuth'[r] = syncAuth[r]
      /\ text = NoText => syncAuth'[p] = Sync!Absent
      /\ text # NoText => syncAuth'[p].ctime = syncClock + 1 /\ syncAuth'[p].text # NoText
  <2>1. syncAuth'[p] = [put[p] EXCEPT !.mtime = mtime] /\ \A r \in Paths : r # p
        => syncAuth'[r] = put[r]
    BY <1>1, <1>3
  <2>2. put[p] \in SyncFiles
    BY <1>3
  <2>3. syncAuth'[p] \in SyncFiles
    BY <1>4, <2>1, <2>2 DEF SyncFiles
  <2>4. syncAuth' \in [Paths -> SyncFiles]
    BY <1>1, <1>3, <2>1, <2>3
  <2>5. CASE text = NoText
    <3>1. ~keepsTime /\ put[p] = Sync!Absent
      BY <1>1, <1>3, <2>5
    <3>2. [Sync!Absent EXCEPT !.mtime = Sync!Absent.mtime] = Sync!Absent
      BY DEF Sync!Absent
    <3> QED  BY <1>3, <1>4, <2>1, <2>4, <2>5, <3>1, <3>2
  <2>6. CASE text # NoText
    <3>1. put[p].text = text /\ put[p].ctime = syncClock + 1
      BY <1>3, <2>6
    <3>2. syncAuth'[p].text = put[p].text /\ syncAuth'[p].ctime = put[p].ctime
      BY <2>1, <2>2 DEF SyncFiles
    <3> QED  BY <1>3, <2>1, <2>4, <2>6, <3>1, <3>2
  <2> QED  BY <2>5, <2>6
<1>6. /\ syncRun' \in SyncRuns /\ syncRun'.mode = syncRun.mode /\ syncRun'.sync = syncRun.sync
      /\ syncRun'.hash = syncRun.hash
      /\ syncRun'.paths = syncRun.paths /\ syncRun'.work = syncRun.work
      /\ syncRun.mode # "idle" => syncRun'.calm = FALSE
  <2>1. syncRun \in SyncRuns
    BY DEF SyncInv, SyncTypeInv
  <2> QED  BY <1>1, <2>1 DEF SyncRuns
<1>7. SyncTypeInv'
  BY <1>1, <1>2, <1>3, <1>5, <1>6 DEF SyncInv, SyncTypeInv
<1>8. SyncClockInv' /\ SyncIndexInv'
  BY <1>2, <1>3, <1>5, SyncWrittenFacts
<1>9. SyncHistoryInv'
  BY <1>2, SyncSameRows
<1>10. ASSUME NEW r \in Paths, SyncIndexing
       PROVE  SyncWorkOf(r)'
  <2>1. SyncWorkOf(r) /\ syncRun'.calm = FALSE
    BY <1>6, <1>10 DEF SyncInv, SyncRunInv, SyncIndexing
  <2>2. syncRun.hash \subseteq syncRun.paths
    BY DEF SyncInv, SyncTypeInv
  <2>3. CASE r # p
    BY <1>1, <1>2, <1>5, <1>6, <2>1, <2>3 DEF SyncWorkOf
  <2>4. CASE r = p
    <3>1. SyncNoLateEdit => p \notin syncRun.paths \/ p \in syncRun.sync
          \/ (syncKind # "mirror" /\ p \in syncRun.hash)
      BY <1>1, <1>10 DEF Sync!Late, SyncIndexing
    <3> QED  BY <1>1, <1>2, <1>6, <2>1, <2>4, <3>1 DEF SyncWorkOf
  <2> QED  BY <2>3, <2>4
<1>11. SyncRunInv'
  BY <1>1, <1>2, <1>6, <1>10 DEF SyncInv, SyncRunInv, SyncIndexing
<1>12. SyncReaderInv'
  <2> SUFFICES ASSUME syncReader # Sync!NoRead
               PROVE  SyncReaderInv'
    BY <1>1 DEF SyncReaderInv
  <2>1. /\ syncRun.mode = "idle" /\ syncReader.expected = syncPrints[syncReader.path]
        /\ syncIndex[syncReader.path] # Sync!NoEntry /\ syncReader.before # 0
        /\ syncReader.before <= syncClock
        /\ (syncReader.at = "check" /\ syncReader.before = syncAuth[syncReader.path].ctime =>
             syncReader.text = syncAuth[syncReader.path].text)
    BY DEF SyncInv, SyncReaderInv
  <2>2. syncReader.path \in Paths /\ syncReader.before \in Nat /\ syncClock \in Nat
    BY DEF SyncInv, SyncTypeInv, SyncReaders, SyncReading, SyncChecking, SyncClocks
  <2>3. syncAuth'[syncReader.path] = syncAuth[syncReader.path]
        \/ syncReader.before # syncAuth'[syncReader.path].ctime
    <3>1. Sync!Absent.ctime = 0
      BY DEF Sync!Absent
    <3> QED  BY <1>3, <1>5, <2>1, <2>2, <3>1
  <2>4. syncReader.before <= syncClock' /\ UNCHANGED <<syncReader, syncIndex, syncPrints>>
    BY <1>1, <1>2, <1>3, <2>1, <2>2
  <2>5. syncReader.before = syncAuth'[syncReader.path].ctime
        => syncAuth'[syncReader.path] = syncAuth[syncReader.path]
    BY <2>3
  <2> QED  BY <1>6, <2>1, <2>4, <2>5 DEF SyncReaderInv
<1> QED  BY <1>7, <1>8, <1>9, <1>11, <1>12 DEF SyncInv

-----------------------------------------------------------------------------
(* Ranged reads, the watcher, and the toolchain.                           *)

LEMMA SyncBeginReadStep == ASSUME SyncSensible, SyncInv, NEW p \in Paths, Sync!BeginRead(p)
  PROVE SyncInv'
<1>1. /\ Sync!Ready /\ syncIndex[p] # Sync!NoEntry /\ syncAuth[p] # Sync!Absent
      /\ syncReader' = [at |-> "read", path |-> p, expected |-> syncPrints[p],
         before |-> syncAuth[p].ctime]
      /\ UNCHANGED <<syncKind, Sync!tree, Sync!rows, syncCompiler, syncRun, syncServed, syncWatch>>
  BY DEF Sync!BeginRead
<1>2. UNCHANGED <<syncAuth, syncMirror, syncClock, syncHalf, syncIndex, syncPrints, syncRevisions,
      syncKnown>>
  BY <1>1 DEF Sync!tree, Sync!rows
<1>3. syncKind \in {"shared", "mirror"} /\ syncRun.mode = "idle" /\ syncHalf = {}
  BY <1>1, SyncReadyFacts
<1>4. syncPrints[p] \in SyncClocks /\ syncAuth[p].ctime \in SyncClocks /\ syncAuth[p].ctime # 0
      /\ syncAuth[p].ctime <= syncClock
  BY <1>1, SyncFileFacts DEF SyncInv, SyncTypeInv, SyncClockInv
<1>5. syncReader' \in SyncReading
  BY <1>1, <1>4 DEF SyncReading
<1>6. SyncTypeInv'
  BY <1>1, <1>2, <1>5 DEF SyncInv, SyncTypeInv, SyncReaders
<1>7. SyncClockInv' /\ SyncIndexInv' /\ SyncHistoryInv'
  BY <1>2, SyncSameFiles, SyncSameRows
<1>8. SyncRunInv'
  BY <1>1, <1>2, <1>3 DEF SyncRunInv, SyncIndexing
<1>9. SyncReaderInv'
  BY <1>1, <1>2, <1>3, <1>4 DEF SyncReaderInv
<1> QED  BY <1>6, <1>7, <1>8, <1>9 DEF SyncInv

LEMMA SyncReaderFacts ==
  ASSUME SyncInv
  PROVE  /\ syncReader.at = "read" => syncReader \in SyncReading
         /\ syncReader.at = "check" => syncReader \in SyncChecking
         /\ syncReader.at \in {"read", "check"} => syncReader # Sync!NoRead
BY DEF SyncInv, SyncTypeInv, SyncReaders, SyncReading, SyncChecking, Sync!NoRead

(* Only the reader moves. *)
LEMMA SyncReaderStep ==
  ASSUME SyncInv, syncRun.mode = "idle", UNCHANGED <<syncKind, Sync!tree, Sync!rows, syncCompiler,
    syncRun, syncWatch>>,
         syncReader' \in SyncReaders, syncKind = "none" => syncReader' = Sync!NoRead, SyncReaderInv'
  PROVE  SyncInv'
<1>1. UNCHANGED <<syncAuth, syncMirror, syncClock, syncHalf, syncIndex, syncPrints, syncRevisions,
      syncKnown>>
  BY DEF Sync!tree, Sync!rows
<1>2. SyncTypeInv'
  BY <1>1 DEF SyncInv, SyncTypeInv
<1>3. SyncClockInv' /\ SyncIndexInv' /\ SyncHistoryInv'
  BY <1>1, SyncSameFiles, SyncSameRows
<1>4. SyncRunInv'
  BY <1>1 DEF SyncInv, SyncRunInv, SyncIndexing
<1> QED  BY <1>2, <1>3, <1>4 DEF SyncInv

LEMMA SyncReadBytesStep == ASSUME SyncInv, Sync!ReadBytes PROVE SyncInv'
<1>1. /\ syncReader.at = "read" /\ UNCHANGED <<syncKind, Sync!tree, Sync!rows, syncCompiler,
         syncRun, syncServed, syncReads, syncWatch>>
      /\ \/ syncReader' = Sync!NoRead
         \/ syncReader' = [at |-> "check", path |-> syncReader.path,
            expected |-> syncReader.expected,
                       before |-> syncReader.before, text |-> syncAuth[syncReader.path].text]
  BY DEF Sync!ReadBytes
<1>2. UNCHANGED <<syncAuth, syncMirror, syncClock, syncHalf, syncIndex, syncPrints, syncRevisions,
      syncKnown>>
  BY <1>1 DEF Sync!tree, Sync!rows
<1>3. /\ syncReader \in SyncReading /\ syncRun.mode = "idle"
      /\ syncReader.expected = syncPrints[syncReader.path]
      /\ syncIndex[syncReader.path] # Sync!NoEntry /\ syncReader.before # 0
      /\ syncReader.before <= syncClock
      /\ syncKind # "none"
  BY <1>1, SyncReaderFacts DEF SyncInv, SyncReaderInv, SyncRunInv
<1>4. syncReader' \in SyncReaders
  <2>1. /\ syncReader.path \in Paths /\ syncReader.expected \in SyncClocks
        /\ syncReader.before \in SyncClocks
    BY <1>3 DEF SyncReading
  <2>2. syncAuth[syncReader.path].text \in SyncContents
    BY <2>1, SyncFileFacts DEF SyncInv, SyncTypeInv
  <2> QED  BY <1>1, <2>1, <2>2 DEF SyncReaders, SyncChecking
<1>5. SyncReaderInv'
  BY <1>1, <1>2, <1>3 DEF SyncReaderInv
<1> QED  BY <1>1, <1>3, <1>4, <1>5, SyncReaderStep

LEMMA SyncEndReadStep == ASSUME SyncInv, Sync!EndRead PROVE SyncInv'
<1>1. /\ syncReader.at = "check" /\ syncReader' = Sync!NoRead
      /\ UNCHANGED <<syncKind, Sync!tree, Sync!rows, syncCompiler, syncRun, syncReads, syncWatch>>
  BY DEF Sync!EndRead
<1>2. syncRun.mode = "idle"
  BY <1>1, SyncReaderFacts DEF SyncInv, SyncReaderInv
<1>3. syncReader' \in SyncReaders /\ SyncReaderInv'
  BY <1>1 DEF SyncReaders, SyncReaderInv
<1> QED  BY <1>1, <1>2, <1>3, SyncReaderStep

(* Only the watcher moves. *)
LEMMA SyncWatchingStep ==
  ASSUME SyncInv, UNCHANGED <<syncKind, Sync!tree, Sync!rows, syncCompiler, syncRun, syncReader,
    syncServed, syncReads>>,
         syncWatch' \in SyncWatches, Len(syncWatch'.queue) <= MaxQueue
  PROVE  SyncInv'
<1>1. UNCHANGED <<syncAuth, syncMirror, syncClock, syncHalf, syncIndex, syncPrints, syncRevisions,
      syncKnown>>
  BY DEF Sync!tree, Sync!rows
<1>2. SyncTypeInv'
  BY <1>1 DEF SyncInv, SyncTypeInv
<1>3. SyncClockInv' /\ SyncIndexInv' /\ SyncHistoryInv'
  BY <1>1, SyncSameFiles, SyncSameRows
<1>4. SyncRunInv'
  <2>1. ASSUME NEW p \in Paths, SyncWorkOf(p) PROVE SyncWorkOf(p)'
    BY <1>1, <2>1 DEF SyncWorkOf
  <2> QED  BY <1>1, <2>1 DEF SyncInv, SyncRunInv, SyncIndexing
<1>5. SyncReaderInv'
  BY <1>1 DEF SyncInv, SyncReaderInv
<1> QED  BY <1>2, <1>3, <1>4, <1>5 DEF SyncInv

LEMMA SyncNoQueue == ASSUME SyncSensible PROVE <<>> \in Seq(SUBSET Paths) /\ Len(<<>>) <= MaxQueue
BY DEF SyncSensible

LEMMA SyncTimesFacts == ASSUME SyncInv PROVE Sync!Times \in [Paths -> SyncClocks]
BY SyncFileFacts DEF SyncInv, SyncTypeInv, Sync!Times

LEMMA SyncWatchStartStep == ASSUME SyncSensible, SyncInv, Sync!WatchStart PROVE SyncInv'
<1>1. syncWatch' = [on |-> TRUE, snapshot |-> Sync!Times, queue |-> <<>>, dropped |-> FALSE]
      /\ UNCHANGED <<syncKind, Sync!tree, Sync!rows, syncCompiler, syncRun, syncReader, syncServed,
         syncReads>>
  BY DEF Sync!WatchStart
<1>2. syncWatch' \in SyncWatches
  BY <1>1, SyncNoQueue, SyncTimesFacts DEF SyncWatches
<1> QED  BY <1>1, <1>2, SyncNoQueue, SyncWatchingStep

LEMMA SyncWatchStopStep == ASSUME SyncSensible, SyncInv, Sync!WatchStop PROVE SyncInv'
<1>1. syncWatch' = Sync!NoWatch /\ UNCHANGED <<syncKind, Sync!tree, Sync!rows, syncCompiler,
      syncRun, syncReader, syncServed, syncReads>>
  BY DEF Sync!WatchStop
<1>2. syncWatch' \in SyncWatches /\ syncWatch'.queue = <<>>
  <2>1. 0 \in SyncClocks
    BY DEF SyncSensible, SyncClocks
  <2> QED  BY <1>1, <2>1, SyncNoQueue DEF SyncWatches, Sync!NoWatch, Sync!Untracked
<1> QED  BY <1>1, <1>2, SyncNoQueue, SyncWatchingStep

LEMMA SyncTailFacts ==
  ASSUME NEW S, NEW s \in Seq(S), s # <<>>
  PROVE  Tail(s) \in Seq(S) /\ Len(Tail(s)) = Len(s) - 1
OBVIOUS

LEMMA SyncScanStep == ASSUME SyncSensible, SyncInv, Sync!Scan PROVE SyncInv'
<1> DEFINE moved == {p \in Paths : syncWatch.snapshot[p] # syncAuth[p].mtime}
           full == Len(syncWatch.queue) = MaxQueue
           rest == IF full THEN Tail(syncWatch.queue) ELSE syncWatch.queue
<1>1. syncWatch' = [syncWatch EXCEPT !.snapshot = Sync!Times, !.dropped = syncWatch.dropped \/ full,
                  !.queue = Append(rest, moved)]
      /\ UNCHANGED <<syncKind, Sync!tree, Sync!rows, syncCompiler, syncRun, syncReader, syncServed,
         syncReads>>
  BY DEF Sync!Scan
<1>2. /\ rest \in Seq(SUBSET Paths) /\ Len(rest) \in Nat /\ Len(rest) + 1 <= MaxQueue
  <2>1. MaxQueue \in Nat /\ MaxQueue # 0
    BY DEF SyncSensible
  <2>2. CASE full
    <3>1. syncWatch.queue # <<>>
      BY <2>1, <2>2
    <3>2. Tail(syncWatch.queue) \in Seq(SUBSET Paths)
          /\ Len(Tail(syncWatch.queue)) = Len(syncWatch.queue) - 1
      BY <3>1, SyncWatchFacts, SyncTailFacts
    <3> QED  BY <2>1, <2>2, <3>2
  <2>3. CASE ~full
    BY <2>1, <2>3, SyncWatchFacts
  <2> QED  BY <2>2, <2>3
<1>3. moved \in SUBSET Paths
  OBVIOUS
<1> HIDE DEF moved, rest
<1>4. Append(rest, moved) \in Seq(SUBSET Paths) /\ Len(Append(rest, moved)) = Len(rest) + 1
  BY <1>2, <1>3, SyncAppendFacts
<1>5. syncWatch' \in SyncWatches /\ syncWatch'.queue = Append(rest, moved)
  <2>1. full \in BOOLEAN /\ syncWatch.dropped \in BOOLEAN
    BY SyncWatchFacts DEF SyncWatches
  <2>2. (syncWatch.dropped \/ full) \in BOOLEAN
    BY <2>1
  <2> HIDE DEF full
  <2>3. syncWatch' = [on |-> syncWatch.on, snapshot |-> Sync!Times, queue |-> Append(rest, moved),
                  dropped |-> syncWatch.dropped \/ full]
    BY <1>1, SyncWatchFacts DEF SyncWatches
  <2>4. syncWatch.on \in BOOLEAN
    BY SyncWatchFacts DEF SyncWatches
  <2> QED  BY <1>4, <2>2, <2>3, <2>4, SyncTimesFacts DEF SyncWatches
<1> QED  BY <1>1, <1>2, <1>4, <1>5, SyncWatchingStep

LEMMA SyncUpgradeStep == ASSUME SyncInv, Sync!Upgrade PROVE SyncInv'
<1>1. /\ syncRun.mode = "idle" /\ syncCompiler' = 2
      /\ UNCHANGED <<syncKind, Sync!tree, Sync!rows, syncRun, syncReader, syncServed, syncReads,
         syncWatch>>
  BY DEF Sync!Upgrade
<1>2. UNCHANGED <<syncAuth, syncMirror, syncClock, syncHalf, syncIndex, syncPrints, syncRevisions,
      syncKnown>>
  BY <1>1 DEF Sync!tree, Sync!rows
<1>3. SyncTypeInv'
  BY <1>1, <1>2 DEF SyncInv, SyncTypeInv, Sync!Compilers
<1>4. SyncClockInv' /\ SyncIndexInv' /\ SyncHistoryInv'
  BY <1>2, SyncSameFiles, SyncSameRows
<1>5. SyncRunInv' /\ SyncReaderInv'
  BY <1>1, <1>2 DEF SyncInv, SyncRunInv, SyncReaderInv, SyncIndexing
<1> QED  BY <1>3, <1>4, <1>5 DEF SyncInv

LEMMA SyncStutterStep == ASSUME SyncInv, UNCHANGED Sync!vars PROVE SyncInv'
<1>1. UNCHANGED <<syncKind, syncAuth, syncMirror, syncClock, syncHalf, syncIndex, syncPrints,
      syncRevisions, syncKnown, syncCompiler, syncRun,
                  syncReader, syncServed, syncReads, syncWatch>>
  BY DEF Sync!vars, Sync!tree, Sync!rows
<1>2. SyncClockInv' /\ SyncIndexInv' /\ SyncHistoryInv'
  BY <1>1, SyncSameFiles, SyncSameRows
<1>3. SyncRunInv'
  <2>1. ASSUME NEW p \in Paths, SyncWorkOf(p) PROVE SyncWorkOf(p)'
    BY <1>1, <2>1 DEF SyncWorkOf
  <2> QED  BY <1>1, <2>1 DEF SyncInv, SyncRunInv, SyncIndexing
<1>4. SyncTypeInv' /\ SyncReaderInv'
  BY <1>1 DEF SyncInv, SyncTypeInv, SyncReaderInv
<1> QED  BY <1>2, <1>3, <1>4 DEF SyncInv

LEMMA SyncInductive == ASSUME SyncSensible, SyncInv, [Sync!Next]_Sync!vars PROVE SyncInv'
<1>1. CASE Sync!Sync
  BY <1>1, SyncSyncPathStep, SyncHashPathStep, SyncOpenedStep, SyncCompareStep, SyncFinalizeStep,
    SyncFailStep DEF Sync!Sync
<1>2. CASE Sync!Request
  BY <1>2, SyncCreateStep, SyncRefreshStep, SyncReconcileStep, SyncWriteStep, SyncMoveStep,
    SyncMirrorHalfStep,
     SyncBeginReadStep, SyncReadBytesStep, SyncEndReadStep, SyncWatchStartStep, SyncWatchStopStep,
       SyncWatchPollStep
     DEF Sync!Request, SyncContents
<1>3. CASE Sync!Outside
  BY <1>3, SyncEditStep, SyncScanStep, SyncUpgradeStep, SyncRestartStep
    DEF Sync!Outside, SyncContents
<1> QED  BY <1>1, <1>2, <1>3, SyncStutterStep DEF Sync!Next

LEMMA SyncInvariant == ASSUME SyncSensible PROVE Sync!Spec => []SyncInv
<1>1. Sync!Init => SyncInv
  BY SyncInitial
<1>2. SyncInv /\ [Sync!Next]_Sync!vars => SyncInv'
  BY SyncInductive
<1> QED  BY <1>1, <1>2, PTL DEF Sync!Spec

-----------------------------------------------------------------------------
(* Every variable keeps its type, and the watcher's queue its bound.       *)
THEOREM SyncTypeCorrect == ASSUME SyncSensible PROVE Sync!Spec => []Sync!TypeOK
<1>1. SyncInv => Sync!TypeOK
  <2> SUFFICES ASSUME SyncInv PROVE Sync!TypeOK
    OBVIOUS
  <2>1. \A i \in DOMAIN syncRevisions : syncRevisions[i].changed \subseteq Paths
    <3>1. \A i \in DOMAIN syncRevisions : syncRevisions[i] \in SyncRecordings
      BY DEF SyncInv, SyncTypeInv
    <3> QED  BY <3>1 DEF SyncRecordings
  <2>2. syncRun.mode \in SyncModes /\ syncRun.paths \subseteq Paths
        /\ syncRun.work \in [Paths -> Sync!Entries]
    BY SyncRunFacts DEF SyncInv, SyncTypeInv
  <2> QED  BY <2>1, <2>2
      DEF SyncInv, SyncTypeInv, Sync!TypeOK, SyncFiles, SyncClocks, SyncTrees, SyncHalves,
        SyncContents, SyncModes
<1> QED  BY <1>1, SyncInvariant, PTL

(* Where no file is written between its being read and its fingerprint, a  *)
(* fingerprint that still is the file's means the index has what the file  *)
(* has: reconcile may skip it (_workspace_core.py reconcile).              *)
THEOREM SyncPrintsVouch == ASSUME SyncSensible, SyncNoLateEdit
  PROVE Sync!Spec => []Sync!PrintVouches
<1>1. SyncInv => Sync!PrintVouches
  BY DEF SyncInv, SyncIndexInv
<1> QED  BY <1>1, SyncInvariant, PTL

(* Where watch_poll does not come first after an upgrade, every row was    *)
(* compiled by the toolchain the index says.                               *)
THEOREM SyncToolchainsVouch == ASSUME SyncSensible, SyncNoEarlyPoll
  PROVE Sync!Spec => []Sync!ToolchainVouches
<1>1. SyncInv => Sync!ToolchainVouches
  BY DEF SyncInv, SyncIndexInv
<1> QED  BY <1>1, SyncInvariant, PTL

(* diff_since names whatever differs, however refreshes failed.            *)
THEOREM SyncDiffsAreComplete == ASSUME SyncSensible PROVE Sync!Spec => []Sync!DiffSinceComplete
<1>1. SyncInv => Sync!DiffSinceComplete
  BY DEF SyncInv, SyncHistoryInv
<1> QED  BY <1>1, SyncInvariant, PTL

(* A ranged read serves what is indexed, wherever edits fall around it.    *)
THEOREM SyncReadsAreIndexed == ASSUME SyncSensible, SyncNoLateEdit
  PROVE Sync!Spec => Sync!ReadIsIndexed
<1>1. ASSUME SyncInv, [Sync!Next]_Sync!vars
      PROVE  Sync!ReadIsIndexedStep
  <2> SUFFICES ASSUME syncServed' # syncServed
               PROVE  syncServed'.text = syncIndex[syncServed'.path].text
    BY DEF Sync!ReadIsIndexedStep
  <2>1. Sync!EndRead
    BY <1>1 DEF Sync!vars, Sync!Next, Sync!Sync, Sync!Request, Sync!Outside, Sync!SyncPath,
      Sync!HashPath, Sync!Opened, Sync!Compare, Sync!Finalize, Sync!Fail,
       Sync!Create, Sync!Refresh, Sync!Reconcile, Sync!Write, Sync!Move, Sync!MirrorHalf,
         Sync!BeginRead, Sync!ReadBytes, Sync!WatchStart, Sync!WatchStop,
       Sync!WatchPoll, Sync!Edit, Sync!Scan, Sync!Upgrade, Sync!Restart
  <2>2. /\ syncReader.at = "check" /\ Sync!Trusted
        /\ syncServed' = [path |-> syncReader.path, text |-> syncReader.text]
    BY <2>1 DEF Sync!EndRead
  <2>3. syncReader # Sync!NoRead /\ syncReader.path \in Paths
    BY <1>1, <2>2, SyncReaderFacts DEF SyncChecking
  <2>4. /\ syncReader.expected = syncPrints[syncReader.path]
        /\ syncIndex[syncReader.path] # Sync!NoEntry
        /\ syncReader.before = syncAuth[syncReader.path].ctime /\ syncReader.before # 0
        /\ syncReader.text = syncAuth[syncReader.path].text
    BY <1>1, <2>2, <2>3 DEF SyncInv, SyncReaderInv, Sync!Trusted
  <2>5. syncPrints[syncReader.path] # 0
    BY <1>1, <2>3, <2>4 DEF SyncInv, SyncIndexInv
  <2>6. syncIndex[syncReader.path].text = syncAuth[syncReader.path].text
    BY <1>1, <2>2, <2>3, <2>4, <2>5 DEF SyncInv, SyncIndexInv, Sync!PrintVouches, Sync!Trusted
  <2> QED  BY <2>2, <2>4, <2>6
<1> QED  BY <1>1, SyncInvariant, PTL DEF Sync!ReadIsIndexed, Sync!Spec

(* A deep refresh nobody writes beside heals, whatever the hazards.        *)
THEOREM SyncDeepRefreshesHeal == ASSUME SyncSensible PROVE Sync!Spec => Sync!DeepRefreshHeals
<1>1. ASSUME SyncInv
      PROVE  Sync!DeepRefreshHealsStep
  <2> SUFFICES ASSUME Sync!Finalize, syncRun.mode = "deep", syncRun.calm, NEW p \in Paths
               PROVE  /\ syncIndex'[p].text = syncAuth[p].text /\ syncPrints'[p] = syncAuth[p].ctime
                      /\ syncKind = "mirror" => syncMirror[p] = syncAuth[p].text
    BY DEF Sync!DeepRefreshHealsStep
  <2>1. /\ syncIndex' = syncRun.work /\ syncPrints'[p] = Sync!Fingerprinted(p) /\ syncRun.sync = {}
        /\ syncRun.hash = {}
    BY DEF Sync!Finalize
  <2>2. SyncWorkOf(p) /\ syncRun.paths = Paths
    BY <1>1 DEF SyncInv, SyncRunInv, SyncIndexing
  <2>3. syncAuth[p].text = NoText => syncAuth[p].ctime = 0
    BY <1>1 DEF SyncInv, SyncClockInv, Sync!Absent
  <2> QED  BY <2>1, <2>2, <2>3 DEF SyncWorkOf, Sync!Fingerprinted
<1> QED  BY <1>1, SyncInvariant, PTL DEF Sync!DeepRefreshHeals

(* The variables of the instance, by either name. *)
LEMMA SyncVarsAre == SyncVars' = SyncVars <=> Sync!vars' = Sync!vars
BY DEF SyncVars, Sync!vars, Sync!tree, Sync!rows

-----------------------------------------------------------------------------
(***************************************************************************)
(* The program graph on record is the one a computation from nothing would *)
(* find, for any files and whatever their texts, if the precise provider   *)
(* does not fail and a file that is compiled is read.                      *)
(*                                                                         *)
(* Why it holds: the print of a source partition names all that resolving  *)
(* its facts looks at, and the digest of a file with the surface of the    *)
(* project names all that the precise provider looks at.  So a partition   *)
(* that is reused is the one there would be of any tree that has its key.  *)
(***************************************************************************)
(* What the theorem assumes of the constants. *)
ProgramSensible ==
  /\ StartTree \in [Modules -> ModuleTexts \cup {NoText}] /\ NoText \notin ModuleTexts
  /\ \A c \in ModuleTexts : \E n \in Nat : DOMAIN ParsedAs[c].facts = 1..n
  /\ {"provider fails", "read fails"} \cap IndexHazards = {}

ProgramTrees == [Modules -> ModuleTexts \cup {NoText}]

(* A cached partition is that of every tree with its key. *)
ProgramPartsInv ==
  \A f \in Modules : programParts[f] = Program!NoPart \/
    (\A t \in ProgramTrees : f \in Program!Present(t)
      /\ Program!PartitionPrint(t, f) = programParts[f].print
                        => programParts[f].edges = Program!ResolveFile(t, f))

ProgramPreciseInv ==
  \A f \in Modules, t \in ProgramTrees :
    f \in Program!Present(t) /\ programPrecise[f].digest = t[f]
      /\ programPrecise[f].surface = Program!Surface(t)
      => programPrecise[f].edges = Program!PreciseFile(t, f)

ProgramInv ==
  /\ programTree \in ProgramTrees /\ programRowOf \in ProgramTrees /\ programEffects = programRowOf
  /\ programParts = [f \in Modules |-> programParts[f]]
  /\ programPrecise = [f \in Modules |-> programPrecise[f]]
  /\ ProgramPartsInv /\ (Program!BodiesDoNotShow => ProgramPreciseInv)
  /\ Program!GraphIsAsFromScratch

(* The candidates a fact can see are all that resolving it looks at.       *)
LEMMA ProgramSeenIsUsed ==
  ASSUME NEW t, NEW u, NEW f, NEW fact, Program!Observed(t, f, fact) = Program!Observed(u, f, fact)
  PROVE  Program!Resolve(t, f, fact) = Program!Resolve(u, f, fact)
<1>1. CASE fact.kind = "calls_qualified"
  <2>1. Program!Qualified(t, fact) = Program!Qualified(u, fact)
    BY <1>1 DEF Program!Observed
  <2> QED  BY <1>1, <2>1 DEF Program!Resolve
<1>2. CASE fact.kind = "calls_name"
  <2>1. Program!ByName(t, fact.name) = Program!ByName(u, fact.name)
    BY <1>2 DEF Program!Observed
  <2> QED  BY <1>2, <2>1 DEF Program!Resolve
<1>3. CASE fact.kind = "imports_symbol"
  <2>1. Program!Qualified(t, fact) = Program!Qualified(u, fact)
        /\ (fact.module \in Program!Present(t)) = (fact.module \in Program!Present(u))
    BY <1>3 DEF Program!Observed
  <2> QED  BY <1>3, <2>1 DEF Program!Resolve
<1>4. CASE fact.kind = "ui_handler_name"
  <2>1. Program!ByName(t, fact.name) = Program!ByName(u, fact.name)
    BY <1>4 DEF Program!Observed
  <2> QED  BY <1>4, <2>1 DEF Program!Resolve
<1>5. CASE fact.kind \notin {"calls_qualified", "calls_name", "imports_symbol", "ui_handler_name"}
  BY <1>5 DEF Program!Resolve
<1> QED  BY <1>1, <1>2, <1>3, <1>4, <1>5

(* The facts of a file are in an order. *)
LEMMA ProgramFactsInOrder ==
  ASSUME ProgramSensible, NEW t \in ProgramTrees, NEW f \in Program!Present(t)
  PROVE  \E n \in Nat : DOMAIN Program!FactsOf(t, f) = 1..n
BY DEF ProgramSensible, ProgramTrees, Program!Present, Program!FactsOf

(* Trees with one print of a file have one partition of it. *)
LEMMA ProgramSamePrintSameEdges ==
  ASSUME ProgramSensible, NEW t \in ProgramTrees, NEW u \in ProgramTrees,
    NEW f \in Program!Present(t), f \in Program!Present(u),
         Program!PartitionPrint(t, f) = Program!PartitionPrint(u, f)
  PROVE  Program!ResolveFile(t, f) = Program!ResolveFile(u, f)
<1> DEFINE F == Program!FactsOf(t, f)
           G == Program!FactsOf(u, f)
           a(i) == Program!Resolve(t, f, F[i])
           b(i) == Program!Resolve(u, f, G[i])
<1>1. DOMAIN F = DOMAIN G
  <2>1. DOMAIN Program!PartitionPrint(t, f) = DOMAIN F
        /\ DOMAIN Program!PartitionPrint(u, f) = DOMAIN G
    BY DEF Program!PartitionPrint
  <2> QED  BY <2>1
<1>2. ASSUME NEW i \in DOMAIN F
      PROVE F[i] = G[i] /\ Program!Observed(t, f, F[i]) = Program!Observed(u, f, F[i])
  <2>1. Program!PartitionPrint(t, f)[i] = <<F[i], Program!Observed(t, f, F[i])>>
    BY DEF Program!PartitionPrint
  <2>2. Program!PartitionPrint(u, f)[i] = <<G[i], Program!Observed(u, f, G[i])>>
    BY <1>1 DEF Program!PartitionPrint
  <2> HIDE DEF F, G
  <2> QED  BY <2>1, <2>2
<1>3. \A i \in DOMAIN F : a(i) = b(i)
  BY <1>2, ProgramSeenIsUsed
<1>4. PICK n \in Nat : DOMAIN F = 1..n
  BY ProgramFactsInOrder
<1>5. \A i \in DOMAIN F : \A j \in 1..(i - 1) : j \in DOMAIN F
  <2> HIDE DEF F
  <2> QED  BY <1>4
<1>6. \A e : e \in Program!ResolveFile(t, f) <=>
        \E i \in DOMAIN F : /\ e \in a(i)
                           /\ \A j \in 1..(i - 1) : \A d \in a(j) : ~Program!SameEdge(d, e)
  BY DEF Program!ResolveFile
<1>7. \A e : e \in Program!ResolveFile(u, f) <=>
        \E i \in DOMAIN G : /\ e \in b(i)
                           /\ \A j \in 1..(i - 1) : \A d \in b(j) : ~Program!SameEdge(d, e)
  BY DEF Program!ResolveFile
<1>8. \A i \in DOMAIN F :
        \A e : (e \in a(i) /\ \A j \in 1..(i - 1) : \A d \in a(j) : ~Program!SameEdge(d, e))
                 <=> (e \in b(i) /\ \A j \in 1..(i - 1) : \A d \in b(j) : ~Program!SameEdge(d, e))
  <2> SUFFICES ASSUME NEW i \in DOMAIN F, NEW e
               PROVE  (e \in a(i) /\ \A j \in 1..(i - 1) : \A d \in a(j) : ~Program!SameEdge(d, e))
                        <=> (e \in b(i)
                          /\ \A j \in 1..(i - 1) : \A d \in b(j) : ~Program!SameEdge(d, e))
    OBVIOUS
  <2>1. \A j \in 1..(i - 1) : a(j) = b(j)
    BY <1>3, <1>5
  <2>2. a(i) = b(i)
    BY <1>3
  <2> HIDE DEF a, b
  <2> QED  BY <2>1, <2>2
<1>9. \A e : e \in Program!ResolveFile(t, f) <=> e \in Program!ResolveFile(u, f)
  <2> HIDE DEF F, G, a, b
  <2> QED  BY <1>1, <1>6, <1>7, <1>8
<1> QED  BY <1>9

(* Trees with one surface have the same files, defining the same functions.*)
LEMMA ProgramSameSurface ==
  ASSUME NEW t \in ProgramTrees, NEW u \in ProgramTrees, Program!Surface(t) = Program!Surface(u)
  PROVE  /\ Program!Present(t) = Program!Present(u)
         /\ \A f \in Program!Present(t) : ParsedAs[t[f]].defs = ParsedAs[u[f]].defs
<1> DEFINE row(x, f) ==
      [file |-> f, defs |-> ParsedAs[x[f]].defs,
       imports |-> {Program!FactsOf(x, f)[i] : i \in {i \in DOMAIN Program!FactsOf(x, f) :
                                             Program!FactsOf(x, f)[i].kind = "imports_symbol"}}]
<1>1. \A x, f : row(x, f).file = f /\ row(x, f).defs = ParsedAs[x[f]].defs
  OBVIOUS
<1>2. Program!Surface(t) = {row(t, f) : f \in Program!Present(t)}
      /\ Program!Surface(u) = {row(u, f) : f \in Program!Present(u)}
  BY DEF Program!Surface
<1> HIDE DEF row
<1>3. ASSUME NEW f \in Program!Present(t)
      PROVE f \in Program!Present(u) /\ ParsedAs[t[f]].defs = ParsedAs[u[f]].defs
  <2>1. PICK g \in Program!Present(u) : row(t, f) = row(u, g)
    BY <1>2
  <2> QED  BY <2>1, <1>1
<1>4. ASSUME NEW f \in Program!Present(u) PROVE f \in Program!Present(t)
  <2>1. PICK g \in Program!Present(t) : row(t, g) = row(u, f)
    BY <1>2
  <2> QED  BY <2>1, <1>1
<1> QED  BY <1>3, <1>4

LEMMA ProgramSameNames ==
  ASSUME NEW t \in ProgramTrees, NEW u \in ProgramTrees, Program!Surface(t) = Program!Surface(u),
    NEW name
  PROVE  Program!ByName(t, name) = Program!ByName(u, name)
<1>1. \A g : Program!Defines(t, g, name) <=> Program!Defines(u, g, name)
  BY ProgramSameSurface DEF Program!Defines
<1>2. {g \in Modules : Program!Defines(t, g, name)} = {g \in Modules : Program!Defines(u, g, name)}
  BY <1>1
<1> QED  BY <1>2 DEF Program!ByName

(* With the text of the file, the surface is all the provider looks at, if *)
(* what a call returns shows in it.                                        *)
LEMMA ProgramSameKeySamePrecise ==
  ASSUME Program!BodiesDoNotShow, NEW t \in ProgramTrees, NEW u \in ProgramTrees, NEW f,
    t[f] = u[f],
         Program!Surface(t) = Program!Surface(u)
  PROVE  Program!PreciseFile(t, f) = Program!PreciseFile(u, f)
<1>1. Program!FactsOf(t, f) = Program!FactsOf(u, f)
  BY DEF Program!FactsOf
<1>2. ASSUME NEW fact PROVE Program!Definition(t, f, fact) = Program!Definition(u, f, fact)
  <2>1. CASE fact.kind = "calls_qualified"
    BY <2>1, ProgramSameNames DEF Program!Definition, Program!Qualified
  <2>2. CASE fact.kind = "calls_name"
    BY <2>2, ProgramSameNames DEF Program!Definition
  <2>3. CASE fact.kind = "calls_result"
    <3>1. CASE fact.module \notin Program!Present(t)
      BY <2>3, <3>1, ProgramSameSurface DEF Program!Definition
    <3>2. CASE fact.module \in Program!Present(t)
      <4>1. ParsedAs[t[fact.module]].makes = ParsedAs[u[fact.module]].makes
        BY <3>2, ProgramSameSurface DEF Program!BodiesDoNotShow, ProgramTrees, Program!Present
      <4>2. Program!ByName(t, ParsedAs[t[fact.module]].makes) = Program!ByName(u,
            ParsedAs[u[fact.module]].makes)
        BY <4>1, ProgramSameNames
      <4>3. fact.module \in Program!Present(u)
        BY <3>2, ProgramSameSurface
      <4> QED  BY <2>3, <3>2, <4>2, <4>3 DEF Program!Definition
    <3> QED  BY <3>1, <3>2
  <2>4. CASE fact.kind \notin {"calls_qualified", "calls_name", "calls_result"}
    BY <2>4 DEF Program!Definition
  <2> QED  BY <2>1, <2>2, <2>3, <2>4
<1> QED  BY <1>1, <1>2 DEF Program!PreciseFile

(* No facts, no edges. *)
LEMMA ProgramNothingResolved ==
  ASSUME NEW t, NEW f, Program!FactsOf(t, f) = <<>>
  PROVE  Program!ResolveFile(t, f) = {}
BY DEF Program!ResolveFile

-----------------------------------------------------------------------------
LEMMA ProgramInitial == ProgramSensible /\ Program!Init => ProgramInv
<1> SUFFICES ASSUME ProgramSensible, Program!Init PROVE ProgramInv
  OBVIOUS
<1>1. programTree \in ProgramTrees /\ programRowOf \in ProgramTrees /\ programEffects = programRowOf
      /\ programParts = [f \in Modules |-> programParts[f]]
      /\ programPrecise = [f \in Modules |-> programPrecise[f]]
  BY DEF Program!Init, ProgramSensible, ProgramTrees
<1>2. ProgramPartsInv
  BY DEF Program!Init, ProgramPartsInv
<1>3. ProgramPreciseInv
  BY DEF Program!Init, ProgramPreciseInv, Program!NoPrecise, Program!Present
<1>4. Program!GraphIsAsFromScratch
  <2>1. Program!Present(programRowOf) = {}
    BY DEF Program!Init, Program!Present
  <2>2. Program!FromScratch(programRowOf) = Program!Merge({}, {})
    BY <2>1 DEF Program!FromScratch
  <2>3. Program!Merge({}, {}) = {}
    BY DEF Program!Merge
  <2> QED  BY <2>2, <2>3 DEF Program!GraphIsAsFromScratch, Program!Init
<1> QED  BY <1>1, <1>2, <1>3, <1>4 DEF ProgramInv

LEMMA ProgramEditStep ==
  ASSUME ProgramInv, NEW f \in Modules, NEW c \in ModuleTexts \cup {NoText}, Program!Edit(f, c)
  PROVE  ProgramInv'
<1>1. programTree' \in ProgramTrees
  BY DEF ProgramInv, Program!Edit, ProgramTrees
<1>2. UNCHANGED <<programRowOf, programParts, programPrecise, programRelations, programEffects>>
  BY DEF Program!Edit
<1>3. ProgramPartsInv' /\ (Program!BodiesDoNotShow => ProgramPreciseInv')
  BY <1>2 DEF ProgramInv, ProgramPartsInv, ProgramPreciseInv
<1> QED  BY <1>1, <1>2, <1>3 DEF ProgramInv, Program!GraphIsAsFromScratch

(* A partition after a refresh is that of the tree, reused or not.         *)
LEMMA ProgramBaseIsOfTheTree ==
  ASSUME ProgramSensible, ProgramInv, NEW f \in Program!Present(programTree)
  PROVE  /\ Program!BasePart(programTree, f).edges = Program!ResolveFile(programTree, f)
         /\ \A t \in ProgramTrees : f \in Program!Present(t)
            /\ Program!PartitionPrint(t, f) = Program!BasePart(programTree, f).print
                               => Program!BasePart(programTree, f).edges = Program!ResolveFile(t, f)
<1>1. CASE programParts[f] # Program!NoPart
      /\ programParts[f].print = Program!PartitionPrint(programTree, f)
  <2>1. Program!BasePart(programTree, f) = programParts[f]
    BY <1>1 DEF Program!BasePart
  <2> QED  BY <1>1, <2>1 DEF ProgramInv, ProgramPartsInv, Program!Present
<1>2. CASE ~(programParts[f] # Program!NoPart
      /\ programParts[f].print = Program!PartitionPrint(programTree, f))
  <2>1. Program!BasePart(programTree, f) = [print |-> Program!PartitionPrint(programTree, f),
        edges |-> Program!ResolveFile(programTree, f)]
    BY <1>2 DEF Program!BasePart
  <2>2. Program!BasePart(programTree, f).edges = Program!ResolveFile(programTree, f)
        /\ Program!BasePart(programTree, f).print = Program!PartitionPrint(programTree, f)
    BY <2>1
  <2> QED  BY <2>2, ProgramSamePrintSameEdges DEF ProgramInv
<1> QED  BY <1>1, <1>2

LEMMA ProgramPreciseIsOfTheTree ==
  ASSUME Program!BodiesDoNotShow, ProgramInv, NEW f \in Program!Present(programTree)
  PROVE  /\ Program!PrecisePart(programTree, f, f \in {}).edges = Program!PreciseFile(programTree, f)
         /\ \A t \in ProgramTrees :
              /\ f \in Program!Present(t) /\ Program!PrecisePart(programTree, f,
                 f \in {}).digest = t[f]
              /\ Program!PrecisePart(programTree, f, f \in {}).surface = Program!Surface(t)
              => Program!PrecisePart(programTree, f, f \in {}).edges = Program!PreciseFile(t, f)
<1> DEFINE p == Program!PrecisePart(programTree, f, f \in {})
<1>1. CASE programPrecise[f].digest = programTree[f]
      /\ programPrecise[f].surface = Program!Surface(programTree)
  <2>1. p = programPrecise[f]
    BY <1>1 DEF Program!PrecisePart
  <2> HIDE DEF p
  <2>2. f \in Modules
    BY DEF Program!Present
  <2>3. ProgramPreciseInv /\ programTree \in ProgramTrees
    BY DEF ProgramInv
  <2>4. /\ p.edges = Program!PreciseFile(programTree, f)
        /\ \A t \in ProgramTrees : f \in Program!Present(t) /\ p.digest = t[f]
           /\ p.surface = Program!Surface(t)
                              => p.edges = Program!PreciseFile(t, f)
    BY <1>1, <2>1, <2>2, <2>3 DEF ProgramPreciseInv
  <2> QED  BY <2>4 DEF p
<1>2. CASE ~(programPrecise[f].digest = programTree[f]
      /\ programPrecise[f].surface = Program!Surface(programTree))
  <2>1. p = [digest |-> programTree[f], surface |-> Program!Surface(programTree),
        edges |-> Program!PreciseFile(programTree, f)]
    BY <1>2 DEF Program!PrecisePart
  <2> HIDE DEF p
  <2>2. p.digest = programTree[f] /\ p.surface = Program!Surface(programTree)
        /\ p.edges = Program!PreciseFile(programTree, f)
    BY <2>1
  <2>3. \A t \in ProgramTrees : p.digest = t[f] /\ p.surface = Program!Surface(t)
        => p.edges = Program!PreciseFile(t, f)
    BY <2>2, ProgramSameKeySamePrecise DEF ProgramInv
  <2> QED  BY <2>2, <2>3 DEF p
<1> QED  BY <1>1, <1>2

LEMMA ProgramRefreshStep == ASSUME ProgramSensible, ProgramInv, Program!Refresh({}, {})
  PROVE ProgramInv'
<1> DEFINE newParts == [f \in Modules |->
             IF f \in Program!Present(programTree)
               /\ Program!FactsOf(programTree, f) # <<>> THEN Program!BasePart(programTree,
                  f) ELSE Program!NoPart]
           newPrecise == [f \in Modules |->
             IF f \in Program!Present(programTree) THEN Program!PrecisePart(programTree, f,
               f \in {}) ELSE programPrecise[f]]
<1>1. programRowOf' = programTree /\ programTree' = programTree /\ programParts' = newParts
      /\ programPrecise' = newPrecise
  BY DEF Program!Refresh
<1>2. programRelations' = Program!Merge(UNION {newParts[f].edges : f \in Modules},
                         UNION {newPrecise[f].edges : f \in Program!Present(programTree)})
  BY DEF Program!Refresh
<1>3. programEffects' = programTree
  <2>1. programEffects' = [f \in Modules |-> IF programRowOf[f] # programTree[f] THEN programTree[f] ELSE programEffects[f]]
    BY DEF Program!Refresh
  <2> QED  BY <2>1 DEF ProgramInv, ProgramTrees
<1>4. ProgramPartsInv'
  <2> SUFFICES ASSUME NEW f \in Modules, newParts[f] # Program!NoPart
               PROVE  \A t \in ProgramTrees : f \in Program!Present(t)
                 /\ Program!PartitionPrint(t, f) = newParts[f].print
                                           => newParts[f].edges = Program!ResolveFile(t, f)
    BY <1>1 DEF ProgramPartsInv
  <2>1. f \in Program!Present(programTree) /\ newParts[f] = Program!BasePart(programTree, f)
    OBVIOUS
  <2> HIDE DEF newParts
  <2> QED  BY <2>1, ProgramBaseIsOfTheTree
<1>5. Program!BodiesDoNotShow => ProgramPreciseInv'
  <2> SUFFICES ASSUME Program!BodiesDoNotShow, NEW f \in Modules, NEW t \in ProgramTrees,
      f \in Program!Present(t),
                      newPrecise[f].digest = t[f], newPrecise[f].surface = Program!Surface(t)
               PROVE  newPrecise[f].edges = Program!PreciseFile(t, f)
    BY <1>1 DEF ProgramPreciseInv
  <2>1. CASE f \in Program!Present(programTree)
    <3>1. newPrecise[f] = Program!PrecisePart(programTree, f, f \in {})
      BY <2>1
    <3> HIDE DEF newPrecise
    <3> QED  BY <2>1, <3>1, ProgramPreciseIsOfTheTree
  <2>2. CASE f \notin Program!Present(programTree)
    <3>1. newPrecise[f] = programPrecise[f]
      BY <2>2
    <3> HIDE DEF newPrecise
    <3> QED  BY <3>1 DEF ProgramInv, ProgramPreciseInv
  <2> QED  BY <2>1, <2>2
<1>6. Program!GraphIsAsFromScratch'
  <2> SUFFICES ASSUME Program!BodiesDoNotShow
      PROVE programRelations' = Program!FromScratch(programTree)
    BY <1>1 DEF Program!GraphIsAsFromScratch
  <2>1. \A f \in Program!Present(programTree) : newParts[f].edges = Program!ResolveFile(programTree,
        f)
    <3> SUFFICES ASSUME NEW f \in Program!Present(programTree)
        PROVE newParts[f].edges = Program!ResolveFile(programTree, f)
      OBVIOUS
    <3>1. f \in Modules
      BY DEF Program!Present
    <3>2. CASE Program!FactsOf(programTree, f) = <<>>
      <4>1. newParts[f] = Program!NoPart
        BY <3>1, <3>2
      <4> HIDE DEF newParts
      <4> QED  BY <4>1, <3>2, ProgramNothingResolved DEF Program!NoPart
    <3>3. CASE Program!FactsOf(programTree, f) # <<>>
      <4>1. newParts[f] = Program!BasePart(programTree, f)
        BY <3>1, <3>3
      <4> HIDE DEF newParts
      <4> QED  BY <4>1, ProgramBaseIsOfTheTree
    <3> QED  BY <3>2, <3>3
  <2>2. \A f \in Modules \ Program!Present(programTree) : newParts[f].edges = {}
    BY DEF Program!NoPart
  <2>3. \A f \in Program!Present(programTree) : newPrecise[f].edges = Program!PreciseFile(programTree, f)
    <3> SUFFICES ASSUME NEW f \in Program!Present(programTree)
        PROVE newPrecise[f].edges = Program!PreciseFile(programTree, f)
      OBVIOUS
    <3>1. newPrecise[f] = Program!PrecisePart(programTree, f, f \in {})
      BY DEF Program!Present
    <3> HIDE DEF newPrecise
    <3> QED  BY <3>1, ProgramPreciseIsOfTheTree
  <2>4. Program!Present(programTree) \subseteq Modules
    BY DEF Program!Present
  <2> HIDE DEF newParts, newPrecise
  <2>5. UNION {newParts[f].edges : f \in Modules} = UNION {Program!ResolveFile(programTree,
        f) : f \in Program!Present(programTree)}
    BY <2>1, <2>2, <2>4
  <2>6. UNION {newPrecise[f].edges : f \in Program!Present(programTree)} = UNION {Program!PreciseFile(programTree, f) : f \in Program!Present(programTree)}
    BY <2>3
  <2> QED  BY <1>2, <2>5, <2>6 DEF Program!FromScratch
<1>7. programParts' = [f \in Modules |-> programParts'[f]]
      /\ programPrecise' = [f \in Modules |-> programPrecise'[f]]
  <2>1. newParts = [f \in Modules |-> newParts[f]] /\ newPrecise = [f \in Modules |-> newPrecise[f]]
    OBVIOUS
  <2> HIDE DEF newParts, newPrecise
  <2> QED  BY <1>1, <2>1
<1>8. programTree \in ProgramTrees
  BY DEF ProgramInv
<1> HIDE DEF newParts, newPrecise
<1> QED  BY <1>1, <1>3, <1>4, <1>5, <1>6, <1>7, <1>8 DEF ProgramInv

LEMMA ProgramStep == ASSUME ProgramSensible, ProgramInv, [Program!Next]_Program!vars
  PROVE ProgramInv'
<1>1. CASE Program!Next
  <2>1. CASE \E f \in Modules, c \in ModuleTexts \cup {NoText} : Program!Edit(f, c)
    BY <2>1, ProgramEditStep
  <2>2. CASE Program!Refresh({}, {})
    BY <2>2, ProgramRefreshStep
  <2>3. "provider fails" \notin IndexHazards /\ "read fails" \notin IndexHazards
    BY DEF ProgramSensible
  <2> QED  BY <1>1, <2>1, <2>2, <2>3 DEF Program!Next
<1>2. CASE UNCHANGED Program!vars
  BY <1>2 DEF Program!vars, ProgramInv, ProgramPartsInv, ProgramPreciseInv,
    Program!GraphIsAsFromScratch
<1> QED  BY <1>1, <1>2

(* The graph on record is the one the files on record have, and the facts  *)
(* of a path are those of its text, however refreshes reuse partitions.    *)
THEOREM ProgramGraphIsAlwaysAsFromScratch ==
  ASSUME ProgramSensible
  PROVE  Program!Spec => [](Program!GraphIsAsFromScratch /\ Program!FactsAreOfTheRow)
<1>1. Program!Init => ProgramInv
  BY ProgramInitial
<1>2. ProgramInv /\ [Program!Next]_Program!vars => ProgramInv'
  BY ProgramStep
<1>3. ProgramInv => Program!GraphIsAsFromScratch /\ Program!FactsAreOfTheRow
  BY DEF ProgramInv, Program!FactsAreOfTheRow
<1> QED  BY <1>1, <1>2, <1>3, PTL DEF Program!Spec

-----------------------------------------------------------------------------
(* Where an edge can lead, whatever fails.                                 *)
ProgramJoins(edges) == \A e \in edges : e.source \in Modules /\ e.target \in Program!Ends

ProgramAllJoin ==
  /\ Program!TypeOK
  /\ \A f \in Modules : ProgramJoins(programParts[f].edges) /\ ProgramJoins(programPrecise[f].edges)

LEMMA ProgramNamedIsAnEnd ==
  ASSUME NEW t \in ProgramTrees, NEW name
  PROVE  \A s \in Program!ByName(t, name) : s \in Program!Ends
<1> SUFFICES ASSUME NEW g \in Modules, Program!Defines(t, g, name)
             PROVE  [file |-> g, name |-> name] \in Program!Ends
  BY DEF Program!ByName
<1>1. t[g] \in ModuleTexts /\ name \in DOMAIN ParsedAs[t[g]].defs
  BY DEF Program!Defines, Program!Present, ProgramTrees
<1>2. name \in UNION {DOMAIN ParsedAs[c].defs : c \in ModuleTexts}
  BY <1>1
<1> QED
  BY <1>2 DEF Program!Ends

LEMMA ProgramEdgeJoins ==
  ASSUME NEW f \in Modules, NEW S, S \subseteq Program!Ends, NEW kind, NEW trust, NEW line
  PROVE  ProgramJoins({Program!Edge(f, s, kind, trust, line) : s \in S})
BY DEF ProgramJoins, Program!Edge

LEMMA ProgramResolveJoins ==
  ASSUME NEW t \in ProgramTrees, NEW f \in Modules, NEW fact
  PROVE  ProgramJoins(Program!Resolve(t, f, fact))
<1> DEFINE ids == Program!ByName(t, fact.name)
           module == IF fact.module \in Program!Present(t) THEN {Program!FileOf(fact.module)} ELSE {}
           near == IF Program!Local(f, ids) # {} THEN Program!Local(f, ids) ELSE ids
<1>1. ids \subseteq Program!Ends /\ Program!Qualified(t, fact) \subseteq Program!Ends
      /\ Program!Local(f, ids) \subseteq Program!Ends
  BY ProgramNamedIsAnEnd DEF Program!Qualified, Program!Local
<1>2. module \subseteq Program!Ends
  <2>1. \A g \in Modules : Program!FileOf(g) \in Program!Ends
    BY DEF Program!FileOf, Program!Ends
  <2>2. fact.module \in Program!Present(t) => fact.module \in Modules
    BY DEF Program!Present
  <2> QED
    BY <2>1, <2>2
<1>3. near \subseteq Program!Ends
  BY <1>1
<1>4. ProgramJoins({})
  BY DEF ProgramJoins
<1> HIDE DEF module, near
<1>5. CASE fact.kind = "calls_qualified"
  BY <1>1, <1>5, ProgramEdgeJoins DEF Program!Resolve
<1>6. CASE fact.kind = "calls_name"
  BY <1>1, <1>4, <1>6, ProgramEdgeJoins DEF Program!Resolve
<1>7. CASE fact.kind = "imports_symbol"
  <2> DEFINE symbols == {Program!Edge(f, s, "imports_symbol", "semantic",
      fact.line) : s \in Program!Qualified(t, fact)}
             modules == {Program!Edge(f, s, "imports", "semantic", fact.line) : s \in module}
             tests == {Program!Edge(f, s, "tests", "derived", fact.line) : s \in module}
  <2>1. Program!Resolve(t, f, fact) \subseteq symbols \cup modules \cup tests
    BY <1>7 DEF Program!Resolve, module
  <2>2. ProgramJoins(symbols) /\ ProgramJoins(modules) /\ ProgramJoins(tests)
    BY <1>1, <1>2, ProgramEdgeJoins
  <2> HIDE DEF symbols, modules, tests
  <2> QED
    BY <2>1, <2>2 DEF ProgramJoins
<1>8. CASE fact.kind = "ui_handler_name"
  <2> DEFINE one == {Program!Edge(f, s, "handles_event",
      IF Program!Local(f, ids) # {} THEN "parser" ELSE "derived", fact.line) : s \in near}
             many == {Program!Edge(f, s, "handles_event", "heuristic", fact.line) : s \in near}
  <2>1. Program!Resolve(t, f, fact) \in {one, many}
    BY <1>8 DEF Program!Resolve, near
  <2>2. ProgramJoins(one) /\ ProgramJoins(many)
    BY <1>3, ProgramEdgeJoins
  <2> HIDE DEF one, many
  <2> QED
    BY <2>1, <2>2
<1>9. CASE fact.kind \notin {"calls_qualified", "calls_name", "imports_symbol", "ui_handler_name"}
  BY <1>4, <1>9 DEF Program!Resolve
<1> QED
  BY <1>5, <1>6, <1>7, <1>8, <1>9

LEMMA ProgramFilesJoin ==
  ASSUME NEW t \in ProgramTrees, NEW f \in Modules
  PROVE  ProgramJoins(Program!ResolveFile(t, f)) /\ ProgramJoins(Program!PreciseFile(t, f))
<1>1. ProgramJoins(Program!ResolveFile(t, f))
  <2>1. \A e \in Program!ResolveFile(t, f) : \E i \in DOMAIN Program!FactsOf(t,
        f) : e \in Program!Resolve(t, f, Program!FactsOf(t, f)[i])
    BY DEF Program!ResolveFile
  <2> QED
    BY <2>1, ProgramResolveJoins DEF ProgramJoins
<1>2. ProgramJoins(Program!PreciseFile(t, f))
  <2>1. \A fact : Program!Definition(t, f, fact) \subseteq Program!Ends
    BY ProgramNamedIsAnEnd DEF Program!Definition, Program!Qualified, Program!Local
  <2>2. \A e \in Program!PreciseFile(t, f) : \E i \in DOMAIN Program!FactsOf(t, f) :
          e \in {Program!Edge(f, s, "calls", "semantic",
            Program!FactsOf(t, f)[i].line) : s \in Program!Definition(t, f,
              Program!FactsOf(t, f)[i])}
    BY DEF Program!PreciseFile
  <2> QED
    BY <2>1, <2>2, ProgramEdgeJoins DEF ProgramJoins
<1> QED
  BY <1>1, <1>2

LEMMA ProgramRefreshJoins ==
  ASSUME ProgramAllJoin, NEW failing, NEW unread, Program!Refresh(failing, unread)
  PROVE  ProgramAllJoin'
<1> DEFINE newParts == [f \in Modules |->
             IF f \in Program!Present(programTree)
               /\ Program!FactsOf(programTree, f) # <<>> THEN Program!BasePart(programTree,
                  f) ELSE Program!NoPart]
           newPrecise == [f \in Modules |->
             IF f \in Program!Present(programTree) THEN Program!PrecisePart(programTree, f,
               f \in failing) ELSE programPrecise[f]]
<1>0. programTree \in ProgramTrees /\ ProgramJoins({})
      /\ Program!Present(programTree) \subseteq Modules
  BY DEF ProgramAllJoin, Program!TypeOK, ProgramTrees, ProgramJoins, Program!Present
<1>1. ASSUME NEW f \in Modules PROVE ProgramJoins(newParts[f].edges)
  <2>1. ProgramJoins(Program!BasePart(programTree, f).edges)
    BY <1>0, ProgramFilesJoin DEF ProgramAllJoin, Program!BasePart
  <2>2. newParts[f] \in {Program!BasePart(programTree, f), Program!NoPart}
    OBVIOUS
  <2> HIDE DEF newParts
  <2>3. CASE newParts[f] = Program!BasePart(programTree, f)
    BY <2>1, <2>3
  <2>4. CASE newParts[f] = Program!NoPart
    <3>1. newParts[f].edges = {}
      BY <2>4 DEF Program!NoPart
    <3> QED
      BY <1>0, <3>1
  <2> QED
    BY <2>2, <2>3, <2>4
<1>2. ASSUME NEW f \in Modules PROVE ProgramJoins(newPrecise[f].edges)
  <2>1. ProgramJoins(Program!PrecisePart(programTree, f, f \in failing).edges)
    BY <1>0, ProgramFilesJoin DEF ProgramAllJoin, Program!PrecisePart
  <2>2. newPrecise[f] \in {Program!PrecisePart(programTree, f, f \in failing), programPrecise[f]}
    OBVIOUS
  <2> HIDE DEF newPrecise
  <2> QED
    BY <2>1, <2>2 DEF ProgramAllJoin
<1>3. /\ programParts' = newParts /\ programPrecise' = newPrecise /\ programRowOf' = programTree
      /\ programTree' = programTree /\ programRewrites' = programRewrites
      /\ programRelations' = Program!Merge(UNION {newParts[f].edges : f \in Modules},
                            UNION {newPrecise[f].edges : f \in Program!Present(programTree)})
      /\ programEffects' = [f \in Modules |-> IF f \in {g \in Modules : programRowOf[g] # programTree[g]} \ unread
                                     THEN programTree[f] ELSE programEffects[f]]
  BY DEF Program!Refresh
<1> HIDE DEF newParts, newPrecise
<1>4. programRelations' \subseteq (UNION {newParts[f].edges : f \in Modules})
                             \cup (UNION {newPrecise[f].edges : f \in Program!Present(programTree)})
  BY <1>3 DEF Program!Merge
<1>5. \A e \in programRelations' : e.source \in Modules /\ e.target \in Program!Ends
  BY <1>0, <1>1, <1>2, <1>4 DEF ProgramJoins
<1>6. programEffects' \in ProgramTrees
  BY <1>3 DEF ProgramAllJoin, Program!TypeOK, ProgramTrees
<1>7. /\ programTree' \in ProgramTrees /\ programRowOf' \in ProgramTrees
      /\ programRewrites' \in 0 .. MaxRewritten
  BY <1>0, <1>3 DEF ProgramAllJoin, Program!TypeOK
<1>8. Program!TypeOK'
  BY <1>5, <1>6, <1>7 DEF Program!TypeOK, ProgramTrees, Program!Ends
<1>9. \A f \in Modules : ProgramJoins(programParts'[f].edges)
      /\ ProgramJoins(programPrecise'[f].edges)
  BY <1>1, <1>2, <1>3
<1> QED
  BY <1>8, <1>9 DEF ProgramAllJoin, ProgramJoins, Program!Ends

ProgramKnown == StartTree \in ProgramTrees /\ MaxRewritten \in Nat

(* Every variable keeps its type, for any files and texts, whatever fails: *)
(* an edge leads from a file to a function of a file, or to a file.        *)
THEOREM ProgramTypeCorrect ==
  ASSUME ProgramKnown
  PROVE  Program!Spec => []Program!TypeOK
<1>1. Program!Init => ProgramAllJoin
  BY DEF Program!Init, ProgramAllJoin, Program!TypeOK, ProgramJoins, Program!NoPart,
    Program!NoPrecise, ProgramKnown, ProgramTrees
<1>2. ProgramAllJoin /\ [Program!Next]_Program!vars => ProgramAllJoin'
  <2> SUFFICES ASSUME ProgramAllJoin, [Program!Next]_Program!vars PROVE ProgramAllJoin'
    OBVIOUS
  <2>1. ASSUME NEW f \in Modules, NEW c \in ModuleTexts \cup {NoText}, Program!Edit(f, c)
        PROVE ProgramAllJoin'
    <3>1. programTree' \in [Modules -> ModuleTexts \cup {NoText}]
      BY <2>1 DEF Program!Edit, ProgramAllJoin, Program!TypeOK
    <3>2. programRewrites' \in 0 .. MaxRewritten
      BY <2>1 DEF Program!Edit, ProgramAllJoin, Program!TypeOK, ProgramKnown
    <3>3. UNCHANGED <<programRowOf, programParts, programPrecise, programRelations, programEffects>>
      BY <2>1 DEF Program!Edit
    <3> QED
      BY <3>1, <3>2, <3>3 DEF ProgramAllJoin, Program!TypeOK, ProgramJoins, Program!Ends
  <2>2. CASE UNCHANGED Program!vars
    BY <2>2 DEF Program!vars, ProgramAllJoin, Program!TypeOK, ProgramJoins, Program!Ends
  <2> QED
    BY <2>1, <2>2, ProgramRefreshJoins DEF Program!Next
<1>3. ProgramAllJoin => Program!TypeOK
  BY DEF ProgramAllJoin
<1> QED
  BY <1>1, <1>2, <1>3, PTL DEF Program!Spec

(* The variables of the instance, by either name. *)
LEMMA ProgramVarsAre == ProgramVars' = ProgramVars <=> Program!vars' = Program!vars
BY DEF ProgramVars, Program!vars

-----------------------------------------------------------------------------
(* What holds of Continuity for any objects, texts and bounds.             *)
ResumedSensible == MaxSaves \in Nat /\ MaxDrifts \in Nat

ResumedTrees == [Paths -> Texts \cup {NoText}]
ResumedChanges == (SUBSET Paths) \ {{}}
ResumedIdentities == [Resumed!Parts -> {1, 2}]
ResumedSessions == [revision : Nat, objects : SUBSET Paths, digests : ResumedTrees,
  identity : ResumedIdentities]

ResumedModes == {"direct", "selective-revalidate", "reorient"}
ResumedReplies == [mode : ResumedModes, changed : SUBSET Paths]

(* A revision for every difference: the chain is no longer than what was   *)
(* saved, and shorter as long as the index is behind.                      *)
ResumedTypeInv ==
  /\ resumedDisk \in ResumedTrees /\ resumedIndex \in ResumedTrees
  /\ resumedEdits \in 0..MaxSaves /\ resumedDrifts \in 0..MaxDrifts
  /\ resumedChain \in Seq(ResumedChanges)
  /\ Len(resumedChain) <= resumedEdits /\ (resumedDisk # resumedIndex
     => Len(resumedChain) < resumedEdits)
  /\ resumedIdentity \in ResumedIdentities
  /\ resumedResidents \subseteq Paths
  /\ resumedSession # Resumed!NoSession => resumedSession \in ResumedSessions
     /\ resumedSession.revision <= Len(resumedChain)
  /\ resumedReply # Resumed!NoReply => resumedReply \in ResumedReplies
     /\ resumedSession # Resumed!NoSession

LEMMA ResumedTypeInit == ResumedSensible /\ Resumed!Init => ResumedTypeInv
BY DEF ResumedSensible, Resumed!Init, ResumedTypeInv, ResumedTrees, ResumedChanges,
  ResumedIdentities, Resumed!Parts

LEMMA ResumedSessionIsOne == ASSUME NEW s \in ResumedSessions PROVE s # Resumed!NoSession
BY DEF ResumedSessions, Resumed!NoSession

(* What a reconcile adds to the chain names every file it found changed.   *)
LEMMA ResumedReconciled ==
  ASSUME ResumedTypeInv, Resumed!Reconcile
  PROVE  /\ resumedIndex' = resumedDisk /\ resumedChain' \in Seq(ResumedChanges)
         /\ Len(resumedChain') \in Nat /\ Len(resumedChain) \in Nat
         /\ Len(resumedChain) <= Len(resumedChain') /\ Len(resumedChain') <= resumedEdits
         /\ \A i \in 1..Len(resumedChain) : resumedChain'[i] = resumedChain[i]
         /\ \A o \in Paths : resumedDisk[o] # resumedIndex[o]
            => \E i \in Len(resumedChain) + 1..Len(resumedChain') : o \in resumedChain'[i]
<1>1. resumedIndex' = resumedDisk /\ resumedDisk \in ResumedTrees /\ resumedIndex \in ResumedTrees
      /\ resumedChain \in Seq(ResumedChanges)
  BY DEF ResumedTypeInv, Resumed!Reconcile
<1>2. CASE resumedDisk = resumedIndex
  <2>1. resumedChain' = resumedChain
    BY <1>2 DEF Resumed!Reconcile
  <2> QED
    BY <1>1, <1>2, <2>1 DEF ResumedTypeInv
<1>3. CASE resumedDisk # resumedIndex
  <2> DEFINE found == {o \in Paths : resumedDisk[o] # resumedIndex[o]}
  <2>1. resumedChain' = Append(resumedChain, found)
    BY <1>3 DEF Resumed!Reconcile
  <2>2. found # {}
    BY <1>1, <1>3 DEF ResumedTrees
  <2>3. found \in ResumedChanges
    <3>1. found \in SUBSET Paths /\ found \notin {{}}
      BY <2>2
    <3> QED
      BY <3>1, Zenon DEF ResumedChanges
  <2> HIDE DEF ResumedChanges
  <2>4. resumedChain' \in Seq(ResumedChanges) /\ Len(resumedChain') = Len(resumedChain) + 1
        /\ resumedChain'[Len(resumedChain) + 1] = found
        /\ \A i \in 1..Len(resumedChain) : resumedChain'[i] = resumedChain[i]
    BY <1>1, <2>1, <2>3
  <2>5. Len(resumedChain') <= resumedEdits
    BY <1>1, <1>3, <2>4 DEF ResumedTypeInv
  <2>6. ASSUME NEW o \in Paths, resumedDisk[o] # resumedIndex[o]
        PROVE  \E i \in Len(resumedChain) + 1..Len(resumedChain') : o \in resumedChain'[i]
    <3>1. o \in resumedChain'[Len(resumedChain) + 1]
          /\ Len(resumedChain) + 1 \in Len(resumedChain) + 1..Len(resumedChain')
      BY <1>1, <2>4, <2>6
    <3> QED
      BY <3>1
  <2> QED
    BY <1>1, <2>4, <2>5, <2>6
<1> QED
  BY <1>2, <1>3

LEMMA ResumedReconciledTypes ==
  ASSUME ResumedTypeInv, Resumed!Reconcile, UNCHANGED Resumed!world
  PROVE  /\ resumedDisk' \in ResumedTrees /\ resumedIndex' \in ResumedTrees /\ resumedEdits' \in 0..MaxSaves /\ resumedDrifts' \in 0..MaxDrifts
         /\ resumedChain' \in Seq(ResumedChanges) /\ Len(resumedChain') <= resumedEdits'
         /\ (resumedDisk' # resumedIndex' => Len(resumedChain') < resumedEdits')
         /\ resumedIdentity' \in ResumedIdentities
         /\ resumedSession # Resumed!NoSession => resumedSession \in ResumedSessions
            /\ resumedSession.revision <= Len(resumedChain')
<1>1. resumedDisk' = resumedDisk /\ resumedEdits' = resumedEdits /\ resumedDrifts' = resumedDrifts
      /\ resumedIdentity' = resumedIdentity
  BY DEF Resumed!world
<1>2. resumedSession # Resumed!NoSession => resumedSession \in ResumedSessions
      /\ resumedSession.revision <= Len(resumedChain) /\ resumedSession.revision \in Nat
  BY DEF ResumedTypeInv, ResumedSessions
<1>3. resumedSession # Resumed!NoSession => resumedSession.revision <= Len(resumedChain')
  BY <1>2, ResumedReconciled
<1> QED
  BY <1>1, <1>2, <1>3, ResumedReconciled DEF ResumedTypeInv

LEMMA ResumedResumeModes == Resumed!ResumeMode \in ResumedModes
BY DEF Resumed!ResumeMode, ResumedModes

LEMMA ResumedTypeStep == ResumedSensible /\ ResumedTypeInv /\ [Resumed!Next]_Resumed!vars
  => ResumedTypeInv'
<1> SUFFICES ASSUME ResumedSensible, ResumedTypeInv, [Resumed!Next]_Resumed!vars
    PROVE ResumedTypeInv'
  OBVIOUS
<1>0. Len(resumedChain) \in Nat /\ resumedEdits \in Nat /\ resumedDrifts \in Nat
  BY DEF ResumedTypeInv, ResumedSensible
<1>1. CASE UNCHANGED Resumed!vars
  BY <1>1 DEF Resumed!vars, Resumed!world, ResumedTypeInv
<1>2. ASSUME NEW o \in Paths, NEW t \in Texts \cup {NoText}, Resumed!Edit(o, t)
      PROVE ResumedTypeInv'
  <2>1. resumedDisk' \in ResumedTrees /\ resumedEdits' = resumedEdits + 1
        /\ resumedEdits' \in 0..MaxSaves
    BY <1>0, <1>2 DEF Resumed!Edit, ResumedTypeInv, ResumedTrees, ResumedSensible
  <2> QED
    BY <1>0, <1>2, <2>1 DEF Resumed!Edit, ResumedTypeInv
<1>3. ASSUME NEW part \in Resumed!Parts, Resumed!Drift(part) PROVE ResumedTypeInv'
  <2>1. resumedIdentity' \in ResumedIdentities /\ resumedDrifts' \in 0..MaxDrifts
    BY <1>0, <1>3 DEF Resumed!Drift, ResumedTypeInv, ResumedIdentities, ResumedSensible
  <2> QED
    BY <1>3, <2>1 DEF Resumed!Drift, ResumedTypeInv
<1>4. ASSUME NEW held \in SUBSET Paths, Resumed!Work(held) PROVE ResumedTypeInv'
  <2>1. Resumed!Reconcile /\ UNCHANGED <<Resumed!world, resumedSession, resumedReply>>
        /\ resumedResidents' \subseteq Paths
    BY <1>4 DEF Resumed!Work
  <2>2. resumedReply' = Resumed!NoReply
    BY <1>4 DEF Resumed!Work, Resumed!Idle
  <2> QED
    BY <2>1, <2>2, ResumedReconciledTypes DEF ResumedTypeInv
<1>5. CASE Resumed!Checkpoint
  <2>1. Resumed!Reconcile
    BY <1>5 DEF Resumed!Checkpoint
  <2>2. resumedSession' \in ResumedSessions /\ resumedSession'.revision = Len(resumedChain')
    BY <1>5, <2>1, ResumedReconciled DEF Resumed!Checkpoint, ResumedSessions, ResumedTypeInv
  <2> QED
    BY <1>0, <1>5, <2>1, <2>2, ResumedReconciled
      DEF Resumed!Checkpoint, Resumed!world, ResumedTypeInv, Resumed!Idle
<1>6. CASE Resumed!Resume
  <2>1. Resumed!Reconcile /\ resumedSession \in ResumedSessions
        /\ resumedSession.revision <= Len(resumedChain)
    BY <1>6 DEF Resumed!Resume, ResumedTypeInv
  <2>2. Resumed!ChangedSince(resumedSession.revision) \subseteq Paths
    <3>1. ASSUME NEW i \in resumedSession.revision + 1..Len(resumedChain')
          PROVE resumedChain'[i] \subseteq Paths
      <4>1. i \in 1..Len(resumedChain') /\ resumedChain' \in Seq(ResumedChanges)
        BY <2>1, ResumedReconciled DEF ResumedSessions
      <4>2. resumedChain'[i] \in ResumedChanges
        BY <4>1
      <4> QED
        BY <4>2 DEF ResumedChanges
    <3> QED
      BY <3>1 DEF Resumed!ChangedSince
  <2>3. resumedReply' \in ResumedReplies
    BY <1>6, <2>2, ResumedResumeModes DEF Resumed!Resume, ResumedReplies
  <2> QED
    BY <1>6, <2>1, <2>3, ResumedReconciledTypes DEF Resumed!Resume, ResumedTypeInv
<1>7. CASE Resumed!Taken
  BY <1>7 DEF Resumed!Taken, Resumed!world, ResumedTypeInv
<1> QED
  BY <1>1, <1>2, <1>3, <1>4, <1>5, <1>6, <1>7 DEF Resumed!Next

(* The files, the index, the chain, the checkpoint and the answers keep    *)
(* their types, and there are no more revisions than saves.                *)
THEOREM ResumedTypeCorrect == ASSUME ResumedSensible PROVE Resumed!Spec => []Resumed!TypeOK
<1>1. ResumedTypeInv => Resumed!TypeOK
  <2> SUFFICES ASSUME ResumedTypeInv PROVE Resumed!TypeOK
    OBVIOUS
  <2>1. resumedSession.revision \in -1..Resumed!revision
    BY DEF ResumedTypeInv, ResumedSessions, Resumed!NoSession, Resumed!revision
  <2>2. resumedReply.mode \in {"none", "direct", "selective-revalidate", "reorient"}
    BY DEF ResumedTypeInv, ResumedReplies, Resumed!NoReply, ResumedModes
  <2> QED
    BY <2>1, <2>2
      DEF ResumedTypeInv, Resumed!TypeOK, ResumedTrees, ResumedChanges, ResumedIdentities,
        Resumed!revision, ResumedSensible
<1> QED
  BY <1>1, ResumedTypeInit, ResumedTypeStep, PTL DEF Resumed!Spec

-----------------------------------------------------------------------------
(* A resumption is safe                                                    *)

(* The chain accounts for every difference between checkpoint and index,   *)
(* and while an answer waits to be taken nothing moves.                    *)
ResumedChainInv ==
  /\ resumedSession # Resumed!NoSession =>
       \A o \in Paths : resumedIndex[o] # resumedSession.digests[o] =>
         \E i \in resumedSession.revision + 1..Len(resumedChain) : o \in resumedChain[i]
  /\ ~Resumed!Idle => resumedDisk = resumedIndex
  /\ Resumed!ResumeIsSafe

LEMMA ResumedChainInit == Resumed!Init => ResumedChainInv
BY DEF Resumed!Init, ResumedChainInv, Resumed!Idle, Resumed!ResumeIsSafe, Resumed!NoReply

(* Nothing is waiting for an answer: only the chain has to be minded.      *)
LEMMA ResumedNoAnswer == Resumed!Idle => Resumed!ResumeIsSafe
BY DEF Resumed!Idle, Resumed!ResumeIsSafe, Resumed!NoReply

(* What the chain accounted for it still accounts for.                     *)
LEMMA ResumedAccounted ==
  ASSUME ResumedTypeInv, ResumedChainInv, Resumed!Reconcile, resumedSession # Resumed!NoSession
  PROVE  \A o \in Paths : resumedIndex'[o] # resumedSession.digests[o] =>
           \E i \in resumedSession.revision + 1..Len(resumedChain') : o \in resumedChain'[i]
<1> SUFFICES ASSUME NEW o \in Paths, resumedIndex'[o] # resumedSession.digests[o]
             PROVE  \E i \in resumedSession.revision + 1..Len(resumedChain') : o \in resumedChain'[i]
  OBVIOUS
<1>1. resumedSession.revision \in Nat /\ resumedSession.revision <= Len(resumedChain)
  BY DEF ResumedTypeInv, ResumedSessions
<1>2. CASE resumedDisk[o] # resumedIndex[o]
  <2>1. PICK i \in Len(resumedChain) + 1..Len(resumedChain') : o \in resumedChain'[i]
    BY <1>2, ResumedReconciled
  <2>2. i \in resumedSession.revision + 1..Len(resumedChain')
    BY <1>1, <2>1, ResumedReconciled
  <2> QED
    BY <2>1, <2>2
<1>3. CASE resumedDisk[o] = resumedIndex[o]
  <2>1. PICK i \in resumedSession.revision + 1..Len(resumedChain) : o \in resumedChain[i]
    BY <1>3, ResumedReconciled DEF ResumedChainInv
  <2>2. i \in resumedSession.revision + 1..Len(resumedChain') /\ resumedChain'[i] = resumedChain[i]
    BY <1>1, <2>1, ResumedReconciled
  <2> QED
    BY <2>1, <2>2
<1> QED
  BY <1>2, <1>3

LEMMA ResumedResumeStep == ResumedTypeInv /\ ResumedChainInv /\ Resumed!Resume
  => Resumed!ResumeIsSafe'
<1> SUFFICES ASSUME ResumedTypeInv, ResumedChainInv, Resumed!Resume PROVE Resumed!ResumeIsSafe'
  OBVIOUS
<1>1. Resumed!Reconcile /\ resumedSession # Resumed!NoSession
      /\ UNCHANGED <<resumedDisk, resumedIdentity, resumedSession>>
  BY DEF Resumed!Resume, Resumed!world
<1>2. resumedIndex' = resumedDisk /\ resumedSession \in ResumedSessions
  BY <1>1, ResumedReconciled DEF ResumedTypeInv
<1> DEFINE differs == {o \in Paths : resumedDisk[o] # resumedSession.digests[o]}
<1>3. resumedReply'.mode = Resumed!ResumeMode
      /\ resumedReply'.changed = Resumed!ChangedSince(resumedSession.revision)
  BY DEF Resumed!Resume
<1>4. differs \subseteq Resumed!ChangedSince(resumedSession.revision)
  BY <1>1, <1>2, ResumedAccounted DEF Resumed!ChangedSince
<1>5. Resumed!ResumeMode # "reorient" =>
        /\ ~Resumed!Drifted("compiler") /\ ~Resumed!Drifted("authority")
        /\ Resumed!Stale = {} /\ Resumed!Missing = {}
  BY DEF Resumed!ResumeMode
<1>6. Resumed!Stale = {} /\ Resumed!Missing = {} => resumedSession.objects \cap differs = {}
  BY <1>2 DEF Resumed!Stale, Resumed!Missing
<1>7. Resumed!ResumeMode = "direct" => differs = {} /\ resumedIdentity = resumedSession.identity
  <2> SUFFICES ASSUME Resumed!ResumeMode = "direct"
      PROVE differs = {} /\ resumedIdentity = resumedSession.identity
    OBVIOUS
  <2>1. resumedSession.revision = Len(resumedChain') /\ ~Resumed!Drifted("provider")
    BY DEF Resumed!ResumeMode
  <2>2. Resumed!ChangedSince(resumedSession.revision) = {}
    <3>1. resumedSession.revision + 1..Len(resumedChain') = {}
      BY <1>1, <2>1, ResumedReconciled
    <3> QED
      BY <3>1 DEF Resumed!ChangedSince
  <2>3. \A part \in Resumed!Parts : resumedIdentity[part] = resumedSession.identity[part]
    BY <1>5, <2>1 DEF Resumed!Drifted, Resumed!Parts
  <2>4. resumedIdentity \in ResumedIdentities /\ resumedSession.identity \in ResumedIdentities
    BY <1>2 DEF ResumedTypeInv, ResumedSessions
  <2> QED
    BY <1>4, <2>2, <2>3, <2>4 DEF ResumedIdentities
<1>8. Resumed!Drifted("compiler")' = Resumed!Drifted("compiler")
      /\ Resumed!Drifted("authority")' = Resumed!Drifted("authority")
  BY <1>1 DEF Resumed!Drifted
<1>9. /\ differs \subseteq resumedReply'.changed
      /\ resumedReply'.mode = "direct" => differs = {} /\ resumedIdentity = resumedSession.identity
      /\ resumedReply'.mode = "selective-revalidate" =>
           resumedSession.objects \cap differs = {} /\ ~Resumed!Drifted("compiler")
             /\ ~Resumed!Drifted("authority")
  BY <1>3, <1>4, <1>5, <1>6, <1>7
<1> QED
  BY <1>1, <1>8, <1>9 DEF Resumed!ResumeIsSafe

LEMMA ResumedChainStep == ResumedSensible /\ ResumedTypeInv /\ ResumedChainInv
  /\ [Resumed!Next]_Resumed!vars => ResumedChainInv'
<1> SUFFICES ASSUME ResumedSensible, ResumedTypeInv, ResumedChainInv, [Resumed!Next]_Resumed!vars
    PROVE ResumedChainInv'
  OBVIOUS
<1>1. CASE UNCHANGED Resumed!vars
  BY <1>1 DEF Resumed!vars, Resumed!world, ResumedChainInv, Resumed!Idle, Resumed!ResumeIsSafe,
    Resumed!Drifted
<1>2. ASSUME NEW o \in Paths, NEW t \in Texts \cup {NoText}, Resumed!Edit(o, t)
      PROVE ResumedChainInv'
  <2>1. Resumed!Idle' /\ UNCHANGED <<resumedSession, resumedIndex, resumedChain>>
    BY <1>2 DEF Resumed!Edit, Resumed!Idle
  <2>2. Resumed!ResumeIsSafe'
    BY <2>1, ResumedNoAnswer, PTL
  <2> QED
    BY <2>1, <2>2 DEF ResumedChainInv
<1>3. ASSUME NEW part \in Resumed!Parts, Resumed!Drift(part) PROVE ResumedChainInv'
  <2>1. Resumed!Idle' /\ UNCHANGED <<resumedSession, resumedIndex, resumedChain>>
    BY <1>3 DEF Resumed!Drift, Resumed!Idle
  <2>2. Resumed!ResumeIsSafe'
    BY <2>1, ResumedNoAnswer, PTL
  <2> QED
    BY <2>1, <2>2 DEF ResumedChainInv
<1>4. ASSUME NEW held \in SUBSET Paths, Resumed!Work(held) PROVE ResumedChainInv'
  <2>1. Resumed!Idle' /\ Resumed!Reconcile /\ UNCHANGED resumedSession
    BY <1>4 DEF Resumed!Work, Resumed!Idle
  <2>2. Resumed!ResumeIsSafe'
    BY <2>1, ResumedNoAnswer, PTL
  <2> QED
    BY <2>1, <2>2, ResumedAccounted DEF ResumedChainInv
<1>5. CASE Resumed!Checkpoint
  <2>1. Resumed!Idle' /\ Resumed!Reconcile /\ resumedSession'.digests = resumedIndex'
    BY <1>5 DEF Resumed!Checkpoint, Resumed!Idle
  <2>2. Resumed!ResumeIsSafe'
    BY <2>1, ResumedNoAnswer, PTL
  <2> QED
    BY <2>1, <2>2 DEF ResumedChainInv
<1>6. CASE Resumed!Resume
  <2>1. Resumed!Reconcile /\ UNCHANGED <<resumedSession, resumedDisk>>
        /\ resumedSession # Resumed!NoSession
    BY <1>6 DEF Resumed!Resume, Resumed!world
  <2>2. resumedDisk' = resumedIndex'
    BY <2>1, ResumedReconciled
  <2> QED
    BY <1>6, <2>1, <2>2, ResumedAccounted, ResumedResumeStep DEF ResumedChainInv
<1>7. CASE Resumed!Taken
  <2>1. Resumed!Idle' /\ UNCHANGED <<resumedSession, resumedIndex, resumedChain>>
    BY <1>7 DEF Resumed!Taken, Resumed!Idle
  <2>2. Resumed!ResumeIsSafe'
    BY <2>1, ResumedNoAnswer, PTL
  <2> QED
    BY <2>1, <2>2 DEF ResumedChainInv
<1> QED
  BY <1>1, <1>2, <1>3, <1>4, <1>5, <1>6, <1>7 DEF Resumed!Next

(* However files are edited and edited back, the toolchain drifts and the  *)
(* index is refreshed between checkpoint and resume: "direct" finds the    *)
(* world of the checkpoint, "selective-revalidate" its residents, and the  *)
(* answer names every file that differs.                                   *)
THEOREM ResumedResumptionIsSafe == ASSUME ResumedSensible
  PROVE Resumed!Spec => []Resumed!ResumeIsSafe
<1>1. ResumedChainInv => Resumed!ResumeIsSafe
  BY DEF ResumedChainInv
<1> QED
  BY <1>1, ResumedTypeInit, ResumedTypeStep, ResumedChainInit, ResumedChainStep, PTL
    DEF Resumed!Spec

(* The variables of the instance, by either name. *)
LEMMA ResumedVarsAre == ResumedVars' = ResumedVars <=> Resumed!vars' = Resumed!vars
BY DEF ResumedVars, Resumed!vars, Resumed!world

-----------------------------------------------------------------------------
(***************************************************************************)
(* An atomic block of the workspace database is all there or not at all,   *)
(* however deep the blocks nest, whatever the helpers inside them commit   *)
(* or roll back, whichever writes fail and whenever the process dies.      *)
(*                                                                         *)
(* Why it holds: the writes of a finished block lie in the same open       *)
(* blocks, all of them, so when one of those fails they go together; and   *)
(* while blocks are open, this connection sees every write made in them    *)
(* that still stands, except between a rollback from under them and the    *)
(* end of the exception it raises.                                         *)
(***************************************************************************)
(* What the theorems assume of the bounds. *)
StoreSensible == MaxBlocks \in Nat /\ MaxWrites \in Nat

StoreEndings == {"open", "done", "failed"}
StoreFrames == [block : Nat, nested : BOOLEAN, mark : SUBSET Nat]

StoreTypeInv ==
  /\ storeSaved \subseteq DOMAIN storeWrites /\ storeView \subseteq DOMAIN storeWrites
  /\ storeOpen \in BOOLEAN
  /\ storeFrames \in Seq(StoreFrames)
  /\ \A i \in DOMAIN storeFrames :
       storeFrames[i].mark \subseteq DOMAIN storeWrites /\ storeFrames[i].block \in DOMAIN storeEnds
  /\ storeRaising \in {"no", "error", "rollback"} /\ storeLock \in {"free", "us", "them"}
  /\ storeWrites \in Seq(SUBSET Store!Blocks) /\ Len(storeWrites) <= MaxWrites
  /\ storeEnds \in Seq(StoreEndings) /\ Len(storeEnds) <= MaxBlocks
  /\ \A w \in DOMAIN storeWrites : storeWrites[w] \subseteq DOMAIN storeEnds

(* The blocks on the stack are the open ones, entered in order, and a      *)
(* write made in one of them was made in all below it.                     *)
StoreFrameInv ==
  /\ \A i \in DOMAIN storeFrames : storeEnds[storeFrames[i].block] = "open"
  /\ \A i, j \in DOMAIN storeFrames : i < j => storeFrames[i].block < storeFrames[j].block
  /\ \A b \in DOMAIN storeEnds : storeEnds[b] = "open"
     => \E i \in DOMAIN storeFrames : storeFrames[i].block = b
  /\ \A i \in DOMAIN storeFrames : i > 1 => storeFrames[i].nested
  /\ \A w \in DOMAIN storeWrites : \A i, j \in DOMAIN storeFrames :
       j < i /\ storeFrames[i].block \in storeWrites[w] => storeFrames[j].block \in storeWrites[w]

StoreOpenIn(w) == \E b \in storeWrites[w] : storeEnds[b] = "open"

(* What a savepoint remembers: standing writes made before its block, and  *)
(* of those made in the open blocks, every one.                            *)
StoreMarkInv ==
  /\ \A i \in DOMAIN storeFrames : \A w \in storeFrames[i].mark :
       Store!Standing(w) /\ \A b \in storeWrites[w] : b < storeFrames[i].block
  /\ \A w \in DOMAIN storeWrites : Store!Standing(w) /\ StoreOpenIn(w) =>
       \A i \in DOMAIN storeFrames : storeFrames[i].block \in storeWrites[w]
         \/ w \in storeFrames[i].mark

StoreViewInv ==
  /\ \A w \in storeView : Store!Standing(w)
  /\ \A w \in storeSaved : \A b \in storeWrites[w] : storeEnds[b] = "done"
  /\ storeRaising = "rollback" => storeView = storeSaved
  /\ storeRaising # "rollback" => (storeOpen \/ Store!Depth = 0)
  /\ storeRaising # "rollback" => \A w \in DOMAIN storeWrites : Store!Standing(w) /\ StoreOpenIn(w)
     => w \in storeView

StoreWhole(b, content) == Store!Within(b) \subseteq content \/ Store!Within(b) \cap content = {}

(* The writes of a finished block share their open blocks. *)
StoreTogether ==
  \A b, c \in DOMAIN storeEnds : storeEnds[b] = "done" /\ storeEnds[c] = "open" =>
    \A v, w \in DOMAIN storeWrites :
      b \in storeWrites[v] /\ b \in storeWrites[w] /\ c \in storeWrites[v] => c \in storeWrites[w]

StoreWholeInv ==
  \A b \in DOMAIN storeEnds : storeEnds[b] = "done" =>
    /\ StoreWhole(b, storeSaved) /\ StoreWhole(b, storeView)
    /\ \A i \in DOMAIN storeFrames : StoreWhole(b, storeFrames[i].mark)

StoreInv == StoreTypeInv /\ StoreFrameInv /\ StoreMarkInv /\ StoreViewInv /\ StoreTogether
  /\ StoreWholeInv

-----------------------------------------------------------------------------
LEMMA StoreAppendFacts ==
  ASSUME NEW S, NEW s \in Seq(S), NEW x \in S
  PROVE  /\ Append(s, x) \in Seq(S) /\ Len(Append(s, x)) = Len(s) + 1
         /\ \A i \in DOMAIN s : i \in DOMAIN Append(s, x) /\ Append(s, x)[i] = s[i]
         /\ Len(s) + 1 \in DOMAIN Append(s, x) /\ Append(s, x)[Len(s) + 1] = x
         /\ \A i \in DOMAIN Append(s, x) : i \in DOMAIN s \/ i = Len(s) + 1
         /\ \A i \in DOMAIN s : i \in Nat /\ i < Len(s) + 1
OBVIOUS

LEMMA StoreFrontFacts ==
  ASSUME NEW S, NEW s \in Seq(S), Len(s) > 0
  PROVE  /\ Store!Front(s) \in Seq(S) /\ Len(Store!Front(s)) = Len(s) - 1
         /\ \A i \in DOMAIN Store!Front(s) : i \in DOMAIN s /\ Store!Front(s)[i] = s[i]
            /\ i < Len(s)
         /\ \A i \in DOMAIN s : i = Len(s) \/ i \in DOMAIN Store!Front(s)
         /\ Len(s) \in DOMAIN s /\ s[Len(s)] \in S
<1> DEFINE f == Store!Front(s)
<1>1. f = SubSeq(s, 1, Len(s) - 1)
  BY DEF Store!Front
<1>2. Len(s) \in Nat /\ Len(s) - 1 \in Nat /\ DOMAIN s = 1 .. Len(s)
  OBVIOUS
<1>3. f \in Seq(S) /\ Len(f) = Len(s) - 1
  BY <1>1, <1>2
<1>4. \A i \in 1 .. Len(s) - 1 : f[i] = s[i]
  BY <1>1, <1>2
<1> QED  BY <1>2, <1>3, <1>4

LEMMA StoreInitial == ASSUME StoreSensible PROVE Store!Init => StoreInv
<1>1. Store!Init => StoreTypeInv
  <2> SUFFICES ASSUME Store!Init PROVE StoreTypeInv
    OBVIOUS
  <2>1. storeFrames = <<>> /\ storeWrites = <<>> /\ storeEnds = <<>> /\ storeSaved = {}
        /\ storeView = {}
    BY DEF Store!Init
  <2>2. DOMAIN storeFrames = {} /\ DOMAIN storeWrites = {} /\ Len(storeWrites) = 0
        /\ Len(storeEnds) = 0
    BY <2>1
  <2>3. storeFrames \in Seq(StoreFrames) /\ storeWrites \in Seq(SUBSET Store!Blocks)
        /\ storeEnds \in Seq(StoreEndings)
    BY <2>1
  <2>4. storeOpen \in BOOLEAN
    BY DEF Store!Init
  <2>5. storeRaising \in {"no", "error", "rollback"} /\ storeLock \in {"free", "us", "them"}
    BY DEF Store!Init
  <2>6. Len(storeWrites) <= MaxWrites /\ Len(storeEnds) <= MaxBlocks
    BY <2>2 DEF StoreSensible
  <2> QED  BY <2>1, <2>2, <2>3, <2>4, <2>5, <2>6 DEF StoreTypeInv
<1>2. Store!Init => StoreFrameInv /\ StoreMarkInv
  BY DEF Store!Init, StoreFrameInv, StoreMarkInv
<1>3. Store!Init => StoreViewInv
  BY DEF Store!Init, StoreViewInv, Store!Depth
<1>4. Store!Init => StoreTogether /\ StoreWholeInv
  BY DEF Store!Init, StoreTogether, StoreWholeInv
<1> QED  BY <1>1, <1>2, <1>3, <1>4 DEF StoreInv

(* What enters and leaves the stack, the writes and the file untouched. *)
LEMMA StoreEnterStep == ASSUME StoreSensible, StoreInv, Store!Enter PROVE StoreInv'
<1> DEFINE n == Len(storeEnds) + 1
           top == [block |-> n, nested |-> storeOpen \/ Store!Depth > 0, mark |-> storeView]
<1>1. /\ storeFrames' = Append(storeFrames, top) /\ storeEnds' = Append(storeEnds, "open")
      /\ UNCHANGED <<storeSaved, storeView, storeRaising, storeWrites>> /\ storeOpen' = TRUE
      /\ storeRaising = "no" /\ Len(storeEnds) < MaxBlocks
  BY DEF Store!Enter, Store!Calm
<1>2. n \in Nat /\ (storeOpen \/ Store!Depth > 0) \in BOOLEAN /\ storeView \in SUBSET Nat
  BY DEF StoreInv, StoreTypeInv, Store!Depth
<1>3. top \in StoreFrames
  BY <1>2 DEF StoreFrames
<1> HIDE DEF top
<1>4. top.block = n /\ top.nested = (storeOpen \/ Store!Depth > 0) /\ top.mark = storeView
  BY DEF top
<1>5. /\ \A b \in DOMAIN storeEnds : b \in DOMAIN storeEnds' /\ storeEnds'[b] = storeEnds[b]
         /\ b \in Nat /\ b < n
      /\ n \in DOMAIN storeEnds' /\ storeEnds'[n] = "open" /\ storeEnds' \in Seq(StoreEndings)
      /\ Len(storeEnds') = n
      /\ \A b \in DOMAIN storeEnds' : b \in DOMAIN storeEnds \/ b = n
  BY <1>1, StoreAppendFacts DEF StoreInv, StoreTypeInv, StoreEndings
<1>6. /\ \A i \in DOMAIN storeFrames : i \in DOMAIN storeFrames' /\ storeFrames'[i] = storeFrames[i]
         /\ i \in Nat /\ i < Store!Depth + 1
      /\ Store!Depth + 1 \in DOMAIN storeFrames' /\ storeFrames'[Store!Depth + 1] = top
      /\ storeFrames' \in Seq(StoreFrames)
      /\ \A i \in DOMAIN storeFrames' : i \in DOMAIN storeFrames \/ i = Store!Depth + 1
  BY <1>1, <1>3, StoreAppendFacts DEF StoreInv, StoreTypeInv, Store!Depth
<1>7. \A w \in DOMAIN storeWrites : n \notin storeWrites[w]
      /\ storeWrites[w] \subseteq DOMAIN storeEnds
  BY DEF StoreInv, StoreTypeInv
<1>8. \A w \in DOMAIN storeWrites : (Store!Standing(w)' <=> Store!Standing(w))
      /\ (StoreOpenIn(w)' <=> StoreOpenIn(w))
  BY <1>1, <1>5, <1>7 DEF Store!Standing, StoreOpenIn
<1>9. \A b \in DOMAIN storeEnds : Store!Within(b)' = Store!Within(b)
  BY <1>1, <1>8 DEF Store!Within
<1>10. StoreTypeInv'
  <2>1. storeLock' \in {"free", "us", "them"}
    BY DEF Store!Enter, StoreInv, StoreTypeInv
  <2>2. \A i \in DOMAIN storeFrames' : storeFrames'[i].mark \subseteq DOMAIN storeWrites
        /\ storeFrames'[i].block \in DOMAIN storeEnds'
    BY <1>4, <1>5, <1>6 DEF StoreInv, StoreTypeInv
  <2>3. \A w \in DOMAIN storeWrites : storeWrites[w] \subseteq DOMAIN storeEnds'
    BY <1>5, <1>7
  <2>4. Len(storeEnds') <= MaxBlocks
    BY <1>1, <1>2, <1>5 DEF StoreSensible, StoreInv, StoreTypeInv
  <2> QED  BY <1>1, <1>5, <1>6, <2>1, <2>2, <2>3, <2>4 DEF StoreInv, StoreTypeInv, StoreSensible
<1>11. StoreFrameInv'
  <2>1. \A i \in DOMAIN storeFrames' : storeEnds'[storeFrames'[i].block] = "open"
    BY <1>4, <1>5, <1>6 DEF StoreInv, StoreTypeInv, StoreFrameInv
  <2>2. \A i, j \in DOMAIN storeFrames' : i < j => storeFrames'[i].block < storeFrames'[j].block
    <3> TAKE i, j \in DOMAIN storeFrames'
    <3> HAVE i < j
    <3>1. CASE j \in DOMAIN storeFrames
      <4>1. i \in DOMAIN storeFrames
        BY <1>6, <3>1 DEF Store!Depth, StoreInv, StoreTypeInv
      <4> QED  BY <1>6, <3>1, <4>1 DEF StoreInv, StoreFrameInv
    <3>2. CASE j = Store!Depth + 1
      <4>1. i \in DOMAIN storeFrames
        BY <1>6, <3>2 DEF Store!Depth, StoreInv, StoreTypeInv
      <4>2. storeFrames[i].block \in DOMAIN storeEnds
        BY <4>1 DEF StoreInv, StoreTypeInv
      <4> QED  BY <1>4, <1>5, <1>6, <3>2, <4>1, <4>2
    <3> QED  BY <1>6, <3>1, <3>2
  <2>3. \A b \in DOMAIN storeEnds' : storeEnds'[b] = "open"
        => \E i \in DOMAIN storeFrames' : storeFrames'[i].block = b
    <3> TAKE b \in DOMAIN storeEnds'
    <3> HAVE storeEnds'[b] = "open"
    <3>1. CASE b = n
      BY <1>4, <1>6, <3>1
    <3>2. CASE b \in DOMAIN storeEnds
      <4>1. PICK i \in DOMAIN storeFrames : storeFrames[i].block = b
        BY <1>5, <3>2 DEF StoreInv, StoreFrameInv
      <4> QED  BY <1>6, <4>1
    <3> QED  BY <1>5, <3>1, <3>2
  <2>4. \A i \in DOMAIN storeFrames' : i > 1 => storeFrames'[i].nested
    <3>1. Store!Depth \in Nat
      BY DEF Store!Depth, StoreInv, StoreTypeInv
    <3>2. Store!Depth + 1 > 1 => top.nested
      <4> HAVE Store!Depth + 1 > 1
      <4>1. Store!Depth > 0
        BY <3>1
      <4> QED  BY <1>4, <4>1
    <3> QED  BY <1>6, <3>2 DEF StoreInv, StoreFrameInv
  <2>5. \A w \in DOMAIN storeWrites : \A i, j \in DOMAIN storeFrames' :
          j < i /\ storeFrames'[i].block \in storeWrites[w]
            => storeFrames'[j].block \in storeWrites[w]
    <3> TAKE w \in DOMAIN storeWrites
    <3> TAKE i, j \in DOMAIN storeFrames'
    <3> HAVE j < i /\ storeFrames'[i].block \in storeWrites[w]
    <3>1. i \in DOMAIN storeFrames
      BY <1>4, <1>6, <1>7
    <3>2. j \in DOMAIN storeFrames
      BY <1>6, <3>1 DEF Store!Depth, StoreInv, StoreTypeInv
    <3> QED  BY <1>6, <3>1, <3>2 DEF StoreInv, StoreFrameInv
  <2> QED  BY <1>1, <2>1, <2>2, <2>3, <2>4, <2>5 DEF StoreFrameInv
<1>12. StoreMarkInv'
  <2>1. \A i \in DOMAIN storeFrames' : \A w \in storeFrames'[i].mark :
          Store!Standing(w)' /\ \A b \in storeWrites[w] : b < storeFrames'[i].block
    BY <1>4, <1>5, <1>6, <1>7, <1>8 DEF StoreInv, StoreTypeInv, StoreMarkInv, StoreViewInv
  <2>2. \A w \in DOMAIN storeWrites : Store!Standing(w)' /\ StoreOpenIn(w)' =>
          \A i \in DOMAIN storeFrames' : storeFrames'[i].block \in storeWrites[w]
            \/ w \in storeFrames'[i].mark
    BY <1>1, <1>4, <1>6, <1>8 DEF StoreInv, StoreMarkInv, StoreViewInv
  <2> QED  BY <1>1, <2>1, <2>2 DEF StoreMarkInv
<1>13. StoreViewInv'
  BY <1>1, <1>5, <1>7, <1>8 DEF StoreInv, StoreTypeInv, StoreViewInv
<1>14. StoreTogether'
  BY <1>1, <1>5, <1>7 DEF StoreInv, StoreTogether
<1>15. StoreWholeInv'
  <2> SUFFICES ASSUME NEW b \in DOMAIN storeEnds', storeEnds'[b] = "done" PROVE
        /\ StoreWhole(b, storeSaved)' /\ StoreWhole(b, storeView)'
        /\ \A i \in DOMAIN storeFrames' : StoreWhole(b, storeFrames[i].mark)'
    BY DEF StoreWholeInv
  <2>1. b \in DOMAIN storeEnds /\ storeEnds[b] = "done"
    BY <1>5
  <2>2. StoreWhole(b, storeSaved) /\ StoreWhole(b, storeView)
        /\ \A i \in DOMAIN storeFrames : StoreWhole(b, storeFrames[i].mark)
    BY <2>1 DEF StoreInv, StoreWholeInv
  <2> QED  BY <1>1, <1>4, <1>6, <1>9, <2>1, <2>2 DEF StoreWhole
<1> QED  BY <1>10, <1>11, <1>12, <1>13, <1>14, <1>15 DEF StoreInv

(* The innermost block leaves the stack, one way or the other. *)
LEMMA StorePopStack ==
  ASSUME StoreSensible, StoreInv, Store!Depth > 0, NEW e \in {"done", "failed"},
         storeFrames' = Store!Front(storeFrames),
           storeEnds' = [storeEnds EXCEPT ![Store!Top.block] = e], UNCHANGED storeWrites
  PROVE  /\ Store!Top.block \in DOMAIN storeEnds /\ storeEnds[Store!Top.block] = "open" /\ storeEnds'[Store!Top.block] = e
         /\ DOMAIN storeEnds' = DOMAIN storeEnds /\ storeEnds' \in Seq(StoreEndings)
         /\ Len(storeEnds') = Len(storeEnds)
         /\ \A b \in DOMAIN storeEnds : b # Store!Top.block => storeEnds'[b] = storeEnds[b]
         /\ storeFrames' \in Seq(StoreFrames) /\ Store!Depth' = Store!Depth - 1
         /\ Store!Depth \in DOMAIN storeFrames
         /\ \A i \in DOMAIN storeFrames' : i \in DOMAIN storeFrames
            /\ storeFrames'[i] = storeFrames[i] /\ i < Store!Depth
         /\ \A i \in DOMAIN storeFrames : i = Store!Depth \/ i \in DOMAIN storeFrames'
         /\ \A i \in DOMAIN storeFrames' : storeFrames[i].block < Store!Top.block
         /\ (~Store!Top.nested => storeFrames' = <<>>)
         /\ \A w \in DOMAIN storeWrites : StoreOpenIn(w)' => StoreOpenIn(w)
         /\ StoreFrameInv'
<1> DEFINE t == Store!Top.block
<1>1. /\ storeFrames' \in Seq(StoreFrames) /\ Store!Depth' = Store!Depth - 1
      /\ Store!Depth \in DOMAIN storeFrames /\ Store!Depth \in Nat
      /\ \A i \in DOMAIN storeFrames' : i \in DOMAIN storeFrames /\ storeFrames'[i] = storeFrames[i]
         /\ i < Store!Depth
      /\ \A i \in DOMAIN storeFrames : i = Store!Depth \/ i \in DOMAIN storeFrames'
      /\ Store!Top \in StoreFrames /\ Store!Top = storeFrames[Store!Depth]
  BY StoreFrontFacts DEF StoreInv, StoreTypeInv, Store!Depth, Store!Top
<1>2. t \in DOMAIN storeEnds /\ storeEnds[t] = "open"
  BY <1>1 DEF StoreInv, StoreTypeInv, StoreFrameInv
<1> HIDE DEF t
<1>3. /\ DOMAIN storeEnds' = DOMAIN storeEnds /\ storeEnds' \in Seq(StoreEndings)
      /\ Len(storeEnds') = Len(storeEnds)
      /\ storeEnds'[t] = e /\ \A b \in DOMAIN storeEnds : b # t => storeEnds'[b] = storeEnds[b]
  BY <1>2 DEF StoreInv, StoreTypeInv, StoreEndings, t
<1>4. \A i \in DOMAIN storeFrames' : storeFrames[i].block < t
  BY <1>1 DEF StoreInv, StoreFrameInv, t
<1>5. ~Store!Top.nested => storeFrames' = <<>>
  <2> SUFFICES ASSUME ~Store!Top.nested PROVE storeFrames' = <<>>
    OBVIOUS
  <2>1. ~ (Store!Depth > 1)
    BY <1>1 DEF StoreInv, StoreFrameInv
  <2>2. Len(storeFrames') = 0
    BY <1>1, <2>1 DEF Store!Depth
  <2> QED  BY <1>1, <2>2
<1>6. \A w \in DOMAIN storeWrites : StoreOpenIn(w)' => StoreOpenIn(w)
  <2>1. \A w \in DOMAIN storeWrites : storeWrites[w] \subseteq DOMAIN storeEnds
    BY DEF StoreInv, StoreTypeInv
  <2>2. e # "open"
    OBVIOUS
  <2> QED  BY <1>3, <2>1, <2>2 DEF StoreOpenIn
<1>7. StoreFrameInv'
  <2>0. \A i \in DOMAIN storeFrames' : storeFrames[i].block \in DOMAIN storeEnds
        /\ storeFrames[i].block # t
    <3> TAKE i \in DOMAIN storeFrames'
    <3>1. storeFrames[i].block \in DOMAIN storeEnds /\ storeFrames[i].block < t
          /\ DOMAIN storeEnds \subseteq Nat
      BY <1>1, <1>4 DEF StoreInv, StoreTypeInv
    <3> QED  BY <1>2, <3>1
  <2>1. \A i \in DOMAIN storeFrames' : storeEnds'[storeFrames'[i].block] = "open"
    BY <1>1, <1>3, <2>0 DEF StoreInv, StoreFrameInv
  <2>2. \A i, j \in DOMAIN storeFrames' : i < j => storeFrames'[i].block < storeFrames'[j].block
    BY <1>1 DEF StoreInv, StoreFrameInv
  <2>3. \A b \in DOMAIN storeEnds' : storeEnds'[b] = "open"
        => \E i \in DOMAIN storeFrames' : storeFrames'[i].block = b
    <3> TAKE b \in DOMAIN storeEnds'
    <3> HAVE storeEnds'[b] = "open"
    <3>1. b # t /\ storeEnds[b] = "open" /\ b \in DOMAIN storeEnds
      BY <1>3
    <3>2. PICK i \in DOMAIN storeFrames : storeFrames[i].block = b
      BY <3>1 DEF StoreInv, StoreFrameInv
    <3>3. i # Store!Depth
      BY <1>1, <3>1, <3>2 DEF t
    <3> QED  BY <1>1, <3>2, <3>3
  <2>4. \A i \in DOMAIN storeFrames' : i > 1 => storeFrames'[i].nested
    BY <1>1 DEF StoreInv, StoreFrameInv
  <2>5. \A w \in DOMAIN storeWrites : \A i, j \in DOMAIN storeFrames' :
          j < i /\ storeFrames'[i].block \in storeWrites[w]
            => storeFrames'[j].block \in storeWrites[w]
    BY <1>1 DEF StoreInv, StoreFrameInv
  <2> QED  BY <2>1, <2>2, <2>3, <2>4, <2>5 DEF StoreFrameInv
<1> QED  BY <1>1, <1>2, <1>3, <1>4, <1>5, <1>6, <1>7 DEF t

LEMMA StoreLeaveStep == ASSUME StoreSensible, StoreInv, Store!Leave PROVE StoreInv'
<1> DEFINE t == Store!Top.block
<1>1. /\ Store!Depth > 0 /\ storeRaising = "no"
      /\ storeFrames' = Store!Front(storeFrames)
      /\ storeEnds' = [storeEnds EXCEPT ![Store!Top.block] = "done"]
      /\ UNCHANGED <<storeView, storeRaising, storeWrites>>
      /\ IF Store!Top.nested THEN UNCHANGED <<storeSaved, storeOpen,
         storeLock>> ELSE storeSaved' = storeView /\ Store!Ended
  BY DEF Store!Leave, Store!Calm
<1>2. "done" \in {"done", "failed"}
  OBVIOUS
<1>3. /\ t \in DOMAIN storeEnds /\ storeEnds[t] = "open" /\ storeEnds'[t] = "done"
      /\ DOMAIN storeEnds' = DOMAIN storeEnds /\ storeEnds' \in Seq(StoreEndings)
      /\ Len(storeEnds') = Len(storeEnds)
      /\ \A b \in DOMAIN storeEnds : b # t => storeEnds'[b] = storeEnds[b]
      /\ storeFrames' \in Seq(StoreFrames) /\ Store!Depth' = Store!Depth - 1
      /\ Store!Depth \in DOMAIN storeFrames
      /\ \A i \in DOMAIN storeFrames' : i \in DOMAIN storeFrames /\ storeFrames'[i] = storeFrames[i]
         /\ i < Store!Depth
      /\ \A i \in DOMAIN storeFrames : i = Store!Depth \/ i \in DOMAIN storeFrames'
      /\ \A i \in DOMAIN storeFrames' : storeFrames[i].block < t
      /\ (~Store!Top.nested => storeFrames' = <<>>)
      /\ \A w \in DOMAIN storeWrites : StoreOpenIn(w)' => StoreOpenIn(w)
      /\ StoreFrameInv'
  BY <1>1, <1>2, StorePopStack
<1>4. t = storeFrames[Store!Depth].block
  BY DEF Store!Top
<1> HIDE DEF t
<1>5. \A w \in DOMAIN storeWrites : storeWrites[w] \subseteq DOMAIN storeEnds
  BY DEF StoreInv, StoreTypeInv
<1>6. \A w \in DOMAIN storeWrites : Store!Standing(w)' <=> Store!Standing(w)
  <2>1. "done" # "failed" /\ "open" # "failed"
    OBVIOUS
  <2> QED  BY <1>1, <1>3, <1>5, <2>1 DEF Store!Standing
<1>7. \A b \in DOMAIN storeEnds : Store!Within(b)' = Store!Within(b)
  BY <1>1, <1>6 DEF Store!Within
<1>8. StoreTypeInv'
  <2>1. storeSaved' \subseteq DOMAIN storeWrites /\ storeView' \subseteq DOMAIN storeWrites
        /\ storeOpen' \in BOOLEAN
        /\ storeLock' \in {"free", "us", "them"}
    <3>1. CASE Store!Top.nested
      BY <1>1, <3>1 DEF StoreInv, StoreTypeInv
    <3>2. CASE ~Store!Top.nested
      BY <1>1, <3>2 DEF StoreInv, StoreTypeInv, Store!Ended
    <3> QED  BY <3>1, <3>2
  <2>2. \A i \in DOMAIN storeFrames' : storeFrames'[i].mark \subseteq DOMAIN storeWrites
        /\ storeFrames'[i].block \in DOMAIN storeEnds
    BY <1>3 DEF StoreInv, StoreTypeInv
  <2> QED  BY <1>1, <1>3, <2>1, <2>2 DEF StoreInv, StoreTypeInv
<1>9. StoreMarkInv'
  <2>1. \A i \in DOMAIN storeFrames' : \A w \in storeFrames'[i].mark :
          Store!Standing(w)' /\ \A b \in storeWrites[w] : b < storeFrames'[i].block
    BY <1>3, <1>6 DEF StoreInv, StoreTypeInv, StoreMarkInv
  <2>2. \A w \in DOMAIN storeWrites : Store!Standing(w)' /\ StoreOpenIn(w)' =>
          \A i \in DOMAIN storeFrames' : storeFrames'[i].block \in storeWrites[w]
            \/ w \in storeFrames'[i].mark
    BY <1>3, <1>6 DEF StoreInv, StoreMarkInv
  <2> QED  BY <1>1, <2>1, <2>2 DEF StoreMarkInv
<1>10. StoreViewInv'
  <2>1. \A w \in storeView' : Store!Standing(w)'
    BY <1>1, <1>6 DEF StoreInv, StoreTypeInv, StoreViewInv
  <2>2. \A w \in storeSaved' : \A b \in storeWrites[w] : storeEnds'[b] = "done"
    <3>1. CASE Store!Top.nested
      BY <1>1, <1>3, <1>5, <3>1 DEF StoreInv, StoreTypeInv, StoreViewInv
    <3>2. CASE ~Store!Top.nested
      <4> TAKE w \in storeSaved'
      <4> TAKE b \in storeWrites[w]
      <4>1. w \in storeView /\ w \in DOMAIN storeWrites /\ b \in DOMAIN storeEnds
            /\ storeEnds[b] # "failed"
        BY <1>1, <1>5, <3>2 DEF StoreInv, StoreTypeInv, StoreViewInv, Store!Standing
      <4>2. b # t => storeEnds[b] # "open"
        BY <1>3, <3>2, <4>1 DEF StoreFrameInv
      <4>3. storeEnds[b] \in StoreEndings
        BY <4>1 DEF StoreInv, StoreTypeInv
      <4> QED  BY <1>3, <4>1, <4>2, <4>3 DEF StoreEndings
    <3> QED  BY <3>1, <3>2
  <2>3. storeRaising' # "rollback"
    BY <1>1
  <2>4. storeOpen' \/ Store!Depth' = 0
    <3>1. CASE Store!Top.nested
      BY <1>1, <3>1 DEF StoreInv, StoreViewInv
    <3>2. CASE ~Store!Top.nested
      BY <1>3, <3>2 DEF Store!Depth
    <3> QED  BY <3>1, <3>2
  <2>5. \A w \in DOMAIN storeWrites : Store!Standing(w)' /\ StoreOpenIn(w)' => w \in storeView'
    BY <1>1, <1>3, <1>6 DEF StoreInv, StoreViewInv
  <2> QED  BY <1>1, <2>1, <2>2, <2>3, <2>4, <2>5 DEF StoreViewInv
<1>11. StoreTogether'
  <2> SUFFICES ASSUME NEW b \in DOMAIN storeEnds, NEW c \in DOMAIN storeEnds,
      storeEnds'[b] = "done", storeEnds'[c] = "open",
                      NEW v \in DOMAIN storeWrites, NEW w \in DOMAIN storeWrites,
                      b \in storeWrites[v], b \in storeWrites[w], c \in storeWrites[v]
               PROVE  c \in storeWrites[w]
    BY <1>1, <1>3 DEF StoreTogether
  <2>1. c # t /\ storeEnds[c] = "open"
    BY <1>3
  <2>2. CASE b = t
    <3>1. PICK i \in DOMAIN storeFrames' : storeFrames'[i].block = c
      BY <1>3 DEF StoreFrameInv
    <3>2. i \in DOMAIN storeFrames /\ i < Store!Depth /\ storeFrames[i].block = c
      BY <1>3, <3>1
    <3> QED  BY <1>3, <1>4, <2>2, <3>2 DEF StoreInv, StoreFrameInv
  <2>3. CASE b # t
    BY <1>3, <2>1, <2>3 DEF StoreInv, StoreTogether
  <2> QED  BY <2>2, <2>3
<1>12. StoreWholeInv'
  <2>1. ASSUME NEW b \in DOMAIN storeEnds, storeEnds'[b] = "done"
        PROVE  /\ StoreWhole(b, storeSaved) /\ StoreWhole(b, storeView)
               /\ \A i \in DOMAIN storeFrames' : StoreWhole(b, storeFrames[i].mark)
    <3>1. CASE b # t
      BY <1>3, <2>1, <3>1 DEF StoreInv, StoreWholeInv
    <3>2. CASE b = t
      <4>1. StoreWhole(b, storeSaved)
        BY <1>3, <3>2 DEF StoreWhole, Store!Within, StoreInv, StoreViewInv
      <4>2. StoreWhole(b, storeView)
        <5>1. \A w \in Store!Within(b) : w \in DOMAIN storeWrites /\ Store!Standing(w)
              /\ StoreOpenIn(w)
          BY <1>3, <3>2 DEF Store!Within, StoreOpenIn
        <5> QED  BY <1>1, <5>1 DEF StoreWhole, StoreInv, StoreViewInv
      <4>3. ASSUME NEW i \in DOMAIN storeFrames' PROVE StoreWhole(b, storeFrames[i].mark)
        <5>1. \A w \in storeFrames[i].mark : b \notin storeWrites[w]
          <6> TAKE w \in storeFrames[i].mark
          <6> SUFFICES ASSUME b \in storeWrites[w] PROVE FALSE
            OBVIOUS
          <6>1. b < storeFrames[i].block /\ storeFrames[i].block < b
            BY <1>3, <3>2 DEF StoreInv, StoreMarkInv
          <6>2. b \in Nat /\ storeFrames[i].block \in Nat
            BY <1>3 DEF StoreInv, StoreTypeInv
          <6> QED  BY <6>1, <6>2
        <5> QED  BY <5>1 DEF StoreWhole, Store!Within
      <4> QED  BY <4>1, <4>2, <4>3
    <3> QED  BY <3>1, <3>2
  <2>2. storeSaved' \in {storeSaved, storeView}
    BY <1>1
  <2> SUFFICES ASSUME NEW b \in DOMAIN storeEnds', storeEnds'[b] = "done" PROVE
        /\ StoreWhole(b, storeSaved)' /\ StoreWhole(b, storeView)'
        /\ \A i \in DOMAIN storeFrames' : StoreWhole(b, storeFrames[i].mark)'
    BY DEF StoreWholeInv
  <2>3. b \in DOMAIN storeEnds /\ Store!Within(b)' = Store!Within(b)
    BY <1>3, <1>7
  <2>4. \A i \in DOMAIN storeFrames' : storeFrames'[i].mark = storeFrames[i].mark
    BY <1>3
  <2> QED  BY <1>1, <2>1, <2>2, <2>3, <2>4 DEF StoreWhole
<1> QED  BY <1>3, <1>8, <1>9, <1>10, <1>11, <1>12 DEF StoreInv

(* When open blocks fail, the writes of a finished block go with them, all *)
(* of them or none.                                                        *)
LEMMA StoreFailTogether ==
  ASSUME StoreInv, UNCHANGED storeWrites, NEW failing,
         DOMAIN storeEnds' = DOMAIN storeEnds,
         \A b \in DOMAIN storeEnds : IF b \in failing THEN storeEnds[b] = "open"
           /\ storeEnds'[b] = "failed"
                                                ELSE storeEnds'[b] = storeEnds[b]
  PROVE  /\ \A w \in DOMAIN storeWrites : Store!Standing(w)' <=> Store!Standing(w) /\ storeWrites[w] \cap failing = {}
         /\ \A b \in DOMAIN storeEnds : storeEnds'[b] = "done" =>
              storeEnds[b] = "done" /\ (Store!Within(b)' = Store!Within(b) \/ Store!Within(b)' = {})
         /\ StoreTogether'
<1>0. \A w \in DOMAIN storeWrites : storeWrites[w] \subseteq DOMAIN storeEnds
  BY DEF StoreInv, StoreTypeInv
<1>1. \A w \in DOMAIN storeWrites : Store!Standing(w)' <=> Store!Standing(w)
      /\ storeWrites[w] \cap failing = {}
  <2> TAKE w \in DOMAIN storeWrites
  <2>1. "open" # "failed"
    OBVIOUS
  <2>2. Store!Standing(w)' <=> \A b \in storeWrites[w] : storeEnds'[b] # "failed"
    BY DEF Store!Standing
  <2>3. Store!Standing(w) <=> \A b \in storeWrites[w] : storeEnds[b] # "failed"
    BY DEF Store!Standing
  <2>4. \A b \in storeWrites[w] : storeEnds'[b] # "failed" <=> storeEnds[b] # "failed"
        /\ b \notin failing
    BY <1>0, <2>1
  <2> QED  BY <2>2, <2>3, <2>4
<1>2. ASSUME NEW b \in DOMAIN storeEnds, storeEnds'[b] = "done"
      PROVE  storeEnds[b] = "done" /\ (Store!Within(b)' = Store!Within(b) \/ Store!Within(b)' = {})
  <2>1. storeEnds[b] = "done"
    BY <1>2
  <2>2. Store!Within(b)' = {w \in Store!Within(b) : storeWrites[w] \cap failing = {}}
    BY <1>1 DEF Store!Within
  <2>3. \A v, w \in Store!Within(b) : storeWrites[v] \cap failing # {}
        => storeWrites[w] \cap failing # {}
    <3> TAKE v, w \in Store!Within(b)
    <3> HAVE storeWrites[v] \cap failing # {}
    <3>1. PICK c \in storeWrites[v] : c \in failing
      OBVIOUS
    <3>2. v \in DOMAIN storeWrites /\ w \in DOMAIN storeWrites /\ b \in storeWrites[v]
          /\ b \in storeWrites[w]
      BY DEF Store!Within
    <3>3. c \in DOMAIN storeEnds /\ storeEnds[c] = "open"
      BY <1>0, <3>1, <3>2
    <3>4. c \in storeWrites[w]
      BY <2>1, <3>1, <3>2, <3>3 DEF StoreInv, StoreTogether
    <3> QED  BY <3>1, <3>4
  <2> QED  BY <2>1, <2>2, <2>3
<1>3. StoreTogether'
  <2>1. \A b \in DOMAIN storeEnds : storeEnds'[b] \in {"done", "open"}
        => storeEnds[b] = storeEnds'[b]
    BY DEF StoreInv, StoreTypeInv
  <2> QED  BY <2>1 DEF StoreInv, StoreTogether
<1> QED  BY <1>1, <1>2, <1>3

LEMMA StoreFailStep == ASSUME StoreSensible, StoreInv, Store!Fail PROVE StoreInv'
<1> DEFINE t == Store!Top.block
           back == IF ~Store!Top.nested THEN storeSaved ELSE IF storeRaising = "rollback" THEN storeView ELSE Store!Top.mark
<1>1. /\ Store!Depth > 0 /\ storeRaising # "no"
      /\ storeFrames' = Store!Front(storeFrames)
      /\ storeEnds' = [storeEnds EXCEPT ![Store!Top.block] = "failed"]
      /\ UNCHANGED <<storeSaved, storeRaising, storeWrites>>
      /\ storeView' = back
      /\ IF Store!Top.nested THEN UNCHANGED <<storeOpen, storeLock>> ELSE Store!Ended
  BY DEF Store!Fail, Store!Calm
<1>2. "failed" \in {"done", "failed"}
  OBVIOUS
<1>3. /\ t \in DOMAIN storeEnds /\ storeEnds[t] = "open" /\ storeEnds'[t] = "failed"
      /\ DOMAIN storeEnds' = DOMAIN storeEnds /\ storeEnds' \in Seq(StoreEndings)
      /\ Len(storeEnds') = Len(storeEnds)
      /\ \A b \in DOMAIN storeEnds : b # t => storeEnds'[b] = storeEnds[b]
      /\ storeFrames' \in Seq(StoreFrames) /\ Store!Depth' = Store!Depth - 1
      /\ Store!Depth \in DOMAIN storeFrames
      /\ \A i \in DOMAIN storeFrames' : i \in DOMAIN storeFrames /\ storeFrames'[i] = storeFrames[i]
         /\ i < Store!Depth
      /\ \A i \in DOMAIN storeFrames : i = Store!Depth \/ i \in DOMAIN storeFrames'
      /\ \A i \in DOMAIN storeFrames' : storeFrames[i].block < t
      /\ (~Store!Top.nested => storeFrames' = <<>>)
      /\ \A w \in DOMAIN storeWrites : StoreOpenIn(w)' => StoreOpenIn(w)
      /\ StoreFrameInv'
  BY <1>1, <1>2, StorePopStack
<1>4. t = storeFrames[Store!Depth].block /\ Store!Top = storeFrames[Store!Depth]
  BY DEF Store!Top
<1> HIDE DEF t
<1>5. \A w \in DOMAIN storeWrites : storeWrites[w] \subseteq DOMAIN storeEnds
  BY DEF StoreInv, StoreTypeInv
<1>6. /\ \A w \in DOMAIN storeWrites : Store!Standing(w)' <=> Store!Standing(w)
         /\ t \notin storeWrites[w]
      /\ \A b \in DOMAIN storeEnds : storeEnds'[b] = "done" =>
           storeEnds[b] = "done" /\ (Store!Within(b)' = Store!Within(b) \/ Store!Within(b)' = {})
      /\ StoreTogether'
  <2>1. \A b \in DOMAIN storeEnds : IF b \in {t} THEN storeEnds[b] = "open"
        /\ storeEnds'[b] = "failed"
                                             ELSE storeEnds'[b] = storeEnds[b]
    BY <1>3
  <2>2. /\ \A w \in DOMAIN storeWrites : Store!Standing(w)' <=> Store!Standing(w)
           /\ storeWrites[w] \cap {t} = {}
        /\ \A b \in DOMAIN storeEnds : storeEnds'[b] = "done" =>
             storeEnds[b] = "done" /\ (Store!Within(b)' = Store!Within(b) \/ Store!Within(b)' = {})
        /\ StoreTogether'
    BY <1>1, <1>3, <2>1, StoreFailTogether
  <2> QED  BY <2>2
<1>7. back \in {storeSaved, Store!Top.mark} /\ (storeRaising = "rollback" => back = storeSaved)
      /\ (Store!Top.nested /\ storeRaising # "rollback" => back = Store!Top.mark)
  BY DEF StoreInv, StoreViewInv
<1> HIDE DEF back
<1>8. StoreTypeInv'
  <2>1. Store!Top.mark \subseteq DOMAIN storeWrites
    BY <1>3, <1>4 DEF StoreInv, StoreTypeInv
  <2>2. storeView' \subseteq DOMAIN storeWrites
    BY <1>1, <1>7, <2>1 DEF StoreInv, StoreTypeInv
  <2>3. storeOpen' \in BOOLEAN /\ storeLock' \in {"free", "us", "them"}
    <3>1. CASE Store!Top.nested
      BY <1>1, <3>1 DEF StoreInv, StoreTypeInv
    <3>2. CASE ~Store!Top.nested
      BY <1>1, <3>2 DEF StoreInv, StoreTypeInv, Store!Ended
    <3> QED  BY <3>1, <3>2
  <2>4. \A i \in DOMAIN storeFrames' : storeFrames'[i].mark \subseteq DOMAIN storeWrites
        /\ storeFrames'[i].block \in DOMAIN storeEnds
    BY <1>3 DEF StoreInv, StoreTypeInv
  <2> QED  BY <1>1, <1>3, <2>2, <2>3, <2>4 DEF StoreInv, StoreTypeInv
<1>9. StoreMarkInv'
  <2>1. \A i \in DOMAIN storeFrames' : \A w \in storeFrames'[i].mark :
          Store!Standing(w)' /\ \A b \in storeWrites[w] : b < storeFrames'[i].block
    <3> TAKE i \in DOMAIN storeFrames'
    <3> TAKE w \in storeFrames'[i].mark
    <3>1. w \in DOMAIN storeWrites /\ Store!Standing(w)
          /\ \A b \in storeWrites[w] : b < storeFrames[i].block
      BY <1>3 DEF StoreInv, StoreTypeInv, StoreMarkInv
    <3>2. t \notin storeWrites[w]
      <4> SUFFICES ASSUME t \in storeWrites[w] PROVE FALSE
        OBVIOUS
      <4>1. t < storeFrames[i].block /\ storeFrames[i].block < t /\ t \in Nat
            /\ storeFrames[i].block \in Nat
        BY <1>3, <3>1 DEF StoreInv, StoreTypeInv
      <4> QED  BY <4>1
    <3> QED  BY <1>3, <1>6, <3>1, <3>2
  <2>2. \A w \in DOMAIN storeWrites : Store!Standing(w)' /\ StoreOpenIn(w)' =>
          \A i \in DOMAIN storeFrames' : storeFrames'[i].block \in storeWrites[w]
            \/ w \in storeFrames'[i].mark
    BY <1>3, <1>6 DEF StoreInv, StoreMarkInv
  <2> QED  BY <1>1, <2>1, <2>2 DEF StoreMarkInv
<1>10. \A w \in storeSaved : w \in DOMAIN storeWrites /\ Store!Standing(w)
       /\ t \notin storeWrites[w]
  <2>1. "done" # "failed" /\ "done" # "open"
    OBVIOUS
  <2> QED  BY <1>3, <2>1 DEF StoreInv, StoreTypeInv, StoreViewInv, Store!Standing
<1>11. StoreViewInv'
  <2>1. \A w \in storeView' : Store!Standing(w)'
    <3>1. \A w \in Store!Top.mark : w \in DOMAIN storeWrites /\ Store!Standing(w)
          /\ t \notin storeWrites[w]
      <4> TAKE w \in Store!Top.mark
      <4>1. w \in DOMAIN storeWrites /\ Store!Standing(w) /\ \A b \in storeWrites[w] : b < t
        BY <1>3, <1>4 DEF StoreInv, StoreTypeInv, StoreMarkInv
      <4>2. t \in Nat
        BY <1>3 DEF StoreInv, StoreTypeInv
      <4> QED  BY <4>1, <4>2
    <3> QED  BY <1>1, <1>6, <1>7, <1>10, <3>1
  <2>2. \A w \in storeSaved' : \A b \in storeWrites[w] : storeEnds'[b] = "done"
    BY <1>1, <1>3, <1>5, <1>10 DEF StoreInv, StoreTypeInv, StoreViewInv
  <2>3. storeRaising' = "rollback" => storeView' = storeSaved'
    BY <1>1, <1>7
  <2>4. storeRaising' # "rollback" => (storeOpen' \/ Store!Depth' = 0)
    <3>1. CASE Store!Top.nested
      BY <1>1, <3>1 DEF StoreInv, StoreViewInv
    <3>2. CASE ~Store!Top.nested
      BY <1>3, <3>2 DEF Store!Depth
    <3> QED  BY <3>1, <3>2
  <2>5. storeRaising' # "rollback" => \A w \in DOMAIN storeWrites : Store!Standing(w)'
        /\ StoreOpenIn(w)' => w \in storeView'
    <3> HAVE storeRaising' # "rollback"
    <3> TAKE w \in DOMAIN storeWrites
    <3> HAVE Store!Standing(w)' /\ StoreOpenIn(w)'
    <3>1. Store!Standing(w) /\ StoreOpenIn(w) /\ t \notin storeWrites[w]
      BY <1>3, <1>6
    <3>2. w \in Store!Top.mark
      BY <1>3, <1>4, <3>1 DEF StoreInv, StoreMarkInv
    <3>3. Store!Top.nested
      <4> SUFFICES ASSUME ~Store!Top.nested PROVE FALSE
        OBVIOUS
      <4>1. \A b \in DOMAIN storeEnds : storeEnds'[b] # "open"
        BY <1>3 DEF StoreFrameInv
      <4> QED  BY <1>1, <1>5, <4>1 DEF StoreOpenIn
    <3> QED  BY <1>1, <1>7, <3>2, <3>3
  <2> QED  BY <1>1, <2>1, <2>2, <2>3, <2>4, <2>5 DEF StoreViewInv
<1>12. StoreWholeInv'
  <2> SUFFICES ASSUME NEW b \in DOMAIN storeEnds', storeEnds'[b] = "done" PROVE
        /\ StoreWhole(b, storeSaved)' /\ StoreWhole(b, storeView)'
        /\ \A i \in DOMAIN storeFrames' : StoreWhole(b, storeFrames[i].mark)'
    BY DEF StoreWholeInv
  <2>1. b \in DOMAIN storeEnds /\ storeEnds[b] = "done"
        /\ (Store!Within(b)' = Store!Within(b) \/ Store!Within(b)' = {})
    BY <1>3, <1>6
  <2>2. /\ StoreWhole(b, storeSaved) /\ StoreWhole(b, storeView) /\ StoreWhole(b, Store!Top.mark)
        /\ \A i \in DOMAIN storeFrames' : StoreWhole(b, storeFrames[i].mark)
    BY <1>3, <1>4, <2>1 DEF StoreInv, StoreWholeInv
  <2>3. \A i \in DOMAIN storeFrames' : storeFrames'[i].mark = storeFrames[i].mark
    BY <1>3
  <2> QED  BY <1>1, <1>7, <2>1, <2>2, <2>3 DEF StoreWhole
<1> QED  BY <1>3, <1>6, <1>8, <1>9, <1>11, <1>12 DEF StoreInv

LEMMA StoreCrashStep == ASSUME StoreSensible, StoreInv, Store!Crash PROVE StoreInv'
<1> DEFINE failing == {b \in DOMAIN storeEnds : storeEnds[b] = "open"}
<1>1. /\ storeView' = storeSaved /\ storeFrames' = <<>> /\ storeRaising' = "no"
      /\ UNCHANGED <<storeSaved, storeWrites>>
      /\ storeEnds' = [b \in DOMAIN storeEnds |-> IF storeEnds[b] = "open" THEN "failed" ELSE storeEnds[b]]
      /\ storeOpen' = FALSE /\ storeLock' \in {storeLock, "free"}
  BY DEF Store!Crash, Store!Ended
<1>2. /\ DOMAIN storeEnds' = DOMAIN storeEnds
      /\ \A b \in DOMAIN storeEnds : IF b \in failing THEN storeEnds[b] = "open"
         /\ storeEnds'[b] = "failed"
                                                ELSE storeEnds'[b] = storeEnds[b]
      /\ \A b \in DOMAIN storeEnds : storeEnds'[b] # "open"
  BY <1>1
<1> HIDE DEF failing
<1>3. /\ \A w \in DOMAIN storeWrites : Store!Standing(w)' <=> Store!Standing(w)
         /\ storeWrites[w] \cap failing = {}
      /\ \A b \in DOMAIN storeEnds : storeEnds'[b] = "done" =>
           storeEnds[b] = "done" /\ (Store!Within(b)' = Store!Within(b) \/ Store!Within(b)' = {})
      /\ StoreTogether'
  BY <1>1, <1>2, StoreFailTogether
<1>4. storeEnds' \in Seq(StoreEndings) /\ Len(storeEnds') = Len(storeEnds)
  <2>1. Len(storeEnds) \in Nat /\ DOMAIN storeEnds = 1 .. Len(storeEnds)
        /\ \A b \in DOMAIN storeEnds : storeEnds[b] \in StoreEndings
    BY DEF StoreInv, StoreTypeInv
  <2>2. storeEnds' \in [1 .. Len(storeEnds) -> StoreEndings]
    BY <1>1, <2>1 DEF StoreEndings
  <2> QED  BY <2>1, <2>2
<1>5. \A w \in DOMAIN storeWrites : storeWrites[w] \subseteq DOMAIN storeEnds
  BY DEF StoreInv, StoreTypeInv
<1>6. storeFrames' \in Seq(StoreFrames) /\ DOMAIN storeFrames' = {} /\ Len(storeFrames') = 0
  BY <1>1
<1>7. StoreTypeInv'
  BY <1>1, <1>2, <1>4, <1>6 DEF StoreInv, StoreTypeInv
<1>8. StoreFrameInv' /\ StoreMarkInv'
  <2>1. \A w \in DOMAIN storeWrites : ~StoreOpenIn(w)'
    BY <1>1, <1>2, <1>5 DEF StoreOpenIn
  <2> QED  BY <1>1, <1>2, <1>6, <2>1 DEF StoreFrameInv, StoreMarkInv
<1>9. StoreViewInv'
  <2>1. \A w \in storeSaved : \A b \in storeWrites[w] : storeEnds'[b] = "done"
    <3>1. \A w \in storeSaved : w \in DOMAIN storeWrites
          /\ \A b \in storeWrites[w] : b \in DOMAIN storeEnds /\ storeEnds[b] = "done"
      BY <1>5 DEF StoreInv, StoreTypeInv, StoreViewInv
    <3> QED  BY <1>1, <3>1
  <2>2. \A w \in storeSaved : Store!Standing(w)'
    BY <1>1, <2>1 DEF Store!Standing
  <2>3. \A w \in DOMAIN storeWrites : ~StoreOpenIn(w)'
    BY <1>1, <1>2, <1>5 DEF StoreOpenIn
  <2>4. Store!Depth' = 0
    BY <1>6 DEF Store!Depth
  <2> QED  BY <1>1, <2>1, <2>2, <2>3, <2>4 DEF StoreViewInv
<1>10. StoreWholeInv'
  BY <1>1, <1>2, <1>3, <1>6 DEF StoreInv, StoreWholeInv, StoreWhole
<1> QED  BY <1>3, <1>7, <1>8, <1>9, <1>10 DEF StoreInv

(* A write: in a transaction of the connection, or in one of its own where *)
(* no block is open.                                                       *)
LEMMA StoreWriteStep ==
  ASSUME StoreSensible, StoreInv, storeRaising = "no", Len(storeWrites) < MaxWrites,
         storeWrites' = Append(storeWrites, Store!Entered),
           storeView' = storeView \cup {Len(storeWrites) + 1},
         storeSaved' = storeSaved \/ (storeSaved' = storeView' /\ Store!Depth = 0),
         storeOpen' \in BOOLEAN, storeOpen' \/ Store!Depth = 0,
           storeLock' \in {"free", "us", "them"},
         UNCHANGED <<storeFrames, storeRaising, storeEnds>>
  PROVE  StoreInv'
<1> DEFINE n == Len(storeWrites) + 1
<1>1. Store!Entered \in SUBSET Store!Blocks /\ Store!Entered \subseteq DOMAIN storeEnds
      /\ \A b \in Store!Entered : storeEnds[b] = "open"
  <2>1. \A i \in DOMAIN storeFrames : storeFrames[i].block \in DOMAIN storeEnds
        /\ storeEnds[storeFrames[i].block] = "open"
    BY DEF StoreInv, StoreTypeInv, StoreFrameInv
  <2>2. DOMAIN storeEnds \subseteq Store!Blocks
    BY DEF StoreInv, StoreTypeInv, Store!Blocks, StoreSensible
  <2> QED  BY <2>1, <2>2 DEF Store!Entered
<1>2. /\ \A w \in DOMAIN storeWrites : w \in DOMAIN storeWrites' /\ storeWrites'[w] = storeWrites[w]
         /\ w # n
      /\ n \in DOMAIN storeWrites' /\ storeWrites'[n] = Store!Entered
      /\ storeWrites' \in Seq(SUBSET Store!Blocks)
      /\ Len(storeWrites') = Len(storeWrites) + 1
      /\ \A w \in DOMAIN storeWrites' : w \in DOMAIN storeWrites \/ w = n
  BY <1>1, StoreAppendFacts DEF StoreInv, StoreTypeInv
<1>3. \A i \in DOMAIN storeFrames : storeFrames[i].block \in Store!Entered
  BY DEF Store!Entered
<1> HIDE DEF n
<1>4. \A w \in DOMAIN storeWrites : (Store!Standing(w)' <=> Store!Standing(w))
      /\ (StoreOpenIn(w)' <=> StoreOpenIn(w))
  BY <1>2 DEF Store!Standing, StoreOpenIn
<1>5. \A w \in DOMAIN storeWrites' : w = n => Store!Standing(w)'
  <2>1. "open" # "failed"
    OBVIOUS
  <2> QED  BY <1>1, <1>2, <2>1 DEF Store!Standing
<1>6. \A b \in DOMAIN storeEnds : storeEnds[b] = "done" => b \notin Store!Entered
      /\ Store!Within(b)' = Store!Within(b) /\ n \notin Store!Within(b)
  <2> TAKE b \in DOMAIN storeEnds
  <2> HAVE storeEnds[b] = "done"
  <2>1. b \notin Store!Entered
    BY <1>1
  <2> QED  BY <1>2, <1>4, <2>1 DEF Store!Within
<1>7. StoreTypeInv'
  <2>1. storeSaved' \subseteq DOMAIN storeWrites' /\ storeView' \subseteq DOMAIN storeWrites'
    BY <1>2 DEF StoreInv, StoreTypeInv, n
  <2>2. \A i \in DOMAIN storeFrames : storeFrames[i].mark \subseteq DOMAIN storeWrites'
        /\ storeFrames[i].block \in DOMAIN storeEnds
    BY <1>2 DEF StoreInv, StoreTypeInv
  <2>3. Len(storeWrites') <= MaxWrites
    BY <1>2 DEF StoreSensible, StoreInv, StoreTypeInv
  <2>4. \A w \in DOMAIN storeWrites' : storeWrites'[w] \subseteq DOMAIN storeEnds
    BY <1>1, <1>2 DEF StoreInv, StoreTypeInv
  <2> QED  BY <1>2, <2>1, <2>2, <2>3, <2>4 DEF StoreInv, StoreTypeInv
<1>8. StoreFrameInv'
  BY <1>2, <1>3 DEF StoreInv, StoreFrameInv
<1>9. StoreMarkInv'
  BY <1>2, <1>3, <1>4 DEF StoreInv, StoreTypeInv, StoreMarkInv
<1>10. StoreViewInv'
  <2>1. \A w \in storeView' : Store!Standing(w)'
    BY <1>2, <1>4, <1>5 DEF StoreInv, StoreTypeInv, StoreViewInv, n
  <2>2. \A w \in storeSaved' : \A b \in storeWrites'[w] : storeEnds[b] = "done"
    <3>1. CASE storeSaved' = storeSaved
      BY <1>2, <3>1 DEF StoreInv, StoreTypeInv, StoreViewInv
    <3>2. CASE storeSaved' = storeView' /\ Store!Depth = 0
      <4>1. \A b \in DOMAIN storeEnds : storeEnds[b] # "open"
        BY <3>2 DEF StoreInv, StoreTypeInv, StoreFrameInv, Store!Depth
      <4> TAKE w \in storeSaved'
      <4> TAKE b \in storeWrites'[w]
      <4>2. w \in DOMAIN storeWrites' /\ Store!Standing(w)'
        BY <1>2, <2>1, <3>2 DEF StoreInv, StoreTypeInv, n
      <4>3. b \in DOMAIN storeEnds /\ storeEnds[b] # "failed"
        BY <1>1, <1>2, <4>2 DEF StoreInv, StoreTypeInv, Store!Standing
      <4>4. storeEnds[b] \in StoreEndings
        BY <4>3 DEF StoreInv, StoreTypeInv
      <4> QED  BY <4>1, <4>3, <4>4 DEF StoreEndings
    <3> QED  BY <3>1, <3>2
  <2>3. \A w \in DOMAIN storeWrites' : Store!Standing(w)' /\ StoreOpenIn(w)' => w \in storeView'
    BY <1>2, <1>4 DEF StoreInv, StoreViewInv, n
  <2> QED  BY <2>1, <2>2, <2>3 DEF StoreViewInv, Store!Depth
<1>11. StoreTogether'
  BY <1>2, <1>6 DEF StoreInv, StoreTogether
<1>12. StoreWholeInv'
  <2> SUFFICES ASSUME NEW b \in DOMAIN storeEnds, storeEnds[b] = "done" PROVE
        /\ StoreWhole(b, storeSaved)' /\ StoreWhole(b, storeView)'
        /\ \A i \in DOMAIN storeFrames : StoreWhole(b, storeFrames[i].mark)'
    BY DEF StoreWholeInv
  <2>1. /\ StoreWhole(b, storeSaved) /\ StoreWhole(b, storeView)
        /\ \A i \in DOMAIN storeFrames : StoreWhole(b, storeFrames[i].mark)
    BY DEF StoreInv, StoreWholeInv
  <2> QED  BY <1>6, <2>1 DEF StoreWhole, n
<1> QED  BY <1>7, <1>8, <1>9, <1>10, <1>11, <1>12 DEF StoreInv

(* What leaves the stack and the history alone: the file and what the      *)
(* connection sees may become one another.                                 *)
LEMMA StoreViewStep ==
  ASSUME StoreSensible, StoreInv, UNCHANGED <<storeFrames, storeWrites, storeEnds>>,
         storeOpen' \in BOOLEAN, storeRaising' \in {"no", "error", "rollback"},
           storeLock' \in {"free", "us", "them"},
         \/ /\ UNCHANGED <<storeSaved, storeView>>
               /\ (storeRaising = "rollback" => storeRaising' = "rollback" \/ Store!Depth = 0)
            /\ storeRaising' # "rollback" \/ storeRaising = "rollback"
         \/ storeRaising = "no" /\ storeRaising' = "no" /\ storeSaved' = storeView
            /\ storeView' = storeView /\ Store!Depth = 0
         \/ storeRaising' = "rollback" /\ storeView' = storeSaved /\ storeSaved' = storeSaved,
         (storeOpen /\ storeRaising # "rollback" /\ storeRaising' # "rollback") => storeOpen'
           \/ Store!Depth = 0
  PROVE  StoreInv'
<1>0. /\ storeSaved' \in {storeSaved, storeView} /\ storeView' \in {storeSaved, storeView}
      /\ (storeSaved' = storeSaved \/ (storeSaved' = storeView /\ Store!Depth = 0))
  OBVIOUS
<1>1. \A w \in DOMAIN storeWrites : storeWrites[w] \subseteq DOMAIN storeEnds
  BY DEF StoreInv, StoreTypeInv
<1>2. \A w \in DOMAIN storeWrites : (Store!Standing(w)' <=> Store!Standing(w))
      /\ (StoreOpenIn(w)' <=> StoreOpenIn(w))
  BY DEF Store!Standing, StoreOpenIn
<1>3. \A b \in DOMAIN storeEnds : Store!Within(b)' = Store!Within(b)
  BY <1>2 DEF Store!Within
<1>4. Store!Depth = 0 => \A b \in DOMAIN storeEnds : storeEnds[b] # "open"
  BY DEF StoreInv, StoreTypeInv, StoreFrameInv, Store!Depth
<1>5. StoreTypeInv'
  BY <1>0 DEF StoreInv, StoreTypeInv
<1>6. StoreFrameInv' /\ StoreMarkInv' /\ StoreTogether'
  BY <1>2 DEF StoreInv, StoreTypeInv, StoreFrameInv, StoreMarkInv, StoreTogether
<1>7. StoreViewInv'
  <2>1. \A w \in storeSaved : w \in DOMAIN storeWrites /\ Store!Standing(w)
        /\ \A b \in storeWrites[w] : storeEnds[b] = "done"
    <3>1. "done" # "failed"
      OBVIOUS
    <3> QED  BY <3>1 DEF StoreInv, StoreTypeInv, StoreViewInv, Store!Standing
  <2>2. \A w \in storeView : w \in DOMAIN storeWrites /\ Store!Standing(w)
        /\ (Store!Depth = 0 => \A b \in storeWrites[w] : storeEnds[b] = "done")
    <3> TAKE w \in storeView
    <3>1. w \in DOMAIN storeWrites /\ Store!Standing(w)
      BY DEF StoreInv, StoreTypeInv, StoreViewInv
    <3>2. \A b \in storeWrites[w] : storeEnds[b] \in StoreEndings /\ b \in DOMAIN storeEnds
      BY <1>1, <3>1 DEF StoreInv, StoreTypeInv
    <3> QED  BY <1>4, <3>1, <3>2 DEF Store!Standing, StoreEndings
  <2>3. \A w \in storeView' : Store!Standing(w)'
    BY <1>0, <1>2, <2>1, <2>2
  <2>4. \A w \in storeSaved' : \A b \in storeWrites[w] : storeEnds[b] = "done"
    BY <1>0, <2>1, <2>2
  <2>5. storeRaising' = "rollback" => storeView' = storeSaved'
    BY DEF StoreInv, StoreViewInv
  <2>6. storeRaising' # "rollback" => (storeOpen' \/ Store!Depth' = 0)
    BY DEF StoreInv, StoreViewInv, Store!Depth
  <2>7. storeRaising' # "rollback" => \A w \in DOMAIN storeWrites : Store!Standing(w)'
        /\ StoreOpenIn(w)' => w \in storeView'
    BY <1>1, <1>2, <1>4 DEF StoreInv, StoreViewInv, StoreOpenIn
  <2> QED  BY <2>3, <2>4, <2>5, <2>6, <2>7 DEF StoreViewInv
<1>8. StoreWholeInv'
  BY <1>0, <1>3 DEF StoreInv, StoreWholeInv, StoreWhole
<1> QED  BY <1>5, <1>6, <1>7, <1>8 DEF StoreInv

LEMMA StoreInductive == ASSUME StoreSensible, StoreInv, [Store!Next]_Store!vars PROVE StoreInv'
<1>0. storeOpen \in BOOLEAN /\ storeRaising \in {"no", "error", "rollback"}
      /\ storeLock \in {"free", "us", "them"}
  BY DEF StoreInv, StoreTypeInv
<1>1. CASE Store!Busy
  BY <1>0, <1>1, StoreViewStep DEF Store!Busy, Store!Calm
<1>2. CASE Store!Catch
  BY <1>0, <1>2, StoreViewStep DEF Store!Catch, Store!Calm
<1>3. CASE Store!Interrupt
  BY <1>0, <1>3, StoreViewStep DEF Store!Interrupt, Store!Calm
<1>4. CASE Store!BrokenWrite
  <2>1. /\ storeRaising = "no" /\ storeRaising' = "error" /\ storeOpen' = TRUE
        /\ storeLock' \in {"free", "us", "them"}
        /\ UNCHANGED <<storeSaved, storeView, storeFrames, storeWrites, storeEnds>>
    BY <1>0, <1>4 DEF Store!BrokenWrite, Store!Calm
  <2> QED  BY <2>1, StoreViewStep
<1>5. CASE Store!HelperCommit
  <2>1. /\ storeRaising = "no" /\ storeOpen' = FALSE /\ storeLock' \in {"free", "us", "them"}
        /\ Store!Depth = 0
        /\ storeSaved' = storeView /\ UNCHANGED <<storeView, storeFrames, storeRaising, storeWrites,
           storeEnds>>
    BY <1>0, <1>5 DEF Store!HelperCommit, Store!Calm, Store!Ended
  <2> QED  BY <2>1, StoreViewStep
<1>6. CASE Store!HelperRollback
  <2>1. /\ storeRaising' = "rollback" /\ storeOpen' = FALSE /\ storeLock' \in {"free", "us", "them"}
        /\ storeView' = storeSaved /\ UNCHANGED <<storeSaved, storeFrames, storeWrites, storeEnds>>
    BY <1>0, <1>6 DEF Store!HelperRollback, Store!Ended
  <2> QED  BY <2>1, StoreViewStep
<1>7. CASE Store!OtherProcess
  <2>1. storeLock' \in {"free", "us", "them"} /\ UNCHANGED <<storeSaved, storeView, storeOpen,
        storeFrames, storeRaising, storeWrites, storeEnds>>
    BY <1>7 DEF Store!OtherProcess
  <2> QED  BY <1>0, <2>1, StoreViewStep
<1>8. CASE UNCHANGED Store!vars
  <2>1. UNCHANGED <<storeSaved, storeView, storeOpen, storeFrames, storeRaising, storeLock,
        storeWrites, storeEnds>>
    BY <1>8 DEF Store!vars
  <2> QED  BY <1>0, <2>1, StoreViewStep
<1>9. CASE Store!Write
  <2>1. /\ storeRaising = "no" /\ Len(storeWrites) < MaxWrites
        /\ storeWrites' = Append(storeWrites, Store!Entered)
        /\ storeView' = storeView \cup {Len(storeWrites) + 1} /\ storeOpen' = TRUE
        /\ storeLock' = "us"
        /\ UNCHANGED <<storeSaved, storeFrames, storeRaising, storeEnds>>
    BY <1>9 DEF Store!Write, Store!Calm
  <2> QED  BY <2>1, StoreWriteStep
<1>10. CASE Store!OwnTransaction
  <2>1. CASE storeOpen \/ storeLock = "them"
    <3>1. /\ storeRaising = "no" /\ storeRaising' = "error"
          /\ UNCHANGED <<storeSaved, storeView, storeWrites, storeOpen, storeFrames, storeLock,
             storeEnds>>
      BY <1>10, <2>1 DEF Store!OwnTransaction, Store!Calm
    <3> QED  BY <1>0, <3>1, StoreViewStep
  <2>2. CASE ~ (storeOpen \/ storeLock = "them")
    <3>1. /\ storeRaising = "no" /\ Len(storeWrites) < MaxWrites
          /\ storeWrites' = Append(storeWrites, Store!Entered)
          /\ storeView' = storeView \cup {Len(storeWrites) + 1} /\ storeSaved' = storeView'
          /\ UNCHANGED <<storeRaising, storeOpen, storeFrames, storeLock, storeEnds>>
      BY <1>10, <2>2 DEF Store!OwnTransaction, Store!Calm
    <3>2. Store!Depth = 0
      BY <2>2, <3>1 DEF StoreInv, StoreViewInv
    <3> QED  BY <1>0, <3>1, <3>2, StoreWriteStep
  <2> QED  BY <2>1, <2>2
<1> QED
  BY <1>1, <1>2, <1>3, <1>4, <1>5, <1>6, <1>7, <1>8, <1>9, <1>10,
     StoreEnterStep, StoreLeaveStep, StoreFailStep, StoreCrashStep DEF Store!Next

LEMMA StoreInvariant == ASSUME StoreSensible PROVE Store!Spec => []StoreInv
<1>1. Store!Init => StoreInv
  BY StoreInitial
<1>2. StoreInv /\ [Store!Next]_Store!vars => StoreInv'
  BY StoreInductive
<1> QED  BY <1>1, <1>2, PTL DEF Store!Spec

(* The variables of the store have the types the module says.              *)
THEOREM StoreTypeCorrect == ASSUME StoreSensible PROVE Store!Spec => []Store!TypeOK
<1>1. StoreInv => Store!TypeOK
  <2> SUFFICES ASSUME StoreInv PROVE Store!TypeOK
    OBVIOUS
  <2>1. \A i \in DOMAIN storeFrames : storeFrames[i].nested \in BOOLEAN
    <3> TAKE i \in DOMAIN storeFrames
    <3>1. storeFrames[i] \in StoreFrames
      BY DEF StoreInv, StoreTypeInv
    <3> QED  BY <3>1, Zenon DEF StoreFrames
  <2> QED  BY <2>1 DEF StoreInv, StoreTypeInv, Store!TypeOK, StoreEndings
<1> QED  BY <1>1, StoreInvariant, PTL

(* Whatever the bounds: no write of a failed block is left, none of an     *)
(* open block is in the file, and a finished block is in the file, and in  *)
(* what the connection sees, as a whole or not at all.                     *)
THEOREM StoreBlocksAreAtomic == ASSUME StoreSensible PROVE Store!Spec => []Store!AtomicBlocks
<1>1. StoreInv => Store!AtomicBlocks
  <2> SUFFICES ASSUME StoreInv PROVE Store!AtomicBlocks
    OBVIOUS
  <2>1. \A b \in DOMAIN storeEnds : storeEnds[b] = "done" => StoreWhole(b, storeSaved)
        /\ StoreWhole(b, storeView)
    BY DEF StoreInv, StoreWholeInv
  <2> QED  BY <2>1 DEF StoreInv, StoreViewInv, Store!AtomicBlocks, StoreWhole
<1> QED  BY <1>1, StoreInvariant, PTL

(* The variables of the instance, by either name. *)
LEMMA StoreVarsAre == StoreVars' = StoreVars <=> Store!vars' = Store!vars
BY DEF StoreVars, Store!vars

-----------------------------------------------------------------------------
(* What holds of SchemaMigration for any number of processes and of rows.  *)
SchemaFiles == [version : Schema!Versions, suffixed : BOOLEAN, content : Schema!Contents,
  wal : BOOLEAN]

SchemaStates ==
  [step : {"closed", "checked", "begin", "repair", "open"}]
    \cup [step : {"copy"}, from : Schema!Versions]
    \cup [step : {"target"}, from : Schema!Versions, content : Schema!Contents, wal : BOOLEAN]
    \cup [step : {"link"}, file : SchemaFiles]

SchemaSensible == MaxOpens \in Nat /\ MaxRows \in Nat /\ Schema!Nobody \notin Openers

SchemaTypeInv ==
  /\ schemaDatabase \in Schema!Contents /\ schemaWal \in BOOLEAN
  /\ schemaWriter \in Openers \cup {Schema!Nobody}
  /\ schemaBackups \subseteq SchemaFiles
  /\ schemaOpeners \in [Openers -> SchemaStates]
  /\ schemaOpens \in 0 .. MaxOpens /\ schemaReplaced \subseteq Schema!Contents

(* A database of another version, soundness or number of rows.             *)
LEMMA SchemaContentsTyped ==
  ASSUME NEW version \in Schema!Versions, NEW sound \in BOOLEAN, NEW rows \in 0 .. MaxRows
  PROVE  [version |-> version, sound |-> sound, rows |-> rows] \in Schema!Contents
BY DEF Schema!Contents

LEMMA SchemaContentsSound == SchemaTypeInv => schemaDatabase.sound \in BOOLEAN
BY DEF SchemaTypeInv, Schema!Contents

LEMMA SchemaContentsSized == SchemaTypeInv => schemaDatabase.version \in Schema!Versions
  /\ schemaDatabase.rows \in 0 .. MaxRows
BY DEF SchemaTypeInv, Schema!Contents

LEMMA SchemaTypeInit == SchemaSensible /\ Schema!Init => SchemaTypeInv
<1> SUFFICES ASSUME SchemaSensible, Schema!Init PROVE SchemaTypeInv
  OBVIOUS
<1>1. schemaDatabase \in Schema!Contents
  <2>1. PICK version \in Schema!Versions, sound \in BOOLEAN :
          schemaDatabase = [version |-> version, sound |-> sound, rows |-> 0]
    <3>1. 0 \in Schema!Versions /\ 1 \in Schema!Versions /\ Schema!Current \in Schema!Versions
      BY DEF Schema!Versions, Schema!Current
    <3> QED
      BY <3>1, Zenon DEF Schema!Init
  <2>2. 0 \in 0 .. MaxRows
    BY DEF SchemaSensible
  <2> QED
    BY <2>1, <2>2, SchemaContentsTyped
<1>2. Schema!Closed \in SchemaStates
  BY DEF SchemaStates, Schema!Closed
<1> QED
  BY <1>1, <1>2 DEF SchemaSensible, Schema!Init, SchemaTypeInv

(* What an opener carries at the steps where it carries something.         *)
LEMMA SchemaCarried ==
  ASSUME SchemaTypeInv, NEW p \in Openers
  PROVE  /\ Schema!At(p, "copy") => schemaOpeners[p].from \in Schema!Versions
         /\ Schema!At(p, "target") => /\ schemaOpeners[p].from \in Schema!Versions /\ schemaOpeners[p].content \in Schema!Contents
                                      /\ schemaOpeners[p].wal \in BOOLEAN
         /\ Schema!At(p, "link") => schemaOpeners[p].file \in SchemaFiles
<1>1. schemaOpeners[p] \in SchemaStates
  BY DEF SchemaTypeInv
<1> QED
  BY <1>1 DEF SchemaStates, Schema!At

LEMMA SchemaTypeStep == SchemaSensible /\ SchemaTypeInv /\ [Schema!Next]_Schema!vars
  => SchemaTypeInv'
<1> SUFFICES ASSUME SchemaSensible, SchemaTypeInv, [Schema!Next]_Schema!vars PROVE SchemaTypeInv'
  OBVIOUS
<1>1. CASE UNCHANGED Schema!vars
  BY <1>1 DEF Schema!vars, SchemaTypeInv
<1>2. ASSUME NEW p \in Openers, NEW s \in SchemaStates, Schema!Goes(p, s),
             UNCHANGED <<schemaDatabase, schemaWal, schemaWriter, schemaBackups, schemaOpens,
               schemaReplaced>>
      PROVE  SchemaTypeInv'
  BY <1>2 DEF Schema!Goes, SchemaTypeInv
<1>3. ASSUME NEW p \in Openers, Schema!Preflight(p) PROVE SchemaTypeInv'
  <2>1. \E s \in SchemaStates : Schema!Goes(p, s)
    BY <1>3 DEF Schema!Preflight, SchemaStates, Schema!Closed
  <2>2. schemaOpens' \in 0 .. MaxOpens
    BY <1>3 DEF Schema!Preflight, SchemaTypeInv, SchemaSensible
  <2> QED
    BY <1>3, <2>1, <2>2 DEF Schema!Preflight, Schema!Goes, SchemaTypeInv
<1>4. ASSUME NEW p \in Openers, Schema!Decide(p) PROVE SchemaTypeInv'
  <2>1. \E s \in SchemaStates : Schema!Goes(p, s)
    BY <1>4 DEF Schema!Decide, SchemaStates, SchemaTypeInv, Schema!Contents
  <2> QED
    BY <1>2, <1>4, <2>1 DEF Schema!Decide
<1>5. ASSUME NEW p \in Openers, Schema!Copy(p) PROVE SchemaTypeInv'
  <2>1. [step |-> "target", from |-> schemaOpeners[p].from, content |-> schemaDatabase,
        wal |-> schemaWal] \in SchemaStates
    BY <1>5, SchemaCarried DEF Schema!Copy, SchemaStates, SchemaTypeInv
  <2> QED
    BY <1>2, <1>5, <2>1 DEF Schema!Copy
<1>6. ASSUME NEW p \in Openers, Schema!Target(p) PROVE SchemaTypeInv'
  <2>1. Schema!Named(p, Schema!Taken(p) # {}) \in SchemaFiles
    BY <1>6, SchemaCarried DEF Schema!Target, Schema!Named, SchemaFiles
  <2>2. [step |-> "begin"] \in SchemaStates /\ [step |-> "link",
        file |-> Schema!Named(p, Schema!Taken(p) # {})] \in SchemaStates
    BY <2>1 DEF SchemaStates
  <2> QED
    BY <1>2, <1>6, <2>2 DEF Schema!Target
<1>7. ASSUME NEW p \in Openers, Schema!Link(p) PROVE SchemaTypeInv'
  <2>1. schemaOpeners[p].file \in SchemaFiles
    BY <1>7, SchemaCarried DEF Schema!Link
  <2>2. \E s \in SchemaStates : Schema!Goes(p, s)
    BY <1>7 DEF Schema!Link, SchemaStates, Schema!Closed
  <2>3. schemaBackups' \subseteq SchemaFiles
    BY <1>7, <2>1 DEF Schema!Link, SchemaTypeInv
  <2> QED
    BY <1>7, <2>2, <2>3 DEF Schema!Link, Schema!Goes, SchemaTypeInv
<1>8. ASSUME NEW p \in Openers, Schema!Begin(p) PROVE SchemaTypeInv'
  <2>1. \E s \in SchemaStates : Schema!Goes(p, s)
    BY <1>8 DEF Schema!Begin, SchemaStates, Schema!Closed
  <2> QED
    BY <1>8, <2>1 DEF Schema!Begin, Schema!Goes, SchemaTypeInv
<1>9. ASSUME NEW p \in Openers, Schema!Repair(p) PROVE SchemaTypeInv'
  <2>1. [step |-> "open"] \in SchemaStates
    BY DEF SchemaStates
  <2>2. schemaDatabase' \in Schema!Contents
    <3>1. schemaDatabase \in Schema!Contents
      BY DEF SchemaTypeInv
    <3>2. schemaDatabase' = [version |-> Schema!Current, sound |-> TRUE,
          rows |-> schemaDatabase.rows]
      BY <1>9, <3>1 DEF Schema!Repair, Schema!Contents
    <3>3. Schema!Current \in Schema!Versions /\ TRUE \in BOOLEAN
          /\ schemaDatabase.rows \in 0 .. MaxRows
      BY <1>9, <3>1
        DEF Schema!Repair, Schema!Contents, Schema!Versions, Schema!Current, SchemaSensible
    <3> QED
      BY <3>2, <3>3, SchemaContentsTyped
  <2> QED
    BY <1>9, <2>1, <2>2 DEF Schema!Repair, Schema!Goes, SchemaTypeInv
<1>10. ASSUME NEW p \in Openers, Schema!Stop(p) PROVE SchemaTypeInv'
  <2>1. Schema!Closed \in SchemaStates
    BY DEF SchemaStates, Schema!Closed
  <2> QED
    BY <1>10, <2>1 DEF Schema!Stop, Schema!Goes, SchemaTypeInv
<1>11. CASE Schema!OldRow
  <2>1. schemaDatabase' \in Schema!Contents
    <3>1. schemaDatabase \in Schema!Contents
      BY DEF SchemaTypeInv
    <3>2. schemaDatabase' = [version |-> schemaDatabase.version, sound |-> schemaDatabase.sound,
          rows |-> schemaDatabase.rows + 1]
      BY <1>11, <3>1 DEF Schema!OldRow, Schema!Contents
    <3>3. schemaDatabase.version \in Schema!Versions /\ schemaDatabase.rows + 1 \in 0 .. MaxRows
      <4>1. schemaDatabase.rows < MaxRows
        BY <1>11 DEF Schema!OldRow
      <4> QED
        BY <4>1, SchemaContentsSized DEF SchemaSensible
    <3>4. schemaDatabase.sound \in BOOLEAN
      BY SchemaContentsSound, Zenon
    <3> QED
      BY <3>2, <3>3, <3>4, SchemaContentsTyped
  <2> QED
    BY <1>11, <2>1 DEF Schema!OldRow, SchemaTypeInv
<1>12. CASE Schema!NewBuild
  <2>1. schemaDatabase' \in Schema!Contents
    <3>1. schemaDatabase \in Schema!Contents
      BY DEF SchemaTypeInv
    <3>2. schemaDatabase' = [version |-> Schema!Current + 1, sound |-> schemaDatabase.sound,
          rows |-> schemaDatabase.rows]
      BY <1>12, <3>1 DEF Schema!NewBuild, Schema!Contents
    <3>3. Schema!Current + 1 \in Schema!Versions /\ schemaDatabase.rows \in 0 .. MaxRows
      BY SchemaContentsSized DEF Schema!Versions, Schema!Current
    <3>4. schemaDatabase.sound \in BOOLEAN
      BY SchemaContentsSound, Zenon
    <3> QED
      BY <3>2, <3>3, <3>4, SchemaContentsTyped
  <2> QED
    BY <1>12, <2>1 DEF Schema!NewBuild, SchemaTypeInv
<1> QED
  BY <1>1, <1>3, <1>4, <1>5, <1>6, <1>7, <1>8, <1>9, <1>10, <1>11, <1>12 DEF Schema!Next

(* The database, its backups and whoever opens it keep their types.        *)
THEOREM SchemaTypeCorrect == ASSUME SchemaSensible PROVE Schema!Spec => []Schema!TypeOK
<1>1. SchemaTypeInv => Schema!TypeOK
  BY DEF SchemaTypeInv, Schema!TypeOK, SchemaStates, Schema!Steps, SchemaFiles
<1> QED
  BY <1>1, SchemaTypeInit, SchemaTypeStep, PTL DEF Schema!Spec

-----------------------------------------------------------------------------
(* The original is kept                                                    *)

(* Somebody's copy of the database is still what the database is, unless   *)
(* there is nothing left to repair.                                        *)
SchemaStillIs(content) == Schema!Legacy(schemaDatabase) => content = schemaDatabase
SchemaInABackup == \E b \in schemaBackups : b.content = schemaDatabase

SchemaKeptInv ==
  /\ \A p \in Openers : Schema!At(p, "repair") => schemaWriter = p
  /\ Schema!Opening # {} => schemaDatabase.version <= Schema!Current
  /\ \A p \in Openers :
       /\ Schema!At(p, "target") => SchemaStillIs(schemaOpeners[p].content)
       /\ Schema!At(p, "link") => SchemaStillIs(schemaOpeners[p].file.content)
       /\ Schema!At(p, "begin") \/ Schema!At(p, "repair")
          => (Schema!Legacy(schemaDatabase) => SchemaInABackup)
  /\ Schema!OriginalIsKept

LEMMA SchemaKeptInit == Schema!Init => SchemaKeptInv
BY DEF Schema!Init, SchemaKeptInv, Schema!Opening, Schema!Closed, Schema!At, Schema!OriginalIsKept,
  Schema!Current

(* A step that leaves the database, and takes one opener to a step where   *)
(* it is as it should be.                                                  *)
LEMMA SchemaKeptFrame ==
  ASSUME SchemaTypeInv, SchemaKeptInv, NEW p \in Openers, NEW s, Schema!Goes(p, s),
         UNCHANGED <<schemaDatabase, schemaReplaced>>, schemaBackups \subseteq schemaBackups',
         \A q \in Openers \ {p} : schemaWriter = q => schemaWriter' = q,
         s.step = "repair" => schemaWriter' = p,
         s.step \notin {"closed", "open"} => schemaDatabase.version <= Schema!Current,
         s.step = "target" => SchemaStillIs(s.content),
         s.step = "link" => SchemaStillIs(s.file.content),
         s.step \in {"begin", "repair"} => (Schema!Legacy(schemaDatabase) => SchemaInABackup')
  PROVE  SchemaKeptInv'
<1>1. schemaOpeners'[p] = s /\ \A q \in Openers \ {p} : schemaOpeners'[q] = schemaOpeners[q]
  BY DEF Schema!Goes, SchemaTypeInv
<1>2. SchemaInABackup => SchemaInABackup'
  BY DEF SchemaInABackup
<1>3. Schema!OriginalIsKept'
  BY DEF SchemaKeptInv, Schema!OriginalIsKept
<1>4. \A q \in Openers : Schema!At(q, "repair")' => schemaWriter' = q
  BY <1>1 DEF SchemaKeptInv, Schema!At
<1>5. (Schema!Opening # {})' => schemaDatabase'.version <= Schema!Current
  BY <1>1 DEF SchemaKeptInv, Schema!Opening
<1>6. \A q \in Openers :
        /\ Schema!At(q, "target")' => SchemaStillIs(schemaOpeners[q].content)'
        /\ Schema!At(q, "link")' => SchemaStillIs(schemaOpeners[q].file.content)'
        /\ Schema!At(q, "begin")' \/ Schema!At(q, "repair")'
           => (Schema!Legacy(schemaDatabase) => SchemaInABackup)'
  BY <1>1, <1>2 DEF SchemaKeptInv, Schema!At, SchemaStillIs
<1> QED
  BY <1>3, <1>4, <1>5, <1>6 DEF SchemaKeptInv

LEMMA SchemaKeptStep ==
  ASSUME SchemaSensible, MigrationHazards = {}
  PROVE  SchemaTypeInv /\ SchemaKeptInv /\ [Schema!Next]_Schema!vars => SchemaKeptInv'
<1> SUFFICES ASSUME SchemaTypeInv, SchemaKeptInv, [Schema!Next]_Schema!vars PROVE SchemaKeptInv'
  OBVIOUS
<1>1. CASE UNCHANGED Schema!vars
  BY <1>1 DEF Schema!vars, SchemaKeptInv, Schema!At, Schema!Opening, SchemaStillIs, SchemaInABackup,
    Schema!OriginalIsKept
<1>2. ASSUME NEW p \in Openers, ~Schema!At(p, "closed"), ~Schema!At(p, "open")
      PROVE schemaDatabase.version <= Schema!Current
  BY <1>2 DEF SchemaKeptInv, Schema!Opening, Schema!At
<1>3. ASSUME NEW p \in Openers, Schema!Preflight(p) PROVE SchemaKeptInv'
  <2>1. CASE schemaDatabase.version > Schema!Current
    BY <1>3, <2>1, SchemaKeptFrame DEF Schema!Preflight, Schema!Closed
  <2>2. CASE ~(schemaDatabase.version > Schema!Current)
    <3>1. schemaDatabase.version <= Schema!Current
      BY <2>2 DEF SchemaTypeInv, Schema!Contents, Schema!Versions, Schema!Current
    <3> QED
      BY <1>3, <2>2, <3>1, SchemaKeptFrame DEF Schema!Preflight
  <2> QED
    BY <2>1, <2>2
<1>4. ASSUME NEW p \in Openers, Schema!Decide(p) PROVE SchemaKeptInv'
  <2>1. schemaDatabase.version <= Schema!Current
    BY <1>2, <1>4 DEF Schema!Decide, Schema!At
  <2>2. CASE Schema!Legacy(schemaDatabase)
    BY <1>4, <2>1, <2>2, SchemaKeptFrame DEF Schema!Decide
  <2>3. CASE ~Schema!Legacy(schemaDatabase)
    BY <1>4, <2>1, <2>3, SchemaKeptFrame DEF Schema!Decide
  <2> QED
    BY <2>2, <2>3
<1>5. ASSUME NEW p \in Openers, Schema!Copy(p) PROVE SchemaKeptInv'
  <2>1. schemaDatabase.version <= Schema!Current
    BY <1>2, <1>5 DEF Schema!Copy, Schema!At
  <2> QED
    BY <1>5, <2>1, SchemaKeptFrame DEF Schema!Copy, SchemaStillIs
<1>6. ASSUME NEW p \in Openers, Schema!Target(p) PROVE SchemaKeptInv'
  <2>1. schemaDatabase.version <= Schema!Current /\ SchemaStillIs(schemaOpeners[p].content)
    BY <1>2, <1>6 DEF Schema!Target, Schema!At, SchemaKeptInv
  <2>2. CASE \E b \in Schema!Taken(p) : Schema!Bytes(b) = Schema!Kept(p)
        \/ Schema!Named(p, TRUE) \in schemaBackups
    <3>1. \E b \in schemaBackups : b.content = schemaOpeners[p].content
      BY <2>2 DEF Schema!Taken, Schema!Bytes, Schema!Kept, Schema!Named
    <3>2. Schema!Legacy(schemaDatabase) => SchemaInABackup
      BY <2>1, <3>1 DEF SchemaStillIs, SchemaInABackup
    <3>3. Schema!Goes(p, [step |-> "begin"]) /\ UNCHANGED <<schemaDatabase, schemaWriter,
          schemaBackups, schemaReplaced>>
      BY <1>6, <2>2 DEF Schema!Target
    <3>4. SchemaInABackup => SchemaInABackup'
      BY <3>3 DEF SchemaInABackup
    <3> QED
      BY <2>1, <3>2, <3>3, <3>4, SchemaKeptFrame
  <2>3. CASE ~\E b \in Schema!Taken(p) : Schema!Bytes(b) = Schema!Kept(p)
        \/ Schema!Named(p, TRUE) \in schemaBackups
    <3>1. /\ Schema!Goes(p, [step |-> "link", file |-> Schema!Named(p, Schema!Taken(p) # {})])
          /\ UNCHANGED <<schemaDatabase, schemaWriter, schemaBackups, schemaReplaced>>
      BY <1>6, <2>3 DEF Schema!Target
    <3>2. Schema!Named(p, Schema!Taken(p) # {}).content = schemaOpeners[p].content
      BY DEF Schema!Named
    <3> QED
      BY <2>1, <3>1, <3>2, SchemaKeptFrame
  <2> QED
    BY <2>2, <2>3
<1>7. ASSUME NEW p \in Openers, Schema!Link(p) PROVE SchemaKeptInv'
  <2> DEFINE file == schemaOpeners[p].file
             there == {b \in schemaBackups : b.version = file.version /\ b.suffixed = file.suffixed
                                         /\ (b.suffixed => Schema!Bytes(b) = Schema!Bytes(file))}
  <2>1. schemaDatabase.version <= Schema!Current /\ SchemaStillIs(file.content)
    BY <1>2, <1>7 DEF Schema!Link, Schema!At, SchemaKeptInv
  <2>2. /\ schemaBackups' = IF there = {} THEN schemaBackups \cup {file} ELSE schemaBackups
        /\ Schema!Goes(p,
           IF \A b \in there : Schema!Bytes(b) = Schema!Bytes(file) THEN [step |-> "begin"] ELSE Schema!Closed)
        /\ UNCHANGED <<schemaDatabase, schemaWriter, schemaReplaced>>
    BY <1>7 DEF Schema!Link
  <2>3. schemaBackups \subseteq schemaBackups' /\ there \subseteq schemaBackups
    BY <2>2
  <2>4. CASE \A b \in there : Schema!Bytes(b) = Schema!Bytes(file)
    <3>1. \E b \in schemaBackups' : b.content = file.content
      BY <2>2, <2>3, <2>4 DEF Schema!Bytes
    <3>2. Schema!Legacy(schemaDatabase) => SchemaInABackup'
      BY <2>1, <2>2, <3>1 DEF SchemaStillIs, SchemaInABackup
    <3> HIDE DEF there, file
    <3>3. Schema!Goes(p, [step |-> "begin"])
      BY <2>2, <2>4
    <3> QED
      BY <2>1, <2>2, <2>3, <3>2, <3>3, SchemaKeptFrame
  <2>5. CASE ~\A b \in there : Schema!Bytes(b) = Schema!Bytes(file)
    <3> HIDE DEF there, file
    <3>1. Schema!Goes(p, [step |-> "closed"])
      BY <2>2, <2>5 DEF Schema!Closed
    <3> QED
      BY <2>2, <2>3, <3>1, SchemaKeptFrame
  <2> QED
    BY <2>4, <2>5
<1>8. ASSUME NEW p \in Openers, Schema!Begin(p) PROVE SchemaKeptInv'
  <2>1. /\ schemaDatabase.version <= Schema!Current
           /\ (Schema!Legacy(schemaDatabase) => SchemaInABackup)
        /\ UNCHANGED <<schemaDatabase, schemaBackups, schemaReplaced>>
    BY <1>2, <1>8 DEF Schema!Begin, Schema!At, SchemaKeptInv
  <2>2. SchemaInABackup => SchemaInABackup'
    BY <2>1 DEF SchemaInABackup
  <2>3. CASE schemaWriter = Schema!Nobody /\ schemaWriter' = p
        /\ Schema!Goes(p, [step |-> "repair"])
    BY <2>1, <2>2, <2>3, SchemaKeptFrame DEF SchemaSensible
  <2>4. CASE UNCHANGED schemaWriter /\ Schema!Goes(p, Schema!Closed)
    BY <2>1, <2>4, SchemaKeptFrame DEF Schema!Closed
  <2> QED
    BY <1>8, <2>3, <2>4 DEF Schema!Begin
<1>9. ASSUME NEW p \in Openers, Schema!Repair(p) PROVE SchemaKeptInv'
  <2>1. /\ schemaDatabase.version <= Schema!Current
           /\ (Schema!Legacy(schemaDatabase) => SchemaInABackup)
        /\ schemaWriter = p /\ UNCHANGED schemaBackups /\ schemaWriter' = Schema!Nobody
        /\ schemaReplaced' \subseteq schemaReplaced \cup {schemaDatabase}
    BY <1>2, <1>9 DEF Schema!Repair, Schema!At, SchemaKeptInv
  <2>2. schemaDatabase'.version = Schema!Current /\ schemaDatabase'.sound = TRUE
    BY <1>9 DEF Schema!Repair, SchemaTypeInv, Schema!Contents
  <2>3. ~Schema!Legacy(schemaDatabase)'
    BY <2>2 DEF Schema!Legacy, Schema!Current
  <2>4. Schema!OriginalIsKept'
    BY <2>1 DEF SchemaKeptInv, Schema!OriginalIsKept, SchemaInABackup
  <2>5. schemaOpeners'[p].step = "open"
        /\ \A q \in Openers \ {p} : schemaOpeners'[q] = schemaOpeners[q]
    BY <1>9 DEF Schema!Repair, Schema!Goes, SchemaTypeInv
  <2>6. \A q \in Openers : ~Schema!At(q, "repair")'
    BY <2>1, <2>5 DEF SchemaKeptInv, Schema!At
  <2>7. schemaDatabase'.version <= Schema!Current
    BY <2>2 DEF Schema!Current
  <2> QED
    BY <2>3, <2>4, <2>6, <2>7 DEF SchemaKeptInv, SchemaStillIs
<1>10. ASSUME NEW p \in Openers, Schema!Stop(p) PROVE SchemaKeptInv'
  BY <1>10, SchemaKeptFrame DEF Schema!Stop, Schema!Closed
<1>11. CASE Schema!OldRow
  <2>1. /\ schemaDatabase.version = 1 /\ schemaWriter = Schema!Nobody
        /\ \A p \in Openers : schemaOpeners[p].step \notin {"target", "link", "begin"}
        /\ UNCHANGED <<schemaWriter, schemaBackups, schemaOpeners, schemaReplaced>>
    BY <1>11 DEF Schema!OldRow
  <2>2. schemaDatabase'.version = 1
    BY <1>11, <2>1 DEF Schema!OldRow, SchemaTypeInv, Schema!Contents
  <2>3. \A p \in Openers : schemaOpeners[p].step # "repair"
    BY <2>1 DEF SchemaKeptInv, Schema!At, SchemaSensible
  <2> QED
    BY <2>1, <2>2, <2>3 DEF SchemaKeptInv, Schema!At, Schema!OriginalIsKept, Schema!Current
<1>12. CASE Schema!NewBuild
  <2>1. Schema!Opening = {} /\ UNCHANGED <<schemaBackups, schemaOpeners, schemaReplaced>>
    BY <1>12 DEF Schema!NewBuild
  <2> QED
    BY <2>1 DEF SchemaKeptInv, Schema!At, Schema!Opening, Schema!OriginalIsKept
<1> QED
  BY <1>1, <1>3, <1>4, <1>5, <1>6, <1>7, <1>8, <1>9, <1>10, <1>11, <1>12 DEF Schema!Next

(* Unless another build writes in the middle of an opening, no number of   *)
(* processes that open, repair and die at will ever replaces a newer       *)
(* database, or an older or damaged one of which no backup is left.        *)
THEOREM SchemaOriginalsAreKept ==
  ASSUME SchemaSensible, MigrationHazards = {}
  PROVE  Schema!Spec => []Schema!OriginalIsKept
<1>1. SchemaKeptInv => Schema!OriginalIsKept
  BY DEF SchemaKeptInv
<1> QED
  BY <1>1, SchemaTypeInit, SchemaTypeStep, SchemaKeptInit, SchemaKeptStep, PTL DEF Schema!Spec

(* The variables of the instance, by either name. *)
LEMMA SchemaVarsAre == SchemaVars' = SchemaVars <=> Schema!vars' = Schema!vars
BY DEF SchemaVars, Schema!vars

-----------------------------------------------------------------------------
(* Side by side: the scene stays, and its component keeps its own laws.    *)

LEMMA SourcesScene ==
  SourceSpec => /\ Playing("sources") => Sync!Spec /\ []Playing("sources")
                /\ ~Playing("sources") => []~Playing("sources")
<1>1. SourceInit /\ Playing("sources") => Sync!Init
  BY DEF SourceInit, Playing
<1>2. [SourceNext]_SourceVars /\ Playing("sources")
        => [Sync!Next]_Sync!vars /\ Playing("sources")'
  BY SyncVarsAre, ProgramVarsAre, ResumedVarsAre, StoreVarsAre, SchemaVarsAre
    DEF SourceNext, SourceVars, SourceOwn, Playing
<1>3. [SourceNext]_SourceVars /\ ~Playing("sources") => ~Playing("sources")'
  BY DEF SourceNext, SourceVars, Playing
<1> QED  BY <1>1, <1>2, <1>3, PTL DEF SourceSpec, Sync!Spec

LEMMA ProgramScene ==
  SourceSpec => /\ Playing("program") => Program!Spec /\ []Playing("program")
                /\ ~Playing("program") => []~Playing("program")
<1>1. SourceInit /\ Playing("program") => Program!Init
  BY DEF SourceInit, Playing
<1>2. [SourceNext]_SourceVars /\ Playing("program")
        => [Program!Next]_Program!vars /\ Playing("program")'
  BY SyncVarsAre, ProgramVarsAre, ResumedVarsAre, StoreVarsAre, SchemaVarsAre
    DEF SourceNext, SourceVars, SourceOwn, Playing
<1>3. [SourceNext]_SourceVars /\ ~Playing("program") => ~Playing("program")'
  BY DEF SourceNext, SourceVars, Playing
<1> QED  BY <1>1, <1>2, <1>3, PTL DEF SourceSpec, Program!Spec

LEMMA ResumeScene ==
  SourceSpec => /\ Playing("resume") => Resumed!Spec /\ []Playing("resume")
                /\ ~Playing("resume") => []~Playing("resume")
<1>1. SourceInit /\ Playing("resume") => Resumed!Init
  BY DEF SourceInit, Playing
<1>2. [SourceNext]_SourceVars /\ Playing("resume")
        => [Resumed!Next]_Resumed!vars /\ Playing("resume")'
  BY SyncVarsAre, ProgramVarsAre, ResumedVarsAre, StoreVarsAre, SchemaVarsAre
    DEF SourceNext, SourceVars, SourceOwn, Playing
<1>3. [SourceNext]_SourceVars /\ ~Playing("resume") => ~Playing("resume")'
  BY DEF SourceNext, SourceVars, Playing
<1> QED  BY <1>1, <1>2, <1>3, PTL DEF SourceSpec, Resumed!Spec

LEMMA StoreScene ==
  SourceSpec => /\ Playing("store") => Store!Spec /\ []Playing("store")
                /\ ~Playing("store") => []~Playing("store")
<1>1. SourceInit /\ Playing("store") => Store!Init
  BY DEF SourceInit, Playing
<1>2. [SourceNext]_SourceVars /\ Playing("store")
        => [Store!Next]_Store!vars /\ Playing("store")'
  BY SyncVarsAre, ProgramVarsAre, ResumedVarsAre, StoreVarsAre, SchemaVarsAre
    DEF SourceNext, SourceVars, SourceOwn, Playing
<1>3. [SourceNext]_SourceVars /\ ~Playing("store") => ~Playing("store")'
  BY DEF SourceNext, SourceVars, Playing
<1> QED  BY <1>1, <1>2, <1>3, PTL DEF SourceSpec, Store!Spec

LEMMA SchemaScene ==
  SourceSpec => /\ Playing("schema") => Schema!Spec /\ []Playing("schema")
                /\ ~Playing("schema") => []~Playing("schema")
<1>1. SourceInit /\ Playing("schema") => Schema!Init
  BY DEF SourceInit, Playing
<1>2. [SourceNext]_SourceVars /\ Playing("schema")
        => [Schema!Next]_Schema!vars /\ Playing("schema")'
  BY SyncVarsAre, ProgramVarsAre, ResumedVarsAre, StoreVarsAre, SchemaVarsAre
    DEF SourceNext, SourceVars, SourceOwn, Playing
<1>3. [SourceNext]_SourceVars /\ ~Playing("schema") => ~Playing("schema")'
  BY DEF SourceNext, SourceVars, Playing
<1> QED  BY <1>1, <1>2, <1>3, PTL DEF SourceSpec, Schema!Spec

(* Every component of a workspace's sources keeps its types, whatever the  *)
(* hazards, for any files, texts and bounds.                               *)
THEOREM SourceAlwaysTyped ==
  ASSUME SyncSensible, ProgramKnown, ResumedSensible, StoreSensible, SchemaSensible
  PROVE  SourceSpec => []SourceTyped
<1>1. /\ ~Playing("sources") \/ Sync!TypeOK
      /\ ~Playing("program") \/ Program!TypeOK
      /\ ~Playing("resume") \/ Resumed!TypeOK
      /\ ~Playing("store") \/ Store!TypeOK
      /\ ~Playing("schema") \/ Schema!TypeOK
      => SourceTyped
  BY DEF SourceTyped
<1>2. SourceSpec => [](~Playing("sources") \/ Sync!TypeOK)
  BY SourcesScene, SyncTypeCorrect, PTL
<1>3. SourceSpec => [](~Playing("program") \/ Program!TypeOK)
  BY ProgramScene, ProgramTypeCorrect, PTL
<1>4. SourceSpec => [](~Playing("resume") \/ Resumed!TypeOK)
  BY ResumeScene, ResumedTypeCorrect, PTL
<1>5. SourceSpec => [](~Playing("store") \/ Store!TypeOK)
  BY StoreScene, StoreTypeCorrect, PTL
<1>6. SourceSpec => [](~Playing("schema") \/ Schema!TypeOK)
  BY SchemaScene, SchemaTypeCorrect, PTL
<1> QED  BY <1>1, <1>2, <1>3, <1>4, <1>5, <1>6, PTL

(* Where nothing hazardous happens the index vouches for the files, and    *)
(* the graph kept up is the graph a build from nothing makes.              *)
THEOREM IndexAlwaysVouches ==
  ASSUME SyncSensible, SyncNoLateEdit, SyncNoEarlyPoll, ProgramSensible
  PROVE  SourceSpec => []IndexVouches
<1> DEFINE OfFiles == Sync!PrintVouches /\ Sync!ToolchainVouches /\ Sync!DiffSinceComplete
           OfGraph == Program!GraphIsAsFromScratch /\ Program!FactsAreOfTheRow
<1>1. (~Playing("sources") \/ OfFiles) /\ (~Playing("program") \/ OfGraph) => IndexVouches
  BY DEF IndexVouches
<1>2. SourceSpec => [](~Playing("sources") \/ OfFiles)
  BY SourcesScene, SyncPrintsVouch, SyncToolchainsVouch, SyncDiffsAreComplete, PTL
<1>3. SourceSpec => [](~Playing("program") \/ OfGraph)
  BY ProgramScene, ProgramGraphIsAlwaysAsFromScratch, PTL
<1> HIDE DEF OfFiles, OfGraph
<1> QED  BY <1>1, <1>2, <1>3, PTL

(* A ranged read serves what is indexed, wherever edits fall around it.    *)
THEOREM ReadsAreOfTheIndex ==
  ASSUME SyncSensible, SyncNoLateEdit
  PROVE  SourceSpec => ReadIsIndexed
<1>1. [SourceNext]_SourceVars /\ [Sync!ReadIsIndexedStep]_Sync!vars
        => [Playing("sources") => Sync!ReadIsIndexedStep]_SourceVars
  BY SyncVarsAre, ProgramVarsAre, ResumedVarsAre, StoreVarsAre, SchemaVarsAre
    DEF SourceNext, SourceVars, SourceOwn, Playing
<1>2. [SourceNext]_SourceVars /\ ~Playing("sources")
        => [Playing("sources") => Sync!ReadIsIndexedStep]_SourceVars
  OBVIOUS
<1> QED
  BY <1>1, <1>2, SourcesScene, SyncReadsAreIndexed, PTL
    DEF SourceSpec, ReadIsIndexed, Sync!ReadIsIndexed

(* A deep refresh nobody writes beside heals, whatever the hazards.        *)
THEOREM DeepRefreshAlwaysHeals ==
  ASSUME SyncSensible
  PROVE  SourceSpec => DeepRefreshHeals
<1>1. [SourceNext]_SourceVars /\ [Sync!DeepRefreshHealsStep]_Sync!vars
        => [Playing("sources") => Sync!DeepRefreshHealsStep]_SourceVars
  BY SyncVarsAre, ProgramVarsAre, ResumedVarsAre, StoreVarsAre, SchemaVarsAre
    DEF SourceNext, SourceVars, SourceOwn, Playing
<1>2. [SourceNext]_SourceVars /\ ~Playing("sources")
        => [Playing("sources") => Sync!DeepRefreshHealsStep]_SourceVars
  OBVIOUS
<1> QED
  BY <1>1, <1>2, SourcesScene, SyncDeepRefreshesHeal, PTL
     DEF SourceSpec, DeepRefreshHeals, Sync!DeepRefreshHeals

(* Resuming never takes a world that has changed for the one it knew.      *)
THEOREM ResumptionKnowsItsWorld ==
  ASSUME ResumedSensible
  PROVE  SourceSpec => []ResumedWorldIsKnown
<1>1. Resumed!ResumeIsSafe => ResumedWorldIsKnown
  BY DEF ResumedWorldIsKnown
<1>2. ~Playing("resume") => ResumedWorldIsKnown
  BY DEF ResumedWorldIsKnown
<1> QED  BY <1>1, <1>2, ResumeScene, ResumedResumptionIsSafe, PTL

(* The database is never left with part of a block, nor replaced without a *)
(* backup, if no other build writes in the middle of an opening.           *)
THEOREM DatabaseAlwaysHolds ==
  ASSUME StoreSensible, SchemaSensible, MigrationHazards = {}
  PROVE  SourceSpec => []DatabaseHolds
<1>1. /\ ~Playing("store") \/ Store!AtomicBlocks
      /\ ~Playing("schema") \/ Schema!OriginalIsKept
      => DatabaseHolds
  BY DEF DatabaseHolds
<1>2. SourceSpec => [](~Playing("store") \/ Store!AtomicBlocks)
  BY StoreScene, StoreBlocksAreAtomic, PTL
<1>3. SourceSpec => [](~Playing("schema") \/ Schema!OriginalIsKept)
  BY SchemaScene, SchemaOriginalsAreKept, PTL
<1> QED  BY <1>1, <1>2, <1>3, PTL
=============================================================================
