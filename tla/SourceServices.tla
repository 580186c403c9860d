----------------------------- MODULE SourceServices -----------------------------
(***************************************************************************)
(* What a workspace is kept in: its view of the sources, the graph it makes*)
(* of them, the sessions that are resumed over them, and the database of   *)
(* all three, with its transactions and how it is opened and migrated.     *)
(***************************************************************************)
EXTENDS Stage

CONSTANTS
  MaxClock, MaxQueue, MaxReads, SourceHazards,  \* of SourceSync
  Modules, ModuleTexts, ParsedAs, StartTree, MaxRewritten, TestModules,
  IndexHazards,                                 \* of ProgramIndex
  MaxSaves, MaxDrifts,                          \* of Continuity
  MaxBlocks, MaxWrites,                         \* of StoreTransactions
  Openers, MaxOpens, MaxRows, MigrationHazards  \* of SchemaMigration

VARIABLES
  \* SourceSync
  syncKind, syncAuth, syncMirror, syncClock, syncHalf, syncIndex, syncPrints,
  syncRevisions, syncCompiler, syncKnown, syncRun, syncReader, syncServed, syncReads,
  syncWatch,
  \* ProgramIndex
  programTree, programRowOf, programParts, programPrecise, programRelations,
  programEffects, programRewrites,
  \* Continuity
  resumedDisk, resumedEdits, resumedIndex, resumedChain, resumedIdentity,
  resumedDrifts, resumedResidents, resumedSession, resumedReply,
  \* StoreTransactions
  storeSaved, storeView, storeOpen, storeFrames, storeRaising, storeLock, storeWrites,
  storeEnds,
  \* SchemaMigration
  schemaDatabase, schemaWal, schemaWriter, schemaBackups, schemaOpeners, schemaOpens,
  schemaReplaced

Sync == INSTANCE SourceSync WITH
  Hazards <- SourceHazards, kind <- syncKind, auth <- syncAuth, mirror <- syncMirror,
  clock <- syncClock, half <- syncHalf, index <- syncIndex, prints <- syncPrints,
  revisions <- syncRevisions, compiler <- syncCompiler, known <- syncKnown,
  run <- syncRun, reader <- syncReader, served <- syncServed, reads <- syncReads,
  watch <- syncWatch

Program == INSTANCE ProgramIndex WITH
  Files <- Modules, Contents <- ModuleTexts, NoFile <- NoText, Code <- ParsedAs,
  MaxEdits <- MaxRewritten, TestFiles <- TestModules, tree <- programTree,
  rowOf <- programRowOf, parts <- programParts, precise <- programPrecise,
  relations <- programRelations, effects <- programEffects, rewrites <- programRewrites

Resumed == INSTANCE Continuity WITH
  Objects <- Paths, MaxEdits <- MaxSaves, disk <- resumedDisk, edits <- resumedEdits,
  index <- resumedIndex, chain <- resumedChain, identity <- resumedIdentity,
  drifts <- resumedDrifts, residents <- resumedResidents, session <- resumedSession,
  reply <- resumedReply

Store == INSTANCE StoreTransactions WITH
  saved <- storeSaved, view <- storeView, open <- storeOpen, frames <- storeFrames,
  raising <- storeRaising, lock <- storeLock, writes <- storeWrites, ends <- storeEnds

Schema == INSTANCE SchemaMigration WITH
  database <- schemaDatabase, wal <- schemaWal, writer <- schemaWriter,
  backups <- schemaBackups, openers <- schemaOpeners, opens <- schemaOpens,
  replaced <- schemaReplaced

SyncVars ==
  <<syncKind, syncAuth, syncMirror, syncClock, syncHalf, syncIndex, syncPrints,
    syncRevisions, syncCompiler, syncKnown, syncRun, syncReader, syncServed, syncReads,
    syncWatch>>

SyncIdle ==
  /\ syncKind = Unused /\ syncAuth = Unused /\ syncMirror = Unused
  /\ syncClock = Unused /\ syncHalf = Unused /\ syncIndex = Unused
  /\ syncPrints = Unused /\ syncRevisions = Unused /\ syncCompiler = Unused
  /\ syncKnown = Unused /\ syncRun = Unused /\ syncReader = Unused
  /\ syncServed = Unused /\ syncReads = Unused /\ syncWatch = Unused

ProgramVars ==
  <<programTree, programRowOf, programParts, programPrecise, programRelations,
    programEffects, programRewrites>>

ProgramIdle ==
  /\ programTree = Unused /\ programRowOf = Unused /\ programParts = Unused
  /\ programPrecise = Unused /\ programRelations = Unused /\ programEffects = Unused
  /\ programRewrites = Unused

ResumedVars ==
  <<resumedDisk, resumedEdits, resumedIndex, resumedChain, resumedIdentity,
    resumedDrifts, resumedResidents, resumedSession, resumedReply>>

ResumedIdle ==
  /\ resumedDisk = Unused /\ resumedEdits = Unused /\ resumedIndex = Unused
  /\ resumedChain = Unused /\ resumedIdentity = Unused /\ resumedDrifts = Unused
  /\ resumedResidents = Unused /\ resumedSession = Unused /\ resumedReply = Unused

StoreVars ==
  <<storeSaved, storeView, storeOpen, storeFrames, storeRaising, storeLock,
    storeWrites, storeEnds>>

StoreIdle ==
  /\ storeSaved = Unused /\ storeView = Unused /\ storeOpen = Unused
  /\ storeFrames = Unused /\ storeRaising = Unused /\ storeLock = Unused
  /\ storeWrites = Unused /\ storeEnds = Unused

SchemaVars ==
  <<schemaDatabase, schemaWal, schemaWriter, schemaBackups, schemaOpeners, schemaOpens,
    schemaReplaced>>

SchemaIdle ==
  /\ schemaDatabase = Unused /\ schemaWal = Unused /\ schemaWriter = Unused
  /\ schemaBackups = Unused /\ schemaOpeners = Unused /\ schemaOpens = Unused
  /\ schemaReplaced = Unused

SourceOwn == <<SyncVars, ProgramVars, ResumedVars, StoreVars, SchemaVars>>
SourceVars == <<scene, SourceOwn>>

SourceIdle ==
  /\ SyncIdle /\ ProgramIdle /\ ResumedIdle /\ StoreIdle /\ SchemaIdle

SourceInit ==
  \/ Playing("sources") /\ Sync!Init /\ ProgramIdle /\ ResumedIdle /\ StoreIdle /\ SchemaIdle
  \/ Playing("program") /\ Program!Init /\ SyncIdle /\ ResumedIdle /\ StoreIdle /\ SchemaIdle
  \/ Playing("resume") /\ Resumed!Init /\ SyncIdle /\ ProgramIdle /\ StoreIdle /\ SchemaIdle
  \/ Playing("store") /\ Store!Init /\ SyncIdle /\ ProgramIdle /\ ResumedIdle /\ SchemaIdle
  \/ Playing("schema") /\ Schema!Init /\ SyncIdle /\ ProgramIdle /\ ResumedIdle /\ StoreIdle

SourceNext ==
  /\ UNCHANGED scene
  /\ \/ Playing("sources") /\ Sync!Next /\ UNCHANGED <<ProgramVars, ResumedVars, StoreVars,
        SchemaVars>>
     \/ Playing("program") /\ Program!Next /\ UNCHANGED <<SyncVars, ResumedVars, StoreVars,
        SchemaVars>>
     \/ Playing("resume") /\ Resumed!Next /\ UNCHANGED <<SyncVars, ProgramVars, StoreVars,
        SchemaVars>>
     \/ Playing("store") /\ Store!Next /\ UNCHANGED <<SyncVars, ProgramVars, ResumedVars,
        SchemaVars>>
     \/ Playing("schema") /\ Schema!Next /\ UNCHANGED <<SyncVars, ProgramVars, ResumedVars,
        StoreVars>>

SourceSpec == SourceInit /\ [][SourceNext]_SourceVars

(* What a workspace is kept in keeps its types. *)
SourceTyped ==
  /\ Playing("sources") => Sync!TypeOK
  /\ Playing("program") => Program!TypeOK
  /\ Playing("resume") => Resumed!TypeOK
  /\ Playing("store") => Store!TypeOK
  /\ Playing("schema") => Schema!TypeOK

(* A fingerprint on record is of the text indexed, the toolchain on record *)
(* built every row, and the changed paths of the revisions between two     *)
(* trees name every difference: refresh, refresh_paths, diff_since.  And   *)
(* the graph that is kept up file by file is the one a build from nothing  *)
(* makes, the facts of a file those of its row: _refresh_partitioned.      *)
IndexVouches ==
  /\ Playing("sources") =>
       Sync!PrintVouches /\ Sync!ToolchainVouches /\ Sync!DiffSinceComplete
  /\ Playing("program") => Program!GraphIsAsFromScratch /\ Program!FactsAreOfTheRow

(* A ranged read returns what the index says the file is: read_source_line_range. *)
ReadIsIndexed == [][Playing("sources") => Sync!ReadIsIndexedStep]_SourceVars

(* A deep refresh that nobody disturbs leaves the index, the fingerprints  *)
(* and the mirror as the authority is.                                     *)
DeepRefreshHeals == [][Playing("sources") => Sync!DeepRefreshHealsStep]_SourceVars

(* A session resumed "direct" finds the world it was saved in, and one     *)
(* resumed selectively is told of every file that differs: resume.         *)
ResumedWorldIsKnown == Playing("resume") => Resumed!ResumeIsSafe

(* Of the writes of an atomic block either all stand or none, and a        *)
(* migrated database has a backup of what it was before.                   *)
DatabaseHolds ==
  /\ Playing("store") => Store!AtomicBlocks
  /\ Playing("schema") => Schema!OriginalIsKept
=============================================================================
