---------------------------- MODULE KnowledgeServices ----------------------------
(***************************************************************************)
(* What Habitat holds to be so: claims about the sources, what providers   *)
(* of their meaning agree on, what an agent has in view, remembers, thinks *)
(* and sees of a page, the policies learned, and what a release rests on.  *)
(***************************************************************************)
EXTENDS Stage

CONSTANTS
  TruthPaths, Targets, Limits, MaxTruthEdits, MaxRecords, TruthHazards,  \* of TruthProjection
  ProviderCount, SubjectCount, ClaimValues, RelationSubjects, MostClaims, MaxProviders,
  MaxClaims, MaxDisagreements,                                           \* of SemanticComparison
  PageSize, Capacities, MaxPageBytes, MaxPageEdits, ContextHazards,      \* of ContextMemory
  Statements, Agents, MaxMemories, MaxRevision,                          \* of ProjectMemory
  Hypotheses, ThoughtPaths, ItemWindow, PlanLimits, MaxItems, ThoughtHazards,  \* of Deliberation
  PolicyVersions, PolicyCandidates, Processes, Measures,                 \* of PolicyLearning
  Reports, Reviewers, PipelineFiles, NoPipelineFile, ReleaseCommit, MaxRewrites, Conditions,
  Seeds, Environments, MaxReceipts, Sampled, Cycles, Tolerance, MaxSamples,  \* of ReleaseEvidence
  Elements, Keys, MaxPage, MaxUiEdits, MaxObserved                       \* of SemanticUi

VARIABLES
  \* TruthProjection
  truthFiles, truthRows, truthRevision, truthSaves, truthRecords, truthRequest,
  truthReport,
  \* SemanticComparison
  cmpAdmittedSet, cmpFileChanged, cmpComparison,
  \* ContextMemory
  memoryDisk, memoryEdits, memoryIndex, memoryHead, memorySlice, memoryRows,
  memoryRecency, memoryCapacity, memoryOp, memoryCut, memoryServed,
  \* ProjectMemory
  rememberMemories, rememberRevision, rememberRecording, rememberRecalled,
  \* Deliberation
  thoughtItems, thoughtStale, thoughtHypotheses, thoughtExperiments, thoughtEpisode,
  \* PolicyLearning
  learnParents, learnCandidates, learnEvaluations, learnActivations, learnActive,
  learnReadings,
  \* ReleaseEvidence
  relShelf, relSnapshots, relProgress, relRelease, relRewritten, relReceipts,
  relSamples,
  \* SemanticUi
  uiPage, uiRegistry, uiCounter, uiPrevious, uiMeant, uiDelta, uiBefore, uiReply,
  uiEdits, uiObserved

Truth == INSTANCE TruthProjection WITH
  Paths <- TruthPaths, NoDigest <- NoText, MaxEdits <- MaxTruthEdits,
  files <- truthFiles, rows <- truthRows, revision <- truthRevision,
  saves <- truthSaves, records <- truthRecords, request <- truthRequest,
  report <- truthReport

Cmp == INSTANCE SemanticComparison WITH
  Values <- ClaimValues, Relations <- RelationSubjects, admittedSet <- cmpAdmittedSet,
  fileChanged <- cmpFileChanged, comparison <- cmpComparison

Memory == INSTANCE ContextMemory WITH
  Objects <- Paths, Size <- PageSize, MaxBytes <- MaxPageBytes,
  MaxEdits <- MaxPageEdits, disk <- memoryDisk, edits <- memoryEdits,
  index <- memoryIndex, head <- memoryHead, slice <- memorySlice, rows <- memoryRows,
  recency <- memoryRecency, capacity <- memoryCapacity, op <- memoryOp,
  cut <- memoryCut, served <- memoryServed

Remember == INSTANCE ProjectMemory WITH
  memories <- rememberMemories, revision <- rememberRevision,
  recording <- rememberRecording, recalled <- rememberRecalled

Thought == INSTANCE Deliberation WITH
  Paths <- ThoughtPaths, Window <- ItemWindow, Limits <- PlanLimits,
  items <- thoughtItems, stale <- thoughtStale, hypotheses <- thoughtHypotheses,
  experiments <- thoughtExperiments, episode <- thoughtEpisode

Learn == INSTANCE PolicyLearning WITH
  Versions <- PolicyVersions, Candidates <- PolicyCandidates, parents <- learnParents,
  candidates <- learnCandidates, evaluations <- learnEvaluations,
  activations <- learnActivations, active <- learnActive, readings <- learnReadings

Rel == INSTANCE ReleaseEvidence WITH
  Documents <- PipelineFiles, NoFile <- NoPipelineFile, Commit <- ReleaseCommit,
  shelf <- relShelf, snapshots <- relSnapshots, progress <- relProgress,
  release <- relRelease, rewritten <- relRewritten, receipts <- relReceipts,
  samples <- relSamples

Ui == INSTANCE SemanticUi WITH
  Nodes <- Elements, MaxEdits <- MaxUiEdits, page <- uiPage, registry <- uiRegistry,
  counter <- uiCounter, previous <- uiPrevious, meant <- uiMeant, delta <- uiDelta,
  before <- uiBefore, reply <- uiReply, edits <- uiEdits, observed <- uiObserved

TruthVars ==
  <<truthFiles, truthRows, truthRevision, truthSaves, truthRecords, truthRequest,
    truthReport>>

TruthIdle ==
  /\ truthFiles = Unused /\ truthRows = Unused /\ truthRevision = Unused
  /\ truthSaves = Unused /\ truthRecords = Unused /\ truthRequest = Unused
  /\ truthReport = Unused

CmpVars ==
  <<cmpAdmittedSet, cmpFileChanged, cmpComparison>>

CmpIdle ==
  /\ cmpAdmittedSet = Unused /\ cmpFileChanged = Unused /\ cmpComparison = Unused

MemoryVars ==
  <<memoryDisk, memoryEdits, memoryIndex, memoryHead, memorySlice, memoryRows,
    memoryRecency, memoryCapacity, memoryOp, memoryCut, memoryServed>>

MemoryIdle ==
  /\ memoryDisk = Unused /\ memoryEdits = Unused /\ memoryIndex = Unused
  /\ memoryHead = Unused /\ memorySlice = Unused /\ memoryRows = Unused
  /\ memoryRecency = Unused /\ memoryCapacity = Unused /\ memoryOp = Unused
  /\ memoryCut = Unused /\ memoryServed = Unused

RememberVars ==
  <<rememberMemories, rememberRevision, rememberRecording, rememberRecalled>>

RememberIdle ==
  /\ rememberMemories = Unused /\ rememberRevision = Unused
  /\ rememberRecording = Unused /\ rememberRecalled = Unused

ThoughtVars ==
  <<thoughtItems, thoughtStale, thoughtHypotheses, thoughtExperiments, thoughtEpisode>>

ThoughtIdle ==
  /\ thoughtItems = Unused /\ thoughtStale = Unused /\ thoughtHypotheses = Unused
  /\ thoughtExperiments = Unused /\ thoughtEpisode = Unused

LearnVars ==
  <<learnParents, learnCandidates, learnEvaluations, learnActivations, learnActive,
    learnReadings>>

LearnIdle ==
  /\ learnParents = Unused /\ learnCandidates = Unused /\ learnEvaluations = Unused
  /\ learnActivations = Unused /\ learnActive = Unused /\ learnReadings = Unused

RelVars ==
  <<relShelf, relSnapshots, relProgress, relRelease, relRewritten, relReceipts,
    relSamples>>

RelIdle ==
  /\ relShelf = Unused /\ relSnapshots = Unused /\ relProgress = Unused
  /\ relRelease = Unused /\ relRewritten = Unused /\ relReceipts = Unused
  /\ relSamples = Unused

UiVars ==
  <<uiPage, uiRegistry, uiCounter, uiPrevious, uiMeant, uiDelta, uiBefore, uiReply,
    uiEdits, uiObserved>>

UiIdle ==
  /\ uiPage = Unused /\ uiRegistry = Unused /\ uiCounter = Unused
  /\ uiPrevious = Unused /\ uiMeant = Unused /\ uiDelta = Unused /\ uiBefore = Unused
  /\ uiReply = Unused /\ uiEdits = Unused /\ uiObserved = Unused

KnowledgeOwn == <<TruthVars, CmpVars, MemoryVars, RememberVars, ThoughtVars, LearnVars,
                  RelVars, UiVars>>
KnowledgeVars == <<scene, KnowledgeOwn>>

KnowledgeIdle ==
  /\ TruthIdle /\ CmpIdle /\ MemoryIdle /\ RememberIdle /\ ThoughtIdle
  /\ LearnIdle /\ RelIdle /\ UiIdle

(* Three scenes of a release: its promotion, its experiment and its SLO. *)
Releasing == Playing("promotion") \/ Playing("experiment") \/ Playing("slo")

KnowledgeInit ==
  \/ /\ Playing("truth") /\ Truth!Init
     /\ CmpIdle /\ MemoryIdle /\ RememberIdle /\ ThoughtIdle
     /\ LearnIdle /\ RelIdle /\ UiIdle
  \/ /\ Playing("comparison") /\ Cmp!Init
     /\ TruthIdle /\ MemoryIdle /\ RememberIdle /\ ThoughtIdle
     /\ LearnIdle /\ RelIdle /\ UiIdle
  \/ /\ Playing("memory") /\ Memory!Init
     /\ TruthIdle /\ CmpIdle /\ RememberIdle /\ ThoughtIdle
     /\ LearnIdle /\ RelIdle /\ UiIdle
  \/ /\ Playing("remember") /\ Remember!Init
     /\ TruthIdle /\ CmpIdle /\ MemoryIdle /\ ThoughtIdle
     /\ LearnIdle /\ RelIdle /\ UiIdle
  \/ /\ Playing("thought") /\ Thought!Init
     /\ TruthIdle /\ CmpIdle /\ MemoryIdle /\ RememberIdle
     /\ LearnIdle /\ RelIdle /\ UiIdle
  \/ /\ Playing("learning") /\ Learn!Init
     /\ TruthIdle /\ CmpIdle /\ MemoryIdle /\ RememberIdle
     /\ ThoughtIdle /\ RelIdle /\ UiIdle
  \/ /\ Releasing /\ Rel!Init
     /\ TruthIdle /\ CmpIdle /\ MemoryIdle /\ RememberIdle
     /\ ThoughtIdle /\ LearnIdle /\ UiIdle
  \/ /\ Playing("ui") /\ Ui!Init
     /\ TruthIdle /\ CmpIdle /\ MemoryIdle /\ RememberIdle
     /\ ThoughtIdle /\ LearnIdle /\ RelIdle

KnowledgeNext ==
  /\ UNCHANGED scene
  /\ \/ /\ Playing("truth") /\ Truth!Next
        /\ UNCHANGED <<CmpVars, MemoryVars, RememberVars, ThoughtVars, LearnVars, RelVars, UiVars>>
     \/ /\ Playing("comparison") /\ Cmp!Next
        /\ UNCHANGED <<TruthVars, MemoryVars, RememberVars, ThoughtVars, LearnVars, RelVars,
           UiVars>>
     \/ /\ Playing("memory") /\ Memory!Next
        /\ UNCHANGED <<TruthVars, CmpVars, RememberVars, ThoughtVars, LearnVars, RelVars, UiVars>>
     \/ /\ Playing("remember") /\ Remember!Next
        /\ UNCHANGED <<TruthVars, CmpVars, MemoryVars, ThoughtVars, LearnVars, RelVars, UiVars>>
     \/ /\ Playing("thought") /\ Thought!Next
        /\ UNCHANGED <<TruthVars, CmpVars, MemoryVars, RememberVars, LearnVars, RelVars, UiVars>>
     \/ /\ Playing("learning") /\ Learn!Next
        /\ UNCHANGED <<TruthVars, CmpVars, MemoryVars, RememberVars, ThoughtVars, RelVars, UiVars>>
     \/ /\ Releasing /\ Rel!Next
        /\ UNCHANGED <<TruthVars, CmpVars, MemoryVars, RememberVars, ThoughtVars, LearnVars,
           UiVars>>
     \/ /\ Playing("ui") /\ Ui!Next
        /\ UNCHANGED <<TruthVars, CmpVars, MemoryVars, RememberVars, ThoughtVars, LearnVars,
           RelVars>>

KnowledgeSpec == KnowledgeInit /\ [][KnowledgeNext]_KnowledgeVars

(* What Habitat holds to be so keeps its types; the residents in memory    *)
(* stay in one order of use, and a report of a comparison within its       *)
(* bounds.                                                                 *)
KnowledgeTyped ==
  /\ Playing("truth") => Truth!TypeOK
  /\ Playing("comparison") => Cmp!TypeOK
  /\ Playing("memory") => Memory!TypeOK
  /\ Playing("remember") => Remember!TypeOK
  /\ Playing("thought") => Thought!TypeOK
  /\ Playing("learning") => Learn!TypeOK
  /\ Releasing => Rel!TypeOK
  /\ Playing("ui") => Ui!TypeOK

(* Claims reported current are true of the files, a memory that was        *)
(* superseded has a successor, and the report of a comparison names the    *)
(* disagreements there are: TruthProjector, memory_record,                 *)
(* compare_parse_providers.                                                *)
KnowledgeHolds == /\ Playing("truth") => Truth!CurrentClaimsHold
                  /\ Playing("remember") => Remember!SupersededHasSuccessor
                  /\ Playing("comparison") => Cmp!ReportIsExact

(* What an agent is given is what it was promised: a page served is the    *)
(* page mapped and resident memory exceeds its capacity only by pins, what *)
(* it concludes of its hypotheses has been earned, and an action on a page *)
(* reaches the element its handle was shown for: context_fetch,            *)
(* cognition_plan, SemanticActionExecutor.                                 *)
AttentionHolds ==
  /\ Playing("memory") => Memory!PagesAreAsMapped /\ Memory!OvercommitOnlyByPins
  /\ Playing("thought") => Thought!ConvergenceIsEarned
  /\ Playing("ui") => Ui!HandlesAreUnique /\ Ui!ActsOnWhatWasMeant /\ Ui!DeltaIsExact

(* The active policy is the top of the promotions not rolled back, a       *)
(* release is promoted on what passed, the runs compared differ in nothing *)
(* but their condition, and an SLO is admitted on all that was sampled:    *)
(* LearningService, release.py, experiment.py, slo.py.                     *)
PromotionsAreEarned ==
  /\ Playing("learning") => Learn!PromotionsStack
  /\ Releasing => Rel!PromotedOnWhatPassed /\ Rel!PairsAreCausal /\ Rel!SloIsMonotone
=============================================================================
