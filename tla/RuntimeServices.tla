----------------------------- MODULE RuntimeServices -----------------------------
(***************************************************************************)
(* The processes Habitat starts for an agent: a language server, a SCIP    *)
(* indexer whose index it then answers from, and the test commands, with   *)
(* the evidence that is kept of what confined them.                        *)
(***************************************************************************)
EXTENDS Stage

CONSTANTS
  Askers, Viewers, MaxRequests, MaxSessions, MaxEdits, MaxPending, MaxNotes, Patience,
  ServerHazards,                                             \* of LanguageServer
  MaxChanges, MaxIndexes, ScipHazards,                       \* of ScipRuntime
  PyTests, JsTests, Providers, MaxNamed, MaxFlips, MaxRuns,  \* of Verification
  ResourceLimits, Hosts, MaxReceiptChanges                   \* of ContainmentEvidence

VARIABLES
  \* LanguageServer
  lspDisk, lspEdits, lspGen, lspState, lspActivating, lspTimeouts, lspNextId,
  lspPending, lspNotes, lspReader, lspAlive, lspOpened, lspAsked, lspPipe, lspActive,
  lspAdmitted, lspDocument, lspDiagnostics, lspCallers,
  \* ScipRuntime
  scipSources, scipChanges, scipRevision, scipIndexer, scipIndexes, scipArtifact,
  scipCandidate, scipRuntime, scipProbed, scipAdmitted, scipQuery, scipTouched,
  \* Verification
  testsHost, testsProfile, testsManifest, testsMode, testsDetached, testsInstalled,
  testsBroken, testsTask, testsEvidence, testsFlips, testsRuns,
  \* ContainmentEvidence
  proofHost, proofProvider, proofBound, proofStored, proofChanges, proofVerdict,
  proofReport

Lsp == INSTANCE LanguageServer WITH
  Versions <- Texts, disk <- lspDisk, edits <- lspEdits, gen <- lspGen,
  state <- lspState, activating <- lspActivating, timeouts <- lspTimeouts,
  nextId <- lspNextId, pending <- lspPending, notes <- lspNotes, reader <- lspReader,
  alive <- lspAlive, opened <- lspOpened, asked <- lspAsked, pipe <- lspPipe,
  active <- lspActive, admitted <- lspAdmitted, document <- lspDocument,
  diagnostics <- lspDiagnostics, callers <- lspCallers

Scip == INSTANCE ScipRuntime WITH
  Documents <- Paths, Contents <- Texts, NoFile <- NoText, sources <- scipSources,
  changes <- scipChanges, revision <- scipRevision, indexer <- scipIndexer,
  indexes <- scipIndexes, artifact <- scipArtifact, candidate <- scipCandidate,
  runtime <- scipRuntime, probed <- scipProbed, admitted <- scipAdmitted,
  query <- scipQuery, touched <- scipTouched

Tests == INSTANCE Verification WITH
  host <- testsHost, profile <- testsProfile, manifest <- testsManifest,
  mode <- testsMode, detached <- testsDetached, installed <- testsInstalled,
  broken <- testsBroken, task <- testsTask, evidence <- testsEvidence,
  flips <- testsFlips, runs <- testsRuns

Proof == INSTANCE ContainmentEvidence WITH
  Limits <- ResourceLimits, MaxChanges <- MaxReceiptChanges, host <- proofHost,
  provider <- proofProvider, bound <- proofBound, stored <- proofStored,
  changes <- proofChanges, verdict <- proofVerdict, report <- proofReport

LspVars ==
  <<lspDisk, lspEdits, lspGen, lspState, lspActivating, lspTimeouts, lspNextId,
    lspPending, lspNotes, lspReader, lspAlive, lspOpened, lspAsked, lspPipe, lspActive,
    lspAdmitted, lspDocument, lspDiagnostics, lspCallers>>

LspIdle ==
  /\ lspDisk = Unused /\ lspEdits = Unused /\ lspGen = Unused /\ lspState = Unused
  /\ lspActivating = Unused /\ lspTimeouts = Unused /\ lspNextId = Unused
  /\ lspPending = Unused /\ lspNotes = Unused /\ lspReader = Unused
  /\ lspAlive = Unused /\ lspOpened = Unused /\ lspAsked = Unused /\ lspPipe = Unused
  /\ lspActive = Unused /\ lspAdmitted = Unused /\ lspDocument = Unused
  /\ lspDiagnostics = Unused /\ lspCallers = Unused

ScipVars ==
  <<scipSources, scipChanges, scipRevision, scipIndexer, scipIndexes, scipArtifact,
    scipCandidate, scipRuntime, scipProbed, scipAdmitted, scipQuery, scipTouched>>

ScipIdle ==
  /\ scipSources = Unused /\ scipChanges = Unused /\ scipRevision = Unused
  /\ scipIndexer = Unused /\ scipIndexes = Unused /\ scipArtifact = Unused
  /\ scipCandidate = Unused /\ scipRuntime = Unused /\ scipProbed = Unused
  /\ scipAdmitted = Unused /\ scipQuery = Unused /\ scipTouched = Unused

TestsVars ==
  <<testsHost, testsProfile, testsManifest, testsMode, testsDetached, testsInstalled,
    testsBroken, testsTask, testsEvidence, testsFlips, testsRuns>>

TestsIdle ==
  /\ testsHost = Unused /\ testsProfile = Unused /\ testsManifest = Unused
  /\ testsMode = Unused /\ testsDetached = Unused /\ testsInstalled = Unused
  /\ testsBroken = Unused /\ testsTask = Unused /\ testsEvidence = Unused
  /\ testsFlips = Unused /\ testsRuns = Unused

ProofVars ==
  <<proofHost, proofProvider, proofBound, proofStored, proofChanges, proofVerdict,
    proofReport>>

ProofIdle ==
  /\ proofHost = Unused /\ proofProvider = Unused /\ proofBound = Unused
  /\ proofStored = Unused /\ proofChanges = Unused /\ proofVerdict = Unused
  /\ proofReport = Unused

RuntimeOwn == <<LspVars, ScipVars, TestsVars, ProofVars>>
RuntimeVars == <<scene, RuntimeOwn>>

RuntimeIdle ==
  /\ LspIdle /\ ScipIdle /\ TestsIdle /\ ProofIdle

(* Two scenes of runs: of tests, and of containment. *)
Testing == Playing("tests") \/ Playing("containment")

RuntimeInit ==
  \/ Playing("server") /\ Lsp!Init /\ ScipIdle /\ TestsIdle /\ ProofIdle
  \/ Playing("scip") /\ Scip!Init /\ LspIdle /\ TestsIdle /\ ProofIdle
  \/ Testing /\ Tests!Init /\ LspIdle /\ ScipIdle /\ ProofIdle
  \/ Playing("proof") /\ Proof!Init /\ LspIdle /\ ScipIdle /\ TestsIdle

RuntimeNext ==
  /\ UNCHANGED scene
  /\ \/ Playing("server") /\ Lsp!Next /\ UNCHANGED <<ScipVars, TestsVars, ProofVars>>
     \/ Playing("scip") /\ Scip!Next /\ UNCHANGED <<LspVars, TestsVars, ProofVars>>
     \/ Testing /\ Tests!Next /\ UNCHANGED <<LspVars, ScipVars, ProofVars>>
     \/ Playing("proof") /\ Proof!Next /\ UNCHANGED <<LspVars, ScipVars, TestsVars>>

RuntimeSpec == RuntimeInit /\ [][RuntimeNext]_RuntimeVars

(* What is run beside a workspace keeps its types. *)
RuntimeTyped ==
  /\ Playing("server") => Lsp!TypeOK
  /\ Playing("scip") => Scip!TypeOK
  /\ Testing => Tests!TypeOK
  /\ Playing("proof") => Proof!TypeOK

(* An answer of the language server is about the file as the request read  *)
(* it and as it still is: query and diagnostics of LspRuntimeManager.      *)
AnswerIsCurrent == [][Playing("server") => Lsp!AnswerIsCurrentStep]_RuntimeVars

(* An answer of a SCIP index is about the sources its runtime was bound to.*)
AnswersAreAboutSources == [][Playing("scip") => Scip!AnswersAreAboutSourcesStep]_RuntimeVars

(* What a receipt claims of its containment is what confined the command,  *)
(* and a stored receipt is accepted only as it was bound: execute,         *)
(* validate_containment_receipt, containment_capability_report.            *)
ContainmentIsReal == /\ Testing => Tests!ContainmentIsReal
                     /\ Playing("proof") => Proof!EvidenceHolds

(* A failure on record is resolved only by a passing run that covers it.   *)
FailureResolvedOnlyByPass == [][Testing => Tests!FailureResolvedOnlyByPassStep]_RuntimeVars
=============================================================================
