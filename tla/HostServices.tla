------------------------------ MODULE HostServices ------------------------------
(***************************************************************************)
(* What a Habitat process hosts beside its workspaces: the shared browser  *)
(* and the mirror of a page, the protocol server with its activity and its *)
(* traces, and the TypeScript services.                                    *)
(***************************************************************************)
EXTENDS Stage

CONSTANTS
  Runtimes, Main, Ring, Limit, Window, MaxFrames, MaxEvents, MaxPages, MaxCrashes,
  StreamHazards,                                                   \* of ObserverStream
  Servers, Sends, MaxLines, Pieces, KeptRows, Watched, Batch, MaxCalls,
  ServingHazards,                                                  \* of Serving
  Tenants, RootOf, MaxServices, MaxProcs, MaxTypeEdits,
  TypeScriptHazards                                                \* of TypeScriptService

VARIABLES
  \* ObserverStream
  observerBrowser, observerLeased, observerMain, observerOpens, observerWorker,
  observerStopping, observerStarted, observerLock, observerClosed, observerMode,
  observerActive, observerSeq, observerStreamSeq, observerLast, observerTorn,
  observerFrames, observerMeta, observerBuffered, observerDropped, observerSince,
  observerSeen, observerCrashes,
  \* Serving
  servedWire, servedSent, servedCall, servedReplies, servedActivity, servedTraces,
  servedRows, servedMade, servedViewer, servedDead, servedCrashes,
  \* TypeScriptService
  typesSource, typesHashed, typesPart, typesStep, typesMine, typesClosing, typesPool,
  typesPoolLock, typesProcs, typesChanges

Observer == INSTANCE ObserverStream WITH
  MaxSessions <- MaxPages, browser <- observerBrowser, leased <- observerLeased,
  main <- observerMain, opens <- observerOpens, worker <- observerWorker,
  stopping <- observerStopping, started <- observerStarted, lock <- observerLock,
  closed <- observerClosed, mode <- observerMode, active <- observerActive,
  seq <- observerSeq, streamSeq <- observerStreamSeq, last <- observerLast,
  torn <- observerTorn, frames <- observerFrames, meta <- observerMeta,
  buffered <- observerBuffered, dropped <- observerDropped, since <- observerSince,
  seen <- observerSeen, crashes <- observerCrashes

Served == INSTANCE Serving WITH
  Kept <- KeptRows, MaxRows <- MaxCalls, wire <- servedWire, sent <- servedSent,
  call <- servedCall, replies <- servedReplies, activity <- servedActivity,
  traces <- servedTraces, rows <- servedRows, made <- servedMade,
  viewer <- servedViewer, dead <- servedDead, crashes <- servedCrashes

Types == INSTANCE TypeScriptService WITH
  Callers <- Tenants, Contents <- Texts, NoFile <- NoText, MaxSessions <- MaxServices,
  MaxEdits <- MaxTypeEdits, source <- typesSource, hashed <- typesHashed,
  part <- typesPart, step <- typesStep, mine <- typesMine, closing <- typesClosing,
  pool <- typesPool, poolLock <- typesPoolLock, procs <- typesProcs,
  changes <- typesChanges

ObserverVars ==
  <<observerBrowser, observerLeased, observerMain, observerOpens, observerWorker,
    observerStopping, observerStarted, observerLock, observerClosed, observerMode,
    observerActive, observerSeq, observerStreamSeq, observerLast, observerTorn,
    observerFrames, observerMeta, observerBuffered, observerDropped, observerSince,
    observerSeen, observerCrashes>>

ObserverIdle ==
  /\ observerBrowser = Unused /\ observerLeased = Unused /\ observerMain = Unused
  /\ observerOpens = Unused /\ observerWorker = Unused /\ observerStopping = Unused
  /\ observerStarted = Unused /\ observerLock = Unused /\ observerClosed = Unused
  /\ observerMode = Unused /\ observerActive = Unused /\ observerSeq = Unused
  /\ observerStreamSeq = Unused /\ observerLast = Unused /\ observerTorn = Unused
  /\ observerFrames = Unused /\ observerMeta = Unused /\ observerBuffered = Unused
  /\ observerDropped = Unused /\ observerSince = Unused /\ observerSeen = Unused
  /\ observerCrashes = Unused

ServedVars ==
  <<servedWire, servedSent, servedCall, servedReplies, servedActivity, servedTraces,
    servedRows, servedMade, servedViewer, servedDead, servedCrashes>>

ServedIdle ==
  /\ servedWire = Unused /\ servedSent = Unused /\ servedCall = Unused
  /\ servedReplies = Unused /\ servedActivity = Unused /\ servedTraces = Unused
  /\ servedRows = Unused /\ servedMade = Unused /\ servedViewer = Unused
  /\ servedDead = Unused /\ servedCrashes = Unused

TypesVars ==
  <<typesSource, typesHashed, typesPart, typesStep, typesMine, typesClosing, typesPool,
    typesPoolLock, typesProcs, typesChanges>>

TypesIdle ==
  /\ typesSource = Unused /\ typesHashed = Unused /\ typesPart = Unused
  /\ typesStep = Unused /\ typesMine = Unused /\ typesClosing = Unused
  /\ typesPool = Unused /\ typesPoolLock = Unused /\ typesProcs = Unused
  /\ typesChanges = Unused

HostOwn == <<ObserverVars, ServedVars, TypesVars>>
HostVars == <<scene, HostOwn>>

HostIdle ==
  /\ ObserverIdle /\ ServedIdle /\ TypesIdle

(* Two scenes of servers: of one that a page follows, and of several on    *)
(* one database.                                                           *)
Serves == Playing("serving") \/ Playing("shared")

HostInit ==
  \/ Playing("observer") /\ Observer!Init /\ ServedIdle /\ TypesIdle
  \/ Serves /\ Served!Init /\ ObserverIdle /\ TypesIdle
  \/ Playing("types") /\ Types!Init /\ ObserverIdle /\ ServedIdle

HostNext ==
  /\ UNCHANGED scene
  /\ \/ Playing("observer") /\ Observer!Next /\ UNCHANGED <<ServedVars, TypesVars>>
     \/ Serves /\ Served!Next /\ UNCHANGED <<ObserverVars, TypesVars>>
     \/ Playing("types") /\ Types!Next /\ UNCHANGED <<ObserverVars, ServedVars>>

HostSpec == HostInit /\ [][HostNext]_HostVars

(* What Habitat serves and watches keeps its types. *)
HostTyped ==
  /\ Playing("observer") => Observer!TypeOK
  /\ Serves => Served!TypeOK
  /\ Playing("types") => Types!TypeOK

(* The mirror of a browser page: its files are the last frames, nothing is *)
(* left when it closes, a stream reported active is received, events are   *)
(* accounted for, and the shared browser runs while it is leased.          *)
BrowserHolds ==
  Playing("observer") =>
    /\ Observer!FramesAreTheRing /\ Observer!NothingLeftBehind /\ Observer!ActiveIsReceived
    /\ Observer!EventsAreAccounted /\ Observer!BrowserIsLeased

(* What the server answers with: what is cached of a file's types was      *)
(* found in its text and no process is leaked; and a reply for every line, *)
(* no rows for reads, one trace, the newest rows kept, and a page that     *)
(* shows the activity as it was, whichever servers share the database.     *)
ServingHolds ==
  /\ Playing("types") => Types!PartIsOfItsText /\ Types!PoolIsBounded
  /\ Serves =>
       /\ Served!OneReplyPerLine /\ Served!ReadsLeaveNothing /\ Served!OneTrace
       /\ Served!NewestAreKept /\ Served!PageShowsActivity
=============================================================================
