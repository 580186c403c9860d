--------------------------- MODULE LanguageServer ---------------------------
(***************************************************************************)
(* A language server and the threads that ask it about one file:           *)
(* LspProcessSession (requests, answers, timeouts, the state the session   *)
(* is in), LspRuntimeManager (activation, document versions, diagnostics,  *)
(* freshness) and the admission of the provider.                           *)
(*                                                                         *)
(* The server process, its pipes and whoever edits the file are external.  *)
(* A session is identified by its generation: a caller keeps the session   *)
(* it was given although another may have replaced it.  The workspace      *)
(* revision that is compared wherever the text is compared is left out:    *)
(* without it more results count as fresh.                                 *)
(***************************************************************************)
EXTENDS Naturals, Sequences, FiniteSets

CONSTANTS
  Askers,       \* threads that query: one request each at a time
  Viewers,      \* threads that look at the diagnostics
  Versions,     \* what the file can contain
  MaxRequests,  \* bound: requests of one session
  MaxSessions,  \* bound: activations
  MaxEdits,     \* bound: edits of the file
  MaxPending,   \* max_pending_requests
  MaxNotes,     \* maxlen of the notification queue
  Patience,     \* consecutive timeouts after which a session is given up
  ServerHazards \* what may happen: a subset of {"reopened"}

(***************************************************************************)
(* "reopened": a new session is activated while a caller still has a       *)
(* result of the one before in its hands.  Document versions start again   *)
(* at 1, so the version it compares may be that of another document.       *)
(***************************************************************************)

Callers == Askers \cup Viewers
NoDoc == [version |-> 0]
NoDiagnostics == [version |-> 0]
Nothing == [id |-> 0]
Resting == [pc |-> "idle"]

VARIABLES
  disk,         \* the file
  edits,        \* how often it was edited
  gen,          \* activations so far: the current session
  state,        \* _state of the current session
  activating,   \* where activate is: "no" | "starting" | "answered" | "probing"
  timeouts,     \* _consecutive_timeouts
  nextId,       \* _next_request_id
  pending,      \* _pending: request ids
  notes,        \* _notifications: diagnostics published and not captured
  reader,       \* is the stdout thread in its loop
  alive,        \* server: the process runs
  opened,       \* server: the document as last opened or changed
  asked,        \* server: requests received and not answered
  pipe,         \* server: what it has written and nobody has read
  active, admitted,
  document,     \* _documents for the file
  diagnostics,  \* _diagnostics for the file
  callers       \* [Callers -> where each query is and what it holds]

source == <<disk, edits>>
session == <<gen, state, activating, timeouts, nextId, pending, notes, reader>>
server == <<alive, opened, asked, pipe>>
manager == <<active, admitted, document, diagnostics>>
vars == <<source, session, server, manager, callers>>

Init ==
  /\ disk = CHOOSE v \in Versions : TRUE
  /\ edits = 0
  /\ gen = 0 /\ state = "CLOSED" /\ activating = "no" /\ timeouts = 0
  /\ nextId = 1 /\ pending = {} /\ notes = <<>> /\ reader = FALSE
  /\ alive = FALSE /\ opened = NoDoc /\ asked = {} /\ pipe = <<>>
  /\ active = FALSE /\ admitted = FALSE
  /\ document = NoDoc /\ diagnostics = NoDiagnostics
  /\ callers = [c \in Callers |-> Resting]

Mine(c) == callers[c].gen = gen

Move(c, pc) == callers' = [callers EXCEPT ![c].pc = pc]

GiveUp(c) == callers' = [callers EXCEPT ![c] = Resting]

(***************************************************************************)
(* _fail: every request still pending is answered with an error.           *)
(***************************************************************************)
Answered(waiting, answer) ==
  [c \in Callers |->
     IF callers[c].pc = "wait" /\ Mine(c) /\ callers[c].id \in waiting
     THEN [callers[c] EXCEPT !.got = answer] ELSE callers[c]]

Failure == [id |-> 0, error |-> TRUE]

Failed == state \in {"CLOSED", "FAILED"}

FailSession == state' = (IF Failed THEN state ELSE "FAILED")

(* What a server that died had been told is lost; what it wrote is not.    *)
Gone == alive' = FALSE /\ opened' = NoDoc /\ asked' = {}

(***************************************************************************)
(* close: requests still pending are forgotten, so their callers run into  *)
(* their timeouts; the pipes are closed, which ends the stdout thread.     *)
(***************************************************************************)
CloseSession ==
  /\ state' = "CLOSED"
  /\ Gone /\ pipe' = <<>> /\ reader' = FALSE
  /\ pending' = {} /\ notes' = <<>>

-----------------------------------------------------------------------------
(* activate                                                                *)

Activate ==
  /\ ~active /\ activating = "no" /\ gen < MaxSessions
  /\ (\E c \in Callers : callers[c].pc \in {"wait", "capture", "check"}) => "reopened" \in ServerHazards
  /\ gen' = gen + 1 /\ state' = "INITIALIZING" /\ activating' = "starting"
  /\ timeouts' = 0 /\ nextId' = 1 /\ pending' = {} /\ notes' = <<>> /\ reader' = TRUE
  /\ alive' = TRUE /\ opened' = NoDoc /\ asked' = {} /\ pipe' = <<>>
  /\ UNCHANGED <<source, manager, callers>>

(* The answer to initialize is there and "initialized" has been sent.      *)
Initialize ==
  /\ activating = "starting" /\ alive /\ state = "INITIALIZING"
  /\ activating' = "answered"
  /\ UNCHANGED <<source, gen, state, timeouts, nextId, pending, notes, reader, server, manager, callers>>

(* The state is assigned whatever the stdout thread made of it meanwhile.  *)
BecomeReady ==
  /\ activating = "answered"
  /\ state' = "READY" /\ activating' = "probing"
  /\ UNCHANGED <<source, gen, timeouts, nextId, pending, notes, reader, server, manager, callers>>

Admit ==
  /\ activating = "probing" /\ state = "READY"
  /\ active' = TRUE /\ admitted' = TRUE /\ activating' = "no"
  /\ UNCHANGED <<source, gen, state, timeouts, nextId, pending, notes, reader, server, document, diagnostics, callers>>

(* No answer, no capabilities, or no longer READY when it is probed.       *)
ActivateFails ==
  /\ \/ activating = "starting"
     \/ activating = "probing" /\ state # "READY"
  /\ activating' = "no"
  /\ CloseSession
  /\ UNCHANGED <<source, gen, timeouts, nextId, manager, callers>>

-----------------------------------------------------------------------------
(* query and diagnostics                                                   *)

Ready == active /\ state = "READY" /\ admitted

(* Every use first revokes a provider whose session is not READY.          *)
Reconciled ==
  LET down == active /\ state # "READY"
  IN /\ admitted' = (admitted /\ ~down)
     /\ diagnostics' = IF down THEN NoDiagnostics ELSE diagnostics

Begin(c) ==
  /\ callers[c] = Resting
  /\ Reconciled
  /\ callers' = IF Ready THEN [callers EXCEPT ![c] = [pc |-> "read", gen |-> gen]]
                ELSE callers
  /\ UNCHANGED <<source, session, server, active, document>>

ReadFile(c) ==
  /\ callers[c].pc = "read"
  /\ callers' = [callers EXCEPT ![c] =
       [pc |-> "sync", gen |-> @.gen, text |-> disk]]
  /\ UNCHANGED <<source, session, server, manager>>

CanNotify(c) == Mine(c) /\ state \in {"INITIALIZING", "READY", "SHUTTING_DOWN"}

Held(c, doc) ==
  [pc |-> IF c \in Askers THEN "ask" ELSE "capture",
   gen |-> callers[c].gen, doc |-> doc, id |-> 0, got |-> Nothing]

Told(c) == document # NoDoc /\ document.text = callers[c].text

(* The file is as the server was told.                                     *)
SyncKnown(c) ==
  /\ callers[c].pc = "sync" /\ Told(c)
  /\ callers' = [callers EXCEPT ![c] = Held(c, document)]
  /\ UNCHANGED <<source, session, server, manager>>

Stale(c) == callers[c].pc = "sync" /\ ~Told(c)

(* didOpen or didChange with the next version.                             *)
SyncNew(c) ==
  LET doc == [version |-> document.version + 1, text |-> callers[c].text]
  IN
  /\ Stale(c) /\ CanNotify(c) /\ alive
  /\ document' = doc /\ diagnostics' = NoDiagnostics
  /\ opened' = doc
  /\ callers' = [callers EXCEPT ![c] = Held(c, doc)]
  /\ UNCHANGED <<source, session, alive, asked, pipe, active, admitted>>

(* The session cannot be written to, and fails if that was not known.      *)
SyncFails(c) ==
  /\ Stale(c) /\ ~(CanNotify(c) /\ alive)
  /\ diagnostics' = IF document = NoDoc THEN diagnostics ELSE NoDiagnostics
  /\ IF CanNotify(c)
     THEN FailSession /\ pending' = {}
          /\ callers' = [Answered(pending, Failure) EXCEPT ![c] = Resting]
     ELSE GiveUp(c) /\ UNCHANGED <<state, pending>>
  /\ UNCHANGED <<source, gen, activating, timeouts, nextId, notes, reader, server, active, admitted, document>>

(* request: the state is looked at, then an id is registered and sent.     *)
Ask(c) ==
  /\ callers[c].pc = "ask"
  /\ IF Mine(c) /\ state = "READY" THEN Move(c, "send") ELSE GiveUp(c)
  /\ UNCHANGED <<source, session, server, manager>>

Send(c) ==
  /\ callers[c].pc = "send" /\ Mine(c) /\ state # "CLOSED"
  /\ Cardinality(pending) < MaxPending /\ nextId <= MaxRequests /\ alive
  /\ nextId' = nextId + 1 /\ pending' = pending \cup {nextId} /\ asked' = asked \cup {nextId}
  /\ callers' = [callers EXCEPT ![c].pc = "wait", ![c].id = nextId]
  /\ UNCHANGED <<source, gen, state, activating, timeouts, notes, reader, alive, opened, pipe, manager>>

SendFails(c) ==
  /\ callers[c].pc = "send"
  /\ \/ /\ ~Mine(c) \/ state = "CLOSED" \/ Cardinality(pending) >= MaxPending
        /\ GiveUp(c) /\ UNCHANGED <<state, pending>>
     \/ /\ Mine(c) /\ state # "CLOSED" /\ ~alive
        /\ FailSession
        /\ pending' = IF Failed THEN pending ELSE {}
        /\ callers' = [IF Failed THEN callers ELSE Answered(pending, Failure) EXCEPT ![c] = Resting]
  /\ UNCHANGED <<source, gen, activating, timeouts, nextId, notes, reader, server, manager>>

Waiting(c) == callers[c].pc = "wait"

Take(c) ==
  /\ Waiting(c) /\ callers[c].got # Nothing
  /\ timeouts' = IF Mine(c) THEN 0 ELSE timeouts
  /\ IF callers[c].got = Failure THEN GiveUp(c) ELSE Move(c, "capture")
  /\ UNCHANGED <<source, gen, state, activating, nextId, pending, notes, reader, server, manager>>

(* The deadline passes; the third time in a row the session is given up.   *)
TimeOut(c) ==
  LET left == pending \ {callers[c].id}
      last == timeouts + 1 >= Patience
  IN
  /\ Waiting(c) /\ callers[c].got = Nothing
  /\ IF ~Mine(c) THEN GiveUp(c) /\ UNCHANGED <<session, alive, opened, asked>>
     ELSE /\ timeouts' = IF last THEN Patience ELSE timeouts + 1
          /\ IF last /\ ~Failed
             THEN /\ state' = "FAILED" /\ Gone /\ pending' = {}
                  /\ callers' = [Answered(left, Failure) EXCEPT ![c] = Resting]
             ELSE GiveUp(c) /\ pending' = left /\ UNCHANGED <<state, alive, opened, asked>>
          /\ UNCHANGED <<gen, activating, nextId, notes, reader>>
  /\ UNCHANGED <<source, pipe, manager>>

(* Sensitivity: whatever is in the queue is about the current version.     *)
PromotedUnversioned(note) == document # NoDoc /\ disk = document.text

(* Published diagnostics become current if they are about the version and  *)
(* the text that are current.                                              *)
Promoted(note) ==
  document # NoDoc /\ note.version = document.version /\ disk = document.text

Capture(c) ==
  /\ callers[c].pc = "capture"
  /\ LET current == {i \in DOMAIN notes : Promoted(notes[i])}
         newest == CHOOSE i \in current : \A j \in current : j <= i
     IN IF ~Mine(c) THEN UNCHANGED <<notes, diagnostics>>
        ELSE /\ notes' = <<>>
             /\ diagnostics' = IF current = {} THEN diagnostics
                  ELSE [version |-> document.version, text |-> document.text,
                        about |-> notes[newest].about]
  /\ Move(c, "check")
  /\ UNCHANGED <<source, gen, state, activating, timeouts, nextId, pending, reader, server,
                 active, admitted, document>>

Fresh(doc) ==
  /\ document # NoDoc
  /\ document = doc /\ disk = doc.text

(* A stale result raises; a fresh one is returned.                         *)
Check(c) ==
  /\ callers[c].pc = "check"
  /\ GiveUp(c)
  /\ UNCHANGED <<source, session, server, manager>>

-----------------------------------------------------------------------------
(* close_provider                                                          *)

Close ==
  /\ active /\ activating = "no" /\ state = "READY"
  /\ state' = "SHUTTING_DOWN"
  /\ UNCHANGED <<source, gen, activating, timeouts, nextId, pending, notes, reader, server, manager, callers>>

Closed ==
  /\ active /\ state \in {"SHUTTING_DOWN", "FAILED"}
  /\ CloseSession
  /\ active' = FALSE /\ admitted' = FALSE
  /\ document' = NoDoc /\ diagnostics' = NoDiagnostics
  /\ UNCHANGED <<source, gen, activating, timeouts, nextId, callers>>

-----------------------------------------------------------------------------
(* The stdout thread.                                                      *)

(* _dispatch                                                               *)
ReadMessage ==
  LET message == pipe[1] IN
  /\ reader /\ pipe # <<>>
  /\ pipe' = Tail(pipe)
  /\ IF message.id = 0
     THEN /\ notes' = Append(IF Len(notes) = MaxNotes THEN Tail(notes) ELSE notes, message)
          /\ UNCHANGED <<pending, callers>>
     ELSE /\ callers' = Answered(pending \cap {message.id}, message)
          /\ pending' = pending \ {message.id}
          /\ UNCHANGED notes
  /\ UNCHANGED <<source, gen, state, activating, timeouts, nextId, reader, alive, opened, asked, manager>>

(* The end of the stream, or a frame that cannot be decoded.               *)
StopReading ==
  /\ reader
  /\ \/ ~alive /\ pipe = <<>> /\ UNCHANGED <<alive, opened, asked>>
     \/ alive /\ Gone
  /\ reader' = FALSE
  /\ IF state \in {"SHUTTING_DOWN", "CLOSED", "FAILED"}
     THEN UNCHANGED <<state, pending, callers>>
     ELSE state' = "FAILED" /\ pending' = {} /\ callers' = Answered(pending, Failure)
  /\ UNCHANGED <<source, gen, activating, timeouts, nextId, notes, pipe, manager>>

-----------------------------------------------------------------------------
(* The server process and the file's other users.                          *)

Answer(id) ==
  /\ alive /\ id \in asked
  /\ asked' = asked \ {id}
  /\ pipe' = Append(pipe, [id |-> id, about |-> opened.text])
  /\ UNCHANGED <<source, session, alive, opened, manager, callers>>

Publish ==
  LET note == [id |-> 0, version |-> opened.version, about |-> opened.text] IN
  /\ alive /\ opened # NoDoc
  /\ \A i \in DOMAIN pipe : pipe[i].id # 0
  /\ pipe' = Append(pipe, note)
  /\ UNCHANGED <<source, session, alive, opened, asked, manager, callers>>

Die ==
  /\ alive
  /\ Gone
  /\ UNCHANGED <<source, session, pipe, manager, callers>>

Edit ==
  /\ edits < MaxEdits
  /\ disk' \in Versions \ {disk}
  /\ edits' = edits + 1
  /\ UNCHANGED <<session, server, manager, callers>>

Lifecycle ==
  \/ Activate \/ Initialize \/ BecomeReady \/ Admit \/ ActivateFails
  \/ Close \/ Closed

Query(c) ==
  \/ ReadFile(c) \/ SyncKnown(c) \/ SyncNew(c) \/ SyncFails(c)
  \/ Ask(c) \/ Send(c) \/ SendFails(c) \/ Take(c) \/ TimeOut(c)
  \/ Capture(c) \/ Check(c)

Outside ==
  \/ \E id \in asked : Answer(id)
  \/ Publish \/ Die \/ Edit

Next ==
  \/ Lifecycle \/ ReadMessage \/ StopReading \/ Outside
  \/ \E c \in Callers : Begin(c) \/ Query(c)

Spec == Init /\ [][Next]_vars

-----------------------------------------------------------------------------
TypeOK ==
  /\ state \in {"INITIALIZING", "READY", "SHUTTING_DOWN", "CLOSED", "FAILED"}
  /\ activating \in {"no", "starting", "answered", "probing"}
  /\ timeouts \in 0 .. Patience /\ nextId \in 1 .. MaxRequests + 1
  /\ pending \subseteq 1 .. nextId - 1 /\ Cardinality(pending) <= MaxPending
  /\ Len(notes) <= MaxNotes
  /\ admitted => active
  /\ \A c \in Callers : callers[c].pc \in
       {"idle", "read", "sync", "ask", "send", "wait", "capture", "check"}

Returns(c) == Check(c) /\ Fresh(callers[c].doc)

(* A query returns the answer to its own request, and the answer is about  *)
(* the text the file has when it returns: not about what an earlier        *)
(* request asked, an older version of the document or a session that was   *)
(* replaced, however timeouts, edits and restarts fall.  Diagnostics that  *)
(* are served as those of the document are about that text too.            *)
AnswerIsCurrentStep ==
  /\ \A c \in Askers : Returns(c) =>
       /\ callers[c].got.id = callers[c].id
       /\ callers[c].got.about = disk
  /\ \A c \in Viewers :
       /\ Returns(c)
       /\ diagnostics # NoDiagnostics
       /\ diagnostics.version = callers[c].doc.version
       /\ diagnostics.text = callers[c].doc.text
       => diagnostics.about = disk

AnswerIsCurrent == [][AnswerIsCurrentStep]_vars
=============================================================================
