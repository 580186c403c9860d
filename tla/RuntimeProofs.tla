--------------------------- MODULE RuntimeProofs ----------------------------
(***************************************************************************)
(* What holds of the components of RuntimeServices for any threads, files, *)
(* tests and bounds, each proved of its instance, and side by side.        *)
(***************************************************************************)
EXTENDS RuntimeServices, Integers, Sequences, FiniteSetTheorems, WellFoundedInduction, Integers,
  TLAPS

-----------------------------------------------------------------------------
(***************************************************************************)
(* A query returns the answer to its own request, about the text the file  *)
(* has, for any number of threads, requests, restarts and edits.           *)
(*                                                                         *)
(* Why it holds: within a session a document has a version of its own for  *)
(* every text; while the server lives it has the document the client last  *)
(* told it of; an id is used once; and a thread that has asked holds up    *)
(* the next activation, so its session is the current one.                 *)
(***************************************************************************)
(* The instance counts as FiniteSets does. *)
LEMMA LspCounts ==
  \A S : (Lsp!IsFiniteSet(S) <=> IsFiniteSet(S)) /\ Lsp!Cardinality(S) = Cardinality(S)
BY DEF Lsp!IsFiniteSet, IsFiniteSet, Lsp!Cardinality, Cardinality


(* What the theorems assume of the constants, and that no session is       *)
(* activated while a caller holds a result of the one before.              *)
LspSensible ==
  /\ Texts # {} /\ MaxRequests \in Nat /\ MaxPending \in Nat /\ Patience \in Nat \ {0}
  /\ MaxNotes \in Nat \ {0} /\ "reopened" \notin ServerHazards

LspDocs == [version : Nat \ {0}, text : Texts]
LspMessages == [id : Nat \ {0}, about : Texts]
LspNotes == [id : {0}, version : Nat \ {0}, about : Texts]
LspGots == {Lsp!Nothing, Lsp!Failure} \cup LspMessages
LspHoldPcs == {"ask", "send", "wait", "capture", "check"}

LspReading == [pc : {"read"}, gen : Nat]
LspSyncing == [pc : {"sync"}, gen : Nat, text : Texts]
LspHolding == [pc : LspHoldPcs, gen : Nat, doc : LspDocs, id : Nat, got : LspGots]
LspPlaces == {Lsp!Resting} \cup LspReading \cup LspSyncing \cup LspHolding

LspTypeInv ==
  /\ lspDisk \in Texts /\ lspEdits \in Nat /\ lspGen \in Nat
  /\ lspState \in {"INITIALIZING", "READY", "SHUTTING_DOWN", "CLOSED", "FAILED"}
  /\ lspActivating \in {"no", "starting", "answered", "probing"}
  /\ lspTimeouts \in 0 .. Patience /\ lspNextId \in 1 .. MaxRequests + 1
  /\ lspPending \in SUBSET (1 .. lspNextId - 1) /\ Lsp!Cardinality(lspPending) <= MaxPending
  /\ lspAsked \in SUBSET (1 .. lspNextId - 1)
  /\ lspNotes \in Seq(LspNotes) /\ Len(lspNotes) <= MaxNotes
  /\ lspPipe \in Seq(LspMessages \cup LspNotes)
     /\ \A i \in DOMAIN lspPipe : lspPipe[i].id < lspNextId
  /\ lspOpened \in {Lsp!NoDoc} \cup LspDocs /\ lspDocument \in {Lsp!NoDoc} \cup LspDocs
  /\ lspCallers \in [Lsp!Callers -> LspPlaces]

(* The session that is current, and what the server was told in it. *)
LspSessionInv ==
  /\ lspActive => lspActivating = "no"
  /\ ~lspActive => lspDocument = Lsp!NoDoc /\ lspDiagnostics = Lsp!NoDiagnostics
  /\ ~lspActive /\ lspActivating = "no" => lspState = "CLOSED"
  /\ lspAdmitted => lspActive
  /\ lspAlive => lspOpened = lspDocument
  /\ lspAsked # {} => lspAlive /\ lspDocument # Lsp!NoDoc

(* What is published about the current version is about its text. *)
LspNoteInv ==
  /\ \A i \in DOMAIN lspNotes : lspNotes[i].version <= lspDocument.version
       /\ (lspNotes[i].version = lspDocument.version => lspNotes[i].about = lspDocument.text)
  /\ \A i \in DOMAIN lspPipe : lspPipe[i].id = 0 => lspPipe[i].version <= lspDocument.version
       /\ (lspPipe[i].version = lspDocument.version => lspPipe[i].about = lspDocument.text)

LspDiagnosticsInv ==
  lspDiagnostics # Lsp!NoDiagnostics =>
    /\ lspDocument # Lsp!NoDoc /\ lspDiagnostics.version = lspDocument.version
    /\ lspDiagnostics.text = lspDocument.text /\ lspDiagnostics.about = lspDocument.text

(* A thread that has asked about a document it holds, with what it holds   *)
(* and the state it depends on.                                            *)
LspAskerOk(r, g, on, doc, next, written) ==
  /\ r.pc \in {"ask", "send"} => r.got = Lsp!Nothing
  /\ r.pc \in {"wait", "capture", "check"} => r.gen = g
  /\ r.pc \in {"capture", "check"} => r.got \notin {Lsp!Nothing, Lsp!Failure}
  /\ r.gen = g /\ on => doc # Lsp!NoDoc /\ r.doc.version <= doc.version
  /\ r.got \notin {Lsp!Nothing, Lsp!Failure} =>
       r.got.id = r.id /\ (doc = r.doc => r.got.about = r.doc.text)
  /\ r.pc = "wait" => /\ r.id \in 1 .. next - 1
                      /\ doc = r.doc => \A i \in DOMAIN written :
                           written[i].id = r.id => written[i].about = r.doc.text

LspCallerOk(c, r, g, a, on, doc, next, written) ==
  /\ r.pc \in {"ask", "send", "wait"} => c \in Askers
  /\ r # Lsp!Resting => r.gen <= g /\ (a # "no" => r.gen < g)
  /\ c \in Askers /\ r.pc \in LspHoldPcs => LspAskerOk(r, g, on, doc, next, written)

LspCallerInv ==
  \A c \in Lsp!Callers :
    LspCallerOk(c, lspCallers[c], lspGen, lspActivating, lspActive, lspDocument, lspNextId, lspPipe)

LspInv == LspTypeInv /\ LspSessionInv /\ LspNoteInv /\ LspDiagnosticsInv /\ LspCallerInv

-----------------------------------------------------------------------------
LEMMA LspLeastNatural ==
  ASSUME NEW T, T \in SUBSET Nat, T # {}
  PROVE  \E x \in T : \A y \in T : x <= y
<1>1. PICK x \in T : \A y \in T : ~ (<<y, x>> \in OpToRel(<, Nat))
  BY NatLessThanWellFounded, WFMin, Zenon
<1>2. \A y \in T : ~ (y < x)
  BY <1>1 DEF OpToRel
<1> QED  BY <1>2

LEMMA LspGreatest ==
  ASSUME NEW n \in Nat, NEW T \in SUBSET (1 .. n), T # {}
  PROVE  \E x \in T : \A y \in T : y <= x
<1> DEFINE U == {n - x : x \in T}
<1>0. \A x \in T : x \in Nat /\ n - x \in Nat
  OBVIOUS
<1>1. U \in SUBSET Nat /\ U # {}
  BY <1>0
<1> HIDE DEF U
<1>2. PICK u \in U : \A y \in U : u <= y
  BY <1>1, LspLeastNatural
<1>3. PICK x \in T : u = n - x
  BY <1>2 DEF U
<1>4. \A y \in T : n - x <= n - y
  BY <1>2, <1>3 DEF U
<1> QED  BY <1>3, <1>4

LEMMA LspAppendFacts ==
  ASSUME NEW S, NEW s \in Seq(S), NEW x \in S
  PROVE  /\ Append(s, x) \in Seq(S) /\ Len(Append(s, x)) = Len(s) + 1
         /\ \A i \in DOMAIN Append(s, x) :
              (i \in DOMAIN s /\ Append(s, x)[i] = s[i]) \/ (i = Len(s) + 1 /\ Append(s, x)[i] = x)
OBVIOUS

LEMMA LspTailFacts ==
  ASSUME NEW S, NEW s \in Seq(S), s # <<>>
  PROVE  /\ Tail(s) \in Seq(S) /\ Len(Tail(s)) = Len(s) - 1 /\ 1 \in DOMAIN s /\ s[1] \in S
         /\ \A i \in DOMAIN Tail(s) : i + 1 \in DOMAIN s /\ Tail(s)[i] = s[i + 1]
<1>1. Len(s) \in Nat /\ Len(s) # 0 /\ DOMAIN s = 1 .. Len(s)
  OBVIOUS
<1>2. Tail(s) \in Seq(S) /\ Len(Tail(s)) = Len(s) - 1
  BY <1>1
<1>3. \A i \in 1 .. Len(s) - 1 : Tail(s)[i] = s[i + 1]
  BY <1>1
<1> QED  BY <1>1, <1>2, <1>3

(* Where a caller is, and what it then has. *)
LEMMA LspPlaceFacts ==
  ASSUME NEW r \in LspPlaces
  PROVE  /\ r.pc \in {"idle", "read", "sync"} \cup LspHoldPcs
         /\ (r.pc = "idle" <=> r = Lsp!Resting)
         /\ (r.pc = "read" => r \in LspReading) /\ (r.pc = "sync" => r \in LspSyncing)
         /\ (r.pc \in LspHoldPcs => r \in LspHolding)
         /\ (r # Lsp!Resting => r.gen \in Nat)
<1>1. r = Lsp!Resting => r.pc = "idle"
  BY DEF Lsp!Resting
<1>2. r \in LspReading => r.pc = "read" /\ r.gen \in Nat
  BY DEF LspReading
<1>3. r \in LspSyncing => r.pc = "sync" /\ r.gen \in Nat
  BY DEF LspSyncing
<1>4. r \in LspHolding => r.pc \in LspHoldPcs /\ r.gen \in Nat
  BY DEF LspHolding
<1> QED  BY <1>1, <1>2, <1>3, <1>4 DEF LspPlaces, LspHoldPcs

LEMMA LspHoldFacts ==
  ASSUME NEW r \in LspHolding
  PROVE  /\ r.pc \in LspHoldPcs /\ r.gen \in Nat /\ r.doc \in LspDocs /\ r.id \in Nat /\ r.got \in LspGots
         /\ r.doc # Lsp!NoDoc /\ r.doc.version \in Nat \ {0} /\ r.doc.text \in Texts
         /\ r # Lsp!Resting /\ r \in LspPlaces
<1>1. r.pc \in LspHoldPcs /\ r.gen \in Nat /\ r.doc \in LspDocs /\ r.id \in Nat /\ r.got \in LspGots
  BY DEF LspHolding
<1>2. r.doc.version \in Nat \ {0} /\ r.doc.text \in Texts
  BY <1>1 DEF LspDocs
<1>3. r.doc # Lsp!NoDoc
  BY <1>2 DEF Lsp!NoDoc
<1>4. r # Lsp!Resting
  BY <1>1 DEF Lsp!Resting, LspHoldPcs
<1> QED  BY <1>1, <1>2, <1>3, <1>4 DEF LspPlaces

LEMMA LspDocFacts ==
  ASSUME NEW d \in {Lsp!NoDoc} \cup LspDocs
  PROVE  /\ d.version \in Nat /\ (d = Lsp!NoDoc <=> d.version = 0)
         /\ (d # Lsp!NoDoc => d \in LspDocs /\ d.text \in Texts)
<1>1. d = Lsp!NoDoc => d.version = 0
  BY DEF Lsp!NoDoc
<1>2. d \in LspDocs => d.version \in Nat \ {0} /\ d.text \in Texts
  BY DEF LspDocs
<1> QED  BY <1>1, <1>2

LEMMA LspMessageFacts ==
  ASSUME NEW m \in LspMessages \cup LspNotes
  PROVE  /\ m.id \in Nat /\ (m.id = 0 <=> m \in LspNotes) /\ (m.id # 0 => m \in LspMessages)
         /\ m.about \in Texts
         /\ (m \in LspNotes => m.version \in Nat \ {0})
         /\ m \notin {Lsp!Nothing, Lsp!Failure} \/ m.id = 0
<1>1. m \in LspMessages => m.id \in Nat \ {0} /\ m.about \in Texts
  BY DEF LspMessages
<1>2. m \in LspNotes => m.id = 0 /\ m.version \in Nat \ {0} /\ m.about \in Texts
  BY DEF LspNotes
<1>3. Lsp!Nothing.id = 0 /\ Lsp!Failure.id = 0
  BY DEF Lsp!Nothing, Lsp!Failure
<1> QED  BY <1>1, <1>2, <1>3

LEMMA LspFailureFacts == Lsp!Failure \in LspGots /\ Lsp!Nothing \in LspGots
BY DEF LspGots

(* Callers told that a request is answered: nothing else of them changes.  *)
LEMMA LspAnsweredFacts ==
  ASSUME LspTypeInv, NEW waiting, NEW answer \in LspGots
  PROVE  /\ Lsp!Answered(waiting, answer) \in [Lsp!Callers -> LspPlaces]
         /\ \A c \in Lsp!Callers :
              \/ Lsp!Answered(waiting, answer)[c] = lspCallers[c]
              \/ /\ lspCallers[c].pc = "wait" /\ Lsp!Mine(c) /\ lspCallers[c].id \in waiting
                 /\ lspCallers[c] \in LspHolding
                 /\ Lsp!Answered(waiting, answer)[c] =
                      [pc |-> "wait", gen |-> lspCallers[c].gen, doc |-> lspCallers[c].doc,
                       id |-> lspCallers[c].id, got |-> answer]
<1>1. ASSUME NEW c \in Lsp!Callers, lspCallers[c].pc = "wait"
      PROVE  /\ lspCallers[c] \in LspHolding
             /\ [lspCallers[c] EXCEPT !.got = answer] =
                      [pc |-> "wait", gen |-> lspCallers[c].gen, doc |-> lspCallers[c].doc,
                       id |-> lspCallers[c].id, got |-> answer]
             /\ [lspCallers[c] EXCEPT !.got = answer] \in LspPlaces
  <2>1. lspCallers[c] \in LspHolding
    BY <1>1, LspPlaceFacts DEF LspTypeInv, LspHoldPcs
  <2>2. [lspCallers[c] EXCEPT !.got = answer] =
                      [pc |-> "wait", gen |-> lspCallers[c].gen, doc |-> lspCallers[c].doc,
                       id |-> lspCallers[c].id, got |-> answer]
    BY <1>1, <2>1 DEF LspHolding
  <2>3. [pc |-> "wait", gen |-> lspCallers[c].gen, doc |-> lspCallers[c].doc,
                       id |-> lspCallers[c].id, got |-> answer] \in LspHolding
    BY <2>1 DEF LspHolding, LspHoldPcs
  <2> QED  BY <2>1, <2>2, <2>3 DEF LspPlaces
<1>2. \A c \in Lsp!Callers : lspCallers[c] \in LspPlaces
  BY DEF LspTypeInv
<1> QED  BY <1>1, <1>2 DEF Lsp!Answered

LEMMA LspInitial == ASSUME LspSensible PROVE Lsp!Init => LspInv
<1> SUFFICES ASSUME Lsp!Init PROVE LspInv
  OBVIOUS
<1>1. (CHOOSE v \in Texts : TRUE) \in Texts
  BY DEF LspSensible
<1>2. Lsp!Cardinality(lspPending) = 0
  BY LspCounts, FS_EmptySet DEF Lsp!Init
<1>3. \A c \in Lsp!Callers : lspCallers[c] = Lsp!Resting /\ lspCallers[c].pc = "idle"
  BY DEF Lsp!Init, Lsp!Resting
<1>4. lspCallers \in [Lsp!Callers -> LspPlaces]
  BY DEF Lsp!Init, LspPlaces
<1>5. lspNotes \in Seq(LspNotes) /\ Len(lspNotes) = 0 /\ lspPipe \in Seq(LspMessages \cup LspNotes)
      /\ DOMAIN lspPipe = {}
      /\ DOMAIN lspNotes = {}
  BY DEF Lsp!Init
<1>6. LspTypeInv
  <2>1. lspNextId \in 1 .. MaxRequests + 1 /\ lspTimeouts \in 0 .. Patience
    BY DEF Lsp!Init, LspSensible
  <2>2. Len(lspNotes) <= MaxNotes /\ Lsp!Cardinality(lspPending) <= MaxPending
    BY <1>2, <1>5 DEF LspSensible
  <2>3. lspDisk \in Texts
    BY <1>1 DEF Lsp!Init
  <2> QED  BY <1>4, <1>5, <2>1, <2>2, <2>3 DEF Lsp!Init, LspTypeInv
<1>7. LspSessionInv /\ LspNoteInv /\ LspDiagnosticsInv
  BY <1>3, <1>5 DEF Lsp!Init, LspSessionInv, LspNoteInv, LspDiagnosticsInv
<1>8. LspCallerInv
  BY <1>3 DEF LspCallerInv, LspCallerOk, LspHoldPcs
<1> QED  BY <1>6, <1>7, <1>8 DEF LspInv

-----------------------------------------------------------------------------
(* The lifecycle of a session.                                             *)

LEMMA LspInitializeStep == ASSUME LspInv, Lsp!Initialize PROVE LspInv'
<1>1. LspTypeInv'
  BY DEF LspInv, LspTypeInv, Lsp!Initialize, Lsp!source, Lsp!server, Lsp!manager
<1>2. LspSessionInv' /\ LspNoteInv' /\ LspDiagnosticsInv'
  BY DEF LspInv, LspSessionInv, LspNoteInv, LspDiagnosticsInv, Lsp!Initialize, Lsp!server,
    Lsp!manager
<1>3. LspCallerInv'
  BY DEF LspInv, LspCallerInv, LspCallerOk, Lsp!Initialize, Lsp!server, Lsp!manager
<1> QED  BY <1>1, <1>2, <1>3 DEF LspInv

LEMMA LspBecomeReadyStep == ASSUME LspInv, Lsp!BecomeReady PROVE LspInv'
<1>1. LspTypeInv'
  BY DEF LspInv, LspTypeInv, Lsp!BecomeReady, Lsp!source, Lsp!server, Lsp!manager
<1>2. LspSessionInv' /\ LspNoteInv' /\ LspDiagnosticsInv'
  BY DEF LspInv, LspSessionInv, LspNoteInv, LspDiagnosticsInv, Lsp!BecomeReady, Lsp!server,
    Lsp!manager
<1>3. LspCallerInv'
  BY DEF LspInv, LspCallerInv, LspCallerOk, Lsp!BecomeReady, Lsp!server, Lsp!manager
<1> QED  BY <1>1, <1>2, <1>3 DEF LspInv

LEMMA LspCloseStep == ASSUME LspInv, Lsp!Close PROVE LspInv'
<1>1. LspTypeInv'
  BY DEF LspInv, LspTypeInv, Lsp!Close, Lsp!source, Lsp!server, Lsp!manager
<1>2. LspSessionInv' /\ LspNoteInv' /\ LspDiagnosticsInv'
  BY DEF LspInv, LspSessionInv, LspNoteInv, LspDiagnosticsInv, Lsp!Close, Lsp!server, Lsp!manager
<1>3. LspCallerInv'
  BY DEF LspInv, LspCallerInv, Lsp!Close, Lsp!server, Lsp!manager
<1> QED  BY <1>1, <1>2, <1>3 DEF LspInv

LEMMA LspEmptyFacts ==
  /\ <<>> \in Seq(LspNotes) /\ Len(<<>>) = 0 /\ DOMAIN <<>> = {}
  /\ <<>> \in Seq(LspMessages \cup LspNotes)
  /\ Lsp!Cardinality({}) = 0
BY LspCounts, FS_EmptySet

LEMMA LspActivateStep == ASSUME LspSensible, LspInv, Lsp!Activate PROVE LspInv'
<1>1. LspTypeInv'
  BY LspEmptyFacts DEF LspSensible, LspInv, LspTypeInv, Lsp!Activate, Lsp!source, Lsp!manager
<1>2. LspSessionInv' /\ LspNoteInv' /\ LspDiagnosticsInv'
  BY LspEmptyFacts
    DEF LspInv, LspSessionInv, LspNoteInv, LspDiagnosticsInv, Lsp!Activate, Lsp!manager
<1>3. ASSUME NEW c \in Lsp!Callers
      PROVE  LspCallerOk(c, lspCallers'[c], lspGen', lspActivating', lspActive', lspDocument',
        lspNextId', lspPipe')
  <2>1. lspCallers'[c] = lspCallers[c] /\ lspGen' = lspGen + 1 /\ ~lspActive'
        /\ lspDocument' = Lsp!NoDoc /\ lspGen \in Nat
    BY DEF Lsp!Activate, Lsp!manager, LspInv, LspSessionInv, LspTypeInv
  <2>2. lspCallers[c] \in LspPlaces /\ LspCallerOk(c, lspCallers[c], lspGen, lspActivating,
        lspActive, lspDocument, lspNextId, lspPipe)
    BY DEF LspInv, LspTypeInv, LspCallerInv
  <2>3. lspCallers[c] # Lsp!Resting => lspCallers[c].gen < lspGen' /\ lspCallers[c].gen <= lspGen'
    BY <2>1, <2>2, LspPlaceFacts DEF LspCallerOk
  <2>4. lspCallers[c].pc \notin {"wait", "capture", "check"}
    BY DEF Lsp!Activate, LspSensible
  <2>5. ASSUME lspCallers[c].pc \in LspHoldPcs, c \in Askers
        PROVE  LspAskerOk(lspCallers[c], lspGen', lspActive', lspDocument', lspNextId', lspPipe')
    <3>1. lspCallers[c] \in LspHolding /\ lspCallers[c].pc \in {"ask", "send"}
      BY <2>2, <2>4, <2>5, LspPlaceFacts DEF LspHoldPcs
    <3>2. lspCallers[c].got = Lsp!Nothing
      BY <2>2, <2>5, <3>1 DEF LspCallerOk, LspAskerOk
    <3> QED  BY <2>1, <3>1, <3>2 DEF LspAskerOk
  <2> QED  BY <2>1, <2>2, <2>3, <2>5 DEF LspCallerOk
<1>4. LspCallerInv'
  BY <1>3 DEF LspCallerInv
<1> QED  BY <1>1, <1>2, <1>4 DEF LspInv

LEMMA LspAdmitStep == ASSUME LspInv, Lsp!Admit PROVE LspInv'
<1>1. LspTypeInv'
  BY DEF LspInv, LspTypeInv, Lsp!Admit, Lsp!source, Lsp!server
<1>2. LspSessionInv' /\ LspNoteInv' /\ LspDiagnosticsInv'
  BY DEF LspInv, LspSessionInv, LspNoteInv, LspDiagnosticsInv, Lsp!Admit, Lsp!server
<1>3. ASSUME NEW c \in Lsp!Callers
      PROVE  LspCallerOk(c, lspCallers'[c], lspGen', lspActivating', lspActive', lspDocument',
        lspNextId', lspPipe')
  <2>1. /\ lspCallers'[c] = lspCallers[c] /\ lspGen' = lspGen /\ lspGen \in Nat
        /\ lspActivating = "probing"
        /\ lspDocument' = lspDocument /\ lspNextId' = lspNextId /\ lspPipe' = lspPipe
    BY DEF Lsp!Admit, Lsp!server, LspInv, LspTypeInv
  <2>2. lspCallers[c] \in LspPlaces /\ LspCallerOk(c, lspCallers[c], lspGen, lspActivating,
        lspActive, lspDocument, lspNextId, lspPipe)
    BY DEF LspInv, LspTypeInv, LspCallerInv
  <2>3. lspCallers[c] # Lsp!Resting => lspCallers[c].gen # lspGen /\ lspCallers[c].gen < lspGen
    BY <2>1, <2>2, LspPlaceFacts DEF LspCallerOk
  <2>4. lspCallers[c].pc \in LspHoldPcs => lspCallers[c] # Lsp!Resting
    BY <2>2, LspPlaceFacts, LspHoldFacts
  <2> QED  BY <2>1, <2>2, <2>3, <2>4 DEF LspCallerOk, LspAskerOk
<1>4. LspCallerInv'
  BY <1>3 DEF LspCallerInv
<1> QED  BY <1>1, <1>2, <1>4 DEF LspInv

LEMMA LspActivateFailsStep == ASSUME LspSensible, LspInv, Lsp!ActivateFails PROVE LspInv'
<1>1. LspTypeInv'
  <2>1. Lsp!CloseSession /\ UNCHANGED <<lspGen, lspNextId>> /\ MaxPending \in Nat
        /\ MaxNotes \in Nat
    BY DEF Lsp!ActivateFails, LspSensible
  <2>2. /\ lspPipe' = <<>> /\ lspNotes' = <<>> /\ lspAsked' = {} /\ ~lspAlive'
        /\ lspOpened' = Lsp!NoDoc
        /\ lspState' = "CLOSED" /\ lspPending' = {}
    BY <2>1 DEF Lsp!CloseSession, Lsp!Gone
  <2> QED  BY <2>1, <2>2, LspEmptyFacts
      DEF LspInv, LspTypeInv, Lsp!ActivateFails, Lsp!source, Lsp!manager
<1>2. LspSessionInv' /\ LspNoteInv' /\ LspDiagnosticsInv'
  <2>1. Lsp!CloseSession /\ lspActivating # "no" /\ lspActivating' = "no"
    BY DEF Lsp!ActivateFails
  <2> QED  BY <2>1, LspEmptyFacts
      DEF LspInv, LspSessionInv, LspNoteInv, LspDiagnosticsInv, Lsp!ActivateFails, Lsp!CloseSession,
        Lsp!Gone, Lsp!manager
<1>3. LspCallerInv'
  <2>1. /\ lspGen' = lspGen /\ lspActivating' = "no" /\ lspActive' = lspActive
        /\ lspDocument' = lspDocument
        /\ lspNextId' = lspNextId /\ lspCallers' = lspCallers /\ DOMAIN lspPipe' = {}
    BY LspEmptyFacts DEF Lsp!ActivateFails, Lsp!CloseSession, Lsp!manager
  <2> QED  BY <2>1 DEF LspInv, LspCallerInv, LspCallerOk, LspAskerOk
<1> QED  BY <1>1, <1>2, <1>3 DEF LspInv

LEMMA LspClosedStep == ASSUME LspSensible, LspInv, Lsp!Closed PROVE LspInv'
<1>1. LspTypeInv'
  <2>1. Lsp!CloseSession /\ UNCHANGED <<lspGen, lspNextId>> /\ MaxPending \in Nat
        /\ MaxNotes \in Nat
    BY DEF Lsp!Closed, LspSensible
  <2>2. /\ lspPipe' = <<>> /\ lspNotes' = <<>> /\ lspAsked' = {} /\ ~lspAlive'
        /\ lspOpened' = Lsp!NoDoc
        /\ lspState' = "CLOSED" /\ lspPending' = {}
    BY <2>1 DEF Lsp!CloseSession, Lsp!Gone
  <2> QED  BY <2>1, <2>2, LspEmptyFacts DEF LspInv, LspTypeInv, Lsp!Closed, Lsp!source
<1>2. LspSessionInv' /\ LspNoteInv' /\ LspDiagnosticsInv'
  <2>1. Lsp!CloseSession
    BY DEF Lsp!Closed
  <2> QED  BY <2>1, LspEmptyFacts
      DEF LspInv, LspSessionInv, LspNoteInv, LspDiagnosticsInv, Lsp!Closed, Lsp!CloseSession,
        Lsp!Gone
<1>3. LspCallerInv'
  <2>1. /\ lspGen' = lspGen /\ lspActivating' = lspActivating /\ ~lspActive'
        /\ lspDocument' = Lsp!NoDoc
        /\ lspNextId' = lspNextId /\ lspCallers' = lspCallers /\ DOMAIN lspPipe' = {}
    BY LspEmptyFacts DEF Lsp!Closed, Lsp!CloseSession
  <2>2. \A c \in Lsp!Callers : lspCallers[c] \in LspPlaces
    BY DEF LspInv, LspTypeInv
  <2>3. \A c \in Lsp!Callers : lspCallers[c].pc \in LspHoldPcs => lspCallers[c].doc # Lsp!NoDoc
    BY <2>2, LspPlaceFacts, LspHoldFacts
  <2> QED  BY <2>1, <2>3 DEF LspInv, LspCallerInv, LspCallerOk, LspAskerOk
<1> QED  BY <1>1, <1>2, <1>3 DEF LspInv

-----------------------------------------------------------------------------
(* The server, the file and the stdout thread.                             *)

LEMMA LspEditStep == ASSUME LspInv, Lsp!Edit PROVE LspInv'
<1>1. LspTypeInv'
  BY DEF LspInv, LspTypeInv, Lsp!Edit, Lsp!session, Lsp!server, Lsp!manager
<1>2. LspSessionInv' /\ LspNoteInv' /\ LspDiagnosticsInv'
  BY DEF LspInv, LspSessionInv, LspNoteInv, LspDiagnosticsInv, Lsp!Edit, Lsp!session, Lsp!server,
    Lsp!manager
<1>3. LspCallerInv'
  BY DEF LspInv, LspCallerInv, Lsp!Edit, Lsp!session, Lsp!server, Lsp!manager
<1> QED  BY <1>1, <1>2, <1>3 DEF LspInv

LEMMA LspDieStep == ASSUME LspInv, Lsp!Die PROVE LspInv'
<1>1. LspTypeInv'
  BY DEF LspInv, LspTypeInv, Lsp!Die, Lsp!Gone, Lsp!source, Lsp!session, Lsp!manager
<1>2. LspSessionInv' /\ LspNoteInv' /\ LspDiagnosticsInv'
  BY DEF LspInv, LspSessionInv, LspNoteInv, LspDiagnosticsInv, Lsp!Die, Lsp!Gone, Lsp!session,
    Lsp!manager
<1>3. LspCallerInv'
  BY DEF LspInv, LspCallerInv, Lsp!Die, Lsp!session, Lsp!manager
<1> QED  BY <1>1, <1>2, <1>3 DEF LspInv

LEMMA LspAnswerStep == ASSUME LspInv, NEW n \in lspAsked, Lsp!Answer(n) PROVE LspInv'
<1> DEFINE m == [id |-> n, about |-> lspOpened.text]
<1>1. /\ lspDocument # Lsp!NoDoc /\ lspOpened = lspDocument /\ lspDocument.text \in Texts
      /\ n \in 1 .. lspNextId - 1
      /\ lspNextId \in Nat /\ lspPipe \in Seq(LspMessages \cup LspNotes)
  BY LspDocFacts DEF LspInv, LspTypeInv, LspSessionInv
<1>2. m \in LspMessages /\ m \in LspMessages \cup LspNotes /\ m.id = n /\ m.id # 0
      /\ m.id < lspNextId /\ m.about = lspDocument.text
  BY <1>1 DEF LspMessages
<1>3. /\ lspPipe' = Append(lspPipe, m) /\ lspAsked' \subseteq lspAsked
      /\ UNCHANGED <<Lsp!source, Lsp!session, lspAlive, lspOpened, Lsp!manager, lspCallers>>
  BY DEF Lsp!Answer
<1> HIDE DEF m
<1>4. /\ lspPipe' \in Seq(LspMessages \cup LspNotes)
      /\ \A i \in DOMAIN lspPipe' :
           (i \in DOMAIN lspPipe /\ lspPipe'[i] = lspPipe[i]) \/ lspPipe'[i] = m
  BY <1>1, <1>2, <1>3, LspAppendFacts
<1>5. LspTypeInv'
  BY <1>2, <1>3, <1>4 DEF LspInv, LspTypeInv, Lsp!source, Lsp!session, Lsp!manager
<1>6. LspSessionInv' /\ LspNoteInv' /\ LspDiagnosticsInv'
  BY <1>2, <1>3, <1>4
    DEF LspInv, LspSessionInv, LspNoteInv, LspDiagnosticsInv, Lsp!session, Lsp!manager
<1>7. LspCallerInv'
  <2>1. ASSUME NEW c \in Lsp!Callers
        PROVE  LspCallerOk(c, lspCallers[c], lspGen, lspActivating, lspActive, lspDocument,
          lspNextId, lspPipe')
    <3>1. LspCallerOk(c, lspCallers[c], lspGen, lspActivating, lspActive, lspDocument, lspNextId,
          lspPipe)
      BY DEF LspInv, LspCallerInv
    <3> QED  BY <1>2, <1>4, <3>1 DEF LspCallerOk, LspAskerOk
  <2> QED  BY <1>3, <2>1 DEF LspCallerInv, Lsp!session, Lsp!manager
<1> QED  BY <1>5, <1>6, <1>7 DEF LspInv

LEMMA LspPublishStep == ASSUME LspInv, Lsp!Publish PROVE LspInv'
<1> DEFINE m == [id |-> 0, version |-> lspOpened.version, about |-> lspOpened.text]
<1>1. /\ lspOpened = lspDocument /\ lspOpened \in LspDocs
      /\ lspNextId \in Nat \ {0} /\ lspPipe \in Seq(LspMessages \cup LspNotes)
  BY DEF LspInv, LspTypeInv, LspSessionInv, Lsp!Publish
<1>2. m \in LspNotes /\ m \in LspMessages \cup LspNotes /\ m.id = 0
      /\ m.version = lspDocument.version /\ m.about = lspDocument.text
      /\ lspDocument.version \in Nat
  BY <1>1 DEF LspNotes, LspDocs
<1>3. /\ lspPipe' = Append(lspPipe, m)
      /\ UNCHANGED <<Lsp!source, Lsp!session, lspAlive, lspOpened, lspAsked, Lsp!manager,
         lspCallers>>
  BY DEF Lsp!Publish
<1> HIDE DEF m
<1>4. /\ lspPipe' \in Seq(LspMessages \cup LspNotes)
      /\ \A i \in DOMAIN lspPipe' :
           (i \in DOMAIN lspPipe /\ lspPipe'[i] = lspPipe[i]) \/ lspPipe'[i] = m
  BY <1>1, <1>2, <1>3, LspAppendFacts
<1>5. LspTypeInv'
  BY <1>1, <1>2, <1>3, <1>4 DEF LspInv, LspTypeInv, Lsp!source, Lsp!session, Lsp!manager
<1>6. LspSessionInv' /\ LspNoteInv' /\ LspDiagnosticsInv'
  BY <1>2, <1>3, <1>4
    DEF LspInv, LspSessionInv, LspNoteInv, LspDiagnosticsInv, Lsp!session, Lsp!manager
<1>7. LspCallerInv'
  <2>1. ASSUME NEW c \in Lsp!Callers
        PROVE  LspCallerOk(c, lspCallers[c], lspGen, lspActivating, lspActive, lspDocument,
          lspNextId, lspPipe')
    <3>1. LspCallerOk(c, lspCallers[c], lspGen, lspActivating, lspActive, lspDocument, lspNextId,
          lspPipe)
      BY DEF LspInv, LspCallerInv
    <3> QED  BY <1>1, <1>2, <1>4, <3>1 DEF LspCallerOk, LspAskerOk
  <2> QED  BY <1>3, <2>1 DEF LspCallerInv, Lsp!session, Lsp!manager
<1> QED  BY <1>5, <1>6, <1>7 DEF LspInv

(* A caller that is given an answer stays as it should be: an error says   *)
(* nothing, and what answers its own request is about the document it      *)
(* asked about.                                                            *)
LEMMA LspGivenFacts ==
  ASSUME NEW c, NEW r \in LspHolding, NEW g, NEW a, NEW on, NEW doc, NEW next, NEW written,
         LspCallerOk(c, r, g, a, on, doc, next, written), r.pc = "wait",
         NEW answer \in LspGots,
         \/ answer = Lsp!Failure
         \/ answer.id = r.id /\ (doc = r.doc => answer.about = r.doc.text)
  PROVE  LspCallerOk(c, [pc |-> "wait", gen |-> r.gen, doc |-> r.doc, id |-> r.id, got |-> answer],
                  g, a, on, doc, next, written)
<1> DEFINE n == [pc |-> "wait", gen |-> r.gen, doc |-> r.doc, id |-> r.id, got |-> answer]
<1>1. n.pc = "wait" /\ n.gen = r.gen /\ n.doc = r.doc /\ n.id = r.id /\ n.got = answer
  OBVIOUS
<1>2. r # Lsp!Resting
  BY LspHoldFacts
<1> HIDE DEF n
<1>3. LspCallerOk(c, n, g, a, on, doc, next, written)
  BY <1>1, <1>2 DEF LspCallerOk, LspAskerOk, LspHoldPcs
<1> QED  BY <1>3 DEF n

(* Requests that fail: their callers are told, nobody else is.             *)
LEMMA LspFailedFacts ==
  ASSUME LspInv, NEW waiting, NEW c \in Lsp!Callers
  PROVE  /\ Lsp!Answered(waiting, Lsp!Failure)[c] \in LspPlaces
         /\ LspCallerOk(c, Lsp!Answered(waiting, Lsp!Failure)[c], lspGen, lspActivating, lspActive,
            lspDocument, lspNextId, lspPipe)
<1>1. LspCallerOk(c, lspCallers[c], lspGen, lspActivating, lspActive, lspDocument, lspNextId,
      lspPipe) /\ LspTypeInv
  BY DEF LspInv, LspCallerInv
<1>2. Lsp!Answered(waiting, Lsp!Failure) \in [Lsp!Callers -> LspPlaces]
  BY <1>1, LspAnsweredFacts, LspFailureFacts
<1>3. CASE Lsp!Answered(waiting, Lsp!Failure)[c] = lspCallers[c]
  BY <1>1, <1>2, <1>3
<1>4. CASE /\ lspCallers[c].pc = "wait" /\ lspCallers[c] \in LspHolding
           /\ Lsp!Answered(waiting, Lsp!Failure)[c] =
                [pc |-> "wait", gen |-> lspCallers[c].gen, doc |-> lspCallers[c].doc,
                 id |-> lspCallers[c].id, got |-> Lsp!Failure]
  BY <1>1, <1>2, <1>4, LspGivenFacts, LspFailureFacts
<1> QED  BY <1>1, <1>3, <1>4, LspAnsweredFacts, LspFailureFacts

LEMMA LspPendingFacts ==
  ASSUME LspSensible, LspTypeInv
  PROVE  /\ Lsp!IsFiniteSet(lspPending)
         /\ \A some \in SUBSET lspPending : Lsp!Cardinality(some) <= MaxPending
<1>1. lspNextId - 1 \in Int /\ 1 \in Int /\ lspPending \subseteq 1 .. lspNextId - 1
  BY DEF LspTypeInv
<1>2. Lsp!IsFiniteSet(1 .. lspNextId - 1)
  BY <1>1, LspCounts, FS_Interval
<1>3. Lsp!IsFiniteSet(lspPending)
  BY <1>1, <1>2, LspCounts, FS_Subset
<1>4. ASSUME NEW some \in SUBSET lspPending
      PROVE  Lsp!Cardinality(some) <= MaxPending
  <2>1. /\ Lsp!Cardinality(some) \in Nat /\ Lsp!Cardinality(lspPending) \in Nat
        /\ Lsp!Cardinality(some) <= Lsp!Cardinality(lspPending)
    BY <1>3, LspCounts, FS_Subset, FS_CardinalityType
  <2> QED  BY <2>1 DEF LspTypeInv, LspSensible
<1> QED  BY <1>3, <1>4

LEMMA LspStopReadingStep == ASSUME LspSensible, LspInv, Lsp!StopReading PROVE LspInv'
<1>1. /\ UNCHANGED <<Lsp!source, lspGen, lspActivating, lspTimeouts, lspNextId, lspNotes, lspPipe,
         Lsp!manager>>
      /\ \/ UNCHANGED <<lspAlive, lspOpened, lspAsked>>
         \/ ~lspAlive' /\ lspOpened' = Lsp!NoDoc /\ lspAsked' = {}
  BY DEF Lsp!StopReading, Lsp!Gone
<1>2. \/ UNCHANGED <<lspState, lspPending, lspCallers>>
      \/ /\ lspState' = "FAILED" /\ lspPending' = {}
            /\ lspCallers' = Lsp!Answered(lspPending, Lsp!Failure)
         /\ lspState # "CLOSED"
  BY DEF Lsp!StopReading
<1>3. Lsp!Cardinality({}) <= MaxPending
  BY LspPendingFacts DEF LspInv
<1>4. Lsp!Answered(lspPending, Lsp!Failure) \in [Lsp!Callers -> LspPlaces]
  BY LspAnsweredFacts, LspFailureFacts DEF LspInv
<1>5. LspTypeInv'
  <2>1. Lsp!Cardinality(lspPending') <= MaxPending
    BY <1>2, <1>3 DEF LspInv, LspTypeInv
  <2> QED  BY <1>1, <1>2, <1>4, <2>1 DEF LspInv, LspTypeInv, Lsp!source, Lsp!manager
<1>6. LspSessionInv' /\ LspNoteInv' /\ LspDiagnosticsInv'
  BY <1>1, <1>2 DEF LspInv, LspSessionInv, LspNoteInv, LspDiagnosticsInv, Lsp!manager
<1>7. ASSUME NEW c \in Lsp!Callers
      PROVE  LspCallerOk(c, lspCallers'[c], lspGen, lspActivating, lspActive, lspDocument,
        lspNextId, lspPipe)
  BY <1>2, LspFailedFacts DEF LspInv, LspCallerInv
<1>8. LspCallerInv'
  BY <1>1, <1>7 DEF LspCallerInv, Lsp!manager
<1> QED  BY <1>5, <1>6, <1>8 DEF LspInv

LEMMA LspReadMessageStep == ASSUME LspSensible, LspInv, Lsp!ReadMessage PROVE LspInv'
<1> DEFINE m == lspPipe[1]
<1>1. /\ lspPipe \in Seq(LspMessages \cup LspNotes) /\ lspPipe # <<>> /\ lspPipe' = Tail(lspPipe)
      /\ UNCHANGED <<Lsp!source, lspGen, lspState, lspActivating, lspTimeouts, lspNextId, lspReader,
         lspAlive, lspOpened, lspAsked, Lsp!manager>>
      /\ lspNotes \in Seq(LspNotes) /\ MaxNotes \in Nat \ {0} /\ Len(lspNotes) <= MaxNotes
      /\ lspPending \subseteq 1 .. lspNextId - 1 /\ lspNextId \in Nat /\ MaxPending \in Nat
      /\ Lsp!Cardinality(lspPending) <= MaxPending
  BY DEF Lsp!ReadMessage, LspInv, LspTypeInv, LspSensible
<1>2. /\ lspPipe' \in Seq(LspMessages \cup LspNotes) /\ 1 \in DOMAIN lspPipe
      /\ m \in LspMessages \cup LspNotes
      /\ \A i \in DOMAIN lspPipe' : i + 1 \in DOMAIN lspPipe /\ lspPipe'[i] = lspPipe[i + 1]
  BY <1>1, LspTailFacts
<1>3. /\ m.id = 0 => m \in LspNotes
         /\ lspNotes' = Append(IF Len(lspNotes) = MaxNotes THEN Tail(lspNotes) ELSE lspNotes, m)
                     /\ UNCHANGED <<lspPending, lspCallers>>
      /\ m.id # 0 => /\ lspCallers' = Lsp!Answered(lspPending \cap {m.id}, m)
                     /\ lspPending' = lspPending \ {m.id} /\ lspNotes' = lspNotes
                     /\ m \in LspMessages /\ m \in LspGots
  BY <1>2, LspMessageFacts DEF Lsp!ReadMessage, LspGots
<1> HIDE DEF m
<1>4. /\ lspNotes' \in Seq(LspNotes) /\ Len(lspNotes') <= MaxNotes
      /\ \A i \in DOMAIN lspNotes' : (\E j \in DOMAIN lspNotes : lspNotes'[i] = lspNotes[j])
         \/ (m.id = 0 /\ lspNotes'[i] = m)
  <2>1. CASE m.id # 0
    BY <1>1, <1>3, <2>1
  <2>2. CASE m.id = 0 /\ Len(lspNotes) # MaxNotes
    <3>1. lspNotes' = Append(lspNotes, m) /\ m \in LspNotes
      BY <1>3, <2>2
    <3>2. /\ lspNotes' \in Seq(LspNotes) /\ Len(lspNotes') = Len(lspNotes) + 1
          /\ \A i \in DOMAIN lspNotes' : (i \in DOMAIN lspNotes /\ lspNotes'[i] = lspNotes[i])
             \/ lspNotes'[i] = m
      BY <1>1, <3>1, LspAppendFacts
    <3> QED  BY <1>1, <2>2, <3>2
  <2>3. CASE m.id = 0 /\ Len(lspNotes) = MaxNotes
    <3>1. lspNotes' = Append(Tail(lspNotes), m) /\ m \in LspNotes /\ lspNotes # <<>>
      BY <1>1, <1>3, <2>3
    <3>2. /\ Tail(lspNotes) \in Seq(LspNotes) /\ Len(Tail(lspNotes)) = Len(lspNotes) - 1
          /\ \A i \in DOMAIN Tail(lspNotes) : i + 1 \in DOMAIN lspNotes
             /\ Tail(lspNotes)[i] = lspNotes[i + 1]
      BY <1>1, <3>1, LspTailFacts
    <3>3. /\ lspNotes' \in Seq(LspNotes) /\ Len(lspNotes') = Len(Tail(lspNotes)) + 1
          /\ \A i \in DOMAIN lspNotes' :
               (i \in DOMAIN Tail(lspNotes) /\ lspNotes'[i] = Tail(lspNotes)[i]) \/ lspNotes'[i] = m
      BY <3>1, <3>2, LspAppendFacts
    <3> QED  BY <1>1, <2>3, <3>2, <3>3
  <2> QED  BY <2>1, <2>2, <2>3
<1>5. lspPending' \subseteq lspPending /\ Lsp!Cardinality(lspPending') <= MaxPending
  <2>1. lspPending' \subseteq lspPending
    BY <1>3
  <2> QED  BY <2>1, LspPendingFacts DEF LspInv
<1>6. lspCallers' \in [Lsp!Callers -> LspPlaces]
  BY <1>3, LspAnsweredFacts DEF LspInv, LspTypeInv
<1>7. LspTypeInv'
  BY <1>1, <1>2, <1>4, <1>5, <1>6 DEF LspInv, LspTypeInv, Lsp!source, Lsp!manager
<1>8. LspSessionInv' /\ LspDiagnosticsInv'
  BY <1>1 DEF LspInv, LspSessionInv, LspDiagnosticsInv, Lsp!manager
<1>9. LspNoteInv'
  <2>1. LspNoteInv /\ lspDocument' = lspDocument
    BY <1>1 DEF LspInv, Lsp!manager
  <2>2. m.id = 0 => m.version <= lspDocument.version
        /\ (m.version = lspDocument.version => m.about = lspDocument.text)
    BY <1>2, <2>1 DEF LspNoteInv, m
  <2> QED  BY <1>2, <1>4, <2>1, <2>2 DEF LspNoteInv
<1>10. ASSUME NEW c \in Lsp!Callers
       PROVE  LspCallerOk(c, lspCallers'[c], lspGen, lspActivating, lspActive, lspDocument,
         lspNextId, lspPipe')
  <2>1. LspCallerOk(c, lspCallers[c], lspGen, lspActivating, lspActive, lspDocument, lspNextId,
        lspPipe) /\ LspTypeInv
    BY DEF LspInv, LspCallerInv
  <2>2. LspCallerOk(c, lspCallers[c], lspGen, lspActivating, lspActive, lspDocument, lspNextId,
        lspPipe')
    BY <1>2, <2>1 DEF LspCallerOk, LspAskerOk
  <2>3. CASE lspCallers'[c] = lspCallers[c]
    BY <2>2, <2>3
  <2>4. CASE lspCallers'[c] # lspCallers[c]
    <3>1. m.id # 0 /\ lspCallers' = Lsp!Answered(lspPending \cap {m.id}, m) /\ m \in LspGots
      BY <1>3, <2>4
    <3>2. /\ lspCallers[c].pc = "wait" /\ lspCallers[c].id = m.id /\ lspCallers[c] \in LspHolding
          /\ lspCallers'[c] = [pc |-> "wait", gen |-> lspCallers[c].gen, doc |-> lspCallers[c].doc,
                            id |-> lspCallers[c].id, got |-> m]
      BY <2>1, <2>4, <3>1, LspAnsweredFacts
    <3>3. lspDocument = lspCallers[c].doc => m.about = lspCallers[c].doc.text
      BY <1>2, <2>1, <3>2 DEF LspCallerOk, LspAskerOk, LspHoldPcs, m
    <3> QED  BY <2>2, <3>1, <3>2, <3>3, LspGivenFacts
  <2> QED  BY <2>3, <2>4
<1>11. LspCallerInv'
  BY <1>1, <1>10 DEF LspCallerInv, Lsp!manager
<1> QED  BY <1>7, <1>8, <1>9, <1>11 DEF LspInv

-----------------------------------------------------------------------------
(* The steps of a caller: what it becomes is as it should be.              *)

LEMMA LspRestOk ==
  ASSUME NEW c, NEW g, NEW a, NEW on, NEW doc, NEW next, NEW written
  PROVE  LspCallerOk(c, Lsp!Resting, g, a, on, doc, next, written) /\ Lsp!Resting \in LspPlaces
BY DEF LspCallerOk, Lsp!Resting, LspHoldPcs, LspPlaces

LEMMA LspMoveOne ==
  ASSUME LspInv, NEW c \in Lsp!Callers, NEW r \in LspPlaces,
    lspCallers' = [lspCallers EXCEPT ![c] = r],
         UNCHANGED <<lspGen, lspActivating, lspActive, lspDocument, lspNextId, lspPipe>>,
         LspCallerOk(c, r, lspGen, lspActivating, lspActive, lspDocument, lspNextId, lspPipe)
  PROVE  LspCallerInv' /\ lspCallers' \in [Lsp!Callers -> LspPlaces]
<1>1. lspCallers' \in [Lsp!Callers -> LspPlaces]
      /\ \A d \in Lsp!Callers : lspCallers'[d] = IF d = c THEN r ELSE lspCallers[d]
  BY DEF LspInv, LspTypeInv
<1>2. \A d \in Lsp!Callers : LspCallerOk(d, lspCallers'[d], lspGen, lspActivating, lspActive,
      lspDocument, lspNextId, lspPipe)
  BY <1>1 DEF LspInv, LspCallerInv
<1> QED  BY <1>1, <1>2 DEF LspCallerInv

LEMMA LspRestOne ==
  ASSUME LspInv, NEW c \in Lsp!Callers, Lsp!GiveUp(c),
         UNCHANGED <<lspGen, lspActivating, lspActive, lspDocument, lspNextId, lspPipe>>
  PROVE  LspCallerInv' /\ lspCallers' \in [Lsp!Callers -> LspPlaces]
BY LspRestOk, LspMoveOne DEF Lsp!GiveUp

LEMMA LspFailAll ==
  ASSUME LspInv, NEW waiting, NEW c \in Lsp!Callers,
    lspCallers' = [Lsp!Answered(waiting, Lsp!Failure) EXCEPT ![c] = Lsp!Resting],
         UNCHANGED <<lspGen, lspActivating, lspActive, lspDocument, lspNextId, lspPipe>>
  PROVE  LspCallerInv' /\ lspCallers' \in [Lsp!Callers -> LspPlaces]
<1>1. Lsp!Answered(waiting, Lsp!Failure) \in [Lsp!Callers -> LspPlaces]
  BY LspAnsweredFacts, LspFailureFacts DEF LspInv
<1>2. /\ lspCallers' \in [Lsp!Callers -> LspPlaces]
      /\ \A d \in Lsp!Callers : lspCallers'[d] = IF d = c THEN Lsp!Resting ELSE Lsp!Answered(waiting, Lsp!Failure)[d]
  BY <1>1, LspRestOk
<1>3. \A d \in Lsp!Callers : LspCallerOk(d, lspCallers'[d], lspGen, lspActivating, lspActive,
      lspDocument, lspNextId, lspPipe)
  BY <1>2, LspFailedFacts, LspRestOk
<1> QED  BY <1>2, <1>3 DEF LspCallerInv

(* A caller that keeps what it holds and goes on.                          *)
LEMMA LspMovedFacts ==
  ASSUME LspInv, NEW c \in Lsp!Callers, lspCallers[c].pc \in LspHoldPcs, NEW pc \in LspHoldPcs,
    Lsp!Move(c, pc)
  PROVE  LET r == lspCallers[c]
             n == [pc |-> pc, gen |-> r.gen, doc |-> r.doc, id |-> r.id, got |-> r.got]
         IN r \in LspHolding /\ n \in LspHolding /\ n \in LspPlaces
           /\ lspCallers' = [lspCallers EXCEPT ![c] = n]
<1>1. lspCallers[c] \in LspHolding
  BY LspPlaceFacts DEF LspInv, LspTypeInv
<1>2. [lspCallers[c] EXCEPT !.pc = pc] =
        [pc |-> pc, gen |-> lspCallers[c].gen, doc |-> lspCallers[c].doc, id |-> lspCallers[c].id,
          got |-> lspCallers[c].got]
  BY <1>1 DEF LspHolding
<1>3. [pc |-> pc, gen |-> lspCallers[c].gen, doc |-> lspCallers[c].doc, id |-> lspCallers[c].id,
      got |-> lspCallers[c].got]
        \in LspHolding
  BY <1>1 DEF LspHolding
<1>4. lspCallers' = [lspCallers EXCEPT ![c] = [lspCallers[c] EXCEPT !.pc = pc]]
  BY DEF Lsp!Move
<1> QED  BY <1>1, <1>2, <1>3, <1>4 DEF LspPlaces

LEMMA LspBeginStep == ASSUME LspSensible, LspInv, NEW c \in Lsp!Callers, Lsp!Begin(c) PROVE LspInv'
<1> DEFINE r == [pc |-> "read", gen |-> lspGen]
<1>1. /\ UNCHANGED <<Lsp!source, Lsp!session, Lsp!server, lspActive, lspDocument>>
      /\ lspAdmitted' \in {lspAdmitted, FALSE}
      /\ lspDiagnostics' \in {lspDiagnostics, Lsp!NoDiagnostics}
      /\ lspCallers' = lspCallers \/ (lspActive /\ lspCallers' = [lspCallers EXCEPT ![c] = r])
  BY DEF Lsp!Begin, Lsp!Reconciled, Lsp!Ready
<1>2. r \in LspPlaces /\ r.pc = "read" /\ r.gen = lspGen
  BY DEF LspPlaces, LspReading, LspInv, LspTypeInv
<1> HIDE DEF r
<1>3. LspCallerInv' /\ lspCallers' \in [Lsp!Callers -> LspPlaces]
  <2>1. CASE lspCallers' = lspCallers
    BY <1>1, <2>1 DEF LspInv, LspTypeInv, LspCallerInv, Lsp!session, Lsp!server
  <2>2. CASE lspActive /\ lspCallers' = [lspCallers EXCEPT ![c] = r]
    <3>1. LspCallerOk(c, r, lspGen, lspActivating, lspActive, lspDocument, lspNextId, lspPipe)
      BY <1>2, <2>2 DEF LspCallerOk, LspHoldPcs, LspInv, LspSessionInv, LspTypeInv
    <3> QED  BY <1>1, <1>2, <2>2, <3>1, LspMoveOne DEF Lsp!session, Lsp!server
  <2> QED  BY <1>1, <2>1, <2>2
<1>4. LspTypeInv'
  BY <1>1, <1>3 DEF LspInv, LspTypeInv, Lsp!source, Lsp!session, Lsp!server
<1>5. LspSessionInv'
  <2>1. lspAdmitted' => lspAdmitted
    BY <1>1
  <2> QED  BY <1>1, <2>1 DEF LspInv, LspSessionInv, Lsp!session, Lsp!server
<1>6. LspNoteInv' /\ LspDiagnosticsInv'
  BY <1>1 DEF LspInv, LspNoteInv, LspDiagnosticsInv, Lsp!session, Lsp!server
<1> QED  BY <1>3, <1>4, <1>5, <1>6 DEF LspInv

(* A step that changes nothing but one caller.                             *)
LEMMA LspOnlyCallers ==
  ASSUME LspInv, UNCHANGED <<Lsp!source, Lsp!session, Lsp!server, Lsp!manager>>,
         LspCallerInv', lspCallers' \in [Lsp!Callers -> LspPlaces]
  PROVE  LspInv'
<1>1. LspTypeInv'
  BY DEF LspInv, LspTypeInv, Lsp!source, Lsp!session, Lsp!server, Lsp!manager
<1>2. LspSessionInv' /\ LspNoteInv' /\ LspDiagnosticsInv'
  BY DEF LspInv, LspSessionInv, LspNoteInv, LspDiagnosticsInv, Lsp!session, Lsp!server, Lsp!manager
<1> QED  BY <1>1, <1>2 DEF LspInv

LEMMA LspReadFileStep == ASSUME LspInv, NEW c \in Lsp!Callers, Lsp!ReadFile(c) PROVE LspInv'
<1> DEFINE r == [pc |-> "sync", gen |-> lspCallers[c].gen, text |-> lspDisk]
<1>1. /\ UNCHANGED <<Lsp!source, Lsp!session, Lsp!server, Lsp!manager>> /\ lspCallers[c].pc = "read"
      /\ lspCallers' = [lspCallers EXCEPT ![c] = r]
  BY DEF Lsp!ReadFile
<1>2. lspCallers[c] \in LspPlaces /\ lspCallers[c] # Lsp!Resting /\ lspCallers[c].gen \in Nat
      /\ LspCallerOk(c, lspCallers[c], lspGen, lspActivating, lspActive, lspDocument, lspNextId,
         lspPipe)
  BY <1>1, LspPlaceFacts DEF LspInv, LspTypeInv, LspCallerInv, Lsp!Resting
<1>3. r \in LspPlaces /\ r.pc = "sync" /\ r.gen = lspCallers[c].gen
  BY <1>2 DEF LspPlaces, LspSyncing, LspInv, LspTypeInv
<1> HIDE DEF r
<1>4. LspCallerOk(c, r, lspGen, lspActivating, lspActive, lspDocument, lspNextId, lspPipe)
  BY <1>2, <1>3 DEF LspCallerOk, LspHoldPcs
<1>5. UNCHANGED <<lspGen, lspActivating, lspActive, lspDocument, lspNextId, lspPipe>>
  BY <1>1 DEF Lsp!session, Lsp!server, Lsp!manager
<1> QED  BY <1>1, <1>3, <1>4, <1>5, LspMoveOne, LspOnlyCallers

LEMMA LspHeldFacts ==
  ASSUME LspInv, NEW c \in Lsp!Callers, lspCallers[c].pc = "sync", NEW doc \in LspDocs
  PROVE  LET r == Lsp!Held(c, doc) IN
         /\ r \in LspHolding /\ r \in LspPlaces /\ r.gen = lspCallers[c].gen /\ r.doc = doc
         /\ r.got = Lsp!Nothing
         /\ r.pc \in {"ask", "capture"} /\ (r.pc = "ask" <=> c \in Askers)
         /\ r # Lsp!Resting /\ lspCallers[c].gen <= lspGen
            /\ (lspActivating # "no" => lspCallers[c].gen < lspGen)
<1>1. lspCallers[c] \in LspSyncing /\ lspCallers[c].gen \in Nat /\ lspCallers[c] # Lsp!Resting
  BY LspPlaceFacts DEF LspInv, LspTypeInv
<1>2. Lsp!Held(c, doc) \in LspHolding
  BY <1>1 DEF Lsp!Held, LspHolding, LspHoldPcs, LspGots
<1>3. Lsp!Held(c, doc) \in LspPlaces /\ Lsp!Held(c, doc) # Lsp!Resting
  BY <1>2, LspHoldFacts
<1>4. lspCallers[c].gen <= lspGen /\ (lspActivating # "no" => lspCallers[c].gen < lspGen)
  BY <1>1 DEF LspInv, LspCallerInv, LspCallerOk
<1> QED  BY <1>2, <1>3, <1>4 DEF Lsp!Held

LEMMA LspSyncKnownStep == ASSUME LspInv, NEW c \in Lsp!Callers, Lsp!SyncKnown(c) PROVE LspInv'
<1> DEFINE r == Lsp!Held(c, lspDocument)
<1>1. /\ UNCHANGED <<Lsp!source, Lsp!session, Lsp!server, Lsp!manager>> /\ lspCallers[c].pc = "sync"
      /\ lspCallers' = [lspCallers EXCEPT ![c] = r] /\ lspDocument # Lsp!NoDoc
      /\ lspDocument \in LspDocs
  BY DEF Lsp!SyncKnown, Lsp!Told, LspInv, LspTypeInv
<1>2. /\ r \in LspPlaces /\ r.gen = lspCallers[c].gen /\ r.doc = lspDocument /\ r.got = Lsp!Nothing
      /\ r.pc \in {"ask", "capture"} /\ (r.pc = "ask" <=> c \in Askers)
      /\ r # Lsp!Resting /\ r.gen <= lspGen /\ (lspActivating # "no" => r.gen < lspGen)
  BY <1>1, LspHeldFacts
<1> HIDE DEF r
<1>3. lspDocument.version \in Nat
  BY <1>1 DEF LspDocs
<1>4. LspCallerOk(c, r, lspGen, lspActivating, lspActive, lspDocument, lspNextId, lspPipe)
  BY <1>1, <1>2, <1>3 DEF LspCallerOk, LspAskerOk
<1>5. UNCHANGED <<lspGen, lspActivating, lspActive, lspDocument, lspNextId, lspPipe>>
  BY <1>1 DEF Lsp!session, Lsp!server, Lsp!manager
<1> QED  BY <1>1, <1>2, <1>4, <1>5, LspMoveOne, LspOnlyCallers

(* The session that a caller may write to is active: while one is being    *)
(* activated no caller is of it, and one that is neither is closed.        *)
LEMMA LspMineIsActive ==
  ASSUME LspInv, NEW c \in Lsp!Callers, lspCallers[c] # Lsp!Resting, Lsp!Mine(c),
    lspState # "CLOSED"
  PROVE  lspActive /\ lspActivating = "no"
<1>1. lspCallers[c].gen \in Nat /\ lspCallers[c].gen = lspGen
  BY LspPlaceFacts DEF LspInv, LspTypeInv, Lsp!Mine
<1>2. lspActivating = "no"
  BY <1>1 DEF LspInv, LspCallerInv, LspCallerOk
<1> QED  BY <1>2 DEF LspInv, LspSessionInv

LEMMA LspSyncNewStep == ASSUME LspInv, NEW c \in Lsp!Callers, Lsp!SyncNew(c) PROVE LspInv'
<1> DEFINE new == [version |-> lspDocument.version + 1, text |-> lspCallers[c].text]
           r == Lsp!Held(c, new)
<1>1. /\ UNCHANGED <<Lsp!source, Lsp!session, lspAlive, lspAsked, lspPipe, lspActive, lspAdmitted>>
      /\ lspCallers' = [lspCallers EXCEPT ![c] = r] /\ lspDocument' = new /\ lspOpened' = new
      /\ lspDiagnostics' = Lsp!NoDiagnostics /\ lspCallers[c].pc = "sync" /\ Lsp!Mine(c)
      /\ lspState # "CLOSED" /\ lspAlive
  BY DEF Lsp!SyncNew, Lsp!Stale, Lsp!CanNotify
<1>2. lspCallers[c] \in LspSyncing /\ lspCallers[c] # Lsp!Resting
  BY <1>1, LspPlaceFacts DEF LspInv, LspTypeInv
<1>3. lspActive /\ lspActivating = "no"
  BY <1>1, <1>2, LspMineIsActive
<1>4. lspDocument.version \in Nat
  BY LspDocFacts DEF LspInv, LspTypeInv
<1>5. new \in LspDocs /\ new.version = lspDocument.version + 1 /\ new # Lsp!NoDoc
  BY <1>2, <1>4 DEF LspDocs, LspSyncing, Lsp!NoDoc
<1> HIDE DEF new
<1>6. /\ r \in LspHolding /\ r \in LspPlaces /\ r.gen = lspCallers[c].gen /\ r.doc = new
      /\ r.got = Lsp!Nothing
      /\ r.pc \in {"ask", "capture"} /\ (r.pc = "ask" <=> c \in Askers)
      /\ r # Lsp!Resting /\ r.gen <= lspGen
  BY <1>1, <1>5, LspHeldFacts
<1> HIDE DEF r
<1>7. lspCallers' \in [Lsp!Callers -> LspPlaces]
      /\ \A d \in Lsp!Callers : lspCallers'[d] = IF d = c THEN r ELSE lspCallers[d]
  BY <1>1, <1>6 DEF LspInv, LspTypeInv
<1>8. ASSUME NEW d \in Lsp!Callers
      PROVE  LspCallerOk(d, lspCallers'[d], lspGen, lspActivating, lspActive, new, lspNextId,
        lspPipe)
  <2>1. CASE d = c
    <3>1. LspCallerOk(c, r, lspGen, lspActivating, lspActive, new, lspNextId, lspPipe)
      BY <1>3, <1>4, <1>5, <1>6 DEF LspCallerOk, LspAskerOk
    <3> QED  BY <1>7, <2>1, <3>1
  <2>2. CASE d # c
    <3>1. lspCallers'[d] = lspCallers[d] /\ lspCallers[d] \in LspPlaces
          /\ LspCallerOk(d, lspCallers[d], lspGen, lspActivating, lspActive, lspDocument, lspNextId,
             lspPipe)
      BY <1>7, <2>2 DEF LspInv, LspTypeInv, LspCallerInv
    <3>2. ASSUME d \in Askers, lspCallers[d].pc \in LspHoldPcs
          PROVE  LspAskerOk(lspCallers[d], lspGen, lspActive, new, lspNextId, lspPipe)
      <4>1. LspAskerOk(lspCallers[d], lspGen, lspActive, lspDocument, lspNextId, lspPipe)
            /\ lspCallers[d] \in LspHolding
        BY <3>1, <3>2, LspPlaceFacts DEF LspCallerOk
      <4>2. lspCallers[d].doc.version \in Nat
        BY <4>1, LspHoldFacts
      <4>3. CASE lspCallers[d].gen = lspGen
        BY <1>3, <1>4, <1>5, <4>1, <4>2, <4>3 DEF LspAskerOk
      <4>4. CASE lspCallers[d].gen # lspGen
        <5>1. lspCallers[d].got = Lsp!Nothing /\ lspCallers[d].pc \in {"ask", "send"}
          BY <4>1, <4>4, <3>2 DEF LspAskerOk, LspHoldPcs
        <5> QED  BY <4>4, <5>1 DEF LspAskerOk
      <4> QED  BY <4>3, <4>4
    <3> QED  BY <3>1, <3>2 DEF LspCallerOk
  <2> QED  BY <2>1, <2>2
<1>9. LspCallerInv'
  BY <1>1, <1>8 DEF LspCallerInv, Lsp!session
<1>10. LspTypeInv'
  BY <1>1, <1>5, <1>7 DEF LspInv, LspTypeInv, Lsp!source, Lsp!session
<1>11. LspSessionInv' /\ LspDiagnosticsInv'
  BY <1>1, <1>3, <1>5 DEF LspInv, LspSessionInv, LspDiagnosticsInv, Lsp!session
<1>12. LspNoteInv'
  <2>1. \A i \in DOMAIN lspNotes : lspNotes[i].version \in Nat
    BY LspMessageFacts DEF LspInv, LspTypeInv
  <2>2. \A i \in DOMAIN lspPipe : lspPipe[i].id = 0 => lspPipe[i].version \in Nat
    BY LspMessageFacts DEF LspInv, LspTypeInv
  <2> QED  BY <1>1, <1>4, <1>5, <2>1, <2>2 DEF LspInv, LspNoteInv, Lsp!session
<1> QED  BY <1>9, <1>10, <1>11, <1>12 DEF LspInv

(* A step on requests: the document and what was written of it stay.       *)
LEMMA LspRequestFacts ==
  ASSUME LspInv, UNCHANGED <<Lsp!source, lspGen, lspActivating, lspNextId, lspNotes, lspPipe,
    lspActive, lspAdmitted, lspDocument>>,
         lspTimeouts' \in 0 .. Patience,
         \/ lspState' = lspState
         \/ lspState' = "FAILED" /\ lspState # "CLOSED",
         lspPending' \subseteq lspPending, Lsp!Cardinality(lspPending') <= MaxPending,
         lspDiagnostics' \in {lspDiagnostics, Lsp!NoDiagnostics},
         \/ UNCHANGED <<lspAlive, lspOpened, lspAsked>>
         \/ ~lspAlive' /\ lspOpened' = Lsp!NoDoc /\ lspAsked' = {},
         LspCallerInv', lspCallers' \in [Lsp!Callers -> LspPlaces]
  PROVE  LspInv'
<1>1. LspTypeInv'
  BY DEF LspInv, LspTypeInv, Lsp!source
<1>2. LspSessionInv'
  BY DEF LspInv, LspSessionInv
<1>3. LspNoteInv' /\ LspDiagnosticsInv'
  BY DEF LspInv, LspNoteInv, LspDiagnosticsInv
<1> QED  BY <1>1, <1>2, <1>3 DEF LspInv

LEMMA LspSyncFailsStep == ASSUME LspSensible, LspInv, NEW c \in Lsp!Callers, Lsp!SyncFails(c)
  PROVE LspInv'
<1>1. /\ UNCHANGED <<Lsp!source, lspGen, lspActivating, lspTimeouts, lspNextId, lspNotes, lspReader,
         Lsp!server, lspActive, lspAdmitted, lspDocument>>
      /\ lspDiagnostics' \in {lspDiagnostics, Lsp!NoDiagnostics}
      /\ \/ /\ lspState' = lspState \/ (lspState' = "FAILED" /\ lspState # "CLOSED")
            /\ lspPending' = {} /\ lspCallers' = [Lsp!Answered(lspPending,
               Lsp!Failure) EXCEPT ![c] = Lsp!Resting]
         \/ Lsp!GiveUp(c) /\ UNCHANGED <<lspState, lspPending>>
  BY DEF Lsp!SyncFails, Lsp!FailSession, Lsp!Failed
<1>2. UNCHANGED <<lspGen, lspActivating, lspActive, lspDocument, lspNextId, lspPipe>>
  BY <1>1 DEF Lsp!server
<1>3. LspCallerInv' /\ lspCallers' \in [Lsp!Callers -> LspPlaces]
  BY <1>1, <1>2, LspRestOne, LspFailAll
<1>4. /\ lspPending' \subseteq lspPending /\ Lsp!Cardinality(lspPending') <= MaxPending
      /\ lspTimeouts' \in 0 .. Patience
      /\ lspState' = lspState \/ (lspState' = "FAILED" /\ lspState # "CLOSED")
  BY <1>1, LspPendingFacts DEF LspInv, LspTypeInv
<1>5. UNCHANGED <<Lsp!source, lspGen, lspActivating, lspNextId, lspNotes, lspPipe, lspActive,
      lspAdmitted, lspDocument>>
      /\ UNCHANGED <<lspAlive, lspOpened, lspAsked>>
  BY <1>1 DEF Lsp!server
<1> QED  BY <1>1, <1>3, <1>4, <1>5, LspRequestFacts

LEMMA LspAskStep == ASSUME LspInv, NEW c \in Lsp!Callers, Lsp!Ask(c) PROVE LspInv'
<1>1. /\ UNCHANGED <<Lsp!source, Lsp!session, Lsp!server, Lsp!manager>> /\ lspCallers[c].pc = "ask"
      /\ Lsp!Move(c, "send") \/ Lsp!GiveUp(c)
  BY DEF Lsp!Ask
<1>2. UNCHANGED <<lspGen, lspActivating, lspActive, lspDocument, lspNextId, lspPipe>>
  BY <1>1 DEF Lsp!session, Lsp!server, Lsp!manager
<1>3. CASE Lsp!Move(c, "send")
  <2> DEFINE r == lspCallers[c]
             n == [pc |-> "send", gen |-> r.gen, doc |-> r.doc, id |-> r.id, got |-> r.got]
  <2>1. r \in LspHolding /\ n \in LspPlaces /\ lspCallers' = [lspCallers EXCEPT ![c] = n]
        /\ r # Lsp!Resting
    BY <1>1, <1>3, LspMovedFacts, LspHoldFacts DEF LspHoldPcs
  <2>2. LspCallerOk(c, r, lspGen, lspActivating, lspActive, lspDocument, lspNextId, lspPipe)
        /\ r.pc = "ask"
    BY <1>1 DEF LspInv, LspCallerInv
  <2>3. n.pc = "send" /\ n.gen = r.gen /\ n.doc = r.doc /\ n.id = r.id /\ n.got = r.got
    OBVIOUS
  <2> HIDE DEF r, n
  <2>4. LspCallerOk(c, n, lspGen, lspActivating, lspActive, lspDocument, lspNextId, lspPipe)
    BY <2>1, <2>2, <2>3 DEF LspCallerOk, LspAskerOk, LspHoldPcs
  <2> QED  BY <1>1, <1>2, <2>1, <2>4, LspMoveOne, LspOnlyCallers
<1>4. CASE Lsp!GiveUp(c)
  BY <1>1, <1>2, <1>4, LspRestOne, LspOnlyCallers
<1> QED  BY <1>1, <1>3, <1>4

LEMMA LspAskedFacts ==
  ASSUME NEW r \in LspHolding, NEW n
  PROVE  [r EXCEPT !.pc = "wait", !.id = n] =
           [pc |-> "wait", gen |-> r.gen, doc |-> r.doc, id |-> n, got |-> r.got]
<1> DEFINE a == [pc |-> "wait", gen |-> r.gen, doc |-> r.doc, id |-> r.id, got |-> r.got]
<1>1. [r EXCEPT !.pc = "wait"] = a
  BY DEF LspHolding
<1>2. [a EXCEPT !.id = n] =
           [pc |-> "wait", gen |-> r.gen, doc |-> r.doc, id |-> n, got |-> r.got]
  OBVIOUS
<1>3. [r EXCEPT !.pc = "wait", !.id = n] = [[r EXCEPT !.pc = "wait"] EXCEPT !.id = n]
  OBVIOUS
<1> QED  BY <1>1, <1>2, <1>3

LEMMA LspSendStep == ASSUME LspSensible, LspInv, NEW c \in Lsp!Callers, Lsp!Send(c) PROVE LspInv'
<1> DEFINE r == lspCallers[c]
           n == [pc |-> "wait", gen |-> r.gen, doc |-> r.doc, id |-> lspNextId, got |-> r.got]
<1>1. /\ UNCHANGED <<Lsp!source, lspGen, lspState, lspActivating, lspTimeouts, lspNotes, lspReader,
         lspAlive, lspOpened, lspPipe, Lsp!manager>>
      /\ lspNextId' = lspNextId + 1 /\ lspPending' = lspPending \cup {lspNextId}
      /\ lspAsked' = lspAsked \cup {lspNextId}
      /\ r.pc = "send" /\ r.gen = lspGen /\ lspState # "CLOSED" /\ lspAlive
      /\ Lsp!Cardinality(lspPending) < MaxPending /\ lspNextId <= MaxRequests
  BY DEF Lsp!Send, Lsp!Mine
<1>2. /\ LspTypeInv /\ r \in LspHolding /\ r \in LspPlaces /\ r # Lsp!Resting
      /\ lspNextId \in Nat \ {0} /\ r.got = Lsp!Nothing
      /\ LspCallerOk(c, r, lspGen, lspActivating, lspActive, lspDocument, lspNextId, lspPipe)
  <2>1. LspTypeInv /\ r \in LspHolding /\ LspCallerOk(c, r, lspGen, lspActivating, lspActive,
        lspDocument, lspNextId, lspPipe)
    BY <1>1, LspPlaceFacts DEF LspInv, LspTypeInv, LspCallerInv, LspHoldPcs
  <2>2. r.got = Lsp!Nothing
    BY <1>1, <2>1 DEF LspCallerOk, LspAskerOk, LspHoldPcs
  <2> QED  BY <2>1, <2>2, LspHoldFacts DEF LspTypeInv
<1>3. lspActive /\ lspDocument # Lsp!NoDoc /\ c \in Askers
  <2>1. lspActive
    BY <1>1, <1>2, LspMineIsActive DEF Lsp!Mine
  <2> QED  BY <1>1, <1>2, <2>1 DEF LspCallerOk, LspAskerOk, LspHoldPcs
<1>4. lspCallers' = [lspCallers EXCEPT ![c] = n]
  <2>1. [r EXCEPT !.pc = "wait", !.id = lspNextId] = n
    BY <1>2, LspAskedFacts
  <2>2. lspCallers' = [lspCallers EXCEPT ![c] = [r EXCEPT !.pc = "wait", !.id = lspNextId]]
    BY DEF Lsp!Send
  <2> QED  BY <2>1, <2>2
<1>5. n \in LspPlaces /\ n.pc = "wait" /\ n.gen = lspGen /\ n.doc = r.doc /\ n.id = lspNextId
      /\ n.got = Lsp!Nothing
      /\ n # Lsp!Resting
  <2>1. n \in LspHolding
    BY <1>2 DEF LspHolding, LspHoldPcs
  <2> QED  BY <1>1, <1>2, <2>1, LspHoldFacts
<1> HIDE DEF n
<1>6. \A i \in DOMAIN lspPipe : lspPipe[i].id < lspNextId /\ lspPipe[i].id \in Nat
  BY LspMessageFacts DEF LspInv, LspTypeInv
<1>7. LspCallerOk(c, n, lspGen, lspActivating, lspActive, lspDocument, lspNextId', lspPipe)
  <2>1. \A i \in DOMAIN lspPipe : lspPipe[i].id # n.id
    BY <1>5, <1>6, <1>2
  <2>2. n.id \in 1 .. lspNextId' - 1
    BY <1>1, <1>2, <1>5
  <2>3. lspDocument # Lsp!NoDoc /\ n.doc.version <= lspDocument.version
    BY <1>1, <1>2, <1>3, <1>5 DEF LspCallerOk, LspAskerOk, LspHoldPcs
  <2>4. n.gen <= lspGen /\ lspActivating = "no"
    BY <1>1, <1>2, <1>5, LspMineIsActive DEF Lsp!Mine, LspTypeInv
  <2>5. LspAskerOk(n, lspGen, lspActive, lspDocument, lspNextId', lspPipe)
    BY <1>5, <2>1, <2>2, <2>3 DEF LspAskerOk
  <2> QED  BY <1>3, <1>5, <2>4, <2>5 DEF LspCallerOk
<1>8. ASSUME NEW d \in Lsp!Callers
      PROVE  LspCallerOk(d, lspCallers[d], lspGen, lspActivating, lspActive, lspDocument,
        lspNextId', lspPipe)
  <2>1. LspCallerOk(d, lspCallers[d], lspGen, lspActivating, lspActive, lspDocument, lspNextId,
        lspPipe)
    BY DEF LspInv, LspCallerInv
  <2>2. \A id \in 1 .. lspNextId - 1 : id \in 1 .. lspNextId' - 1
    BY <1>1, <1>2
  <2> QED  BY <2>1, <2>2 DEF LspCallerOk, LspAskerOk
<1>9. lspCallers' \in [Lsp!Callers -> LspPlaces]
      /\ \A d \in Lsp!Callers : lspCallers'[d] = IF d = c THEN n ELSE lspCallers[d]
  BY <1>2, <1>4, <1>5 DEF LspTypeInv
<1>10. LspCallerInv'
  BY <1>1, <1>7, <1>8, <1>9 DEF LspCallerInv, Lsp!manager
<1>11. Lsp!Cardinality(lspPending') <= MaxPending
  <2>1. Lsp!IsFiniteSet(lspPending) /\ lspNextId \notin lspPending
    BY <1>2, LspPendingFacts DEF LspTypeInv
  <2>2. Lsp!Cardinality(lspPending') = Lsp!Cardinality(lspPending) + 1
        /\ Lsp!Cardinality(lspPending) \in Nat
    BY <1>1, <2>1, LspCounts, FS_AddElement, FS_CardinalityType
  <2> QED  BY <1>1, <2>2 DEF LspSensible
<1>12. LspTypeInv'
  <2>1. lspNextId' \in 1 .. MaxRequests + 1 /\ lspPending' \in SUBSET (1 .. lspNextId' - 1)
        /\ lspAsked' \in SUBSET (1 .. lspNextId' - 1)
    BY <1>1, <1>2 DEF LspTypeInv, LspSensible
  <2>2. \A i \in DOMAIN lspPipe : lspPipe[i].id < lspNextId'
    BY <1>1, <1>2, <1>6
  <2> QED  BY <1>1, <1>2, <1>9, <1>11, <2>1, <2>2 DEF LspTypeInv, Lsp!source, Lsp!manager
<1>13. LspSessionInv' /\ LspNoteInv' /\ LspDiagnosticsInv'
  BY <1>1, <1>3 DEF LspInv, LspSessionInv, LspNoteInv, LspDiagnosticsInv, Lsp!manager
<1> QED  BY <1>10, <1>12, <1>13 DEF LspInv

LEMMA LspSendFailsStep == ASSUME LspSensible, LspInv, NEW c \in Lsp!Callers, Lsp!SendFails(c)
  PROVE LspInv'
<1>1. /\ UNCHANGED <<Lsp!source, lspGen, lspActivating, lspTimeouts, lspNextId, lspNotes, lspReader,
         Lsp!server, Lsp!manager>>
      /\ \/ Lsp!GiveUp(c) /\ UNCHANGED <<lspState, lspPending>>
         \/ /\ lspState' = lspState \/ (lspState' = "FAILED" /\ lspState # "CLOSED")
            /\ lspPending' = {} /\ lspCallers' = [Lsp!Answered(lspPending,
               Lsp!Failure) EXCEPT ![c] = Lsp!Resting]
         \/ UNCHANGED <<lspState, lspPending>>
            /\ lspCallers' = [lspCallers EXCEPT ![c] = Lsp!Resting]
  BY DEF Lsp!SendFails, Lsp!FailSession, Lsp!Failed
<1>2. UNCHANGED <<lspGen, lspActivating, lspActive, lspDocument, lspNextId, lspPipe>>
  BY <1>1 DEF Lsp!server, Lsp!manager
<1>3. LspCallerInv' /\ lspCallers' \in [Lsp!Callers -> LspPlaces]
  BY <1>1, <1>2, LspRestOne, LspFailAll DEF Lsp!GiveUp
<1>4. /\ lspPending' \subseteq lspPending /\ Lsp!Cardinality(lspPending') <= MaxPending
      /\ lspTimeouts' \in 0 .. Patience
      /\ lspState' = lspState \/ (lspState' = "FAILED" /\ lspState # "CLOSED")
  BY <1>1, LspPendingFacts DEF LspInv, LspTypeInv
<1>5. UNCHANGED <<Lsp!source, lspGen, lspActivating, lspNextId, lspNotes, lspPipe, lspActive,
      lspAdmitted, lspDocument>>
      /\ UNCHANGED <<lspAlive, lspOpened, lspAsked>> /\ lspDiagnostics' = lspDiagnostics
  BY <1>1 DEF Lsp!server, Lsp!manager
<1> QED  BY <1>1, <1>3, <1>4, <1>5, LspRequestFacts

LEMMA LspTakeStep == ASSUME LspSensible, LspInv, NEW c \in Lsp!Callers, Lsp!Take(c) PROVE LspInv'
<1>1. /\ UNCHANGED <<Lsp!source, lspGen, lspState, lspActivating, lspNextId, lspPending, lspNotes,
         lspReader, Lsp!server, Lsp!manager>>
      /\ lspTimeouts' \in {0, lspTimeouts} /\ lspCallers[c].pc = "wait"
      /\ \/ Lsp!GiveUp(c)
         \/ lspCallers[c].got \notin {Lsp!Nothing, Lsp!Failure} /\ Lsp!Move(c, "capture")
  BY DEF Lsp!Take, Lsp!Waiting
<1>2. UNCHANGED <<lspGen, lspActivating, lspActive, lspDocument, lspNextId, lspPipe>>
  BY <1>1 DEF Lsp!server, Lsp!manager
<1>3. LspCallerInv' /\ lspCallers' \in [Lsp!Callers -> LspPlaces]
  <2>1. CASE lspCallers[c].got \notin {Lsp!Nothing, Lsp!Failure} /\ Lsp!Move(c, "capture")
    <3> DEFINE r == lspCallers[c]
               n == [pc |-> "capture", gen |-> r.gen, doc |-> r.doc, id |-> r.id, got |-> r.got]
    <3>1. n \in LspPlaces /\ lspCallers' = [lspCallers EXCEPT ![c] = n] /\ r # Lsp!Resting
      BY <1>1, <2>1, LspMovedFacts, LspHoldFacts DEF LspHoldPcs
    <3>2. LspCallerOk(c, r, lspGen, lspActivating, lspActive, lspDocument, lspNextId, lspPipe)
          /\ r.pc = "wait" /\ r.got \notin {Lsp!Nothing, Lsp!Failure}
      BY <1>1, <2>1 DEF LspInv, LspCallerInv
    <3>3. n.pc = "capture" /\ n.gen = r.gen /\ n.doc = r.doc /\ n.id = r.id /\ n.got = r.got
      OBVIOUS
    <3> HIDE DEF r, n
    <3>4. LspCallerOk(c, n, lspGen, lspActivating, lspActive, lspDocument, lspNextId, lspPipe)
      BY <3>1, <3>2, <3>3 DEF LspCallerOk, LspAskerOk, LspHoldPcs
    <3> QED  BY <1>2, <3>1, <3>4, LspMoveOne
  <2> QED  BY <1>1, <1>2, <2>1, LspRestOne
<1>4. /\ lspPending' \subseteq lspPending /\ Lsp!Cardinality(lspPending') <= MaxPending
      /\ lspTimeouts' \in 0 .. Patience
  BY <1>1, LspPendingFacts DEF LspInv, LspTypeInv, LspSensible
<1>5. UNCHANGED <<Lsp!source, lspGen, lspActivating, lspNextId, lspNotes, lspPipe, lspActive,
      lspAdmitted, lspDocument>>
      /\ UNCHANGED <<lspAlive, lspOpened, lspAsked>> /\ lspDiagnostics' = lspDiagnostics
      /\ lspState' = lspState
  BY <1>1 DEF Lsp!server, Lsp!manager
<1> QED  BY <1>3, <1>4, <1>5, LspRequestFacts

LEMMA LspTimeOutStep == ASSUME LspSensible, LspInv, NEW c \in Lsp!Callers, Lsp!TimeOut(c)
  PROVE LspInv'
<1>1. /\ UNCHANGED <<Lsp!source, lspPipe, Lsp!manager, lspGen, lspActivating, lspNextId, lspNotes,
         lspReader>>
      /\ lspTimeouts' \in {lspTimeouts, Patience, lspTimeouts + 1}
      /\ (lspTimeouts' = lspTimeouts + 1 => lspTimeouts' = Patience
         \/ ~(lspTimeouts + 1 >= Patience))
      /\ \/ UNCHANGED <<lspAlive, lspOpened, lspAsked>>
         \/ ~lspAlive' /\ lspOpened' = Lsp!NoDoc /\ lspAsked' = {}
      /\ \/ Lsp!GiveUp(c) /\ lspState' = lspState
            /\ lspPending' \in {lspPending, lspPending \ {lspCallers[c].id}}
         \/ /\ lspState' = "FAILED" /\ lspState # "CLOSED" /\ lspPending' = {}
            /\ lspCallers' = [Lsp!Answered(lspPending \ {lspCallers[c].id},
               Lsp!Failure) EXCEPT ![c] = Lsp!Resting]
  <2>1. CASE ~Lsp!Mine(c)
    <3>1. Lsp!GiveUp(c) /\ UNCHANGED <<Lsp!session, lspAlive, lspOpened, lspAsked>>
          /\ UNCHANGED <<Lsp!source, lspPipe, Lsp!manager>>
      BY <2>1 DEF Lsp!TimeOut
    <3>2. lspTimeouts \in Nat
      BY DEF LspInv, LspTypeInv, LspSensible
    <3> QED  BY <3>1, <3>2 DEF Lsp!session
  <2>2. CASE Lsp!Mine(c) /\ lspTimeouts + 1 >= Patience /\ ~Lsp!Failed
    BY <2>2 DEF Lsp!TimeOut, Lsp!Gone, Lsp!Failed
  <2>3. CASE Lsp!Mine(c) /\ ~(lspTimeouts + 1 >= Patience /\ ~Lsp!Failed)
    <3>1. /\ lspTimeouts' = IF lspTimeouts + 1 >= Patience THEN Patience ELSE lspTimeouts + 1
          /\ Lsp!GiveUp(c) /\ lspPending' = lspPending \ {lspCallers[c].id}
          /\ UNCHANGED <<lspState, lspAlive, lspOpened, lspAsked>>
          /\ UNCHANGED <<Lsp!source, lspPipe, Lsp!manager, lspGen, lspActivating, lspNextId,
             lspNotes, lspReader>>
      BY <2>3 DEF Lsp!TimeOut
    <3> QED  BY <3>1
  <2> QED  BY <2>1, <2>2, <2>3
<1>2. UNCHANGED <<lspGen, lspActivating, lspActive, lspDocument, lspNextId, lspPipe>>
  BY <1>1 DEF Lsp!manager
<1>3. LspCallerInv' /\ lspCallers' \in [Lsp!Callers -> LspPlaces]
  BY <1>1, <1>2, LspRestOne, LspFailAll
<1>4. lspTimeouts' \in 0 .. Patience
  <2>1. lspTimeouts \in 0 .. Patience /\ Patience \in Nat
    BY DEF LspInv, LspTypeInv, LspSensible
  <2> QED  BY <1>1, <2>1
<1>5. lspPending' \subseteq lspPending /\ Lsp!Cardinality(lspPending') <= MaxPending
  BY <1>1, LspPendingFacts DEF LspInv
<1>6. UNCHANGED <<Lsp!source, lspGen, lspActivating, lspNextId, lspNotes, lspPipe, lspActive,
      lspAdmitted, lspDocument>>
      /\ lspDiagnostics' = lspDiagnostics
  BY <1>1 DEF Lsp!manager
<1> QED  BY <1>1, <1>3, <1>4, <1>5, <1>6, LspRequestFacts

LEMMA LspCaptureStep == ASSUME LspSensible, LspInv, NEW c \in Lsp!Callers, Lsp!Capture(c)
  PROVE LspInv'
<1> DEFINE current == {i \in DOMAIN lspNotes : Lsp!Promoted(lspNotes[i])}
           newest == CHOOSE i \in current : \A j \in current : j <= i
<1>1. /\ UNCHANGED <<Lsp!source, lspGen, lspState, lspActivating, lspTimeouts, lspNextId,
         lspPending, lspReader, Lsp!server,
                     lspActive, lspAdmitted, lspDocument>>
      /\ lspCallers[c].pc = "capture" /\ Lsp!Move(c, "check")
      /\ \/ UNCHANGED <<lspNotes, lspDiagnostics>>
         \/ /\ lspNotes' = <<>>
            /\ lspDiagnostics' = IF current = {} THEN lspDiagnostics
                  ELSE [version |-> lspDocument.version, text |-> lspDocument.text,
                        about |-> lspNotes[newest].about]
  BY DEF Lsp!Capture
<1>2. lspNotes' = lspNotes \/ lspNotes' = <<>>
  BY <1>1
<1>3. ASSUME current # {}
      PROVE  lspDocument # Lsp!NoDoc /\ lspNotes[newest].about = lspDocument.text
  <2>1. lspNotes \in Seq(LspNotes) /\ Len(lspNotes) \in Nat /\ DOMAIN lspNotes = 1 .. Len(lspNotes)
    BY DEF LspInv, LspTypeInv
  <2>2. current \in SUBSET (1 .. Len(lspNotes))
    BY <2>1
  <2>3. \E i \in current : \A j \in current : j <= i
    BY <1>3, <2>1, <2>2, LspGreatest
  <2>4. newest \in current
    BY <2>3
  <2> HIDE DEF newest
  <2> QED  BY <2>4 DEF Lsp!Promoted, LspInv, LspNoteInv
<1> HIDE DEF current, newest
<1>4. \/ lspDiagnostics' = lspDiagnostics
      \/ /\ lspDocument # Lsp!NoDoc
         /\ lspDiagnostics' = [version |-> lspDocument.version, text |-> lspDocument.text,
            about |-> lspDocument.text]
  BY <1>1, <1>3
<1>5. LspCallerInv' /\ lspCallers' \in [Lsp!Callers -> LspPlaces]
  <2> DEFINE r == lspCallers[c]
             n == [pc |-> "check", gen |-> r.gen, doc |-> r.doc, id |-> r.id, got |-> r.got]
  <2>1. n \in LspPlaces /\ lspCallers' = [lspCallers EXCEPT ![c] = n] /\ r # Lsp!Resting
    BY <1>1, LspMovedFacts, LspHoldFacts DEF LspHoldPcs
  <2>2. LspCallerOk(c, r, lspGen, lspActivating, lspActive, lspDocument, lspNextId, lspPipe)
        /\ r.pc = "capture"
    BY <1>1 DEF LspInv, LspCallerInv
  <2>3. n.pc = "check" /\ n.gen = r.gen /\ n.doc = r.doc /\ n.id = r.id /\ n.got = r.got
    OBVIOUS
  <2> HIDE DEF r, n
  <2>4. LspCallerOk(c, n, lspGen, lspActivating, lspActive, lspDocument, lspNextId, lspPipe)
    BY <2>1, <2>2, <2>3 DEF LspCallerOk, LspAskerOk, LspHoldPcs
  <2>5. UNCHANGED <<lspGen, lspActivating, lspActive, lspDocument, lspNextId, lspPipe>>
    BY <1>1 DEF Lsp!server
  <2> QED  BY <2>1, <2>4, <2>5, LspMoveOne
<1>6. LspTypeInv'
  <2>1. lspNotes' \in Seq(LspNotes) /\ Len(lspNotes') <= MaxNotes
    <3>1. CASE lspNotes' = lspNotes
      BY <3>1 DEF LspInv, LspTypeInv
    <3>2. CASE lspNotes' = <<>>
      BY <3>2, LspEmptyFacts DEF LspSensible
    <3> QED  BY <1>2, <3>1, <3>2
  <2> QED  BY <1>1, <1>5, <2>1 DEF LspInv, LspTypeInv, Lsp!source, Lsp!server
<1>7. LspDiagnosticsInv'
  BY <1>1, <1>4 DEF LspInv, LspDiagnosticsInv
<1>8. LspSessionInv'
  BY <1>1, <1>4 DEF LspInv, LspSessionInv, Lsp!server
<1>9. LspNoteInv'
  BY <1>1, <1>2, LspEmptyFacts DEF LspInv, LspNoteInv, Lsp!server
<1> QED  BY <1>5, <1>6, <1>7, <1>8, <1>9 DEF LspInv

LEMMA LspCheckStep == ASSUME LspInv, NEW c \in Lsp!Callers, Lsp!Check(c) PROVE LspInv'
<1>1. UNCHANGED <<Lsp!source, Lsp!session, Lsp!server, Lsp!manager>> /\ Lsp!GiveUp(c)
  BY DEF Lsp!Check
<1>2. UNCHANGED <<lspGen, lspActivating, lspActive, lspDocument, lspNextId, lspPipe>>
  BY <1>1 DEF Lsp!session, Lsp!server, Lsp!manager
<1> QED  BY <1>1, <1>2, LspRestOne, LspOnlyCallers

-----------------------------------------------------------------------------
LEMMA LspInductive == ASSUME LspSensible PROVE LspInv /\ [Lsp!Next]_Lsp!vars => LspInv'
<1> SUFFICES ASSUME LspInv, [Lsp!Next]_Lsp!vars
             PROVE  LspInv'
  OBVIOUS
<1>1. CASE Lsp!Lifecycle
  BY <1>1, LspActivateStep, LspInitializeStep, LspBecomeReadyStep, LspAdmitStep,
    LspActivateFailsStep, LspCloseStep,
     LspClosedStep DEF Lsp!Lifecycle
<1>2. CASE Lsp!Outside
  BY <1>2, LspAnswerStep, LspPublishStep, LspDieStep, LspEditStep DEF Lsp!Outside
<1>3. CASE Lsp!ReadMessage \/ Lsp!StopReading
  BY <1>3, LspReadMessageStep, LspStopReadingStep
<1>4. ASSUME NEW c \in Lsp!Callers, Lsp!Begin(c) \/ Lsp!Query(c)
      PROVE  LspInv'
  BY <1>4, LspBeginStep, LspReadFileStep, LspSyncKnownStep, LspSyncNewStep, LspSyncFailsStep,
    LspAskStep, LspSendStep,
     LspSendFailsStep, LspTakeStep, LspTimeOutStep, LspCaptureStep, LspCheckStep DEF Lsp!Query
<1>5. CASE UNCHANGED Lsp!vars
  <2>1. UNCHANGED <<Lsp!source, Lsp!session, Lsp!server, Lsp!manager>> /\ lspCallers' = lspCallers
    BY <1>5 DEF Lsp!vars
  <2>2. UNCHANGED <<lspGen, lspActivating, lspActive, lspDocument, lspNextId, lspPipe>>
    BY <2>1 DEF Lsp!session, Lsp!server, Lsp!manager
  <2> QED  BY <2>1, <2>2, LspOnlyCallers DEF LspInv, LspTypeInv, LspCallerInv
<1> QED  BY <1>1, <1>2, <1>3, <1>4, <1>5 DEF Lsp!Next

LEMMA LspInvariant == ASSUME LspSensible PROVE Lsp!Spec => []LspInv
<1>1. Lsp!Init => LspInv
  BY LspInitial
<1>2. LspInv /\ [Lsp!Next]_Lsp!vars => LspInv'
  BY LspInductive
<1> QED  BY <1>1, <1>2, PTL DEF Lsp!Spec

(* The session, its requests and its callers are what the code keeps.      *)
THEOREM LspTypeCorrect == ASSUME LspSensible PROVE Lsp!Spec => []Lsp!TypeOK
<1>1. ASSUME LspInv PROVE Lsp!TypeOK
  <2>1. \A c \in Lsp!Callers : lspCallers[c].pc \in {"idle", "read", "sync"} \cup LspHoldPcs
    BY <1>1, LspPlaceFacts DEF LspInv, LspTypeInv
  <2> QED  BY <1>1, <2>1 DEF LspInv, LspTypeInv, LspSessionInv, Lsp!TypeOK, LspHoldPcs
<1> QED  BY <1>1, LspInvariant, PTL

(* What a query returns is the answer to its own request and about the     *)
(* text the file has then; diagnostics served as the document's are too.   *)
THEOREM LspAnswersAreCurrent == ASSUME LspSensible PROVE Lsp!Spec => Lsp!AnswerIsCurrent
<1>1. ASSUME LspInv, [Lsp!Next]_Lsp!vars PROVE [Lsp!AnswerIsCurrentStep]_Lsp!vars
  <2>1. ASSUME NEW c \in Askers, Lsp!Returns(c)
        PROVE  lspCallers[c].got.id = lspCallers[c].id /\ lspCallers[c].got.about = lspDisk
    <3>1. lspCallers[c].pc = "check" /\ lspDocument = lspCallers[c].doc
          /\ lspDisk = lspCallers[c].doc.text
      BY <2>1 DEF Lsp!Returns, Lsp!Check, Lsp!Fresh
    <3>2. LspAskerOk(lspCallers[c], lspGen, lspActive, lspDocument, lspNextId, lspPipe)
      BY <1>1, <3>1 DEF LspInv, LspCallerInv, LspCallerOk, LspHoldPcs, Lsp!Callers
    <3> QED  BY <3>1, <3>2 DEF LspAskerOk
  <2>2. ASSUME NEW c \in Viewers, Lsp!Returns(c), lspDiagnostics # Lsp!NoDiagnostics
        PROVE  lspDiagnostics.about = lspDisk
    BY <1>1, <2>2 DEF Lsp!Returns, Lsp!Fresh, LspInv, LspDiagnosticsInv
  <2> QED  BY <2>1, <2>2 DEF Lsp!AnswerIsCurrentStep
<1> QED  BY <1>1, LspInvariant, PTL DEF Lsp!Spec, Lsp!AnswerIsCurrent

(* The variables of the instance, by either name. *)
LEMMA LspVarsAre == LspVars' = LspVars <=> Lsp!vars' = Lsp!vars
BY DEF LspVars, Lsp!vars, Lsp!source, Lsp!session, Lsp!server, Lsp!manager

-----------------------------------------------------------------------------
(* What holds of ScipRuntime for every set of documents and contents and   *)
(* any number of edits and indexes.                                        *)
(* What is said of some of the documents.                                  *)
ScipAbouts == UNION {[S -> Texts \cup {NoText}] : S \in SUBSET Paths}

ScipSensible == Texts # {} /\ MaxChanges \in Nat /\ MaxIndexes \in Nat

ScipIndexers ==
  {Scip!Waiting} \cup [at : {"running"}, todo : SUBSET Paths,
    about : ScipAbouts] \cup [at : {"exited"}]
ScipArtifacts == {Scip!NoIndex} \cup [valid : {TRUE}, about : ScipAbouts]
ScipCandidates ==
  {Scip!NoCandidate} \cup [todo : SUBSET Paths, about : ScipAbouts, digests : ScipAbouts,
    revision : Nat]
ScipRuntimes == {Scip!NoRuntime} \cup [stale : BOOLEAN, about : ScipAbouts, digests : ScipAbouts,
  revision : Nat]
ScipQueries == {Scip!Waiting} \cup [at : {"verify"}, op : Scip!Ops, todo : SUBSET Paths]

ScipTypeInv ==
  /\ scipSources \in [Paths -> Texts \cup {NoText}]
  /\ scipChanges \in 0 .. MaxChanges /\ scipRevision \in 1 .. MaxChanges + 1
  /\ scipIndexes \in 0 .. MaxIndexes
  /\ scipIndexer \in ScipIndexers /\ scipArtifact \in ScipArtifacts
  /\ scipCandidate \in ScipCandidates
  /\ scipRuntime \in ScipRuntimes /\ scipQuery \in ScipQueries
  /\ scipProbed \in BOOLEAN /\ scipAdmitted \in BOOLEAN
  /\ scipTouched \subseteq Paths

LEMMA ScipTypeInit == ScipSensible /\ Scip!Init => ScipTypeInv
<1> SUFFICES ASSUME ScipSensible, Scip!Init PROVE ScipTypeInv
  OBVIOUS
<1>1. (CHOOSE c \in Texts : TRUE) \in Texts
  BY DEF ScipSensible
<1>2. scipSources \in [Paths -> Texts \cup {NoText}]
  BY <1>1 DEF Scip!Init
<1>3. /\ scipIndexer \in ScipIndexers /\ scipArtifact \in ScipArtifacts
      /\ scipCandidate \in ScipCandidates
      /\ scipRuntime \in ScipRuntimes /\ scipQuery \in ScipQueries
  BY DEF Scip!Init, ScipIndexers, ScipArtifacts, ScipCandidates, ScipRuntimes, ScipQueries
<1>4. scipProbed \in BOOLEAN /\ scipAdmitted \in BOOLEAN
  BY Zenon DEF Scip!Init
<1>5. /\ scipChanges \in 0 .. MaxChanges /\ scipRevision \in 1 .. MaxChanges + 1
      /\ scipIndexes \in 0 .. MaxIndexes /\ scipTouched \subseteq Paths
  BY DEF ScipSensible, Scip!Init
<1> QED
  BY <1>2, <1>3, <1>4, <1>5, Zenon DEF ScipTypeInv

LEMMA ScipAboutFacts ==
  ASSUME NEW f \in ScipAbouts
  PROVE  /\ DOMAIN f \subseteq Paths /\ f = [q \in DOMAIN f |-> f[q]]
         /\ \A p \in DOMAIN f, c \in Texts \cup {NoText} : [f EXCEPT ![p] = c] \in ScipAbouts
<1>1. PICK S \in SUBSET Paths : f \in [S -> Texts \cup {NoText}]
  BY DEF ScipAbouts
<1>2. ASSUME NEW p \in DOMAIN f, NEW c \in Texts \cup {NoText}
      PROVE  [f EXCEPT ![p] = c] \in ScipAbouts
  <2>1. [f EXCEPT ![p] = c] \in [S -> Texts \cup {NoText}]
    BY <1>1
  <2> QED
    BY <2>1 DEF ScipAbouts
<1> QED
  BY <1>1, <1>2

LEMMA ScipExtended ==
  ASSUME NEW f \in ScipAbouts, NEW p \in Paths, NEW c \in Texts \cup {NoText}
  PROVE  [q \in DOMAIN f \cup {p} |-> IF q = p THEN c ELSE f[q]] \in ScipAbouts
<1>1. PICK S \in SUBSET Paths : f \in [S -> Texts \cup {NoText}]
  BY DEF ScipAbouts
<1>2. [q \in DOMAIN f \cup {p} |-> IF q = p THEN c ELSE f[q]] \in [S \cup {p} -> Texts \cup {NoText}]
  BY <1>1
<1>3. S \cup {p} \in SUBSET Paths
  OBVIOUS
<1> QED
  BY <1>2, <1>3, Zenon DEF ScipAbouts

(* Marking a runtime stale leaves what it is about.                        *)
LEMMA ScipMarkStaleFacts ==
  ASSUME ScipTypeInv, Scip!MarkStale
  PROVE  /\ scipRuntime' \in ScipRuntimes /\ scipRuntime'.stale = TRUE /\ scipAdmitted' = FALSE /\ scipQuery' = Scip!Waiting
<1>1. CASE scipRuntime = Scip!NoRuntime
  BY <1>1 DEF Scip!MarkStale, ScipRuntimes, Scip!NoRuntime
<1>2. CASE scipRuntime \in [stale : BOOLEAN, about : ScipAbouts, digests : ScipAbouts,
      revision : Nat]
  BY <1>2 DEF Scip!MarkStale, ScipRuntimes
<1> QED
  BY <1>1, <1>2 DEF ScipTypeInv, ScipRuntimes, Scip!MarkStale

LEMMA ScipTypeStep == ScipSensible /\ ScipTypeInv /\ [Scip!Next]_Scip!vars => ScipTypeInv'
<1> SUFFICES ASSUME ScipSensible, ScipTypeInv, [Scip!Next]_Scip!vars PROVE ScipTypeInv'
  OBVIOUS
<1>1. CASE UNCHANGED Scip!vars
  BY <1>1 DEF Scip!vars, Scip!gate, ScipTypeInv
<1>2. CASE Scip!Generate
  <2>1. <<>> \in ScipAbouts
    <3>1. <<>> \in [{} -> Texts \cup {NoText}]
      OBVIOUS
    <3> QED
      BY <3>1 DEF ScipAbouts
  <2>2. scipIndexer' \in ScipIndexers
    BY <1>2, <2>1 DEF Scip!Generate, ScipIndexers
  <2> QED
    BY <1>2, <2>2 DEF Scip!Generate, Scip!gate, ScipTypeInv, ScipSensible
<1>3. ASSUME NEW p \in Paths, Scip!IndexFile(p) PROVE ScipTypeInv'
  <2>1. scipIndexer \in [at : {"running"}, todo : SUBSET Paths, about : ScipAbouts]
    BY <1>3 DEF Scip!IndexFile, ScipTypeInv, ScipIndexers, Scip!Waiting
  <2>2. scipSources[p] \in Texts \cup {NoText}
    BY DEF ScipTypeInv
  <2>3. [q \in DOMAIN scipIndexer.about \cup {p} |-> IF q = p THEN scipSources[p] ELSE scipIndexer.about[q]] \in ScipAbouts
    <3>1. scipIndexer.about \in ScipAbouts
      BY <2>1
    <3> QED
      BY <2>2, <3>1, ScipExtended, Zenon
  <2>4. scipIndexer' \in ScipIndexers
    BY <1>3, <2>1, <2>3 DEF Scip!IndexFile, ScipIndexers
  <2> QED
    BY <1>3, <2>4 DEF Scip!IndexFile, Scip!gate, ScipTypeInv
<1>4. CASE Scip!Write
  <2>1. scipIndexer.about \in ScipAbouts
    BY <1>4 DEF Scip!Write, ScipTypeInv, ScipIndexers, Scip!Waiting
  <2>2. [valid |-> TRUE, about |-> scipIndexer.about] \in ScipArtifacts
    BY <2>1 DEF ScipArtifacts
  <2>3. Scip!NoIndex \in ScipArtifacts /\ scipArtifact \in ScipArtifacts
    BY DEF ScipTypeInv, ScipArtifacts
  <2>4. scipArtifact' \in ScipArtifacts
    BY <1>4, <2>2, <2>3 DEF Scip!Write
  <2> QED
    BY <1>4, <2>4 DEF Scip!Write, Scip!gate, ScipTypeInv, ScipIndexers
<1>5. CASE Scip!GenerateFails
  BY <1>5 DEF Scip!GenerateFails, Scip!gate, ScipTypeInv, ScipIndexers
<1>6. CASE Scip!Activate
  <2>1. scipArtifact.about \in ScipAbouts
    <3>1. scipArtifact.valid /\ scipArtifact \in ScipArtifacts
      BY <1>6 DEF Scip!Activate, ScipTypeInv
    <3>2. ~Scip!NoIndex.valid
      BY DEF Scip!NoIndex
    <3>3. scipArtifact \in [valid : {TRUE}, about : ScipAbouts]
      BY <3>1, <3>2 DEF ScipArtifacts
    <3> QED
      BY <3>3
  <2>2. DOMAIN scipArtifact.about \subseteq Paths /\ scipRevision \in Nat
    BY <2>1, ScipAboutFacts DEF ScipTypeInv, ScipSensible
  <2>3. scipCandidate' \in ScipCandidates
    BY <1>6, <2>1, <2>2 DEF Scip!Activate, ScipCandidates
  <2> QED
    BY <1>6, <2>3 DEF Scip!Activate, Scip!gate, ScipTypeInv, ScipIndexers
<1>7. ASSUME NEW p \in scipCandidate.todo, Scip!BindSource(p) PROVE ScipTypeInv'
  <2>1. scipCandidate \in [todo : SUBSET Paths, about : ScipAbouts, digests : ScipAbouts,
        revision : Nat]
    BY <1>7 DEF ScipTypeInv, ScipCandidates, Scip!NoCandidate
  <2>2. scipSources[p] \in Texts \cup {NoText}
    BY <2>1 DEF ScipTypeInv
  <2>3. [scipCandidate.digests EXCEPT ![p] = scipSources[p]] \in ScipAbouts
    <3>1. CASE p \in DOMAIN scipCandidate.digests
      BY <2>1, <2>2, <3>1, ScipAboutFacts
    <3>2. CASE p \notin DOMAIN scipCandidate.digests
      <4>1. [scipCandidate.digests EXCEPT ![p] = scipSources[p]] = scipCandidate.digests
        BY <2>1, <3>2, ScipAboutFacts
      <4> QED
        BY <2>1, <4>1
    <3> QED
      BY <3>1, <3>2
  <2>4. scipCandidate' \in ScipCandidates
    BY <1>7, <2>1, <2>3 DEF Scip!BindSource, ScipCandidates
  <2> QED
    BY <1>7, <2>4 DEF Scip!BindSource, Scip!gate, ScipTypeInv
<1>8. CASE Scip!Install
  <2>1. scipCandidate \in [todo : SUBSET Paths, about : ScipAbouts, digests : ScipAbouts,
        revision : Nat]
    BY <1>8 DEF Scip!Install, ScipTypeInv, ScipCandidates
  <2>2. scipRuntime' \in ScipRuntimes
    BY <1>8, <2>1 DEF Scip!Install, ScipRuntimes
  <2> QED
    BY <1>8, <2>2 DEF Scip!Install, ScipTypeInv, ScipCandidates
<1>9. CASE Scip!CloseProvider
  BY <1>9 DEF Scip!CloseProvider, ScipTypeInv, ScipRuntimes
<1>10. ASSUME NEW op \in Scip!Ops, Scip!Request(op) PROVE ScipTypeInv'
  <2>1. CASE scipRuntime.stale \/ scipRevision # scipRuntime.revision
    BY <1>10, <2>1, ScipMarkStaleFacts DEF Scip!Request, ScipTypeInv, ScipQueries
  <2>2. CASE ~(scipRuntime.stale \/ scipRevision # scipRuntime.revision)
    <3>1. scipRuntime.digests \in ScipAbouts
      BY <2>2 DEF ScipTypeInv, ScipRuntimes, Scip!NoRuntime
    <3>2. scipQuery' \in ScipQueries
      BY <1>10, <2>2, <3>1, ScipAboutFacts DEF Scip!Request, ScipQueries
    <3> QED
      BY <1>10, <2>2, <3>2 DEF Scip!Request, ScipTypeInv
  <2> QED
    BY <2>1, <2>2
<1>11. ASSUME NEW p \in Paths, Scip!Verify(p) PROVE ScipTypeInv'
  <2>1. scipQuery \in [at : {"verify"}, op : Scip!Ops, todo : SUBSET Paths]
    BY <1>11 DEF Scip!Verify, ScipTypeInv, ScipQueries, Scip!Waiting
  <2>2. CASE scipSources[p] = scipRuntime.digests[p]
    <3>1. scipQuery' \in ScipQueries
      BY <1>11, <2>1, <2>2 DEF Scip!Verify, ScipQueries
    <3> QED
      BY <1>11, <2>2, <3>1 DEF Scip!Verify, ScipTypeInv
  <2>3. CASE scipSources[p] # scipRuntime.digests[p]
    BY <1>11, <2>3, ScipMarkStaleFacts DEF Scip!Verify, ScipTypeInv, ScipQueries
  <2> QED
    BY <2>2, <2>3
<1>12. CASE Scip!Respond
  <2>1. CASE scipQuery.op \in Paths \ DOMAIN scipRuntime.digests
    BY <1>12, <2>1, ScipMarkStaleFacts DEF Scip!Respond, ScipTypeInv, ScipQueries
  <2>2. CASE scipQuery.op \notin Paths \ DOMAIN scipRuntime.digests
    BY <1>12, <2>2 DEF Scip!Respond, ScipTypeInv, ScipQueries
  <2> QED
    BY <2>1, <2>2
<1>13. ASSUME NEW p \in Paths, NEW c \in Texts \cup {NoText}, Scip!Edit(p, c) PROVE ScipTypeInv'
  BY <1>13 DEF Scip!Edit, Scip!gate, ScipTypeInv, ScipSensible
<1>14. CASE Scip!Refresh
  BY <1>14 DEF Scip!Refresh, Scip!gate, ScipTypeInv, ScipSensible
<1> QED
  BY <1>1, <1>2, <1>3, <1>4, <1>5, <1>6, <1>7, <1>8, <1>9, <1>10, <1>11, <1>12, <1>13, <1>14
    DEF Scip!Next

(* A provider is admitted only with a runtime that is not stale.           *)
ScipAdmittedInv == scipAdmitted => scipProbed /\ ~scipRuntime.stale

LEMMA ScipAdmittedStep == ScipTypeInv /\ ScipAdmittedInv /\ [Scip!Next]_Scip!vars
  => ScipAdmittedInv'
<1> SUFFICES ASSUME ScipTypeInv, ScipAdmittedInv, [Scip!Next]_Scip!vars PROVE ScipAdmittedInv'
  OBVIOUS
<1>1. CASE UNCHANGED <<Scip!gate, scipRuntime>>
  BY <1>1 DEF Scip!gate, ScipAdmittedInv
<1>2. CASE scipAdmitted' = FALSE
  BY <1>2 DEF ScipAdmittedInv
<1>3. CASE Scip!Install
  BY <1>3 DEF Scip!Install, ScipAdmittedInv
<1>4. CASE Scip!MarkStale
  BY <1>2, <1>4 DEF Scip!MarkStale
<1>5. CASE Scip!CloseProvider
  BY <1>2, <1>5 DEF Scip!CloseProvider
<1> QED
  BY <1>1, <1>3, <1>4, <1>5
  DEF Scip!Next, Scip!vars, Scip!gate, Scip!Generate, Scip!Write, Scip!GenerateFails, Scip!Activate,
    Scip!Respond, Scip!Refresh, Scip!IndexFile,
      Scip!Verify, Scip!BindSource, Scip!Request, Scip!Edit

(* The runtime, the gate and the requests keep their types.                *)
THEOREM ScipTypeCorrect == ASSUME ScipSensible PROVE Scip!Spec => []Scip!TypeOK
<1>1. Scip!Init => ScipAdmittedInv
  BY DEF Scip!Init, ScipAdmittedInv
<1>2. ScipTypeInv /\ ScipAdmittedInv => Scip!TypeOK
  <2>1. ScipTypeInv => scipIndexer.at \in {"none", "running", "exited"}
        /\ scipQuery.at \in {"none", "verify"}
    BY DEF ScipTypeInv, ScipIndexers, ScipQueries, Scip!Waiting
  <2>2. ScipTypeInv => scipCandidate.todo \subseteq Paths
    BY DEF ScipTypeInv, ScipCandidates, Scip!NoCandidate
  <2> QED
    BY <2>1, <2>2 DEF ScipTypeInv, ScipAdmittedInv, Scip!TypeOK
<1> QED
  BY <1>1, <1>2, ScipTypeInit, ScipTypeStep, ScipAdmittedStep, PTL DEF Scip!Spec

-----------------------------------------------------------------------------
(* Answers are about the sources                                           *)

(* One request at a time; nothing is bound but what the index was made     *)
(* from; and what a request has verified is as it was bound, unless it was *)
(* edited since the request began.                                         *)
ScipBoundInv ==
  /\ scipQuery # Scip!Waiting => scipIndexer = Scip!Waiting /\ scipCandidate = Scip!NoCandidate
  /\ scipIndexer # Scip!Waiting => scipCandidate = Scip!NoCandidate
  /\ scipCandidate # Scip!NoCandidate => scipCandidate.digests = scipCandidate.about
  /\ scipRuntime # Scip!NoRuntime => scipRuntime.digests = scipRuntime.about
  /\ scipQuery.at = "verify" =>
       /\ ~scipRuntime.stale
       /\ \A p \in DOMAIN scipRuntime.digests \ scipQuery.todo :
            p \in scipTouched \/ scipSources[p] = scipRuntime.digests[p]

LEMMA ScipBoundInit == Scip!Init => ScipBoundInv
BY DEF Scip!Init, ScipBoundInv, Scip!Waiting

LEMMA ScipBoundStep ==
  ASSUME "drifted" \notin ScipHazards
  PROVE  ScipTypeInv /\ ScipBoundInv /\ [Scip!Next]_Scip!vars => ScipBoundInv'
<1> SUFFICES ASSUME ScipTypeInv, ScipBoundInv, [Scip!Next]_Scip!vars PROVE ScipBoundInv'
  OBVIOUS
<1>0. scipQuery = Scip!Waiting \/ scipQuery.at = "verify"
  BY DEF ScipTypeInv, ScipQueries
<1>1. CASE UNCHANGED Scip!vars
  BY <1>1 DEF Scip!vars, Scip!gate, ScipBoundInv
<1>2. CASE Scip!Generate
  BY <1>2 DEF Scip!Generate, Scip!Ready, ScipBoundInv, Scip!Waiting
<1>3. ASSUME NEW p \in Paths, Scip!IndexFile(p) PROVE ScipBoundInv'
  <2>1. scipIndexer # Scip!Waiting /\ scipIndexer.at = "running"
    BY <1>3 DEF Scip!IndexFile, Scip!Waiting
  <2> QED
    BY <1>3, <2>1 DEF Scip!IndexFile, ScipBoundInv, Scip!Waiting
<1>4. CASE Scip!Write
  <2>1. scipIndexer # Scip!Waiting
    BY <1>4 DEF Scip!Write, Scip!Waiting
  <2> QED
    BY <1>4, <2>1 DEF Scip!Write, ScipBoundInv, Scip!Waiting
<1>5. CASE Scip!GenerateFails
  BY <1>5 DEF Scip!GenerateFails, ScipBoundInv
<1>6. CASE Scip!Activate
  <2>1. scipQuery = Scip!Waiting
    BY <1>6 DEF Scip!Activate, Scip!Ready, ScipBoundInv, Scip!Waiting
  <2>2. scipCandidate'.digests = scipCandidate'.about /\ scipIndexer' = Scip!Waiting
        /\ scipQuery' = Scip!Waiting /\ UNCHANGED scipRuntime
    BY <1>6, <2>1 DEF Scip!Activate
  <2> QED
    BY <2>2 DEF ScipBoundInv, Scip!Waiting
<1>7. ASSUME NEW p \in scipCandidate.todo, Scip!BindSource(p) PROVE ScipBoundInv'
  <2>1. scipCandidate \in [todo : SUBSET Paths, about : ScipAbouts, digests : ScipAbouts,
        revision : Nat]
    BY <1>7 DEF ScipTypeInv, ScipCandidates, Scip!NoCandidate
  <2>2. scipCandidate # Scip!NoCandidate /\ scipQuery = Scip!Waiting
        /\ scipCandidate.digests = scipCandidate.about
    BY <1>7 DEF ScipBoundInv, Scip!NoCandidate
  <2>3. scipSources[p] = scipCandidate.about[p]
    BY <1>7 DEF Scip!BindSource
  <2>4. [scipCandidate.digests EXCEPT ![p] = scipSources[p]] = scipCandidate.about
    BY <2>1, <2>2, <2>3, ScipAboutFacts
  <2>5. scipCandidate'.digests = scipCandidate'.about
    BY <1>7, <2>1, <2>4 DEF Scip!BindSource
  <2>6. scipIndexer = Scip!Waiting
    BY <2>2 DEF ScipBoundInv
  <2> QED
    BY <1>7, <2>2, <2>5, <2>6 DEF Scip!BindSource, ScipBoundInv, Scip!Waiting
<1>8. CASE Scip!Install
  <2>1. scipQuery = Scip!Waiting /\ scipCandidate.digests = scipCandidate.about
    BY <1>8 DEF Scip!Install, ScipBoundInv
  <2> QED
    BY <1>8, <2>1 DEF Scip!Install, ScipBoundInv, Scip!Waiting
<1>9. CASE Scip!CloseProvider
  BY <1>9 DEF Scip!CloseProvider, Scip!Ready, ScipBoundInv, Scip!Waiting
<1>10. ASSUME Scip!MarkStale, UNCHANGED <<scipIndexer, scipCandidate>> PROVE ScipBoundInv'
  <2>1. scipRuntime # Scip!NoRuntime => scipRuntime \in [stale : BOOLEAN, about : ScipAbouts,
        digests : ScipAbouts, revision : Nat]
    BY DEF ScipTypeInv, ScipRuntimes
  <2>2. scipRuntime' # Scip!NoRuntime => scipRuntime'.digests = scipRuntime'.about
    <3>1. CASE scipRuntime = Scip!NoRuntime
      BY <1>10, <3>1 DEF Scip!MarkStale, Scip!NoRuntime
    <3>2. CASE scipRuntime # Scip!NoRuntime
      BY <1>10, <2>1, <3>2 DEF Scip!MarkStale, ScipBoundInv
    <3> QED
      BY <3>1, <3>2
  <2> QED
    BY <1>10, <2>2 DEF Scip!MarkStale, ScipBoundInv, Scip!Waiting
<1>11. ASSUME NEW op \in Scip!Ops, Scip!Request(op) PROVE ScipBoundInv'
  <2>1. CASE scipRuntime.stale \/ scipRevision # scipRuntime.revision
    BY <1>10, <1>11, <2>1 DEF Scip!Request
  <2>2. CASE ~(scipRuntime.stale \/ scipRevision # scipRuntime.revision)
    <3>1. /\ scipQuery'.at = "verify" /\ scipQuery'.todo = DOMAIN scipRuntime.digests
          /\ ~scipRuntime.stale
          /\ scipIndexer = Scip!Waiting /\ scipCandidate = Scip!NoCandidate
          /\ UNCHANGED <<scipRuntime, scipIndexer, scipCandidate, scipSources>>
      BY <1>11, <2>2 DEF Scip!Request, Scip!Ready
    <3> QED
      BY <3>1 DEF ScipBoundInv
  <2> QED
    BY <2>1, <2>2
<1>12. ASSUME NEW p \in Paths, Scip!Verify(p) PROVE ScipBoundInv'
  <2>1. scipQuery \in [at : {"verify"}, op : Scip!Ops, todo : SUBSET Paths]
    BY <1>12 DEF Scip!Verify, ScipTypeInv, ScipQueries, Scip!Waiting
  <2>2. CASE scipSources[p] = scipRuntime.digests[p]
    <3>1. /\ scipQuery'.at = "verify" /\ scipQuery'.todo = scipQuery.todo \ {p}
          /\ UNCHANGED <<scipRuntime, scipIndexer, scipCandidate, scipSources, scipTouched>>
      BY <1>12, <2>1, <2>2 DEF Scip!Verify
    <3>2. scipQuery # Scip!Waiting
      BY <2>1 DEF Scip!Waiting
    <3> QED
      BY <1>12, <2>2, <3>1, <3>2 DEF ScipBoundInv, Scip!Verify
  <2>3. CASE scipSources[p] # scipRuntime.digests[p]
    BY <1>10, <1>12, <2>3 DEF Scip!Verify
  <2> QED
    BY <2>2, <2>3
<1>13. CASE Scip!Respond
  <2>1. CASE scipQuery.op \in Paths \ DOMAIN scipRuntime.digests
    BY <1>10, <1>13, <2>1 DEF Scip!Respond
  <2>2. CASE scipQuery.op \notin Paths \ DOMAIN scipRuntime.digests
    BY <1>13, <2>2 DEF Scip!Respond, ScipBoundInv, Scip!Waiting
  <2> QED
    BY <2>1, <2>2
<1>14. ASSUME NEW p \in Paths, NEW c \in Texts \cup {NoText}, Scip!Edit(p, c) PROVE ScipBoundInv'
  <2>1. /\ UNCHANGED <<scipIndexer, scipCandidate, scipRuntime, scipQuery>>
        /\ scipQuery.at = "verify" => scipTouched' = scipTouched \cup {p}
        /\ \A q \in Paths \ {p} : scipSources'[q] = scipSources[q]
    BY <1>14 DEF Scip!Edit, ScipTypeInv, Scip!Waiting
  <2>2. scipQuery.at = "verify" => DOMAIN scipRuntime.digests \subseteq Paths
    <3>1. scipQuery.at = "verify" => scipRuntime.digests \in ScipAbouts
      BY DEF ScipBoundInv, ScipTypeInv, ScipRuntimes, Scip!NoRuntime
    <3> QED
      BY <3>1, ScipAboutFacts
  <2> QED
    BY <2>1, <2>2 DEF ScipBoundInv
<1>15. CASE Scip!Refresh
  BY <1>15 DEF Scip!Refresh, ScipBoundInv
<1> QED
  BY <1>1, <1>2, <1>3, <1>4, <1>5, <1>6, <1>7, <1>8, <1>9, <1>11, <1>12, <1>13, <1>14, <1>15
    DEF Scip!Next

(* If no index is activated over sources it was not made from, an answer   *)
(* agrees with the sources in every document that nobody edited while it   *)
(* was being made, whatever was edited, indexed, activated, refreshed or   *)
(* closed before.                                                          *)
THEOREM ScipAnswersAgreeWithSources ==
  ASSUME ScipSensible, "drifted" \notin ScipHazards
  PROVE  Scip!Spec => Scip!AnswersAreAboutSources
<1>1. ASSUME ScipTypeInv, ScipBoundInv, Scip!Answers
      PROVE  \A p \in DOMAIN scipRuntime.about \ scipTouched : scipRuntime.about[p] = scipSources[p]
  <2>1. scipQuery.at = "verify" /\ scipQuery.todo = {}
    BY <1>1 DEF Scip!Answers, Scip!Respond
  <2>2. scipRuntime # Scip!NoRuntime
    BY <1>1, <2>1 DEF ScipBoundInv, Scip!NoRuntime
  <2> QED
    BY <1>1, <2>1, <2>2 DEF ScipBoundInv
<1>2. ScipTypeInv /\ ScipBoundInv => [Scip!AnswersAreAboutSourcesStep]_Scip!vars
  BY <1>1 DEF Scip!AnswersAreAboutSourcesStep
<1> QED
  BY <1>2, ScipTypeInit, ScipTypeStep, ScipBoundInit, ScipBoundStep, PTL
    DEF Scip!Spec, Scip!AnswersAreAboutSources

(* The variables of the instance, by either name. *)
LEMMA ScipVarsAre == ScipVars' = ScipVars <=> Scip!vars' = Scip!vars
BY DEF ScipVars, Scip!vars, Scip!gate

-----------------------------------------------------------------------------
(***************************************************************************)
(* What a receipt says of a run's containment is what confined it, and a   *)
(* failure on record is resolved only by a run that covered it and passed, *)
(* for every set of tests and whatever changes between two steps.          *)
(*                                                                         *)
(* Why it holds: what is claimed before the launch is claimed of the       *)
(* profile the wrapper then enforces, or nothing starts; and a failure is  *)
(* filed for tests of its own runner, under a file only when its tests are *)
(* that file.                                                              *)
(***************************************************************************)
(* The instance counts as FiniteSets does. *)
LEMMA TestsCounts ==
  \A S : (Tests!IsFiniteSet(S) <=> IsFiniteSet(S)) /\ Tests!Cardinality(S) = Cardinality(S)
BY DEF Tests!IsFiniteSet, IsFiniteSet, Tests!Cardinality, Cardinality


(* What the theorems assume of the constants. *)
TestsSensible ==
  Tests!IsFiniteSet(PyTests) /\ Tests!NoPath \notin PyTests /\ Providers \subseteq Tests!Profiles

TestsModes == {"trusted", "untrusted"}
TestsAllTests == PyTests \cup JsTests
TestsFeatures == Tests!Full \cup {"secrets", "limits"}

TestsAttesting ==
  [pc : {"attest"}, cap : Tests!Capabilities, selected : SUBSET PyTests, mode : TestsModes,
    profile : Tests!Profiles]
TestsProbing ==
  [pc : {"probe"}, cap : Tests!Capabilities, selected : SUBSET PyTests, mode : TestsModes,
    profile : Tests!Profiles,
   claims : SUBSET TestsFeatures]
TestsLaunching ==
  [pc : {"launch"}, cap : Tests!Capabilities, selected : SUBSET PyTests, mode : TestsModes,
    profile : Tests!Profiles,
   claims : SUBSET TestsFeatures, wrapped : BOOLEAN]
TestsRunning ==
  [pc : {"running"}, cap : Tests!Capabilities, selected : SUBSET PyTests, mode : TestsModes,
    profile : Tests!Profiles,
   claims : SUBSET TestsFeatures, wrapped : BOOLEAN, saw : SUBSET TestsAllTests, ran : BOOLEAN,
   confined : SUBSET TestsFeatures]
TestsReceipts ==
  [pc : {"receipt"}, cap : Tests!Capabilities, selected : SUBSET PyTests, mode : TestsModes,
    profile : Tests!Profiles,
   claims : SUBSET TestsFeatures, wrapped : BOOLEAN, saw : SUBSET TestsAllTests, ran : BOOLEAN,
   confined : SUBSET TestsFeatures, failed : SUBSET TestsAllTests, zero : BOOLEAN]

TestsTasks == {Tests!Idle} \cup TestsAttesting \cup TestsProbing \cup TestsLaunching \cup TestsRunning \cup TestsReceipts

TestsTypeInv ==
  /\ testsProfile \in Tests!Profiles /\ testsManifest \in Tests!Profiles /\ testsMode \in TestsModes
  /\ testsBroken \in SUBSET TestsAllTests /\ testsTask \in TestsTasks

(* A run of an untrusted project is a run in the full sandbox, files are   *)
(* given to Python runners only, and no more is claimed than the wrapper   *)
(* of the profile enforces.                                                *)
TestsTaskInv ==
  /\ testsTask # Tests!Idle => /\ testsTask.mode = "untrusted" => testsTask.profile = "filesystem-contained"
                               /\ testsTask.cap = "npm" => testsTask.selected = {}
  /\ testsTask \in TestsProbing \cup TestsLaunching =>
       /\ testsTask.profile = "trusted-local" => testsTask.claims = {}
       /\ testsTask.profile = "network-contained"
          => testsTask.claims \subseteq Tests!Partial \cup {"limits"}
  /\ testsTask \in TestsLaunching => testsTask.wrapped = (testsTask.profile # "trusted-local")
  /\ testsTask \in TestsRunning \cup TestsReceipts =>
       /\ testsTask.claims \subseteq testsTask.confined
       /\ testsTask.mode = "untrusted" => Tests!Full \subseteq testsTask.confined
  /\ testsTask \in TestsReceipts =>
       /\ testsTask.failed \subseteq Tests!Covered(testsTask) \cap testsTask.saw
       /\ testsTask.zero => Tests!Covered(testsTask) \cap testsTask.saw = {}

(* A failure is of tests of its runner, and of one file if it names one.   *)
TestsEvidenceInv ==
  \A e \in testsEvidence :
    /\ e.source \in Tests!Capabilities /\ e.path \in PyTests \cup {Tests!NoPath}
    /\ e.tests \subseteq Tests!Suite(e.source)
    /\ e.path # Tests!NoPath => e.tests \subseteq {e.path}

TestsInv == TestsTypeInv /\ TestsTaskInv /\ TestsEvidenceInv

-----------------------------------------------------------------------------
(* At which step a task is, and what it then has. *)
LEMMA TestsTaskFacts ==
  ASSUME testsTask \in TestsTasks
  PROVE  /\ testsTask.pc \in {"idle", "attest", "probe", "launch", "running", "receipt"}
         /\ (testsTask = Tests!Idle <=> testsTask.pc = "idle")
         /\ (testsTask \in TestsAttesting <=> testsTask.pc = "attest")
         /\ (testsTask \in TestsProbing <=> testsTask.pc = "probe")
         /\ (testsTask \in TestsLaunching <=> testsTask.pc = "launch")
         /\ (testsTask \in TestsRunning <=> testsTask.pc = "running")
         /\ (testsTask \in TestsReceipts <=> testsTask.pc = "receipt")
<1>1. testsTask = Tests!Idle => testsTask.pc = "idle"
  BY DEF Tests!Idle
<1>2. testsTask \in TestsAttesting => testsTask.pc = "attest"
  BY DEF TestsAttesting
<1>3. testsTask \in TestsProbing => testsTask.pc = "probe"
  BY DEF TestsProbing
<1>4. testsTask \in TestsLaunching => testsTask.pc = "launch"
  BY DEF TestsLaunching
<1>5. testsTask \in TestsRunning => testsTask.pc = "running"
  BY DEF TestsRunning
<1>6. testsTask \in TestsReceipts => testsTask.pc = "receipt"
  BY DEF TestsReceipts
<1> QED  BY <1>1, <1>2, <1>3, <1>4, <1>5, <1>6 DEF TestsTasks

LEMMA TestsInitial == ASSUME TestsSensible PROVE Tests!Init => TestsInv
<1> SUFFICES ASSUME Tests!Init PROVE TestsInv
  OBVIOUS
<1>1. testsTask = Tests!Idle /\ testsEvidence = {}
  BY DEF Tests!Init
<1>2. TestsTypeInv
  BY DEF Tests!Init, TestsTypeInv, Tests!Profiles, TestsModes, TestsAllTests, TestsTasks
<1>3. TestsTaskInv
  BY <1>1, <1>2, TestsTaskFacts DEF TestsTaskInv, TestsTypeInv, Tests!Idle
<1> QED  BY <1>1, <1>2, <1>3 DEF TestsInv, TestsEvidenceInv

(* A step that does not touch the task or the evidence. *)
LEMMA TestsOtherStep ==
  ASSUME TestsInv, testsProfile' \in Tests!Profiles, testsManifest' \in Tests!Profiles,
    testsMode' \in TestsModes,
         testsBroken' \in SUBSET TestsAllTests, testsTask' \in {testsTask, Tests!Idle},
           UNCHANGED testsEvidence
  PROVE  TestsInv'
<1>1. TestsTypeInv'
  BY DEF TestsInv, TestsTypeInv, TestsTasks
<1>2. TestsTaskInv'
  <2>1. CASE testsTask' = testsTask
    BY <2>1 DEF TestsInv, TestsTaskInv, Tests!Covered, Tests!Suite
  <2>2. CASE testsTask' = Tests!Idle
    <3>1. Tests!Idle \notin TestsProbing \cup TestsLaunching \cup TestsRunning \cup TestsReceipts
      BY DEF Tests!Idle, TestsProbing, TestsLaunching, TestsRunning, TestsReceipts
    <3> QED  BY <2>2, <3>1 DEF TestsTaskInv
  <2> QED  BY <2>1, <2>2
<1> QED  BY <1>1, <1>2 DEF TestsInv, TestsEvidenceInv

LEMMA TestsConfigureStep == ASSUME TestsSensible, TestsInv, NEW p \in Providers, Tests!Configure(p)
  PROVE TestsInv'
<1>1. testsManifest' = p /\ testsProfile' \in {p, testsProfile}
      /\ UNCHANGED <<testsMode, testsBroken, testsTask, testsEvidence>>
  BY DEF Tests!Configure, Tests!world
<1>2. p \in Tests!Profiles
  BY DEF TestsSensible
<1> QED  BY <1>1, <1>2, TestsOtherStep DEF TestsInv, TestsTypeInv

LEMMA TestsRestartStep == ASSUME TestsInv, Tests!Restart PROVE TestsInv'
<1>1. testsProfile' = testsManifest /\ testsTask' = Tests!Idle
      /\ UNCHANGED <<testsManifest, testsMode, testsBroken, testsEvidence>>
  BY DEF Tests!Restart, Tests!world
<1> QED  BY <1>1, TestsOtherStep DEF TestsInv, TestsTypeInv

LEMMA TestsFlipStep == ASSUME TestsInv, Tests!Flip PROVE TestsInv'
<1>1. UNCHANGED <<testsProfile, testsManifest, testsTask, testsEvidence>>
  BY DEF Tests!Flip, Tests!setup
<1>2. testsMode' \in TestsModes
  BY DEF Tests!Flip, TestsModes, TestsInv, TestsTypeInv
<1>3. testsBroken' \in SUBSET TestsAllTests
  BY DEF Tests!Flip, TestsInv, TestsTypeInv, TestsAllTests
<1> QED  BY <1>1, <1>2, <1>3, TestsOtherStep DEF TestsInv, TestsTypeInv

LEMMA TestsVerifyStep ==
  ASSUME TestsInv, NEW selected \in SUBSET PyTests, Tests!Verify(selected) PROVE TestsInv'
<1> DEFINE t == [pc |-> "attest", cap |-> Tests!Preferred, selected |-> selected,
                 mode |-> testsMode, profile |-> testsProfile]
<1>1. testsTask' = t /\ UNCHANGED <<testsProfile, testsManifest, testsMode, testsBroken,
      testsEvidence>>
      /\ (Tests!Preferred = "npm" => selected = {}) /\ Tests!Permitted
  BY DEF Tests!Verify, Tests!world, Tests!setup
<1>2. Tests!Preferred \in Tests!Capabilities
  BY DEF Tests!Preferred, Tests!Capabilities
<1>3. t \in TestsAttesting /\ t.mode = testsMode /\ t.profile = testsProfile
      /\ t.cap = Tests!Preferred /\ t.selected = selected
  BY <1>2 DEF TestsAttesting, TestsInv, TestsTypeInv
<1> HIDE DEF t
<1>4. TestsTypeInv'
  BY <1>1, <1>3 DEF TestsInv, TestsTypeInv, TestsTasks
<1>5. t \notin TestsProbing \cup TestsLaunching \cup TestsRunning \cup TestsReceipts
  BY <1>3 DEF TestsAttesting, TestsProbing, TestsLaunching, TestsRunning, TestsReceipts
<1>6. TestsTaskInv'
  BY <1>1, <1>3, <1>5 DEF TestsTaskInv, Tests!Permitted
<1> QED  BY <1>1, <1>4, <1>6 DEF TestsInv, TestsEvidenceInv

LEMMA TestsClaimFacts ==
  ASSUME NEW p \in Tests!Profiles, NEW unshare, NEW rlimit
  PROVE  /\ Tests!Claims(p, unshare, rlimit) \in SUBSET TestsFeatures
         /\ p = "trusted-local" => Tests!Claims(p, unshare, rlimit) = {}
         /\ p = "network-contained" => Tests!Claims(p, unshare,
            rlimit) \subseteq Tests!Partial \cup {"limits"}
BY DEF Tests!Claims, Tests!Profiles, TestsFeatures, Tests!Full, Tests!Partial

LEMMA TestsAttestStep == ASSUME TestsInv, Tests!Attest PROVE TestsInv'
<1>1. PICK unshare, rlimit :
        testsTask' = [pc |-> "probe", cap |-> testsTask.cap, selected |-> testsTask.selected,
                 mode |-> testsTask.mode, profile |-> testsTask.profile,
                 claims |-> Tests!Claims(testsTask.profile, unshare, rlimit)]
  BY DEF Tests!Attest
<1> DEFINE t == [pc |-> "probe", cap |-> testsTask.cap, selected |-> testsTask.selected,
                 mode |-> testsTask.mode, profile |-> testsTask.profile,
                 claims |-> Tests!Claims(testsTask.profile, unshare, rlimit)]
<1>2. testsTask' = t /\ UNCHANGED <<testsProfile, testsManifest, testsMode, testsBroken,
      testsEvidence>>
  BY <1>1 DEF Tests!Attest, Tests!world, Tests!setup
<1>3. testsTask \in TestsAttesting /\ testsTask # Tests!Idle
  BY TestsTaskFacts DEF Tests!Attest, TestsInv, TestsTypeInv
<1>4. testsTask.profile \in Tests!Profiles
  BY <1>3 DEF TestsAttesting
<1>5. t \in TestsProbing
  BY <1>3, <1>4, TestsClaimFacts DEF TestsAttesting, TestsProbing
<1>6. t.mode = testsTask.mode /\ t.profile = testsTask.profile /\ t.cap = testsTask.cap
      /\ t.selected = testsTask.selected
      /\ t.claims = Tests!Claims(testsTask.profile, unshare, rlimit)
  OBVIOUS
<1> HIDE DEF t
<1>7. TestsTypeInv'
  BY <1>2, <1>5 DEF TestsInv, TestsTypeInv, TestsTasks
<1>8. t \notin TestsLaunching \cup TestsRunning \cup TestsReceipts
  BY <1>5 DEF TestsProbing, TestsLaunching, TestsRunning, TestsReceipts
<1>9. TestsTaskInv'
  BY <1>2, <1>3, <1>4, <1>6, <1>8, TestsClaimFacts DEF TestsTaskInv, TestsInv
<1> QED  BY <1>2, <1>7, <1>9 DEF TestsInv, TestsEvidenceInv

LEMMA TestsWrapStep == ASSUME TestsInv, Tests!Wrap PROVE TestsInv'
<1>1. PICK found \in IF testsTask.profile = "trusted-local" THEN {TRUE} ELSE Tests!Probe(Tests!Needs(testsTask.profile)) :
       testsTask' = IF /\ Tests!Wrappable(testsTask, found)
                       /\ "limits" \in testsTask.claims => Tests!LimitsRequested(testsTask)
               THEN Tests!With(testsTask, [pc |-> "launch", wrapped |-> found
                 /\ testsTask.profile # "trusted-local"])
               ELSE Tests!Idle
  BY DEF Tests!Wrap
<1>2. UNCHANGED <<testsProfile, testsManifest, testsMode, testsBroken, testsEvidence>>
  BY DEF Tests!Wrap, Tests!world, Tests!setup
<1>3. testsTask \in TestsProbing /\ testsTask # Tests!Idle
  BY TestsTaskFacts DEF Tests!Wrap, TestsInv, TestsTypeInv
<1>4. CASE testsTask' = Tests!Idle
  BY <1>2, <1>4, TestsOtherStep DEF TestsInv, TestsTypeInv
<1>5. CASE testsTask' # Tests!Idle
  <2> DEFINE w == found /\ testsTask.profile # "trusted-local"
             t == [pc |-> "launch", cap |-> testsTask.cap, selected |-> testsTask.selected,
               mode |-> testsTask.mode,
                   profile |-> testsTask.profile, claims |-> testsTask.claims, wrapped |-> w]
  <2>1. Tests!Wrappable(testsTask, found)
    BY <1>1, <1>5
  <2>2. found \in BOOLEAN
    BY <1>1 DEF Tests!Probe
  <2>3. w \in BOOLEAN /\ w = (testsTask.profile # "trusted-local")
    BY <2>1, <2>2 DEF Tests!Wrappable
  <2>4. testsTask' = Tests!With(testsTask, [pc |-> "launch", wrapped |-> w])
    BY <1>1, <1>5
  <2> HIDE DEF w
  <2>5. testsTask' = t
    BY <1>3, <2>4 DEF Tests!With, TestsProbing
  <2>6. t \in TestsLaunching
    BY <1>3, <2>3 DEF TestsProbing, TestsLaunching
  <2>7. t.mode = testsTask.mode /\ t.profile = testsTask.profile /\ t.cap = testsTask.cap
        /\ t.selected = testsTask.selected
        /\ t.claims = testsTask.claims /\ t.wrapped = w
    OBVIOUS
  <2> HIDE DEF t
  <2>8. TestsTypeInv'
    BY <1>2, <2>5, <2>6 DEF TestsInv, TestsTypeInv, TestsTasks
  <2>9. t \notin TestsRunning \cup TestsReceipts
    BY <2>6 DEF TestsLaunching, TestsRunning, TestsReceipts
  <2>10. TestsTaskInv'
    BY <1>3, <2>3, <2>5, <2>7, <2>9 DEF TestsTaskInv, TestsInv
  <2> QED  BY <1>2, <2>8, <2>10 DEF TestsInv, TestsEvidenceInv
<1> QED  BY <1>4, <1>5

LEMMA TestsLaunchStep == ASSUME TestsInv, Tests!Launch PROVE TestsInv'
<1> DEFINE ran == testsTask.wrapped => Tests!Needs(testsTask.profile) \in testsHost
           t == [pc |-> "running", cap |-> testsTask.cap, selected |-> testsTask.selected,
             mode |-> testsTask.mode,
                 profile |-> testsTask.profile, claims |-> testsTask.claims,
                   wrapped |-> testsTask.wrapped,
                 saw |-> testsBroken, ran |-> ran, confined |-> Tests!Confined(testsTask)]
<1>1. testsTask' \in {Tests!Idle, Tests!With(testsTask,
      [pc |-> "running", saw |-> testsBroken, ran |-> ran, confined |-> Tests!Confined(testsTask)])}
  BY DEF Tests!Launch
<1>2. UNCHANGED <<testsProfile, testsManifest, testsMode, testsBroken, testsEvidence>>
  BY DEF Tests!Launch, Tests!world, Tests!setup
<1>3. testsTask \in TestsLaunching /\ testsTask # Tests!Idle
  BY TestsTaskFacts DEF Tests!Launch, TestsInv, TestsTypeInv
<1>4. ran \in BOOLEAN
  OBVIOUS
<1> HIDE DEF ran
<1>5. testsTask.profile \in Tests!Profiles /\ testsTask.mode \in TestsModes
      /\ testsTask.claims \subseteq TestsFeatures
  BY <1>3 DEF TestsLaunching
<1>6. /\ testsTask.wrapped = (testsTask.profile # "trusted-local")
      /\ testsTask.profile = "trusted-local" => testsTask.claims = {}
      /\ testsTask.profile = "network-contained"
         => testsTask.claims \subseteq Tests!Partial \cup {"limits"}
      /\ testsTask.mode = "untrusted" => testsTask.profile = "filesystem-contained"
  BY <1>3 DEF TestsInv, TestsTaskInv
<1>7. /\ Tests!Confined(testsTask) \in SUBSET TestsFeatures
      /\ testsTask.claims \subseteq Tests!Confined(testsTask)
      /\ testsTask.mode = "untrusted" => Tests!Full \subseteq Tests!Confined(testsTask)
  <2>1. CASE testsTask.profile = "trusted-local"
    BY <1>5, <1>6, <2>1
      DEF Tests!Confined, Tests!LimitsRequested, TestsFeatures, Tests!Full, Tests!Partial
  <2>2. CASE testsTask.profile = "network-contained"
    BY <1>5, <1>6, <2>2
      DEF Tests!Confined, Tests!LimitsRequested, TestsFeatures, Tests!Full, Tests!Partial
  <2>3. CASE testsTask.profile = "filesystem-contained"
    BY <1>5, <1>6, <2>3
      DEF Tests!Confined, Tests!LimitsRequested, TestsFeatures, Tests!Full, Tests!Partial
  <2> QED  BY <1>5, <2>1, <2>2, <2>3 DEF Tests!Profiles
<1>8. CASE testsTask' = Tests!Idle
  BY <1>2, <1>8, TestsOtherStep DEF TestsInv, TestsTypeInv
<1>9. CASE testsTask' # Tests!Idle
  <2>1. testsTask' = t
    BY <1>1, <1>3, <1>9 DEF Tests!With, TestsLaunching
  <2>2. t \in TestsRunning
    BY <1>3, <1>4, <1>7 DEF TestsLaunching, TestsRunning, TestsInv, TestsTypeInv
  <2>3. t.mode = testsTask.mode /\ t.profile = testsTask.profile /\ t.cap = testsTask.cap
        /\ t.selected = testsTask.selected
        /\ t.claims = testsTask.claims /\ t.confined = Tests!Confined(testsTask)
    OBVIOUS
  <2> HIDE DEF t
  <2>4. TestsTypeInv'
    BY <1>2, <2>1, <2>2 DEF TestsInv, TestsTypeInv, TestsTasks
  <2>5. t \notin TestsProbing \cup TestsLaunching \cup TestsReceipts
    BY <2>2 DEF TestsRunning, TestsProbing, TestsLaunching, TestsReceipts
  <2>6. TestsTaskInv'
    BY <1>3, <1>7, <2>1, <2>3, <2>5 DEF TestsTaskInv, TestsInv
  <2> QED  BY <1>2, <2>4, <2>6 DEF TestsInv, TestsEvidenceInv
<1> QED  BY <1>8, <1>9

LEMMA TestsExitStep ==
  ASSUME TestsInv, NEW timedOut \in BOOLEAN, NEW changed \in BOOLEAN, Tests!Exit(timedOut, changed)
    PROVE TestsInv'
<1> DEFINE failed == IF testsTask.ran THEN Tests!Covered(testsTask) \cap testsTask.saw ELSE {}
           zero == testsTask.ran /\ ~timedOut /\ Tests!Covered(testsTask) \cap testsTask.saw = {}
           t == [pc |-> "receipt", cap |-> testsTask.cap, selected |-> testsTask.selected,
             mode |-> testsTask.mode,
                 profile |-> testsTask.profile, claims |-> testsTask.claims,
                   wrapped |-> testsTask.wrapped,
                 saw |-> testsTask.saw, ran |-> testsTask.ran, confined |-> testsTask.confined,
                 failed |-> failed, zero |-> zero]
<1>1. testsTask' \in {Tests!Idle, Tests!With(testsTask,
      [pc |-> "receipt", failed |-> failed, zero |-> zero])}
  BY DEF Tests!Exit
<1>2. UNCHANGED <<testsProfile, testsManifest, testsMode, testsBroken, testsEvidence>>
  BY DEF Tests!Exit, Tests!world, Tests!setup
<1>3. testsTask \in TestsRunning /\ testsTask # Tests!Idle
  BY TestsTaskFacts DEF Tests!Exit, TestsInv, TestsTypeInv
<1>4. zero \in BOOLEAN /\ (zero => Tests!Covered(testsTask) \cap testsTask.saw = {})
  OBVIOUS
<1>5. failed \subseteq Tests!Covered(testsTask) \cap testsTask.saw
  OBVIOUS
<1>6. testsTask.saw \subseteq TestsAllTests
  BY <1>3 DEF TestsRunning
<1> HIDE DEF failed, zero
<1>7. CASE testsTask' = Tests!Idle
  BY <1>2, <1>7, TestsOtherStep DEF TestsInv, TestsTypeInv
<1>8. CASE testsTask' # Tests!Idle
  <2>1. testsTask' = t
    BY <1>1, <1>3, <1>8 DEF Tests!With, TestsRunning
  <2>2. t \in TestsReceipts
    BY <1>3, <1>4, <1>5, <1>6 DEF TestsRunning, TestsReceipts
  <2>3. t.mode = testsTask.mode /\ t.profile = testsTask.profile /\ t.cap = testsTask.cap
        /\ t.selected = testsTask.selected
        /\ t.claims = testsTask.claims /\ t.confined = testsTask.confined
        /\ t.saw = testsTask.saw /\ t.failed = failed /\ t.zero = zero
    OBVIOUS
  <2> HIDE DEF t
  <2>4. TestsTypeInv'
    BY <1>2, <2>1, <2>2 DEF TestsInv, TestsTypeInv, TestsTasks
  <2>5. t \notin TestsProbing \cup TestsLaunching
    BY <2>2 DEF TestsProbing, TestsLaunching, TestsReceipts
  <2>6. Tests!Covered(t) = Tests!Covered(testsTask)
    BY <2>3 DEF Tests!Covered
  <2>7. TestsTaskInv'
    <3>1. /\ t.mode = "untrusted" => t.profile = "filesystem-contained"
          /\ t.cap = "npm" => t.selected = {}
          /\ t.claims \subseteq t.confined
          /\ t.mode = "untrusted" => Tests!Full \subseteq t.confined
      BY <1>3, <2>3 DEF TestsTaskInv, TestsInv
    <3>2. t.failed \subseteq Tests!Covered(t) \cap t.saw
          /\ (t.zero => Tests!Covered(t) \cap t.saw = {})
      BY <1>4, <1>5, <2>3, <2>6
    <3> QED  BY <2>1, <2>5, <3>1, <3>2 DEF TestsTaskInv, Tests!Covered, Tests!Suite
  <2> QED  BY <1>2, <2>4, <2>7 DEF TestsInv, TestsEvidenceInv
<1> QED  BY <1>7, <1>8

(* What is covered by a run is of the suite of its runner. *)
LEMMA TestsCoveredFacts ==
  ASSUME TestsInv, testsTask.pc = "receipt"
  PROVE  /\ testsTask \in TestsReceipts /\ testsTask.cap \in Tests!Capabilities /\ testsTask.selected \in SUBSET PyTests
         /\ testsTask.failed \subseteq Tests!Covered(testsTask)
         /\ Tests!Covered(testsTask) \subseteq Tests!Suite(testsTask.cap)
<1>1. testsTask \in TestsReceipts /\ testsTask # Tests!Idle
  BY TestsTaskFacts DEF TestsInv, TestsTypeInv
<1>2. testsTask.cap \in Tests!Capabilities /\ testsTask.selected \in SUBSET PyTests
  BY <1>1 DEF TestsReceipts
<1>3. testsTask.failed \subseteq Tests!Covered(testsTask)
      /\ (testsTask.cap = "npm" => testsTask.selected = {})
  BY <1>1 DEF TestsInv, TestsTaskInv
<1> QED  BY <1>1, <1>2, <1>3 DEF Tests!Covered, Tests!Suite

(* The one file selected, if there is one. *)
LEMMA TestsOneSelected ==
  ASSUME TestsSensible, TestsInv, testsTask.pc = "receipt",
    Tests!Cardinality(testsTask.selected) = 1
  PROVE  \E s \in PyTests : testsTask.selected = {s} /\ (CHOOSE x \in testsTask.selected : TRUE) = s
                            /\ Tests!Covered(testsTask) = {s}
<1>1. testsTask.selected \in SUBSET PyTests
  BY TestsCoveredFacts
<1>2. Tests!IsFiniteSet(testsTask.selected)
  BY <1>1, TestsCounts, FS_Subset DEF TestsSensible
<1>3. PICK s : testsTask.selected = {s}
  BY <1>2, TestsCounts, FS_Singleton
<1>4. (CHOOSE x \in {s} : TRUE) = s
  OBVIOUS
<1> QED  BY <1>1, <1>3, <1>4 DEF Tests!Covered

TestsFiled(e) ==
  /\ e.source \in Tests!Capabilities /\ e.path \in PyTests \cup {Tests!NoPath}
  /\ e.tests \subseteq Tests!Suite(e.source)
  /\ e.path # Tests!NoPath => e.tests \subseteq {e.path}

LEMMA TestsFiledFacts ==
  ASSUME TestsSensible, TestsInv, testsTask.pc = "receipt", NEW named \in SUBSET testsTask.failed,
         testsTask.cap = "npm" => named = {}
  PROVE  TestsFiled(Tests!ExitFailure(testsTask))
    /\ \A e \in Tests!Failures(testsTask, named) : TestsFiled(e)
<1>1. /\ testsTask.cap \in Tests!Capabilities /\ testsTask.failed \subseteq Tests!Covered(testsTask)
      /\ Tests!Covered(testsTask) \subseteq Tests!Suite(testsTask.cap)
      /\ testsTask.selected \in SUBSET PyTests
  BY TestsCoveredFacts
<1> DEFINE path == IF Tests!Cardinality(testsTask.selected) = 1 THEN CHOOSE s \in testsTask.selected : TRUE ELSE Tests!NoPath
<1>2. /\ path \in PyTests \cup {Tests!NoPath}
      /\ path # Tests!NoPath => testsTask.failed \subseteq {path}
  <2>1. CASE Tests!Cardinality(testsTask.selected) = 1
    <3>1. PICK s \in PyTests : testsTask.selected = {s}
          /\ (CHOOSE x \in testsTask.selected : TRUE) = s
                            /\ Tests!Covered(testsTask) = {s}
      BY <2>1, TestsOneSelected
    <3>2. path = s
      BY <2>1, <3>1
    <3> QED  BY <1>1, <3>1, <3>2
  <2>2. CASE Tests!Cardinality(testsTask.selected) # 1
    BY <2>2
  <2> QED  BY <2>1, <2>2
<1>3. Tests!ExitFailure(testsTask) = [source |-> testsTask.cap, path |-> path,
      tests |-> testsTask.failed]
  BY DEF Tests!ExitFailure
<1>4. \A x : Tests!PathOf(testsTask, x) = IF testsTask.cap = "pytest" THEN x ELSE path
  BY DEF Tests!PathOf
<1> HIDE DEF path
<1>5. TestsFiled(Tests!ExitFailure(testsTask))
  BY <1>1, <1>2, <1>3 DEF TestsFiled
<1>6. ASSUME NEW x \in named
      PROVE TestsFiled([source |-> testsTask.cap, path |-> Tests!PathOf(testsTask, x),
        tests |-> {x}])
  <2>1. x \in testsTask.failed /\ x \in Tests!Suite(testsTask.cap) /\ testsTask.cap # "npm"
    BY <1>1
  <2>2. x \in PyTests
    BY <2>1 DEF Tests!Suite
  <2>3. Tests!PathOf(testsTask, x) \in PyTests \cup {Tests!NoPath}
        /\ (Tests!PathOf(testsTask, x) # Tests!NoPath => x = Tests!PathOf(testsTask, x))
    BY <1>2, <1>4, <2>1, <2>2
  <2> DEFINE q == Tests!PathOf(testsTask, x)
  <2> HIDE DEF q
  <2>4. q \in PyTests \cup {Tests!NoPath} /\ (q # Tests!NoPath => x = q)
    BY <2>3 DEF q
  <2>5. TestsFiled([source |-> testsTask.cap, path |-> q, tests |-> {x}])
    BY <1>1, <2>1, <2>4 DEF TestsFiled
  <2> QED  BY <2>5 DEF q
<1>7. TestsFiled([source |-> testsTask.cap, path |-> Tests!NoPath,
      tests |-> testsTask.failed \ named])
  BY <1>1 DEF TestsFiled
<1> QED  BY <1>5, <1>6, <1>7 DEF Tests!Failures

LEMMA TestsRecordStep == ASSUME TestsSensible, TestsInv, Tests!Record PROVE TestsInv'
<1>1. testsTask' = Tests!Idle /\ UNCHANGED <<testsProfile, testsManifest, testsMode, testsBroken>>
      /\ testsTask.pc = "receipt"
  BY DEF Tests!Record, Tests!world, Tests!setup
<1>2. \A e \in testsEvidence : TestsFiled(e)
  BY DEF TestsInv, TestsEvidenceInv, TestsFiled
<1>3. \A e \in testsEvidence' : TestsFiled(e)
  <2>1. CASE Tests!Passed(testsTask)
    BY <1>2, <2>1 DEF Tests!Record
  <2>2. CASE ~Tests!Passed(testsTask)
    <3>1. PICK named \in SUBSET testsTask.failed :
            /\ testsTask.cap = "npm" => named = {}
            /\ testsEvidence' = testsEvidence \cup
                 IF named # {} THEN Tests!Failures(testsTask, named)
                 ELSE IF testsTask.zero THEN {} ELSE {Tests!ExitFailure(testsTask)}
      BY <2>2 DEF Tests!Record
    <3>2. TestsFiled(Tests!ExitFailure(testsTask))
          /\ \A e \in Tests!Failures(testsTask, named) : TestsFiled(e)
      BY <1>1, <3>1, TestsFiledFacts
    <3> QED  BY <1>2, <3>1, <3>2
  <2> QED  BY <2>1, <2>2
<1>4. TestsEvidenceInv'
  BY <1>3 DEF TestsEvidenceInv, TestsFiled, Tests!Suite
<1>5. TestsTypeInv'
  BY <1>1 DEF TestsInv, TestsTypeInv, TestsTasks
<1>6. TestsTaskInv'
  <2>1. Tests!Idle \notin TestsProbing \cup TestsLaunching \cup TestsRunning \cup TestsReceipts
    BY DEF Tests!Idle, TestsProbing, TestsLaunching, TestsRunning, TestsReceipts
  <2> QED  BY <1>1, <2>1 DEF TestsTaskInv
<1> QED  BY <1>4, <1>5, <1>6 DEF TestsInv

LEMMA TestsInductive == ASSUME TestsSensible, TestsInv, [Tests!Next]_Tests!vars PROVE TestsInv'
<1>1. CASE UNCHANGED Tests!vars
  <2>1. UNCHANGED <<testsProfile, testsManifest, testsMode, testsBroken, testsTask, testsEvidence>>
    BY <1>1 DEF Tests!vars, Tests!world, Tests!setup
  <2> QED  BY <2>1, TestsOtherStep DEF TestsInv, TestsTypeInv
<1> QED
  BY <1>1, TestsConfigureStep, TestsRestartStep, TestsFlipStep, TestsVerifyStep, TestsAttestStep,
    TestsWrapStep, TestsLaunchStep,
     TestsExitStep, TestsRecordStep DEF Tests!Next

(* A failure is taken off the record only by a run that covered its tests  *)
(* and saw none of them fail.                                              *)
LEMMA TestsResolvedByPass ==
  ASSUME TestsSensible, TestsInv, [Tests!Next]_Tests!vars PROVE Tests!FailureResolvedOnlyByPassStep
<1> SUFFICES ASSUME NEW e \in testsEvidence \ testsEvidence'
             PROVE  e.tests \cap testsTask.saw = {} /\ e.tests \subseteq Tests!Covered(testsTask)
  BY DEF Tests!FailureResolvedOnlyByPassStep
<1>1. Tests!Record /\ Tests!Passed(testsTask) /\ e \in Tests!Resolved(testsTask)
  <2>1. testsEvidence' # testsEvidence
    OBVIOUS
  <2>2. Tests!Record
    BY <2>1 DEF Tests!Next, Tests!vars, Tests!Configure, Tests!Restart, Tests!Flip, Tests!Verify,
      Tests!Attest, Tests!Wrap, Tests!Launch, Tests!Exit
  <2> QED  BY <2>2 DEF Tests!Record
<1>2. testsTask.pc = "receipt"
  BY <1>1 DEF Tests!Record
<1>3. testsTask \in TestsReceipts /\ testsTask.selected \in SUBSET PyTests
  BY <1>2, TestsCoveredFacts
<1>4. Tests!Covered(testsTask) \cap testsTask.saw = {}
  BY <1>1, <1>3 DEF Tests!Passed, TestsInv, TestsTaskInv
<1>5. e.tests \subseteq Tests!Covered(testsTask)
  <2>1. e.tests \subseteq Tests!Suite(e.source)
        /\ (e.path # Tests!NoPath => e.tests \subseteq {e.path})
    BY DEF TestsInv, TestsEvidenceInv
  <2>2. CASE testsTask.selected = {}
    BY <1>1, <2>1, <2>2 DEF Tests!Resolved, Tests!Covered
  <2>3. CASE testsTask.selected # {} /\ e.path # Tests!NoPath
    BY <1>1, <2>1, <2>3 DEF Tests!Resolved, Tests!Covered
  <2>4. CASE testsTask.selected # {} /\ e.path = Tests!NoPath
    BY <1>1, <1>3, <2>4 DEF Tests!Resolved, TestsSensible
  <2> QED  BY <2>2, <2>3, <2>4
<1> QED  BY <1>4, <1>5

LEMMA TestsInvariant == ASSUME TestsSensible PROVE Tests!Spec => []TestsInv
<1>1. Tests!Init => TestsInv
  BY TestsInitial
<1>2. TestsInv /\ [Tests!Next]_Tests!vars => TestsInv'
  BY TestsInductive
<1> QED  BY <1>1, <1>2, PTL DEF Tests!Spec

(* The variables have the types the module says. *)
THEOREM TestsTypeCorrect == ASSUME TestsSensible PROVE Tests!Spec => []Tests!TypeOK
<1>1. TestsInv => Tests!TypeOK
  BY TestsTaskFacts DEF TestsInv, TestsTypeInv, TestsEvidenceInv, Tests!TypeOK, TestsModes
<1> QED  BY <1>1, TestsInvariant, PTL

(* Whatever the host stops supporting between the probes and the launch, a *)
(* command that ran was confined by all its receipt claims, and by a full  *)
(* sandbox if its project is untrusted.                                    *)
THEOREM TestsReceiptsAreTrue == ASSUME TestsSensible PROVE Tests!Spec => []Tests!ContainmentIsReal
<1>1. TestsInv => Tests!ContainmentIsReal
  BY TestsTaskFacts DEF TestsInv, TestsTypeInv, TestsTaskInv, Tests!ContainmentIsReal
<1> QED  BY <1>1, TestsInvariant, PTL

(* Whatever the tests and the runners: a failure on record is resolved     *)
(* only by a run that covered its tests and saw them pass.                 *)
THEOREM TestsResolvedOnlyByPass == ASSUME TestsSensible
  PROVE Tests!Spec => Tests!FailureResolvedOnlyByPass
<1>1. TestsSensible /\ TestsInv /\ [Tests!Next]_Tests!vars
      => [Tests!FailureResolvedOnlyByPassStep]_Tests!vars
  BY TestsResolvedByPass
<1> QED  BY <1>1, TestsInvariant, PTL DEF Tests!Spec, Tests!FailureResolvedOnlyByPass

(* The variables of the instance, by either name. *)
LEMMA TestsVarsAre == TestsVars' = TestsVars <=> Tests!vars' = Tests!vars
BY DEF TestsVars, Tests!vars, Tests!world, Tests!setup

-----------------------------------------------------------------------------
(* What holds of ContainmentEvidence for any hosts and limits, and however *)
(* many parts of a receipt change.                                         *)
(* The instance counts as FiniteSets does. *)
LEMMA ProofCounts ==
  \A S : (Proof!IsFiniteSet(S) <=> IsFiniteSet(S)) /\ Proof!Cardinality(S) = Cardinality(S)
BY DEF Proof!IsFiniteSet, IsFiniteSet, Proof!Cardinality, Cardinality


(* An attestation that stands, and stands as it was made.                  *)
ProofStanding(a) ==
  /\ Proof!Acceptable(a) /\ Proof!InOrder(a.receipts) = a.receipts
  /\ a = [by |-> a.by, claims |-> a.claims, receipts |-> a.receipts]

ProofWhole(receipt) ==
  receipt = [attestation |-> receipt.attestation, print |-> receipt.print,
    projection |-> receipt.projection]

(* Of the three parts of a receipt, at most one is not what was bound.     *)
ProofOnePartDiffers ==
  \/ proofStored.print = proofBound.print /\ proofStored.projection = proofBound.projection
  \/ proofStored.attestation = proofBound.attestation
     /\ proofStored.projection = proofBound.projection
  \/ proofStored.attestation = proofBound.attestation /\ proofStored.print = proofBound.print

ProofProviderInv ==
  /\ proofProvider.kind \in {"trusted-local", "network-contained", "filesystem-contained"}
  /\ proofProvider.kind = "filesystem-contained" => proofProvider.probe = TRUE
     /\ TRUE \in Proof!BwrapProbe

ProofReceiptInv ==
  /\ \/ proofBound = Proof!NoReceipt /\ proofStored = Proof!NoReceipt
     \/ ProofStanding(proofBound.attestation) /\ proofBound = Proof!Bind(proofBound.attestation)
  /\ proofChanges \in Nat
  /\ proofChanges = 0 => proofStored = proofBound
  /\ proofChanges = 1 => ProofWhole(proofStored) /\ ProofOnePartDiffers
     /\ proofBound # Proof!NoReceipt
  /\ proofVerdict = "accepted" => Proof!Valid(proofStored, "any")
  /\ proofVerdict = "refused" /\ proofChanges = 0 => proofStored.attestation.by # "provider"

ProofInv == ProofProviderInv /\ ProofReceiptInv /\ Proof!ReportIsOfAProbe

-----------------------------------------------------------------------------
LEMMA ProofPlaceOfEach ==
  /\ Proof!Place["process"] = 1 /\ Proof!Place["filesystem"] = 2 /\ Proof!Place["network"] = 3
  /\ Proof!Place["user"] = 4
  /\ Proof!Place["capabilities"] = 5 /\ Proof!Place["limits"] = 6 /\ Proof!Place["secrets"] = 7
BY DEF Proof!Place

(* What is in order is kept as it is.                                      *)
LEMMA ProofOrderIsKept ==
  ASSUME NEW n \in Nat, NEW R, NEW receipts \in [1 .. n -> R],
         \A k \in 1 .. n : Proof!Place[receipts[k].control] \in Nat,
         \A j, k \in 1 .. n : j < k
           => Proof!Place[receipts[j].control] < Proof!Place[receipts[k].control]
  PROVE  Proof!InOrder(receipts) = receipts
<1> DEFINE first(k) == {j \in DOMAIN receipts : \/ Proof!Before(receipts[j], receipts[k])
                                                \/ ~Proof!Before(receipts[k], receipts[j])
                                                   /\ j <= k}
           rank == [k \in DOMAIN receipts |-> Proof!Cardinality(first(k))]
<1>1. DOMAIN receipts = 1 .. n
  OBVIOUS
<1>2. ASSUME NEW k \in 1 .. n
      PROVE  first(k) = 1 .. k
  <2>1. ASSUME NEW j \in 1 .. n
        PROVE  (Proof!Before(receipts[j], receipts[k])
          \/ (~Proof!Before(receipts[k], receipts[j]) /\ j <= k)) <=> j <= k
    <3> DEFINE p == Proof!Place[receipts[j].control]
               q == Proof!Place[receipts[k].control]
    <3>1. p \in Nat /\ q \in Nat /\ (j < k => p < q) /\ (k < j => q < p)
      OBVIOUS
    <3>2. CASE j = k
      <4>1. ~Proof!Before(receipts[k], receipts[j]) \/ Proof!Before(receipts[j], receipts[k])
        BY <3>2
      <4> QED
        BY <3>2, <4>1
    <3>3. CASE j < k
      <4>1. p < q
        BY <3>1, <3>3
      <4> QED
        BY <3>3, <4>1 DEF Proof!Before
    <3>4. CASE k < j
      <4>1. q < p /\ ~(p < q) /\ p # q
        BY <3>1, <3>4
      <4>2. ~Proof!Before(receipts[j], receipts[k])
        BY <4>1 DEF Proof!Before
      <4>3. Proof!Before(receipts[k], receipts[j])
        BY <4>1 DEF Proof!Before
      <4> QED
        BY <3>4, <4>2, <4>3
    <3> QED
      BY <3>2, <3>3, <3>4
  <2>2. \A j \in 1 .. n : j \in first(k) <=> j <= k
    <3> TAKE j \in 1 .. n
    <3>1. j \in first(k) <=> (Proof!Before(receipts[j], receipts[k])
          \/ (~Proof!Before(receipts[k], receipts[j]) /\ j <= k))
      BY <1>1
    <3> QED
      BY <2>1, <3>1
  <2>3. first(k) \subseteq 1 .. n
    BY <1>1
  <2> HIDE DEF first
  <2>4. \A j : j \in 1 .. k <=> j \in 1 .. n /\ j <= k
    OBVIOUS
  <2>5. \A j : j \in first(k) <=> j \in 1 .. k
    BY <2>2, <2>3, <2>4
  <2> QED
    BY <2>5
<1>3. \A k \in 1 .. n : Proof!Cardinality(1 .. k) = k
  <2> TAKE k \in 1 .. n
  <2>1. 1 \in Int /\ k \in Int /\ ~(1 > k) /\ k - 1 + 1 = k
    OBVIOUS
  <2>2. Proof!Cardinality(1 .. k) = k - 1 + 1
    BY <2>1, ProofCounts, FS_Interval
  <2> QED
    BY <2>1, <2>2
<1>4. \A k \in 1 .. n : rank[k] = k
  <2> HIDE DEF first
  <2> QED
    BY <1>1, <1>2, <1>3
<1>5. Proof!InOrder(receipts) = [i \in DOMAIN receipts |-> receipts[CHOOSE k \in DOMAIN receipts : rank[k] = i]]
  BY DEF Proof!InOrder
<1> HIDE DEF rank
<1>6. \A i \in 1 .. n : (CHOOSE k \in 1 .. n : rank[k] = i) = i
  BY <1>4
<1> DEFINE pick(i) == CHOOSE k \in 1 .. n : rank[k] = i
<1>7. Proof!InOrder(receipts) = [i \in 1 .. n |-> receipts[pick(i)]]
  BY <1>1, <1>5
<1> HIDE DEF pick
<1>8. [i \in 1 .. n |-> receipts[pick(i)]] = [i \in 1 .. n |-> receipts[i]]
  BY <1>6 DEF pick
<1> QED
  BY <1>7, <1>8

LEMMA ProofFourInOrder ==
  ASSUME NEW r1, NEW r2, NEW r3, NEW r4,
         r1.control = "network", r2.control = "user", r3.control = "limits", r4.control = "secrets"
  PROVE  Proof!InOrder(<<r1, r2, r3, r4>>) = <<r1, r2, r3, r4>>
<1> DEFINE receipts == <<r1, r2, r3, r4>>
<1>1. receipts \in [1 .. 4 -> {r1, r2, r3, r4}]
  OBVIOUS
<1>2. /\ Proof!Place[receipts[1].control] = 3 /\ Proof!Place[receipts[2].control] = 4
      /\ Proof!Place[receipts[3].control] = 6 /\ Proof!Place[receipts[4].control] = 7
  BY ProofPlaceOfEach
<1> HIDE DEF receipts
<1>3. \A k \in 1 .. 4 : Proof!Place[receipts[k].control] \in Nat
  BY <1>2
<1>4. \A j, k \in 1 .. 4 : j < k
      => Proof!Place[receipts[j].control] < Proof!Place[receipts[k].control]
  BY <1>2
<1> QED
  BY <1>1, <1>3, <1>4, ProofOrderIsKept DEF receipts

LEMMA ProofSevenInOrder ==
  ASSUME NEW r1, NEW r2, NEW r3, NEW r4, NEW r5, NEW r6, NEW r7,
         r1.control = "process", r2.control = "filesystem", r3.control = "network",
         r4.control = "user", r5.control = "capabilities", r6.control = "limits",
         r7.control = "secrets"
  PROVE  Proof!InOrder(<<r1, r2, r3, r4, r5, r6, r7>>) = <<r1, r2, r3, r4, r5, r6, r7>>
<1> DEFINE receipts == <<r1, r2, r3, r4, r5, r6, r7>>
<1>1. receipts \in [1 .. 7 -> {r1, r2, r3, r4, r5, r6, r7}]
  OBVIOUS
<1>2. /\ Proof!Place[receipts[1].control] = 1 /\ Proof!Place[receipts[2].control] = 2
      /\ Proof!Place[receipts[3].control] = 3 /\ Proof!Place[receipts[4].control] = 4
      /\ Proof!Place[receipts[5].control] = 5 /\ Proof!Place[receipts[6].control] = 6
      /\ Proof!Place[receipts[7].control] = 7
  BY ProofPlaceOfEach
<1> HIDE DEF receipts
<1>3. \A k \in 1 .. 7 : Proof!Place[receipts[k].control] = k
  <2> TAKE k \in 1 .. 7
  <2>1. k = 1 \/ k = 2 \/ k = 3 \/ k = 4 \/ k = 5 \/ k = 6 \/ k = 7
    OBVIOUS
  <2> QED
    BY <1>2, <2>1
<1>4. \A j, k \in 1 .. 7 : j < k
      => Proof!Place[receipts[j].control] < Proof!Place[receipts[k].control]
  BY <1>3
<1>5. \A k \in 1 .. 7 : Proof!Place[receipts[k].control] \in Nat
  BY <1>3
<1>6. Proof!InOrder(receipts) = receipts
  BY <1>1, <1>4, <1>5, ProofOrderIsKept
<1> QED
  BY <1>6 DEF receipts

LEMMA ProofNothingInOrder == Proof!InOrder(<<>>) = <<>>
BY DEF Proof!InOrder

LEMMA ProofLimitProbeIsSound == \A limit \in Proof!LimitProbes : limit.success => limit.attempted
BY DEF Proof!LimitProbes

LEMMA ProofUnverifiedStands == \A by : ProofStanding(Proof!Unverified(by))
  /\ Proof!Unverified(by).by = by
<1> TAKE by
<1>1. Proof!Unverified(by) = [by |-> by, claims |-> {}, receipts |-> <<>>]
  BY ProofNothingInOrder DEF Proof!Unverified, Proof!Attestation
<1> QED
  BY <1>1, ProofNothingInOrder DEF ProofStanding, Proof!Acceptable

(* Every control that is claimed of the namespaces has its probe.          *)
LEMMA ProofNamespacedStands ==
  ASSUME NEW by, NEW unshare \in BOOLEAN, NEW limit \in Proof!LimitProbes
  PROVE  ProofStanding(Proof!Namespaced(by, unshare, limit))
    /\ Proof!Namespaced(by, unshare, limit).by = by
<1> DEFINE r1 == Proof!Receipt(by, "network", "unshare" \in proofHost.tools \/ unshare, unshare)
           r2 == Proof!Receipt(by, "user", "unshare" \in proofHost.tools \/ unshare, unshare)
           r3 == Proof!Receipt(by, "limits", limit.attempted, limit.success)
           r4 == Proof!Receipt(by, "secrets", TRUE, TRUE)
           claims == {"secrets"} \union (IF unshare THEN {"network", "user"} ELSE {})
                       \union (IF limit.success THEN {"limits"} ELSE {})
           a == Proof!Namespaced(by, unshare, limit)
<1>1. /\ r1.control = "network" /\ r2.control = "user" /\ r3.control = "limits"
      /\ r4.control = "secrets"
      /\ r1.id = "network" /\ r2.id = "user" /\ r3.id = "limits" /\ r4.id = "secrets"
      /\ r1.by = by /\ r2.by = by /\ r3.by = by /\ r4.by = by
      /\ r1.success = unshare /\ r2.success = unshare /\ r4.success = TRUE
      /\ (r3.success <=> limit.success)
  BY DEF Proof!Receipt
<1>2. Proof!Sound(r1) /\ Proof!Sound(r2) /\ Proof!Sound(r3) /\ Proof!Sound(r4)
  BY ProofLimitProbeIsSound DEF Proof!Receipt, Proof!Sound
<1>3. a = [by |-> by, claims |-> claims, receipts |-> Proof!InOrder(<<r1, r2, r3, r4>>)]
  BY DEF Proof!Namespaced, Proof!Attestation
<1> HIDE DEF r1, r2, r3, r4, a
<1> DEFINE receipts == <<r1, r2, r3, r4>>
<1>4. Proof!InOrder(receipts) = receipts
  BY <1>1, ProofFourInOrder
<1>5. DOMAIN receipts = 1 .. 4 /\ receipts[1] = r1 /\ receipts[2] = r2 /\ receipts[3] = r3
      /\ receipts[4] = r4
  OBVIOUS
<1>6. a.by = by /\ a.claims = claims /\ a.receipts = receipts
  BY <1>3, <1>4
<1> HIDE DEF receipts
<1>7. \A k \in 1 .. 4 : Proof!Sound(receipts[k]) /\ receipts[k].by = by
  BY <1>1, <1>2, <1>5
<1>8. \A j, k \in 1 .. 4 : receipts[j].id = receipts[k].id => j = k
  BY <1>1, <1>5
<1>9. \A c \in claims : \E k \in 1 .. 4 : receipts[k].control = c /\ receipts[k].success
  BY <1>1, <1>5
<1> HIDE DEF claims
<1>10. a = [by |-> a.by, claims |-> a.claims, receipts |-> a.receipts]
  BY <1>3, <1>4, <1>6 DEF receipts
<1>11. Proof!Acceptable(a)
  BY <1>5, <1>6, <1>7, <1>8, <1>9 DEF Proof!Acceptable
<1> QED
  BY <1>4, <1>6, <1>10, <1>11 DEF ProofStanding, a

LEMMA ProofWrappedStands ==
  ASSUME NEW by, NEW probe \in BOOLEAN, NEW limit \in Proof!LimitProbes
  PROVE  ProofStanding(Proof!Wrapped(by, probe, limit)) /\ Proof!Wrapped(by, probe, limit).by = by
<1> DEFINE r1 == Proof!Receipt(by, "process", TRUE, probe)
           r2 == Proof!Receipt(by, "filesystem", TRUE, probe)
           r3 == Proof!Receipt(by, "network", TRUE, probe)
           r4 == Proof!Receipt(by, "user", TRUE, probe)
           r5 == Proof!Receipt(by, "capabilities", TRUE, probe)
           r6 == Proof!Receipt(by, "limits", limit.attempted, limit.success)
           r7 == Proof!Receipt(by, "secrets", TRUE, probe)
           claims == (IF probe THEN Proof!Sandbox \union {"secrets"} ELSE {})
                       \union (IF limit.success THEN {"limits"} ELSE {})
           a == Proof!Wrapped(by, probe, limit)
<1>1. /\ r1.control = "process" /\ r2.control = "filesystem" /\ r3.control = "network"
      /\ r4.control = "user"
      /\ r5.control = "capabilities" /\ r6.control = "limits" /\ r7.control = "secrets"
      /\ r1.id = "process" /\ r2.id = "filesystem" /\ r3.id = "network" /\ r4.id = "user"
      /\ r5.id = "capabilities" /\ r6.id = "limits" /\ r7.id = "secrets"
      /\ r1.by = by /\ r2.by = by /\ r3.by = by /\ r4.by = by /\ r5.by = by /\ r6.by = by
      /\ r7.by = by
      /\ r1.success = probe /\ r2.success = probe /\ r3.success = probe /\ r4.success = probe
      /\ r5.success = probe /\ r7.success = probe
      /\ (r6.success <=> limit.success)
  BY DEF Proof!Receipt
<1>2. Proof!Sound(r1) /\ Proof!Sound(r2) /\ Proof!Sound(r3) /\ Proof!Sound(r4) /\ Proof!Sound(r5)
      /\ Proof!Sound(r6) /\ Proof!Sound(r7)
  BY ProofLimitProbeIsSound DEF Proof!Receipt, Proof!Sound
<1>3. a = [by |-> by, claims |-> claims, receipts |-> Proof!InOrder(<<r1, r2, r3, r4, r5, r6, r7>>)]
  BY DEF Proof!Wrapped, Proof!Attestation
<1> HIDE DEF r1, r2, r3, r4, r5, r6, r7, a
<1> DEFINE receipts == <<r1, r2, r3, r4, r5, r6, r7>>
<1>4. Proof!InOrder(receipts) = receipts
  BY <1>1, ProofSevenInOrder
<1>5. /\ DOMAIN receipts = 1 .. 7 /\ receipts[1] = r1 /\ receipts[2] = r2 /\ receipts[3] = r3
      /\ receipts[4] = r4 /\ receipts[5] = r5 /\ receipts[6] = r6 /\ receipts[7] = r7
  OBVIOUS
<1>6. a.by = by /\ a.claims = claims /\ a.receipts = receipts
  BY <1>3, <1>4
<1> HIDE DEF receipts
<1>7. \A k \in 1 .. 7 : k = 1 \/ k = 2 \/ k = 3 \/ k = 4 \/ k = 5 \/ k = 6 \/ k = 7
  OBVIOUS
<1>8. \A k \in 1 .. 7 : Proof!Sound(receipts[k]) /\ receipts[k].by = by
  BY <1>1, <1>2, <1>5, <1>7
<1>9. \A j, k \in 1 .. 7 : receipts[j].id = receipts[k].id => j = k
  BY <1>1, <1>5, <1>7
<1>10. \A c \in claims : \E k \in 1 .. 7 : receipts[k].control = c /\ receipts[k].success
  BY <1>1, <1>5 DEF Proof!Sandbox
<1> HIDE DEF claims
<1>11. a = [by |-> a.by, claims |-> a.claims, receipts |-> a.receipts]
  BY <1>3, <1>4, <1>6 DEF receipts
<1>12. Proof!Acceptable(a)
  BY <1>5, <1>6, <1>8, <1>9, <1>10 DEF Proof!Acceptable
<1> QED
  BY <1>4, <1>6, <1>11, <1>12 DEF ProofStanding, a

-----------------------------------------------------------------------------
LEMMA ProofAttestedStands == ProofProviderInv => \A a \in Proof!Attested : ProofStanding(a)
  /\ a.by = "provider"
<1> SUFFICES ASSUME ProofProviderInv, NEW a \in Proof!Attested
    PROVE ProofStanding(a) /\ a.by = "provider"
  OBVIOUS
<1>1. CASE proofProvider.kind = "trusted-local"
  <2>1. a = Proof!Unverified("provider")
    BY <1>1 DEF Proof!Attested
  <2> QED
    BY <2>1, ProofUnverifiedStands
<1>2. CASE proofProvider.kind = "network-contained"
  <2>1. PICK u \in Proof!Tool("unshare"), l \in Proof!LimitProbes : a = Proof!Namespaced("provider",
        u, l)
    BY <1>2 DEF Proof!Attested
  <2>2. u \in BOOLEAN
    BY DEF Proof!Tool
  <2> QED
    BY <2>1, <2>2, ProofNamespacedStands
<1>3. CASE proofProvider.kind = "filesystem-contained"
  <2>1. PICK l \in Proof!LimitProbes : a = Proof!Wrapped("provider", proofProvider.probe, l)
    BY <1>3 DEF Proof!Attested
  <2>2. proofProvider.probe \in BOOLEAN
    BY <1>3 DEF ProofProviderInv
  <2> QED
    BY <2>1, <2>2, ProofWrappedStands
<1> QED
  BY <1>1, <1>2, <1>3 DEF ProofProviderInv

(* What stands is valid when it has just been bound.                       *)
LEMMA ProofBoundIsValid ==
  ASSUME NEW a, ProofStanding(a), NEW expected, expected = "any" \/ a.by = expected
  PROVE  Proof!Valid(Proof!Bind(a), expected)
<1> DEFINE receipt == Proof!Bind(a)
<1>1. receipt.attestation = a /\ receipt.print = a /\ receipt.projection = Proof!Projection(a)
  BY DEF Proof!Bind
<1> HIDE DEF receipt
<1>2. Proof!Attestation(a.by, a.claims, a.receipts) = a
  BY DEF ProofStanding, Proof!Attestation
<1>3. Proof!Valid(receipt, expected)
  BY <1>1, <1>2 DEF Proof!Valid, ProofStanding
<1> QED
  BY <1>3 DEF receipt

LEMMA ProofBoundIsWhole == \A a : ProofWhole(Proof!Bind(a)) /\ Proof!Bind(a) # Proof!NoReceipt
  /\ Proof!Bind(a).attestation = a
<1> TAKE a
<1>1. DOMAIN Proof!Bind(a) = {"attestation", "print", "projection"}
      /\ DOMAIN Proof!NoReceipt = {"attestation"}
  BY DEF Proof!Bind, Proof!NoReceipt
<1>2. "print" \in DOMAIN Proof!Bind(a) /\ "print" \notin DOMAIN Proof!NoReceipt
  BY <1>1
<1> QED
  BY <1>2 DEF Proof!Bind, ProofWhole

LEMMA ProofKeepKeeps ==
  ASSUME NEW a, ProofStanding(a), NEW expected \in {"provider", "direct"}, a.by = expected,
    Proof!Keep(Proof!Bind(a), expected)
  PROVE  ProofReceiptInv'
<1>1. proofBound' = Proof!Bind(a) /\ proofStored' = Proof!Bind(a) /\ proofChanges' = 0
      /\ proofVerdict' = Proof!Verdict(Proof!Bind(a), expected)
  BY DEF Proof!Keep
<1>2. Proof!Valid(Proof!Bind(a), expected) /\ Proof!Valid(Proof!Bind(a), "any")
  BY ProofBoundIsValid
<1>3. proofVerdict' = "accepted"
  BY <1>1, <1>2 DEF Proof!Verdict
<1>4. Proof!Bind(a).attestation = a
  BY ProofBoundIsWhole
<1> QED
  BY <1>1, <1>2, <1>3, <1>4 DEF ProofReceiptInv, Proof!Valid

(* One part changes, and the two others are as they were.                  *)
LEMMA ProofDifferLeavesTwo ==
  ASSUME ProofWhole(proofStored), Proof!Differ
  PROVE  /\ ProofWhole(proofStored)'
         /\ \/ proofStored'.print = proofStored.print
               /\ proofStored'.projection = proofStored.projection
            \/ proofStored'.attestation = proofStored.attestation
               /\ proofStored'.projection = proofStored.projection
            \/ proofStored'.attestation = proofStored.attestation
               /\ proofStored'.print = proofStored.print
<1> DEFINE P == [attestation |-> proofStored.attestation, print |-> proofStored.print,
    projection |-> proofStored.projection]
           WithAttestation(y) == [attestation |-> y, print |-> proofStored.print,
             projection |-> proofStored.projection]
           WithPrint(y) == [attestation |-> proofStored.attestation, print |-> y,
             projection |-> proofStored.projection]
           WithProjection(y) == [attestation |-> proofStored.attestation,
             print |-> proofStored.print, projection |-> y]
<1>1. proofStored = P
  BY DEF ProofWhole
<1>2. \A y : /\ [proofStored EXCEPT !.attestation = y] = WithAttestation(y)
             /\ [proofStored EXCEPT !.print = y] = WithPrint(y)
             /\ [proofStored EXCEPT !.projection = y] = WithProjection(y)
  BY <1>1
<1>3. \E y : proofStored' \in {WithAttestation(y), WithPrint(y), WithProjection(y)}
  <2> DEFINE a == proofStored.attestation
             n == Len(a.receipts)
  <2>1. CASE \E c \in {"network",
        "limits"} : proofStored' = [proofStored EXCEPT !.attestation.claims = Proof!Toggle(@, c)]
    BY <1>2, <2>1
  <2>2. CASE \E c \in {"network",
        "limits"} : proofStored' = [proofStored EXCEPT !.projection.claims = Proof!Toggle(@, c)]
    BY <1>2, <2>2
  <2>3. CASE proofStored' = [proofStored EXCEPT !.projection.sandboxed = ~@]
    BY <1>2, <2>3
  <2>4. CASE proofStored' = [proofStored EXCEPT !.attestation.by = "another"]
    BY <1>2, <2>4
  <2>5. CASE proofStored' = [proofStored EXCEPT !.print = proofStored.attestation]
    BY <1>2, <2>5
  <2>6. CASE proofStored' = [proofStored EXCEPT !.attestation.receipts = Tail(@)]
    BY <1>2, <2>6
  <2>7. CASE proofStored' = [proofStored EXCEPT !.attestation.receipts = Tail(@) \o <<Head(@)>>]
    BY <1>2, <2>7
  <2>8. CASE proofStored' = [proofStored EXCEPT !.attestation.receipts = Append(@, @[n])]
    BY <1>2, <2>8
  <2>9. CASE proofStored' = [proofStored EXCEPT !.attestation.receipts[1].success = ~@]
    <3> DEFINE y == [a EXCEPT !.receipts[1].success = ~a.receipts[1].success]
    <3>1. proofStored' = [proofStored EXCEPT !.attestation = y]
      BY <2>9, Zenon
    <3> HIDE DEF y
    <3> QED
      BY <1>2, <3>1
  <2>10. CASE proofStored' = [proofStored EXCEPT !.attestation.receipts[1].attempted = ~@]
    <3> DEFINE y == [a EXCEPT !.receipts[1].attempted = ~a.receipts[1].attempted]
    <3>1. proofStored' = [proofStored EXCEPT !.attestation = y]
      BY <2>10, Zenon
    <3> HIDE DEF y
    <3> QED
      BY <1>2, <3>1
  <2>11. CASE proofStored' = [proofStored EXCEPT !.attestation.receipts[1].by = "another"]
    BY <1>2, <2>11
  <2> QED
    BY <2>1, <2>2, <2>3, <2>4, <2>5, <2>6, <2>7, <2>8, <2>9, <2>10, <2>11 DEF Proof!Differ
<1> QED
  BY <1>3 DEF ProofWhole

LEMMA ProofChangeKeeps ==
  ASSUME ProofReceiptInv, Proof!Change
  PROVE  ProofReceiptInv'
<1>1. proofStored # Proof!NoReceipt /\ Proof!Differ /\ proofChanges' = proofChanges + 1
      /\ proofVerdict' = "none" /\ proofBound' = proofBound
  BY DEF Proof!Change
<1>2. proofChanges \in Nat /\ ProofStanding(proofBound.attestation)
      /\ proofBound = Proof!Bind(proofBound.attestation)
  BY <1>1 DEF ProofReceiptInv
<1>3. proofBound # Proof!NoReceipt /\ ProofWhole(proofBound)
  BY <1>2, ProofBoundIsWhole
<1>4. CASE proofChanges = 0
  <2>1. proofStored = proofBound
    BY <1>4 DEF ProofReceiptInv
  <2>2. ProofWhole(proofStored)' /\ ProofOnePartDiffers'
    <3>1. ProofWhole(proofStored)
      BY <1>3, <2>1
    <3> QED
      BY <1>1, <2>1, <3>1, ProofDifferLeavesTwo DEF ProofOnePartDiffers
  <2> QED
    BY <1>1, <1>2, <1>3, <1>4, <2>2 DEF ProofReceiptInv
<1>5. CASE proofChanges # 0
  BY <1>1, <1>2, <1>5 DEF ProofReceiptInv
<1> QED
  BY <1>4, <1>5

LEMMA ProofValidateKeeps ==
  ASSUME ProofReceiptInv, NEW expected \in {"any", "provider"}, Proof!Validate(expected)
  PROVE  ProofReceiptInv'
<1>1. /\ proofStored # Proof!NoReceipt /\ proofVerdict' = Proof!Verdict(proofStored, expected)
      /\ proofBound' = proofBound /\ proofStored' = proofStored /\ proofChanges' = proofChanges
  BY DEF Proof!Validate
<1>2. Proof!Valid(proofStored, expected) => Proof!Valid(proofStored, "any")
  BY DEF Proof!Valid
<1>3. proofVerdict' = "accepted" => Proof!Valid(proofStored, "any")
  BY <1>1, <1>2 DEF Proof!Verdict
<1>4. ASSUME proofVerdict' = "refused", proofChanges = 0
      PROVE  proofStored.attestation.by # "provider"
  <2>1. proofStored = proofBound /\ ProofStanding(proofBound.attestation)
        /\ proofBound = Proof!Bind(proofBound.attestation)
    BY <1>1, <1>4 DEF ProofReceiptInv
  <2>2. ~Proof!Valid(proofStored, expected)
    BY <1>1, <1>4 DEF Proof!Verdict
  <2> QED
    BY <2>1, <2>2, ProofBoundIsValid
<1>5. Proof!Valid(proofStored, "any")' <=> Proof!Valid(proofStored, "any")
  BY <1>1 DEF Proof!Valid, Proof!Acceptable
<1> QED
  BY <1>1, <1>3, <1>4, <1>5 DEF ProofReceiptInv, ProofWhole, ProofOnePartDiffers

-----------------------------------------------------------------------------
(* What a provider attests of itself was probed of its host.               *)
LEMMA ProofReportKeeps == ProofProviderInv /\ Proof!Report => Proof!ReportIsOfAProbe'
<1> SUFFICES ASSUME ProofProviderInv, Proof!Report PROVE Proof!ReportIsOfAProbe'
  OBVIOUS
<1>1. PICK a \in Proof!Attested :
        proofReport' = [sandboxed |-> Proof!Sandbox \subseteq a.claims,
                   claims |-> a.claims \intersect {"network", "filesystem", "process"}]
  BY DEF Proof!Report
<1>2. proofHost' = proofHost
  BY DEF Proof!Report
<1>3. /\ "filesystem" \in a.claims => {"bwrap", "scrub"} \subseteq proofHost.tools
      /\ "network" \in a.claims => proofHost.tools \intersect {"unshare", "bwrap"} # {}
  <2>1. CASE proofProvider.kind = "trusted-local"
    BY <2>1 DEF Proof!Attested, Proof!Unverified, Proof!Attestation
  <2>2. CASE proofProvider.kind = "network-contained"
    <3>1. PICK u \in Proof!Tool("unshare"),
          l \in Proof!LimitProbes : a = Proof!Namespaced("provider", u, l)
      BY <2>2 DEF Proof!Attested
    <3>2. a.claims = {"secrets"} \union (IF u THEN {"network", "user"} ELSE {})
                       \union (IF l.success THEN {"limits"} ELSE {})
      BY <3>1 DEF Proof!Namespaced, Proof!Attestation
    <3>3. u => "unshare" \in proofHost.tools
      BY DEF Proof!Tool
    <3> QED
      BY <3>2, <3>3
  <2>3. CASE proofProvider.kind = "filesystem-contained"
    <3>1. "bwrap" \in proofHost.tools /\ "scrub" \in proofHost.tools
      <4>1. TRUE \in Proof!BwrapProbe
        BY <2>3 DEF ProofProviderInv
      <4>2. TRUE \in Proof!Tool("bwrap") /\ TRUE \in Proof!Tool("scrub")
        BY <4>1 DEF Proof!BwrapProbe
      <4> QED
        BY <4>2 DEF Proof!Tool
    <3> QED
      BY <3>1
  <2> QED
    BY <2>1, <2>2, <2>3 DEF ProofProviderInv
<1>4. Proof!Sandbox \subseteq a.claims
        => {"network", "filesystem", "process"} \subseteq a.claims \intersect {"network",
          "filesystem", "process"}
  BY DEF Proof!Sandbox
<1>5. /\ proofReport'.sandboxed <=> Proof!Sandbox \subseteq a.claims
      /\ proofReport'.claims = a.claims \intersect {"network", "filesystem", "process"}
  BY <1>1
<1>6. ASSUME proofReport'.sandboxed
      PROVE {"network", "filesystem", "process"} \subseteq proofReport'.claims
  BY <1>4, <1>5, <1>6
<1>7. /\ "filesystem" \in proofReport'.claims => {"bwrap", "scrub"} \subseteq proofHost'.tools
      /\ "network" \in proofReport'.claims => proofHost'.tools \intersect {"unshare", "bwrap"} # {}
  BY <1>2, <1>3, <1>5
<1> QED
  BY <1>6, <1>7 DEF Proof!ReportIsOfAProbe, Proof!Granted

LEMMA ProofInitial == Proof!Init => ProofInv
<1> SUFFICES ASSUME Proof!Init PROVE ProofInv
  OBVIOUS
<1>1. ProofProviderInv
  BY DEF Proof!Init, ProofProviderInv
<1>2. ProofReceiptInv
  BY DEF Proof!Init, ProofReceiptInv
<1>3. Proof!ReportIsOfAProbe
  BY DEF Proof!Init, Proof!ReportIsOfAProbe, Proof!Granted
<1> QED
  BY <1>1, <1>2, <1>3 DEF ProofInv

LEMMA ProofHostAndReportStay ==
  /\ ProofProviderInv /\ UNCHANGED <<proofHost, proofProvider>> => ProofProviderInv'
  /\ Proof!ReportIsOfAProbe /\ UNCHANGED <<proofHost, proofReport>> => Proof!ReportIsOfAProbe'
<1>1. proofHost' = proofHost => Proof!BwrapProbe' = Proof!BwrapProbe
  BY DEF Proof!BwrapProbe, Proof!Tool
<1>2. ProofProviderInv /\ UNCHANGED <<proofHost, proofProvider>> => ProofProviderInv'
  BY <1>1 DEF ProofProviderInv
<1>3. ASSUME Proof!ReportIsOfAProbe, UNCHANGED <<proofHost, proofReport>>
      PROVE  Proof!ReportIsOfAProbe'
  <2>1. \A name : Proof!Granted(name)' <=> Proof!Granted(name)
    BY <1>3 DEF Proof!Granted
  <2> QED
    BY <1>3, <2>1 DEF Proof!ReportIsOfAProbe
<1> QED
  BY <1>2, <1>3

LEMMA ProofReceiptsStay == ProofReceiptInv /\ UNCHANGED <<proofBound, proofStored, proofChanges,
  proofVerdict>> => ProofReceiptInv'
<1> SUFFICES ASSUME ProofReceiptInv, UNCHANGED <<proofBound, proofStored, proofChanges,
    proofVerdict>> PROVE ProofReceiptInv'
  OBVIOUS
<1>1. (Proof!Valid(proofStored, "any")' <=> Proof!Valid(proofStored, "any"))
      /\ (ProofWhole(proofStored)' <=> ProofWhole(proofStored))
  BY DEF Proof!Valid, Proof!Acceptable, ProofWhole
<1> QED
  BY <1>1 DEF ProofReceiptInv, ProofOnePartDiffers

LEMMA ProofInductive == ProofInv /\ [Proof!Next]_Proof!vars => ProofInv'
<1> SUFFICES ASSUME ProofInv, [Proof!Next]_Proof!vars PROVE ProofInv'
  OBVIOUS
<1>0. ProofProviderInv /\ ProofReceiptInv /\ Proof!ReportIsOfAProbe
  BY DEF ProofInv
<1>1. CASE UNCHANGED Proof!vars
  BY <1>0, <1>1, ProofHostAndReportStay, ProofReceiptsStay DEF Proof!vars, ProofInv
<1>2. ASSUME NEW kind \in {"trusted-local", "network-contained", "filesystem-contained"},
      Proof!MakeProvider(kind)
      PROVE  ProofInv'
  <2>1. UNCHANGED <<proofHost, proofBound, proofStored, proofChanges, proofVerdict, proofReport>>
    BY <1>2 DEF Proof!MakeProvider
  <2>2. ProofProviderInv'
    <3>1. Proof!BwrapProbe' = Proof!BwrapProbe
      BY <2>1 DEF Proof!BwrapProbe, Proof!Tool
    <3>2. CASE kind = "filesystem-contained"
      <4>1. TRUE \in Proof!BwrapProbe /\ proofProvider' = [kind |-> kind, probe |-> TRUE]
        BY <1>2, <3>2 DEF Proof!MakeProvider
      <4> QED
        BY <3>1, <4>1 DEF ProofProviderInv
    <3>3. CASE kind # "filesystem-contained"
      <4>1. proofProvider' = [kind |-> kind, probe |-> FALSE]
        BY <1>2, <3>3 DEF Proof!MakeProvider
      <4> QED
        BY <3>3, <4>1 DEF ProofProviderInv
    <3> QED
      BY <3>2, <3>3
  <2> QED
    BY <1>0, <2>1, <2>2, ProofHostAndReportStay, ProofReceiptsStay DEF ProofInv
<1>3. ASSUME NEW kind \in {"trusted-local", "network-contained", "filesystem-contained"},
      Proof!DirectRun(kind)
      PROVE  ProofInv'
  <2>1. UNCHANGED <<proofHost, proofProvider, proofReport>>
    BY <1>3 DEF Proof!DirectRun
  <2>2. \E a : ProofStanding(a) /\ a.by = "direct" /\ Proof!Keep(Proof!Bind(a), "direct")
    <3>1. CASE kind = "trusted-local"
      BY <1>3, <3>1, ProofUnverifiedStands DEF Proof!DirectRun
    <3>2. CASE kind = "network-contained"
      BY <1>3, <3>2, ProofNamespacedStands DEF Proof!DirectRun
    <3>3. CASE kind = "filesystem-contained"
      BY <1>3, <3>3, ProofUnverifiedStands DEF Proof!DirectRun
    <3> QED
      BY <3>1, <3>2, <3>3
  <2> QED
    BY <1>0, <2>1, <2>2, ProofKeepKeeps, ProofHostAndReportStay DEF ProofInv
<1>4. CASE Proof!Run
  <2>1. UNCHANGED <<proofHost, proofProvider, proofReport>>
    BY <1>4 DEF Proof!Run
  <2>2. PICK a \in Proof!Attested : a.by = "provider" /\ Proof!Keep(Proof!Bind(a), "provider")
    BY <1>4 DEF Proof!Run
  <2>3. ProofStanding(a)
    BY <1>0, ProofAttestedStands
  <2> QED
    BY <1>0, <2>1, <2>2, <2>3, ProofKeepKeeps, ProofHostAndReportStay DEF ProofInv
<1>5. CASE Proof!Report
  <2>1. UNCHANGED <<proofHost, proofProvider, proofBound, proofStored, proofChanges, proofVerdict>>
    BY <1>5 DEF Proof!Report
  <2> QED
    BY <1>0, <1>5, <2>1, ProofReportKeeps, ProofHostAndReportStay, ProofReceiptsStay DEF ProofInv
<1>6. CASE Proof!Change
  <2>1. UNCHANGED <<proofHost, proofProvider, proofReport>>
    BY <1>6 DEF Proof!Change
  <2> QED
    BY <1>0, <1>6, <2>1, ProofChangeKeeps, ProofHostAndReportStay DEF ProofInv
<1>7. ASSUME NEW expected \in {"any", "provider"}, Proof!Validate(expected)
      PROVE  ProofInv'
  <2>1. UNCHANGED <<proofHost, proofProvider, proofReport>>
    BY <1>7 DEF Proof!Validate
  <2> QED
    BY <1>0, <1>7, <2>1, ProofValidateKeeps, ProofHostAndReportStay DEF ProofInv
<1> QED
  BY <1>1, <1>2, <1>3, <1>4, <1>5, <1>6, <1>7 DEF Proof!Next

(* However a stored receipt changes, one that is accepted claims no more   *)
(* than its own provider's probes showed and differs from what was bound   *)
(* in more than one part or in none; a run's own receipt is valid; and the *)
(* capabilities reported of a host have been probed.                       *)
THEOREM ProofEvidenceAlwaysHolds == Proof!Spec => []Proof!EvidenceHolds
<1>1. ProofInv => Proof!EvidenceHolds
  <2> SUFFICES ASSUME ProofInv PROVE Proof!EvidenceHolds
    OBVIOUS
  <2>0. ProofReceiptInv
    BY DEF ProofInv
  <2>1. Proof!AcceptedIsSupported
    <3> SUFFICES ASSUME proofVerdict = "accepted" PROVE Proof!AcceptedIsSupported
      BY DEF Proof!AcceptedIsSupported
    <3> DEFINE a == proofStored.attestation
    <3>1. Proof!Acceptable(a) /\ proofStored.projection = Proof!Projection(a)
      BY <2>0 DEF ProofReceiptInv, Proof!Valid
    <3>2. proofStored.projection.claims = a.claims
      BY <3>1 DEF Proof!Projection
    <3>4. proofStored.projection.sandboxed = (Proof!Sandbox \subseteq a.claims)
      BY <3>1 DEF Proof!Projection
    <3>3. \A c \in a.claims : \E k \in DOMAIN a.receipts :
            /\ a.receipts[k].control = c /\ a.receipts[k].by = a.by
            /\ a.receipts[k].attempted /\ a.receipts[k].success
      BY <3>1 DEF Proof!Acceptable, Proof!Sound
    <3> QED
      BY <3>2, <3>3, <3>4 DEF Proof!AcceptedIsSupported
  <2>2. Proof!OneDifferenceIsSeen
    <3> SUFFICES ASSUME proofVerdict = "accepted", proofChanges = 1 PROVE proofStored = proofBound
      BY DEF Proof!OneDifferenceIsSeen
    <3>1. /\ ProofWhole(proofStored) /\ ProofOnePartDiffers /\ proofBound # Proof!NoReceipt
          /\ proofStored.attestation = proofStored.print
          /\ proofStored.projection = Proof!Projection(proofStored.attestation)
      BY <2>0 DEF ProofReceiptInv, Proof!Valid
    <3>2. proofBound = Proof!Bind(proofBound.attestation)
      BY <2>0, <3>1 DEF ProofReceiptInv
    <3>3. proofBound.print = proofBound.attestation
          /\ proofBound.projection = Proof!Projection(proofBound.attestation)
      BY <3>2 DEF Proof!Bind
    <3>4. ProofWhole(proofBound)
      BY <3>2, ProofBoundIsWhole
    <3>5. proofStored.attestation = proofBound.attestation
      BY <3>1, <3>3 DEF ProofOnePartDiffers
    <3> QED
      BY <3>1, <3>3, <3>4, <3>5 DEF ProofWhole
  <2>3. Proof!OwnReceiptIsValid
    BY <2>0 DEF ProofReceiptInv, Proof!OwnReceiptIsValid
  <2> QED
    BY <2>1, <2>2, <2>3 DEF ProofInv, Proof!EvidenceHolds
<1> QED
  BY <1>1, ProofInitial, ProofInductive, PTL DEF Proof!Spec

LEMMA ProofReportTyped == proofReport.claims \subseteq DOMAIN Proof!Place /\ [Proof!Next]_Proof!vars
  => (proofReport.claims \subseteq DOMAIN Proof!Place)'
<1> SUFFICES ASSUME proofReport.claims \subseteq DOMAIN Proof!Place, [Proof!Next]_Proof!vars
             PROVE  (proofReport.claims \subseteq DOMAIN Proof!Place)'
  OBVIOUS
<1>1. CASE proofReport' = proofReport
  BY <1>1 DEF Proof!Place
<1>2. CASE Proof!Report
  <2>1. proofReport'.claims \subseteq {"network", "filesystem", "process"}
    BY <1>2 DEF Proof!Report
  <2>2. {"network", "filesystem", "process"} \subseteq DOMAIN Proof!Place
    BY DEF Proof!Place
  <2>3. (DOMAIN Proof!Place)' = DOMAIN Proof!Place
    BY DEF Proof!Place
  <2> QED
    BY <2>1, <2>2, <2>3
<1> QED
  BY <1>1, <1>2
    DEF Proof!Next, Proof!vars, Proof!MakeProvider, Proof!DirectRun, Proof!Run, Proof!Change,
      Proof!Validate

LEMMA ProofCountTyped ==
  ASSUME MaxReceiptChanges \in Nat, proofChanges \in 0 .. MaxReceiptChanges,
    proofVerdict \in {"none", "accepted", "refused"}, [Proof!Next]_Proof!vars
  PROVE  proofChanges' \in 0 .. MaxReceiptChanges
    /\ proofVerdict' \in {"none", "accepted", "refused"}
<1>0. \A receipt, expected : Proof!Verdict(receipt, expected) \in {"accepted", "refused"}
  BY DEF Proof!Verdict
<1>1. CASE UNCHANGED <<proofChanges, proofVerdict>>
  BY <1>1
<1>2. CASE \E receipt, expected : Proof!Keep(receipt, expected)
  BY <1>0, <1>2 DEF Proof!Keep
<1>3. CASE Proof!Change
  BY <1>3 DEF Proof!Change
<1>4. CASE \E expected \in {"any", "provider"} : Proof!Validate(expected)
  BY <1>0, <1>4 DEF Proof!Validate
<1>5. CASE Proof!Run
  <2>1. \E a \in Proof!Attested : Proof!Keep(Proof!Bind(a), "provider")
    BY <1>5 DEF Proof!Run
  <2> QED
    BY <1>2, <2>1
<1>6. ASSUME NEW kind \in {"trusted-local", "network-contained", "filesystem-contained"},
      Proof!DirectRun(kind)
      PROVE  \E receipt, expected : Proof!Keep(receipt, expected)
  BY <1>6 DEF Proof!DirectRun
<1> QED
  BY <1>1, <1>2, <1>3, <1>4, <1>5, <1>6 DEF Proof!Next, Proof!vars, Proof!MakeProvider, Proof!Report

(* Every variable keeps its type, for any hosts, limits and bounds. *)
THEOREM ProofTypeCorrect ==
  ASSUME MaxReceiptChanges \in Nat
  PROVE  Proof!Spec => []Proof!TypeOK
<1>1. Proof!Init => Proof!TypeOK
  BY DEF Proof!Init, Proof!TypeOK, Proof!NoReceipt, Proof!Place
<1>2. Proof!TypeOK /\ ProofInv /\ [Proof!Next]_Proof!vars => Proof!TypeOK'
  <2> SUFFICES ASSUME Proof!TypeOK, ProofInv, [Proof!Next]_Proof!vars PROVE Proof!TypeOK'
    OBVIOUS
  <2>1. ProofInv'
    BY ProofInductive
  <2> QED
    BY <2>1, ProofCountTyped, ProofReportTyped DEF Proof!TypeOK, ProofInv, ProofProviderInv
<1> QED
  BY <1>1, <1>2, ProofInitial, ProofInductive, PTL DEF Proof!Spec

(* The variables of the instance, by either name. *)
LEMMA ProofVarsAre == ProofVars' = ProofVars <=> Proof!vars' = Proof!vars
BY DEF ProofVars, Proof!vars

-----------------------------------------------------------------------------
(* Side by side: the scene stays, and its component keeps its own laws.    *)

LEMMA ServerScene ==
  RuntimeSpec => /\ Playing("server") => Lsp!Spec /\ []Playing("server")
                 /\ ~Playing("server") => []~Playing("server")
<1>1. RuntimeInit /\ Playing("server") => Lsp!Init
  BY DEF RuntimeInit, Testing, Playing
<1>2. [RuntimeNext]_RuntimeVars /\ Playing("server") => [Lsp!Next]_Lsp!vars /\ Playing("server")'
  BY LspVarsAre, ScipVarsAre, TestsVarsAre, ProofVarsAre
    DEF RuntimeNext, RuntimeVars, RuntimeOwn, Testing, Playing
<1>3. [RuntimeNext]_RuntimeVars /\ ~Playing("server") => ~Playing("server")'
  BY DEF RuntimeNext, RuntimeVars, Playing
<1> QED  BY <1>1, <1>2, <1>3, PTL DEF RuntimeSpec, Lsp!Spec

LEMMA ScipScene ==
  RuntimeSpec => /\ Playing("scip") => Scip!Spec /\ []Playing("scip")
                 /\ ~Playing("scip") => []~Playing("scip")
<1>1. RuntimeInit /\ Playing("scip") => Scip!Init
  BY DEF RuntimeInit, Testing, Playing
<1>2. [RuntimeNext]_RuntimeVars /\ Playing("scip") => [Scip!Next]_Scip!vars /\ Playing("scip")'
  BY LspVarsAre, ScipVarsAre, TestsVarsAre, ProofVarsAre
    DEF RuntimeNext, RuntimeVars, RuntimeOwn, Testing, Playing
<1>3. [RuntimeNext]_RuntimeVars /\ ~Playing("scip") => ~Playing("scip")'
  BY DEF RuntimeNext, RuntimeVars, Playing
<1> QED  BY <1>1, <1>2, <1>3, PTL DEF RuntimeSpec, Scip!Spec

LEMMA TestsScene ==
  RuntimeSpec => /\ Testing => Tests!Spec /\ []Testing
                 /\ ~Testing => []~Testing
<1>1. RuntimeInit /\ Testing => Tests!Init
  BY DEF RuntimeInit, Testing, Playing
<1>2. [RuntimeNext]_RuntimeVars /\ Testing => [Tests!Next]_Tests!vars /\ Testing'
  BY LspVarsAre, ScipVarsAre, TestsVarsAre, ProofVarsAre
    DEF RuntimeNext, RuntimeVars, RuntimeOwn, Testing, Playing
<1>3. [RuntimeNext]_RuntimeVars /\ ~Testing => ~Testing'
  BY DEF RuntimeNext, RuntimeVars, Testing, Playing
<1> QED  BY <1>1, <1>2, <1>3, PTL DEF RuntimeSpec, Tests!Spec

LEMMA ProofScene ==
  RuntimeSpec => /\ Playing("proof") => Proof!Spec /\ []Playing("proof")
                 /\ ~Playing("proof") => []~Playing("proof")
<1>1. RuntimeInit /\ Playing("proof") => Proof!Init
  BY DEF RuntimeInit, Testing, Playing
<1>2. [RuntimeNext]_RuntimeVars /\ Playing("proof")
        => [Proof!Next]_Proof!vars /\ Playing("proof")'
  BY LspVarsAre, ScipVarsAre, TestsVarsAre, ProofVarsAre
    DEF RuntimeNext, RuntimeVars, RuntimeOwn, Testing, Playing
<1>3. [RuntimeNext]_RuntimeVars /\ ~Playing("proof") => ~Playing("proof")'
  BY DEF RuntimeNext, RuntimeVars, Testing, Playing
<1> QED  BY <1>1, <1>2, <1>3, PTL DEF RuntimeSpec, Proof!Spec

(* Every runtime keeps its types, for any callers, indexes, tasks, hosts   *)
(* and bounds.                                                             *)
THEOREM RuntimeAlwaysTyped ==
  ASSUME LspSensible, ScipSensible, TestsSensible, MaxReceiptChanges \in Nat
  PROVE  RuntimeSpec => []RuntimeTyped
<1>1. /\ ~Playing("server") \/ Lsp!TypeOK
      /\ ~Playing("scip") \/ Scip!TypeOK
      /\ ~Testing \/ Tests!TypeOK
      /\ ~Playing("proof") \/ Proof!TypeOK
      => RuntimeTyped
  BY DEF RuntimeTyped
<1>2. RuntimeSpec => [](~Playing("server") \/ Lsp!TypeOK)
  BY ServerScene, LspTypeCorrect, PTL
<1>3. RuntimeSpec => [](~Playing("scip") \/ Scip!TypeOK)
  BY ScipScene, ScipTypeCorrect, PTL
<1>4. RuntimeSpec => [](~Testing \/ Tests!TypeOK)
  BY TestsScene, TestsTypeCorrect, PTL
<1>5. RuntimeSpec => [](~Playing("proof") \/ Proof!TypeOK)
  BY ProofScene, ProofTypeCorrect, PTL
<1> QED  BY <1>1, <1>2, <1>3, <1>4, <1>5, PTL

(* What a query returns is the answer to its own request, about the text   *)
(* the file has then, for any threads, requests, restarts and edits.       *)
THEOREM AnswersAreAlwaysCurrent ==
  ASSUME LspSensible
  PROVE  RuntimeSpec => AnswerIsCurrent
<1>1. [RuntimeNext]_RuntimeVars /\ [Lsp!AnswerIsCurrentStep]_Lsp!vars
        => [Playing("server") => Lsp!AnswerIsCurrentStep]_RuntimeVars
  BY LspVarsAre, ScipVarsAre, TestsVarsAre, ProofVarsAre
    DEF RuntimeNext, RuntimeVars, RuntimeOwn, Testing, Playing
<1>2. [RuntimeNext]_RuntimeVars /\ ~Playing("server")
        => [Playing("server") => Lsp!AnswerIsCurrentStep]_RuntimeVars
  OBVIOUS
<1> QED
  BY <1>1, <1>2, ServerScene, LspAnswersAreCurrent, PTL
     DEF RuntimeSpec, AnswerIsCurrent, Lsp!AnswerIsCurrent

(* An answer of a SCIP index agrees with the sources in every document     *)
(* nobody edited meanwhile, if no index was activated over other sources.  *)
THEOREM ScipAnswersAreAlwaysAboutSources ==
  ASSUME ScipSensible, "drifted" \notin ScipHazards
  PROVE  RuntimeSpec => AnswersAreAboutSources
<1>1. [RuntimeNext]_RuntimeVars /\ [Scip!AnswersAreAboutSourcesStep]_Scip!vars
        => [Playing("scip") => Scip!AnswersAreAboutSourcesStep]_RuntimeVars
  BY LspVarsAre, ScipVarsAre, TestsVarsAre, ProofVarsAre
    DEF RuntimeNext, RuntimeVars, RuntimeOwn, Testing, Playing
<1>2. [RuntimeNext]_RuntimeVars /\ ~Playing("scip")
        => [Playing("scip") => Scip!AnswersAreAboutSourcesStep]_RuntimeVars
  OBVIOUS
<1> QED
  BY <1>1, <1>2, ScipScene, ScipAnswersAgreeWithSources, PTL
     DEF RuntimeSpec, AnswersAreAboutSources, Scip!AnswersAreAboutSources

(* A command that ran was confined by all its receipt claims, whatever the *)
(* host stops supporting between the probes and the launch, and a receipt  *)
(* is accepted later only if no part of it has changed, on any host.       *)
THEOREM ContainmentIsAlwaysReal ==
  ASSUME TestsSensible
  PROVE  RuntimeSpec => []ContainmentIsReal
<1>1. /\ ~Testing \/ Tests!ContainmentIsReal
      /\ ~Playing("proof") \/ Proof!EvidenceHolds
      => ContainmentIsReal
  BY DEF ContainmentIsReal
<1>2. RuntimeSpec => [](~Testing \/ Tests!ContainmentIsReal)
  BY TestsScene, TestsReceiptsAreTrue, PTL
<1>3. RuntimeSpec => [](~Playing("proof") \/ Proof!EvidenceHolds)
  BY ProofScene, ProofEvidenceAlwaysHolds, PTL
<1> QED  BY <1>1, <1>2, <1>3, PTL

(* A failure on record is resolved only by a run that covered its tests    *)
(* and saw them pass, whatever the tests and the runners.                  *)
THEOREM FailuresAreResolvedOnlyByPass ==
  ASSUME TestsSensible
  PROVE  RuntimeSpec => FailureResolvedOnlyByPass
<1>1. [RuntimeNext]_RuntimeVars /\ [Tests!FailureResolvedOnlyByPassStep]_Tests!vars
        => [Testing => Tests!FailureResolvedOnlyByPassStep]_RuntimeVars
  BY LspVarsAre, ScipVarsAre, TestsVarsAre, ProofVarsAre
    DEF RuntimeNext, RuntimeVars, RuntimeOwn, Testing, Playing
<1>2. [RuntimeNext]_RuntimeVars /\ ~Testing
        => [Testing => Tests!FailureResolvedOnlyByPassStep]_RuntimeVars
  OBVIOUS
<1> QED
  BY <1>1, <1>2, TestsScene, TestsResolvedOnlyByPass, PTL
     DEF RuntimeSpec, FailureResolvedOnlyByPass, Tests!FailureResolvedOnlyByPass
=============================================================================
