-------------------------- MODULE TypeScriptService --------------------------
(***************************************************************************)
(* The persistent TypeScript services of                                   *)
(* src/habitat/semantic/ts_language_service.py and the partition cache     *)
(* that asks them, _typescript_relations_cached of semantic/project.py.    *)
(*                                                                         *)
(* A bounded pool of node processes, one for a root, is shared by the      *)
(* workspaces of a Python process.  A request is a line on stdin and its   *)
(* answer the next line on stdout; a lock for each service keeps two       *)
(* requests apart, but close does not take it, and the service that makes  *)
(* room in the pool may be the one another workspace is talking to.        *)
(* A project is one file here; what is analysed is its text.               *)
(***************************************************************************)
EXTENDS Integers, Sequences

CONSTANTS
  Callers,        \* workspaces, each on a thread of its own
  RootOf,         \* [Callers -> roots]
  Contents, NoFile,
  MaxSessions,    \* _MAX_SESSIONS
  MaxProcs, MaxEdits,
  TypeScriptHazards \* "late edit": a file changes after it was hashed and before the
                    \* service reads it

Roots == {RootOf[c] : c \in Callers}

VARIABLES
  source,         \* the file of each root
  hashed,         \* the digest a caller asks about
  part,           \* semantic-typescript-part: [digest, text] by root
  step,           \* where a caller stands
  mine,           \* the service it was given
  closing,        \* the service it is closing
  pool,           \* _sessions, in the order of insertion
  poolLock,       \* who holds _sessions_lock
  procs,          \* the services ever started
  changes

vars == <<source, hashed, part, step, mine, closing, pool, poolLock, procs, changes>>

None == "none"
NoDoc == [version |-> NoFile, text |-> NoFile]
NoPart == [digest |-> NoFile, text |-> NoFile]
Empty == "empty"  \* no relations: what a failure is recorded as

(* closed: _closed is set; open: the streams are; lock: who talks to it.   *)
Started(root) ==
  [root |-> root, running |-> TRUE, closed |-> FALSE, open |-> TRUE, lock |-> None,
   doc |-> NoDoc, requests |-> <<>>, answers |-> <<>>]

Init ==
  /\ source \in [Roots -> Contents] /\ changes = 0
  /\ hashed = [c \in Callers |-> NoFile] /\ part = [r \in Roots |-> NoPart]
  /\ step = [c \in Callers |-> "idle"]
  /\ mine = [c \in Callers |-> 0] /\ closing = [c \in Callers |-> 0]
  /\ pool = <<>> /\ poolLock = None /\ procs = <<>>

Go(c, to) == step' = [step EXCEPT ![c] = to]

-----------------------------------------------------------------------------
(* _typescript_relations_cached: the program is asked only for a digest    *)
(* that has no part.                                                       *)
Ask(c) ==
  LET digest == source[RootOf[c]] IN
  /\ step[c] = "idle" /\ digest # NoFile /\ part[RootOf[c]].digest # digest
  /\ hashed' = [hashed EXCEPT ![c] = digest]
  /\ Go(c, "getting")
  /\ UNCHANGED <<source, part, mine, closing, pool, poolLock, procs, changes>>

(* An answer, or the nothing that a failure is turned into, is the part.   *)
Keep(c, text) ==
  /\ part' = [part EXCEPT ![RootOf[c]] = [digest |-> hashed[c], text |-> text]]
  /\ Go(c, "idle")

-----------------------------------------------------------------------------
(* close: marked, asked to end, awaited or killed, the streams closed.     *)
(* Whoever finds it marked returns at once.                                *)
Marked(all, p) ==
  IF all[p].closed THEN all
  ELSE [all EXCEPT ![p].closed = TRUE,
                   ![p].requests = IF all[p].running THEN Append(@, [by |-> "close", version |-> NoFile])
                                   ELSE @,
                   ![p].open = all[p].running]

InPool(p) == \E i \in DOMAIN pool : pool[i] = p
ForRoot(root) == {pool[i] : i \in {i \in DOMAIN pool : procs[pool[i]].root = root}}

(* pop of the key whose session is p: the others keep their order.         *)
Without(s, p) ==
  LET at == CHOOSE i \in DOMAIN s : s[i] = p
  IN [i \in 1..Len(s) - 1 |-> IF i < at THEN s[i] ELSE s[i + 1]]

Spawn(c, all, others) ==
  /\ Len(all) < MaxProcs
  /\ procs' = Append(all, Started(RootOf[c]))
  /\ pool' = Append(others, Len(all) + 1)
  /\ mine' = [mine EXCEPT ![c] = Len(all) + 1]
  /\ poolLock' = None
  /\ Go(c, "checking")

(* A new session, for which the oldest of a full pool is closed, under the *)
(* lock of the pool.                                                       *)
Make(c, all, others) ==
  IF Len(others) < MaxSessions
  THEN Spawn(c, all, others) /\ UNCHANGED closing
  ELSE /\ procs' = Marked(all, others[1]) /\ pool' = Tail(others)
       /\ closing' = [closing EXCEPT ![c] = others[1]]
       /\ poolLock' = c /\ Go(c, "evicting") /\ UNCHANGED mine

(* get_typescript_session: the one of the root if it runs; one that does   *)
(* not is closed and makes place for another.                              *)
Get(c) ==
  /\ step[c] = "getting" /\ poolLock = None
  /\ \/ \E p \in ForRoot(RootOf[c]) :
          IF procs[p].running
          THEN /\ mine' = [mine EXCEPT ![c] = p] /\ Go(c, "checking")
               /\ UNCHANGED <<closing, pool, poolLock, procs>>
          ELSE Make(c, Marked(procs, p), Without(pool, p))
     \/ ForRoot(RootOf[c]) = {} /\ Make(c, procs, pool)
  /\ UNCHANGED <<source, hashed, part, changes>>

Closed(p) == [procs EXCEPT ![p].running = FALSE, ![p].open = FALSE]

Evict(c) ==
  /\ step[c] = "evicting"
  /\ Spawn(c, Closed(closing[c]), pool)
  /\ closing' = [closing EXCEPT ![c] = 0]
  /\ UNCHANGED <<source, hashed, part, changes>>

-----------------------------------------------------------------------------
(* analyze: checked under the lock of the service, then written.           *)
Check(c) ==
  LET p == mine[c] IN
  /\ step[c] = "checking" /\ procs[p].lock = None
  /\ IF procs[p].closed \/ ~procs[p].running
     THEN Keep(c, Empty) /\ UNCHANGED procs
     ELSE procs' = [procs EXCEPT ![p].lock = c] /\ Go(c, "writing") /\ UNCHANGED part
  /\ UNCHANGED <<source, hashed, mine, closing, pool, poolLock, changes>>

Write(c) ==
  LET p == mine[c] IN
  /\ step[c] = "writing"
  /\ IF procs[p].running
     THEN /\ procs' = [procs EXCEPT ![p].requests = Append(@, [by |-> c, version |-> hashed[c]])]
          /\ Go(c, "waiting") /\ UNCHANGED part
     ELSE procs' = [procs EXCEPT ![p].lock = None] /\ Keep(c, Empty)
  /\ UNCHANGED <<source, hashed, mine, closing, pool, poolLock, changes>>

(* The next line, or the end of the stream; a line that is no result fails.*)
Receive(c) ==
  LET p == mine[c] IN
  /\ step[c] = "waiting"
  /\ \/ /\ procs[p].answers # <<>>
        /\ LET a == procs[p].answers[1] IN
             Keep(c, IF a.by = "close" THEN Empty ELSE a.text)
        /\ procs' = [procs EXCEPT ![p].lock = None, ![p].answers = Tail(@)]
     \/ /\ ~procs[p].running /\ (procs[p].answers = <<>> \/ ~procs[p].open)
        /\ procs' = [procs EXCEPT ![p].lock = None] /\ Keep(c, Empty)
  /\ UNCHANGED <<source, hashed, mine, closing, pool, poolLock, changes>>

(* Sensitivity: who is answered too late leaves the service as it is.      *)
TimeOutAlone(c) ==
  /\ step[c] = "waiting" /\ procs[mine[c]].answers = <<>>
  /\ procs' = [procs EXCEPT ![mine[c]].lock = None] /\ Keep(c, Empty)
  /\ UNCHANGED <<source, hashed, mine, closing, pool, poolLock, changes>>

(* No answer in time: the service is closed by who waits for it.           *)
TimeOut(c) ==
  LET p == mine[c] IN
  /\ step[c] = "waiting" /\ procs[p].answers = <<>>
  /\ procs' = Marked(procs, p) /\ closing' = [closing EXCEPT ![c] = p]
  /\ Go(c, "timing out")
  /\ UNCHANGED <<source, hashed, part, mine, pool, poolLock, changes>>

TimedOut(c) ==
  LET p == closing[c] IN
  /\ step[c] = "timing out"
  /\ procs' = [Closed(p) EXCEPT ![p].lock = None]
  /\ closing' = [closing EXCEPT ![c] = 0]
  /\ Keep(c, Empty)
  /\ UNCHANGED <<source, hashed, mine, pool, poolLock, changes>>

(* The workspace closes: close_typescript_session.                         *)
Leave(c) ==
  /\ step[c] = "idle" /\ poolLock = None
  /\ \E p \in ForRoot(RootOf[c]) :
       /\ pool' = Without(pool, p) /\ procs' = Marked(procs, p)
       /\ closing' = [closing EXCEPT ![c] = p] /\ Go(c, "leaving")
  /\ UNCHANGED <<source, hashed, part, mine, poolLock, changes>>

Left(c) ==
  /\ step[c] = "leaving"
  /\ procs' = Closed(closing[c]) /\ closing' = [closing EXCEPT ![c] = 0] /\ Go(c, "idle")
  /\ UNCHANGED <<source, hashed, part, mine, pool, poolLock, changes>>

-----------------------------------------------------------------------------
(* The script in the node process: analyze hydrates a file whose version   *)
(* it does not have from the disk, and close ends it.                      *)
Hydrated(p, version) ==
  IF procs[p].doc.version = version THEN procs[p].doc
  ELSE [version |-> version, text |-> source[procs[p].root]]

Serve(p) ==
  /\ procs[p].running /\ procs[p].requests # <<>>
  /\ LET request == procs[p].requests[1]
         doc == Hydrated(p, request.version)
         result == IF doc.text = NoFile THEN Empty ELSE doc.text
     IN procs' =
          IF request.by = "close"
          THEN [procs EXCEPT ![p].requests = Tail(@), ![p].running = FALSE,
                             ![p].answers = Append(@, [by |-> "close", text |-> Empty])]
          ELSE [procs EXCEPT ![p].requests = Tail(@),
                             ![p].doc = IF doc.text = NoFile THEN @ ELSE doc,
                             ![p].answers = Append(@, [by |-> request.by, text |-> result])]
  /\ UNCHANGED <<source, hashed, part, step, mine, closing, pool, poolLock, changes>>

Dies(p) ==
  /\ procs[p].running /\ ~procs[p].closed
  /\ procs' = [procs EXCEPT ![p].running = FALSE]
  /\ UNCHANGED <<source, hashed, part, step, mine, closing, pool, poolLock, changes>>

Edit(r, text) ==
  /\ changes < MaxEdits /\ text # source[r]
  /\ "late edit" \notin TypeScriptHazards => \A c \in Callers : RootOf[c] = r => step[c] = "idle"
  /\ source' = [source EXCEPT ![r] = text] /\ changes' = changes + 1
  /\ UNCHANGED <<hashed, part, step, mine, closing, pool, poolLock, procs>>

Next ==
  \/ \E c \in Callers :
       \/ Ask(c) \/ Get(c) \/ Evict(c) \/ Check(c) \/ Write(c) \/ Receive(c)
       \/ TimeOut(c) \/ TimedOut(c) \/ Leave(c) \/ Left(c)
  \/ \E p \in DOMAIN procs : Serve(p) \/ Dies(p)
  \/ \E r \in Roots, text \in Contents \cup {NoFile} : Edit(r, text)

Spec == Init /\ [][Next]_vars

-----------------------------------------------------------------------------
(* Every variable keeps its type. *)
TypeOK ==
  /\ source \in [Roots -> Contents \cup {NoFile}] /\ hashed \in [Callers -> Contents \cup {NoFile}]
  /\ part \in [Roots -> [digest : Contents \cup {NoFile}, text : Contents \cup {NoFile, Empty}]]
  /\ step \in [Callers -> {"idle", "getting", "evicting", "checking", "writing", "waiting",
                           "timing out", "leaving"}]
  /\ mine \in [Callers -> 0..MaxProcs] /\ closing \in [Callers -> 0..MaxProcs]
  /\ poolLock \in Callers \cup {None} /\ changes \in 0..MaxEdits
  /\ \A p \in DOMAIN procs : procs[p].lock \in Callers \cup {None}

(* What is cached for a digest is what the service found in the text of    *)
(* that digest, or nothing: an answer is never taken by a request it does  *)
(* not answer, and a service never serves a text it read for another       *)
(* version, whatever was closed, evicted or restarted under a request.     *)
PartIsOfItsText == \A r \in Roots : part[r].text \in {part[r].digest, Empty, NoFile}

(* The pool holds no more than its limit, at most one service for a root,  *)
(* and every process that runs outside it was told to end: none is leaked. *)
PoolIsBounded ==
  /\ Len(pool) <= MaxSessions
  /\ \A i, j \in DOMAIN pool : procs[pool[i]].root = procs[pool[j]].root => i = j
  /\ \A p \in DOMAIN procs : procs[p].running /\ ~InPool(p) => procs[p].closed
=============================================================================
