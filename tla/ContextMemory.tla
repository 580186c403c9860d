---------------------------- MODULE ContextMemory ----------------------------
(***************************************************************************)
(* What an agent keeps in view: context slices compiled for a task, the    *)
(* pages of source a slice maps, the residents that persist between        *)
(* requests under a capacity.  All of them hold references and digests;   *)
(* bytes are read when they are asked for.                                 *)
(*                                                                         *)
(* An object is a symbol, one to a file, so objects and paths coincide.    *)
(* Requests run one at a time; an editor saves files between their steps,  *)
(* and the process may stop between two commits of one request.            *)
(***************************************************************************)
EXTENDS Integers, Sequences, FiniteSets, SequencesExt

CONSTANTS
  Objects,        \* symbols, one in each source file
  Texts,          \* what a file can contain
  NoText,         \* the content of a file that does not exist
  Size,           \* [Texts -> Nat]: source_bytes_estimate of a symbol in a text
  Capacities,     \* what max_objects may be configured to
  MaxBytes,       \* max_source_bytes
  MaxEdits,       \* bound: saves by the editor
  ContextHazards  \* what may happen, see AllContextHazards

(***************************************************************************)
(* "edit under a fetch": a file is saved after a fetch has read a page of   *)
(*                       it and before that fetch returns                  *)
(***************************************************************************)
AllContextHazards == {"edit under a fetch"}

NoSlice == [revision |-> -1, ranked |-> <<>>]
NoRow == [digest |-> NoText, pinned |-> FALSE]
Nothing == [o \in Objects |-> NoText]
Request(step, left, map, pins) == [step |-> step, left |-> left, map |-> map, pins |-> pins]
Rest == Request("idle", <<>>, <<>>, 0)

VARIABLES
  disk,      \* [Objects -> text]: the files
  edits,     \* saves so far
  index,     \* [Objects -> text]: digests and fingerprints of the index
  head,      \* the revision: a new one whenever the index changes
  slice,     \* the context slice a handle names
  rows,      \* [Objects -> row]: resident_objects
  recency,   \* pairs of residents, the first one touched before the second
  capacity,  \* max_objects
  op,        \* the request under way
  cut,       \* history: a request stopped before it enforced the capacity
  served     \* the pages gathered for the answer: object, bytes, digest

world == <<disk, edits>>
known == <<index, head>>
memory == <<rows, recency, capacity, cut>>
vars == <<world, known, slice, memory, op, served>>

Residents == {o \in Objects : rows[o] # NoRow}

Init ==
  /\ disk \in [Objects -> Texts] /\ edits = 0
  /\ index = disk /\ head = 0
  /\ slice = NoSlice
  /\ rows = [o \in Objects |-> NoRow] /\ recency = {}
  /\ capacity \in Capacities /\ cut = FALSE
  /\ op = Rest
  /\ served = {}

(* reconcile(): the index becomes what the files are.                      *)
Reconcile ==
  /\ index' = disk
  /\ head' = IF disk = index THEN head ELSE head + 1

Idle == op.step = "idle"
Fetching == op.step \in {"fetch", "touch"}
Shown == {p.object : p \in served}

(***************************************************************************)
(* The world around                                                        *)
(***************************************************************************)
Edit(o, t) ==
  /\ edits < MaxEdits /\ t # disk[o]
  /\ Fetching /\ o \in Shown => "edit under a fetch" \in ContextHazards
  /\ disk' = [disk EXCEPT ![o] = t] /\ edits' = edits + 1
  /\ UNCHANGED <<known, slice, memory, op, served>>

(* The process stops and starts again; what was committed stays.           *)
Crash ==
  /\ ~Idle
  /\ op' = Rest /\ served' = {}
  /\ cut' = (cut \/ op.step \in {"admit", "enforce"})
  /\ UNCHANGED <<world, known, slice, rows, recency, capacity>>

(***************************************************************************)
(* Context slices: a ranking of objects, bound to the revision.            *)
(***************************************************************************)
Rankings == {s \in SeqOf(Objects, Cardinality(Objects)) : s # <<>> /\ IsInjective(s)}

Compile(ranked) ==
  /\ Idle
  /\ Reconcile
  /\ Range(ranked) \subseteq {o \in Objects : index'[o] # NoText}
  /\ slice' = [revision |-> head', ranked |-> ranked]
  /\ UNCHANGED <<world, memory, op, served>>

(***************************************************************************)
(* Residency                                                               *)
(***************************************************************************)
Fresh(o) == index[o] # NoText /\ index[o] = rows[o].digest
Untouched(R) == {e \in recency : e[1] \notin R /\ e[2] \notin R}
Newest(o) == Untouched({o}) \union ((Residents \ {o}) \X {o})

(* The estimates of the residents R, added up: every byte of every one.    *)
Bytes(R) == Cardinality(UNION {{o} \X (1..Size[rows[o].digest]) : o \in R})
Fits(R) == Cardinality(R) <= capacity /\ Bytes(R) <= MaxBytes
Pinned(o) == rows[o].pinned

Drop(R) ==
  /\ rows' = [o \in Objects |-> IF o \in R THEN NoRow ELSE rows[o]]
  /\ recency' = Untouched(R)

AdmitBegin(pins, most) ==
  /\ Idle /\ slice # NoSlice
  /\ Reconcile
  /\ op' = IF slice.revision # head' THEN op
           ELSE Request("admit", SubSeq(slice.ranked, 1, most), <<>>, pins)
  /\ UNCHANGED <<world, slice, memory, served>>

(* Every row is committed by the sequence number drawn for the next.       *)
Admit ==
  /\ op.step = "admit"
  /\ IF op.left = <<>> THEN op' = Request("enforce", <<>>, <<>>, 0) /\ UNCHANGED <<rows, recency>>
     ELSE LET o == op.left[1] IN
       /\ op' = Request("admit", Tail(op.left), op.map, IF op.pins = 0 THEN 0 ELSE op.pins - 1)
       /\ IF index[o] = NoText THEN UNCHANGED <<rows, recency>>
          ELSE /\ rows' = [rows EXCEPT ![o] = [digest |-> index[o],
                                               pinned |-> Pinned(o) \/ op.pins > 0]]
               /\ recency' = Newest(o)
  /\ UNCHANGED <<world, known, slice, capacity, cut, served>>

(* Stale and missing residents go first, then the least recently touched;  *)
(* pinned ones stay, however many they are.  Residents go until what is    *)
(* left fits, none of them after it does.                                  *)
GoesBefore(a, b) == IF Fresh(a) = Fresh(b) THEN <<a, b>> \in recency ELSE Fresh(b)

Enforce ==
  /\ op.step = "enforce"
  /\ LET loose == {o \in Residents : ~Pinned(o)}
         InOrder(E) == \A b \in E, a \in loose : GoesBefore(a, b) => a \in E
     IN \E E \in SUBSET loose :
          /\ InOrder(E) /\ (Fits(Residents \ E) \/ E = loose)
          /\ \A F \in SUBSET E : InOrder(F) /\ Fits(Residents \ F) => F = E
          /\ Drop(E)
  /\ cut' = FALSE /\ op' = Rest
  /\ UNCHANGED <<world, known, slice, capacity, served>>

Pin(o, pinned) ==
  /\ Idle /\ o \in Residents
  /\ Reconcile
  /\ rows' = [rows EXCEPT ![o].pinned = pinned]
  /\ op' = Request("enforce", <<>>, <<>>, 0)
  /\ UNCHANGED <<world, slice, recency, capacity, cut, served>>

Configure(most) ==
  /\ Idle /\ most # capacity
  /\ Reconcile
  /\ capacity' = most
  /\ op' = Request("enforce", <<>>, <<>>, 0)
  /\ UNCHANGED <<world, slice, rows, recency, cut, served>>

Touch(o) ==
  /\ Idle /\ o \in Residents
  /\ Reconcile /\ recency' = Newest(o)
  /\ UNCHANGED <<world, slice, rows, capacity, cut, op, served>>

(* Pinned residents are refused; stale_only spares the fresh.              *)
Evict(named, staleOnly) ==
  /\ Idle
  /\ Reconcile
  /\ Drop({o \in Residents \cap named :
             ~Pinned(o) /\ (staleOnly => index'[o] # rows[o].digest)})
  /\ UNCHANGED <<world, slice, capacity, cut, op, served>>

(***************************************************************************)
(* Bytes: pages of a slice (fetch), packets of a slice or of the residents *)
(* (materialize).  op.map is the digest each object was mapped with; a     *)
(* byte budget only leaves pages out, so any choice of pages covers it.    *)
(***************************************************************************)
ReadBegin(step, left) ==
  /\ Idle /\ left # <<>>
  /\ Reconcile
  /\ served' = {}
  /\ op' = IF step # "materialize" /\ slice.revision # head' THEN op
           ELSE Request(step, left, IF step = "materialize"
                                    THEN [o \in Objects |-> rows[o].digest] ELSE index', 0)
  /\ UNCHANGED <<world, slice, memory>>

(* resident_rows(): pinned first, then the most recently touched.          *)
Precedes(a, b) == IF Pinned(a) = Pinned(b) THEN <<b, a>> \in recency ELSE Pinned(a)
ResidentOrder(order) ==
  /\ Range(order) = Residents
  /\ \A k \in DOMAIN order : \A j \in 1..(k - 1) : Precedes(order[j], order[k])

FetchBegin(asked) == Range(asked) \subseteq Range(slice.ranked) /\ ReadBegin("fetch", asked)
PacketBegin == ReadBegin("packet", slice.ranked)
MaterializeBegin(order) == ResidentOrder(order) /\ ReadBegin("materialize", order)

(* Sensitivity: the file is read without comparing its fingerprint.        *)
ReadableAnyway(o) == index[o] # NoText

(* read_source_line_range: the file must still be the one indexed.         *)
Readable(o) == index[o] # NoText /\ disk[o] = index[o]
Mapped(o) == op.map[o] # NoText /\ index[o] = op.map[o]
Page(o) == [object |-> o, bytes |-> disk[o], digest |-> op.map[o]]

(* A page that moved on or cannot be read is a fault; the others go on.    *)
FetchPage ==
  /\ op.step = "fetch" /\ op.left # <<>>
  /\ LET o == op.left[1]
         good == Mapped(o) /\ Readable(o)
     IN /\ served' = IF good THEN served \cup {Page(o)} ELSE served
        /\ op' = IF good /\ o \in Residents THEN Request("touch", op.left, op.map, 0)
                 ELSE Request("fetch", Tail(op.left), op.map, 0)
  /\ UNCHANGED <<world, known, slice, memory>>

(* residency_touch reconciles before it touches.                           *)
FetchTouch ==
  /\ op.step = "touch"
  /\ Reconcile
  /\ recency' = Newest(op.left[1])
  /\ op' = Request("fetch", Tail(op.left), op.map, 0)
  /\ UNCHANGED <<world, slice, rows, capacity, cut, served>>

(* context_fetch_pages records what the index says now of the paths shown  *)
(* as observed by the agent, then answers.                                 *)
Observe ==
  /\ op.step = "fetch" /\ op.left = <<>>
  /\ op' = Request("answer", <<>>, [o \in Objects |-> IF o \in Shown THEN index[o] ELSE NoText], 0)
  /\ UNCHANGED <<world, known, slice, memory, served>>

Answer ==
  /\ op.step = "answer"
  /\ op' = Rest /\ served' = {}
  /\ UNCHANGED <<world, known, slice, memory>>

(* A file that moved on under a packet raises: nothing is returned.        *)
MaterializeObject ==
  /\ op.step \in {"packet", "materialize"} /\ op.left # <<>>
  /\ LET o == op.left[1]
         further == Request(op.step, Tail(op.left), op.map, 0)
     IN IF ~Mapped(o) THEN op' = further /\ UNCHANGED served
        ELSE IF ~Readable(o) THEN op' = Rest /\ served' = {}
        ELSE op' = further /\ served' = served \cup {Page(o)}
  /\ UNCHANGED <<world, known, slice, memory>>

(* The residents in the packet are touched one by one, in their order.     *)
MaterializeEnd ==
  /\ op.step \in {"packet", "materialize"} /\ op.left = <<>>
  /\ LET touched == IF op.step = "materialize" THEN Residents \cap Shown ELSE {}
     IN recency' = Untouched(touched) \union ((Residents \ touched) \X touched)
                   \union {e \in touched \X touched : Precedes(e[1], e[2])}
  /\ op' = Rest /\ served' = {}
  /\ UNCHANGED <<world, known, slice, rows, capacity, cut>>

Next ==
  \/ \E o \in Objects, t \in Texts \cup {NoText} : Edit(o, t)
  \/ Crash
  \/ \E ranked \in Rankings : Compile(ranked)
  \/ \E pins \in 0..1, most \in 1..Len(slice.ranked) : AdmitBegin(pins, most)
  \/ Admit \/ Enforce
  \/ \E o \in Objects, pinned \in BOOLEAN : Pin(o, pinned)
  \/ \E most \in Capacities : Configure(most)
  \/ \E o \in Objects : Touch(o)
  \/ \E named \in SUBSET Objects, staleOnly \in BOOLEAN : Evict(named, staleOnly)
  \/ \E asked \in Rankings : FetchBegin(asked)
  \/ FetchPage \/ FetchTouch \/ Observe \/ Answer
  \/ PacketBegin \/ MaterializeObject \/ MaterializeEnd
  \/ \E order \in Rankings : MaterializeBegin(order)

Spec == Init /\ [][Next]_vars

TypeOK ==
  /\ {disk, index} \subseteq [Objects -> Texts \cup {NoText}]
  /\ slice.revision \in -1..head /\ slice.ranked \in Rankings \cup {<<>>}
  /\ rows \in [Objects -> [digest : Texts \cup {NoText}, pinned : BOOLEAN]]
  /\ \A a, b \in Objects : <<a, b>> \in recency <=> a # b /\ {a, b} \subseteq Residents /\ <<b, a>> \notin recency
  /\ \A a, b, c \in Objects : {<<a, b>>, <<b, c>>} \subseteq recency => <<a, c>> \in recency
  /\ capacity \in Capacities /\ cut \in BOOLEAN
  /\ op.step \in {"idle", "admit", "enforce", "fetch", "touch", "answer",
                 "packet", "materialize"}
  /\ Range(op.left) \subseteq Objects

(* Every page and packet an agent gets holds the bytes of the digest it    *)
(* was mapped with, although files are saved and the index moves while     *)
(* pages are read, and what is recorded as observed is what was shown.     *)
PagesAreAsMapped ==
  /\ \A p \in served : p.bytes = p.digest
  /\ op.step = "answer" => \A p \in served : op.map[p.object] \in {p.bytes, NoText}

(* Between requests the residents exceed the capacity only when all of     *)
(* them are pinned, unless a request was cut off before it enforced it.    *)
OvercommitOnlyByPins ==
  Idle /\ ~cut /\ ~Fits(Residents) => \A o \in Residents : Pinned(o)
=============================================================================
