------------------------------ MODULE SemanticUi ------------------------------
(***************************************************************************)
(* What an agent sees of a page and how it acts on it: observe,            *)
(* preview_action and act of src/habitat/ui/browser_provider.py.           *)
(*                                                                         *)
(* An observation walks the elements in document order and gives each a    *)
(* handle, which it also writes into an attribute of the element; an       *)
(* action names a handle and is carried out on the element that carries    *)
(* the attribute.  The page's own code inserts, removes, copies and        *)
(* changes elements in between; a copy carries the attribute too.          *)
(*                                                                         *)
(* A key and a handle are sequences: <<"k">> is the id k, and <<"k", 1>>   *)
(* both the id k~1 and the handle of the second of two elements called k.  *)
(***************************************************************************)
EXTENDS Naturals, Sequences, FiniteSets, SequencesExt

CONSTANTS
  Nodes,          \* identities of elements
  Keys,           \* what an element can be called by: an id, a test id
  MaxPage,        \* elements of a page
  MaxEdits, MaxObserved

Auto == <<"auto">>  \* the base of an element that has no id
NoHandle == <<>>
NoReply == [ok |-> FALSE, node |-> 0, meant |-> 0]

VARIABLES
  page,           \* the elements in document order
  registry,       \* __nolaneHabitatElementHandles: element -> handle
  counter,        \* __nolaneHabitatCounter
  previous,       \* the session's last observation: handle -> [node, text]
  meant,          \* which element each handle was last shown for
  delta,          \* what the last observation reported as changed
  before,         \* the observation before it
  reply,          \* of the last action
  edits, observed

vars == <<page, registry, counter, previous, meant, delta, before, reply, edits, observed>>

Called == Keys \cup {Auto}
Numbered(key, n) == Append(key, n)
Handles == Called \cup {Numbered(key, n) : key \in Called, n \in Nat \ {0}}

(* "of" is the element whose attribute an element carries.                 *)
Element == [node : Nodes, of : Nodes, key : Called, text : {0, 1}, mark : Handles \cup {NoHandle}]

WithText(e, text) == [e EXCEPT !.text = text]

NodesOf(p) == {p[i].node : i \in DOMAIN p}
NoDelta == [added |-> {}, removed |-> {}, changed |-> {}]

Init ==
  /\ page = <<>> /\ registry = <<>> /\ counter = 0
  /\ previous = <<>> /\ meant = <<>> /\ delta = NoDelta /\ before = <<>>
  /\ reply = NoReply
  /\ edits = 0 /\ observed = 0

-----------------------------------------------------------------------------
(* The numbers that the counter comes to, of those that nobody took.       *)
Free(walk, key) ==
  {n \in walk.counter + 1 .. walk.counter + 1 + Cardinality(walk.claimed) :
    Numbered(key, n) \notin walk.claimed}

(* allocateHandle for one element: its old handle if nobody before it in   *)
(* this walk took it, else its base name, else the base name with the next *)
(* number that nobody took.                                                *)
Allocate(walk, e) ==
  LET known == e.node \in DOMAIN walk.registry /\ walk.registry[e.node] \notin walk.claimed
      bare == e.key # Auto /\ e.key \notin walk.claimed
      next == Min(Free(walk, e.key))
      h == IF known THEN walk.registry[e.node] ELSE IF bare THEN e.key ELSE Numbered(e.key, next)
  IN [claimed |-> walk.claimed \cup {h},
      counter |-> IF known \/ bare THEN walk.counter ELSE next,
      registry |-> [n \in DOMAIN walk.registry \cup {e.node} |->
                     IF n = e.node THEN h ELSE walk.registry[n]],
      page |-> Append(walk.page,
                 [node |-> e.node, of |-> e.node, key |-> e.key, text |-> e.text, mark |-> h])]

(* _extract_elements: the walk over the page.                              *)
Walk[i \in 0 .. Len(page)] ==
  IF i = 0 THEN [claimed |-> {}, counter |-> counter, registry |-> registry, page |-> <<>>]
  ELSE Allocate(Walk[i - 1], page[i])

Extract == Walk[Len(page)]

Listing(p) == [h \in {p[i].mark : i \in DOMAIN p} |->
                LET i == CHOOSE j \in DOMAIN p : p[j].mark = h /\ \A k \in (j + 1)..Len(p) : p[k].mark # h
                IN [node |-> p[i].node, text |-> p[i].text]]

(* _delta, which is not computed against an observation of nothing.        *)
Delta(old, new) ==
  IF DOMAIN old = {} THEN NoDelta
  ELSE [added |-> DOMAIN new \ DOMAIN old,
        removed |-> DOMAIN old \ DOMAIN new,
        changed |-> {h \in DOMAIN old \cap DOMAIN new : old[h].text # new[h].text}]

(* observe, on the page as it is or as an action has just made it.         *)
ObserveAs(p) ==
  LET listing == Listing(p) IN
  /\ page' = p /\ registry' = Extract.registry /\ counter' = Extract.counter
  /\ previous' = listing /\ before' = previous
  /\ delta' = Delta(previous, listing)
  /\ meant' = [h \in DOMAIN meant \cup DOMAIN listing |->
                IF h \in DOMAIN listing THEN listing[h].node ELSE meant[h]]
  /\ observed' = observed + 1

Observe ==
  /\ observed < MaxObserved
  /\ ObserveAs(Extract.page)
  /\ UNCHANGED <<reply, edits>>

-----------------------------------------------------------------------------
(* The page's own code.                                                    *)
Edit(p) ==
  /\ edits < MaxEdits
  /\ page' = p /\ edits' = edits + 1
  /\ UNCHANGED <<registry, counter, previous, meant, delta, before, reply, observed>>

Insert ==
  \E n \in Nodes \ (NodesOf(page) \cup DOMAIN registry), k \in Called,
     i \in 1..(Len(page) + 1) :
    /\ Len(page) < MaxPage
    /\ Edit(InsertAt(page, i, [node |-> n, of |-> n, key |-> k, text |-> 0, mark |-> NoHandle]))

Detach == \E i \in DOMAIN page : Edit(RemoveAt(page, i))

Copy ==
  \E n \in Nodes \ (NodesOf(page) \cup DOMAIN registry), i \in DOMAIN page,
     j \in 1..(Len(page) + 1) :
    /\ Len(page) < MaxPage
    /\ Edit(InsertAt(page, j, [page[i] EXCEPT !.node = n]))

Change == \E i \in DOMAIN page : Edit([page EXCEPT ![i] = WithText(@, 1 - @.text)])

Rename == \E i \in DOMAIN page, k \in Called :
            k # page[i].key /\ Edit([page EXCEPT ![i] = [@ EXCEPT !.key = k]])

-----------------------------------------------------------------------------
Carrying(h) == {i \in DOMAIN page : page[i].mark = h}

(* act: exactly one element must carry the handle; the element may change, *)
(* and the page is observed again.                                         *)
Act(h) ==
  /\ observed < MaxObserved
  /\ UNCHANGED edits
  /\ IF Cardinality(Carrying(h)) # 1
     THEN /\ reply' = NoReply
          /\ UNCHANGED <<page, registry, counter, previous, meant, delta, before, observed>>
     ELSE \E i \in Carrying(h), text \in {0, 1} :
            /\ reply' = [ok |-> TRUE, node |-> page[i].of, meant |-> meant[h]]
            /\ ObserveAs([Extract.page EXCEPT ![i] = WithText(@, text)])

Next ==
  \/ Observe \/ Insert \/ Detach \/ Copy \/ Change \/ Rename \/ \E h \in DOMAIN meant : Act(h)

Spec == Init /\ [][Next]_vars

-----------------------------------------------------------------------------
(* Every variable keeps its type. *)
TypeOK ==
  /\ Len(page) <= MaxPage
  /\ \A i \in DOMAIN page : page[i].key \in Called /\ {page[i].node, page[i].of} \subseteq Nodes
  /\ counter \in Nat /\ DOMAIN registry \subseteq Nodes
  /\ edits \in 0..MaxEdits /\ observed \in 0..MaxObserved

(* No two elements of an observation share a handle, although the page may *)
(* repeat an id and copy an element with the attribute on it.              *)
HandlesAreUnique ==
  LET p == Extract.page IN \A i, j \in DOMAIN p : p[i].mark = p[j].mark => i = j

(* An action changes the element that was last shown under its handle, or  *)
(* a copy of it: act's resolution of the attribute.                        *)
ActsOnWhatWasMeant == reply.ok => reply.node = reply.meant

(* The reported changes turn the observation before into this one.         *)
DeltaIsExact ==
  DOMAIN before # {} =>
    /\ DOMAIN previous = (DOMAIN before \ delta.removed) \cup delta.added
    /\ \A h \in DOMAIN before \cap DOMAIN previous :
         h \in delta.changed <=> before[h].text # previous[h].text
=============================================================================
