------------------------------ MODULE Continuity ------------------------------
(***************************************************************************)
(* A task put down and taken up again: checkpoint saves what the task held *)
(* (digests of its resident objects, the revision, who compiled, who owns  *)
(* the source, who executes) and resume says how much of it still holds.   *)
(* Between the two, files are edited and edited back, the revision chain   *)
(* grows, the toolchain changes and the workspace is reopened.             *)
(***************************************************************************)
EXTENDS Integers, Sequences, FiniteSets

CONSTANTS
  Objects,   \* symbols, one in each source file
  Texts,     \* what a file can contain
  NoText,    \* the content of a file that does not exist
  MaxEdits,  \* bound: saves by an editor
  MaxDrifts  \* bound: changes of compiler, authority or provider

Parts == {"compiler", "authority", "provider"}
NoSession == [revision |-> -1]
NoReply == [mode |-> "none", changed |-> {}]

VARIABLES
  disk,      \* [Objects -> text]: the files
  edits,     \* saves so far
  index,     \* [Objects -> text]: the digests of the index
  chain,     \* the revisions after the first: the paths each one changed
  identity,  \* [Parts -> number]: fingerprints and bindings
  drifts,    \* changes of identity so far
  residents, \* the resident objects
  session,   \* the checkpoint
  reply      \* the answer of a resume, until it is taken

world == <<disk, edits, identity, drifts>>
vars == <<world, index, chain, residents, session, reply>>

revision == Len(chain)

Init ==
  /\ disk \in [Objects -> Texts] /\ edits = 0
  /\ index = disk /\ chain = <<>>
  /\ identity = [part \in Parts |-> 1] /\ drifts = 0
  /\ residents = {}
  /\ session = NoSession /\ reply = NoReply

Idle == reply = NoReply

(* reconcile(): a revision of its own for every difference it finds.       *)
Reconcile ==
  /\ index' = disk
  /\ chain' = IF disk = index THEN chain
              ELSE Append(chain, {o \in Objects : disk[o] # index[o]})

Edit(o, t) ==
  /\ Idle /\ edits < MaxEdits /\ t # disk[o]
  /\ disk' = [disk EXCEPT ![o] = t] /\ edits' = edits + 1
  /\ UNCHANGED <<identity, drifts, index, chain, residents, session, reply>>

Drift(part) ==
  /\ Idle /\ drifts < MaxDrifts
  /\ identity' = [identity EXCEPT ![part] = 3 - @] /\ drifts' = drifts + 1
  /\ UNCHANGED <<disk, edits, index, chain, residents, session, reply>>

(* Any request reconciles, and may change what is resident.                *)
Work(held) ==
  /\ Idle
  /\ Reconcile
  /\ residents' = held
  /\ \A o \in held \ residents : index'[o] # NoText
  /\ UNCHANGED <<world, session, reply>>

(* A resident that disappeared refuses the checkpoint (KeyError).          *)
Checkpoint ==
  /\ Idle
  /\ Reconcile
  /\ \A o \in residents : index'[o] # NoText
  /\ session' = [revision |-> Len(chain'), objects |-> residents,
                 digests |-> index', identity |-> identity]
  /\ UNCHANGED <<world, residents, reply>>

(***************************************************************************)
(* Resume                                                                  *)
(***************************************************************************)
Missing == {o \in session.objects : index'[o] = NoText}

(* Sensitivity: residents are compared with the index as it was.           *)
StaleAsIndexed == {o \in session.objects : index[o] \notin {NoText, session.digests[o]}}

Stale == {o \in session.objects : index'[o] \notin {NoText, session.digests[o]}}
Drifted(part) == identity[part] # session.identity[part]
BackendDrifted == Drifted("authority") \/ Drifted("provider")

ResumeMode ==
  IF \/ Drifted("compiler") \/ Drifted("authority")
     \/ Stale # {} \/ Missing # {}
     \/ BackendDrifted /\ ~Drifted("provider")
  THEN "reorient"
  ELSE IF session.revision # Len(chain') \/ Drifted("provider") THEN "selective-revalidate"
  ELSE "direct"

(* diff_since: the paths changed along the chain from head to there.       *)
ChangedSince(r) == UNION {chain'[i] : i \in r + 1..Len(chain')}

Resume ==
  /\ Idle /\ session # NoSession
  /\ Reconcile
  /\ reply' = [mode |-> ResumeMode, changed |-> ChangedSince(session.revision)]
  /\ UNCHANGED <<world, residents, session>>

Taken ==
  /\ ~Idle
  /\ reply' = NoReply
  /\ UNCHANGED <<world, index, chain, residents, session>>

Next ==
  \/ \E o \in Objects, t \in Texts \cup {NoText} : Edit(o, t)
  \/ \E part \in Parts : Drift(part)
  \/ \E held \in SUBSET Objects : Work(held)
  \/ Checkpoint \/ Resume \/ Taken

Spec == Init /\ [][Next]_vars

TypeOK ==
  /\ {disk, index} \subseteq [Objects -> Texts \cup {NoText}]
  /\ edits \in 0..MaxEdits /\ drifts \in 0..MaxDrifts
  /\ chain \in Seq((SUBSET Objects) \ {{}}) /\ revision <= MaxEdits
  /\ identity \in [Parts -> {1, 2}]
  /\ residents \subseteq Objects
  /\ session.revision \in -1..revision
  /\ reply.mode \in {"none", "direct", "selective-revalidate", "reorient"}

(* A resumption allowed to go on at once finds every file, the compiler    *)
(* and both bindings as the checkpoint left them; one told to revalidate   *)
(* selectively finds its residents, compiler and authority unchanged; and  *)
(* either names every file that differs, so that revalidating those is     *)
(* enough.                                                                 *)
ResumeIsSafe ==
  LET differs == {o \in Objects : disk[o] # session.digests[o]} IN
  /\ ~Idle => differs \subseteq reply.changed
  /\ reply.mode = "direct" => differs = {} /\ identity = session.identity
  /\ reply.mode = "selective-revalidate" =>
       /\ session.objects \cap differs = {}
       /\ ~Drifted("compiler") /\ ~Drifted("authority")
=============================================================================
