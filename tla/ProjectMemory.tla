---------------------------- MODULE ProjectMemory ----------------------------
(***************************************************************************)
(* Remembered statements: recorded, superseded, invalidated and recalled.  *)
(* Recording one that supersedes another is two commits, and the process   *)
(* may stop between them; the client then asks again.                      *)
(***************************************************************************)
EXTENDS Naturals, Sequences, FiniteSets

CONSTANTS
  Statements,   \* what is remembered
  Agents,       \* who remembers
  MaxMemories,  \* bound: rows
  MaxRevision   \* bound: revisions

Shared == "shared"
None == 0

VARIABLES
  memories,   \* project_memories in the order of creation
  revision,   \* the head of the index
  recording,  \* between the two commits: the new memory and the old
  recalled    \* the rows the last recall answered with

vars == <<memories, revision, recording, recalled>>

NoRecording == [new |-> None, old |-> None]
Idle == recording = NoRecording

Init ==
  /\ memories = <<>> /\ revision = 1
  /\ recording = NoRecording /\ recalled = {}

Live(m) == memories[m].status = "active"

(* "Exact same active memory in the same agent/revision is an echo."       *)
Echo(statement, owner) ==
  \E m \in DOMAIN memories :
    /\ Live(m) /\ memories[m].statement = statement
    /\ memories[m].owner = owner /\ memories[m].base = revision

Row(statement, owner, old) ==
  [statement |-> statement, owner |-> owner, base |-> revision, status |-> "active",
   supersedes |-> old, by |-> None]

(* memory_record: the first commit, or all of it.                          *)
Record(statement, owner, old) ==
  /\ Idle /\ Len(memories) < MaxMemories
  /\ old = None => ~Echo(statement, owner)
  /\ memories' = Append(memories, Row(statement, owner, old))
  /\ recording' = IF old = None THEN NoRecording ELSE [new |-> Len(memories) + 1, old |-> old]
  /\ recalled' = {}
  /\ UNCHANGED revision

(* The second commit overwrites whatever status the old memory has.        *)
Supersede ==
  /\ ~Idle
  /\ memories' = [memories EXCEPT ![recording.old].status = "superseded",
                                  ![recording.old].by = recording.new]
  /\ recording' = NoRecording
  /\ UNCHANGED <<revision, recalled>>

Crash ==
  /\ ~Idle
  /\ recording' = NoRecording
  /\ UNCHANGED <<memories, revision, recalled>>

(* memory_invalidate: by a reason, which is not a memory.                  *)
Invalidate(m) ==
  /\ Idle /\ memories[m].status # "invalidated"
  /\ memories' = [memories EXCEPT ![m].status = "invalidated", ![m].by = None]
  /\ recalled' = {}
  /\ UNCHANGED <<revision, recording>>

(* memory_recall: shared or the agent's own, active; valid_until_revision  *)
(* does not keep a memory from being recalled.                             *)
Recall(a, statement) ==
  /\ Idle
  /\ recalled' = {m \in DOMAIN memories :
       Live(m) /\ memories[m].owner \in {a, Shared} /\ memories[m].statement = statement}
  /\ UNCHANGED <<memories, revision, recording>>

NewRevision ==
  /\ Idle /\ revision < MaxRevision
  /\ revision' = revision + 1 /\ recalled' = {}
  /\ UNCHANGED <<memories, recording>>

Next ==
  \/ \E statement \in Statements, owner \in Agents \cup {Shared},
        old \in DOMAIN memories \cup {None} :
       Record(statement, owner, old)
  \/ Supersede \/ Crash \/ NewRevision
  \/ \E m \in DOMAIN memories : Invalidate(m)
  \/ \E a \in Agents, statement \in Statements : Recall(a, statement)

Spec == Init /\ [][Next]_vars

-----------------------------------------------------------------------------
TypeOK ==
  /\ \A m \in DOMAIN memories :
       /\ memories[m].statement \in Statements /\ memories[m].owner \in Agents \cup {Shared}
       /\ memories[m].status \in {"active", "superseded", "invalidated"}
       /\ memories[m].supersedes \in 0 .. m - 1 /\ memories[m].by \in 0 .. Len(memories)
       /\ memories[m].base \in 1 .. MaxRevision
  /\ recalled \subseteq DOMAIN memories

(* What supersession takes out of recall always left a successor on        *)
(* record that names it: a stop between the two commits may leave both to  *)
(* be recalled, never neither.  And but for such pairs nothing recalled is *)
(* said twice by the same agent at the same revision.                      *)
SupersededHasSuccessor ==
  /\ \A m \in DOMAIN memories : memories[m].status = "superseded" =>
       /\ memories[m].by > m
       /\ memories[memories[m].by].supersedes = m
  /\ \A m, n \in DOMAIN memories :
       /\ m < n /\ Live(m) /\ Live(n)
       /\ memories[m].statement = memories[n].statement
       /\ memories[m].owner = memories[n].owner /\ memories[m].base = memories[n].base
       => memories[n].supersedes # None
=============================================================================
