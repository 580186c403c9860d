---------------------------- MODULE AtomicChange ----------------------------
(***************************************************************************)
(* What governed mutation promises to whoever reads the project's sources: *)
(* a staged transaction is applied to all of its files at once or to none, *)
(* only while the files still hold what they held when it was staged, and  *)
(* it is undone the same way, only while nothing newer is in its files.    *)
(* Crashes, journals and recovery are not visible here: MutationEngine     *)
(* implements this specification with a write-ahead journal.               *)
(***************************************************************************)
CONSTANTS
  Paths,      \* source files a transaction may touch
  Contents,   \* what a file may hold
  Absent,     \* what a path maps to when there is no file
  Txs,        \* transaction identities
  Plans,      \* the changes clients may ask for
  NoPlan      \* the change of a transaction that was never staged

File == Contents \cup {Absent}

VARIABLES
  files,      \* [Paths -> File]: the sources
  status,     \* [Txs -> ...]: life of each transaction
  ops         \* [Txs -> Plans \cup {NoPlan}]: what each transaction asks for

vars == <<files, status, ops>>

Matches(side) == \A p \in DOMAIN side : files[p] = side[p]

Overlay(side) ==
  [p \in Paths |-> IF p \in DOMAIN side THEN side[p] ELSE files[p]]

Init ==
  /\ files \in [Paths -> File]
  /\ status = [t \in Txs |-> "none"]
  /\ ops = [t \in Txs |-> NoPlan]

Stage(t, o) ==
  /\ status[t] = "none"
  /\ Matches(o.pre)
  /\ status' = [status EXCEPT ![t] = "staged"]
  /\ ops' = [ops EXCEPT ![t] = o]
  /\ UNCHANGED files

Commit(t) ==
  /\ status[t] \in {"staged", "rolled-back"}
  /\ Matches(ops[t].pre)
  /\ files' = Overlay(ops[t].post)
  /\ status' = [status EXCEPT ![t] = "committed"]
  /\ UNCHANGED ops

Abort(t) ==
  /\ status[t] \in {"staged", "rolled-back"}
  /\ status' = [status EXCEPT ![t] = "rolled-back"]
  /\ UNCHANGED <<files, ops>>

Revert(t) ==
  /\ status[t] = "committed"
  /\ Matches(ops[t].post)
  /\ files' = Overlay(ops[t].pre)
  /\ status' = [status EXCEPT ![t] = "rolled-back"]
  /\ UNCHANGED ops

(* An editor outside Habitat writes one file.                              *)
Edit(p, c) ==
  /\ files' = [files EXCEPT ![p] = c]
  /\ UNCHANGED <<status, ops>>

Govern ==
  \/ \E t \in Txs, o \in Plans : Stage(t, o)
  \/ \E t \in Txs : Commit(t) \/ Abort(t) \/ Revert(t)

Next ==
  \/ Govern
  \/ \E p \in Paths, c \in File : Edit(p, c)

Spec == Init /\ [][Next]_vars

=============================================================================
