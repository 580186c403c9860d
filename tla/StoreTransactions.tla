-------------------------- MODULE StoreTransactions --------------------------
(***************************************************************************)
(* The transactions of the workspace database as one connection sees them: *)
(* Store.atomic blocks that nest as savepoints, helpers that commit what   *)
(* they wrote unless a block is open, a helper that rolls back before it   *)
(* raises, writes that fail, a second process that holds the write lock,   *)
(* and the process dying at any point.                                     *)
(*                                                                         *)
(* A write is a number; what matters is which blocks it was made in and    *)
(* whether it is still there.                                              *)
(***************************************************************************)
EXTENDS Naturals, Sequences, FiniteSets, SequencesExt

CONSTANTS
  MaxBlocks,   \* bound: atomic blocks entered
  MaxWrites    \* bound: writes made

Blocks == 1 .. MaxBlocks

VARIABLES
  saved,    \* the writes in the file
  view,     \* the writes this connection sees
  open,     \* conn.in_transaction
  frames,   \* the blocks entered, innermost last
  raising,  \* an exception on its way up: "no", "error" or "rollback"
  lock,     \* who may write: "free", "us" or "them"
  writes,   \* history: the blocks each write was made in
  ends      \* history: how each block entered so far ended

vars == <<saved, view, open, frames, raising, lock, writes, ends>>

Init ==
  /\ saved = {} /\ view = {} /\ open = FALSE
  /\ frames = <<>> /\ raising = "no" /\ lock = "free"
  /\ writes = <<>> /\ ends = <<>>

Depth == Len(frames)
Calm == raising = "no"
Top == frames[Depth]
Entered == {frames[i].block : i \in DOMAIN frames}

(* COMMIT and ROLLBACK end the transaction and give the lock back.         *)
Ended == open' = FALSE /\ lock' = IF lock = "us" THEN "free" ELSE lock

-----------------------------------------------------------------------------
(* A block is a savepoint when a transaction is already open, whoever      *)
(* opened it; BEGIN IMMEDIATE otherwise, refused while another writes.     *)

Enter ==
  LET nested == open \/ Depth > 0 IN
  /\ Calm /\ Len(ends) < MaxBlocks
  /\ nested \/ lock = "free"
  /\ frames' = Append(frames, [block |-> Len(ends) + 1, nested |-> nested, mark |-> view])
  /\ ends' = Append(ends, "open")
  /\ open' = TRUE
  /\ lock' = IF nested THEN lock ELSE "us"
  /\ UNCHANGED <<saved, view, raising, writes>>

Busy ==
  /\ Calm /\ ~open /\ Depth = 0 /\ lock = "them"
  /\ raising' = "error"
  /\ UNCHANGED <<saved, view, open, frames, lock, writes, ends>>

Leave ==
  /\ Calm /\ Depth > 0
  /\ IF Top.nested THEN UNCHANGED <<saved, open, lock>>
     ELSE saved' = view /\ Ended
  /\ frames' = Front(frames)
  /\ ends' = [ends EXCEPT ![Top.block] = "done"]
  /\ UNCHANGED <<view, raising, writes>>

(* The exception passes the block: back to the savepoint, or to the start. *)
Fail ==
  /\ ~Calm /\ Depth > 0
  /\ IF Top.nested
     THEN /\ view' = IF raising = "rollback" THEN view ELSE Top.mark
          /\ UNCHANGED <<open, lock>>
     ELSE view' = saved /\ Ended
  /\ frames' = Front(frames)
  /\ ends' = [ends EXCEPT ![Top.block] = "failed"]
  /\ UNCHANGED <<saved, raising, writes>>

(* A caller handles the exception; nobody does inside a block whose        *)
(* transaction was rolled back from under it.                              *)
Catch ==
  /\ raising = "error" \/ (~Calm /\ Depth = 0)
  /\ raising' = "no"
  /\ UNCHANGED <<saved, view, open, frames, lock, writes, ends>>

Interrupt ==
  /\ Calm
  /\ raising' = "error"
  /\ UNCHANGED <<saved, view, open, frames, lock, writes, ends>>

-----------------------------------------------------------------------------
(* The helpers of the store and its repositories.                          *)

(* A statement opens a transaction where there is none.                    *)
Write ==
  /\ Calm /\ lock # "them" /\ Len(writes) < MaxWrites
  /\ writes' = Append(writes, Entered)
  /\ view' = view \cup {Len(writes) + 1}
  /\ open' = TRUE /\ lock' = "us"
  /\ UNCHANGED <<saved, frames, raising, ends>>

(* One that fails, on a constraint or on the lock, leaves that transaction *)
(* open: the next block is then a savepoint in it.                         *)
BrokenWrite ==
  /\ Calm
  /\ raising' = "error" /\ open' = TRUE
  /\ lock' \in {lock, IF lock = "free" THEN "us" ELSE lock}
  /\ UNCHANGED <<saved, view, frames, writes, ends>>

(* Sensitivity: helpers commit wherever they are called.                   *)
HelperCommitAnywhere ==
  /\ Calm /\ open
  /\ saved' = view /\ Ended
  /\ UNCHANGED <<view, frames, raising, writes, ends>>

(* conn.commit() inside a block does nothing.                              *)
HelperCommit ==
  /\ Calm /\ open
  /\ Depth = 0
  /\ saved' = view /\ Ended
  /\ UNCHANGED <<view, frames, raising, writes, ends>>

(* conn.rollback() is not held back by the block around it.                *)
HelperRollback ==
  /\ Calm /\ open /\ Depth > 0
  /\ view' = saved /\ Ended
  /\ raising' = "rollback"
  /\ UNCHANGED <<saved, frames, writes, ends>>

(* Leases and approvals begin a transaction of their own, which fails      *)
(* where one is open already.                                              *)
OwnTransaction ==
  /\ Calm
  /\ IF open \/ lock = "them"
     THEN raising' = "error" /\ UNCHANGED <<saved, view, writes>>
     ELSE /\ Len(writes) < MaxWrites
          /\ writes' = Append(writes, Entered)
          /\ view' = view \cup {Len(writes) + 1}
          /\ saved' = view'
          /\ UNCHANGED raising
  /\ UNCHANGED <<open, frames, lock, ends>>

-----------------------------------------------------------------------------
OtherProcess ==
  /\ \/ lock = "free" /\ lock' = "them"
     \/ lock = "them" /\ lock' = "free"
  /\ UNCHANGED <<saved, view, open, frames, raising, writes, ends>>

Crash ==
  /\ open
  /\ view' = saved /\ Ended
  /\ frames' = <<>> /\ raising' = "no"
  /\ ends' = [b \in DOMAIN ends |-> IF ends[b] = "open" THEN "failed" ELSE ends[b]]
  /\ UNCHANGED <<saved, writes>>

Next ==
  \/ Enter \/ Busy \/ Leave \/ Fail \/ Catch \/ Interrupt
  \/ Write \/ BrokenWrite \/ HelperCommit \/ HelperRollback \/ OwnTransaction
  \/ OtherProcess \/ Crash

Spec == Init /\ [][Next]_vars

-----------------------------------------------------------------------------
TypeOK ==
  /\ saved \subseteq DOMAIN writes /\ view \subseteq DOMAIN writes
  /\ open \in BOOLEAN
  /\ \A i \in DOMAIN frames :
       /\ frames[i].block \in DOMAIN ends /\ frames[i].nested \in BOOLEAN
       /\ frames[i].mark \subseteq DOMAIN writes
  /\ raising \in {"no", "error", "rollback"} /\ lock \in {"free", "us", "them"}
  /\ writes \in Seq(SUBSET Blocks) /\ Len(writes) <= MaxWrites
  /\ ends \in Seq({"open", "done", "failed"}) /\ Len(ends) <= MaxBlocks

Standing(w) == \A b \in writes[w] : ends[b] # "failed"
Within(b) == {w \in DOMAIN writes : b \in writes[w] /\ Standing(w)}

(* "Commit all workspace updates together, or roll them all back on        *)
(* failure": nothing of a block that failed is left, nothing of a block    *)
(* that is open is in the file, and what a finished block wrote is in the  *)
(* file as a whole or not at all, through nesting, helpers that commit or  *)
(* roll back on their own, failures a caller handles and crashes.          *)
AtomicBlocks ==
  /\ \A w \in view : Standing(w)
  /\ \A w \in saved : \A b \in writes[w] : ends[b] = "done"
  /\ \A b \in DOMAIN ends : ends[b] = "done" =>
       \A content \in {saved, view} :
         Within(b) \subseteq content \/ Within(b) \cap content = {}
=============================================================================
