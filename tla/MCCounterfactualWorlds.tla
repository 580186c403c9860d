----------------------- MODULE MCCounterfactualWorlds -----------------------
(* Small instances of CounterfactualWorlds for TLC.                        *)
EXTENDS CounterfactualWorlds, TLC

CONSTANTS p, q, x, y, z

(* One file of two places, and a name that is free.                        *)
MCStart == { p :> <<x, y>> @@ q :> Absent }

MCBothThere == { p :> <<x, y>> @@ q :> <<x, y>> }

MCDrafts == { <<x, y>>, <<y, x>>, Absent }

Replace(path, old, new) == [op |-> "replace", path |-> path, old |-> old, new |-> new]
Create(path, text) == [op |-> "create", path |-> path, text |-> text]
Delete(path) == [op |-> "delete", path |-> path]

(* Replace either place, create, delete, and two changes at once.          *)
MCBatches ==
  { <<Replace(p, x, y)>>, <<Replace(p, x, z)>>, <<Create(q, <<x, x>>)>>, <<Delete(p)>>,
    <<Delete(q)>>, <<Create(q, <<x, y>>), Replace(p, y, z)>> }

(* An edit of one file, and two of another of which the second, read       *)
(* against the text the list started from, does not apply.                 *)
MCTorn == { <<Replace(p, x, z)>>, <<Replace(q, x, z), Replace(q, z, x)>> }

(* Edits of two places of the file, one after the other.                   *)
MCTwice == { <<Replace(p, x, z)>>, <<Replace(p, y, x)>> }

=============================================================================
