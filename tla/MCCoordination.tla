--------------------------- MODULE MCCoordination ---------------------------
(* Small instances of Coordination for TLC.                                *)
EXTENDS Coordination, TLC

CONSTANTS p, q, new

(* Create one file next to an edit that leaves the other as it was; and    *)
(* create the one that needs approval.                                     *)
MCBoth == { [pre |-> (p :> Absent @@ q :> new), post |-> (p :> new @@ q :> new)] }
MCOne == { [pre |-> (q :> Absent), post |-> (q :> new)] }

MCOpen == p :> "allow" @@ q :> "allow"
MCGuarded == q :> "approve"

(* Agents, transactions and tokens are interchangeable.                    *)
MCSymmetry == Permutations(Agents) \cup Permutations(Txs)
MCSymmetryTokens == Permutations(Approvals) \cup Permutations(Txs)

=============================================================================
