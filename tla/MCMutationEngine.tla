-------------------------- MODULE MCMutationEngine --------------------------
(* Small instances of MutationEngine for TLC.                              *)
EXTENDS MutationEngine, TLC

CONSTANTS a, b, old, new

(* Replace two files; move one onto a free name; create one and delete the *)
(* other.                                                                  *)
MCPlans ==
  { [pre |-> (a :> old @@ b :> old), post |-> (a :> new @@ b :> new), moves |-> {}],
    [pre |-> (a :> old @@ b :> Absent), post |-> (a :> Absent @@ b :> old), moves |-> {<<a, b>>}],
    [pre |-> (a :> Absent @@ b :> new), post |-> (a :> old @@ b :> Absent), moves |-> {}] }

MCSmallPlans == {o \in MCPlans : o.pre[a] = old}

(* Nothing in the specification tells two transactions apart.              *)
MCSymmetry == Permutations(Txs)

=============================================================================
