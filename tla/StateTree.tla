------------------------------- MODULE StateTree -------------------------------
(***************************************************************************)
(* The content-addressed state of a project: each revision saves a tree of *)
(* hashes, an object that is already there is not saved again, and two     *)
(* revisions are compared by walking the trees from their roots, leaving   *)
(* out what has the same hash.                                             *)
(*                                                                         *)
(* A path is a sequence of names.  A hash is the value it is of: hashes do *)
(* not collide.  No source is read.                                        *)
(***************************************************************************)
EXTENDS Naturals, Sequences, FiniteSets, SequencesExt, FiniteSetsExt, TLC

CONSTANTS
  Paths,          \* the paths a file can have
  Texts,          \* what it can contain
  Size,           \* [Texts -> Nat]
  MaxRevisions    \* bound: revisions

VARIABLES
  trees,      \* history: the files of each revision, [path -> text]
  roots,      \* merkle_snapshots: root_hash of each revision
  objects,    \* merkle_objects: [hash -> object]
  answer      \* of the last comparison or lookup

vars == <<trees, roots, objects, answer>>

(* No file is where another has a directory.                               *)
Trees ==
  UNION {[S -> Texts] : S \in {S \in SUBSET Paths : \A p, q \in S : ~IsStrictPrefix(p, q)}}

NoAnswer == [kind |-> "none"]
Init == trees = <<>> /\ roots = <<>> /\ objects = <<>> /\ answer = NoAnswer

-----------------------------------------------------------------------------
(* build_snapshot: the leaves and the nodes of a tree.                     *)
Under(tree, dir) == {p \in DOMAIN tree : IsPrefix(dir, p)}
Names(tree, dir) == {p[Len(dir) + 1] : p \in Under(tree, dir)}
Dirs(tree) == {<<>>} \union UNION {{SubSeq(p, 1, k) : k \in 0..Len(p) - 1} : p \in DOMAIN tree}

RECURSIVE Hash(_, _)
Hash(tree, path) ==
  IF path \in DOMAIN tree THEN [blob |-> tree[path]]
  ELSE [tree |-> {[name |-> n, hash |-> Hash(tree, Append(path, n))] : n \in Names(tree, path)}]

Leaves(tree) ==
  {[hash |-> Hash(tree, p), object |-> [kind |-> "file", digest |-> tree[p]]] : p \in DOMAIN tree}

Nodes(tree) ==
  {[hash |-> Hash(tree, d),
    object |-> [kind |-> "tree",
                children |-> {[name |-> n, hash |-> Hash(tree, Append(d, n))] : n \in Names(tree, d)},
                files |-> Cardinality(Under(tree, d)),
                bytes |-> MapThenSumSet(LAMBDA p : Size[tree[p]], Under(tree, d))]] : d \in Dirs(tree)}

(* save_merkle_snapshot: what has the hash of an object is that object.    *)
Insert(table, entry) ==
  IF entry.hash \in DOMAIN table THEN table ELSE table @@ (entry.hash :> entry.object)

Save(tree) ==
  /\ Len(roots) < MaxRevisions
  /\ objects' = FoldSet(LAMBDA e, table : Insert(table, e), objects, Leaves(tree) \union Nodes(tree))
  /\ roots' = Append(roots, Hash(tree, <<>>)) /\ trees' = Append(trees, tree)
  /\ UNCHANGED answer

-----------------------------------------------------------------------------
(* resolve_store_path: from the root down the names of a path.             *)
None == [kind |-> "none"]
ObjectAt(hash) == IF hash \in DOMAIN objects THEN objects[hash] @@ [hash |-> hash] ELSE None

Child(object, name) ==
  IF object.kind # "tree" \/ ~\E c \in object.children : c.name = name THEN None
  ELSE ObjectAt((CHOOSE c \in object.children : c.name = name).hash)

Resolve(root, path) == FoldLeft(Child, ObjectAt(root), path)

(* _walk_store: the files below an object, with their digests.             *)
RECURSIVE Walk(_, _)
Walk(object, path) ==
  CASE object.kind = "none" -> <<>>
    [] object.kind = "file" -> path :> object.digest
    [] object.kind = "tree" ->
         FoldSet(LAMBDA c, found : found @@ Walk(ObjectAt(c.hash), Append(path, c.name)), <<>>,
                 object.children)

(* Sensitivity: a rename may be a guess among several.                     *)
DifferenceGuessing(old, new) ==
  LET added == DOMAIN new \ DOMAIN old
      deleted == DOMAIN old \ DOMAIN new
  IN [added |-> added, deleted |-> deleted,
      modified |-> {p \in DOMAIN old \intersect DOMAIN new : old[p] # new[p]},
      renamed |-> {r \in deleted \X added : old[r[1]] = new[r[2]]}]

(* What changed between two sets of files.  A rename is a text that one    *)
(* file lost and one other has: never a guess among several.               *)
Difference(old, new) ==
  LET added == DOMAIN new \ DOMAIN old
      deleted == DOMAIN old \ DOMAIN new
  IN [added |-> added, deleted |-> deleted,
      modified |-> {p \in DOMAIN old \intersect DOMAIN new : old[p] # new[p]},
      renamed |-> {r \in deleted \X added :
                     /\ {p \in deleted : old[p] = old[r[1]]} = {r[1]}
                     /\ {p \in added : new[p] = old[r[1]]} = {r[2]}}]

(* state_merkle_diff: equal hashes are not walked.  A behaviour asks once:  *)
(* what is asked changes nothing.                                          *)
Diff(i, j, path) ==
  /\ answer = NoAnswer
  /\ LET old == Resolve(roots[i], path)
         new == Resolve(roots[j], path)
         same == old # None /\ new # None /\ old.hash = new.hash
     IN answer' = [kind |-> "diff", from |-> i, to |-> j, path |-> path, pruned |-> same,
                   found |-> IF same THEN Difference(<<>>, <<>>)
                             ELSE Difference(Walk(old, path), Walk(new, path))]
  /\ UNCHANGED <<trees, roots, objects>>

(* state_merkle: what a revision has at a path.                            *)
Look(i, path) ==
  /\ answer = NoAnswer
  /\ answer' = [kind |-> "look", from |-> i, path |-> path, found |-> Resolve(roots[i], path)]
  /\ UNCHANGED <<trees, roots, objects>>

Places == Dirs([p \in Paths |-> 0]) \union Paths

Next ==
  \/ \E tree \in Trees : Save(tree)
  \/ \E i, j \in DOMAIN roots, p \in Places : i < j /\ Diff(i, j, p)
  \/ \E i \in DOMAIN roots, p \in Places : Look(i, p)

Spec == Init /\ [][Next]_vars

-----------------------------------------------------------------------------

TypeOK ==
  /\ Len(roots) = Len(trees) /\ Len(roots) \in 0..MaxRevisions
  /\ \A i \in DOMAIN trees : trees[i] \in Trees

(* A comparison of two revisions, below a path, finds the files that were  *)
(* added, deleted, modified and renamed there, whatever was left unwalked  *)
(* and whichever revision saved the objects.                               *)
At(i, path) == [p \in Under(trees[i], path) |-> trees[i][p]]

DiffIsOfTheFiles ==
  answer.kind = "diff" =>
    /\ answer.found = Difference(At(answer.from, answer.path), At(answer.to, answer.path))
    /\ \A r, s \in answer.found.renamed :
         /\ trees[answer.from][r[1]] = trees[answer.to][r[2]]
         /\ r[1] = s[1] <=> r[2] = s[2]
    /\ answer.pruned => At(answer.from, answer.path) = At(answer.to, answer.path)

(* A lookup finds a file or a directory exactly if there was one, with the *)
(* number and the size of the files in it.                                 *)
LookupIsOfTheFiles ==
  answer.kind = "look" =>
    LET below == Under(trees[answer.from], answer.path)
        found == answer.found
    IN CASE found.kind = "none" -> below = {} /\ answer.path # <<>>
         [] found.kind = "file" -> found.digest = trees[answer.from][answer.path]
         [] found.kind = "tree" ->
              /\ found.files = Cardinality(below)
              /\ found.bytes = MapThenSumSet(LAMBDA p : Size[trees[answer.from][p]], below)

StateHolds == DiffIsOfTheFiles /\ LookupIsOfTheFiles
=============================================================================
