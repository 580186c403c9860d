--------------------------------- MODULE Stage ---------------------------------
(***************************************************************************)
(* What the compositions of the services share.  The components around the *)
(* mutation engine share no state with one another, so they are put side   *)
(* by side: a behaviour belongs to one scene, and only the component of    *)
(* that scene moves.  What is explored is the sum of the components'       *)
(* states, not their product.                                              *)
(***************************************************************************)
CONSTANTS
  Paths,   \* source files
  Texts,   \* what a file can contain
  NoText   \* the content of a file that does not exist

VARIABLE scene  \* the component that moves

Playing(s) == scene = s

(* The value of the variables of the components that do not. *)
Unused == "unused"
=============================================================================
