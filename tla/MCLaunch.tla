------------------------------ MODULE MCLaunch ------------------------------
(***************************************************************************)
(* Launch for TLC: requests and recipes are interchangeable.               *)
(***************************************************************************)
EXTENDS Launch, TLC

Symmetry == Permutations(Slots) \cup Permutations(Recipes)
=============================================================================
