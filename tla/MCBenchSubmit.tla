--------------------------- MODULE MCBenchSubmit ---------------------------
(***************************************************************************)
(* Keys that share a temp file and keys that do not, requests and tasks    *)
(* differ in nothing but their name.                                       *)
(***************************************************************************)
EXTENDS BenchSubmit, TLC

Alike ==
  Permutations(Stems) \cup Permutations(Exts) \cup Permutations(Specs) \cup Permutations(Handlers)
=============================================================================
