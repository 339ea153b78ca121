------------------------------- MODULE MCServer -------------------------------
(* Server on small instances. *)
EXTENDS Server, TLC

Symmetry == Permutations(SceneIds) \cup Permutations(Names) \cup Permutations(Sessions)
==============================================================================
