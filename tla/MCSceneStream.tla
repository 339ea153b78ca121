---------------------------- MODULE MCSceneStream ----------------------------
(* SceneStream on small instances. *)
EXTENDS SceneStream, TLC

Symmetry == Permutations(Clients) \cup Permutations(Paths) \cup Permutations(Values)
==============================================================================
