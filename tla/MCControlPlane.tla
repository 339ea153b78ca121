---------------------------- MODULE MCControlPlane ----------------------------
(* ControlPlane on a small instance. *)
EXTENDS ControlPlane, TLC

Symmetry == Permutations(SceneIds) \cup Permutations(Names) \cup Permutations(Tokens)
==============================================================================
