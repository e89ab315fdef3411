---------------------------- MODULE MCEcsClient -----------------------------
(* Instances of EcsClient for TLC. *)
EXTENDS EcsClient, TLC

\* The callers are treated alike.
CallerSymmetry == Permutations(Callers)

=============================================================================
