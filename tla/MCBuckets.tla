----------------------------- MODULE MCBuckets ------------------------------
(* Instances of Buckets for TLC. *)
EXTENDS Buckets

=============================================================================
