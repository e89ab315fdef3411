-------------------------------- MODULE Flux --------------------------------
(***************************************************************************)
(* What the collectors that read Flux responses share.                     *)
(***************************************************************************)

CONSTANT Nil     \* a column that is missing or empty, a label or a pointer that is not set

\* A value that is set goes before one that was there.
Or(new, old) == IF new # Nil THEN new ELSE old

=============================================================================
