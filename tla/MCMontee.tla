------------------------------ MODULE MCMontee ------------------------------
(* Montee on small instances: see the .cfg files. *)
EXTENDS Montee
=============================================================================
