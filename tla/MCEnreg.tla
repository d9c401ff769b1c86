------------------------------- MODULE MCEnreg ------------------------------
(* Enreg on small instances: see the .cfg files. *)
EXTENDS Enreg
=============================================================================
