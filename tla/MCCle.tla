------------------------------- MODULE MCCle --------------------------------
(* Cle on small instances: see the .cfg files. *)
EXTENDS Cle
=============================================================================
