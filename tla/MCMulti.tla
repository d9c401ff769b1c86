------------------------------ MODULE MCMulti -------------------------------
(* Multi on small instances: see the .cfg files. *)
EXTENDS Multi
=============================================================================
