------------------------------- MODULE MCPont -------------------------------
(* Pont on small instances: see the .cfg files. *)
EXTENDS Pont
=============================================================================
