----------------------------- MODULE MCEmission -----------------------------
(* Emission on a small instance: see the .cfg file. *)
EXTENDS Emission
=============================================================================
