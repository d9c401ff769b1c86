------------------------------ MODULE MCRejeu -------------------------------
(* Rejeu on small instances: see the .cfg files. *)
EXTENDS Rejeu

\* The default, and both settings.
DeuxReglages == {[unique |-> b, continuer |-> b] : b \in BOOLEAN}

\* The last symbol before a frame, and its first.
AuBordDeLaTrame == {-1, 0}
=============================================================================
