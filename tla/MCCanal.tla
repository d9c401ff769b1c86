------------------------------ MODULE MCCanal -------------------------------
(* Canal on small instances: see the .cfg files. *)
EXTENDS Canal

AvecAnnonce == {[ti |-> FALSE, annonce |-> TRUE]}

\* osmocom-bb in clear, the TI firmware under ciphering.
DeuxInstallations == AvecAnnonce \cup {[ti |-> TRUE, annonce |-> FALSE]}
=============================================================================
