----------------------------- MODULE MCDescente ------------------------------
(* Descente on a small instance: see MCDescente.cfg. *)
EXTENDS Descente

\* Three runs in which a SACCH/TH of both subchannels may be whole, by timeslot, and one
\* across the end of the hyperframe.
QuatreCas == {[debut |-> 12, tn |-> 2], [debut |-> 40, tn |-> 5], [debut |-> 64, tn |-> 7],
              [debut |-> 130, tn |-> 1]}
=============================================================================
