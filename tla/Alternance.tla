----------------------------- MODULE Alternance -----------------------------
(***************************************************************************)
(* What the ARM/DSP bridge promises of one TDMA frame, without sockets,    *)
(* messages or processes: the DSP opens the frame, the frame handler of    *)
(* the ARM firmware (l1_sync) runs on the result, and the DSP may then     *)
(* finish the frame.  The two never execute at the same time, and the DSP  *)
(* never opens a frame before the handler of the previous one has          *)
(* returned, unless the frame was given up (peer gone, server stopped).    *)
(***************************************************************************)

VARIABLE etape      \* "repos", "dsp", "sync" or "suite"

Init == etape = "repos"

\* The DSP opens a frame (its frame interrupt, its first results).
Ouvrir == etape = "repos" /\ etape' = "dsp"

\* The ARM runs l1_sync on what the DSP left in the API RAM.
Synchroniser == etape = "dsp" /\ etape' = "sync"

\* The DSP receives the burst of the frame and finishes it.
Poursuivre == etape = "sync" /\ etape' = "suite"

\* The frame is over, or it is given up on the way.
Clore == etape # "repos" /\ etape' = "repos"

Next == Ouvrir \/ Synchroniser \/ Poursuivre \/ Clore

Spec == Init /\ [][Next]_etape
=============================================================================
