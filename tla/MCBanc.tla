------------------------------- MODULE MCBanc -------------------------------
(* The bench of the DSP ROM on every test of dsp_tester.c but boot.          *)
EXTENDS Banc

MCResidus == {0, -5}
MCEpoques == {0, 1, 511, 512, 1023, 2047}
=============================================================================
