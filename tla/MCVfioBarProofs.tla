--------------------------- MODULE MCVfioBarProofs ---------------------------
(* Model-checking instance of the inductive invariants of VfioBarProofs,   *)
(* with the constants of MCVfioBar.                                         *)
EXTENDS VfioBarProofs

MCBars == {0, 1}
MCAddrs == {128, 192, 256}
MCRegionStride == 64
MCNoAreas == {}
MCMaxActivations == 3

=============================================================================
