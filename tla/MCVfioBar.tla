------------------------------ MODULE MCVfioBar ------------------------------
(* Model-checking instance of VfioBar: two BARs, three guest addresses so  *)
(* that a BAR can always be moved, and three activations, enough for      *)
(* Activate; Deactivate; Activate of one BAR with the other active.        *)
(* Region host offsets (i << 40 in the kernel) are scaled to i * 64, and   *)
(* guest addresses lie above them as in a real guest.                      *)
EXTENDS VfioBar

MCBars == {0, 1}
MCAddrs == {128, 192, 256}
MCRegionStride == 64
MCAreaOffsets == {0, 8}
MCNoAreas == {}
MCMaxActivations == 3

=============================================================================
