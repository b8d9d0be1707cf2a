------------------------------ MODULE MCVfioDma ------------------------------
(* Model-checking instance of VfioDma: guest physical addresses 0 .. 1, so *)
(* that slots [0, 1), [1, 2) and [0, 2) exist and a transition can split   *)
(* or merge them; two host addresses, so that a slot can be remapped to    *)
(* other memory at the same range; two transitions.                        *)
EXTENDS VfioDma

MCHvas == {1, 2}
MCIovaLimit == 2
MCMaxCommits == 2

=============================================================================
