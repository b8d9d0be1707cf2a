--------------------------- MODULE MCVfioDmaProofs ---------------------------
(* Model-checking instance of the inductive invariant of VfioDmaProofs,    *)
(* with the constants of MCVfioDma.                                         *)
EXTENDS VfioDmaProofs

MCHvas == {1, 2}
MCIovaLimit == 2
MCMaxCommits == 2

=============================================================================
