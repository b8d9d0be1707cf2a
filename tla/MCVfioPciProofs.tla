-------------------------- MODULE MCVfioPciProofs --------------------------
(* Model-checking instance of the inductive invariant of VfioPciProofs:    *)
(* TLC checks IInv on every reachable state before TLAPS proves it for     *)
(* every bound.  Three interrupts let two be pending while a third is      *)
(* raised after a guest MSI disable and re-enable.                         *)
EXTENDS VfioPciProofs

MCMaxIrqs == 3

=============================================================================
