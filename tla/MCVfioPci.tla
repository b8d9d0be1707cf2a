----------------------------- MODULE MCVfioPci -----------------------------
(* Model-checking instance of VfioPci: two device interrupts are enough for *)
(* one to arrive before and one after a guest MSI enable/disable, and for   *)
(* two to be pending in the eventfd at once.                               *)
EXTENDS VfioPci

MCMaxIrqs == 2

=============================================================================
