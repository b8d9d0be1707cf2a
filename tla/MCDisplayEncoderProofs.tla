----------------------- MODULE MCDisplayEncoderProofs -----------------------
(* Model-checking instance of the inductive invariant of                    *)
(* DisplayEncoderProofs: TLC checks EInv on every reachable state of two    *)
(* clients in turn before TLAPS proves it for every bound.                  *)
EXTENDS DisplayEncoderProofs
=============================================================================
