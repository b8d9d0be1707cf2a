--------------------------- MODULE MCDisplayEncoder ---------------------------
(* The encoder with two clients in turn: Start, Stop, Start.                *)
EXTENDS DisplayEncoder
=============================================================================
