---------------------------- MODULE MCRedirectUdp ----------------------------
(* Model-checking instance of RedirectUdp: a pool of two packets, a socket *)
(* that holds two datagrams, and two timer handles, enough for a second    *)
(* retry timer to be added while the first is pending.                     *)
EXTENDS RedirectUdp

MCTimerIds == {1, 2}

=============================================================================
