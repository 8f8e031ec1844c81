----------------------------- MODULE MCLinking -----------------------------
(***************************************************************************)
(* Small instances of Linking.  The poll inactivity timers are shortened   *)
(* from 60 and 30 seconds, but remain longer than the network timeout and  *)
(* long enough for requests to be repeated.                                *)
(***************************************************************************)
EXTENDS Linking

CONSTANTS x1, c1, c2, p1, p2

OneXRF == {x1}
OneDCS == {c1}
TwoDCSs == {c1, c2}
TwoPorts == {p1, p2}
=============================================================================
