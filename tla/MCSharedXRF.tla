---------------------------- MODULE MCSharedXRF ----------------------------
(***************************************************************************)
(* A small instance of SharedXRF: two modules of one host and one of       *)
(* another.                                                                *)
(***************************************************************************)
EXTENDS SharedXRF

CONSTANTS x1, x2, y1, h1, h2, p1, p2, k1, k2

ThreeModules == {x1, x2, y1}
TwoHosts == [r \in {x1, x2, y1} |-> IF r = y1 THEN h2 ELSE h1]
OneStreamEach == [r \in {x1, x2, y1} |-> IF r = x1 THEN {1} ELSE IF r = x2 THEN {2} ELSE {}]
OnePort == {p1}
OtherPort == {p2}
=============================================================================
