----------------------------- MODULE MCRouting -----------------------------
(***************************************************************************)
(* A small instance of Routing: two networks, two subscribers, and two     *)
(* repeaters of which one may be moved to the gateway of the other.        *)
(***************************************************************************)
EXTENDS Routing

CONSTANTS u1, u2, r1, r2, g1, g2, in, off

OneTalker == {u1}
HomeOf == [r \in {r1, r2} |-> IF r = r1 THEN g1 ELSE g2]
Rows == {<<r1, g1>>, <<r1, g2>>}
Lengths == [t \in {in, off} |-> IF t = in THEN 9 ELSE 10]
SomeLosses == {{}, {4}, {2, 3}, {1, 2, 3, 4, 7}}
=============================================================================
