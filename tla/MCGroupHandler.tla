--------------------------- MODULE MCGroupHandler ---------------------------
(***************************************************************************)
(* Small instances of GroupHandler.  One unit of time is about two         *)
(* seconds; the user timeout and the ten minutes without an address are    *)
(* shortened, but keep their place in the order of the timeouts.           *)
(***************************************************************************)
EXTENDS GroupHandler, TLC

CONSTANTS u1, u2, r1, r2, a1, a2, a3, a4

OneUser == {u1}
TwoUsers == {u1, u2}
TwoRepeaters == {r1, r2}
Chunks == {a1, a2, a3, a4}
ThreeChunks == {a1, a2, a3}
OneRepeater == {r1}

OwnRepeater == {<<u1, r1>>, <<u2, r2>>}
Home == {<<u1, r1>>}

Symmetry == Permutations(Chunks)
=============================================================================
