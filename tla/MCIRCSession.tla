---------------------------- MODULE MCIRCSession ----------------------------
(***************************************************************************)
(* Small instances of IRCSession.  The timeouts of the protocol and of the *)
(* session are shortened to a round each, and so is the wait before a new  *)
(* connection: the shorter they are, the less time there is for Entry to   *)
(* notice that a connection was lost.  Two seconds of quiet are longer     *)
(* than the longest turn of a thread, as in the code.                      *)
(***************************************************************************)
EXTENDS IRCSession

CONSTANTS s1, g1, g2, u1, r1, x1

OneServer == {s1}
OneGateway == {g1}
TwoGateways == {g1, g2}
OneUser == {u1}
OneReflector == {x1}
OneRepeater == {r1}

HomeOfOne == [r \in {r1} |-> g1]
HomeRow == {<<1, r1, g1>>}
ZoneRow == {<<1, r1, g2>>}
=============================================================================
