------------------------------ MODULE MCServer ------------------------------
(***************************************************************************)
(* A small instance of SGSThread: two ircDDB clients and a link of either  *)
(* protocol.                                                               *)
(***************************************************************************)
EXTENDS SGSThread

CONSTANTS p1, p2

OnePort == {p1}
OtherPort == {p2}
=============================================================================
