---------------------------- MODULE MCTransport ----------------------------
(***************************************************************************)
(* A small instance of Transport: two DExtra links, one DCS link, a        *)
(* gateway address from which packets come from two ports.  The ids 258    *)
(* and 513 differ only in the order of their bytes.                        *)
(***************************************************************************)
EXTENDS Transport

XMessages == {ConnectMsg("NAK", "SMART", "A", "B"), ConnectMsg("UNLINK", "XRF", "B", "A"),
              PollMsg("XRF"), HeaderMsg(258, "user"), VoiceMsg(513, TRUE)}
CMessages == {ConnectMsg("NAK", "SMART", "A", "C"), DataMsg(258, "user", FALSE),
              DataMsg(513, "user", TRUE), PollMsg("DCS")}
GMessages == {HeaderMsg(258, "user"), VoiceMsg(513, TRUE)}
XNoise == {[len |-> 30, mark |-> "other"]}
CNoise == {[len |-> 35, mark |-> "EEEE"]}
GNoise == {Ping}
Gateways == {"g1"}
=============================================================================
