----------------------------- MODULE G2Protocol -----------------------------
(***************************************************************************)
(* The G2 socket (src/G2ProtocolHandler.cpp): repeaters are spoken to at   *)
(* the standard port, unless they have been heard from another one, as     *)
(* hotspots behind a router are.                                           *)
(***************************************************************************)
EXTENDS Integers, Sequences

CONSTANTS
    Addresses,      \* of gateways
    G2Ports,        \* ports they send from
    StandardPort,   \* G2_DV_PORT, or G2_IPV6_PORT
    G2Datagrams,
    EmptyDatagram,  \* the one without a byte in it
    MaxInbox        \* datagrams the socket holds in the model

VARIABLES
    inbox,      \* the datagrams in the socket
    portmap,    \* the ports that have been saved
    heard       \* history: the port of the last datagram with bytes read from an address

g2Vars == <<inbox, portmap, heard>>

Incoming == [addr : Addresses, port : G2Ports, data : G2Datagrams]

TypeOK ==
    /\ inbox \in Seq(Incoming)
    /\ portmap \in [DOMAIN portmap -> G2Ports] /\ DOMAIN portmap \subseteq Addresses
    /\ heard \in [Addresses -> G2Ports]

Init ==
    /\ inbox = <<>>
    /\ portmap = [a \in {} |-> StandardPort]
    /\ heard = [a \in Addresses |-> StandardPort]

\* The port that writeHeader, writeAMBE and writePing send to.
PortOf(a) == IF a \in DOMAIN portmap THEN portmap[a] ELSE StandardPort

\* readPackets() saves a port if it is not the standard one or if another has
\* been saved before.
Mut_Saves(a, port) == port # StandardPort
Saves(a, port) == a \in DOMAIN portmap \/ port # StandardPort

readPackets(d) ==
    /\ inbox # <<>>
    /\ LET p == Head(inbox)
       IN  /\ d = p.data
           /\ d # EmptyDatagram
           /\ portmap' = IF Saves(p.addr, p.port)
                         THEN [a \in DOMAIN portmap \cup {p.addr} |->
                                  IF a = p.addr THEN p.port ELSE portmap[a]]
                         ELSE portmap
           /\ heard' = [heard EXCEPT ![p.addr] = p.port]
    /\ inbox' = Tail(inbox)

Empty == inbox = <<>>

\* The read fails or takes out a datagram without a byte: readPackets() returns
\* before it looks at the port, as if nothing was left to read.
cutShort ==
    /\ \/ UNCHANGED inbox
       \/ inbox # <<>> /\ Head(inbox).data = EmptyDatagram /\ inbox' = Tail(inbox)
    /\ UNCHANGED <<portmap, heard>>

Arrive(p) ==
    /\ Len(inbox) < MaxInbox
    /\ inbox' = Append(inbox, p)
    /\ UNCHANGED <<portmap, heard>>

\* A gateway is spoken to at the port it was last heard from, at the standard
\* port if it has not been heard; an empty datagram is not heard.
AnsweredWhereHeard == \A a \in Addresses : PortOf(a) = heard[a]
=============================================================================
