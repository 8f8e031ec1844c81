--------------------------- MODULE RemoteHandler ---------------------------
(***************************************************************************)
(* The remote control: src/RemoteHandler.cpp and the TLS socket under it,  *)
(* src/TLSServer.cpp.  The main loop looks once a turn whether a client    *)
(* has connected; if one has, it accepts it and reads a password and one   *)
(* command, and each of these calls blocks.  What is in the password and   *)
(* in the command is decided when it is read.                              *)
(***************************************************************************)
EXTENDS Naturals

CONSTANT Descriptors    \* how many sockets of clients the process may have

ASSUME RemoteAssumption == Descriptors \in Nat \ {0}

VARIABLES
    phase,      \* where process() is; "closed": there is no remote handler
    peer,       \* the client that connected last
    held,       \* whether m_client is a socket that is open
    lost,       \* open sockets that nothing refers to
    careless    \* history: commands after which the client was not closed

remoteVars == <<phase, peer, held, lost, careless>>

Writing == {"refuse", "admit", "reply"}
Reading == {"handshake", "password", "command"}

RemoteTypeOK ==
    /\ phase \in {"closed", "idle"} \cup Reading \cup Writing
    /\ peer \in {"none", "silent", "sent", "gone"}
    /\ held \in BOOLEAN
    /\ lost \in 0..Descriptors
    /\ careless \in 0..Descriptors

RemoteInit == phase = "closed" /\ peer = "none" /\ held = FALSE /\ lost = 0 /\ careless = 0
-----------------------------------------------------------------------------
\* The client connects, sends what is expected of him, or leaves.
PeerConnects == phase # "closed" /\ peer = "none" /\ peer' = "silent"
PeerSends == peer = "silent" /\ peer' = "sent"
PeerLeaves == peer \in {"silent", "sent"} /\ peer' = "gone"
Peer == (PeerConnects \/ PeerSends \/ PeerLeaves) /\ UNCHANGED <<phase, held, lost, careless>>

Answered == peer \in {"sent", "gone"}
CloseClient == phase' = "idle" /\ peer' = "none" /\ held' = FALSE /\ UNCHANGED <<lost, careless>>
Proceed(to) == phase' \in to /\ UNCHANGED <<held, lost, careless>>

\* select() in GetCommand: nobody has connected.
NothingToDo == phase \in {"closed", "idle"} /\ peer = "none" /\ UNCHANGED remoteVars

\* accept() overwrites m_client, whatever it was, and fails at the limit.
Accept ==
    /\ phase = "idle"
    /\ peer # "none"
    /\ lost' = IF held THEN lost + 1 ELSE lost
    /\ held' = (lost' < Descriptors)
    /\ phase' = IF held' THEN "handshake" ELSE "idle"
    /\ UNCHANGED <<peer, careless>>

SSLAccept ==
    /\ phase = "handshake"
    /\ Answered
    /\ \/ peer = "sent" /\ peer' = "silent" /\ Proceed({"password"})
       \/ CloseClient

Consumed == peer' = IF peer = "sent" THEN "silent" ELSE peer

ReadPassword ==
    /\ phase = "password"
    /\ Answered
    /\ Consumed
    /\ Proceed({"refuse", "admit"})

Mut_Refuse ==       \* the client is not closed
    /\ phase = "refuse"
    /\ phase' = "idle" /\ peer' = "none"
    /\ UNCHANGED <<held, lost, careless>>
Refuse == phase = "refuse" /\ CloseClient
Admit == phase = "admit" /\ Proceed({"command"}) /\ UNCHANGED peer

\* No command, one of a single word, or halt: process() returns at once.
ReadShort ==
    /\ phase = "command"
    /\ Answered
    /\ careless' = careless + 1
    /\ phase' = "idle"
    /\ peer' = "none"
    /\ UNCHANGED <<held, lost>>

ReadCommand ==
    /\ phase = "command"
    /\ Answered
    /\ Consumed
    /\ Proceed({"reply"})

Reply == phase = "reply" /\ CloseClient

\* Writing to a client who has left, in the handshake too, may raise SIGPIPE, which
\* nobody catches.
PipeBreaks == phase \in Writing \cup {"handshake"} /\ peer = "gone"
=============================================================================
