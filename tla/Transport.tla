----------------------------- MODULE Transport -----------------------------
(***************************************************************************)
(* How the main loop of CSGSThread::run reads the sockets: G2, then the    *)
(* pool of DExtra handlers, then that of DCS handlers, each socket until   *)
(* nothing is left in it or a read gives -1, and then the clocks.  What a  *)
(* handler does with a packet is in GroupHandler and Linking; here it      *)
(* matters only that it may release the sockets of the links it ends.      *)
(* Links are opened, and others ended, by the remote control and the       *)
(* clocks.                                                                 *)
(***************************************************************************)
EXTENDS Integers, Sequences, Packets

CONSTANTS
    DExtraPorts, DCSPorts,          \* ports the system gives out
    DExtraMessages, DCSMessages,    \* what reflectors send
    G2Messages,                     \* what gateways send
    DExtraNoise, DCSNoise, G2Noise, \* datagrams that are none of the protocol's
    Addresses, G2Ports, StandardPort,
    MaxWaiting                      \* datagrams a socket holds in the model

ASSUME TransportAssumption ==
    /\ DExtraPorts \cup DCSPorts \subseteq Nat \ {0}
    /\ StandardPort \in G2Ports
    /\ MaxWaiting \in Nat \ {0}

\* What others send is what the protocol has, with stream ids of 16 bits and
\* callsigns that are not one of the marks; noise is what no handler knows.  The
\* malformed packets that Packets names are neither.
StreamIds == 0 .. 65535

IsHeader(m) == m.kind = "HEADER" /\ m.id \in StreamIds
IsVoice(m) == m.kind = "AMBE" /\ m.id \in StreamIds /\ m.end \in BOOLEAN
IsData(m) == m.kind = "DATA" /\ m.id \in StreamIds /\ m.end \in BOOLEAN
IsPoll(m, marks) == m.kind = "POLL" /\ m.call \notin marks
IsConnect(m, marks) ==
    /\ m.kind = "CONNECT" /\ m.call \notin marks
    /\ m.type \in {"LINK", "UNLINK", "ACK", "NAK"}
    /\ m.type = "LINK" => m.target # Blank

ASSUME MessagesAssumption ==
    /\ \A m \in G2Messages : IsHeader(m) \/ IsVoice(m)
    /\ \A m \in DExtraMessages :
           IsHeader(m) \/ IsVoice(m) \/ IsPoll(m, {"DSVT"}) \/ IsConnect(m, {"DSVT"})
    /\ \A m \in DCSMessages :
           IsData(m) \/ IsPoll(m, {"0001", "EEEE"}) \/ IsConnect(m, {"0001", "EEEE"})
    /\ \A d \in G2Noise : G2Kind(d) = "NONE"
    /\ \A d \in DExtraNoise : DExtraKind(d) = "NONE"
    /\ \A d \in DCSNoise : DCSKind(d) = "NONE"

VARIABLES
    stage,      \* the part of the loop that is executed
    handed,     \* the datagram that is being processed, as read
    xWaiting, xIndex, xFound, xCut, \* the DExtra pool
    cWaiting, cIndex, cFound, cCut, \* the DCS pool
    inbox, portmap, heard           \* the G2 socket

dextraVars == <<xWaiting, xIndex, xFound, xCut>>
dcsVars == <<cWaiting, cIndex, cFound, cCut>>
socketVars == <<inbox, portmap, heard>>
vars == <<stage, handed, dextraVars, dcsVars, socketVars>>

Nothing == [datagram |-> "none"]

DExtraDatagrams == {DExtraWrite(m) : m \in DExtraMessages} \cup DExtraNoise \cup {EmptyDatagram}
DCSDatagrams == {DCSWrite(m) : m \in DCSMessages} \cup DCSNoise \cup {EmptyDatagram}
G2Datagrams == {G2Write(m) : m \in G2Messages} \cup G2Noise \cup {EmptyDatagram}

DExtra == INSTANCE ProtocolPool WITH
    Ports <- DExtraPorts, Datagrams <- DExtraDatagrams,
    waiting <- xWaiting, index <- xIndex, found <- xFound, cut <- xCut
DCS == INSTANCE ProtocolPool WITH
    Ports <- DCSPorts, Datagrams <- DCSDatagrams,
    waiting <- cWaiting, index <- cIndex, found <- cFound, cut <- cCut
G2 == INSTANCE G2Protocol WITH MaxInbox <- MaxWaiting

Stages == {"G2", "DExtra", "DCS", "clock"}

TypeOK ==
    /\ stage \in Stages
    /\ handed = Nothing \/ (handed.from = stage /\ stage \in {"G2", "DExtra", "DCS"})
    /\ DExtra!TypeOK
    /\ DCS!TypeOK
    /\ G2!TypeOK
-----------------------------------------------------------------------------
Init ==
    /\ stage = "clock"
    /\ handed = Nothing
    /\ DExtra!Init
    /\ DCS!Init
    /\ G2!Init

HandOut(d, kind, message) ==
    handed' = IF kind = "NONE" THEN Nothing ELSE [from |-> stage, datagram |-> d, message |-> message]

(***************************************************************************)
(* processG2.                                                              *)
(***************************************************************************)
ReadG2 ==
    /\ stage = "G2" /\ handed = Nothing
    /\ \E d \in G2Datagrams :
          /\ G2!readPackets(d)
          /\ HandOut(d, G2Kind(d), IF G2Kind(d) = "NONE" THEN {} ELSE G2Read(d))
    /\ UNCHANGED <<stage, dextraVars, dcsVars>>

ProcessG2 ==
    /\ stage = "G2" /\ handed # Nothing
    /\ handed' = Nothing
    /\ UNCHANGED <<stage, dextraVars, dcsVars, socketVars>>

G2Done ==
    /\ stage = "G2" /\ handed = Nothing
    /\ \/ G2!Empty /\ UNCHANGED socketVars
       \/ G2!cutShort
    /\ stage' = "DExtra"
    /\ DExtra!Begin
    /\ UNCHANGED <<handed, dcsVars>>

(***************************************************************************)
(* processDExtra and processDCS.  Only a connect packet can end links.     *)
(* The DExtra handlers of all groups see it, and are told from each other  *)
(* by host and modules, so that a refusal or a disconnect may end others   *)
(* than the link it came in by; DCS compares the port too.                 *)
(***************************************************************************)
ReadDExtra ==
    /\ stage = "DExtra" /\ handed = Nothing
    /\ \E d \in DExtraDatagrams :
          /\ DExtra!Take(d)
          /\ HandOut(d, DExtraKind(d), IF DExtraKind(d) = "NONE" THEN {} ELSE DExtraRead(d))
    /\ UNCHANGED <<stage, dcsVars, socketVars>>

EndedByDExtra ==
    IF handed.message.kind = "CONNECT" /\ handed.message.type \in {"NAK", "UNLINK"}
    THEN SUBSET DExtra!open
    ELSE {{}}

ProcessDExtra ==
    /\ stage = "DExtra" /\ handed # Nothing
    /\ \E S \in EndedByDExtra : DExtra!Resume(S)
    /\ handed' = Nothing
    /\ UNCHANGED <<stage, dcsVars, socketVars>>

PassDExtra ==
    /\ stage = "DExtra" /\ handed = Nothing
    /\ DExtra!Pass \/ DExtra!Cut
    /\ UNCHANGED <<stage, handed, dcsVars, socketVars>>

DExtraDone ==
    /\ stage = "DExtra" /\ handed = Nothing
    /\ DExtra!Finish
    /\ stage' = "DCS"
    /\ DCS!Begin
    /\ UNCHANGED <<handed, socketVars>>

ReadDCS ==
    /\ stage = "DCS" /\ handed = Nothing
    /\ \E d \in DCSDatagrams :
          /\ DCS!Take(d)
          /\ HandOut(d, DCSKind(d), IF DCSKind(d) = "NONE" THEN {} ELSE DCSRead(d))
    /\ UNCHANGED <<stage, dextraVars, socketVars>>

EndedByDCS ==
    IF handed.message.kind = "CONNECT" /\ handed.message.type \in {"NAK", "UNLINK"}
    THEN {{}, {cIndex}}
    ELSE {{}}

ProcessDCS ==
    /\ stage = "DCS" /\ handed # Nothing
    /\ \E S \in EndedByDCS : DCS!Resume(S)
    /\ handed' = Nothing
    /\ UNCHANGED <<stage, dextraVars, socketVars>>

PassDCS ==
    /\ stage = "DCS" /\ handed = Nothing
    /\ DCS!Pass \/ DCS!Cut
    /\ UNCHANGED <<stage, handed, dextraVars, socketVars>>

DCSDone ==
    /\ stage = "DCS" /\ handed = Nothing
    /\ DCS!Finish
    /\ stage' = "clock"
    /\ UNCHANGED <<handed, dextraVars, socketVars>>

(***************************************************************************)
(* The remote control and the clocks.                                      *)
(***************************************************************************)
Link ==
    /\ stage = "clock"
    /\ \/ \E p \in DExtraPorts : DExtra!getHandler(p) /\ UNCHANGED dcsVars
       \/ \E p \in DCSPorts : DCS!getHandler(p) /\ UNCHANGED dextraVars
    /\ UNCHANGED <<stage, handed, socketVars>>

Unlink ==
    /\ stage = "clock"
    /\ \/ \E p \in DExtra!open : DExtra!release({p}) /\ UNCHANGED dcsVars
       \/ \E p \in DCS!open : DCS!release({p}) /\ UNCHANGED dextraVars
    /\ UNCHANGED <<stage, handed, socketVars>>

NextTurn ==
    /\ stage = "clock"
    /\ stage' = "G2"
    /\ UNCHANGED <<handed, dextraVars, dcsVars, socketVars>>

(***************************************************************************)
(* The network.                                                            *)
(***************************************************************************)
FromReflector ==
    /\ \/ /\ \E p \in DExtraPorts, d \in DExtraDatagrams : DExtra!Arrive(p, d)
          /\ UNCHANGED dcsVars
       \/ /\ \E p \in DCSPorts, d \in DCSDatagrams : DCS!Arrive(p, d)
          /\ UNCHANGED dextraVars
    /\ UNCHANGED <<stage, handed, socketVars>>

FromGateway ==
    /\ \E p \in G2!Incoming : G2!Arrive(p)
    /\ UNCHANGED <<stage, handed, dextraVars, dcsVars>>

Network == FromReflector \/ FromGateway
-----------------------------------------------------------------------------
Reading == \/ ReadG2 \/ ProcessG2 \/ G2Done
           \/ ReadDExtra \/ ProcessDExtra \/ PassDExtra \/ DExtraDone
           \/ ReadDCS \/ ProcessDCS \/ PassDCS \/ DCSDone

MainLoop == Reading \/ NextTurn

Next == MainLoop \/ Link \/ Unlink \/ Network

Spec == Init /\ [][Next]_vars

\* The thread of the main loop is scheduled.
FairSpec == Spec /\ WF_vars(MainLoop)
-----------------------------------------------------------------------------
(***************************************************************************)
(* Properties.                                                             *)
(***************************************************************************)

\* Whatever links are ended while a packet is processed, m_index of a pool
\* never points to a handler that has been released, and no round is left
\* half done.
IndicesLive ==
    /\ DExtra!IndexLive
    /\ DCS!IndexLive
    /\ stage # "DExtra" => xIndex = DExtra!End
    /\ stage # "DCS" => cIndex = DCS!End

\* A turn of the main loop does not leave a pool before it has read the socket of
\* every link until it was empty, or until a read of that very socket failed or
\* brought an empty datagram: no link waits because another is busy, is ended or
\* fails.
RoundsReadAll ==
    [][/\ DExtraDone => DExtra!open \subseteq xFound \cup xCut
       /\ DCSDone => DCS!open \subseteq cFound \cup cCut]_vars

\* A datagram is taken for what it was written as: the kind, the request, the
\* callsign and the end mark are read as sent, and frames are read with equal
\* ids if and only if they were written with equal ids.
Protocol ==
    CASE stage = "G2" -> [msgs |-> G2Messages, back |-> [m \in G2Messages |-> G2Read(G2Write(m))]]
      [] stage = "DExtra" -> [msgs |-> DExtraMessages,
                              back |-> [m \in DExtraMessages |-> DExtraRead(DExtraWrite(m))]]
      [] stage = "DCS" -> [msgs |-> DCSMessages,
                           back |-> [m \in DCSMessages |-> DCSRead(DCSWrite(m))]]

Agrees(sent, read) ==
    /\ read.kind = sent.kind
    /\ sent.kind = "CONNECT" => read.type = sent.type /\ read.module = sent.module
    /\ sent.kind # "AMBE" => read.call = sent.call
    /\ sent.kind \in {"AMBE", "DATA"} => read.end = sent.end

HasId(m) == m.kind \in {"HEADER", "AMBE", "DATA"}

ReadAsSent ==
    handed # Nothing =>
        \E sent \in Protocol.msgs :
            /\ Protocol.back[sent] = handed.message
            /\ Agrees(sent, handed.message)
            /\ HasId(sent) => \A m \in Protocol.msgs :
                   HasId(m) => (m.id = sent.id <=> Protocol.back[m].id = handed.message.id)

\* A gateway is spoken to at the port it was last heard from, at the standard
\* port if it has not been heard; an empty datagram is not heard.
AnsweredWhereHeard == G2!AnsweredWhereHeard

\* The main loop comes to the clocks again and again, unless datagrams keep
\* arriving: the loops that read a socket or a pool have no other bound.
ClocksReached == []<>(stage = "clock") \/ []<><<Network>>_vars
=============================================================================
