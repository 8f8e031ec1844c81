----------------------------- MODULE SharedXRF -----------------------------
(***************************************************************************)
(* Two groups that are linked to modules of the same host, to the same     *)
(* module even, or to modules of different hosts.  Each has the links of   *)
(* Linking, with ports of its own; a packet is for both.                   *)
(***************************************************************************)
EXTENDS Integers

CONSTANTS
    XRFs, NoReflector, LinkIds, G2Ids, NetworkTimeout, PollTime, MaxStep,
    Host,               \* of each reflector
    IdsOf,              \* the streams of each reflector
    PortsA, PortsB,     \* the ports the links of the groups may get, one at least
    RepeaterA, RepeaterB

VARIABLES
    aType, aReflector, aStatus, aRelayed, aTimer, aLinks,   \* a group
    bType, bReflector, bStatus, bRelayed, bTimer, bLinks,   \* and the other
    up

aVars == <<aType, aReflector, aStatus, aRelayed, aTimer, aLinks>>
bVars == <<bType, bReflector, bStatus, bRelayed, bTimer, bLinks>>
vars == <<aVars, bVars, up>>

A == INSTANCE XRFGroup WITH
        DCSs <- {}, Ports <- PortsA, Repeater <- RepeaterA,
        DExtraPollTime <- PollTime, DCSPollTime <- PollTime,
        linkType <- aType, linkReflector <- aReflector, linkStatus <- aStatus,
        relayed <- aRelayed, linkTimer <- aTimer, dextra <- aLinks, dcs <- <<>>
B == INSTANCE XRFGroup WITH
        DCSs <- {}, Ports <- PortsB, Repeater <- RepeaterB,
        DExtraPollTime <- PollTime, DCSPollTime <- PollTime,
        linkType <- bType, linkReflector <- bReflector, linkStatus <- bStatus,
        relayed <- bRelayed, linkTimer <- bTimer, dextra <- bLinks, dcs <- <<>>

ASSUME SharedAssumption ==
    /\ PortsA \cap PortsB = {} /\ {} \notin {PortsA, PortsB}
    /\ \A r, s \in XRFs : r # s => IdsOf[r] \cap IdsOf[s] = {}
    /\ \A r \in XRFs : IdsOf[r] \subseteq LinkIds
    /\ NoReflector \notin XRFs
    /\ LinkIds \cup G2Ids \subseteq Nat \ {0} /\ LinkIds \cap G2Ids = {}
    /\ {NetworkTimeout, PollTime, MaxStep} \subseteq Nat \ {0}

Links == [p \in DOMAIN aLinks \cup DOMAIN bLinks |-> IF p \in DOMAIN aLinks THEN aLinks[p] ELSE bLinks[p]]
HostAt(p) == Host[Links[p].refl]
-----------------------------------------------------------------------------
Init == A!Init /\ B!Init

StartUp == A!StartUp /\ B!StartUp

\* The remote control and the subscribers act on one group at a time.
ForA == up /\ A!Own /\ UNCHANGED bVars
ForB == up /\ B!Own /\ UNCHANGED aVars

\* A packet from host h: about one of its modules, to a repeater, or neither.
Ack(h) == \E rep \in {RepeaterA, RepeaterB} : A!OnAck(h, rep) /\ B!OnAck(h, rep)
Nak(h) == \E rep \in {RepeaterA, RepeaterB} : A!OnNak(h, rep) /\ B!OnNak(h, rep)
Poll(h) == A!OnPoll(h) /\ B!OnPoll(h)
Modules(h) == {r \in XRFs : Host[r] = h}
Disconnect(h) == \E r \in Modules(h) : A!OnDisconnect(r) /\ B!OnDisconnect(r)
Header(h) == \E r \in Modules(h) : \E i \in IdsOf[r] : A!OnHeader(r, i) /\ B!OnHeader(r, i)
Voice(h) ==
    \E i \in LinkIds, first, end \in BOOLEAN :
        A!OnVoice(h, i, first, end) /\ B!OnVoice(h, i, first, end)

\* It needs an open port, of either group.
Packet(h) ==
    /\ \E p \in DOMAIN Links : HostAt(p) = h
    /\ Ack(h) \/ Nak(h) \/ Poll(h) \/ Disconnect(h) \/ Header(h) \/ Voice(h)
    /\ UNCHANGED up

Tick == up /\ \E d \in 1..MaxStep : A!Clock(d) /\ B!Clock(d)

Next == StartUp \/ ForA \/ ForB \/ Tick \/ \E r \in XRFs : Packet(Host[r])

Spec == Init /\ [][Next]_vars
FairSpec == Spec /\ WF_vars(Tick)
-----------------------------------------------------------------------------
(***************************************************************************)
(* Properties.                                                             *)
(***************************************************************************)

\* What is shown of each group is what its own link is, whatever the packets for
\* the other group do to it.
StatusAgrees == A!StatusAgrees /\ B!StatusAgrees

\* The talk a group relays is on its own link until that is lost: not even a
\* packet for the other group separates the two.
OrphanedOnlyByLoss ==
    [][/\ A!Orphaned' => A!Orphaned \/ A!Separates
       /\ B!Orphaned' => B!Orphaned \/ B!Separates]_vars

\* A group hears the module it is set to and no other module of the host, though
\* the frames of all of them come from one address.  An orphaned talk is left to
\* the network timer, even if the group is linked elsewhere meanwhile.
HearsOwnModule ==
    /\ A!Orphaned \/ A!RelaysOnly(IdsOf)
    /\ B!Orphaned \/ B!RelaysOnly(IdsOf)

\* A group waits for a link that nobody asks for only after a module was disconnected
\* while its link was not acknowledged: the handler is deleted and the group, which
\* was not linked, is not told.  (A port is always free here.)
StuckOnlyByDisconnect ==
    [][\/ (A!Stuck' => A!Stuck) /\ (B!Stuck' => B!Stuck)
       \/ \E r \in XRFs : Disconnect(Host[r])]_vars

\* A link does not stay up when its host has gone silent.  The polls of a host that
\* has dropped one of two links and serves the other keep both up.
HostSends(p) == p \in DOMAIN Links /\ Packet(HostAt(p))
DeadLinkNoticed ==
    \A p \in PortsA \cup PortsB :
        \/ []<>(p \notin DOMAIN Links \/ Links[p].state # "LINKED")
        \/ []<><<HostSends(p)>>_vars
=============================================================================
