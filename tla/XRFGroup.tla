------------------------------ MODULE XRFGroup ------------------------------
(***************************************************************************)
(* What a packet from a host with XRF reflectors does to one of several    *)
(* groups.  The static process() of CDExtraHandler offers a packet to the  *)
(* handlers of all groups: they compare its address, which is that of the  *)
(* host, and depending on the packet the repeater, the module of the       *)
(* reflector, or only the stream.                                          *)
(***************************************************************************)
EXTENDS Linking

CONSTANTS
    Host,       \* the host of each XRF reflector, which has several modules
    Repeater    \* m_repeater: the gateway's callsign and the band of the group

From(h) == {p \in DOMAIN dextra : Host[dextra[p].refl] = h}

\* A packet that fits none of the group's links; it has one XRF link at most.
NotFor(S) == S = {} /\ UNCHANGED <<groupVars, linkVars>>

Asked(h, rep) == {p \in From(h) \cap DExtra!In("LINKING") : rep = Repeater}
OnAck(h, rep) == NotFor(Asked(h, rep)) \/ \E p \in Asked(h, rep) : DExtra!Ack(p) /\ UNCHANGED dcs
OnNak(h, rep) == NotFor(Asked(h, rep)) \/ \E p \in Asked(h, rep) : DExtra!Nak(p) /\ UNCHANGED dcs

To(r) == {p \in DOMAIN dextra : dextra[p].refl = r}
OnDisconnect(r) == NotFor(To(r)) \/ \E p \in To(r) : DExtra!Disconnect(p) /\ UNCHANGED dcs

\* The poll of a reflector names it without the module.
LinkedAt(h) == From(h) \cap DExtra!In("LINKED")
OnPoll(h) == NotFor(LinkedAt(h)) \/ \E p \in LinkedAt(h) : DExtra!Poll(p) /\ UNCHANGED dcs

Mut_Silent(r) ==        \* the module is not compared
    {p \in LinkedAt(Host[r]) : dextra[p].stream = NoId}
Silent(r) == {p \in To(r) \cap DExtra!In("LINKED") : dextra[p].stream = NoId}
OnHeader(r, i) ==
    NotFor(Silent(r)) \/ \E p \in Silent(r) : DExtra!ReflectorHeader(p, i) /\ UNCHANGED dcs

Carrying(h, i) == {p \in LinkedAt(h) : dextra[p].stream = i}
OnVoice(h, i, first, end) ==
    \/ NotFor(Carrying(h, i))
    \/ \E p \in Carrying(h, i) : DExtra!ReflectorVoice(p, i, first, end) /\ UNCHANGED dcs

\* What the operator and the subscribers do with this group.
Own == remoteUnlink \/ (\E r \in XRFs : remoteLink(r)) \/ Talk

\* The group is shown as being linked, and nobody asks for the link.
Stuck == linkStatus = Linking("LT_DEXTRA") /\ dextra = NoLinks

\* A talk that comes from a reflector comes from the one the group is set to.
RelaysOnly(ids) == relayed \in LinkIds => linkReflector \in XRFs /\ relayed \in ids[linkReflector]
=============================================================================
