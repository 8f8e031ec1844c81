--------------------------- MODULE DExtraHandler ---------------------------
(***************************************************************************)
(* The DExtra handlers of one group (src/DExtraHandler.cpp): the links to  *)
(* XRF reflectors it has asked for.  Only outgoing links exist, the        *)
(* program never creates others.  An unlinked handler is deleted on the    *)
(* spot, so that no handler is ever left in DEXTRA_UNLINKING.              *)
(***************************************************************************)
EXTENDS GroupLink

CONSTANT PollTime   \* of m_pollInactivityTimer

VARIABLE links      \* m_DExtraHandlers, by the port of m_handler

TypeOK ==
    /\ links \in [DOMAIN links -> Link(PollTime)]
    /\ DOMAIN links \subseteq Ports

In(state) == {p \in DOMAIN links : links[p].state = state}
Delete(S) == links' = [p \in DOMAIN links \ S |-> links[p]]

\* link(), with one of the free ports; without one there is no handler.
link(r, free) ==
    IF free = {}
    THEN UNCHANGED links
    ELSE \E p \in free :
            links' = [q \in DOMAIN links \cup {p} |-> IF q = p THEN NewLink(r, PollTime) ELSE links[q]]

\* unlink() of a group from its reflector.
Mut_unlink(r) ==        \* the handler stays
    LET his == {p \in DOMAIN links : links[p].refl = r}
    IN  /\ UNCHANGED links
        /\ IF his # {} THEN linkFailed ELSE UNCHANGED linkStatus
        /\ EndTalks({links[p].stream : p \in his})
unlink(r) ==
    LET his == {p \in DOMAIN links : links[p].refl = r}
    IN  /\ Delete(his)
        /\ IF his # {} THEN linkFailed ELSE UNCHANGED linkStatus
        /\ EndTalks({links[p].stream : p \in his})

(***************************************************************************)
(* Packets from the reflector of the link at port p.                       *)
(***************************************************************************)
Ack(p) ==
    /\ p \in In("LINKING")
    /\ linkUp
    /\ links' = [links EXCEPT ![p].state = "LINKED", ![p].try = Stopped]
    /\ UNCHANGED <<setVars, relayVars>>

Nak(p) ==
    /\ p \in In("LINKING")
    /\ linkRefused
    /\ Delete({p})
    /\ UNCHANGED <<setVars, relayVars>>

Mut_Disconnect(p) ==    \* the group is not told
    /\ p \in DOMAIN links
    /\ Delete({p})
    /\ UNCHANGED <<setVars, linkStatus, relayVars>>
Disconnect(p) ==
    /\ p \in DOMAIN links
    /\ IF p \in In("LINKED") THEN linkFailed ELSE UNCHANGED linkStatus
    /\ Delete({p})
    /\ UNCHANGED <<setVars, relayVars>>

Poll(p) ==
    /\ p \in In("LINKED")
    /\ links' = [links EXCEPT ![p].poll = Started(LimitOf(PollTime))]
    /\ UNCHANGED groupVars

\* A header is remembered even if the group is busy.
ReflectorHeader(p, i) ==
    /\ p \in In("LINKED")
    /\ links[p].stream = NoId
    /\ links' = [links EXCEPT ![p].stream = i, ![p].inact = Started(LinkLimit)]
    /\ Header(i)
    /\ UNCHANGED <<setVars, linkStatus>>

\* The first frame of each superframe has the remembered header sent again.
ReflectorVoice(p, i, first, end) ==
    /\ p \in In("LINKED")
    /\ links[p].stream = i
    /\ links' = [links EXCEPT
                    ![p].poll = Started(LimitOf(PollTime)),
                    ![p].stream = IF end THEN NoId ELSE @,
                    ![p].inact = IF end THEN Stopped ELSE Started(LinkLimit)]
    /\ Voice(i, first, end)
    /\ UNCHANGED <<setVars, linkStatus>>

FromReflector(p) ==
    \/ Ack(p) \/ Nak(p) \/ Disconnect(p) \/ Poll(p)
    \/ \E i \in LinkIds : ReflectorHeader(p, i)
    \/ \E i \in LinkIds, first, end \in BOOLEAN : ReflectorVoice(p, i, first, end)

Clock(d) == links' = ClockLinks(links, PollTime, d)

\* Some link is lost in the next d units of time.
Loses(d) == \E p \in DOMAIN links : PollLost(links[p], PollTime, d)
=============================================================================
