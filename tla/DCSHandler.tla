----------------------------- MODULE DCSHandler -----------------------------
(***************************************************************************)
(* The DCS handlers of one group (src/DCSHandler.cpp).  They differ from   *)
(* those of DExtra in that an unlinked handler asks its reflector to be    *)
(* disconnected and stays until that has refused further traffic, and in   *)
(* that every frame carries the header of its stream.                      *)
(***************************************************************************)
EXTENDS GroupLink

CONSTANT PollTime   \* of m_pollInactivityTimer

VARIABLE links      \* m_DCSHandlers, by m_myPort

TypeOK ==
    /\ links \in [DOMAIN links -> Link(PollTime)]
    /\ DOMAIN links \subseteq Ports

In(state) == {p \in DOMAIN links : links[p].state = state}
Delete(S) == links' = [p \in DOMAIN links \ S |-> links[p]]

\* link(): nothing happens as long as another handler is not unlinking.
link(r, free) ==
    IF free = {} \/ In("LINKING") \cup In("LINKED") # {}
    THEN UNCHANGED links
    ELSE \E p \in free :
            links' = [q \in DOMAIN links \cup {p} |-> IF q = p THEN NewLink(r, PollTime) ELSE links[q]]

\* unlink() of a group from its reflector.  The group is not told.
Mut_unlink(r) ==        \* of an established link only
    LET his == {p \in DOMAIN links : links[p].refl = r}
    IN  /\ links' = [p \in DOMAIN links |->
                        IF p \in his /\ links[p].state = "LINKED"
                        THEN Restarted(links[p], "UNLINKING")
                        ELSE links[p]]
        /\ EndTalks({links[p].stream : p \in his})
        /\ UNCHANGED linkStatus
unlink(r) ==
    LET his == {p \in DOMAIN links : links[p].refl = r}
    IN  /\ links' = [p \in DOMAIN links |->
                        IF p \in his /\ links[p].state # "UNLINKING"
                        THEN Restarted(links[p], "UNLINKING")
                        ELSE links[p]]
        /\ EndTalks({links[p].stream : p \in his})
        /\ UNCHANGED linkStatus

(***************************************************************************)
(* Packets from the reflector of the link at port p.                       *)
(***************************************************************************)
Ack(p) ==
    /\ p \in In("LINKING")
    /\ linkUp
    /\ links' = [links EXCEPT ![p].state = "LINKED", ![p].try = Stopped]
    /\ UNCHANGED <<setVars, relayVars>>

\* Refuses a request to link, or confirms one to unlink.
Nak(p) ==
    /\ p \in In("LINKING") \cup In("UNLINKING")
    /\ IF p \in In("LINKING") THEN linkRefused ELSE linkFailed
    /\ Delete({p})
    /\ UNCHANGED <<setVars, relayVars>>

Disconnect(p) ==
    /\ p \in DOMAIN links
    /\ IF p \in In("LINKED") THEN linkFailed ELSE UNCHANGED linkStatus
    /\ Delete({p})
    /\ UNCHANGED <<setVars, relayVars>>

Poll(p) ==
    /\ p \in In("LINKED")
    /\ links' = [links EXCEPT ![p].poll = Started(LimitOf(PollTime))]
    /\ UNCHANGED groupVars

\* A stream is taken up at the first frame of a superframe.
Mut_ReflectorVoice(p, i, first, end) ==     \* m_inactivityTimer is not started
    /\ p \in In("LINKED")
    /\ links[p].stream = i \/ (links[p].stream = NoId /\ first)
    /\ links' = [links EXCEPT
                    ![p].poll = Started(LimitOf(PollTime)),
                    ![p].stream = IF end THEN NoId ELSE i]
    /\ Voice(i, first, end)
    /\ UNCHANGED <<setVars, linkStatus>>
ReflectorVoice(p, i, first, end) ==
    /\ p \in In("LINKED")
    /\ links[p].stream = i \/ (links[p].stream = NoId /\ first)
    /\ links' = [links EXCEPT
                    ![p].poll = Started(LimitOf(PollTime)),
                    ![p].stream = IF end THEN NoId ELSE i,
                    ![p].inact = IF end THEN Stopped ELSE Started(LinkLimit)]
    /\ Voice(i, first, end)
    /\ UNCHANGED <<setVars, linkStatus>>

FromReflector(p) ==
    \/ Ack(p) \/ Nak(p) \/ Disconnect(p) \/ Poll(p)
    \/ \E i \in LinkIds, first, end \in BOOLEAN : ReflectorVoice(p, i, first, end)

Clock(d) == links' = ClockLinks(links, PollTime, d)

\* Some link is lost in the next d units of time.
Loses(d) == \E p \in DOMAIN links : PollLost(links[p], PollTime, d)
=============================================================================
