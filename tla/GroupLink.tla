----------------------------- MODULE GroupLink -----------------------------
(***************************************************************************)
(* One smart group and its links to reflectors, as both link protocols     *)
(* have them: what the group keeps about its link (src/GroupHandler.cpp),  *)
(* by which reports a protocol handler changes it, and the part of a       *)
(* handler that DExtraHandler.cpp and DCSHandler.cpp have in common.       *)
(*                                                                         *)
(* A handler is named by the UDP port its protocol handler has opened.     *)
(* Reflectors answer over UDP: an answer to an earlier request may come at *)
(* any time as long as the port is open, twice or never, so receiving one  *)
(* needs no message in the state.                                          *)
(***************************************************************************)
EXTENDS Integers, Timer

CONSTANTS
    XRFs,           \* DExtra reflectors
    DCSs,           \* DCS reflectors
    NoReflector,    \* the empty m_linkReflector
    Ports,          \* local UDP ports the pools can open
    LinkIds,        \* stream ids that come in from reflectors
    G2Ids,          \* stream ids that come in by G2
    NetworkTimeout

Reflectors == XRFs \cup DCSs

\* m_id of an idle group, m_dExtraId and m_dcsId of an idle link.
NoId == 0

ASSUME LinkAssumption ==
    /\ XRFs \cap DCSs = {}
    /\ NoReflector \notin Reflectors
    /\ LinkIds \cup G2Ids \subseteq Nat \ {NoId}
    /\ LinkIds \cap G2Ids = {}
    /\ NetworkTimeout \in Nat \ {0}

VARIABLES
    linkType,       \* m_linkType
    linkReflector,  \* m_linkReflector
    linkStatus,     \* m_linkStatus
    relayed,        \* m_id
    linkTimer       \* m_linkTimer

setVars == <<linkType, linkReflector>>
relayVars == <<relayed, linkTimer>>
groupVars == <<setVars, linkStatus, relayVars>>

ActiveStatus == {"LS_LINKING_DEXTRA", "LS_LINKING_DCS", "LS_LINKED_DEXTRA", "LS_LINKED_DCS"}
LinkLimit == LimitOf(NetworkTimeout)

GroupTypeOK ==
    /\ linkType \in {"LT_NONE", "LT_DEXTRA", "LT_DCS"}
    /\ linkReflector \in Reflectors \cup {NoReflector}
    /\ linkStatus \in ActiveStatus \cup {"LS_NONE"}
    /\ relayed \in LinkIds \cup G2Ids \cup {NoId}
    /\ linkTimer \in 0..LinkLimit

TypeOf(r) == IF r \in XRFs THEN "LT_DEXTRA" ELSE IF r \in DCSs THEN "LT_DCS" ELSE "LT_NONE"
-----------------------------------------------------------------------------
(***************************************************************************)
(* The reports of the handlers to the group.  They say which protocol and  *)
(* which reflector they are about, and the group looks at neither.         *)
(***************************************************************************)
Linking(type) == IF type = "LT_DEXTRA" THEN "LS_LINKING_DEXTRA" ELSE "LS_LINKING_DCS"
Linked(type) == IF type = "LT_DEXTRA" THEN "LS_LINKED_DEXTRA" ELSE "LS_LINKED_DCS"

linkUp == linkStatus' = Linked(linkType)
Mut_linkRefused == UNCHANGED linkStatus
linkRefused == linkStatus' = "LS_NONE"

\* linkFailed, for good; and whether it has a recoverable link retried.
linkFailed == linkStatus' = "LS_NONE"
Recovers == linkStatus \in ActiveStatus

\* process() of a header and of a frame that a handler passes on.
Header(i) ==
    IF relayed = NoId
    THEN relayed' = i /\ linkTimer' = Started(LinkLimit)
    ELSE UNCHANGED relayVars

EndRelay == relayed' = NoId /\ linkTimer' = Stopped

\* A frame, with a header before it if withHeader.
Voice(i, withHeader, end) ==
    IF relayed = i \/ (withHeader /\ relayed = NoId)
    THEN IF end THEN EndRelay ELSE relayed' = i /\ linkTimer' = Started(LinkLimit)
    ELSE UNCHANGED relayVars

\* The end frames that unlinking makes up for the streams in S.
Mut_EndTalks(S) == UNCHANGED relayVars
EndTalks(S) == IF relayed \in S \ {NoId} THEN EndRelay ELSE UNCHANGED relayVars
-----------------------------------------------------------------------------
(***************************************************************************)
(* A link: m_reflector, m_linkState, m_tryTimer, m_tryCount,               *)
(* m_pollInactivityTimer, m_dExtraId or m_dcsId, m_inactivityTimer.  (The  *)
(* poll timer only sends.)                                                 *)
(***************************************************************************)

\* calcBackoff() when m_tryCount is n, and the limit of the try timer.  The
\* counter only ever meets 7 in a comparison and is held there.
Backoff(n) == IF n < 6 THEN <<1, 2, 4, 8, 16, 32>>[n + 1] ELSE 60
TryLimit(tries) == LimitOf(IF tries = 0 THEN 1 ELSE Backoff(tries - 1))
NextTries(tries) == IF tries < 7 THEN tries + 1 ELSE 7

Link(pollTime) ==
    [refl : Reflectors, state : {"LINKING", "LINKED", "UNLINKING"},
     try : 0..LimitOf(Backoff(7)), tries : 0..7, poll : 1..LimitOf(pollTime),
     stream : LinkIds \cup {NoId}, inact : 0..LinkLimit]

Mut_NewLink(r, pollTime) ==     \* m_pollInactivityTimer is not started
    [refl |-> r, state |-> "LINKING", try |-> Started(TryLimit(0)), tries |-> 0,
     poll |-> Stopped, stream |-> NoId, inact |-> Stopped]
NewLink(r, pollTime) ==
    [refl |-> r, state |-> "LINKING", try |-> Started(TryLimit(0)), tries |-> 0,
     poll |-> Started(LimitOf(pollTime)), stream |-> NoId, inact |-> Stopped]

\* The request is sent again from the beginning.
Mut_Restarted(l, state) == [l EXCEPT !.state = state, !.tries = 0]   \* start(1) is forgotten
Restarted(l, state) == [l EXCEPT !.state = state, !.try = Started(TryLimit(0)), !.tries = 0]

PollLost(l, pollTime, d) == ExpiresWithin(l.poll, LimitOf(pollTime), d)
Mut_StreamLost(l, d) == FALSE
StreamLost(l, d) == ExpiresWithin(l.inact, LinkLimit, d)
Retries(l, d) == l.state # "LINKED" /\ ExpiresWithin(l.try, TryLimit(l.tries), d)

Mut_Relinked(l, pollTime, d) ==     \* the state is not set
    [Restarted(l, l.state) EXCEPT
        !.poll = Started(LimitOf(pollTime)),
        !.stream = NoId,
        !.inact = Advance(@, LinkLimit, d)]
Relinked(l, pollTime, d) ==
    [Restarted(l, "LINKING") EXCEPT
        !.poll = Started(LimitOf(pollTime)),
        !.stream = NoId,
        !.inact = Advance(@, LinkLimit, d)]

Clocked(l, pollTime, d) ==
    [l EXCEPT
        !.poll = Advance(@, LimitOf(pollTime), d),
        !.stream = IF StreamLost(l, d) THEN NoId ELSE @,
        !.inact = IF StreamLost(l, d) THEN Stopped ELSE Advance(@, LinkLimit, d),
        !.try = IF Retries(l, d) THEN Started(TryLimit(NextTries(l.tries)))
                ELSE Advance(@, TryLimit(l.tries), d),
        !.tries = IF Retries(l, d) THEN NextTries(@) ELSE @]

\* clock(ms) of all handlers of a protocol.  Whether a link that is lost is
\* retried depends on the status of the group, which recovering keeps active:
\* the order of the handlers makes no difference.
ClockLinks(links, pollTime, d) ==
    [p \in {q \in DOMAIN links : Recovers \/ ~PollLost(links[q], pollTime, d)} |->
        IF PollLost(links[p], pollTime, d)
        THEN Relinked(links[p], pollTime, d)
        ELSE Clocked(links[p], pollTime, d)]
=============================================================================
