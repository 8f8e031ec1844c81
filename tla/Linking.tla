------------------------------ MODULE Linking ------------------------------
(***************************************************************************)
(* A smart group with the handlers of both protocols, the remote control   *)
(* that links and unlinks it, and the clock of the main loop.  Of the      *)
(* talks of the subscribers only that they take and release the group is   *)
(* kept here; GroupHandler has the rest.                                   *)
(***************************************************************************)
EXTENDS GroupLink

CONSTANTS
    DExtraPollTime,
    DCSPollTime,
    MaxStep             \* the longest turn of the main loop

ASSUME LinkingAssumption ==
    /\ DExtraPollTime \in Nat \ {0}
    /\ DCSPollTime \in Nat \ {0}
    /\ MaxStep \in Nat \ {0}

VARIABLES
    dextra, dcs,        \* the handlers of this group
    up                  \* whether the main loop has been reached

linkVars == <<dextra, dcs>>
vars == <<groupVars, linkVars, up>>

DExtra == INSTANCE DExtraHandler WITH PollTime <- DExtraPollTime, links <- dextra
DCS == INSTANCE DCSHandler WITH PollTime <- DCSPollTime, links <- dcs

TypeOK ==
    /\ GroupTypeOK
    /\ DExtra!TypeOK
    /\ DCS!TypeOK
    /\ DOMAIN dextra \cap DOMAIN dcs = {}
    /\ up \in BOOLEAN

FreePorts == Ports \ (DOMAIN dextra \cup DOMAIN dcs)
NoLinks == [p \in {} |-> p]
-----------------------------------------------------------------------------
\* The configuration names a reflector, or none.
Init ==
    /\ linkReflector \in Reflectors \cup {NoReflector}
    /\ linkType = TypeOf(linkReflector)
    /\ linkStatus = "LS_NONE"
    /\ relayed = NoId
    /\ linkTimer = Stopped
    /\ dextra = NoLinks
    /\ dcs = NoLinks
    /\ up = FALSE

\* linkInt(): the reflector may not be in the cache.
linkInt(r) ==
    \/ UNCHANGED <<linkStatus, linkVars>>
    \/ /\ linkStatus' = Linking(TypeOf(r))
       /\ IF r \in XRFs
          THEN DExtra!link(r, FreePorts) /\ UNCHANGED dcs
          ELSE DCS!link(r, FreePorts) /\ UNCHANGED dextra

\* The links of the configuration, before the main loop is entered.
StartUp ==
    /\ ~up
    /\ up' = TRUE
    /\ IF linkType = "LT_NONE" THEN UNCHANGED <<linkStatus, linkVars>> ELSE linkInt(linkReflector)
    /\ UNCHANGED <<setVars, relayVars>>

remoteLink(r) ==
    /\ linkType = "LT_NONE"
    /\ linkType' = TypeOf(r)
    /\ linkReflector' = r
    /\ linkInt(r)
    /\ UNCHANGED <<relayVars, up>>

remoteUnlink ==
    /\ \/ linkType = "LT_DEXTRA" /\ DExtra!unlink(linkReflector) /\ UNCHANGED dcs
       \/ linkType = "LT_DCS" /\ DCS!unlink(linkReflector) /\ UNCHANGED dextra
    /\ linkType' = "LT_NONE"
    /\ linkReflector' = NoReflector
    /\ UNCHANGED up

\* A subscriber's talk takes the group; it ends by itself, or like one from a
\* reflector by the drop of users, which leaves the network timer alone.
G2Talk(i) ==
    /\ relayed = NoId
    /\ relayed' = i
    /\ UNCHANGED <<setVars, linkStatus, linkTimer, linkVars, up>>

TalkCut ==
    /\ relayed # NoId
    /\ relayed' = NoId
    /\ UNCHANGED <<setVars, linkStatus, linkTimer, linkVars, up>>

\* One turn of the main loop: the clock of the group, then of the handlers.
Clock(d) ==
    /\ IF ExpiresWithin(linkTimer, LinkLimit, d)
       THEN EndRelay
       ELSE relayed' = relayed /\ linkTimer' = Advance(linkTimer, LinkLimit, d)
    /\ DExtra!Clock(d)
    /\ DCS!Clock(d)
    /\ linkStatus' = IF Recovers /\ (DExtra!Loses(d) \/ DCS!Loses(d))
                     THEN Linking(linkType) ELSE linkStatus
    /\ UNCHANGED <<setVars, up>>

Tick == up /\ \E d \in 1..MaxStep : Clock(d)

Packet ==
    \/ \E p \in DOMAIN dextra : DExtra!FromReflector(p) /\ UNCHANGED <<dcs, up>>
    \/ \E p \in DOMAIN dcs : DCS!FromReflector(p) /\ UNCHANGED <<dextra, up>>

Remote == up /\ (remoteUnlink \/ \E r \in Reflectors : remoteLink(r))

Talk == up /\ (TalkCut \/ \E i \in G2Ids : G2Talk(i))

Next == StartUp \/ Remote \/ Packet \/ Talk \/ Tick

Spec == Init /\ [][Next]_vars
FairSpec == Spec /\ WF_vars(Tick)
-----------------------------------------------------------------------------
(***************************************************************************)
(* Properties.                                                             *)
(***************************************************************************)
Links == [p \in DOMAIN dextra \cup DOMAIN dcs |-> IF p \in DOMAIN dextra THEN dextra[p] ELSE dcs[p]]
InState(state) == {p \in DOMAIN Links : Links[p].state = state}

\* A group has one XRF link at most, and only to the reflector it is set to:
\* unlinking leaves no DExtra handler behind, and no second one is made.
DExtraFollows ==
    /\ linkType = TypeOf(linkReflector)
    /\ \A p \in DOMAIN dextra :
          up /\ linkReflector \in XRFs /\ dextra[p].refl = linkReflector /\ DOMAIN dextra = {p}

\* No link waits for an answer without asking again: lost requests and lost
\* answers are made up for by the try timer of clockInt.
RequestsRepeated ==
    \A p \in InState("LINKING") \cup InState("UNLINKING") : IsRunning(Links[p].try)

\* No stream stays taken up on a link, which would keep the subscribers from
\* being heard at the reflector, without a timer that ends it; nor does one from
\* a reflector stay relayed.
StreamsTimed ==
    /\ \A p \in DOMAIN Links : Links[p].stream # NoId => IsRunning(Links[p].inact)
    /\ relayed \in LinkIds => IsRunning(linkTimer)

\* Everything that waits, for an answer or for the end of a stream, is timed.
WaitsTimed == RequestsRepeated /\ StreamsTimed

\* The links the group is not set to, other than those that are being unlinked.
Strays == {p \in InState("LINKING") \cup InState("LINKED") : Links[p].refl # linkReflector}

\* The only way to a link the group is not set to is that of an unlinked DCS
\* handler whose reflector does not answer before the poll inactivity timer
\* expires.
StraysOnlyByTimeout ==
    [][Strays' \subseteq Strays \/ (Tick /\ Strays' \subseteq Strays \cup DCS!In("UNLINKING"))]_vars

\* An operator's unlink is final: the link is never asked for again.
UnlinkIsFinal ==
    [][\A p \in InState("UNLINKING") \cap DOMAIN Links' : Links'[p].state = "UNLINKING"]_vars

\* What the remote control shows as linked is linked, and the other way round
\* (with DExtra; an unlinked DCS handler leaves the status of the group alone).
StatusAgrees == linkStatus \in {Linked("LT_DEXTRA"), Linked("LT_DCS")} <=> InState("LINKED") # {}

\* A talk from a reflector that no link has any more.  A reflector that disconnects,
\* and a link that is lost between the header and the first frame, leave the talk to
\* the network timer; SharedXRF says that nothing else separates the two, not the
\* timers either, which run out together.
Orphaned == relayed \in LinkIds /\ \A p \in InState("LINKED") : Links[p].stream # relayed
Separates ==
    \/ \E p \in DOMAIN dextra : DExtra!Disconnect(p)
    \/ Tick /\ ~(DExtra!In("LINKED") \subseteq DExtra!In("LINKED")')

\* Of an unlinked DCS handler something always comes: the reflector lets it go,
\* or the poll inactivity timer does, polls or not.
UnlinkingEnds == \A p \in Ports : []<>(p \notin InState("UNLINKING"))

VoiceOn(p) ==
    \E i \in LinkIds, first, end \in BOOLEAN :
        \/ p \in DOMAIN dextra /\ DExtra!ReflectorVoice(p, i, first, end)
        \/ p \in DOMAIN dcs /\ DCS!ReflectorVoice(p, i, first, end)

\* A link does not stay taken up by a stream whose end was lost.
StreamsReleased ==
    \A p \in Ports :
        []<>(p \notin DOMAIN Links \/ Links[p].stream = NoId) \/ []<><<VoiceOn(p)>>_vars
=============================================================================
