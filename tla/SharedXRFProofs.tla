--------------------------- MODULE SharedXRFProofs ---------------------------
(***************************************************************************)
(* What holds of two groups that are linked to modules of the same hosts,  *)
(* for any hosts, modules, streams, ports and periods of time.  What a     *)
(* step does to one group is proved once, in LinkingProofs, and used of    *)
(* both: the invariant is that of each group (LinkInv), and a packet is    *)
(* one that is offered to both.                                            *)
(***************************************************************************)
EXTENDS SharedXRF, TLAPS

AP == INSTANCE LinkingProofs WITH
        DCSs <- {}, Ports <- PortsA, Repeater <- RepeaterA,
        DExtraPollTime <- PollTime, DCSPollTime <- PollTime,
        linkType <- aType, linkReflector <- aReflector, linkStatus <- aStatus,
        relayed <- aRelayed, linkTimer <- aTimer, dextra <- aLinks, dcs <- <<>>
BP == INSTANCE LinkingProofs WITH
        DCSs <- {}, Ports <- PortsB, Repeater <- RepeaterB,
        DExtraPollTime <- PollTime, DCSPollTime <- PollTime,
        linkType <- bType, linkReflector <- bReflector, linkStatus <- bStatus,
        relayed <- bRelayed, linkTimer <- bTimer, dextra <- bLinks, dcs <- <<>>

Inv == AP!LinkInv(IdsOf) /\ BP!LinkInv(IdsOf)

\* A step that separates no talk from its link otherwise than by the loss of the link.
Kept == (A!Orphaned' => A!Orphaned \/ A!Separates) /\ (B!Orphaned' => B!Orphaned \/ B!Separates)

\* One after which no group waits for a link that it did not wait for before.
Freed == (A!Stuck' => A!Stuck) /\ (B!Stuck' => B!Stuck)

\* A step of a group that does neither, and keeps its invariant.
FaithfulA == AP!LinkInv(IdsOf)' /\ (A!Orphaned' => A!Orphaned) /\ (A!Stuck' => A!Stuck)
FaithfulB == BP!LinkInv(IdsOf)' /\ (B!Orphaned' => B!Orphaned) /\ (B!Stuck' => B!Stuck)
-----------------------------------------------------------------------------
(***************************************************************************)
(* A group of SharedXRF is the group the lemmas are about, and it has no   *)
(* DCS link.                                                               *)
(***************************************************************************)
\* The first group.
LEMMA SameA ==
    /\ (A!Init <=> AP!Init)
    /\ (A!StartUp <=> AP!StartUp)
    /\ (A!Own <=> AP!Own)
    /\ (\A d : A!Clock(d) <=> AP!Clock(d))
    /\ (\A h, rep : A!OnAck(h, rep) <=> AP!OnAck(h, rep))
    /\ (\A h, rep : A!OnNak(h, rep) <=> AP!OnNak(h, rep))
    /\ (\A h : A!OnPoll(h) <=> AP!OnPoll(h))
    /\ (\A r : A!OnDisconnect(r) <=> AP!OnDisconnect(r))
    /\ (\A r, i : A!OnHeader(r, i) <=> AP!OnHeader(r, i))
    /\ (\A h, i, first, end : A!OnVoice(h, i, first, end) <=> AP!OnVoice(h, i, first, end))
    /\ (A!Orphaned <=> AP!Orphaned)
    /\ ((A!Orphaned)' <=> (AP!Orphaned)')
    /\ (A!Separates <=> AP!Separates)
    /\ (A!Stuck <=> AP!Stuck)
    /\ ((A!Stuck)' <=> (AP!Stuck)')
    /\ (A!StatusAgrees <=> AP!StatusAgrees)
    /\ (A!RelaysOnly(IdsOf) <=> AP!RelaysOnly(IdsOf))
<1>1. /\ (A!Init <=> AP!Init)
      /\ (A!StartUp <=> AP!StartUp)
      /\ (A!Own <=> AP!Own)
      /\ (\A d : A!Clock(d) <=> AP!Clock(d))
  BY DEF A!Init, A!Reflectors, A!TypeOf, A!NoId, A!Stopped, A!NoLinks, A!StartUp, A!linkVars,
         A!linkInt, A!setVars, A!relayVars, A!Linking, A!DExtra!link, A!FreePorts, A!DCS!link,
         A!DExtra!NewLink, A!DCS!In, A!DCS!NewLink, A!DExtra!Started, A!DExtra!TryLimit,
         A!DExtra!LimitOf, A!DExtra!NoId, A!DExtra!Stopped, A!DCS!Started, A!DCS!TryLimit,
         A!DCS!LimitOf, A!DCS!NoId, A!DCS!Stopped, A!DExtra!Backoff, A!DCS!Backoff, A!Own,
         A!remoteUnlink, A!remoteLink, A!Talk, A!DExtra!unlink, A!DCS!unlink, A!TalkCut,
         A!G2Talk, A!DExtra!Delete, A!DExtra!linkFailed, A!DExtra!EndTalks, A!DCS!Restarted,
         A!DCS!EndTalks, A!DExtra!EndRelay, A!DExtra!relayVars, A!DCS!EndRelay,
         A!DCS!relayVars, A!Clock, A!ExpiresWithin, A!LinkLimit, A!EndRelay, A!Advance,
         A!DExtra!Clock, A!DCS!Clock, A!Recovers, A!DExtra!Loses, A!DCS!Loses, A!HasExpired,
         A!LimitOf, A!DExtra!ClockLinks, A!DCS!ClockLinks, A!ActiveStatus, A!DExtra!PollLost,
         A!DCS!PollLost, A!DExtra!Recovers, A!DExtra!Relinked, A!DExtra!Clocked,
         A!DCS!Recovers, A!DCS!Relinked, A!DCS!Clocked, A!DExtra!ExpiresWithin,
         A!DCS!ExpiresWithin, A!DExtra!ActiveStatus, A!DExtra!Restarted, A!DExtra!Advance,
         A!DExtra!LinkLimit, A!DExtra!StreamLost, A!DExtra!Retries, A!DExtra!NextTries,
         A!DCS!ActiveStatus, A!DCS!Advance, A!DCS!LinkLimit, A!DCS!StreamLost, A!DCS!Retries,
         A!DCS!NextTries, A!DExtra!HasExpired, A!DCS!HasExpired, AP!Init, AP!Reflectors,
         AP!TypeOf, AP!NoId, AP!Stopped, AP!NoLinks, AP!StartUp, AP!linkVars, AP!linkInt,
         AP!setVars, AP!relayVars, AP!Linking, AP!DExtra!link, AP!FreePorts, AP!DCS!link,
         AP!DExtra!NewLink, AP!DCS!In, AP!DCS!NewLink, AP!DExtra!Started, AP!DExtra!TryLimit,
         AP!DExtra!LimitOf, AP!DExtra!NoId, AP!DExtra!Stopped, AP!DCS!Started, AP!DCS!TryLimit,
         AP!DCS!LimitOf, AP!DCS!NoId, AP!DCS!Stopped, AP!DExtra!Backoff, AP!DCS!Backoff,
         AP!Own, AP!remoteUnlink, AP!remoteLink, AP!Talk, AP!DExtra!unlink, AP!DCS!unlink,
         AP!TalkCut, AP!G2Talk, AP!DExtra!Delete, AP!DExtra!linkFailed, AP!DExtra!EndTalks,
         AP!DCS!Restarted, AP!DCS!EndTalks, AP!DExtra!EndRelay, AP!DExtra!relayVars,
         AP!DCS!EndRelay, AP!DCS!relayVars, AP!Clock, AP!ExpiresWithin, AP!LinkLimit,
         AP!EndRelay, AP!Advance, AP!DExtra!Clock, AP!DCS!Clock, AP!Recovers, AP!DExtra!Loses,
         AP!DCS!Loses, AP!HasExpired, AP!LimitOf, AP!DExtra!ClockLinks, AP!DCS!ClockLinks,
         AP!ActiveStatus, AP!DExtra!PollLost, AP!DCS!PollLost, AP!DExtra!Recovers,
         AP!DExtra!Relinked, AP!DExtra!Clocked, AP!DCS!Recovers, AP!DCS!Relinked,
         AP!DCS!Clocked, AP!DExtra!ExpiresWithin, AP!DCS!ExpiresWithin, AP!DExtra!ActiveStatus,
         AP!DExtra!Restarted, AP!DExtra!Advance, AP!DExtra!LinkLimit, AP!DExtra!StreamLost,
         AP!DExtra!Retries, AP!DExtra!NextTries, AP!DCS!ActiveStatus, AP!DCS!Advance,
         AP!DCS!LinkLimit, AP!DCS!StreamLost, AP!DCS!Retries, AP!DCS!NextTries,
         AP!DExtra!HasExpired, AP!DCS!HasExpired
<1>2. /\ (\A h, rep : A!OnAck(h, rep) <=> AP!OnAck(h, rep))
      /\ (\A h, rep : A!OnNak(h, rep) <=> AP!OnNak(h, rep))
      /\ (\A h : A!OnPoll(h) <=> AP!OnPoll(h))
      /\ (\A r : A!OnDisconnect(r) <=> AP!OnDisconnect(r))
      /\ (\A r, i : A!OnHeader(r, i) <=> AP!OnHeader(r, i))
      /\ (\A h, i, first, end : A!OnVoice(h, i, first, end) <=> AP!OnVoice(h, i, first, end))
  BY DEF A!OnAck, A!NotFor, A!Asked, A!DExtra!Ack, A!groupVars, A!linkVars, A!From,
         A!DExtra!In, A!DExtra!linkUp, A!DExtra!Stopped, A!DExtra!setVars, A!DExtra!relayVars,
         A!setVars, A!relayVars, A!DExtra!Linked, A!OnNak, A!DExtra!Nak, A!DExtra!linkRefused,
         A!DExtra!Delete, A!OnPoll, A!LinkedAt, A!DExtra!Poll, A!DExtra!Started,
         A!DExtra!LimitOf, A!DExtra!groupVars, A!OnDisconnect, A!To, A!DExtra!Disconnect,
         A!DExtra!linkFailed, A!OnHeader, A!Silent, A!DExtra!ReflectorHeader, A!NoId,
         A!DExtra!NoId, A!DExtra!LinkLimit, A!DExtra!Header, A!OnVoice, A!Carrying,
         A!DExtra!ReflectorVoice, A!DExtra!Voice, A!DExtra!EndRelay, AP!OnAck, AP!NotFor,
         AP!Asked, AP!DExtra!Ack, AP!groupVars, AP!linkVars, AP!From, AP!DExtra!In,
         AP!DExtra!linkUp, AP!DExtra!Stopped, AP!DExtra!setVars, AP!DExtra!relayVars,
         AP!setVars, AP!relayVars, AP!DExtra!Linked, AP!OnNak, AP!DExtra!Nak,
         AP!DExtra!linkRefused, AP!DExtra!Delete, AP!OnPoll, AP!LinkedAt, AP!DExtra!Poll,
         AP!DExtra!Started, AP!DExtra!LimitOf, AP!DExtra!groupVars, AP!OnDisconnect, AP!To,
         AP!DExtra!Disconnect, AP!DExtra!linkFailed, AP!OnHeader, AP!Silent,
         AP!DExtra!ReflectorHeader, AP!NoId, AP!DExtra!NoId, AP!DExtra!LinkLimit,
         AP!DExtra!Header, AP!OnVoice, AP!Carrying, AP!DExtra!ReflectorVoice, AP!DExtra!Voice,
         AP!DExtra!EndRelay
<1>3. /\ (A!Orphaned <=> AP!Orphaned)
      /\ ((A!Orphaned)' <=> (AP!Orphaned)')
      /\ (A!Stuck <=> AP!Stuck)
      /\ ((A!Stuck)' <=> (AP!Stuck)')
      /\ (A!StatusAgrees <=> AP!StatusAgrees)
      /\ (A!RelaysOnly(IdsOf) <=> AP!RelaysOnly(IdsOf))
  BY DEF A!Orphaned, A!InState, A!Links, A!Stuck, A!Linking, A!NoLinks, A!StatusAgrees,
         A!Linked, A!RelaysOnly, AP!Orphaned, AP!InState, AP!Links, AP!Stuck, AP!Linking,
         AP!NoLinks, AP!StatusAgrees, AP!Linked, AP!RelaysOnly
<1>4. A!Separates <=> AP!Separates
  BY <1>1 DEF A!Separates, A!DExtra!Disconnect, A!Tick, A!DExtra!In, A!DExtra!linkFailed,
         A!DExtra!Delete, A!DExtra!setVars, A!DExtra!relayVars, AP!Separates,
         AP!DExtra!Disconnect, AP!Tick, AP!DExtra!In, AP!DExtra!linkFailed, AP!DExtra!Delete,
         AP!DExtra!setVars, AP!DExtra!relayVars
<1> QED
  BY <1>1, <1>2, <1>3, <1>4

\* The second.
LEMMA SameB ==
    /\ (B!Init <=> BP!Init)
    /\ (B!StartUp <=> BP!StartUp)
    /\ (B!Own <=> BP!Own)
    /\ (\A d : B!Clock(d) <=> BP!Clock(d))
    /\ (\A h, rep : B!OnAck(h, rep) <=> BP!OnAck(h, rep))
    /\ (\A h, rep : B!OnNak(h, rep) <=> BP!OnNak(h, rep))
    /\ (\A h : B!OnPoll(h) <=> BP!OnPoll(h))
    /\ (\A r : B!OnDisconnect(r) <=> BP!OnDisconnect(r))
    /\ (\A r, i : B!OnHeader(r, i) <=> BP!OnHeader(r, i))
    /\ (\A h, i, first, end : B!OnVoice(h, i, first, end) <=> BP!OnVoice(h, i, first, end))
    /\ (B!Orphaned <=> BP!Orphaned)
    /\ ((B!Orphaned)' <=> (BP!Orphaned)')
    /\ (B!Separates <=> BP!Separates)
    /\ (B!Stuck <=> BP!Stuck)
    /\ ((B!Stuck)' <=> (BP!Stuck)')
    /\ (B!StatusAgrees <=> BP!StatusAgrees)
    /\ (B!RelaysOnly(IdsOf) <=> BP!RelaysOnly(IdsOf))
<1>1. /\ (B!Init <=> BP!Init)
      /\ (B!StartUp <=> BP!StartUp)
      /\ (B!Own <=> BP!Own)
      /\ (\A d : B!Clock(d) <=> BP!Clock(d))
  BY DEF B!Init, B!Reflectors, B!TypeOf, B!NoId, B!Stopped, B!NoLinks, B!StartUp, B!linkVars,
         B!linkInt, B!setVars, B!relayVars, B!Linking, B!DExtra!link, B!FreePorts, B!DCS!link,
         B!DExtra!NewLink, B!DCS!In, B!DCS!NewLink, B!DExtra!Started, B!DExtra!TryLimit,
         B!DExtra!LimitOf, B!DExtra!NoId, B!DExtra!Stopped, B!DCS!Started, B!DCS!TryLimit,
         B!DCS!LimitOf, B!DCS!NoId, B!DCS!Stopped, B!DExtra!Backoff, B!DCS!Backoff, B!Own,
         B!remoteUnlink, B!remoteLink, B!Talk, B!DExtra!unlink, B!DCS!unlink, B!TalkCut,
         B!G2Talk, B!DExtra!Delete, B!DExtra!linkFailed, B!DExtra!EndTalks, B!DCS!Restarted,
         B!DCS!EndTalks, B!DExtra!EndRelay, B!DExtra!relayVars, B!DCS!EndRelay,
         B!DCS!relayVars, B!Clock, B!ExpiresWithin, B!LinkLimit, B!EndRelay, B!Advance,
         B!DExtra!Clock, B!DCS!Clock, B!Recovers, B!DExtra!Loses, B!DCS!Loses, B!HasExpired,
         B!LimitOf, B!DExtra!ClockLinks, B!DCS!ClockLinks, B!ActiveStatus, B!DExtra!PollLost,
         B!DCS!PollLost, B!DExtra!Recovers, B!DExtra!Relinked, B!DExtra!Clocked,
         B!DCS!Recovers, B!DCS!Relinked, B!DCS!Clocked, B!DExtra!ExpiresWithin,
         B!DCS!ExpiresWithin, B!DExtra!ActiveStatus, B!DExtra!Restarted, B!DExtra!Advance,
         B!DExtra!LinkLimit, B!DExtra!StreamLost, B!DExtra!Retries, B!DExtra!NextTries,
         B!DCS!ActiveStatus, B!DCS!Advance, B!DCS!LinkLimit, B!DCS!StreamLost, B!DCS!Retries,
         B!DCS!NextTries, B!DExtra!HasExpired, B!DCS!HasExpired, BP!Init, BP!Reflectors,
         BP!TypeOf, BP!NoId, BP!Stopped, BP!NoLinks, BP!StartUp, BP!linkVars, BP!linkInt,
         BP!setVars, BP!relayVars, BP!Linking, BP!DExtra!link, BP!FreePorts, BP!DCS!link,
         BP!DExtra!NewLink, BP!DCS!In, BP!DCS!NewLink, BP!DExtra!Started, BP!DExtra!TryLimit,
         BP!DExtra!LimitOf, BP!DExtra!NoId, BP!DExtra!Stopped, BP!DCS!Started, BP!DCS!TryLimit,
         BP!DCS!LimitOf, BP!DCS!NoId, BP!DCS!Stopped, BP!DExtra!Backoff, BP!DCS!Backoff,
         BP!Own, BP!remoteUnlink, BP!remoteLink, BP!Talk, BP!DExtra!unlink, BP!DCS!unlink,
         BP!TalkCut, BP!G2Talk, BP!DExtra!Delete, BP!DExtra!linkFailed, BP!DExtra!EndTalks,
         BP!DCS!Restarted, BP!DCS!EndTalks, BP!DExtra!EndRelay, BP!DExtra!relayVars,
         BP!DCS!EndRelay, BP!DCS!relayVars, BP!Clock, BP!ExpiresWithin, BP!LinkLimit,
         BP!EndRelay, BP!Advance, BP!DExtra!Clock, BP!DCS!Clock, BP!Recovers, BP!DExtra!Loses,
         BP!DCS!Loses, BP!HasExpired, BP!LimitOf, BP!DExtra!ClockLinks, BP!DCS!ClockLinks,
         BP!ActiveStatus, BP!DExtra!PollLost, BP!DCS!PollLost, BP!DExtra!Recovers,
         BP!DExtra!Relinked, BP!DExtra!Clocked, BP!DCS!Recovers, BP!DCS!Relinked,
         BP!DCS!Clocked, BP!DExtra!ExpiresWithin, BP!DCS!ExpiresWithin, BP!DExtra!ActiveStatus,
         BP!DExtra!Restarted, BP!DExtra!Advance, BP!DExtra!LinkLimit, BP!DExtra!StreamLost,
         BP!DExtra!Retries, BP!DExtra!NextTries, BP!DCS!ActiveStatus, BP!DCS!Advance,
         BP!DCS!LinkLimit, BP!DCS!StreamLost, BP!DCS!Retries, BP!DCS!NextTries,
         BP!DExtra!HasExpired, BP!DCS!HasExpired
<1>2. /\ (\A h, rep : B!OnAck(h, rep) <=> BP!OnAck(h, rep))
      /\ (\A h, rep : B!OnNak(h, rep) <=> BP!OnNak(h, rep))
      /\ (\A h : B!OnPoll(h) <=> BP!OnPoll(h))
      /\ (\A r : B!OnDisconnect(r) <=> BP!OnDisconnect(r))
      /\ (\A r, i : B!OnHeader(r, i) <=> BP!OnHeader(r, i))
      /\ (\A h, i, first, end : B!OnVoice(h, i, first, end) <=> BP!OnVoice(h, i, first, end))
  BY DEF B!OnAck, B!NotFor, B!Asked, B!DExtra!Ack, B!groupVars, B!linkVars, B!From,
         B!DExtra!In, B!DExtra!linkUp, B!DExtra!Stopped, B!DExtra!setVars, B!DExtra!relayVars,
         B!setVars, B!relayVars, B!DExtra!Linked, B!OnNak, B!DExtra!Nak, B!DExtra!linkRefused,
         B!DExtra!Delete, B!OnPoll, B!LinkedAt, B!DExtra!Poll, B!DExtra!Started,
         B!DExtra!LimitOf, B!DExtra!groupVars, B!OnDisconnect, B!To, B!DExtra!Disconnect,
         B!DExtra!linkFailed, B!OnHeader, B!Silent, B!DExtra!ReflectorHeader, B!NoId,
         B!DExtra!NoId, B!DExtra!LinkLimit, B!DExtra!Header, B!OnVoice, B!Carrying,
         B!DExtra!ReflectorVoice, B!DExtra!Voice, B!DExtra!EndRelay, BP!OnAck, BP!NotFor,
         BP!Asked, BP!DExtra!Ack, BP!groupVars, BP!linkVars, BP!From, BP!DExtra!In,
         BP!DExtra!linkUp, BP!DExtra!Stopped, BP!DExtra!setVars, BP!DExtra!relayVars,
         BP!setVars, BP!relayVars, BP!DExtra!Linked, BP!OnNak, BP!DExtra!Nak,
         BP!DExtra!linkRefused, BP!DExtra!Delete, BP!OnPoll, BP!LinkedAt, BP!DExtra!Poll,
         BP!DExtra!Started, BP!DExtra!LimitOf, BP!DExtra!groupVars, BP!OnDisconnect, BP!To,
         BP!DExtra!Disconnect, BP!DExtra!linkFailed, BP!OnHeader, BP!Silent,
         BP!DExtra!ReflectorHeader, BP!NoId, BP!DExtra!NoId, BP!DExtra!LinkLimit,
         BP!DExtra!Header, BP!OnVoice, BP!Carrying, BP!DExtra!ReflectorVoice, BP!DExtra!Voice,
         BP!DExtra!EndRelay
<1>3. /\ (B!Orphaned <=> BP!Orphaned)
      /\ ((B!Orphaned)' <=> (BP!Orphaned)')
      /\ (B!Stuck <=> BP!Stuck)
      /\ ((B!Stuck)' <=> (BP!Stuck)')
      /\ (B!StatusAgrees <=> BP!StatusAgrees)
      /\ (B!RelaysOnly(IdsOf) <=> BP!RelaysOnly(IdsOf))
  BY DEF B!Orphaned, B!InState, B!Links, B!Stuck, B!Linking, B!NoLinks, B!StatusAgrees,
         B!Linked, B!RelaysOnly, BP!Orphaned, BP!InState, BP!Links, BP!Stuck, BP!Linking,
         BP!NoLinks, BP!StatusAgrees, BP!Linked, BP!RelaysOnly
<1>4. B!Separates <=> BP!Separates
  BY <1>1 DEF B!Separates, B!DExtra!Disconnect, B!Tick, B!DExtra!In, B!DExtra!linkFailed,
         B!DExtra!Delete, B!DExtra!setVars, B!DExtra!relayVars, BP!Separates,
         BP!DExtra!Disconnect, BP!Tick, BP!DExtra!In, BP!DExtra!linkFailed, BP!DExtra!Delete,
         BP!DExtra!setVars, BP!DExtra!relayVars
<1> QED
  BY <1>1, <1>2, <1>3, <1>4

\* What the lemmas assume of the constants holds of those of the groups.
LEMMA Assumptions ==
    /\ XRFs \cap {} = {} /\ NoReflector \notin XRFs \cup {}
    /\ LinkIds \cup G2Ids \subseteq Nat \ {0} /\ LinkIds \cap G2Ids = {}
    /\ NetworkTimeout \in Nat \ {0} /\ PollTime \in Nat \ {0} /\ MaxStep \in Nat \ {0}
    /\ PortsA # {} /\ PortsB # {}
    /\ AP!NoDCS /\ BP!NoDCS
    /\ \A r \in XRFs : IdsOf[r] \subseteq LinkIds
BY SharedAssumption DEF AP!NoDCS, BP!NoDCS
-----------------------------------------------------------------------------
\* Both groups start without a link.
LEMMA InitInv == Init => Inv
<1> SUFFICES ASSUME Init PROVE Inv
  OBVIOUS
<1>1. AP!Init /\ BP!Init
  BY SameA, SameB DEF Init
<1>2. AP!LinkInv(IdsOf)
  BY <1>1, Assumptions, AP!InitFaithful DEF AP!Reflectors, AP!NoId
<1>3. BP!LinkInv(IdsOf)
  BY <1>1, Assumptions, BP!InitFaithful DEF BP!Reflectors, BP!NoId
<1> QED
  BY <1>2, <1>3 DEF Inv

\* What can happen to the first group, in the terms of SharedXRF.
LEMMA StepsA ==
    ASSUME AP!LinkInv(IdsOf)
    PROVE  /\ A!StartUp => FaithfulA
           /\ up /\ A!Own => FaithfulA
           /\ UNCHANGED aVars /\ (up' = up \/ up' = TRUE) => FaithfulA
           /\ up' = up => \A h, rep : A!OnAck(h, rep) \/ A!OnNak(h, rep) \/ A!OnPoll(h) => FaithfulA
           /\ up' = up => \A r \in XRFs : \A i \in IdsOf[r] : A!OnHeader(r, i) => FaithfulA
           /\ up' = up => \A h : \A i \in LinkIds, first, end \in BOOLEAN :
                             A!OnVoice(h, i, first, end) => FaithfulA
           /\ up' = up => \A r : A!OnDisconnect(r) =>
                             AP!LinkInv(IdsOf)' /\ (A!Orphaned' => A!Orphaned \/ A!Separates)
           /\ up => \A d \in 1..MaxStep : A!Clock(d) =>
                             /\ AP!LinkInv(IdsOf)' /\ (A!Stuck' => A!Stuck)
                             /\ A!Orphaned' => A!Orphaned \/ A!Separates
<1>1. AP!Faithful(IdsOf) => FaithfulA
  BY SameA DEF AP!Faithful, FaithfulA
<1>2. A!StartUp => FaithfulA
  BY <1>1, Assumptions, SameA, AP!StartUpFaithful DEF AP!Reflectors, AP!NoId
<1>3. up /\ A!Own => FaithfulA
  BY <1>1, Assumptions, SameA, AP!OwnFaithful DEF AP!Reflectors, AP!NoId
<1>4. UNCHANGED aVars /\ (up' = up \/ up' = TRUE) => FaithfulA
  <2>1. UNCHANGED aVars => UNCHANGED <<AP!groupVars, aLinks>>
    BY DEF aVars, AP!groupVars, AP!setVars, AP!relayVars
  <2> QED
    BY <1>1, <2>1, Assumptions, AP!OthersOnly DEF AP!Reflectors, AP!NoId
<1>5. ASSUME up' = up, NEW h, NEW rep, A!OnAck(h, rep) \/ A!OnNak(h, rep) \/ A!OnPoll(h)
      PROVE  FaithfulA
  <2>1. AP!OnAck(h, rep) \/ AP!OnNak(h, rep) \/ AP!OnPoll(h)
    BY <1>5, SameA
  <2> QED
    BY <1>1, <1>5, <2>1, Assumptions, AP!AnswersOffered DEF AP!Reflectors, AP!NoId
<1>6. ASSUME up' = up, NEW r \in XRFs, NEW i \in IdsOf[r], A!OnHeader(r, i)
      PROVE  FaithfulA
  <2>1. i \in LinkIds /\ AP!OnHeader(r, i)
    BY <1>6, SameA, Assumptions
  <2> QED
    BY <1>1, <1>6, <2>1, Assumptions, AP!TalkOffered DEF AP!Reflectors, AP!NoId
<1>7. ASSUME up' = up, NEW h, NEW i \in LinkIds, NEW first \in BOOLEAN, NEW end \in BOOLEAN,
             A!OnVoice(h, i, first, end)
      PROVE  FaithfulA
  <2>1. AP!OnVoice(h, i, first, end)
    BY <1>7, SameA
  <2> QED
    BY <1>1, <1>7, <2>1, Assumptions, AP!TalkOffered DEF AP!Reflectors, AP!NoId
<1>8. ASSUME up' = up, NEW r, A!OnDisconnect(r)
      PROVE  AP!LinkInv(IdsOf)' /\ (A!Orphaned' => A!Orphaned \/ A!Separates)
  <2>1. AP!OnDisconnect(r)
    BY <1>8, SameA
  <2>2. AP!LinkInv(IdsOf)' /\ (AP!Orphaned' => AP!Orphaned \/ AP!Separates)
    BY <1>8, <2>1, Assumptions, AP!DisconnectOffered DEF AP!Reflectors, AP!NoId
  <2> QED
    BY <2>2, SameA
<1>9. ASSUME up, NEW d \in 1..MaxStep, A!Clock(d)
      PROVE  /\ AP!LinkInv(IdsOf)' /\ (A!Stuck' => A!Stuck)
             /\ A!Orphaned' => A!Orphaned \/ A!Separates
  <2>1. AP!Clock(d)
    BY <1>9, SameA
  <2>2. /\ AP!LinkInv(IdsOf)' /\ (AP!Stuck' => AP!Stuck)
        /\ AP!Orphaned' => AP!Orphaned \/ AP!Separates
    BY <1>9, <2>1, Assumptions, AP!ClockFaithful DEF AP!Reflectors, AP!NoId
  <2> QED
    BY <2>2, SameA
<1> QED
  BY <1>2, <1>3, <1>4, <1>5, <1>6, <1>7, <1>8, <1>9

\* What can happen to the second group, in the terms of SharedXRF.
LEMMA StepsB ==
    ASSUME BP!LinkInv(IdsOf)
    PROVE  /\ B!StartUp => FaithfulB
           /\ up /\ B!Own => FaithfulB
           /\ UNCHANGED bVars /\ (up' = up \/ up' = TRUE) => FaithfulB
           /\ up' = up => \A h, rep : B!OnAck(h, rep) \/ B!OnNak(h, rep) \/ B!OnPoll(h) => FaithfulB
           /\ up' = up => \A r \in XRFs : \A i \in IdsOf[r] : B!OnHeader(r, i) => FaithfulB
           /\ up' = up => \A h : \A i \in LinkIds, first, end \in BOOLEAN :
                             B!OnVoice(h, i, first, end) => FaithfulB
           /\ up' = up => \A r : B!OnDisconnect(r) =>
                             BP!LinkInv(IdsOf)' /\ (B!Orphaned' => B!Orphaned \/ B!Separates)
           /\ up => \A d \in 1..MaxStep : B!Clock(d) =>
                             /\ BP!LinkInv(IdsOf)' /\ (B!Stuck' => B!Stuck)
                             /\ B!Orphaned' => B!Orphaned \/ B!Separates
<1>1. BP!Faithful(IdsOf) => FaithfulB
  BY SameB DEF BP!Faithful, FaithfulB
<1>2. B!StartUp => FaithfulB
  BY <1>1, Assumptions, SameB, BP!StartUpFaithful DEF BP!Reflectors, BP!NoId
<1>3. up /\ B!Own => FaithfulB
  BY <1>1, Assumptions, SameB, BP!OwnFaithful DEF BP!Reflectors, BP!NoId
<1>4. UNCHANGED bVars /\ (up' = up \/ up' = TRUE) => FaithfulB
  <2>1. UNCHANGED bVars => UNCHANGED <<BP!groupVars, bLinks>>
    BY DEF bVars, BP!groupVars, BP!setVars, BP!relayVars
  <2> QED
    BY <1>1, <2>1, Assumptions, BP!OthersOnly DEF BP!Reflectors, BP!NoId
<1>5. ASSUME up' = up, NEW h, NEW rep, B!OnAck(h, rep) \/ B!OnNak(h, rep) \/ B!OnPoll(h)
      PROVE  FaithfulB
  <2>1. BP!OnAck(h, rep) \/ BP!OnNak(h, rep) \/ BP!OnPoll(h)
    BY <1>5, SameB
  <2> QED
    BY <1>1, <1>5, <2>1, Assumptions, BP!AnswersOffered DEF BP!Reflectors, BP!NoId
<1>6. ASSUME up' = up, NEW r \in XRFs, NEW i \in IdsOf[r], B!OnHeader(r, i)
      PROVE  FaithfulB
  <2>1. i \in LinkIds /\ BP!OnHeader(r, i)
    BY <1>6, SameB, Assumptions
  <2> QED
    BY <1>1, <1>6, <2>1, Assumptions, BP!TalkOffered DEF BP!Reflectors, BP!NoId
<1>7. ASSUME up' = up, NEW h, NEW i \in LinkIds, NEW first \in BOOLEAN, NEW end \in BOOLEAN,
             B!OnVoice(h, i, first, end)
      PROVE  FaithfulB
  <2>1. BP!OnVoice(h, i, first, end)
    BY <1>7, SameB
  <2> QED
    BY <1>1, <1>7, <2>1, Assumptions, BP!TalkOffered DEF BP!Reflectors, BP!NoId
<1>8. ASSUME up' = up, NEW r, B!OnDisconnect(r)
      PROVE  BP!LinkInv(IdsOf)' /\ (B!Orphaned' => B!Orphaned \/ B!Separates)
  <2>1. BP!OnDisconnect(r)
    BY <1>8, SameB
  <2>2. BP!LinkInv(IdsOf)' /\ (BP!Orphaned' => BP!Orphaned \/ BP!Separates)
    BY <1>8, <2>1, Assumptions, BP!DisconnectOffered DEF BP!Reflectors, BP!NoId
  <2> QED
    BY <2>2, SameB
<1>9. ASSUME up, NEW d \in 1..MaxStep, B!Clock(d)
      PROVE  /\ BP!LinkInv(IdsOf)' /\ (B!Stuck' => B!Stuck)
             /\ B!Orphaned' => B!Orphaned \/ B!Separates
  <2>1. BP!Clock(d)
    BY <1>9, SameB
  <2>2. /\ BP!LinkInv(IdsOf)' /\ (BP!Stuck' => BP!Stuck)
        /\ BP!Orphaned' => BP!Orphaned \/ BP!Separates
    BY <1>9, <2>1, Assumptions, BP!ClockFaithful DEF BP!Reflectors, BP!NoId
  <2> QED
    BY <2>2, SameB
<1> QED
  BY <1>2, <1>3, <1>4, <1>5, <1>6, <1>7, <1>8, <1>9

-----------------------------------------------------------------------------
\* A packet is offered to both groups.  Only one that ends a link frees a group of
\* the link it waits for without telling it.
LEMMA PacketSteps ==
    ASSUME Inv, NEW r \in XRFs, Packet(Host[r])
    PROVE  Inv' /\ Kept /\ (Freed \/ Disconnect(Host[r]))
<1>1. up' = up /\ AP!LinkInv(IdsOf) /\ BP!LinkInv(IdsOf)
  BY DEF Packet, Inv
<1>2. SUFFICES (FaithfulA /\ FaithfulB) \/ (Inv' /\ Kept /\ Disconnect(Host[r]))
  BY DEF FaithfulA, FaithfulB, Inv, Kept, Freed
<1>3. CASE Ack(Host[r])
  BY <1>1, <1>3, StepsA, StepsB DEF Ack
<1>4. CASE Nak(Host[r])
  BY <1>1, <1>4, StepsA, StepsB DEF Nak
<1>5. CASE Poll(Host[r])
  BY <1>1, <1>5, StepsA, StepsB DEF Poll
<1>6. CASE Disconnect(Host[r])
  <2>1. PICK s : A!OnDisconnect(s) /\ B!OnDisconnect(s)
    BY <1>6 DEF Disconnect
  <2>2. AP!LinkInv(IdsOf)' /\ (A!Orphaned' => A!Orphaned \/ A!Separates)
    BY <1>1, <2>1, StepsA
  <2>3. BP!LinkInv(IdsOf)' /\ (B!Orphaned' => B!Orphaned \/ B!Separates)
    BY <1>1, <2>1, StepsB
  <2> QED
    BY <1>6, <2>2, <2>3 DEF Inv, Kept
<1>7. CASE Header(Host[r])
  <2>1. PICK s \in XRFs : \E i \in IdsOf[s] : A!OnHeader(s, i) /\ B!OnHeader(s, i)
    BY <1>7 DEF Header, Modules
  <2> QED
    BY <1>1, <2>1, StepsA, StepsB
<1>8. CASE Voice(Host[r])
  BY <1>1, <1>8, StepsA, StepsB DEF Voice
<1> QED
  BY <1>3, <1>4, <1>5, <1>6, <1>7, <1>8 DEF Packet

\* The other steps.
LEMMA OtherSteps ==
    ASSUME Inv, StartUp \/ ForA \/ ForB \/ Tick \/ UNCHANGED vars
    PROVE  Inv' /\ Kept /\ Freed
<1>1. AP!LinkInv(IdsOf) /\ BP!LinkInv(IdsOf)
  BY DEF Inv
<1>2. CASE StartUp
  BY <1>1, <1>2, StepsA, StepsB DEF StartUp, FaithfulA, FaithfulB, Inv, Kept, Freed
<1>3. CASE ForA
  <2>1. up /\ up' = up /\ A!Own /\ UNCHANGED bVars
    BY <1>3 DEF ForA, A!Own, A!remoteUnlink, A!remoteLink, A!Talk, A!TalkCut, A!G2Talk
  <2> QED
    BY <1>1, <2>1, StepsA, StepsB DEF FaithfulA, FaithfulB, Inv, Kept, Freed
<1>4. CASE ForB
  <2>1. up /\ up' = up /\ B!Own /\ UNCHANGED aVars
    BY <1>4 DEF ForB, B!Own, B!remoteUnlink, B!remoteLink, B!Talk, B!TalkCut, B!G2Talk
  <2> QED
    BY <1>1, <2>1, StepsA, StepsB DEF FaithfulA, FaithfulB, Inv, Kept, Freed
<1>5. CASE Tick
  <2>1. PICK d \in 1..MaxStep : up /\ A!Clock(d) /\ B!Clock(d)
    BY <1>5 DEF Tick
  <2>2. /\ AP!LinkInv(IdsOf)' /\ (A!Stuck' => A!Stuck)
        /\ A!Orphaned' => A!Orphaned \/ A!Separates
    BY <1>1, <2>1, StepsA
  <2>3. /\ BP!LinkInv(IdsOf)' /\ (B!Stuck' => B!Stuck)
        /\ B!Orphaned' => B!Orphaned \/ B!Separates
    BY <1>1, <2>1, StepsB
  <2> QED
    BY <2>2, <2>3 DEF Inv, Kept, Freed
<1>6. CASE UNCHANGED vars
  <2>1. UNCHANGED aVars /\ UNCHANGED bVars /\ up' = up
    BY <1>6 DEF vars
  <2> QED
    BY <1>1, <2>1, StepsA, StepsB DEF FaithfulA, FaithfulB, Inv, Kept, Freed
<1> QED
  BY <1>2, <1>3, <1>4, <1>5, <1>6

\* The invariant is kept, and what the action properties say, by every step.
LEMMA Steps ==
    ASSUME Inv, [Next]_vars
    PROVE  Inv' /\ Kept /\ (Freed \/ \E r \in XRFs : Disconnect(Host[r]))
  BY PacketSteps, OtherSteps DEF Next
-----------------------------------------------------------------------------
\* Whatever packets come in for the other group: what is shown of a group, linked
\* or not, is what its own link is.
THEOREM StatusIsOwn == Spec => []StatusAgrees
<1>1. Inv => StatusAgrees
  <2> SUFFICES ASSUME Inv PROVE StatusAgrees
    OBVIOUS
  <2>1. AP!StatusOK /\ BP!StatusOK
    BY DEF Inv, AP!LinkInv, BP!LinkInv
  <2>2. AP!StatusAgrees
    BY <2>1, Assumptions, AP!WithoutDCS DEF AP!Reflectors, AP!NoId
  <2>3. BP!StatusAgrees
    BY <2>1, Assumptions, BP!WithoutDCS DEF BP!Reflectors, BP!NoId
  <2> QED
    BY <2>2, <2>3, SameA, SameB DEF StatusAgrees
<1>2. Inv /\ [Next]_vars => Inv'
  BY Steps
<1> QED
  BY InitInv, <1>1, <1>2, PTL DEF Spec

\* A group that is linked to one module of a host never relays the talk of another
\* module, though the frames of all of them come from the same address.
THEOREM OwnModuleHeard == Spec => []HearsOwnModule
<1>1. Inv => HearsOwnModule
  <2> SUFFICES ASSUME Inv PROVE HearsOwnModule
    OBVIOUS
  <2>1. AP!LinkInv(IdsOf) /\ BP!LinkInv(IdsOf)
    BY DEF Inv
  <2>2. AP!Orphaned \/ AP!RelaysOnly(IdsOf)
    BY <2>1, Assumptions, AP!HearsOwn DEF AP!Reflectors, AP!NoId
  <2>3. BP!Orphaned \/ BP!RelaysOnly(IdsOf)
    BY <2>1, Assumptions, BP!HearsOwn DEF BP!Reflectors, BP!NoId
  <2> QED
    BY <2>2, <2>3, SameA, SameB DEF HearsOwnModule
<1>2. Inv /\ [Next]_vars => Inv'
  BY Steps
<1> QED
  BY InitInv, <1>1, <1>2, PTL DEF Spec

\* The talk a group relays stays on its link until that link is lost: neither the
\* timers, which run out together, nor a packet for the other group part them.
THEOREM OnlyLossOrphans == Spec => OrphanedOnlyByLoss
<1>1. Inv /\ [Next]_vars => Inv' /\ Kept
  BY Steps
<1> QED
  BY InitInv, <1>1, PTL DEF Spec, OrphanedOnlyByLoss, Kept

\* With a port to be had, only a module that disconnects before it has acknowledged
\* the link leaves a group waiting for a link that nobody asks for.
THEOREM OnlyDisconnectStrands == Spec => StuckOnlyByDisconnect
<1>1. Inv /\ [Next]_vars => Inv' /\ (Freed \/ \E r \in XRFs : Disconnect(Host[r]))
  BY Steps
<1> QED
  BY InitInv, <1>1, PTL DEF Spec, StuckOnlyByDisconnect, Freed
==============================================================================
