--------------------------- MODULE LinkingProofs ---------------------------
(***************************************************************************)
(* Theorems about Linking for any reflectors, ports, streams and periods   *)
(* of time.  First the state keeps its types and the DExtra handlers       *)
(* follow the setting of the group, which are inductive together (Inv).    *)
(* Most actions leave the setting alone and make no handler (lemma         *)
(* InvKept); the others are the links of the configuration and the remote  *)
(* control.  Then what waits is timed, with where DCS handlers lead        *)
(* (WaitInv), and from that, which steps make a link the group is not set  *)
(* to.  The last part is about a group that shares its hosts with others,  *)
(* as XRFGroup adds it: SharedXRFProofs takes its lemmas for each of them. *)
(***************************************************************************)
EXTENDS XRFGroup, TLAPS

\* A timer set to t runs from 1 to a limit that is larger.
LEMMA Limits ==
    ASSUME NEW t \in Nat, t # 0
    PROVE  LimitOf(t) \in Nat /\ LimitOf(t) > 1 /\ Started(LimitOf(t)) = 1
  BY DEF LimitOf, Started

\* CTimer::clock keeps a timer in its range, and a running one running.
LEMMA Timers ==
    ASSUME NEW t \in Nat, t # 0, NEW c \in 0..LimitOf(t), NEW d \in Nat
    PROVE  /\ Advance(c, LimitOf(t), d) \in 0..LimitOf(t)
           /\ c > 0 => Advance(c, LimitOf(t), d) > 0
  BY DEF LimitOf, Started, Advance

\* calcBackoff() gives at most a minute for any number of tries.
LEMMA TryLimits ==
    ASSUME NEW n \in 0..7
    PROVE  /\ TryLimit(n) \in 2..61
           /\ Started(TryLimit(n)) = 1
           /\ NextTries(n) \in 0..7
           /\ LimitOf(Backoff(7)) = 61
  BY DEF TryLimit, NextTries, Backoff, LimitOf, Started

\* The timer of the stream that is relayed, and of those of the links.
LEMMA LinkLimits ==
    /\ LinkLimit \in Nat /\ LinkLimit > 1
    /\ Started(LinkLimit) = 1
  BY LinkAssumption DEF LinkLimit, LimitOf, Started

\* A link is a link after each of the operations on it, and one to the same
\* reflector.
LEMMA Links_NewLink ==
    ASSUME NEW r \in Reflectors, NEW t \in Nat, t # 0
    PROVE  NewLink(r, t) \in Link(t)
  BY Limits, TryLimits, LinkAssumption DEF NewLink, Link, LinkLimit, Stopped, LimitOf

\* The same of a link that is asked for again.
LEMMA Links_Restarted ==
    ASSUME NEW t \in Nat, NEW l \in Link(t), NEW s \in {"LINKING", "LINKED", "UNLINKING"}
    PROVE  /\ Restarted(l, s) \in Link(t)
           /\ Restarted(l, s).refl = l.refl
<1>1. Started(TryLimit(0)) = 1 /\ LimitOf(Backoff(7)) = 61
  BY TryLimits
<1>2. Started(TryLimit(0)) \in 0..LimitOf(Backoff(7)) /\ 0 \in 0..7
  BY <1>1
<1> QED
  BY <1>2 DEF Restarted, Link

\* The try timer stays below the longest of its periods.
LEMMA TryTimer ==
    ASSUME NEW n \in 0..7, NEW c \in Nat, NEW d \in Nat
    PROVE  Advance(c, TryLimit(n), d) \in 0..61
  BY TryLimits DEF Advance

\* The same of a link that is lost and made again by clockInt().
LEMMA Links_Relinked ==
    ASSUME NEW t \in Nat, t # 0, NEW l \in Link(t), NEW d \in Nat
    PROVE  Relinked(l, t, d) \in Link(t) /\ Relinked(l, t, d).refl = l.refl
<1>1. Restarted(l, "LINKING") \in Link(t) /\ Restarted(l, "LINKING").refl = l.refl
  BY Links_Restarted
<1>2. Restarted(l, "LINKING").inact \in 0..LinkLimit
  BY <1>1 DEF Link
<1>3. Advance(Restarted(l, "LINKING").inact, LinkLimit, d) \in 0..LinkLimit
  BY <1>2, LinkAssumption, Timers DEF LinkLimit
<1>4. Started(LimitOf(t)) \in 1..LimitOf(t)
  BY Limits
<1> QED
  BY <1>1, <1>3, <1>4 DEF Relinked, Link

\* The same of a link that clockInt() keeps.
LEMMA Links_Clocked ==
    ASSUME NEW t \in Nat, t # 0, NEW l \in Link(t), NEW d \in Nat
    PROVE  Clocked(l, t, d) \in Link(t) /\ Clocked(l, t, d).refl = l.refl
<1>1. /\ l.poll \in 1..LimitOf(t) /\ l.inact \in 0..LinkLimit
      /\ l.try \in Nat /\ l.try \in 0..61 /\ l.tries \in 0..7
      /\ l.stream \in LinkIds \cup {NoId}
  BY TryLimits DEF Link
<1>2. Advance(l.poll, LimitOf(t), d) \in 1..LimitOf(t)
  BY <1>1, Timers DEF LimitOf, Advance
<1>3. Advance(l.inact, LinkLimit, d) \in 0..LinkLimit
  BY <1>1, LinkAssumption, Timers DEF LinkLimit
<1>8. Stopped \in 0..LinkLimit
  BY LinkLimits DEF Stopped
<1>4. Advance(l.try, TryLimit(l.tries), d) \in 0..61
  BY <1>1, TryTimer
<1>5. NextTries(l.tries) \in 0..7
  BY <1>1, TryLimits
<1>6. Started(TryLimit(NextTries(l.tries))) \in 0..61
  BY <1>5, TryLimits
<1>7. LimitOf(Backoff(7)) = 61
  BY TryLimits
<1> HIDE DEF LinkLimit, LimitOf
<1> QED
  BY <1>1, <1>2, <1>3, <1>4, <1>5, <1>6, <1>7, <1>8 DEF Clocked, Link
-----------------------------------------------------------------------------
(***************************************************************************)
(* The two instances have the operators of GroupLink under names of their  *)
(* own; they are the same.                                                 *)
(***************************************************************************)
\* Those of the DExtra handlers.
LEMMA DExtraOperators ==
    /\ \A t : DExtra!Link(t) = Link(t)
    /\ \A r, t : DExtra!NewLink(r, t) = NewLink(r, t)
    /\ \A l, s : DExtra!Restarted(l, s) = Restarted(l, s)
    /\ \A ls, t, d : DExtra!ClockLinks(ls, t, d) = ClockLinks(ls, t, d)
    /\ (DExtra!linkUp <=> linkUp)
    /\ (DExtra!linkRefused <=> linkRefused)
    /\ (DExtra!linkFailed <=> linkFailed)
    /\ \A i : (DExtra!Header(i) <=> Header(i))
    /\ \A i, h, e : (DExtra!Voice(i, h, e) <=> Voice(i, h, e))
    /\ \A S : (DExtra!EndTalks(S) <=> EndTalks(S))
<1>1. \A t : DExtra!Link(t) = Link(t)
  BY DEF Link, DExtra!Link, Reflectors, DExtra!Reflectors, LimitOf,
         DExtra!LimitOf, Backoff, DExtra!Backoff, LinkLimit, DExtra!LinkLimit,
         NoId, DExtra!NoId
<1>2. \A r, t : DExtra!NewLink(r, t) = NewLink(r, t)
  BY DEF NewLink, DExtra!NewLink, Started, DExtra!Started, TryLimit,
         DExtra!TryLimit, LimitOf, DExtra!LimitOf, Backoff, DExtra!Backoff,
         NoId, DExtra!NoId, Stopped, DExtra!Stopped
<1>3. \A l, s : DExtra!Restarted(l, s) = Restarted(l, s)
  BY DEF Restarted, DExtra!Restarted, Started, DExtra!Started, TryLimit,
         DExtra!TryLimit, LimitOf, DExtra!LimitOf, Backoff, DExtra!Backoff,
         Stopped, DExtra!Stopped
<1>4. \A ls, t, d : DExtra!ClockLinks(ls, t, d) = ClockLinks(ls, t, d)
  BY DEF ClockLinks, DExtra!ClockLinks, Recovers, DExtra!Recovers,
         ActiveStatus, DExtra!ActiveStatus, PollLost, DExtra!PollLost,
         Relinked, DExtra!Relinked, Clocked, DExtra!Clocked, Restarted,
         DExtra!Restarted, StreamLost, DExtra!StreamLost, Retries,
         DExtra!Retries, NextTries, DExtra!NextTries, Started, DExtra!Started,
         TryLimit, DExtra!TryLimit, LimitOf, DExtra!LimitOf, Backoff,
         DExtra!Backoff, NoId, DExtra!NoId, Stopped, DExtra!Stopped, Advance,
         DExtra!Advance, LinkLimit, DExtra!LinkLimit, ExpiresWithin,
         DExtra!ExpiresWithin, HasExpired, DExtra!HasExpired
<1>5. (DExtra!linkUp <=> linkUp)
  BY DEF linkUp, DExtra!linkUp, Linked, DExtra!Linked
<1>6. (DExtra!linkRefused <=> linkRefused)
  BY DEF linkRefused, DExtra!linkRefused
<1>7. (DExtra!linkFailed <=> linkFailed)
  BY DEF linkFailed, DExtra!linkFailed
<1>8. \A i : (DExtra!Header(i) <=> Header(i))
  BY DEF Header, DExtra!Header, NoId, DExtra!NoId, Started, DExtra!Started,
         LinkLimit, DExtra!LinkLimit, LimitOf, DExtra!LimitOf, Stopped,
         DExtra!Stopped, relayVars, DExtra!relayVars
<1>9. \A i, h, e : (DExtra!Voice(i, h, e) <=> Voice(i, h, e))
  BY DEF Voice, DExtra!Voice, EndRelay, DExtra!EndRelay, NoId, DExtra!NoId,
         Started, DExtra!Started, LinkLimit, DExtra!LinkLimit, LimitOf,
         DExtra!LimitOf, Stopped, DExtra!Stopped, relayVars, DExtra!relayVars
<1>10. \A S : (DExtra!EndTalks(S) <=> EndTalks(S))
  BY DEF EndTalks, DExtra!EndTalks, EndRelay, DExtra!EndRelay, NoId,
         DExtra!NoId, Stopped, DExtra!Stopped, relayVars, DExtra!relayVars
<1> QED
  BY <1>1, <1>2, <1>3, <1>4, <1>5, <1>6, <1>7, <1>8, <1>9, <1>10

\* Those of the DCS handlers.
LEMMA DCSOperators ==
    /\ \A t : DCS!Link(t) = Link(t)
    /\ \A r, t : DCS!NewLink(r, t) = NewLink(r, t)
    /\ \A l, s : DCS!Restarted(l, s) = Restarted(l, s)
    /\ \A ls, t, d : DCS!ClockLinks(ls, t, d) = ClockLinks(ls, t, d)
    /\ (DCS!linkUp <=> linkUp)
    /\ (DCS!linkRefused <=> linkRefused)
    /\ (DCS!linkFailed <=> linkFailed)
    /\ \A i : (DCS!Header(i) <=> Header(i))
    /\ \A i, h, e : (DCS!Voice(i, h, e) <=> Voice(i, h, e))
    /\ \A S : (DCS!EndTalks(S) <=> EndTalks(S))
<1>1. \A t : DCS!Link(t) = Link(t)
  BY DEF Link, DCS!Link, Reflectors, DCS!Reflectors, LimitOf, DCS!LimitOf,
         Backoff, DCS!Backoff, LinkLimit, DCS!LinkLimit, NoId, DCS!NoId
<1>2. \A r, t : DCS!NewLink(r, t) = NewLink(r, t)
  BY DEF NewLink, DCS!NewLink, Started, DCS!Started, TryLimit, DCS!TryLimit,
         LimitOf, DCS!LimitOf, Backoff, DCS!Backoff, NoId, DCS!NoId, Stopped,
         DCS!Stopped
<1>3. \A l, s : DCS!Restarted(l, s) = Restarted(l, s)
  BY DEF Restarted, DCS!Restarted, Started, DCS!Started, TryLimit,
         DCS!TryLimit, LimitOf, DCS!LimitOf, Backoff, DCS!Backoff, Stopped,
         DCS!Stopped
<1>4. \A ls, t, d : DCS!ClockLinks(ls, t, d) = ClockLinks(ls, t, d)
  BY DEF ClockLinks, DCS!ClockLinks, Recovers, DCS!Recovers, ActiveStatus,
         DCS!ActiveStatus, PollLost, DCS!PollLost, Relinked, DCS!Relinked,
         Clocked, DCS!Clocked, Restarted, DCS!Restarted, StreamLost,
         DCS!StreamLost, Retries, DCS!Retries, NextTries, DCS!NextTries,
         Started, DCS!Started, TryLimit, DCS!TryLimit, LimitOf, DCS!LimitOf,
         Backoff, DCS!Backoff, NoId, DCS!NoId, Stopped, DCS!Stopped, Advance,
         DCS!Advance, LinkLimit, DCS!LinkLimit, ExpiresWithin,
         DCS!ExpiresWithin, HasExpired, DCS!HasExpired
<1>5. (DCS!linkUp <=> linkUp)
  BY DEF linkUp, DCS!linkUp, Linked, DCS!Linked
<1>6. (DCS!linkRefused <=> linkRefused)
  BY DEF linkRefused, DCS!linkRefused
<1>7. (DCS!linkFailed <=> linkFailed)
  BY DEF linkFailed, DCS!linkFailed
<1>8. \A i : (DCS!Header(i) <=> Header(i))
  BY DEF Header, DCS!Header, NoId, DCS!NoId, Started, DCS!Started, LinkLimit,
         DCS!LinkLimit, LimitOf, DCS!LimitOf, Stopped, DCS!Stopped, relayVars,
         DCS!relayVars
<1>9. \A i, h, e : (DCS!Voice(i, h, e) <=> Voice(i, h, e))
  BY DEF Voice, DCS!Voice, EndRelay, DCS!EndRelay, NoId, DCS!NoId, Started,
         DCS!Started, LinkLimit, DCS!LinkLimit, LimitOf, DCS!LimitOf, Stopped,
         DCS!Stopped, relayVars, DCS!relayVars
<1>10. \A S : (DCS!EndTalks(S) <=> EndTalks(S))
  BY DEF EndTalks, DCS!EndTalks, EndRelay, DCS!EndRelay, NoId, DCS!NoId,
         Stopped, DCS!Stopped, relayVars, DCS!relayVars
<1> QED
  BY <1>1, <1>2, <1>3, <1>4, <1>5, <1>6, <1>7, <1>8, <1>9, <1>10

-----------------------------------------------------------------------------
\* The inductive invariant.
Inv == TypeOK /\ DExtraFollows

RelayOK == relayed \in LinkIds \cup G2Ids \cup {NoId} /\ linkTimer \in 0..LinkLimit

\* A step of some handlers that makes no new one, and one of the group that its
\* setting survives.
Shrinks(links, t) ==
    /\ links' \in [DOMAIN links' -> Link(t)]
    /\ DOMAIN links' \subseteq DOMAIN links
    /\ \A p \in DOMAIN links' : links'[p].refl = links[p].refl
KeepsSetting == UNCHANGED setVars /\ linkStatus' \in ActiveStatus \cup {"LS_NONE"} /\ RelayOK'

\* What the group does with a stream leaves it well typed.
LEMMA RelaySteps ==
    ASSUME RelayOK
    PROVE  /\ \A i \in LinkIds : Header(i) => RelayOK'
           /\ \A i \in LinkIds : \A h, e \in BOOLEAN : Voice(i, h, e) => RelayOK'
           /\ \A S : EndTalks(S) => RelayOK'
           /\ UNCHANGED relayVars => RelayOK'
<1>1. Started(LinkLimit) \in 0..LinkLimit /\ Stopped \in 0..LinkLimit
  BY LinkLimits DEF Stopped
<1> QED
  BY <1>1 DEF RelayOK, Header, Voice, EndTalks, EndRelay, relayVars

\* Every report of a handler leaves a status there is.
LEMMA StatusSteps ==
    ASSUME linkStatus \in ActiveStatus \cup {"LS_NONE"}
    PROVE  /\ linkUp \/ linkRefused \/ linkFailed \/ UNCHANGED linkStatus
                 => linkStatus' \in ActiveStatus \cup {"LS_NONE"}
           /\ \A type : Linking(type) \in ActiveStatus
  BY DEF linkUp, linkRefused, linkFailed, Linked, Linking, ActiveStatus

\* Handlers that only shrink under an unchanged setting keep the invariant.
LEMMA InvKept ==
    ASSUME Inv, KeepsSetting, Shrinks(dextra, DExtraPollTime), Shrinks(dcs, DCSPollTime), up' = up
    PROVE  Inv'
<1>1. GroupTypeOK'
  BY DEF Inv, TypeOK, GroupTypeOK, KeepsSetting, RelayOK, setVars
<1>2. DExtra!TypeOK' /\ DCS!TypeOK'
  BY DExtraOperators, DCSOperators DEF Inv, TypeOK, DExtra!TypeOK, DCS!TypeOK, Shrinks
<1>3. TypeOK'
  BY <1>1, <1>2 DEF Inv, TypeOK, Shrinks
<1>4. DExtraFollows'
  BY DEF Inv, DExtraFollows, Shrinks, KeepsSetting, setVars, TypeOf
<1> QED
  BY <1>3, <1>4 DEF Inv

\* A packet from the reflector of a DExtra link.
LEMMA DExtraPacket ==
    ASSUME TypeOK, NEW p \in DOMAIN dextra, DExtra!FromReflector(p)
    PROVE  KeepsSetting /\ Shrinks(dextra, DExtraPollTime)
<1>1. /\ dextra \in [DOMAIN dextra -> Link(DExtraPollTime)]
      /\ RelayOK
      /\ linkStatus \in ActiveStatus \cup {"LS_NONE"}
  BY DExtraOperators DEF TypeOK, GroupTypeOK, RelayOK, DExtra!TypeOK
<1>2. /\ DExtra!Stopped \in 0..LimitOf(Backoff(7))
      /\ DExtra!Stopped \in 0..LinkLimit
      /\ DExtra!Started(DExtra!LinkLimit) \in 0..LinkLimit
      /\ DExtra!NoId = NoId
  BY TryLimits, LinkLimits
     DEF Stopped, DExtra!Stopped, NoId, DExtra!NoId, DExtra!Started, Started, DExtra!LinkLimit, LinkLimit,
         DExtra!LimitOf, LimitOf
<1>3. DExtra!Started(DExtra!LimitOf(DExtraPollTime)) \in 1..LimitOf(DExtraPollTime)
  BY Limits, LinkingAssumption DEF DExtra!Started, Started, DExtra!LimitOf, LimitOf, DExtra!Stopped, Stopped
<1>4. UNCHANGED relayVars => RelayOK'
  BY <1>1, RelaySteps
<1>5. linkUp \/ linkRefused \/ linkFailed \/ UNCHANGED linkStatus
        => linkStatus' \in ActiveStatus \cup {"LS_NONE"}
  BY <1>1, StatusSteps
<1>6. CASE DExtra!Ack(p)
  <2>1. KeepsSetting
    BY <1>6, <1>4, <1>5, DExtraOperators
       DEF DExtra!Ack, KeepsSetting, DExtra!setVars, DExtra!relayVars, setVars, relayVars
  <2>2. Shrinks(dextra, DExtraPollTime)
    BY <1>6, <1>1, <1>2, <1>3
       DEF DExtra!Ack, Shrinks, Link, DExtra!In, DExtra!Delete
  <2> QED
    BY <2>1, <2>2
<1>7. CASE DExtra!Nak(p)
  <2>1. KeepsSetting
    BY <1>7, <1>4, <1>5, DExtraOperators
       DEF DExtra!Nak, KeepsSetting, DExtra!setVars, DExtra!relayVars, setVars, relayVars
  <2>2. Shrinks(dextra, DExtraPollTime)
    BY <1>7, <1>1, <1>2, <1>3
       DEF DExtra!Nak, Shrinks, Link, DExtra!In, DExtra!Delete
  <2> QED
    BY <2>1, <2>2
<1>8. CASE DExtra!Disconnect(p)
  <2>1. KeepsSetting
    BY <1>8, <1>4, <1>5, DExtraOperators
       DEF DExtra!Disconnect, KeepsSetting, DExtra!setVars, DExtra!relayVars, setVars, relayVars
  <2>2. Shrinks(dextra, DExtraPollTime)
    BY <1>8, <1>1, <1>2, <1>3
       DEF DExtra!Disconnect, Shrinks, Link, DExtra!In, DExtra!Delete
  <2> QED
    BY <2>1, <2>2
<1>9. CASE DExtra!Poll(p)
  <2>1. KeepsSetting
    BY <1>9, <1>4, <1>5, DExtraOperators
       DEF DExtra!Poll, DExtra!groupVars, groupVars, KeepsSetting, DExtra!setVars, DExtra!relayVars, setVars, relayVars
  <2>2. Shrinks(dextra, DExtraPollTime)
    BY <1>9, <1>1, <1>2, <1>3
       DEF DExtra!Poll, DExtra!groupVars, groupVars, Shrinks, Link, DExtra!In, DExtra!Delete
  <2> QED
    BY <2>1, <2>2
<1>10. CASE \E i \in LinkIds : DExtra!ReflectorHeader(p, i)
  <2>1. KeepsSetting
    BY <1>10, <1>4, <1>5, DExtraOperators, <1>1, RelaySteps
       DEF DExtra!ReflectorHeader, KeepsSetting, DExtra!setVars, DExtra!relayVars, setVars, relayVars
  <2>2. Shrinks(dextra, DExtraPollTime)
    BY <1>10, <1>1, <1>2, <1>3
       DEF DExtra!ReflectorHeader, Shrinks, Link, DExtra!In, DExtra!Delete
  <2> QED
    BY <2>1, <2>2
<1>11. ASSUME NEW i \in LinkIds, NEW first \in BOOLEAN, NEW end \in BOOLEAN,
             DExtra!ReflectorVoice(p, i, first, end)
      PROVE  KeepsSetting /\ Shrinks(dextra, DExtraPollTime)
  <2>1. Voice(i, first, end)
    BY <1>11, DExtraOperators DEF DExtra!ReflectorVoice
  <2>2. KeepsSetting
    BY <1>11, <2>1, <1>1, <1>5, RelaySteps DEF DExtra!ReflectorVoice, KeepsSetting, DExtra!setVars, setVars
  <2>3. Shrinks(dextra, DExtraPollTime)
    BY <1>11, <1>1, <1>2, <1>3 DEF DExtra!ReflectorVoice, Shrinks, Link
  <2> QED
    BY <2>2, <2>3
<1> QED
  BY <1>6, <1>7, <1>8, <1>9, <1>10, <1>11 DEF DExtra!FromReflector

\* A packet from the reflector of a DCS link.
LEMMA DCSPacket ==
    ASSUME TypeOK, NEW p \in DOMAIN dcs, DCS!FromReflector(p)
    PROVE  KeepsSetting /\ Shrinks(dcs, DCSPollTime)
<1>1. /\ dcs \in [DOMAIN dcs -> Link(DCSPollTime)]
      /\ RelayOK
      /\ linkStatus \in ActiveStatus \cup {"LS_NONE"}
  BY DCSOperators DEF TypeOK, GroupTypeOK, RelayOK, DCS!TypeOK
<1>2. /\ DCS!Stopped \in 0..LimitOf(Backoff(7))
      /\ DCS!Stopped \in 0..LinkLimit
      /\ DCS!Started(DCS!LinkLimit) \in 0..LinkLimit
      /\ DCS!NoId = NoId
  BY TryLimits, LinkLimits
     DEF Stopped, DCS!Stopped, NoId, DCS!NoId, DCS!Started, Started, DCS!LinkLimit, LinkLimit,
         DCS!LimitOf, LimitOf
<1>3. DCS!Started(DCS!LimitOf(DCSPollTime)) \in 1..LimitOf(DCSPollTime)
  BY Limits, LinkingAssumption DEF DCS!Started, Started, DCS!LimitOf, LimitOf, DCS!Stopped, Stopped
<1>4. UNCHANGED relayVars => RelayOK'
  BY <1>1, RelaySteps
<1>5. linkUp \/ linkRefused \/ linkFailed \/ UNCHANGED linkStatus
        => linkStatus' \in ActiveStatus \cup {"LS_NONE"}
  BY <1>1, StatusSteps
<1>6. CASE DCS!Ack(p)
  <2>1. KeepsSetting
    BY <1>6, <1>4, <1>5, DCSOperators
       DEF DCS!Ack, KeepsSetting, DCS!setVars, DCS!relayVars, setVars, relayVars
  <2>2. Shrinks(dcs, DCSPollTime)
    BY <1>6, <1>1, <1>2, <1>3
       DEF DCS!Ack, Shrinks, Link, DCS!In, DCS!Delete
  <2> QED
    BY <2>1, <2>2
<1>7. CASE DCS!Nak(p)
  <2>1. KeepsSetting
    BY <1>7, <1>4, <1>5, DCSOperators
       DEF DCS!Nak, KeepsSetting, DCS!setVars, DCS!relayVars, setVars, relayVars
  <2>2. Shrinks(dcs, DCSPollTime)
    BY <1>7, <1>1, <1>2, <1>3
       DEF DCS!Nak, Shrinks, Link, DCS!In, DCS!Delete
  <2> QED
    BY <2>1, <2>2
<1>8. CASE DCS!Disconnect(p)
  <2>1. KeepsSetting
    BY <1>8, <1>4, <1>5, DCSOperators
       DEF DCS!Disconnect, KeepsSetting, DCS!setVars, DCS!relayVars, setVars, relayVars
  <2>2. Shrinks(dcs, DCSPollTime)
    BY <1>8, <1>1, <1>2, <1>3
       DEF DCS!Disconnect, Shrinks, Link, DCS!In, DCS!Delete
  <2> QED
    BY <2>1, <2>2
<1>9. CASE DCS!Poll(p)
  <2>1. KeepsSetting
    BY <1>9, <1>4, <1>5, DCSOperators
       DEF DCS!Poll, DCS!groupVars, groupVars, KeepsSetting, DCS!setVars, DCS!relayVars, setVars, relayVars
  <2>2. Shrinks(dcs, DCSPollTime)
    BY <1>9, <1>1, <1>2, <1>3
       DEF DCS!Poll, DCS!groupVars, groupVars, Shrinks, Link, DCS!In, DCS!Delete
  <2> QED
    BY <2>1, <2>2
<1>10. ASSUME NEW i \in LinkIds, NEW first \in BOOLEAN, NEW end \in BOOLEAN,
             DCS!ReflectorVoice(p, i, first, end)
      PROVE  KeepsSetting /\ Shrinks(dcs, DCSPollTime)
  <2>1. Voice(i, first, end)
    BY <1>10, DCSOperators DEF DCS!ReflectorVoice
  <2>2. KeepsSetting
    BY <1>10, <2>1, <1>1, <1>5, RelaySteps DEF DCS!ReflectorVoice, KeepsSetting, DCS!setVars, setVars
  <2>3. Shrinks(dcs, DCSPollTime)
    BY <1>10, <1>1, <1>2, <1>3 DEF DCS!ReflectorVoice, Shrinks, Link
  <2> QED
    BY <2>2, <2>3
<1> QED
  BY <1>6, <1>7, <1>8, <1>9, <1>10 DEF DCS!FromReflector

\* The clock of the handlers of a protocol: a link is kept, asked for again or
\* gone, and remains one to the same reflector.
LEMMA HandlerClock ==
    ASSUME NEW t \in Nat, t # 0, NEW links, links \in [DOMAIN links -> Link(t)], NEW d \in Nat
    PROVE  LET next == ClockLinks(links, t, d)
           IN  /\ next \in [DOMAIN next -> Link(t)]
               /\ DOMAIN next \subseteq DOMAIN links
               /\ \A p \in DOMAIN next : next[p].refl = links[p].refl
<1>1. ASSUME NEW p \in DOMAIN links
      PROVE  /\ Relinked(links[p], t, d) \in Link(t) /\ Relinked(links[p], t, d).refl = links[p].refl
             /\ Clocked(links[p], t, d) \in Link(t) /\ Clocked(links[p], t, d).refl = links[p].refl
  BY Links_Relinked, Links_Clocked
<1> QED
  BY <1>1 DEF ClockLinks

\* One turn of the main loop.
LEMMA TickKeeps ==
    ASSUME Inv, Tick
    PROVE  Inv'
<1>1. PICK d \in 1..MaxStep : Clock(d)
  BY DEF Tick
<1>2. d \in Nat
  BY LinkingAssumption
<1>3. /\ dextra \in [DOMAIN dextra -> Link(DExtraPollTime)]
      /\ dcs \in [DOMAIN dcs -> Link(DCSPollTime)]
      /\ RelayOK
      /\ linkStatus \in ActiveStatus \cup {"LS_NONE"}
  BY DExtraOperators, DCSOperators DEF Inv, TypeOK, GroupTypeOK, RelayOK, DExtra!TypeOK, DCS!TypeOK
<1>4. dextra' = ClockLinks(dextra, DExtraPollTime, d) /\ dcs' = ClockLinks(dcs, DCSPollTime, d)
  BY <1>1, DExtraOperators, DCSOperators DEF Clock, DExtra!Clock, DCS!Clock
<1>5. Shrinks(dextra, DExtraPollTime) /\ Shrinks(dcs, DCSPollTime)
  <2>1. DExtraPollTime \in Nat /\ DExtraPollTime # 0 /\ DCSPollTime \in Nat /\ DCSPollTime # 0
    BY LinkingAssumption
  <2>2. Shrinks(dextra, DExtraPollTime)
    BY <1>2, <1>3, <1>4, <2>1, HandlerClock DEF Shrinks
  <2>3. Shrinks(dcs, DCSPollTime)
    BY <1>2, <1>3, <1>4, <2>1, HandlerClock DEF Shrinks
  <2> QED
    BY <2>2, <2>3
<1>6. linkStatus' \in ActiveStatus \cup {"LS_NONE"}
  BY <1>1, <1>3, StatusSteps DEF Clock
<1>7. RelayOK'
  <2>1. Advance(linkTimer, LinkLimit, d) \in 0..LinkLimit
    BY <1>2, <1>3, Timers, LinkAssumption DEF RelayOK, LinkLimit
  <2>2. Stopped \in 0..LinkLimit
    BY LinkLimits DEF Stopped
  <2> QED
    BY <1>1, <1>3, <2>1, <2>2 DEF Clock, EndRelay, RelayOK
<1>8. KeepsSetting /\ up' = up
  BY <1>1, <1>6, <1>7 DEF KeepsSetting, Clock
<1> QED
  BY <1>5, <1>8, InvKept

\* A packet from a reflector of either kind.
LEMMA PacketKeeps ==
    ASSUME Inv, Packet
    PROVE  Inv'
<1>1. /\ dextra \in [DOMAIN dextra -> Link(DExtraPollTime)]
      /\ dcs \in [DOMAIN dcs -> Link(DCSPollTime)]
      /\ TypeOK
  BY DExtraOperators, DCSOperators DEF Inv, TypeOK, DExtra!TypeOK, DCS!TypeOK
<1>2. CASE \E p \in DOMAIN dextra : DExtra!FromReflector(p) /\ UNCHANGED <<dcs, up>>
  <2>1. KeepsSetting /\ Shrinks(dextra, DExtraPollTime)
    BY <1>1, <1>2, DExtraPacket
  <2>2. Shrinks(dcs, DCSPollTime) /\ up' = up
    BY <1>1, <1>2 DEF Shrinks
  <2> QED
    BY <2>1, <2>2, InvKept
<1>3. CASE \E p \in DOMAIN dcs : DCS!FromReflector(p) /\ UNCHANGED <<dextra, up>>
  <2>1. KeepsSetting /\ Shrinks(dcs, DCSPollTime)
    BY <1>1, <1>3, DCSPacket
  <2>2. Shrinks(dextra, DExtraPollTime) /\ up' = up
    BY <1>1, <1>3 DEF Shrinks
  <2> QED
    BY <2>1, <2>2, InvKept
<1> QED
  BY <1>2, <1>3 DEF Packet

\* The talks of the subscribers.
LEMMA TalkKeeps ==
    ASSUME Inv, Talk
    PROVE  Inv'
<1>1. /\ dextra \in [DOMAIN dextra -> Link(DExtraPollTime)]
      /\ dcs \in [DOMAIN dcs -> Link(DCSPollTime)]
      /\ RelayOK
      /\ linkStatus \in ActiveStatus \cup {"LS_NONE"}
  BY DExtraOperators, DCSOperators DEF Inv, TypeOK, GroupTypeOK, RelayOK, DExtra!TypeOK, DCS!TypeOK
<1>2. UNCHANGED <<setVars, linkStatus, linkVars, up>> /\ linkTimer' = linkTimer
  BY DEF Talk, TalkCut, G2Talk
<1>3. relayed' \in G2Ids \cup {NoId}
  BY DEF Talk, TalkCut, G2Talk
<1>4. KeepsSetting
  BY <1>1, <1>2, <1>3 DEF KeepsSetting, RelayOK
<1>5. Shrinks(dextra, DExtraPollTime) /\ Shrinks(dcs, DCSPollTime)
  BY <1>1, <1>2 DEF Shrinks, linkVars
<1> QED
  BY <1>2, <1>4, <1>5, InvKept

\* Making the handler of a new link: a group has no DExtra handler before.
LEMMA NewLinkKeeps ==
    ASSUME TypeOK, NEW r \in Reflectors, DOMAIN dextra = {}, linkInt(r),
           linkType' = TypeOf(r), linkReflector' = r, UNCHANGED relayVars, up' = TRUE
    PROVE  Inv'
<1>1. /\ dextra \in [DOMAIN dextra -> Link(DExtraPollTime)]
      /\ dcs \in [DOMAIN dcs -> Link(DCSPollTime)]
      /\ DOMAIN dcs \subseteq Ports
      /\ RelayOK
      /\ linkStatus \in ActiveStatus \cup {"LS_NONE"}
  BY DExtraOperators, DCSOperators DEF TypeOK, GroupTypeOK, RelayOK, DExtra!TypeOK, DCS!TypeOK
<1>2. GroupTypeOK'
  <2>1. TypeOf(r) \in {"LT_DEXTRA", "LT_DCS"}
    BY DEF TypeOf, Reflectors
  <2>2. linkStatus' \in ActiveStatus \cup {"LS_NONE"}
    BY <1>1, StatusSteps DEF linkInt
  <2> QED
    BY <1>1, <2>1, <2>2 DEF GroupTypeOK, RelayOK, relayVars
<1>3. NewLink(r, DExtraPollTime) \in Link(DExtraPollTime) /\ NewLink(r, DCSPollTime) \in Link(DCSPollTime)
  BY Links_NewLink, LinkingAssumption
<1>4. NewLink(r, DExtraPollTime).refl = r
  BY DEF NewLink
<1>5. CASE UNCHANGED linkVars
  BY <1>1, <1>2, <1>5, DExtraOperators, DCSOperators
     DEF Inv, TypeOK, DExtraFollows, DExtra!TypeOK, DCS!TypeOK, linkVars
<1>6. CASE r \in XRFs /\ DExtra!link(r, FreePorts) /\ UNCHANGED dcs
  <2>1. CASE UNCHANGED dextra
    BY <1>5, <1>6, <2>1 DEF linkVars
  <2>2. CASE \E p \in FreePorts : dextra' = [q \in DOMAIN dextra \cup {p} |->
                 IF q = p THEN NewLink(r, DExtraPollTime) ELSE dextra[q]]
    <3>1. PICK p \in FreePorts : dextra' = [q \in {p} |-> NewLink(r, DExtraPollTime)]
      BY <2>2
    <3>2. DOMAIN dextra' = {p} /\ dextra'[p].refl = r
      BY <3>1, <1>4
    <3>3. TypeOK'
      BY <1>1, <1>2, <1>3, <1>6, <3>1, DExtraOperators, DCSOperators
         DEF TypeOK, DExtra!TypeOK, DCS!TypeOK, FreePorts
    <3>4. DExtraFollows'
      BY <1>6, <3>2 DEF DExtraFollows
    <3> QED
      BY <3>3, <3>4 DEF Inv
  <2> QED
    BY <1>6, <2>1, <2>2, DExtraOperators DEF DExtra!link
<1>7. CASE r \notin XRFs /\ DCS!link(r, FreePorts) /\ UNCHANGED dextra
  <2>1. CASE UNCHANGED dcs
    BY <1>5, <1>7, <2>1 DEF linkVars
  <2>2. CASE \E p \in FreePorts : dcs' = [q \in DOMAIN dcs \cup {p} |->
                 IF q = p THEN NewLink(r, DCSPollTime) ELSE dcs[q]]
    <3>1. PICK p \in FreePorts : dcs' = [q \in DOMAIN dcs \cup {p} |->
                 IF q = p THEN NewLink(r, DCSPollTime) ELSE dcs[q]]
      BY <2>2
    <3>2. dcs' \in [DOMAIN dcs' -> Link(DCSPollTime)] /\ DOMAIN dcs' \subseteq Ports
      BY <1>1, <1>3, <3>1 DEF FreePorts
    <3>3. TypeOK'
      BY <1>1, <1>2, <1>7, <3>2, DExtraOperators, DCSOperators
         DEF TypeOK, DExtra!TypeOK, DCS!TypeOK
    <3>4. DExtraFollows'
      BY <1>7 DEF DExtraFollows
    <3> QED
      BY <3>3, <3>4 DEF Inv
  <2> QED
    BY <1>7, <2>1, <2>2, DCSOperators DEF DCS!link
<1> QED
  BY <1>5, <1>6, <1>7 DEF linkInt, linkVars

\* The links of the configuration: nothing is linked before.
LEMMA StartUpKeeps ==
    ASSUME Inv, StartUp
    PROVE  Inv'
<1>1. DOMAIN dextra = {} /\ linkType = TypeOf(linkReflector)
  BY DEF StartUp, Inv, DExtraFollows
<1>2. CASE linkType = "LT_NONE"
  <2>1. TypeOK'
    BY <1>2 DEF StartUp, Inv, TypeOK, GroupTypeOK, setVars, relayVars, linkVars,
                DExtra!TypeOK, DCS!TypeOK, DExtra!Link, DCS!Link
  <2>2. DExtraFollows'
    BY <1>1, <1>2 DEF StartUp, DExtraFollows, setVars, linkVars
  <2> QED
    BY <2>1, <2>2 DEF Inv
<1>3. CASE linkType # "LT_NONE"
  <2>1. linkReflector \in Reflectors
    BY <1>1, <1>3 DEF TypeOf, Reflectors
  <2>2. linkInt(linkReflector) /\ UNCHANGED <<setVars, relayVars>> /\ up' = TRUE
    BY <1>3 DEF StartUp
  <2> QED
    BY <1>1, <2>1, <2>2, NewLinkKeeps DEF Inv, setVars
<1> QED
  BY <1>2, <1>3

\* The remote control.
LEMMA RemoteKeeps ==
    ASSUME Inv, Remote
    PROVE  Inv'
<1>1. /\ dextra \in [DOMAIN dextra -> Link(DExtraPollTime)] /\ DOMAIN dextra \subseteq Ports
      /\ dcs \in [DOMAIN dcs -> Link(DCSPollTime)] /\ DOMAIN dcs \subseteq Ports
      /\ DOMAIN dextra \cap DOMAIN dcs = {}
      /\ RelayOK
      /\ linkStatus \in ActiveStatus \cup {"LS_NONE"}
      /\ up = TRUE
  BY DExtraOperators, DCSOperators
     DEF Inv, TypeOK, GroupTypeOK, RelayOK, DExtra!TypeOK, DCS!TypeOK, Remote
<1>2. linkType = TypeOf(linkReflector)
      /\ \A p \in DOMAIN dextra : linkReflector \in XRFs /\ dextra[p].refl = linkReflector
  BY DEF Inv, DExtraFollows
<1>3. CASE \E r \in Reflectors : remoteLink(r)
  <2>1. PICK r \in Reflectors : remoteLink(r)
    BY <1>3
  <2>2. DOMAIN dextra = {}
    BY <1>2, <2>1 DEF remoteLink, TypeOf
  <2> QED
    BY <1>1, <2>1, <2>2, NewLinkKeeps DEF Inv, remoteLink
<1>4. CASE remoteUnlink
  <2>1. linkType' = "LT_NONE" /\ linkReflector' = NoReflector /\ up' = TRUE
    BY <1>1, <1>4 DEF remoteUnlink
  <2>2. DOMAIN dextra' = {} /\ dextra' \in [DOMAIN dextra' -> Link(DExtraPollTime)]
    <3>1. CASE linkType = "LT_DEXTRA" /\ DExtra!unlink(linkReflector)
      BY <1>1, <1>2, <3>1 DEF DExtra!unlink, DExtra!Delete
    <3>2. CASE linkType = "LT_DCS" /\ UNCHANGED dextra
      BY <1>1, <1>2, <3>2 DEF TypeOf
    <3> QED
      BY <1>4, <3>1, <3>2 DEF remoteUnlink
  <2>3. DOMAIN dcs' = DOMAIN dcs /\ dcs' \in [DOMAIN dcs' -> Link(DCSPollTime)]
    <3>1. CASE UNCHANGED dcs
      BY <1>1, <3>1
    <3>2. CASE DCS!unlink(linkReflector)
      <4>1. \A p \in DOMAIN dcs : Restarted(dcs[p], "UNLINKING") \in Link(DCSPollTime)
        BY <1>1, Links_Restarted, LinkingAssumption
      <4> QED
        BY <1>1, <3>2, <4>1, DCSOperators DEF DCS!unlink
    <3> QED
      BY <1>4, <3>1, <3>2 DEF remoteUnlink
  <2>4. RelayOK'
    BY <1>1, <1>4, RelaySteps, DExtraOperators, DCSOperators
       DEF remoteUnlink, DExtra!unlink, DCS!unlink
  <2>5. linkStatus' \in ActiveStatus \cup {"LS_NONE"}
    BY <1>1, <1>4, StatusSteps, DExtraOperators
       DEF remoteUnlink, DExtra!unlink, DCS!unlink
  <2>6. TypeOK'
    BY <1>1, <2>1, <2>2, <2>3, <2>4, <2>5, DExtraOperators, DCSOperators
       DEF TypeOK, GroupTypeOK, RelayOK, DExtra!TypeOK, DCS!TypeOK
  <2>7. DExtraFollows'
    BY <2>1, <2>2, LinkAssumption DEF DExtraFollows, TypeOf, Reflectors
  <2> QED
    BY <2>6, <2>7 DEF Inv
<1> QED
  BY <1>3, <1>4 DEF Remote
-----------------------------------------------------------------------------
\* The invariant holds initially and after every step.
LEMMA InvInductive ==
    /\ Init => Inv
    /\ Inv /\ [Next]_vars => Inv'
<1>1. Init => Inv
  <2> SUFFICES ASSUME Init PROVE Inv
    OBVIOUS
  <2>1. GroupTypeOK
    BY LinkLimits DEF Init, GroupTypeOK, TypeOf, Reflectors, Stopped
  <2>2. DOMAIN dextra = {} /\ DOMAIN dcs = {}
    BY DEF Init, NoLinks
  <2>3. dextra \in [DOMAIN dextra -> DExtra!Link(DExtraPollTime)]
        /\ dcs \in [DOMAIN dcs -> DCS!Link(DCSPollTime)]
    BY DEF Init, NoLinks
  <2>4. TypeOK
    BY <2>1, <2>2, <2>3 DEF TypeOK, DExtra!TypeOK, DCS!TypeOK, Init
  <2> QED
    BY <2>2, <2>4 DEF Inv, DExtraFollows, Init
<1>2. Inv /\ Next => Inv'
  BY StartUpKeeps, RemoteKeeps, PacketKeeps, TalkKeeps, TickKeeps DEF Next
<1>3. Inv /\ UNCHANGED vars => Inv'
  <2> SUFFICES ASSUME Inv, UNCHANGED vars PROVE Inv'
    OBVIOUS
  <2>1. UNCHANGED <<linkType, linkReflector, linkStatus, relayed, linkTimer, dextra, dcs, up>>
    BY DEF vars, groupVars, setVars, relayVars, linkVars
  <2>2. TypeOK'
    BY <2>1, DExtraOperators, DCSOperators
       DEF Inv, TypeOK, GroupTypeOK, DExtra!TypeOK, DCS!TypeOK
  <2>3. DExtraFollows'
    BY <2>1 DEF Inv, DExtraFollows
  <2> QED
    BY <2>2, <2>3 DEF Inv
<1> QED
  BY <1>1, <1>2, <1>3

\* Every state of the group and of its handlers has its type: in particular no
\* timer leaves the range in which CTimer's comparison is meaningful, and no port
\* is opened by handlers of both protocols.
THEOREM TypeCorrect == Spec => []TypeOK
<1>1. Inv => TypeOK
  BY DEF Inv
<1> QED
  BY InvInductive, <1>1, PTL DEF Spec

\* Whatever is linked, unlinked, answered, lost or timed out in whatever order, a
\* group has at most one DExtra handler, and only to the reflector it is set to.
THEOREM XRFLinkFollows == Spec => []DExtraFollows
<1>1. Inv => DExtraFollows
  BY DEF Inv
<1> QED
  BY InvInductive, <1>1, PTL DEF Spec
-----------------------------------------------------------------------------
(***************************************************************************)
(* What waits is timed.  Beside the timers of the links and of the group   *)
(* the invariant says where DCS handlers lead, which the links the group   *)
(* is not set to depend on.                                                *)
(***************************************************************************)
Asking == {"LINKING", "LINKED"}

Timed(l) ==
    /\ l.state # "LINKED" => IsRunning(l.try)
    /\ l.stream # NoId => IsRunning(l.inact)
LinksTimed ==
    /\ \A p \in DOMAIN dextra : Timed(dextra[p])
    /\ \A p \in DOMAIN dcs : Timed(dcs[p])
RelayTimed == relayed \in LinkIds => IsRunning(linkTimer)

DCSOnly ==
    /\ ~up => DOMAIN dcs = {}
    /\ \A p \in DOMAIN dcs : dcs[p].refl \in DCSs

WaitInv == Inv /\ LinksTimed /\ RelayTimed /\ DCSOnly

\* A step of handlers that asks for no link again.
Answered(links) ==
    /\ DOMAIN links' \subseteq DOMAIN links
    /\ \A q \in DOMAIN links' :
          /\ links'[q].refl = links[q].refl
          /\ links'[q].state \in Asking => links[q].state \in Asking
          /\ Timed(links[q]) => Timed(links'[q])

\* The timer that is started runs.
LEMMA StartedRuns == IsRunning(Started(LinkLimit)) /\ IsRunning(Started(TryLimit(0)))
  BY LinkLimits, TryLimits DEF IsRunning

\* A talk of a reflector that the group has taken up is timed.
LEMMA RelayTimes ==
    ASSUME RelayTimed
    PROVE  /\ \A i \in LinkIds : Header(i) => RelayTimed'
           /\ \A i \in LinkIds, h, e \in BOOLEAN : Voice(i, h, e) => RelayTimed'
           /\ \A S : EndTalks(S) => RelayTimed'
           /\ UNCHANGED relayVars => RelayTimed'
<1>1. NoId \notin LinkIds
  BY LinkAssumption
<1> QED
  BY <1>1, StartedRuns DEF Header, Voice, EndTalks, EndRelay, RelayTimed, relayVars

\* A packet from the reflector of a DExtra link.
LEMMA DExtraAnswered ==
    ASSUME TypeOK, NEW p \in DOMAIN dextra, DExtra!FromReflector(p)
    PROVE  Answered(dextra) /\ (RelayTimed => RelayTimed')
<1>1. dextra \in [DOMAIN dextra -> Link(DExtraPollTime)]
  BY DExtraOperators DEF TypeOK, DExtra!TypeOK
<1>2. /\ IsRunning(DExtra!Started(DExtra!LinkLimit)) /\ DExtra!NoId = NoId
  BY StartedRuns DEF DExtra!Started, Started, DExtra!LinkLimit, LinkLimit, DExtra!LimitOf, LimitOf,
                     DExtra!NoId, NoId, DExtra!Stopped, Stopped
<1>3. UNCHANGED relayVars => (RelayTimed => RelayTimed')
  BY RelayTimes
<1>4. CASE DExtra!Ack(p)
  BY <1>1, <1>3, <1>4
     DEF DExtra!Ack, DExtra!In, Answered, Timed, Asking, relayVars, DExtra!relayVars
<1>5. CASE DExtra!Nak(p) \/ DExtra!Disconnect(p)
  BY <1>1, <1>3, <1>5
     DEF DExtra!Nak, DExtra!Disconnect, DExtra!Delete, Answered, relayVars, DExtra!relayVars
<1>6. CASE DExtra!Poll(p)
  BY <1>1, <1>3, <1>6 DEF DExtra!Poll, Answered, Timed, relayVars, DExtra!relayVars, DExtra!groupVars
<1>7. ASSUME NEW i \in LinkIds, DExtra!ReflectorHeader(p, i)
      PROVE  Answered(dextra) /\ (RelayTimed => RelayTimed')
  <2>1. Header(i)
    BY <1>7, DExtraOperators DEF DExtra!ReflectorHeader
  <2>2. Answered(dextra)
    BY <1>1, <1>2, <1>7 DEF DExtra!ReflectorHeader, Answered, Timed
  <2> QED
    BY <2>1, <2>2, RelayTimes
<1>8. ASSUME NEW i \in LinkIds, NEW first \in BOOLEAN, NEW end \in BOOLEAN,
             DExtra!ReflectorVoice(p, i, first, end)
      PROVE  Answered(dextra) /\ (RelayTimed => RelayTimed')
  <2>1. Voice(i, first, end)
    BY <1>8, DExtraOperators DEF DExtra!ReflectorVoice
  <2>2. Answered(dextra)
    BY <1>1, <1>2, <1>8 DEF DExtra!ReflectorVoice, Answered, Timed
  <2> QED
    BY <2>1, <2>2, RelayTimes
<1> QED
  BY <1>4, <1>5, <1>6, <1>7, <1>8 DEF DExtra!FromReflector

\* A packet from the reflector of a DCS link.
LEMMA DCSAnswered ==
    ASSUME TypeOK, NEW p \in DOMAIN dcs, DCS!FromReflector(p)
    PROVE  Answered(dcs) /\ (RelayTimed => RelayTimed')
<1>1. dcs \in [DOMAIN dcs -> Link(DCSPollTime)]
  BY DCSOperators DEF TypeOK, DCS!TypeOK
<1>2. /\ IsRunning(DCS!Started(DCS!LinkLimit)) /\ DCS!NoId = NoId
  BY StartedRuns DEF DCS!Started, Started, DCS!LinkLimit, LinkLimit, DCS!LimitOf, LimitOf,
                     DCS!NoId, NoId, DCS!Stopped, Stopped
<1>3. UNCHANGED relayVars => (RelayTimed => RelayTimed')
  BY RelayTimes
<1>4. CASE DCS!Ack(p)
  BY <1>1, <1>3, <1>4
     DEF DCS!Ack, DCS!In, Answered, Timed, Asking, relayVars, DCS!relayVars
<1>5. CASE DCS!Nak(p) \/ DCS!Disconnect(p)
  BY <1>1, <1>3, <1>5
     DEF DCS!Nak, DCS!Disconnect, DCS!Delete, Answered, relayVars, DCS!relayVars
<1>6. CASE DCS!Poll(p)
  BY <1>1, <1>3, <1>6 DEF DCS!Poll, Answered, Timed, relayVars, DCS!relayVars, DCS!groupVars
<1>7. ASSUME NEW i \in LinkIds, NEW first \in BOOLEAN, NEW end \in BOOLEAN,
             DCS!ReflectorVoice(p, i, first, end)
      PROVE  Answered(dcs) /\ (RelayTimed => RelayTimed')
  <2>1. Voice(i, first, end)
    BY <1>7, DCSOperators DEF DCS!ReflectorVoice
  <2>2. Answered(dcs)
    BY <1>1, <1>2, <1>7 DEF DCS!ReflectorVoice, Answered, Timed
  <2> QED
    BY <2>1, <2>2, RelayTimes
<1> QED
  BY <1>4, <1>5, <1>6, <1>7 DEF DCS!FromReflector

\* The clock keeps a running timer running, and what it ends it no longer has.
LEMMA ClockTimes ==
    ASSUME NEW t \in Nat, t # 0, NEW l \in Link(t), Timed(l), NEW d \in Nat
    PROVE  /\ Timed(Relinked(l, t, d)) /\ Relinked(l, t, d).refl = l.refl
           /\ Timed(Clocked(l, t, d)) /\ Clocked(l, t, d).refl = l.refl
           /\ Clocked(l, t, d).state = l.state
<1>1. /\ l.inact \in 0..LinkLimit /\ l.try \in Nat /\ l.tries \in 0..7
  BY TryLimits DEF Link
<1>2. Timed(Relinked(l, t, d)) /\ Relinked(l, t, d).refl = l.refl
  <2>1. /\ Relinked(l, t, d).try = Started(TryLimit(0)) /\ Relinked(l, t, d).stream = NoId
        /\ Relinked(l, t, d).refl = l.refl
    BY DEF Relinked, Restarted, Link
  <2> QED
    BY <2>1, StartedRuns DEF Timed
<1>3. /\ Clocked(l, t, d).state = l.state /\ Clocked(l, t, d).refl = l.refl
      /\ Clocked(l, t, d).stream = (IF StreamLost(l, d) THEN NoId ELSE l.stream)
      /\ Clocked(l, t, d).inact = (IF StreamLost(l, d) THEN Stopped ELSE Advance(l.inact, LinkLimit, d))
      /\ Clocked(l, t, d).try = (IF Retries(l, d) THEN Started(TryLimit(NextTries(l.tries)))
                                 ELSE Advance(l.try, TryLimit(l.tries), d))
  BY DEF Clocked, Link
<1>4. l.inact > 0 => Advance(l.inact, LinkLimit, d) > 0
  BY <1>1, Timers, LinkAssumption DEF LinkLimit
<1>5. l.try > 0 => Advance(l.try, TryLimit(l.tries), d) > 0
  BY <1>1, TryLimits DEF Advance
<1>6. Started(TryLimit(NextTries(l.tries))) > 0
  BY <1>1, TryLimits
<1>7. Timed(Clocked(l, t, d))
  <2>1. Clocked(l, t, d).state # "LINKED" => IsRunning(Clocked(l, t, d).try)
    BY <1>3, <1>5, <1>6 DEF Timed, IsRunning
  <2>2. Clocked(l, t, d).stream # NoId => IsRunning(Clocked(l, t, d).inact)
    BY <1>3, <1>4 DEF Timed, IsRunning
  <2> QED
    BY <2>1, <2>2 DEF Timed
<1> QED
  BY <1>2, <1>3, <1>7

\* The clock of all handlers of a protocol.
LEMMA HandlersTimed ==
    ASSUME NEW t \in Nat, t # 0, NEW links, links \in [DOMAIN links -> Link(t)],
           \A p \in DOMAIN links : Timed(links[p]), NEW d \in Nat
    PROVE  LET next == ClockLinks(links, t, d)
           IN  /\ DOMAIN next \subseteq DOMAIN links
               /\ \A p \in DOMAIN next : Timed(next[p]) /\ next[p].refl = links[p].refl
<1>1. ASSUME NEW p \in DOMAIN links
      PROVE  /\ Timed(Relinked(links[p], t, d)) /\ Relinked(links[p], t, d).refl = links[p].refl
             /\ Timed(Clocked(links[p], t, d)) /\ Clocked(links[p], t, d).refl = links[p].refl
  BY ClockTimes
<1> QED
  BY <1>1 DEF ClockLinks

\* Everything the wait invariant says beyond the first one.
WaitParts == LinksTimed /\ RelayTimed /\ DCSOnly

\* A packet from a reflector of either kind.
LEMMA PacketTimed ==
    ASSUME WaitInv, Packet
    PROVE  WaitParts'
<1>1. TypeOK
  BY DEF WaitInv, Inv
<1>2. CASE \E p \in DOMAIN dextra : DExtra!FromReflector(p) /\ UNCHANGED <<dcs, up>>
  <2>1. Answered(dextra) /\ (RelayTimed => RelayTimed')
    BY <1>1, <1>2, DExtraAnswered
  <2>2. UNCHANGED <<dcs, up>>
    BY <1>2
  <2>3. LinksTimed'
    BY <2>1, <2>2 DEF WaitInv, LinksTimed, Answered
  <2> QED
    BY <2>1, <2>2, <2>3 DEF WaitInv, WaitParts, DCSOnly
<1>3. CASE \E p \in DOMAIN dcs : DCS!FromReflector(p) /\ UNCHANGED <<dextra, up>>
  <2>1. Answered(dcs) /\ (RelayTimed => RelayTimed')
    BY <1>1, <1>3, DCSAnswered
  <2>2. UNCHANGED <<dextra, up>>
    BY <1>3
  <2>3. LinksTimed'
    BY <2>1, <2>2 DEF WaitInv, LinksTimed, Answered
  <2>4. DCSOnly'
    BY <2>1, <2>2 DEF WaitInv, DCSOnly, Answered
  <2> QED
    BY <2>1, <2>3, <2>4 DEF WaitInv, WaitParts
<1> QED
  BY <1>2, <1>3 DEF Packet

\* The talks of the subscribers, whose streams are not those of reflectors.
LEMMA TalkTimed ==
    ASSUME WaitInv, Talk
    PROVE  WaitParts'
<1>1. UNCHANGED <<dextra, dcs, up>>
  BY DEF Talk, TalkCut, G2Talk, linkVars
<1>2. relayed' \notin LinkIds
  BY LinkAssumption DEF Talk, TalkCut, G2Talk
<1> QED
  BY <1>1, <1>2 DEF WaitInv, WaitParts, LinksTimed, RelayTimed, DCSOnly

\* One turn of the main loop.
LEMMA TickTimed ==
    ASSUME WaitInv, Tick
    PROVE  WaitParts'
<1>1. PICK d \in 1..MaxStep : Clock(d)
  BY DEF Tick
<1>2. /\ d \in Nat
      /\ DExtraPollTime \in Nat /\ DExtraPollTime # 0 /\ DCSPollTime \in Nat /\ DCSPollTime # 0
  BY LinkingAssumption
<1>3. /\ dextra \in [DOMAIN dextra -> Link(DExtraPollTime)]
      /\ dcs \in [DOMAIN dcs -> Link(DCSPollTime)]
      /\ linkTimer \in 0..LinkLimit
      /\ up' = up /\ up
  BY <1>1, DExtraOperators, DCSOperators
     DEF WaitInv, Inv, TypeOK, GroupTypeOK, DExtra!TypeOK, DCS!TypeOK, Clock, Tick
<1>4. dextra' = ClockLinks(dextra, DExtraPollTime, d) /\ dcs' = ClockLinks(dcs, DCSPollTime, d)
  BY <1>1, DExtraOperators, DCSOperators DEF Clock, DExtra!Clock, DCS!Clock
<1>5. \A p \in DOMAIN dextra' : Timed(dextra'[p])
  BY <1>2, <1>3, <1>4, HandlersTimed DEF WaitInv, LinksTimed
<1>6. /\ \A p \in DOMAIN dcs' : Timed(dcs'[p])
      /\ DOMAIN dcs' \subseteq DOMAIN dcs
      /\ \A p \in DOMAIN dcs' : dcs'[p].refl = dcs[p].refl
  BY <1>2, <1>3, <1>4, HandlersTimed DEF WaitInv, LinksTimed
<1>7. RelayTimed'
  <2>1. linkTimer > 0 => Advance(linkTimer, LinkLimit, d) > 0
    BY <1>2, <1>3, Timers, LinkAssumption DEF LinkLimit
  <2>2. NoId \notin LinkIds
    BY LinkAssumption
  <2> QED
    BY <1>1, <2>1, <2>2 DEF Clock, EndRelay, RelayTimed, WaitInv, IsRunning
<1> QED
  BY <1>3, <1>5, <1>6, <1>7 DEF WaitInv, WaitParts, LinksTimed, DCSOnly

\* The handler of a new link asks at once, and asks a reflector of its protocol.
LEMMA NewLinkTimed ==
    ASSUME WaitInv, NEW r \in Reflectors, linkInt(r), UNCHANGED relayVars, up' = TRUE
    PROVE  WaitParts'
<1>1. \A t : Timed(NewLink(r, t)) /\ NewLink(r, t).refl = r
  BY StartedRuns DEF NewLink, Timed
<1>2. RelayTimed'
  BY RelayTimes DEF WaitInv
<1>3. /\ \/ dextra' = dextra
         \/ \E p \in FreePorts : dextra' = [q \in DOMAIN dextra \cup {p} |->
                IF q = p THEN NewLink(r, DExtraPollTime) ELSE dextra[q]]
      /\ \/ dcs' = dcs
         \/ /\ r \notin XRFs
            /\ \E p \in FreePorts : dcs' = [q \in DOMAIN dcs \cup {p} |->
                    IF q = p THEN NewLink(r, DCSPollTime) ELSE dcs[q]]
  BY DExtraOperators, DCSOperators DEF linkInt, DExtra!link, DCS!link, linkVars
<1>4. \A p \in DOMAIN dextra' :
         dextra'[p] = NewLink(r, DExtraPollTime) \/ (p \in DOMAIN dextra /\ dextra'[p] = dextra[p])
  BY <1>3
<1>5. \A p \in DOMAIN dextra' : Timed(dextra'[p])
  BY <1>1, <1>4 DEF WaitInv, LinksTimed
<1>6. \A p \in DOMAIN dcs' : \/ r \in DCSs /\ dcs'[p] = NewLink(r, DCSPollTime)
                             \/ (p \in DOMAIN dcs /\ dcs'[p] = dcs[p])
  BY <1>3 DEF Reflectors
<1>7. \A p \in DOMAIN dcs' : Timed(dcs'[p]) /\ dcs'[p].refl \in DCSs
  BY <1>1, <1>6 DEF WaitInv, LinksTimed, DCSOnly
<1> QED
  BY <1>2, <1>5, <1>7 DEF WaitParts, LinksTimed, DCSOnly

\* The links of the configuration.
LEMMA StartUpTimed ==
    ASSUME WaitInv, StartUp
    PROVE  WaitParts'
<1>1. up' = TRUE /\ UNCHANGED <<setVars, relayVars>>
  BY DEF StartUp
<1>2. CASE linkType = "LT_NONE"
  <2>1. UNCHANGED <<dextra, dcs, relayed, linkTimer>>
    BY <1>1, <1>2 DEF StartUp, linkVars, relayVars
  <2> QED
    BY <1>1, <2>1 DEF WaitInv, WaitParts, LinksTimed, RelayTimed, DCSOnly
<1>3. CASE linkType # "LT_NONE"
  <2>1. linkReflector \in Reflectors
    BY <1>3 DEF WaitInv, Inv, DExtraFollows, TypeOf, Reflectors
  <2> QED
    BY <1>1, <1>3, <2>1, NewLinkTimed DEF StartUp
<1> QED
  BY <1>2, <1>3

\* The remote control: an unlinked DCS handler asks to be let go at once.
LEMMA RemoteTimed ==
    ASSUME WaitInv, Remote
    PROVE  WaitParts'
<1>1. CASE \E r \in Reflectors : remoteLink(r)
  BY <1>1, NewLinkTimed DEF remoteLink, Remote
<1>2. CASE remoteUnlink
  <2>1. up' = TRUE
    BY <1>2 DEF Remote, remoteUnlink, WaitInv, Inv, TypeOK
  <2>2. RelayTimed'
    BY <1>2, RelayTimes, DExtraOperators, DCSOperators
       DEF WaitInv, remoteUnlink, DExtra!unlink, DCS!unlink
  <2>3. \A p \in DOMAIN dextra' : Timed(dextra'[p])
    BY <1>2 DEF WaitInv, LinksTimed, remoteUnlink, DExtra!unlink, DExtra!Delete
  <2>4. \A p \in DOMAIN dcs' : Timed(dcs'[p]) /\ dcs'[p].refl \in DCSs
    <3>1. CASE UNCHANGED dcs
      BY <3>1 DEF WaitInv, LinksTimed, DCSOnly
    <3>2. CASE DCS!unlink(linkReflector)
      <4>1. dcs \in [DOMAIN dcs -> Link(DCSPollTime)]
        BY DCSOperators DEF WaitInv, Inv, TypeOK, DCS!TypeOK
      <4>2. \A p \in DOMAIN dcs : /\ Timed(Restarted(dcs[p], "UNLINKING"))
                                  /\ Restarted(dcs[p], "UNLINKING").refl = dcs[p].refl
        BY <4>1, StartedRuns DEF WaitInv, LinksTimed, Timed, Restarted, Link
      <4>3. /\ DOMAIN dcs' = DOMAIN dcs
            /\ \A p \in DOMAIN dcs : dcs'[p] = dcs[p] \/ dcs'[p] = Restarted(dcs[p], "UNLINKING")
        BY <3>2, DCSOperators DEF DCS!unlink
      <4> QED
        BY <4>2, <4>3 DEF WaitInv, LinksTimed, DCSOnly
    <3> QED
      BY <1>2, <3>1, <3>2 DEF remoteUnlink
  <2> QED
    BY <2>1, <2>2, <2>3, <2>4 DEF WaitParts, LinksTimed, DCSOnly
<1> QED
  BY <1>1, <1>2 DEF Remote

\* The invariant holds initially and after every step.
LEMMA WaitInductive ==
    /\ Init => WaitInv
    /\ WaitInv /\ [Next]_vars => WaitInv'
<1>1. Init => WaitInv
  <2> SUFFICES ASSUME Init PROVE WaitInv
    OBVIOUS
  <2>1. DOMAIN dextra = {} /\ DOMAIN dcs = {} /\ relayed \notin LinkIds
    BY LinkAssumption DEF Init, NoLinks
  <2> QED
    BY <2>1, InvInductive DEF WaitInv, LinksTimed, RelayTimed, DCSOnly
<1>2. WaitInv /\ Next => WaitParts'
  BY StartUpTimed, RemoteTimed, PacketTimed, TalkTimed, TickTimed DEF Next
<1>3. WaitInv /\ UNCHANGED vars => WaitParts'
  BY DEF WaitInv, WaitParts, LinksTimed, RelayTimed, DCSOnly, vars, groupVars, relayVars, linkVars
<1>4. WaitInv /\ [Next]_vars => Inv'
  BY InvInductive DEF WaitInv
<1> QED
  BY <1>1, <1>2, <1>3, <1>4 DEF WaitInv, WaitParts

\* Whatever requests, answers and frames are lost, no link waits for an answer
\* without the try timer that asks again, no stream stays on a link without the
\* inactivity timer that ends it, and none from a reflector stays relayed without
\* the network timer of the group.
THEOREM EverythingTimed == Spec => []WaitsTimed
<1>1. WaitInv => WaitsTimed
  <2> SUFFICES ASSUME WaitInv PROVE WaitsTimed
    OBVIOUS
  <2>1. DOMAIN Links = DOMAIN dextra \cup DOMAIN dcs /\ \A p \in DOMAIN Links : Timed(Links[p])
    BY DEF Links, WaitInv, LinksTimed
  <2>2. RequestsRepeated
    BY <2>1 DEF RequestsRepeated, InState, Timed
  <2>3. StreamsTimed
    BY <2>1 DEF StreamsTimed, Timed, WaitInv, RelayTimed
  <2> QED
    BY <2>2, <2>3 DEF WaitsTimed
<1> QED
  BY WaitInductive, <1>1, PTL DEF Spec
-----------------------------------------------------------------------------
(***************************************************************************)
(* Links the group is not set to.                                          *)
(***************************************************************************)
\* The links among some handlers that lead elsewhere than to reflector r.
Elsewhere(links, r) == {p \in DOMAIN links : links[p].state \in Asking /\ links[p].refl # r}

\* The strays are those of the DCS handlers.
LEMMA StraysAreDCS ==
    /\ Inv => Strays = Elsewhere(dcs, linkReflector)
    /\ Inv' => Strays' = Elsewhere(dcs', linkReflector')
<1>1. Inv => Strays = Elsewhere(dcs, linkReflector)
  <2> SUFFICES ASSUME Inv PROVE Strays = Elsewhere(dcs, linkReflector)
    OBVIOUS
  <2>1. /\ DOMAIN dextra \cap DOMAIN dcs = {}
        /\ \A p \in DOMAIN dextra : dextra[p].refl = linkReflector
    BY DEF Inv, TypeOK, DExtraFollows
  <2> QED
    BY <2>1 DEF Strays, InState, Links, Elsewhere, Asking
<1>2. Inv' => Strays' = Elsewhere(dcs', linkReflector')
  <2> SUFFICES ASSUME Inv' PROVE Strays' = Elsewhere(dcs', linkReflector')
    OBVIOUS
  <2>1. /\ DOMAIN dextra' \cap DOMAIN dcs' = {}
        /\ \A p \in DOMAIN dextra' : dextra'[p].refl = linkReflector'
    BY DEF Inv, TypeOK, DExtraFollows
  <2> QED
    BY <2>1 DEF Strays, InState, Links, Elsewhere, Asking
<1> QED
  BY <1>1, <1>2

\* A new link is one to the reflector that the group is set to, and the one it
\* was set to before is none or the same.
LEMMA NewLinkStrays ==
    ASSUME NEW r \in Reflectors, linkInt(r), linkReflector' = r,
           \/ linkReflector = r
           \/ \A p \in DOMAIN dcs : dcs[p].refl # linkReflector
    PROVE  Elsewhere(dcs', linkReflector') \subseteq Elsewhere(dcs, linkReflector)
<1>1. dcs' = dcs \/ \E p \in FreePorts : dcs' = [q \in DOMAIN dcs \cup {p} |->
                IF q = p THEN NewLink(r, DCSPollTime) ELSE dcs[q]]
  BY DCSOperators DEF linkInt, DCS!link, linkVars
<1>2. NewLink(r, DCSPollTime).refl = r
  BY DEF NewLink
<1> QED
  BY <1>1, <1>2 DEF Elsewhere

\* An unlinked group keeps no link, or only such as are being unlinked, to the
\* reflector it was set to.
LEMMA UnlinkStrays ==
    ASSUME WaitInv, remoteUnlink
    PROVE  Elsewhere(dcs', linkReflector') \subseteq Elsewhere(dcs, linkReflector)
<1>1. dcs \in [DOMAIN dcs -> Link(DCSPollTime)] /\ \A p \in DOMAIN dcs : dcs[p].refl \in DCSs
  BY DCSOperators DEF WaitInv, Inv, TypeOK, DCS!TypeOK, DCSOnly
<1>2. CASE linkType = "LT_DEXTRA" /\ UNCHANGED dcs
  <2>1. linkReflector \in XRFs
    BY <1>2 DEF WaitInv, Inv, DExtraFollows, TypeOf
  <2>2. \A p \in DOMAIN dcs : dcs[p].refl # linkReflector
    BY <1>1, <2>1, LinkAssumption
  <2> QED
    BY <1>2, <2>2 DEF Elsewhere
<1>3. CASE DCS!unlink(linkReflector)
  <2>1. /\ DOMAIN dcs' = DOMAIN dcs
        /\ \A p \in DOMAIN dcs :
              dcs'[p] = IF dcs[p].refl = linkReflector /\ dcs[p].state # "UNLINKING"
                        THEN Restarted(dcs[p], "UNLINKING") ELSE dcs[p]
    BY <1>3, DCSOperators DEF DCS!unlink
  <2>2. \A p \in DOMAIN dcs : Restarted(dcs[p], "UNLINKING").state = "UNLINKING"
    BY <1>1 DEF Restarted, Link
  <2>3. ASSUME NEW p \in DOMAIN dcs, dcs'[p].state \in Asking
        PROVE  dcs[p].refl # linkReflector /\ dcs'[p] = dcs[p]
    BY <2>1, <2>2, <2>3 DEF Asking
  <2> QED
    BY <2>1, <2>3 DEF Elsewhere
<1> QED
  BY <1>2, <1>3 DEF remoteUnlink

\* The clock asks again only for links that were asked for or are unlinked.
LEMMA ClockStrays ==
    ASSUME WaitInv, Tick
    PROVE  Elsewhere(dcs', linkReflector') \subseteq Elsewhere(dcs, linkReflector) \cup DCS!In("UNLINKING")
<1>1. PICK d \in 1..MaxStep : Clock(d)
  BY DEF Tick
<1>2. dcs' = ClockLinks(dcs, DCSPollTime, d) /\ linkReflector' = linkReflector
  BY <1>1, DCSOperators DEF Clock, DCS!Clock, setVars
<1>3. d \in Nat /\ DCSPollTime \in Nat /\ DCSPollTime # 0
  BY LinkingAssumption
<1>4. dcs \in [DOMAIN dcs -> Link(DCSPollTime)]
  BY DCSOperators DEF WaitInv, Inv, TypeOK, DCS!TypeOK
<1>5. /\ DOMAIN dcs' \subseteq DOMAIN dcs
      /\ \A p \in DOMAIN dcs' : dcs'[p].refl = dcs[p].refl
  BY <1>2, <1>3, <1>4, HandlerClock
<1>6. \A p \in DOMAIN dcs : dcs[p].state \in Asking \cup {"UNLINKING"}
  BY <1>4 DEF Link, Asking
<1> QED
  BY <1>2, <1>5, <1>6 DEF Elsewhere, DCS!In

\* Only the poll inactivity timer of a DCS handler that was unlinked and never let
\* go by its reflector makes a link the group is not set to; no request of the
\* remote control, no answer and no timer of another link does.
THEOREM OnlyTimeoutStrays == Spec => StraysOnlyByTimeout
<1>1. ASSUME WaitInv, WaitInv', [Next]_vars
      PROVE  \/ Strays' \subseteq Strays
             \/ Tick /\ Strays' \subseteq Strays \cup DCS!In("UNLINKING")
  <2>0. Strays = Elsewhere(dcs, linkReflector) /\ Strays' = Elsewhere(dcs', linkReflector')
    BY <1>1, StraysAreDCS DEF WaitInv
  <2>1. CASE StartUp
    <3>1. linkReflector' = linkReflector
      BY <2>1 DEF StartUp, setVars
    <3>2. CASE linkType = "LT_NONE"
      BY <2>0, <2>1, <3>1, <3>2 DEF StartUp, linkVars, Elsewhere
    <3>3. CASE linkType # "LT_NONE"
      <4>1. linkReflector \in Reflectors /\ linkInt(linkReflector)
        BY <1>1, <2>1, <3>3 DEF StartUp, WaitInv, Inv, DExtraFollows, TypeOf, Reflectors
      <4> QED
        BY <2>0, <3>1, <4>1, NewLinkStrays
    <3> QED
      BY <3>2, <3>3
  <2>2. CASE \E r \in Reflectors : remoteLink(r)
    <3>1. PICK r \in Reflectors : remoteLink(r)
      BY <2>2
    <3>2. linkReflector \notin Reflectors
      BY <1>1, <3>1 DEF remoteLink, WaitInv, Inv, DExtraFollows, TypeOf, Reflectors
    <3>3. \A p \in DOMAIN dcs : dcs[p].refl # linkReflector
      BY <1>1, <3>2 DEF WaitInv, DCSOnly, Reflectors
    <3> QED
      BY <2>0, <3>1, <3>3, NewLinkStrays DEF remoteLink
  <2>3. CASE remoteUnlink
    BY <1>1, <2>0, <2>3, UnlinkStrays
  <2>4. CASE Packet
    <3>1. linkReflector' = linkReflector
      BY <2>4, <1>1, DExtraPacket, DCSPacket DEF Packet, KeepsSetting, setVars, WaitInv, Inv
    <3>2. dcs' = dcs \/ Answered(dcs)
      BY <2>4, <1>1, DCSAnswered DEF Packet, WaitInv, Inv
    <3> QED
      BY <2>0, <3>1, <3>2 DEF Elsewhere, Answered
  <2>5. CASE Talk
    BY <2>0, <2>5 DEF Talk, TalkCut, G2Talk, linkVars, setVars, Elsewhere
  <2>6. CASE Tick
    BY <1>1, <2>0, <2>6, ClockStrays
  <2>7. CASE UNCHANGED vars
    BY <2>0, <2>7 DEF vars, groupVars, setVars, linkVars, Elsewhere
  <2> QED
    BY <1>1, <2>1, <2>2, <2>3, <2>4, <2>5, <2>6, <2>7 DEF Next, Remote
<1> QED
  BY WaitInductive, <1>1, PTL DEF Spec, StraysOnlyByTimeout

-----------------------------------------------------------------------------
(***************************************************************************)
(* One of several groups that have DExtra links only, as SharedXRF has     *)
(* them.  SharedXRFProofs takes what follows for each group; ids are the   *)
(* streams of each reflector.                                              *)
(***************************************************************************)
NoDCS == DCSs = {} /\ DOMAIN dcs = {} /\ dcs' = dcs

StatusOK == linkStatus \in {Linked("LT_DEXTRA"), Linked("LT_DCS")} <=> DExtra!In("LINKED") # {}

\* A link carries a stream of its own reflector.
StreamsOwn(ids) == \A p \in DOMAIN dextra : dextra[p].stream \in ids[dextra[p].refl] \cup {NoId}

\* The network timer of the group runs out no later than the inactivity timer of
\* the link whose stream is relayed.
TimersOK ==
    \A p \in DOMAIN dextra :
        dextra[p].stream = relayed /\ relayed # NoId =>
            dextra[p].inact > 0 /\ dextra[p].inact <= linkTimer

LinkInv(ids) == Inv /\ StatusOK /\ StreamsOwn(ids) /\ TimersOK /\ RelayTimed

\* A step after which neither the relayed talk nor the group waits for a link it
\* did not wait for before.
Faithful(ids) == LinkInv(ids)' /\ (Orphaned' => Orphaned) /\ (Stuck' => Stuck)

\* A relayed talk that no DExtra link carries.
Uncarried ==
    relayed \in LinkIds /\ \A p \in DOMAIN dextra : dextra[p].state = "LINKED" => dextra[p].stream # relayed

\* Without DCS links the properties are about the DExtra links.
LEMMA WithoutDCS ==
    ASSUME NoDCS
    PROVE  /\ Orphaned <=> Uncarried
           /\ Orphaned' <=> Uncarried'
           /\ StatusAgrees <=> StatusOK
<1>1. DOMAIN dcs = {} /\ DOMAIN dcs' = {}
  BY DEF NoDCS
<1>2. /\ DOMAIN Links = DOMAIN dextra /\ \A p \in DOMAIN dextra : Links[p] = dextra[p]
      /\ DOMAIN Links' = DOMAIN dextra' /\ \A p \in DOMAIN dextra' : Links'[p] = dextra'[p]
  BY <1>1 DEF Links
<1>3. InState("LINKED") = DExtra!In("LINKED")
  BY <1>2 DEF InState, DExtra!In
<1>4. /\ Orphaned <=> Uncarried
      /\ Orphaned' <=> Uncarried'
  BY <1>2 DEF Orphaned, Uncarried, InState
<1> QED
  BY <1>3, <1>4 DEF StatusAgrees, StatusOK

\* A talk that is not orphaned comes from the reflector the group is set to.
LEMMA HearsOwn ==
    ASSUME NoDCS, NEW ids, LinkInv(ids), ~Orphaned
    PROVE  RelaysOnly(ids)
<1> SUFFICES ASSUME relayed \in LinkIds
             PROVE  linkReflector \in XRFs /\ relayed \in ids[linkReflector]
  BY DEF RelaysOnly
<1>1. PICK p \in DOMAIN dextra : dextra[p].stream = relayed
  BY WithoutDCS DEF Uncarried
<1>2. relayed # NoId
  BY LinkAssumption
<1> QED
  BY <1>1, <1>2 DEF LinkInv, Inv, DExtraFollows, StreamsOwn

\* A packet for others, and every other step that leaves the group alone.
LEMMA OthersOnly ==
    ASSUME NoDCS, NEW ids, LinkInv(ids), UNCHANGED <<groupVars, dextra>>, up' = up \/ up' = TRUE
    PROVE  Faithful(ids)
<1>1. UNCHANGED <<linkType, linkReflector, linkStatus, relayed, linkTimer, dextra, dcs>>
  BY DEF groupVars, setVars, relayVars, NoDCS
<1>2. Inv'
  BY <1>1, DExtraOperators, DCSOperators
     DEF LinkInv, Inv, TypeOK, GroupTypeOK, DExtra!TypeOK, DCS!TypeOK, DExtraFollows
<1>3. StatusOK' /\ StreamsOwn(ids)' /\ TimersOK' /\ RelayTimed'
  BY <1>1 DEF LinkInv, StatusOK, StreamsOwn, TimersOK, RelayTimed, DExtra!In
<1>4. (Orphaned' => Orphaned) /\ (Stuck' => Stuck)
  BY <1>1, WithoutDCS DEF Uncarried, Stuck
<1> QED
  BY <1>2, <1>3, <1>4 DEF Faithful, LinkInv

\* What the group has of its link before any step.
LEMMA TheLink ==
    ASSUME NoDCS, NEW ids, LinkInv(ids)
    PROVE  /\ dextra \in [DOMAIN dextra -> Link(DExtraPollTime)] /\ DOMAIN dextra \subseteq Ports
           /\ linkType = TypeOf(linkReflector) /\ linkType # "LT_DCS"
           /\ \A p \in DOMAIN dextra :
                 /\ up /\ dextra[p].refl = linkReflector /\ DOMAIN dextra = {p}
                 /\ linkReflector \in XRFs /\ linkType = "LT_DEXTRA"
           /\ linkTimer \in 0..LinkLimit
           /\ linkStatus \in ActiveStatus \cup {"LS_NONE"}
  BY DExtraOperators
     DEF LinkInv, Inv, TypeOK, GroupTypeOK, DExtra!TypeOK, DExtraFollows, TypeOf, NoDCS

\* The answers and the polls of the link's reflector.
LEMMA AnswerFaithful ==
    ASSUME NoDCS, NEW ids, LinkInv(ids), up' = up, NEW p \in DOMAIN dextra,
           DExtra!Ack(p) \/ DExtra!Nak(p) \/ DExtra!Poll(p)
    PROVE  Faithful(ids)
<1>1. Inv'
  <2>1. TypeOK /\ DExtra!FromReflector(p)
    BY DEF LinkInv, Inv, DExtra!FromReflector
  <2>2. KeepsSetting /\ Shrinks(dextra, DExtraPollTime)
    BY <2>1, DExtraPacket
  <2>3. Shrinks(dcs, DCSPollTime)
    BY DCSOperators DEF NoDCS, Shrinks, LinkInv, Inv, TypeOK, DCS!TypeOK
  <2> QED
    BY <2>2, <2>3, InvKept DEF LinkInv
<1>2. /\ dextra \in [DOMAIN dextra -> Link(DExtraPollTime)]
      /\ DOMAIN dextra = {p} /\ linkType = "LT_DEXTRA"
      /\ linkStatus \in ActiveStatus \cup {"LS_NONE"}
  BY TheLink
<1>3. UNCHANGED <<relayed, linkTimer>>
  BY DEF DExtra!Ack, DExtra!Nak, DExtra!Poll, DExtra!groupVars, DExtra!relayVars
<1>4. \A q \in DOMAIN dextra' :
         /\ q \in DOMAIN dextra /\ dextra'[q].refl = dextra[q].refl
         /\ dextra'[q].stream = dextra[q].stream /\ dextra'[q].inact = dextra[q].inact
  BY <1>2 DEF DExtra!Ack, DExtra!Nak, DExtra!Poll, DExtra!Delete, Link
<1>5. StreamsOwn(ids)' /\ TimersOK' /\ RelayTimed'
  BY <1>3, <1>4 DEF LinkInv, StreamsOwn, TimersOK, RelayTimed
<1>6. CASE DExtra!Ack(p)
  <2>1. /\ dextra[p].state = "LINKING" /\ DOMAIN dextra' = {p} /\ dextra'[p].state = "LINKED"
        /\ linkStatus' = Linked("LT_DEXTRA")
    BY <1>2, <1>6, DExtraOperators DEF DExtra!Ack, DExtra!In, linkUp
  <2>2. StatusOK'
    BY <2>1 DEF StatusOK, DExtra!In
  <2>3. Uncarried' => Uncarried
    BY <1>2, <1>3, <1>4, <2>1 DEF Uncarried
  <2>4. ~Stuck'
    BY <2>1 DEF Stuck, NoLinks
  <2> QED
    BY <1>1, <1>5, <2>2, <2>3, <2>4, WithoutDCS DEF Faithful, LinkInv
<1>7. CASE DExtra!Nak(p)
  <2>1. dextra[p].state = "LINKING" /\ DOMAIN dextra' = {} /\ linkStatus' = "LS_NONE"
    BY <1>2, <1>7, DExtraOperators DEF DExtra!Nak, DExtra!In, DExtra!Delete, linkRefused
  <2>2. StatusOK'
    BY <2>1 DEF StatusOK, DExtra!In, Linked
  <2>3. Uncarried' => Uncarried
    BY <1>2, <1>3, <2>1 DEF Uncarried
  <2>4. ~Stuck'
    BY <2>1 DEF Stuck, Linking
  <2> QED
    BY <1>1, <1>5, <2>2, <2>3, <2>4, WithoutDCS DEF Faithful, LinkInv
<1>8. CASE DExtra!Poll(p)
  <2>1. /\ DOMAIN dextra' = {p} /\ dextra'[p].state = dextra[p].state
        /\ linkStatus' = linkStatus
    BY <1>2, <1>8 DEF DExtra!Poll, DExtra!groupVars
  <2>2. StatusOK'
    BY <1>2, <2>1 DEF LinkInv, StatusOK, DExtra!In
  <2>3. Uncarried' => Uncarried
    BY <1>2, <1>3, <1>4, <2>1 DEF Uncarried
  <2>4. ~Stuck'
    BY <2>1 DEF Stuck, NoLinks
  <2> QED
    BY <1>1, <1>5, <2>2, <2>3, <2>4, WithoutDCS DEF Faithful, LinkInv
<1> QED
  BY <1>6, <1>7, <1>8

\* What a header and a frame do to the link they come over.
LEMMA LinkSpoken ==
    ASSUME NEW p \in DOMAIN dextra, dextra \in [DOMAIN dextra -> Link(DExtraPollTime)], NEW i \in LinkIds,
           NEW first \in BOOLEAN, NEW end \in BOOLEAN, DExtra!ReflectorVoice(p, i, first, end)
    PROVE  /\ dextra[p].state = "LINKED" /\ dextra[p].stream = i
           /\ DOMAIN dextra' = DOMAIN dextra
           /\ dextra'[p].state = "LINKED" /\ dextra'[p].refl = dextra[p].refl
           /\ dextra'[p].stream = IF end THEN NoId ELSE i
           /\ ~end => dextra'[p].inact = 1
           /\ Voice(i, first, end) /\ UNCHANGED linkStatus
<1>1. DExtra!Started(DExtra!LinkLimit) = 1 /\ DExtra!NoId = NoId
  BY LinkLimits DEF DExtra!Started, Started, DExtra!LinkLimit, LinkLimit, DExtra!LimitOf, LimitOf,
              DExtra!Stopped, Stopped, DExtra!NoId, NoId
<1>2. Voice(i, first, end)
  BY DExtraOperators DEF DExtra!ReflectorVoice
<1>3. dextra[p] \in Link(DExtraPollTime)
  OBVIOUS
<1>4. /\ dextra[p].state = "LINKED" /\ dextra[p].stream = i
      /\ DOMAIN dextra' = DOMAIN dextra /\ UNCHANGED linkStatus
  BY DEF DExtra!ReflectorVoice, DExtra!In
<1>5. dextra'[p].state = "LINKED" /\ dextra'[p].refl = dextra[p].refl
  BY <1>3, <1>4 DEF DExtra!ReflectorVoice, Link
<1>6. dextra'[p].stream = IF end THEN NoId ELSE i
  BY <1>1, <1>3, <1>4 DEF DExtra!ReflectorVoice, Link
<1>7. ~end => dextra'[p].inact = 1
  BY <1>1, <1>3 DEF DExtra!ReflectorVoice, Link
<1> QED
  BY <1>2, <1>4, <1>5, <1>6, <1>7

\* The talk that comes over the link.
LEMMA TalkFaithful ==
    ASSUME NoDCS, NEW ids, LinkInv(ids), up' = up, NEW p \in DOMAIN dextra, NEW i \in LinkIds,
           \/ i \in ids[dextra[p].refl] /\ DExtra!ReflectorHeader(p, i)
           \/ \E first, end \in BOOLEAN : DExtra!ReflectorVoice(p, i, first, end)
    PROVE  Faithful(ids)
<1>1. Inv'
  <2>1. TypeOK /\ DExtra!FromReflector(p)
    BY DEF LinkInv, Inv, DExtra!FromReflector
  <2>2. KeepsSetting /\ Shrinks(dextra, DExtraPollTime)
    BY <2>1, DExtraPacket
  <2>3. Shrinks(dcs, DCSPollTime)
    BY DCSOperators DEF NoDCS, Shrinks, LinkInv, Inv, TypeOK, DCS!TypeOK
  <2> QED
    BY <2>2, <2>3, InvKept DEF LinkInv
<1>2. /\ dextra \in [DOMAIN dextra -> Link(DExtraPollTime)]
      /\ DOMAIN dextra = {p}
      /\ linkTimer \in 0..LinkLimit
  BY TheLink
<1>3. i # NoId /\ Started(LinkLimit) = 1
  BY LinkAssumption, LinkLimits
<1>8. DExtra!Started(DExtra!LinkLimit) = 1 /\ DExtra!NoId = NoId
  BY <1>3 DEF DExtra!Started, Started, DExtra!LinkLimit, LinkLimit, DExtra!LimitOf, LimitOf,
              DExtra!Stopped, Stopped, DExtra!NoId, NoId
<1>4. /\ dextra[p].state = "LINKED" /\ DOMAIN dextra' = {p} /\ dextra'[p].state = "LINKED"
      /\ dextra'[p].refl = dextra[p].refl
      /\ linkStatus' = linkStatus
  <2>1. CASE DExtra!ReflectorHeader(p, i)
    BY <1>2, <2>1 DEF DExtra!ReflectorHeader, DExtra!In, Link
  <2>2. CASE \E first, end \in BOOLEAN : DExtra!ReflectorVoice(p, i, first, end)
    BY <1>2, <2>2, LinkSpoken
  <2> QED
    BY <2>1, <2>2
<1>5. StatusOK' /\ ~Stuck'
  BY <1>2, <1>4 DEF LinkInv, StatusOK, DExtra!In, Stuck, NoLinks
<1>6. CASE i \in ids[dextra[p].refl] /\ DExtra!ReflectorHeader(p, i)
  <2>1. dextra[p].stream = NoId /\ dextra'[p].stream = i /\ dextra'[p].inact = 1
    BY <1>2, <1>6, <1>8 DEF DExtra!ReflectorHeader, Link
  <2>2. IF relayed = NoId THEN relayed' = i /\ linkTimer' = 1 ELSE relayed' = relayed /\ linkTimer' = linkTimer
    BY <1>3, <1>6, DExtraOperators DEF DExtra!ReflectorHeader, Header, relayVars
  <2>3. StreamsOwn(ids)'
    BY <1>4, <1>6, <2>1 DEF StreamsOwn
  <2>4. RelayTimed'
    BY <2>2 DEF LinkInv, RelayTimed, IsRunning
  <2>5. TimersOK'
    BY <1>2, <1>4, <2>1, <2>2 DEF LinkInv, RelayTimed, IsRunning, TimersOK
  <2>6. Uncarried' => Uncarried
    BY <1>2, <1>4, <2>1, <2>2 DEF Uncarried
  <2> QED
    BY <1>1, <1>5, <2>3, <2>4, <2>5, <2>6, WithoutDCS DEF Faithful, LinkInv
<1>7. ASSUME NEW first \in BOOLEAN, NEW end \in BOOLEAN, DExtra!ReflectorVoice(p, i, first, end)
      PROVE  Faithful(ids)
  <2>1. /\ dextra[p].stream = i
        /\ IF end THEN dextra'[p].stream = NoId ELSE dextra'[p].stream = i /\ dextra'[p].inact = 1
    BY <1>2, <1>7, LinkSpoken
  <2>2. \/ end /\ relayed' = NoId
        \/ ~end /\ relayed' = i /\ linkTimer' = 1
        \/ relayed # i /\ relayed' = relayed /\ linkTimer' = linkTimer
    <3>1. Voice(i, first, end)
      BY <1>2, <1>7, LinkSpoken
    <3> QED
      BY <1>3, <3>1 DEF Voice, EndRelay, relayVars
  <2>3. StreamsOwn(ids)'
    BY <1>4, <2>1 DEF StreamsOwn, LinkInv
  <2>4. RelayTimed'
    BY <2>2, LinkAssumption DEF LinkInv, RelayTimed, IsRunning
  <2>5. TimersOK'
    BY <1>3, <1>4, <2>1, <2>2 DEF TimersOK
  <2>6. Uncarried' => Uncarried
    BY <1>2, <1>3, <1>4, <2>1, <2>2, LinkAssumption DEF Uncarried
  <2> QED
    BY <1>1, <1>5, <2>3, <2>4, <2>5, <2>6, WithoutDCS DEF Faithful, LinkInv
<1> QED
  BY <1>6, <1>7

\* The reflector disconnects: the talk it sent may be left behind, and the group
\* is told only if the link was acknowledged.
LEMMA DisconnectKeeps ==
    ASSUME NoDCS, NEW ids, LinkInv(ids), up' = up, NEW p \in DOMAIN dextra, DExtra!Disconnect(p)
    PROVE  LinkInv(ids)'
<1>1. Inv'
  <2>1. TypeOK /\ DExtra!FromReflector(p)
    BY DEF LinkInv, Inv, DExtra!FromReflector
  <2>2. KeepsSetting /\ Shrinks(dextra, DExtraPollTime)
    BY <2>1, DExtraPacket
  <2>3. Shrinks(dcs, DCSPollTime)
    BY DCSOperators DEF NoDCS, Shrinks, LinkInv, Inv, TypeOK, DCS!TypeOK
  <2> QED
    BY <2>2, <2>3, InvKept DEF LinkInv
<1>2. DOMAIN dextra = {p}
  BY TheLink
<1>3. DOMAIN dextra' = {} /\ UNCHANGED <<relayed, linkTimer>>
  BY <1>2 DEF DExtra!Disconnect, DExtra!Delete, DExtra!relayVars
<1>4. StatusOK'
  <2>1. IF dextra[p].state = "LINKED" THEN linkStatus' = "LS_NONE" ELSE linkStatus' = linkStatus
    BY DExtraOperators DEF DExtra!Disconnect, DExtra!In, linkFailed
  <2>2. dextra[p].state # "LINKED" => linkStatus \notin {Linked("LT_DEXTRA"), Linked("LT_DCS")}
    BY <1>2 DEF LinkInv, StatusOK, DExtra!In
  <2>3. DExtra!In("LINKED")' = {}
    BY <1>3 DEF DExtra!In
  <2> QED
    BY <2>1, <2>2, <2>3 DEF StatusOK, Linked
<1>5. StreamsOwn(ids)' /\ TimersOK' /\ RelayTimed'
  BY <1>3 DEF StreamsOwn, TimersOK, RelayTimed, LinkInv
<1> QED
  BY <1>1, <1>4, <1>5 DEF LinkInv

\* Two timers with the same limit: the one that is ahead runs out first.
LEMMA TimersTogether ==
    ASSUME NEW a \in 1..LinkLimit, NEW b \in 0..LinkLimit, a <= b, NEW d \in Nat,
           ~ExpiresWithin(b, LinkLimit, d)
    PROVE  /\ ~ExpiresWithin(a, LinkLimit, d)
           /\ Advance(a, LinkLimit, d) > 0
           /\ Advance(a, LinkLimit, d) <= Advance(b, LinkLimit, d)
<1>1. LinkLimit \in Nat /\ LinkLimit > 1
  BY LinkLimits
<1> HIDE DEF LinkLimit
<1> QED
  BY <1>1 DEF ExpiresWithin, HasExpired, Advance

\* One turn of the main loop: the network timer of the group never outlives the
\* stream it relays, so that only the loss of the link separates the two.
LEMMA ClockFaithful ==
    ASSUME NoDCS, NEW ids, LinkInv(ids), up, NEW d \in 1..MaxStep, Clock(d)
    PROVE  LinkInv(ids)' /\ (Stuck' => Stuck) /\ (Orphaned' => Orphaned \/ Separates)
<1>1. Inv' /\ Tick
  BY TickKeeps DEF Tick, LinkInv
<1>2. /\ d \in Nat /\ DExtraPollTime \in Nat /\ DExtraPollTime # 0
      /\ dextra \in [DOMAIN dextra -> Link(DExtraPollTime)]
      /\ linkTimer \in 0..LinkLimit
      /\ linkStatus \in ActiveStatus \cup {"LS_NONE"}
  BY LinkingAssumption, TheLink
<1>3. dextra' = ClockLinks(dextra, DExtraPollTime, d)
  BY DExtraOperators DEF Clock, DExtra!Clock
<1>4. linkStatus' = IF Recovers /\ \E p \in DOMAIN dextra : PollLost(dextra[p], DExtraPollTime, d)
                    THEN Linking(linkType) ELSE linkStatus
  <2>1. DExtra!Loses(d) <=> \E p \in DOMAIN dextra : PollLost(dextra[p], DExtraPollTime, d)
    BY DEF DExtra!Loses, DExtra!PollLost, PollLost, DExtra!ExpiresWithin, ExpiresWithin, DExtra!HasExpired,
           HasExpired, DExtra!Advance, Advance, DExtra!LimitOf, LimitOf
  <2>2. ~DCS!Loses(d)
    BY DEF DCS!Loses, NoDCS
  <2> QED
    BY <2>1, <2>2 DEF Clock
<1>5. IF ExpiresWithin(linkTimer, LinkLimit, d)
      THEN relayed' = NoId
      ELSE relayed' = relayed /\ linkTimer' = Advance(linkTimer, LinkLimit, d)
  BY DEF Clock, EndRelay
<1>6. NoId \notin LinkIds
  BY LinkAssumption
<1>7. RelayTimed'
  <2>1. linkTimer > 0 => Advance(linkTimer, LinkLimit, d) > 0
    BY <1>2, Timers, LinkAssumption DEF LinkLimit
  <2> QED
    BY <1>5, <1>6, <2>1 DEF LinkInv, RelayTimed, IsRunning
<1>8. relayed' \in LinkIds => relayed' = relayed
  BY <1>5, <1>6
<1>9. SUFFICES StatusOK' /\ StreamsOwn(ids)' /\ TimersOK' /\ (Stuck' => Stuck)
               /\ (Uncarried' => Uncarried \/ ~(DExtra!In("LINKED") \subseteq DExtra!In("LINKED")'))
  BY <1>1, <1>7, WithoutDCS DEF LinkInv, Separates
<1>10. CASE DOMAIN dextra = {}
  <2>1. DOMAIN dextra' = {} /\ linkStatus' = linkStatus
    BY <1>3, <1>4, <1>10 DEF ClockLinks
  <2>2. dextra = NoLinks
    BY <1>2, <1>10 DEF NoLinks
  <2> QED
    BY <1>8, <1>10, <2>1, <2>2 DEF LinkInv, StatusOK, StreamsOwn, TimersOK, Stuck, Uncarried, DExtra!In
<1>11. CASE DOMAIN dextra # {}
  <2>1. PICK p : p \in DOMAIN dextra
    BY <1>11
  <2>2. DOMAIN dextra = {p} /\ linkType = "LT_DEXTRA" /\ dextra[p] \in Link(DExtraPollTime)
    BY <2>1, <1>2, TheLink
  <2>3. CASE PollLost(dextra[p], DExtraPollTime, d) /\ Recovers
    <3>1. DOMAIN dextra' = {p} /\ dextra'[p] = Relinked(dextra[p], DExtraPollTime, d)
      BY <1>3, <2>2, <2>3 DEF ClockLinks
    <3>2. dextra'[p].state = "LINKING" /\ dextra'[p].stream = NoId
      BY <2>2, <3>1 DEF Relinked, Restarted, Link
    <3>3. linkStatus' = Linking("LT_DEXTRA")
      BY <1>4, <2>2, <2>3
    <3>4. StatusOK'
      BY <3>1, <3>2, <3>3 DEF StatusOK, DExtra!In, Linking, Linked
    <3>5. StreamsOwn(ids)' /\ TimersOK'
      BY <3>1, <3>2 DEF StreamsOwn, TimersOK
    <3>6. ~Stuck'
      BY <3>1 DEF Stuck, NoLinks
    <3>7. dextra[p].state = "LINKED" => ~(DExtra!In("LINKED") \subseteq DExtra!In("LINKED")')
      BY <2>1, <3>2 DEF DExtra!In
    <3> QED
      BY <1>8, <2>2, <3>4, <3>5, <3>6, <3>7 DEF Uncarried
  <2>4. CASE PollLost(dextra[p], DExtraPollTime, d) /\ ~Recovers
    <3>1. DOMAIN dextra' = {}
      BY <1>3, <2>2, <2>4 DEF ClockLinks
    <3>2. linkStatus = "LS_NONE" /\ linkStatus' = "LS_NONE"
      BY <1>2, <1>4, <2>4 DEF Recovers
    <3>3. StatusOK' /\ ~Stuck'
      BY <3>1, <3>2 DEF StatusOK, Stuck, DExtra!In, Linked, Linking
    <3>4. StreamsOwn(ids)' /\ TimersOK'
      BY <3>1 DEF StreamsOwn, TimersOK
    <3>5. dextra[p].state = "LINKED" => ~(DExtra!In("LINKED") \subseteq DExtra!In("LINKED")')
      BY <2>1, <3>1 DEF DExtra!In
    <3> QED
      BY <1>8, <2>2, <3>3, <3>4, <3>5 DEF Uncarried
  <2>5. CASE ~PollLost(dextra[p], DExtraPollTime, d)
    <3>1. DOMAIN dextra' = {p} /\ dextra'[p] = Clocked(dextra[p], DExtraPollTime, d)
      BY <1>3, <2>2, <2>5 DEF ClockLinks
    <3>2. /\ dextra'[p].state = dextra[p].state /\ dextra'[p].refl = dextra[p].refl
          /\ dextra'[p].stream = (IF StreamLost(dextra[p], d) THEN NoId ELSE dextra[p].stream)
          /\ dextra'[p].inact =
                (IF StreamLost(dextra[p], d) THEN Stopped ELSE Advance(dextra[p].inact, LinkLimit, d))
      BY <2>2, <3>1 DEF Clocked, Link
    <3>3. linkStatus' = linkStatus
      BY <1>4, <2>2, <2>5
    <3>4. StatusOK' /\ ~Stuck'
      BY <2>2, <3>1, <3>2, <3>3 DEF LinkInv, StatusOK, DExtra!In, Stuck, NoLinks
    <3>5. StreamsOwn(ids)'
      BY <2>2, <3>1, <3>2 DEF LinkInv, StreamsOwn
    <3>6. ASSUME dextra[p].stream = relayed, relayed # NoId, relayed' # NoId
          PROVE  /\ dextra'[p].stream = relayed
                 /\ dextra'[p].inact > 0 /\ dextra'[p].inact <= linkTimer'
      <4>1. dextra[p].inact > 0 /\ dextra[p].inact <= linkTimer
        BY <2>2, <3>6 DEF LinkInv, TimersOK
      <4>2. dextra[p].inact \in 1..LinkLimit
        BY <2>2, <4>1 DEF Link
      <4>3. ~ExpiresWithin(linkTimer, LinkLimit, d) /\ linkTimer' = Advance(linkTimer, LinkLimit, d)
        BY <1>5, <3>6
      <4>4. ~StreamLost(dextra[p], d) /\ Advance(dextra[p].inact, LinkLimit, d) > 0
            /\ Advance(dextra[p].inact, LinkLimit, d) <= linkTimer'
        BY <1>2, <4>1, <4>2, <4>3, TimersTogether DEF StreamLost
      <4> QED
        BY <3>2, <3>6, <4>4
    <3>7. TimersOK'
      <4> SUFFICES ASSUME dextra'[p].stream = relayed', relayed' # NoId
                   PROVE  dextra'[p].inact > 0 /\ dextra'[p].inact <= linkTimer'
        BY <3>1 DEF TimersOK
      <4>1. dextra[p].stream = relayed /\ relayed # NoId
        BY <1>5, <3>2
      <4> QED
        BY <3>6, <4>1
    <3>8. Uncarried' => Uncarried
      BY <1>6, <1>8, <2>2, <3>1, <3>2, <3>6 DEF Uncarried
    <3> QED
      BY <3>4, <3>5, <3>7, <3>8
  <2> QED
    BY <2>3, <2>4, <2>5
<1> QED
  BY <1>10, <1>11

\* A new link is shown as asked for, and asked for, as a port is free.
LEMMA NewLinkFaithful ==
    ASSUME NoDCS, NEW ids, LinkInv(ids), Inv', NEW r \in XRFs, Ports # {}, DOMAIN dextra = {}, linkInt(r),
           UNCHANGED relayVars
    PROVE  Faithful(ids)
<1>1. FreePorts # {}
  BY DEF FreePorts, NoDCS
<1>2. UNCHANGED <<relayed, linkTimer>>
  BY DEF relayVars
<1>3. dextra = NoLinks
  BY TheLink DEF NoLinks
<1>4. \A p \in DOMAIN dextra' : dextra'[p].state = "LINKING" /\ dextra'[p].stream = NoId
  <2>1. CASE UNCHANGED <<linkStatus, linkVars>>
    BY <2>1 DEF linkVars
  <2>2. CASE DExtra!link(r, FreePorts)
    <3>1. PICK p \in FreePorts : dextra' = [q \in DOMAIN dextra \cup {p} |->
                  IF q = p THEN NewLink(r, DExtraPollTime) ELSE dextra[q]]
      BY <1>1, <2>2, DExtraOperators DEF DExtra!link
    <3> QED
      BY <3>1 DEF NewLink
  <2> QED
    BY <2>1, <2>2 DEF linkInt
<1>5. \/ linkStatus' = linkStatus
      \/ linkStatus' = Linking(TypeOf(r)) /\ DOMAIN dextra' # {}
  <2>1. CASE DExtra!link(r, FreePorts) /\ linkStatus' = Linking(TypeOf(r))
    BY <1>1, <2>1, DExtraOperators DEF DExtra!link
  <2> QED
    BY <2>1 DEF linkInt
<1>6. StatusOK'
  <2>1. Linking(TypeOf(r)) \notin {Linked("LT_DEXTRA"), Linked("LT_DCS")}
    BY DEF Linking, Linked
  <2> QED
    BY <1>4, <1>5, <2>1 DEF LinkInv, StatusOK, DExtra!In
<1>7. StreamsOwn(ids)' /\ TimersOK' /\ RelayTimed'
  BY <1>2, <1>4 DEF StreamsOwn, TimersOK, RelayTimed, LinkInv
<1>8. Uncarried' => Uncarried
  BY <1>2 DEF Uncarried
<1>9. Stuck' => Stuck
  BY <1>3, <1>5 DEF Stuck, NoLinks
<1> QED
  BY <1>6, <1>7, <1>8, <1>9, WithoutDCS DEF Faithful, LinkInv

\* The links of the configuration.
LEMMA StartUpFaithful ==
    ASSUME NoDCS, NEW ids, LinkInv(ids), Ports # {}, StartUp
    PROVE  Faithful(ids)
<1>1. Inv' /\ DOMAIN dextra = {} /\ linkType = TypeOf(linkReflector) /\ linkType # "LT_DCS"
  BY StartUpKeeps, TheLink DEF LinkInv, StartUp
<1>2. CASE linkType = "LT_NONE"
  <2>1. UNCHANGED <<groupVars, dextra>> /\ up' = TRUE
    BY <1>2 DEF StartUp, groupVars, linkVars
  <2> QED
    BY <2>1, OthersOnly
<1>3. CASE linkType # "LT_NONE"
  <2>1. linkReflector \in XRFs /\ linkInt(linkReflector) /\ UNCHANGED relayVars
    BY <1>1, <1>3 DEF StartUp, TypeOf
  <2> QED
    BY <1>1, <2>1, NewLinkFaithful
<1> QED
  BY <1>2, <1>3

\* Unlinking ends the talk that came over the link.
LEMMA UnlinkFaithful ==
    ASSUME NoDCS, NEW ids, LinkInv(ids), Inv', remoteUnlink
    PROVE  Faithful(ids)
<1>1. DExtra!unlink(linkReflector)
  BY TheLink DEF remoteUnlink
<1>2. DOMAIN dextra' = {}
  BY <1>1, TheLink DEF DExtra!unlink, DExtra!Delete
<1>3. CASE DOMAIN dextra = {}
  <2>1. linkStatus' = linkStatus /\ UNCHANGED <<relayed, linkTimer>>
    BY <1>1, <1>3, DExtraOperators DEF DExtra!unlink, EndTalks, relayVars
  <2>2. dextra = NoLinks
    BY <1>3, TheLink DEF NoLinks
  <2>3. StatusOK' /\ StreamsOwn(ids)' /\ TimersOK' /\ RelayTimed'
    BY <1>2, <1>3, <2>1 DEF LinkInv, StatusOK, StreamsOwn, TimersOK, RelayTimed, DExtra!In
  <2>4. (Uncarried' => Uncarried) /\ (Stuck' => Stuck)
    BY <1>3, <2>1, <2>2 DEF Uncarried, Stuck
  <2> QED
    BY <2>3, <2>4, WithoutDCS DEF Faithful, LinkInv
<1>4. CASE DOMAIN dextra # {}
  <2>1. PICK p : DOMAIN dextra = {p} /\ dextra[p].refl = linkReflector
    BY <1>4, TheLink
  <2>2. linkStatus' = "LS_NONE"
    BY <1>1, <2>1, DExtraOperators DEF DExtra!unlink, linkFailed
  <2>3. EndTalks({dextra[p].stream})
    <3>1. {dextra[q].stream : q \in {q \in DOMAIN dextra : dextra[q].refl = linkReflector}} = {dextra[p].stream}
      BY <2>1
    <3> QED
      BY <1>1, <3>1, DExtraOperators DEF DExtra!unlink
  <2>4. /\ relayed' = IF relayed = dextra[p].stream THEN NoId ELSE relayed
        /\ relayed' = NoId \/ linkTimer' = linkTimer
    BY <2>3 DEF EndTalks, EndRelay, relayVars
  <2>5. StatusOK' /\ ~Stuck'
    BY <1>2, <2>2 DEF StatusOK, Stuck, DExtra!In, Linked, Linking
  <2>6. StreamsOwn(ids)' /\ TimersOK' /\ RelayTimed'
    BY <1>2, <2>4, LinkAssumption DEF StreamsOwn, TimersOK, RelayTimed, LinkInv
  <2>7. Uncarried' => Uncarried
    BY <1>2, <2>1, <2>4, LinkAssumption DEF Uncarried
  <2> QED
    BY <2>5, <2>6, <2>7, WithoutDCS DEF Faithful, LinkInv
<1> QED
  BY <1>3, <1>4

\* What the operator and the subscribers do.
LEMMA OwnFaithful ==
    ASSUME NoDCS, NEW ids, LinkInv(ids), Ports # {}, up, Own
    PROVE  Faithful(ids)
<1>1. CASE remoteUnlink
  BY <1>1, RemoteKeeps, UnlinkFaithful DEF Remote, LinkInv
<1>2. CASE \E r \in XRFs : remoteLink(r)
  <2>1. PICK r \in XRFs : remoteLink(r)
    BY <1>2
  <2>2. DOMAIN dextra = {}
    BY <2>1, TheLink DEF remoteLink
  <2>3. Inv'
    BY <2>1, RemoteKeeps DEF Remote, Reflectors, LinkInv
  <2> QED
    BY <2>1, <2>2, <2>3, NewLinkFaithful DEF remoteLink
<1>3. CASE Talk
  <2>1. Inv'
    BY <1>3, TalkKeeps DEF LinkInv
  <2>2. /\ UNCHANGED <<linkStatus, linkTimer, dextra>>
        /\ relayed' \in G2Ids \cup {NoId}
    BY <1>3 DEF Talk, TalkCut, G2Talk, linkVars
  <2>3. relayed' \notin LinkIds
    BY <2>2, LinkAssumption
  <2>4. StatusOK' /\ StreamsOwn(ids)' /\ RelayTimed'
    BY <2>2, <2>3 DEF LinkInv, StatusOK, StreamsOwn, RelayTimed, DExtra!In
  <2>5. TimersOK'
    <3>1. dextra \in [DOMAIN dextra -> Link(DExtraPollTime)]
      BY TheLink
    <3>2. \A p \in DOMAIN dextra : dextra[p].stream \in LinkIds \cup {NoId}
      BY <3>1 DEF Link
    <3> QED
      BY <2>2, <2>3, <3>2 DEF TimersOK
  <2>6. (Uncarried' => Uncarried) /\ (Stuck' => Stuck)
    BY <2>2, <2>3 DEF Uncarried, Stuck
  <2> QED
    BY <2>1, <2>4, <2>5, <2>6, WithoutDCS DEF Faithful, LinkInv
<1> QED
  BY <1>1, <1>2, <1>3 DEF Own

\* Initially there is no link and no talk.
LEMMA InitFaithful ==
    ASSUME DCSs = {}, DOMAIN dcs = {}, NEW ids, Init
    PROVE  LinkInv(ids)
<1>1. Inv
  BY InvInductive
<1> QED
  BY <1>1, LinkAssumption
     DEF Init, NoLinks, LinkInv, StatusOK, StreamsOwn, TimersOK, RelayTimed, DExtra!In, Linked

-----------------------------------------------------------------------------
(***************************************************************************)
(* The packets that are offered to the group, whosever link they are for.  *)
(***************************************************************************)
\* The answers.
LEMMA AnswersOffered ==
    ASSUME NoDCS, NEW ids, LinkInv(ids), up' = up, NEW h, NEW rep,
           OnAck(h, rep) \/ OnNak(h, rep) \/ OnPoll(h)
    PROVE  Faithful(ids)
<1>1. CASE UNCHANGED <<groupVars, linkVars>>
  BY <1>1, OthersOnly DEF linkVars
<1>2. CASE \E p \in DOMAIN dextra : DExtra!Ack(p) \/ DExtra!Nak(p) \/ DExtra!Poll(p)
  BY <1>2, AnswerFaithful
<1> QED
  BY <1>1, <1>2 DEF OnAck, OnNak, OnPoll, NotFor, Asked, LinkedAt, From

\* The header and the frames.
LEMMA TalkOffered ==
    ASSUME NoDCS, NEW ids, LinkInv(ids), up' = up, NEW i \in LinkIds,
           \/ \E r \in XRFs : i \in ids[r] /\ OnHeader(r, i)
           \/ \E h : \E first, end \in BOOLEAN : OnVoice(h, i, first, end)
    PROVE  Faithful(ids)
<1>1. CASE UNCHANGED <<groupVars, linkVars>>
  BY <1>1, OthersOnly DEF linkVars
<1>2. CASE \E p \in DOMAIN dextra :
              \/ i \in ids[dextra[p].refl] /\ DExtra!ReflectorHeader(p, i)
              \/ \E first, end \in BOOLEAN : DExtra!ReflectorVoice(p, i, first, end)
  BY <1>2, TalkFaithful
<1>3. CASE \E r \in XRFs : i \in ids[r] /\ OnHeader(r, i)
  BY <1>1, <1>2, <1>3 DEF OnHeader, NotFor, Silent, To
<1>4. ASSUME NEW h, NEW first \in BOOLEAN, NEW end \in BOOLEAN, OnVoice(h, i, first, end)
      PROVE  Faithful(ids)
  BY <1>1, <1>2, <1>4 DEF OnVoice, NotFor, Carrying, LinkedAt, From
<1> QED
  BY <1>3, <1>4

\* The end of the link.
LEMMA DisconnectOffered ==
    ASSUME NoDCS, NEW ids, LinkInv(ids), up' = up, NEW r, OnDisconnect(r)
    PROVE  LinkInv(ids)' /\ (Orphaned' => Orphaned \/ Separates)
<1>1. CASE UNCHANGED <<groupVars, linkVars>>
  BY <1>1, OthersOnly DEF linkVars, Faithful
<1>2. CASE \E p \in DOMAIN dextra : DExtra!Disconnect(p)
  BY <1>2, DisconnectKeeps DEF Separates
<1> QED
  BY <1>1, <1>2 DEF OnDisconnect, NotFor, To
=============================================================================
