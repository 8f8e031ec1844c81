---------------------------- MODULE GroupHandler ----------------------------
(***************************************************************************)
(* One smart group: CGroupHandler with its CSGSUser and CSGSId records     *)
(* (src/GroupHandler.cpp).  Users subscribe by sending a voice stream to   *)
(* the group callsign and unsubscribe with one to the logoff callsign; the *)
(* group relays one stream at a time, from a subscriber (G2) or from the   *)
(* linked reflector, to the repeaters of its subscribers.                  *)
(*                                                                         *)
(* All handlers run on the one thread of CSGSThread::run, so every handler *)
(* is one step.  The clock is the last handler of each turn of that loop   *)
(* and advances every timer by the time the turn took.  What the group     *)
(* knows about where users are comes from the cache, which the IRC threads *)
(* change at any moment.                                                   *)
(***************************************************************************)
EXTENDS Integers, Functions, Timer

CONSTANTS
    Users,          \* callsigns of users
    Repeaters,      \* callsigns of repeaters and hotspots
    NoRepeater,     \* the empty string findUserRepeater returns
    Addr,           \* heap chunks a CSGSUser can be allocated in
    G2Ids,          \* stream ids that come in by G2
    ReflectorIds,   \* stream ids that come in from the reflector
    Droppable,      \* users an operator may log off by remote control
    Coverage,       \* the <<user, repeater>> pairs the IRC network reports
    NetworkTimeout, MessageDelay, PingTime, NotFoundTime, UserTimeout,
    MaxStep         \* the longest turn of the main loop

Ids == G2Ids \cup ReflectorIds

\* m_id of an idle group.
NoId == 0

ASSUME GroupAssumption ==
    /\ Ids \subseteq Nat \ {NoId}
    /\ NoRepeater \notin Repeaters
    /\ Droppable \subseteq Users
    /\ Coverage \subseteq Users \X Repeaters
    /\ NetworkTimeout \in Nat \ {0}
    /\ MessageDelay \in Nat \ {0}
    /\ PingTime \in Nat \ {0}
    /\ NotFoundTime \in Nat \ {0}
    /\ UserTimeout \in Nat
    /\ MaxStep \in Nat \ {0}

VARIABLES
    users,      \* m_users: callsign -> its CSGSUser
    heap,       \* the CSGSUser objects that are allocated and still reachable
    ids,        \* m_ids: the entries with a CSGSId
    nullIds,    \* m_ids: the keys operator[] has entered with a NULL pointer
    relayed,    \* m_id
    repeaters,  \* m_repeaters
    linkTimer,  \* m_linkTimer
    pingTimer,  \* m_pingTimer
    rptrOf,     \* cache: the repeater a user was last heard on
    located,    \* cache: the repeaters whose gateway address is known
    left        \* history: what the drop of a talker has left in m_repeaters

groupVars == <<users, heap, ids, nullIds, relayed, repeaters, linkTimer, pingTimer>>
cacheVars == <<rptrOf, located>>
vars == <<groupVars, cacheVars, left>>
-----------------------------------------------------------------------------
UserLimit == LimitOf(UserTimeout)
IdLimit == LimitOf(MessageDelay)
LinkLimit == LimitOf(NetworkTimeout)
PingLimit == LimitOf(PingTime)

\* age is the time since m_found, held at NotFoundTime.
UserObject == [call : Users, timer : 0..UserLimit, age : 0..NotFoundTime]

\* A CSGSId.  Of the two flags m_login and m_logoff at most one is ever set.
IdRecord == [user : Addr, timer : 1..IdLimit,
             kind : {"login", "logoff", "voice"}, end : BOOLEAN]

TypeOK ==
    /\ users \in [DOMAIN users -> Addr] /\ DOMAIN users \subseteq Users
    /\ heap \in [DOMAIN heap -> UserObject] /\ DOMAIN heap \subseteq Addr
    /\ ids \in [DOMAIN ids -> IdRecord] /\ DOMAIN ids \subseteq Ids
    /\ nullIds \subseteq Ids \ DOMAIN ids
    /\ relayed \in Ids \cup {NoId}
    /\ repeaters \subseteq Repeaters
    /\ linkTimer \in 0..LinkLimit
    /\ pingTimer \in 1..PingLimit
    /\ rptrOf \in [Users -> Repeaters \cup {NoRepeater}]
    /\ located \subseteq Repeaters
    /\ left \subseteq Repeaters

Put(f, x, v) == [y \in DOMAIN f \cup {x} |-> IF y = x THEN v ELSE f[y]]
Without(f, S) == Restrict(f, DOMAIN f \ S)
Empty == [x \in {} |-> x]

NewUser(u) == [call |-> u, timer |-> Started(UserLimit), age |-> 0]

\* CSGSUser::reset().
Mut_ResetUser(o) == [o EXCEPT !.age = 0]    \* m_timer.start() is forgotten
ResetUser(o) == NewUser(o.call)

NewId(a, k) == [user |-> a, timer |-> Started(IdLimit), kind |-> k, end |-> FALSE]

\* reset() and setEnd() of a CSGSId: the record stays for another
\* MessageDelay, after which the acknowledgement is sent.
EndId(t) == [t EXCEPT !.timer = Started(IdLimit), !.end = TRUE]

\* The objects the two maps lead to.  An object the code forgets without
\* deleting it is never touched again and leaves the model.
Reachable(us, is) == Range(us) \cup {is[i].user : i \in DOMAIN is}
Keep(h, us, is) == Restrict(h, DOMAIN h \cap Reachable(us, is))

\* cache.findUserAddr(u) is not empty.
HasAddress(u) == rptrOf[u] \in located

SubscribedRepeaters(us) == {rptrOf[u] : u \in {v \in us : HasAddress(v)}}

\* The relayed stream is over: m_id and m_repeaters are cleared together.
Mut_EndRelay == relayed' = NoId /\ UNCHANGED repeaters
EndRelay == relayed' = NoId /\ repeaters' = {}

\* What is no longer in the list is no longer left in it.
Forget == left' = left \cap repeaters'

\* m_ids[i], which enters a NULL pointer for an id it does not find.
Mut_Looked(i) == nullIds \cup {i}
Looked(i) == nullIds \cup ({i} \ DOMAIN ids)

Dangling == {i \in DOMAIN ids : ids[i].user \notin DOMAIN heap}
-----------------------------------------------------------------------------
Init ==
    /\ users = Empty
    /\ heap = Empty
    /\ ids = Empty
    /\ nullIds = {}
    /\ relayed = NoId
    /\ repeaters = {}
    /\ linkTimer = Stopped
    /\ pingTimer = Started(PingLimit)
    /\ rptrOf = [u \in Users |-> NoRepeater]
    /\ located = {}
    /\ left = {}

\* The process dies and systemd starts it again: nothing is persisted.
Restart ==
    /\ users' = Empty
    /\ heap' = Empty
    /\ ids' = Empty
    /\ nullIds' = {}
    /\ relayed' = NoId
    /\ repeaters' = {}
    /\ linkTimer' = Stopped
    /\ pingTimer' = Started(PingLimit)
    /\ rptrOf' = [u \in Users |-> NoRepeater]
    /\ located' = {}
    /\ left' = {}

(***************************************************************************)
(* process(CHeaderData&): a header sent by G2 to the group callsign.       *)
(***************************************************************************)

\* The repeaters of all subscribers but the speaker's own.
Mut_ZoneOf(my, us) == SubscribedRepeaters(us)   \* the speaker's is not excluded
ZoneOf(my, us) == SubscribedRepeaters(us) \ {rptrOf[my]}

\* The second half of the handler: the stream takes the group if it is idle.
Mut_RelayFrom(my, i) ==                         \* even if it is not
    relayed' = i /\ repeaters' = repeaters \cup ZoneOf(my, DOMAIN users')
RelayFrom(my, i) ==
    IF relayed # NoId
    THEN UNCHANGED <<relayed, repeaters>>
    ELSE relayed' = i /\ repeaters' = repeaters \cup ZoneOf(my, DOMAIN users')

\* From an unknown user: a subscription.
Subscribe(my, i) ==
    /\ my \notin DOMAIN users
    /\ \E a \in Addr \ DOMAIN heap :
          /\ users' = Put(users, my, a)
          /\ ids' = Put(ids, i, NewId(a, "login"))
          /\ heap' = Keep(Put(heap, a, NewUser(my)), users', ids')
    /\ nullIds' = nullIds \ {i}
    /\ RelayFrom(my, i)
    /\ UNCHANGED <<linkTimer, pingTimer, cacheVars>>
    /\ Forget

\* From a subscriber, with a new stream.
Speak(my, i) ==
    /\ my \in DOMAIN users
    /\ i \notin DOMAIN ids
    /\ heap' = [heap EXCEPT ![users[my]] = ResetUser(@)]
    /\ ids' = Put(ids, i, NewId(users[my], "voice"))
    /\ nullIds' = nullIds \ {i}
    /\ users' = users
    /\ RelayFrom(my, i)
    /\ UNCHANGED <<linkTimer, pingTimer, cacheVars>>
    /\ Forget

\* From a subscriber, with the id of a stream the group knows.
DuplicateHeader(my, i) ==
    /\ my \in DOMAIN users
    /\ i \in DOMAIN ids
    /\ heap' = [heap EXCEPT ![users[my]] = ResetUser(@)]
    /\ UNCHANGED <<users, ids, nullIds, relayed, repeaters, linkTimer, pingTimer, cacheVars>>
    /\ Forget

(***************************************************************************)
(* process(CHeaderData&): a header to the logoff callsign.  The user       *)
(* object is not deleted: the new record still refers to it.               *)
(***************************************************************************)
Unsubscribe(my, i) ==
    /\ my \in DOMAIN users
    /\ users' = Without(users, {my})
    /\ ids' = Put(ids, i, NewId(users[my], "logoff"))
    /\ heap' = Keep(heap, users', ids')
    /\ nullIds' = nullIds \ {i}
    /\ UNCHANGED <<relayed, repeaters, linkTimer, pingTimer, cacheVars>>
    /\ Forget

\* The object's address is taken from the map node that has just been erased:
\* it is still there, or reading it is fatal.
UnsubscribeFault(my) == my \in DOMAIN users /\ Restart

(***************************************************************************)
(* process(CAMBEData&): a voice frame that came by G2.  findGroup hands a  *)
(* group only the frames of the stream it relays.                          *)
(***************************************************************************)
G2Voice(i, end) ==
    LET t == ids[i]
        o == heap[t.user]
        h == IF i \in Dangling THEN heap ELSE [heap EXCEPT ![t.user] = ResetUser(o)]
        gone == IF end /\ t.kind = "logoff" THEN {o.call} ELSE {}
    IN  /\ i = relayed
        /\ i \in DOMAIN ids
        /\ users' = Without(users, gone)
        /\ ids' = IF end /\ t.kind = "voice"
                  THEN Without(ids, {i})
                  ELSE Put(ids, i, IF end THEN EndId(t) ELSE [t EXCEPT !.timer = Started(IdLimit)])
        /\ heap' = Keep(h, users', ids')
        /\ IF end THEN EndRelay ELSE UNCHANGED <<relayed, repeaters>>
        /\ UNCHANGED <<nullIds, linkTimer, pingTimer, cacheVars>>
        /\ Forget

\* A frame of a relayed stream whose entry is NULL is a NULL dereference, and
\* one whose user has been deleted writes into freed memory, which may be
\* fatal.
G2VoiceFault(i) ==
    /\ i = relayed
    /\ i \in nullIds \cup Dangling
    /\ Restart

(***************************************************************************)
(* process(CHeaderData&, DIRECTION, AUDIO_SOURCE) and its counterpart for  *)
(* voice frames: a stream from the linked reflector.                       *)
(***************************************************************************)
ReflectorHeader(i) ==
    /\ relayed = NoId
    /\ relayed' = i
    /\ linkTimer' = Started(LinkLimit)
    /\ repeaters' = repeaters \cup SubscribedRepeaters(DOMAIN users)
    /\ nullIds' = Looked(i)
    /\ UNCHANGED <<users, heap, ids, pingTimer, cacheVars>>
    /\ Forget

ReflectorVoice(i, end) ==
    /\ i = relayed
    /\ nullIds' = Looked(i)
    /\ IF end
       THEN EndRelay /\ linkTimer' = Stopped
       ELSE linkTimer' = Started(LinkLimit) /\ UNCHANGED <<relayed, repeaters>>
    /\ UNCHANGED <<users, heap, ids, pingTimer, cacheVars>>
    /\ Forget
-----------------------------------------------------------------------------
(***************************************************************************)
(* LogoffUser(callsign): the drop command of the remote control, and the   *)
(* shutdown of the server.                                                 *)
(***************************************************************************)
LogoffAll ==
    /\ users' = Empty
    /\ heap' = Empty
    /\ ids' = Empty
    /\ nullIds' = {}
    /\ relayed' = NoId
    /\ repeaters' = {}
    /\ UNCHANGED <<linkTimer, pingTimer, cacheVars>>
    /\ Forget

\* Only the first record of the user's streams, in the order of their ids, is
\* removed; m_repeaters is only cleared with the last user.
LogoffUser(u) ==
    LET a == users[u]
        his == {i \in DOMAIN ids : ids[i].user = a}
        first == {i \in his : \A j \in his : i <= j}
        last == DOMAIN users = {u}
    IN  /\ u \in DOMAIN users
        /\ users' = Without(users, {u})
        /\ ids' = IF last THEN Empty ELSE Without(ids, first)
        /\ heap' = Keep(Without(heap, {a}), users', ids')
        /\ nullIds' = IF last THEN {} ELSE nullIds
        /\ relayed' = IF last \/ relayed \in first THEN NoId ELSE relayed
        /\ repeaters' = IF last THEN {} ELSE repeaters
        /\ left' = IF relayed' = NoId THEN repeaters' ELSE left
        /\ UNCHANGED <<linkTimer, pingTimer, cacheVars>>
-----------------------------------------------------------------------------
(***************************************************************************)
(* clockInt(ms).                                                           *)
(***************************************************************************)
Pings(d) == ExpiresWithin(pingTimer, PingLimit, d)
CutsLink(d) == ExpiresWithin(linkTimer, LinkLimit, d)
ExpiredIds(d) == {i \in DOMAIN ids : ExpiresWithin(ids[i].timer, IdLimit, d)}

\* Users without an address for NotFoundTime, dropped when it is time to ping.
NotFound(d) ==
    {u \in DOMAIN users : Pings(d) /\ ~HasAddress(u) /\ heap[users[u]].age + d >= NotFoundTime}

\* A first expiry ends the stream; after a second one its record is deleted.
Mut_DeletedIds(d) == {i \in ExpiredIds(d) : ids[i].kind = "voice"}
DeletedIds(d) == {i \in ExpiredIds(d) : ids[i].end \/ ids[i].kind = "voice"}
Mut_LoggedOff(d) ==     \* whoever's stream has expired is logged off
    {heap[ids[i].user].call : i \in {j \in ExpiredIds(d) \ Dangling : ~ids[j].end}}
LoggedOff(d) ==
    {heap[ids[i].user].call :
        i \in {j \in ExpiredIds(d) \ Dangling : ids[j].kind = "logoff" /\ ~ids[j].end}}

Mut_RelayEnds(d) == CutsLink(d)
RelayEnds(d) == CutsLink(d) \/ \E i \in ExpiredIds(d) : i = relayed /\ ~ids[i].end

\* The users still subscribed when it comes to the user timers.
Clocked(d) == DOMAIN users \ (NotFound(d) \cup LoggedOff(d))
Mut_NoTimedOut(d) == {}
TimedOut(d) ==
    {u \in Clocked(d) : /\ relayed = NoId \/ RelayEnds(d)
                        /\ ExpiresWithin(heap[users[u]].timer, UserLimit, d)}

Older(o, d) == IF o.age + d < NotFoundTime THEN o.age + d ELSE NotFoundTime
ClockedUser(o, d) ==
    [o EXCEPT !.timer = Advance(o.timer, UserLimit, d),
              !.age = IF Pings(d) /\ HasAddress(o.call) THEN 0 ELSE Older(o, d)]

ClockIds(d) ==
    [i \in DOMAIN ids \ DeletedIds(d) |->
        IF i \in ExpiredIds(d)
        THEN EndId(ids[i])
        ELSE [ids[i] EXCEPT !.timer = Advance(@, IdLimit, d)]]

ClockUsers(d) ==
    [a \in DOMAIN heap \ {users[u] : u \in TimedOut(d)} |->
        IF \E u \in Clocked(d) : users[u] = a THEN ClockedUser(heap[a], d) ELSE heap[a]]

Clock(d) ==
    /\ pingTimer' = IF Pings(d) THEN Started(PingLimit) ELSE Advance(pingTimer, PingLimit, d)
    /\ linkTimer' = IF CutsLink(d) THEN Stopped ELSE Advance(linkTimer, LinkLimit, d)
    /\ IF RelayEnds(d) THEN EndRelay ELSE UNCHANGED <<relayed, repeaters>>
    /\ users' = Restrict(users, Clocked(d) \ TimedOut(d))
    /\ ids' = ClockIds(d)
    /\ heap' = Keep(ClockUsers(d), users', ids')
    /\ UNCHANGED <<nullIds, cacheVars>>
    /\ Forget

\* The record of an expired stream is asked for the callsign of its user: if
\* the user has been deleted that reads freed memory, which may be fatal.
ClockFault(d) ==
    /\ ExpiredIds(d) \cap Dangling # {}
    /\ Restart

Tick == \E d \in 1..MaxStep : Clock(d)
-----------------------------------------------------------------------------
(***************************************************************************)
(* The IRC threads write the cache: a user is heard on a repeater, a       *)
(* gateway comes or goes.                                                  *)
(***************************************************************************)
UserHeard(u, r) ==
    /\ rptrOf' = [rptrOf EXCEPT ![u] = r]
    /\ UNCHANGED <<groupVars, located, left>>

GateUp(r) ==
    /\ located' = located \cup {r}
    /\ UNCHANGED <<groupVars, rptrOf, left>>

GateDown(r) ==
    /\ located' = located \ {r}
    /\ UNCHANGED <<groupVars, rptrOf, left>>
-----------------------------------------------------------------------------
Header == \E my \in Users, i \in G2Ids :
    Subscribe(my, i) \/ Speak(my, i) \/ DuplicateHeader(my, i) \/ Unsubscribe(my, i)

Voice == \/ \E i \in G2Ids, end \in BOOLEAN : G2Voice(i, end)
         \/ \E i \in G2Ids : G2VoiceFault(i)

Reflector == \/ \E i \in ReflectorIds : ReflectorHeader(i)
             \/ \E i \in ReflectorIds, end \in BOOLEAN : ReflectorVoice(i, end)

Operator == LogoffAll \/ \E u \in Droppable : LogoffUser(u)

Cache == \/ \E p \in Coverage : UserHeard(p[1], p[2])
         \/ \E r \in Repeaters : GateUp(r) \/ GateDown(r)

Fault == \/ \E my \in Users : UnsubscribeFault(my)
         \/ \E d \in 1..MaxStep : ClockFault(d)

Next == Header \/ Voice \/ Reflector \/ Operator \/ Cache \/ Tick \/ Fault

Spec == Init /\ [][Next]_vars

\* The main loop always comes round to the clock: CSGSThread::run reads until
\* nothing is left to read, clocks every group and sleeps for five
\* milliseconds.
FairSpec == Spec /\ WF_vars(Tick)
-----------------------------------------------------------------------------
(***************************************************************************)
(* Properties.                                                             *)
(***************************************************************************)

\* A group never hangs on a dead stream: whenever m_id is set, either the
\* network timer of the link runs or the stream has a record whose expiry has
\* not yet been handled, so clockInt will clear m_id.
NoStuckRelay ==
    relayed # NoId => \/ IsRunning(linkTimer)
                      \/ relayed \in DOMAIN ids /\ ~ids[relayed].end

\* Whatever ends a relay (end frame, either timeout, the drop of all users, a
\* restart) leaves no repeater of this talk in m_repeaters for the next one;
\* only the drop of a single user does.
RelayEndsClean ==
    [][relayed # NoId /\ relayed' = NoId =>
          repeaters' = {} \/ \E u \in Droppable : LogoffUser(u)]_vars

\* The audio of a speaker is not routed back to his own repeater ("all the
\* repeaters, except for the sender"), but for a repeater that the drop of a
\* user while he talked has left in m_repeaters: it stays there until a later
\* talk is over.
NoEcho ==
    [][\A my \in Users, i \in G2Ids :
          relayed = NoId /\ (Subscribe(my, i) \/ Speak(my, i))
              => rptrOf[my] \notin repeaters' \ left]_vars

\* The main loop is never held up so long that a user can time out while a
\* record of a stream of his is still there: 60 s and more against twice 4 s.
StallBound == UserTimeout # 0 => 2 * MessageDelay + MaxStep <= UserTimeout + 1

\* A subscriber's object is allocated and his own, and his inactivity timer was
\* last restarted no earlier than that of any of his stream records, but for the
\* second wait of a record that has expired once.
Slack(t) == IF t.end THEN MessageDelay + MaxStep - 1 ELSE 0
UsersAllocated ==
    /\ \A u \in DOMAIN users : users[u] \in DOMAIN heap
    /\ \A u, v \in DOMAIN users : users[u] = users[v] => u = v
RecordsPending == \A i \in DOMAIN ids : ids[i].timer <= MessageDelay
UsersFresher ==
    \A u \in DOMAIN users, i \in DOMAIN ids :
        ids[i].user = users[u] => heap[users[u]].timer <= ids[i].timer + Slack(ids[i])
UserOutlivesRecords == UsersAllocated /\ RecordsPending /\ UsersFresher

\* No step leaves a stream record with the address of a deleted user, except
\* the drop of a single user.
DanglesOnlyByDrop ==
    [][Dangling' \subseteq Dangling \/ \E u \in Droppable : LogoffUser(u)]_vars

\* Reasons for which a subscription may end.
Asked(u) ==
    (\E i \in G2Ids : Unsubscribe(u, i)) \/ LogoffAll \/ LogoffUser(u) \/ Restart
Unreachable(u) == ~HasAddress(u) /\ heap[users[u]].age + MaxStep >= NotFoundTime
Inactive(u) == ExpiresWithin(heap[users[u]].timer, UserLimit, MaxStep) /\ relayed' = NoId
LogoffPending(u) ==
    \E i \in DOMAIN ids \ Dangling : ids[i].kind = "logoff" /\ heap[ids[i].user].call = u

\* A user stays subscribed until he or an operator ends it, his address has
\* been unknown for NotFoundTime, he has been inactive for the user timeout and
\* nobody is relayed, or the record of an earlier logoff of his expires.
SubscriptionKept ==
    [][\A u \in DOMAIN users \ DOMAIN users' :
          Asked(u) \/ Unreachable(u) \/ Inactive(u) \/ LogoffPending(u)]_vars

TrafficOn(i) ==
    \/ \E my \in Users : Subscribe(my, i) \/ Speak(my, i) \/ Unsubscribe(my, i)
    \/ \E end \in BOOLEAN : G2Voice(i, end) \/ ReflectorVoice(i, end)

\* The group becomes idle again and again, unless frames of the relayed stream
\* keep coming: a lost end frame does not block the group.
RelayReleased ==
    []<>(relayed = NoId) \/ []<><<TrafficOn(relayed)>>_vars

\* Every stream record is removed in the end, acknowledged or not, unless
\* frames of the stream keep coming.
RecordsDrain ==
    \A i \in G2Ids : []<>(i \notin DOMAIN ids) \/ []<><<TrafficOn(i)>>_vars

HeardFrom(u) ==
    \E i \in G2Ids :
        \/ Speak(u, i) \/ DuplicateHeader(u, i)
        \/ \E end \in BOOLEAN : G2Voice(i, end) /\ i \notin Dangling /\ heap[ids[i].user].call = u

\* A user who has become inactive is unsubscribed, provided the clock comes
\* round in a pause between talks again and again.
InactiveUsersLeave ==
    []<><<Tick /\ relayed' = NoId>>_vars =>
        \A u \in Users : []<>(u \notin DOMAIN users) \/ []<><<HeardFrom(u)>>_vars

\* The group implements Floor: one talker at a time, and its audience is fixed
\* when it takes the group and gone when it releases it.  What the drop of a
\* talker has left in m_repeaters is not counted.
TheFloor == INSTANCE Floor WITH
    Talkers <- Ids, Nobody <- NoId, Listeners <- Repeaters,
    talker <- relayed, audience <- repeaters \ left
OneTalker == TheFloor!Spec
=============================================================================
