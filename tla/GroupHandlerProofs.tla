------------------------- MODULE GroupHandlerProofs -------------------------
(***************************************************************************)
(* Theorems about a smart group (GroupHandler), for every set of users,    *)
(* repeaters and stream ids and every value of the timeouts.               *)
(***************************************************************************)
EXTENDS GroupHandler, TLAPS

-----------------------------------------------------------------------------
(***************************************************************************)
(* What the operators of Timer and the constructors of records return.     *)
(***************************************************************************)

\* The counter limits of the four timers of a group.
LEMMA Limits ==
    /\ UserLimit \in Nat
    /\ IdLimit \in Nat /\ IdLimit > 1
    /\ LinkLimit \in Nat /\ LinkLimit > 1
    /\ PingLimit \in Nat /\ PingLimit > 1
    /\ NotFoundTime \in Nat /\ NotFoundTime > 0
  BY GroupAssumption DEF UserLimit, IdLimit, LinkLimit, PingLimit, LimitOf

\* Starting a timer and letting time pass keep its counter within its limit.
LEMMA StartedType ==
    ASSUME NEW l \in Nat
    PROVE  /\ Started(l) \in 0..l
           /\ l > 0 => Started(l) = 1 /\ Started(l) \in 1..l
  BY DEF Started, Stopped

LEMMA AdvanceType ==
    ASSUME NEW l \in Nat, NEW t \in 0..l, NEW d \in Nat
    PROVE  /\ Advance(t, l, d) \in 0..l
           /\ t > 0 => Advance(t, l, d) \in 1..l
  BY DEF Advance

LEMMA EmptyType ==
    ASSUME NEW S
    PROVE  Empty \in [DOMAIN Empty -> S] /\ DOMAIN Empty = {}
  BY DEF Empty

\* The values the handlers store in the maps.
LEMMA RecordTypes ==
    /\ \A u \in Users : NewUser(u) \in UserObject
    /\ \A o \in UserObject : ResetUser(o) \in UserObject
    /\ \A o \in UserObject, d \in Nat : ClockedUser(o, d) \in UserObject
    /\ \A a \in Addr, k \in {"login", "logoff", "voice"} : NewId(a, k) \in IdRecord
    /\ \A t \in IdRecord : /\ EndId(t) \in IdRecord
                           /\ [t EXCEPT !.timer = Started(IdLimit)] \in IdRecord
    /\ \A t \in IdRecord, d \in Nat :
          [t EXCEPT !.timer = Advance(t.timer, IdLimit, d)] \in IdRecord
<1> USE Limits
<1>1. Started(UserLimit) \in 0..UserLimit /\ Started(IdLimit) \in 1..IdLimit
  BY StartedType
<1>2. ASSUME NEW o \in UserObject, NEW d \in Nat
      PROVE  ClockedUser(o, d) \in UserObject
  <2>1. o.timer \in 0..UserLimit /\ o.age \in 0..NotFoundTime
    BY DEF UserObject
  <2>2. Advance(o.timer, UserLimit, d) \in 0..UserLimit
    BY <2>1, AdvanceType
  <2>3. (IF Pings(d) /\ HasAddress(o.call) THEN 0 ELSE Older(o, d)) \in 0..NotFoundTime
    BY <2>1 DEF Older
  <2>4. QED
    BY <2>2, <2>3 DEF ClockedUser, UserObject
<1>3. ASSUME NEW t \in IdRecord, NEW d \in Nat
      PROVE  [t EXCEPT !.timer = Advance(t.timer, IdLimit, d)] \in IdRecord
  <2>1. t.timer \in 0..IdLimit /\ t.timer > 0
    BY DEF IdRecord
  <2>2. Advance(t.timer, IdLimit, d) \in 1..IdLimit
    BY <2>1, AdvanceType
  <2>3. QED
    BY <2>2 DEF IdRecord
<1>4. \A u \in Users : NewUser(u) \in UserObject
  BY <1>1 DEF NewUser, UserObject
<1>5. ASSUME NEW o \in UserObject PROVE ResetUser(o) \in UserObject
  BY <1>4 DEF ResetUser, UserObject
<1>6. \A a \in Addr, k \in {"login", "logoff", "voice"} : NewId(a, k) \in IdRecord
  BY <1>1 DEF NewId, IdRecord
<1>7. \A t \in IdRecord : /\ EndId(t) \in IdRecord
                          /\ [t EXCEPT !.timer = Started(IdLimit)] \in IdRecord
  BY <1>1 DEF EndId, IdRecord
<1>8. QED
  BY <1>2, <1>3, <1>4, <1>5, <1>6, <1>7

-----------------------------------------------------------------------------
(***************************************************************************)
(* Type correctness.                                                       *)
(***************************************************************************)

\* Where repeaters are added to m_repeaters.
LEMMA ZoneType ==
    ASSUME TypeOK, NEW us \in SUBSET Users
    PROVE  SubscribedRepeaters(us) \subseteq Repeaters
  BY DEF TypeOK, SubscribedRepeaters, HasAddress

LEMMA RelayFromType ==
    ASSUME TypeOK, NEW my \in Users, NEW i \in G2Ids, DOMAIN users' \subseteq Users,
           RelayFrom(my, i)
    PROVE  relayed' \in Ids \cup {NoId} /\ repeaters' \subseteq Repeaters
  BY ZoneType DEF RelayFrom, ZoneOf, TypeOK, Ids

LEMMA TypeInit == Init => TypeOK
<1> SUFFICES ASSUME Init PROVE TypeOK
  OBVIOUS
<1>1. pingTimer \in 1..PingLimit
  BY Limits, StartedType DEF Init
<1>2. linkTimer \in 0..LinkLimit
  BY Limits DEF Init, Stopped
<1>3. QED
  BY <1>1, <1>2, EmptyType DEF Init, TypeOK

LEMMA TypeRestart == Restart => TypeOK'
<1> SUFFICES ASSUME Restart PROVE TypeOK'
  OBVIOUS
<1>1. pingTimer' \in 1..PingLimit
  BY Limits, StartedType DEF Restart
<1>2. linkTimer' \in 0..LinkLimit
  BY Limits DEF Restart, Stopped
<1>3. users' \in [DOMAIN users' -> Addr] /\ DOMAIN users' = {}
  BY EmptyType DEF Restart
<1>4. heap' \in [DOMAIN heap' -> UserObject] /\ DOMAIN heap' = {}
  BY EmptyType DEF Restart
<1>5. ids' \in [DOMAIN ids' -> IdRecord] /\ DOMAIN ids' = {}
  BY EmptyType DEF Restart
<1>6. QED
  BY <1>1, <1>2, <1>3, <1>4, <1>5 DEF Restart, TypeOK

\* Each handler keeps the types: the maps first, the rest of the state in the
\* last step of each case.
LEMMA TypeStep == TypeOK /\ [Next]_vars => TypeOK'
<1> SUFFICES ASSUME TypeOK, [Next]_vars PROVE TypeOK'
  OBVIOUS
<1> USE Limits
<1>0. /\ users \in [DOMAIN users -> Addr] /\ DOMAIN users \subseteq Users
      /\ heap \in [DOMAIN heap -> UserObject] /\ DOMAIN heap \subseteq Addr
      /\ ids \in [DOMAIN ids -> IdRecord] /\ DOMAIN ids \subseteq Ids
  BY DEF TypeOK
<1>1. ASSUME NEW my \in Users, NEW i \in G2Ids, Subscribe(my, i)
      PROVE  TypeOK'
  <2>1. PICK a \in Addr \ DOMAIN heap :
          /\ users' = Put(users, my, a)
          /\ ids' = Put(ids, i, NewId(a, "login"))
          /\ heap' = Keep(Put(heap, a, NewUser(my)), users', ids')
    BY <1>1 DEF Subscribe
  <2>2. users' \in [DOMAIN users' -> Addr] /\ DOMAIN users' \subseteq Users
    BY <1>0, <2>1 DEF Put
  <2>3. ids' \in [DOMAIN ids' -> IdRecord] /\ DOMAIN ids' = DOMAIN ids \cup {i}
    BY <1>0, <2>1, RecordTypes DEF Put
  <2>4. heap' \in [DOMAIN heap' -> UserObject] /\ DOMAIN heap' \subseteq Addr
    <3>1. Put(heap, a, NewUser(my)) \in [DOMAIN Put(heap, a, NewUser(my)) -> UserObject]
      BY <1>0, RecordTypes DEF Put
    <3>2. DOMAIN Put(heap, a, NewUser(my)) \subseteq Addr
      BY <1>0, <2>1, RecordTypes DEF Put
    <3>3. QED
      BY <2>1, <3>1, <3>2 DEF Keep, Restrict
  <2>5. relayed' \in Ids \cup {NoId} /\ repeaters' \subseteq Repeaters
    BY <1>1, <2>2, RelayFromType DEF Subscribe
  <2>6. QED
    BY <1>1, <2>2, <2>3, <2>4, <2>5 DEF Subscribe, TypeOK, cacheVars, Ids, Forget
<1>2. ASSUME NEW my \in Users, NEW i \in G2Ids, Speak(my, i)
      PROVE  TypeOK'
  <2>1. users[my] \in Addr /\ users' = users
    BY <1>0, <1>2 DEF Speak
  <2>2. ids' \in [DOMAIN ids' -> IdRecord] /\ DOMAIN ids' = DOMAIN ids \cup {i}
    <3>1. NewId(users[my], "voice") \in IdRecord
      BY <2>1, RecordTypes
    <3>2. QED
      BY <1>0, <1>2, <3>1 DEF Speak, Put
  <2>3. heap' \in [DOMAIN heap' -> UserObject] /\ DOMAIN heap' \subseteq Addr
    BY <1>0, <1>2, RecordTypes DEF Speak
  <2>4. relayed' \in Ids \cup {NoId} /\ repeaters' \subseteq Repeaters
    BY <1>0, <1>2, <2>1, RelayFromType DEF Speak
  <2>5. QED
    BY <1>0, <1>2, <2>1, <2>2, <2>3, <2>4 DEF Speak, TypeOK, cacheVars, Ids, Forget
<1>3. ASSUME NEW my \in Users, NEW i \in G2Ids, DuplicateHeader(my, i)
      PROVE  TypeOK'
  <2>1. heap' \in [DOMAIN heap' -> UserObject] /\ DOMAIN heap' \subseteq Addr
    BY <1>0, <1>3, RecordTypes DEF DuplicateHeader
  <2>2. QED
    BY <1>3, <2>1 DEF DuplicateHeader, TypeOK, cacheVars, Forget
<1>4. ASSUME NEW my \in Users, NEW i \in G2Ids, Unsubscribe(my, i)
      PROVE  TypeOK'
  <2>1. users' \in [DOMAIN users' -> Addr] /\ DOMAIN users' \subseteq Users
    BY <1>0, <1>4 DEF Unsubscribe, Without, Restrict
  <2>2. ids' \in [DOMAIN ids' -> IdRecord] /\ DOMAIN ids' = DOMAIN ids \cup {i}
    <3>1. NewId(users[my], "logoff") \in IdRecord
      BY <1>0, <1>4, RecordTypes DEF Unsubscribe
    <3>2. QED
      BY <1>0, <1>4, <3>1 DEF Unsubscribe, Put
  <2>3. heap' \in [DOMAIN heap' -> UserObject] /\ DOMAIN heap' \subseteq Addr
    BY <1>0, <1>4 DEF Unsubscribe, Keep, Restrict
  <2>4. QED
    BY <1>4, <2>1, <2>2, <2>3 DEF Unsubscribe, TypeOK, cacheVars, Ids, Forget
<1>5. ASSUME NEW i \in G2Ids, NEW end \in BOOLEAN, G2Voice(i, end)
      PROVE  TypeOK'
  <2> DEFINE t == ids[i]
             gone == IF end /\ t.kind = "logoff" THEN {heap[t.user].call} ELSE {}
             h == IF i \in Dangling THEN heap
                  ELSE [heap EXCEPT ![t.user] = ResetUser(heap[t.user])]
             next == IF end THEN EndId(t) ELSE [t EXCEPT !.timer = Started(IdLimit)]
  <2>1. /\ users' = Without(users, gone)
        /\ heap' = Keep(h, users', ids')
        /\ ids' = IF end /\ t.kind = "voice" THEN Without(ids, {i}) ELSE Put(ids, i, next)
        /\ i \in DOMAIN ids
    BY <1>5 DEF G2Voice
  <2> HIDE DEF gone
  <2>2. users' \in [DOMAIN users' -> Addr] /\ DOMAIN users' \subseteq Users
    BY <1>0, <2>1 DEF Without, Restrict
  <2>3. next \in IdRecord
    BY <1>0, <2>1, RecordTypes
  <2> HIDE DEF next
  <2>4. ids' \in [DOMAIN ids' -> IdRecord] /\ DOMAIN ids' \subseteq DOMAIN ids
    <3>1. CASE end /\ t.kind = "voice"
      BY <1>0, <2>1, <3>1 DEF Without, Restrict
    <3>2. CASE ~(end /\ t.kind = "voice")
      BY <1>0, <2>1, <2>3, <3>2 DEF Put
    <3>3. QED
      BY <3>1, <3>2
  <2>5. h \in [DOMAIN h -> UserObject] /\ DOMAIN h = DOMAIN heap
    BY <1>0, <2>1, RecordTypes DEF Dangling
  <2>6. heap' \in [DOMAIN heap' -> UserObject] /\ DOMAIN heap' \subseteq Addr
    BY <1>0, <2>1, <2>5 DEF Keep, Restrict
  <2>7. relayed' \in Ids \cup {NoId} /\ repeaters' \subseteq Repeaters
    BY <1>5 DEF G2Voice, EndRelay, TypeOK
  <2>8. QED
    BY <1>5, <2>2, <2>4, <2>6, <2>7 DEF G2Voice, TypeOK, cacheVars, Ids, Forget
<1>6. ASSUME NEW i \in G2Ids, G2VoiceFault(i)
      PROVE  TypeOK'
  BY <1>6, TypeRestart DEF G2VoiceFault
<1>7. ASSUME NEW i \in ReflectorIds, ReflectorHeader(i)
      PROVE  TypeOK'
  <2>1. repeaters' \subseteq Repeaters
    BY <1>0, <1>7, ZoneType DEF ReflectorHeader, TypeOK
  <2>2. linkTimer' \in 0..LinkLimit
    BY <1>7, StartedType DEF ReflectorHeader
  <2>3. QED
    BY <1>7, <2>1, <2>2 DEF ReflectorHeader, TypeOK, cacheVars, Looked, Ids, Forget
<1>8. ASSUME NEW i \in ReflectorIds, NEW end \in BOOLEAN, ReflectorVoice(i, end)
      PROVE  TypeOK'
  <2>1. linkTimer' \in 0..LinkLimit
    BY <1>8, StartedType DEF ReflectorVoice, Stopped
  <2>2. relayed' \in Ids \cup {NoId} /\ repeaters' \subseteq Repeaters
    BY <1>8 DEF ReflectorVoice, EndRelay, TypeOK
  <2>3. QED
    BY <1>8, <2>1, <2>2 DEF ReflectorVoice, TypeOK, cacheVars, Looked, Ids, Forget
<1>9. CASE LogoffAll
  <2>1. /\ users' \in [DOMAIN users' -> Addr] /\ DOMAIN users' = {}
        /\ heap' \in [DOMAIN heap' -> UserObject] /\ DOMAIN heap' = {}
        /\ ids' \in [DOMAIN ids' -> IdRecord] /\ DOMAIN ids' = {}
    BY <1>9 DEF LogoffAll, Empty
  <2>2. QED
    BY <1>9, <2>1 DEF LogoffAll, TypeOK, cacheVars, Forget
<1>10. ASSUME NEW u \in Droppable, LogoffUser(u)
       PROVE  TypeOK'
  <2> DEFINE his == {i \in DOMAIN ids : ids[i].user = users[u]}
             first == {i \in his : \A j \in his : i <= j}
             h == Without(heap, {users[u]})
  <2>1. users' \in [DOMAIN users' -> Addr] /\ DOMAIN users' \subseteq Users
    BY <1>0, <1>10 DEF LogoffUser, Without, Restrict
  <2>2. /\ ids' \in [DOMAIN ids' -> IdRecord] /\ DOMAIN ids' \subseteq DOMAIN ids
        /\ ids' # Empty => DOMAIN ids' = DOMAIN ids \ first
    <3>1. ids' = Empty \/ ids' = Without(ids, first)
      BY <1>10 DEF LogoffUser
    <3>2. QED
      BY <1>0, <3>1 DEF Empty, Without, Restrict
  <2>3. h \in [DOMAIN h -> UserObject] /\ DOMAIN h \subseteq Addr
    BY <1>0 DEF Without, Restrict
  <2>4. heap' \in [DOMAIN heap' -> UserObject] /\ DOMAIN heap' \subseteq Addr
    <3>1. heap' = Keep(h, users', ids')
      BY <1>10 DEF LogoffUser
    <3>2. QED
      BY <2>3, <3>1 DEF Keep, Restrict
  <2>5. nullIds' \subseteq Ids \ DOMAIN ids'
    BY <1>10, <2>2 DEF LogoffUser, TypeOK
  <2>6. relayed' \in Ids \cup {NoId} /\ repeaters' \subseteq Repeaters
    BY <1>10 DEF LogoffUser, TypeOK
  <2>7. QED
    BY <1>0, <1>10, <2>1, <2>2, <2>4, <2>5, <2>6 DEF LogoffUser, TypeOK, cacheVars
<1>11. ASSUME NEW d \in 1..MaxStep, Clock(d)
       PROVE  TypeOK'
  <2>0. d \in Nat
    BY <1>11
  <2>1. pingTimer' \in 1..PingLimit
    <3>1. pingTimer \in 0..PingLimit /\ pingTimer > 0
      BY DEF TypeOK
    <3>2. Advance(pingTimer, PingLimit, d) \in 1..PingLimit
      BY <2>0, <3>1, AdvanceType
    <3>3. QED
      BY <1>11, <3>2, StartedType DEF Clock
  <2>2. linkTimer' \in 0..LinkLimit
    <3>1. Advance(linkTimer, LinkLimit, d) \in 0..LinkLimit
      BY <2>0, AdvanceType DEF TypeOK
    <3>2. QED
      BY <1>11, <3>1 DEF Clock, Stopped
  <2>3. users' \in [DOMAIN users' -> Addr] /\ DOMAIN users' \subseteq Users
    <3>1. Clocked(d) \ TimedOut(d) \subseteq DOMAIN users
      BY DEF Clocked
    <3>2. QED
      BY <1>0, <1>11, <3>1 DEF Clock, Restrict
  <2>4. ids' \in [DOMAIN ids' -> IdRecord] /\ DOMAIN ids' \subseteq DOMAIN ids
    BY <1>0, <1>11, <2>0, RecordTypes DEF Clock, ClockIds
  <2>5. ClockUsers(d) \in [DOMAIN ClockUsers(d) -> UserObject] /\ DOMAIN ClockUsers(d) \subseteq Addr
    BY <1>0, <2>0, RecordTypes DEF ClockUsers
  <2>6. heap' \in [DOMAIN heap' -> UserObject] /\ DOMAIN heap' \subseteq Addr
    BY <1>11, <2>5 DEF Clock, Keep, Restrict
  <2>7. relayed' \in Ids \cup {NoId} /\ repeaters' \subseteq Repeaters
    BY <1>11 DEF Clock, EndRelay, TypeOK
  <2>8. QED
    BY <1>0, <1>11, <2>1, <2>2, <2>3, <2>4, <2>6, <2>7 DEF Clock, TypeOK, cacheVars, Forget
<1>12. CASE Fault
  BY <1>12, TypeRestart DEF Fault, UnsubscribeFault, ClockFault
<1>13. CASE Cache
  <2>1. ASSUME NEW p \in Coverage, UserHeard(p[1], p[2])
        PROVE  TypeOK'
    <3>1. p[2] \in Repeaters
      BY GroupAssumption
    <3>2. QED
      BY <2>1, <3>1 DEF UserHeard, TypeOK, groupVars
  <2>2. ASSUME NEW r \in Repeaters, GateUp(r) \/ GateDown(r)
        PROVE  TypeOK'
    BY <2>2 DEF GateUp, GateDown, TypeOK, groupVars
  <2>3. QED
    BY <1>13, <2>1, <2>2 DEF Cache
<1>14. CASE UNCHANGED vars
  BY <1>14 DEF vars, groupVars, cacheVars, TypeOK
<1>15. QED
  BY <1>1, <1>2, <1>3, <1>4, <1>5, <1>6, <1>7, <1>8, <1>9, <1>10, <1>11, <1>12, <1>13, <1>14
     DEF Next, Header, Voice, Reflector, Operator, Tick

\* m_users, m_ids and m_repeaters only ever hold what their types allow, every
\* timer stays within its limit, and no key of m_ids is both NULL and not.
THEOREM TypeCorrect == Spec => []TypeOK
<1>1. QED
  BY TypeInit, TypeStep, PTL DEF Spec

-----------------------------------------------------------------------------
(***************************************************************************)
(* The group never hangs on a dead stream.                                 *)
(***************************************************************************)

LEMMA NoStuckRelayStep == TypeOK /\ NoStuckRelay /\ [Next]_vars => NoStuckRelay'
<1> SUFFICES ASSUME TypeOK, NoStuckRelay, [Next]_vars, relayed' # NoId
             PROVE  \/ IsRunning(linkTimer')
                    \/ relayed' \in DOMAIN ids' /\ ~ids'[relayed'].end
  BY DEF NoStuckRelay
<1> USE DEF NoStuckRelay
<1>1. ASSUME NEW my \in Users, NEW i \in G2Ids, Subscribe(my, i)
      PROVE  IsRunning(linkTimer') \/ (relayed' \in DOMAIN ids' /\ ~ids'[relayed'].end)
  BY <1>1 DEF Subscribe, RelayFrom, Put, NewId
<1>2. ASSUME NEW my \in Users, NEW i \in G2Ids, Speak(my, i)
      PROVE  IsRunning(linkTimer') \/ (relayed' \in DOMAIN ids' /\ ~ids'[relayed'].end)
  BY <1>2 DEF Speak, RelayFrom, Put, NewId
<1>3. ASSUME NEW my \in Users, NEW i \in G2Ids, DuplicateHeader(my, i)
      PROVE  IsRunning(linkTimer') \/ (relayed' \in DOMAIN ids' /\ ~ids'[relayed'].end)
  BY <1>3 DEF DuplicateHeader
<1>4. ASSUME NEW my \in Users, NEW i \in G2Ids, Unsubscribe(my, i)
      PROVE  IsRunning(linkTimer') \/ (relayed' \in DOMAIN ids' /\ ~ids'[relayed'].end)
  BY <1>4 DEF Unsubscribe, Put, NewId
<1>5. ASSUME NEW i \in G2Ids, NEW end \in BOOLEAN, G2Voice(i, end)
      PROVE  IsRunning(linkTimer') \/ (relayed' \in DOMAIN ids' /\ ~ids'[relayed'].end)
  <2>1. ~end /\ relayed' = relayed /\ i = relayed /\ i \in DOMAIN ids /\ linkTimer' = linkTimer
    BY <1>5 DEF G2Voice, EndRelay
  <2>2. ids' = Put(ids, i, [ids[i] EXCEPT !.timer = Started(IdLimit)])
    BY <1>5, <2>1 DEF G2Voice
  <2>3. ids[i] \in IdRecord
    BY <2>1 DEF TypeOK
  <2>4. [ids[i] EXCEPT !.timer = Started(IdLimit)].end = ids[i].end
    BY <2>3 DEF IdRecord
  <2>5. QED
    BY <2>1, <2>2, <2>4 DEF Put
<1>6. ASSUME NEW i \in G2Ids, G2VoiceFault(i)
      PROVE  FALSE
  BY <1>6 DEF G2VoiceFault, Restart
<1>7. ASSUME NEW i \in ReflectorIds, ReflectorHeader(i)
      PROVE  IsRunning(linkTimer')
  BY <1>7, Limits DEF ReflectorHeader, Started, IsRunning
<1>8. ASSUME NEW i \in ReflectorIds, NEW end \in BOOLEAN, ReflectorVoice(i, end)
      PROVE  IsRunning(linkTimer')
  BY <1>8, Limits DEF ReflectorVoice, EndRelay, Started, IsRunning
<1>9. CASE LogoffAll
  BY <1>9 DEF LogoffAll
<1>10. ASSUME NEW u \in Droppable, LogoffUser(u)
       PROVE  IsRunning(linkTimer') \/ (relayed' \in DOMAIN ids' /\ ~ids'[relayed'].end)
  <2> DEFINE his == {i \in DOMAIN ids : ids[i].user = users[u]}
             first == {i \in his : \A j \in his : i <= j}
  <2>1. /\ ids' = Without(ids, first) /\ linkTimer' = linkTimer
        /\ relayed' = relayed /\ relayed \notin first
    BY <1>10 DEF LogoffUser
  <2> HIDE DEF first
  <2>2. QED
    BY <2>1 DEF Without, Restrict
<1>11. ASSUME NEW d \in 1..MaxStep, Clock(d)
       PROVE  IsRunning(linkTimer') \/ (relayed' \in DOMAIN ids' /\ ~ids'[relayed'].end)
  <2>1. ~RelayEnds(d) /\ relayed' = relayed
    BY <1>11 DEF Clock, EndRelay
  <2>2. CASE IsRunning(linkTimer)
    <3>1. linkTimer \in 0..LinkLimit /\ linkTimer > 0 /\ d \in Nat
      BY <2>2 DEF TypeOK, IsRunning
    <3>2. Advance(linkTimer, LinkLimit, d) \in 1..LinkLimit
      BY <3>1, Limits, AdvanceType
    <3>3. linkTimer' = Advance(linkTimer, LinkLimit, d)
      BY <1>11, <2>1 DEF Clock, RelayEnds
    <3>4. QED
      BY <3>2, <3>3, Limits DEF IsRunning
  <2>3. CASE relayed \in DOMAIN ids /\ ~ids[relayed].end
    <3>1. relayed \notin ExpiredIds(d) /\ relayed \in DOMAIN ids \ DeletedIds(d)
      BY <2>1, <2>3 DEF RelayEnds, DeletedIds
    <3>2. ids[relayed] \in IdRecord
      BY <2>3 DEF TypeOK
    <3>3. [ids[relayed] EXCEPT !.timer = Advance(ids[relayed].timer, IdLimit, d)].end = FALSE
      BY <2>3, <3>2 DEF IdRecord
    <3>4. QED
      BY <1>11, <2>1, <3>1, <3>3 DEF Clock, ClockIds
  <2>4. QED
    BY <2>1, <2>2, <2>3
<1>12. CASE Fault
  BY <1>12 DEF Fault, UnsubscribeFault, ClockFault, Restart
<1>13. CASE Cache
  BY <1>13 DEF Cache, UserHeard, GateUp, GateDown, groupVars
<1>14. CASE UNCHANGED vars
  BY <1>14 DEF vars, groupVars
<1>15. QED
  BY <1>1, <1>2, <1>3, <1>4, <1>5, <1>6, <1>7, <1>8, <1>9, <1>10, <1>11, <1>12, <1>13, <1>14
     DEF Next, Header, Voice, Reflector, Operator, Tick

\* Whenever m_id is set, a timer is running whose expiry clears it.
THEOREM RelayAlwaysTimed == Spec => []NoStuckRelay
<1>1. Init => NoStuckRelay
  BY DEF Init, NoStuckRelay
<1>2. QED
  BY <1>1, NoStuckRelayStep, TypeCorrect, PTL DEF Spec

-----------------------------------------------------------------------------
(***************************************************************************)
(* A user object is not deleted while a stream record refers to it.        *)
(***************************************************************************)

\* What restarting a timer, or letting d pass, does to its counter.
LEMMA TimerSteps ==
    /\ Started(IdLimit) = 1
    /\ Started(UserLimit) \in 0..1
    /\ \A t \in 0..UserLimit, d \in Nat :
          /\ Advance(t, UserLimit, d) \in Nat
          /\ Advance(t, UserLimit, d) <= t + d
    /\ \A t \in 1..IdLimit, d \in Nat :
          IF ExpiresWithin(t, IdLimit, d)
          THEN t + d >= IdLimit
          ELSE Advance(t, IdLimit, d) = t + d /\ t + d <= MessageDelay
  BY Limits, GroupAssumption
     DEF Started, Advance, ExpiresWithin, HasExpired, UserLimit, IdLimit, LimitOf, Stopped

\* What is used of TypeOK.
LEMMA Counters ==
    ASSUME TypeOK
    PROVE  /\ \A i \in DOMAIN ids : ids[i].timer \in 1..IdLimit /\ ids[i].end \in BOOLEAN
           /\ \A a \in DOMAIN heap : heap[a].timer \in 0..UserLimit
           /\ \A i \in DOMAIN ids : Slack(ids[i]) \in Nat
<1>1. \A i \in DOMAIN ids : ids[i] \in IdRecord
  BY DEF TypeOK
<1>2. \A a \in DOMAIN heap : heap[a] \in UserObject
  BY DEF TypeOK
<1>3. MessageDelay + MaxStep - 1 \in Nat
  BY GroupAssumption
<1>4. QED
  BY <1>1, <1>2, <1>3 DEF IdRecord, UserObject, Slack

\* The objects of subscribers are among those Keep keeps.
LEMMA KeepUsers ==
    ASSUME NEW h, NEW us, NEW is, NEW u \in DOMAIN us, us[u] \in DOMAIN h
    PROVE  us[u] \in DOMAIN Keep(h, us, is) /\ Keep(h, us, is)[us[u]] = h[us[u]]
  BY DEF Keep, Restrict, Reachable, Range

\* A step that changes no map and no user but for restarting the timers of some.
LEMMA FresherReset ==
    ASSUME TypeOK, UserOutlivesRecords, users' = users, DOMAIN heap' = DOMAIN heap,
           \A i \in DOMAIN ids' : i \in DOMAIN ids /\ ids'[i] = ids[i],
           \A a \in DOMAIN heap : heap'[a] = heap[a] \/ heap'[a].timer \in 0..1
    PROVE  UserOutlivesRecords'
<1>1. UsersAllocated' /\ RecordsPending'
  BY DEF UserOutlivesRecords, UsersAllocated, RecordsPending
<1>2. ASSUME NEW u \in DOMAIN users', NEW i \in DOMAIN ids', ids'[i].user = users'[u]
      PROVE  heap'[users'[u]].timer <= ids'[i].timer + Slack(ids'[i])
  <2>1. /\ u \in DOMAIN users /\ i \in DOMAIN ids /\ ids'[i] = ids[i] /\ users'[u] = users[u]
        /\ users[u] \in DOMAIN heap
    BY <1>2 DEF UserOutlivesRecords, UsersAllocated
  <2>2. ids[i].timer \in 1..IdLimit /\ Slack(ids[i]) \in Nat
    BY <2>1, Counters
  <2>3. heap[users[u]].timer <= ids[i].timer + Slack(ids[i])
    BY <1>2, <2>1 DEF UserOutlivesRecords, UsersFresher
  <2>4. CASE heap'[users[u]].timer \in 0..1
    BY <2>1, <2>2, <2>4, Limits
  <2>5. CASE heap'[users[u]] = heap[users[u]]
    BY <2>1, <2>3, <2>5
  <2>6. QED
    BY <2>1, <2>4, <2>5
<1>3. QED
  BY <1>1, <1>2 DEF UserOutlivesRecords, UsersFresher

LEMMA OutlivesSubscribe ==
    ASSUME TypeOK, UserOutlivesRecords, NEW my \in Users, NEW i \in G2Ids, Subscribe(my, i)
    PROVE  UserOutlivesRecords'
<1> USE Limits
<1>1. PICK a \in Addr \ DOMAIN heap :
        /\ users' = Put(users, my, a)
        /\ ids' = Put(ids, i, NewId(a, "login"))
        /\ heap' = Keep(Put(heap, a, NewUser(my)), users', ids')
  BY DEF Subscribe
<1>2. /\ DOMAIN users' = DOMAIN users \cup {my} /\ my \notin DOMAIN users
      /\ users'[my] = a
      /\ \A u \in DOMAIN users : users'[u] = users[u] /\ users[u] # a /\ users[u] \in DOMAIN heap
  BY <1>1 DEF Subscribe, Put, UserOutlivesRecords, UsersAllocated
<1>3. \A u \in DOMAIN users' : users'[u] \in DOMAIN Put(heap, a, NewUser(my))
  BY <1>2 DEF Put
<1>4. \A u \in DOMAIN users' : /\ users'[u] \in DOMAIN heap'
                               /\ heap'[users'[u]] = Put(heap, a, NewUser(my))[users'[u]]
  BY <1>1, <1>3, KeepUsers
<1>5. heap'[a].timer \in 0..1 /\ \A u \in DOMAIN users : heap'[users[u]] = heap[users[u]]
  <2>1. heap'[a] = NewUser(my)
    BY <1>2, <1>4 DEF Put
  <2>2. heap'[a].timer \in 0..1
    BY <2>1, TimerSteps DEF NewUser
  <2>3. \A u \in DOMAIN users : heap'[users[u]] = heap[users[u]]
    BY <1>2, <1>4 DEF Put
  <2>4. QED
    BY <2>2, <2>3
<1>6. /\ DOMAIN ids' = DOMAIN ids \cup {i}
      /\ ids'[i].user = a /\ ids'[i].timer = 1 /\ ids'[i].end = FALSE
      /\ \A j \in DOMAIN ids : j # i => ids'[j] = ids[j]
  BY <1>1, TimerSteps DEF Put, NewId
<1>7. UsersAllocated'
  BY <1>2, <1>4 DEF UserOutlivesRecords, UsersAllocated
<1>8. RecordsPending'
  BY <1>6, GroupAssumption DEF UserOutlivesRecords, RecordsPending
<1>9. ASSUME NEW u \in DOMAIN users', NEW j \in DOMAIN ids', ids'[j].user = users'[u]
      PROVE  heap'[users'[u]].timer <= ids'[j].timer + Slack(ids'[j])
  <2>1. ids'[j].timer >= 1 /\ ids'[j].timer \in Nat /\ Slack(ids'[j]) \in Nat
    BY <1>6, Counters DEF Slack
  <2>2. CASE u = my
    BY <1>2, <1>5, <2>1, <2>2
  <2>3. CASE u # my
    <3>1. j # i /\ j \in DOMAIN ids /\ ids'[j] = ids[j] /\ u \in DOMAIN users
      BY <1>2, <1>6, <1>9, <2>3
    <3>2. QED
      BY <1>2, <1>5, <1>9, <3>1 DEF UserOutlivesRecords, UsersFresher
  <2>4. QED
    BY <2>2, <2>3
<1>10. QED
  BY <1>7, <1>8, <1>9 DEF UserOutlivesRecords, UsersFresher

LEMMA OutlivesSpeak ==
    ASSUME TypeOK, UserOutlivesRecords, NEW my \in Users, NEW i \in G2Ids, Speak(my, i)
    PROVE  UserOutlivesRecords'
<1> USE Limits
<1>1. /\ users' = users /\ my \in DOMAIN users
      /\ DOMAIN heap' = DOMAIN heap
      /\ \A a \in DOMAIN heap : a # users[my] => heap'[a] = heap[a]
      /\ users[my] \in DOMAIN heap /\ heap'[users[my]] = ResetUser(heap[users[my]])
  BY DEF Speak, UserOutlivesRecords, UsersAllocated
<1>2. heap'[users[my]].timer \in 0..1
  BY <1>1, TimerSteps DEF ResetUser, NewUser
<1>3. /\ DOMAIN ids' = DOMAIN ids \cup {i}
      /\ ids'[i].user = users[my] /\ ids'[i].timer = 1 /\ ids'[i].end = FALSE
      /\ \A j \in DOMAIN ids : j # i => ids'[j] = ids[j]
  BY TimerSteps DEF Speak, Put, NewId
<1>4. UsersAllocated'
  BY <1>1 DEF UserOutlivesRecords, UsersAllocated
<1>5. RecordsPending'
  BY <1>3, GroupAssumption DEF UserOutlivesRecords, RecordsPending
<1>6. ASSUME NEW u \in DOMAIN users', NEW j \in DOMAIN ids', ids'[j].user = users'[u]
      PROVE  heap'[users'[u]].timer <= ids'[j].timer + Slack(ids'[j])
  <2>1. ids'[j].timer >= 1 /\ ids'[j].timer \in Nat /\ Slack(ids'[j]) \in Nat
    BY <1>3, Counters DEF Slack
  <2>2. CASE u = my
    BY <1>1, <1>2, <2>1, <2>2
  <2>3. CASE u # my
    <3>1. users[u] # users[my] /\ users[u] \in DOMAIN heap
      BY <1>1, <2>3 DEF UserOutlivesRecords, UsersAllocated
    <3>2. j # i /\ j \in DOMAIN ids /\ ids'[j] = ids[j]
      BY <1>1, <1>3, <1>6, <3>1
    <3>3. QED
      BY <1>1, <1>6, <3>1, <3>2 DEF UserOutlivesRecords, UsersFresher
  <2>4. QED
    BY <2>2, <2>3
<1>7. QED
  BY <1>4, <1>5, <1>6 DEF UserOutlivesRecords, UsersFresher

LEMMA OutlivesUnsubscribe ==
    ASSUME TypeOK, UserOutlivesRecords, NEW my \in Users, NEW i \in G2Ids, Unsubscribe(my, i)
    PROVE  UserOutlivesRecords'
<1> USE Limits
<1>1. /\ my \in DOMAIN users /\ DOMAIN users' = DOMAIN users \ {my}
      /\ \A u \in DOMAIN users' : users'[u] = users[u] /\ users[u] # users[my]
                                  /\ users[u] \in DOMAIN heap
  BY DEF Unsubscribe, Without, Restrict, UserOutlivesRecords, UsersAllocated
<1>2. \A u \in DOMAIN users' : users'[u] \in DOMAIN heap' /\ heap'[users'[u]] = heap[users[u]]
  BY <1>1, KeepUsers DEF Unsubscribe
<1>3. /\ DOMAIN ids' = DOMAIN ids \cup {i}
      /\ ids'[i].user = users[my] /\ ids'[i].timer = 1
      /\ \A j \in DOMAIN ids : j # i => ids'[j] = ids[j]
  BY TimerSteps DEF Unsubscribe, Put, NewId
<1>4. UsersAllocated'
  BY <1>1, <1>2 DEF UserOutlivesRecords, UsersAllocated
<1>5. RecordsPending'
  BY <1>3, GroupAssumption DEF UserOutlivesRecords, RecordsPending
<1>6. UsersFresher'
  BY <1>1, <1>2, <1>3 DEF UserOutlivesRecords, UsersFresher
<1>7. QED
  BY <1>4, <1>5, <1>6 DEF UserOutlivesRecords

LEMMA OutlivesG2Voice ==
    ASSUME TypeOK, UserOutlivesRecords, NEW i \in G2Ids, NEW end \in BOOLEAN, G2Voice(i, end)
    PROVE  UserOutlivesRecords'
<1> USE Limits
<1> DEFINE t == ids[i]
           gone == IF end /\ t.kind = "logoff" THEN {heap[t.user].call} ELSE {}
           h == IF i \in Dangling THEN heap
                ELSE [heap EXCEPT ![t.user] = ResetUser(heap[t.user])]
           next == IF end THEN EndId(t) ELSE [t EXCEPT !.timer = Started(IdLimit)]
<1>1. /\ users' = Without(users, gone)
      /\ heap' = Keep(h, users', ids')
      /\ ids' = IF end /\ t.kind = "voice" THEN Without(ids, {i}) ELSE Put(ids, i, next)
      /\ i \in DOMAIN ids
  BY DEF G2Voice
<1> HIDE DEF gone
<1>2. /\ DOMAIN h = DOMAIN heap
      /\ \A a \in DOMAIN heap : a # t.user => h[a] = heap[a]
      /\ t.user \in DOMAIN heap => h[t.user].timer \in 0..1
  <2>1. t.user \in DOMAIN heap => h[t.user] = ResetUser(heap[t.user])
    BY <1>1 DEF Dangling
  <2>2. t.user \in DOMAIN heap => h[t.user].timer \in 0..1
    BY <2>1, TimerSteps DEF ResetUser, NewUser
  <2>3. QED
    BY <2>2
<1> HIDE DEF h
<1>3. /\ DOMAIN users' \subseteq DOMAIN users
      /\ \A u \in DOMAIN users' : users'[u] = users[u] /\ users[u] \in DOMAIN heap
  BY <1>1 DEF Without, Restrict, UserOutlivesRecords, UsersAllocated
<1>4. \A u \in DOMAIN users' : users'[u] \in DOMAIN heap' /\ heap'[users'[u]] = h[users[u]]
  BY <1>1, <1>2, <1>3, KeepUsers
<1>5. next.user = t.user /\ next.timer = 1 /\ next.end \in BOOLEAN
  <2>1. t \in IdRecord
    BY <1>1 DEF TypeOK
  <2>2. QED
    BY <2>1, TimerSteps DEF IdRecord, EndId
<1> HIDE DEF next
<1>6. /\ DOMAIN ids' \subseteq DOMAIN ids
      /\ \A j \in DOMAIN ids' : j # i => ids'[j] = ids[j]
      /\ i \in DOMAIN ids' => ids'[i] = next
  <2>1. CASE end /\ t.kind = "voice"
    BY <1>1, <2>1 DEF Without, Restrict
  <2>2. CASE ~(end /\ t.kind = "voice")
    BY <1>1, <2>2 DEF Put
  <2>3. QED
    BY <2>1, <2>2
<1>7. UsersAllocated'
  BY <1>3, <1>4 DEF UserOutlivesRecords, UsersAllocated
<1>8. RecordsPending'
  BY <1>5, <1>6, GroupAssumption DEF UserOutlivesRecords, RecordsPending
<1>9. ASSUME NEW u \in DOMAIN users', NEW j \in DOMAIN ids', ids'[j].user = users'[u]
      PROVE  heap'[users'[u]].timer <= ids'[j].timer + Slack(ids'[j])
  <2>1. ids'[j].timer >= 1 /\ ids'[j].timer \in Nat /\ Slack(ids'[j]) \in Nat
    <3>1. CASE j = i
      BY <1>5, <1>6, <3>1, GroupAssumption DEF Slack
    <3>2. CASE j # i
      BY <1>6, <3>2, Counters
    <3>3. QED
      BY <3>1, <3>2
  <2>2. CASE users[u] = t.user
    <3>1. heap'[users'[u]].timer \in 0..1
      BY <1>2, <1>3, <1>4, <2>2
    <3>2. QED
      BY <2>1, <3>1
  <2>3. CASE users[u] # t.user
    <3>1. j # i /\ j \in DOMAIN ids /\ ids'[j] = ids[j]
      BY <1>3, <1>5, <1>6, <1>9, <2>3
    <3>2. QED
      BY <1>2, <1>3, <1>4, <1>9, <2>3, <3>1 DEF UserOutlivesRecords, UsersFresher
  <2>4. QED
    BY <2>2, <2>3
<1>10. QED
  BY <1>7, <1>8, <1>9 DEF UserOutlivesRecords, UsersFresher

LEMMA OutlivesLogoffUser ==
    ASSUME TypeOK, UserOutlivesRecords, NEW w \in Droppable, LogoffUser(w)
    PROVE  UserOutlivesRecords'
<1> USE Limits
<1> DEFINE his == {i \in DOMAIN ids : ids[i].user = users[w]}
           first == {i \in his : \A j \in his : i <= j}
           h == Without(heap, {users[w]})
<1>1. /\ w \in DOMAIN users /\ users' = Without(users, {w})
      /\ ids' = Empty \/ ids' = Without(ids, first)
      /\ heap' = Keep(h, users', ids')
  BY DEF LogoffUser
<1> HIDE DEF first
<1>2. /\ DOMAIN ids' \subseteq DOMAIN ids
      /\ \A j \in DOMAIN ids' : ids'[j] = ids[j]
  <2>1. CASE ids' = Empty
    BY <2>1 DEF Empty
  <2>2. CASE ids' = Without(ids, first)
    BY <2>2 DEF Without, Restrict
  <2>3. QED
    BY <1>1, <2>1, <2>2
<1>3. \A u \in DOMAIN users' : /\ u \in DOMAIN users /\ users'[u] = users[u]
                               /\ users[u] \in DOMAIN heap /\ users[u] # users[w]
  BY <1>1 DEF Without, Restrict, UserOutlivesRecords, UsersAllocated
<1>4. \A u \in DOMAIN users' : users'[u] \in DOMAIN h /\ h[users[u]] = heap[users[u]]
  BY <1>3 DEF Without, Restrict
<1> HIDE DEF h
<1>5. \A u \in DOMAIN users' : users'[u] \in DOMAIN heap' /\ heap'[users'[u]] = heap[users[u]]
  BY <1>1, <1>3, <1>4, KeepUsers
<1>6. QED
  BY <1>2, <1>3, <1>5 DEF UserOutlivesRecords, UsersAllocated, RecordsPending, UsersFresher

\* The users, objects and records after clockInt.
LEMMA ClockEffect ==
    ASSUME TypeOK, UserOutlivesRecords, NEW d \in 1..MaxStep, Clock(d)
    PROVE  /\ \A u \in DOMAIN users' :
                 /\ u \in DOMAIN users /\ users'[u] = users[u] /\ users[u] \in DOMAIN heap
                 /\ users'[u] \in DOMAIN heap'
                 /\ heap'[users'[u]].timer = Advance(heap[users[u]].timer, UserLimit, d)
           /\ \A i \in DOMAIN ids' :
                 /\ i \in DOMAIN ids /\ i \notin DeletedIds(d)
                 /\ ids'[i].user = ids[i].user
                 /\ IF i \in ExpiredIds(d)
                    THEN ids'[i].timer = 1 /\ ids'[i].end
                    ELSE /\ ids'[i].timer = Advance(ids[i].timer, IdLimit, d)
                         /\ ids'[i].end = ids[i].end
<1>1. /\ users' = Restrict(users, Clocked(d) \ TimedOut(d))
      /\ ids' = ClockIds(d)
      /\ heap' = Keep(ClockUsers(d), users', ids')
  BY DEF Clock
<1>2. ASSUME NEW u \in DOMAIN users'
      PROVE  /\ u \in DOMAIN users /\ users'[u] = users[u] /\ users[u] \in DOMAIN heap
             /\ users'[u] \in DOMAIN heap'
             /\ heap'[users'[u]].timer = Advance(heap[users[u]].timer, UserLimit, d)
  <2>1. /\ u \in Clocked(d) /\ u \notin TimedOut(d) /\ u \in DOMAIN users
        /\ users'[u] = users[u] /\ users[u] \in DOMAIN heap
    BY <1>1 DEF Restrict, Clocked, UserOutlivesRecords, UsersAllocated
  <2>2. users[u] \notin {users[v] : v \in TimedOut(d)}
    BY <2>1 DEF TimedOut, Clocked, UserOutlivesRecords, UsersAllocated
  <2>3. users[u] \in DOMAIN ClockUsers(d) /\ ClockUsers(d)[users[u]] = ClockedUser(heap[users[u]], d)
    BY <2>1, <2>2 DEF ClockUsers
  <2>4. users'[u] \in DOMAIN heap' /\ heap'[users'[u]] = ClockedUser(heap[users[u]], d)
    BY <1>1, <2>1, <2>3, KeepUsers
  <2>5. ClockedUser(heap[users[u]], d).timer = Advance(heap[users[u]].timer, UserLimit, d)
    <3>1. heap[users[u]] \in UserObject
      BY <2>1 DEF TypeOK
    <3>2. QED
      BY <3>1 DEF ClockedUser, UserObject
  <2>6. QED
    BY <2>1, <2>4, <2>5
<1>3. ASSUME NEW i \in DOMAIN ids'
      PROVE  /\ i \in DOMAIN ids /\ i \notin DeletedIds(d)
             /\ ids'[i].user = ids[i].user
             /\ IF i \in ExpiredIds(d)
                THEN ids'[i].timer = 1 /\ ids'[i].end
                ELSE /\ ids'[i].timer = Advance(ids[i].timer, IdLimit, d)
                     /\ ids'[i].end = ids[i].end
  <2>1. i \in DOMAIN ids /\ i \notin DeletedIds(d)
    BY <1>1 DEF ClockIds
  <2>2. ids[i] \in IdRecord
    BY <2>1 DEF TypeOK
  <2>3. CASE i \in ExpiredIds(d)
    <3>1. ids'[i] = EndId(ids[i])
      BY <1>1, <2>1, <2>3 DEF ClockIds
    <3>2. QED
      BY <2>1, <2>2, <2>3, <3>1, TimerSteps DEF EndId, IdRecord
  <2>4. CASE i \notin ExpiredIds(d)
    <3>1. ids'[i] = [ids[i] EXCEPT !.timer = Advance(ids[i].timer, IdLimit, d)]
      BY <1>1, <2>1, <2>4 DEF ClockIds
    <3>2. QED
      BY <2>1, <2>2, <2>4, <3>1 DEF IdRecord
  <2>5. QED
    BY <2>3, <2>4
<1>4. QED
  BY <1>2, <1>3

LEMMA OutlivesClock ==
    ASSUME TypeOK, UserOutlivesRecords, NEW d \in 1..MaxStep, Clock(d)
    PROVE  UserOutlivesRecords'
<1> USE Limits
<1>0. d \in Nat /\ d >= 1 /\ d <= MaxStep /\ MaxStep \in Nat /\ MessageDelay \in Nat /\ MessageDelay >= 1
  BY GroupAssumption
<1>1. UsersAllocated'
  BY ClockEffect DEF UserOutlivesRecords, UsersAllocated
<1>2. \A i \in DOMAIN ids' :
        /\ ids[i].timer \in 1..IdLimit /\ ids[i].timer <= MessageDelay
        /\ i \notin ExpiredIds(d) =>
              ids'[i].timer = ids[i].timer + d /\ ids[i].timer + d <= MessageDelay
  <2>1. TAKE i \in DOMAIN ids'
  <2>2. i \in DOMAIN ids /\ ids[i].timer \in 1..IdLimit /\ ids[i].timer <= MessageDelay
    BY ClockEffect, Counters DEF UserOutlivesRecords, RecordsPending
  <2>3. ASSUME i \notin ExpiredIds(d)
        PROVE  ids'[i].timer = ids[i].timer + d /\ ids[i].timer + d <= MessageDelay
    <3>1. ~ExpiresWithin(ids[i].timer, IdLimit, d)
      BY <2>2, <2>3 DEF ExpiredIds
    <3>2. ids'[i].timer = Advance(ids[i].timer, IdLimit, d)
      BY <2>3, ClockEffect
    <3>3. QED
      BY <1>0, <2>2, <3>1, <3>2, TimerSteps
  <2>4. QED
    BY <2>2, <2>3
<1>3. RecordsPending'
  BY <1>0, <1>2, ClockEffect DEF RecordsPending
<1>4. ASSUME NEW u \in DOMAIN users', NEW j \in DOMAIN ids', ids'[j].user = users'[u]
      PROVE  heap'[users'[u]].timer <= ids'[j].timer + Slack(ids'[j])
  <2> DEFINE ut == heap[users[u]].timer
  <2>1. /\ u \in DOMAIN users /\ users[u] \in DOMAIN heap /\ j \in DOMAIN ids
        /\ ids[j].user = users[u] /\ j \notin DeletedIds(d)
    BY <1>4, ClockEffect
  <2>2. ut \in 0..UserLimit /\ Slack(ids[j]) \in Nat
    BY <2>1, Counters
  <2>3. ut <= ids[j].timer + Slack(ids[j])
    BY <2>1 DEF UserOutlivesRecords, UsersFresher
  <2>4. heap'[users'[u]].timer \in Nat /\ heap'[users'[u]].timer <= ut + d
    <3>1. heap'[users'[u]].timer = Advance(ut, UserLimit, d)
      BY ClockEffect
    <3>2. QED
      BY <1>0, <2>2, <3>1, TimerSteps
  <2> HIDE DEF ut
  <2>5. CASE j \in ExpiredIds(d)
    <3>1. ~ids[j].end
      BY <2>1, <2>5 DEF DeletedIds
    <3>2. ut <= MessageDelay
      <4>1. Slack(ids[j]) = 0 /\ ids[j].timer \in Nat /\ ids[j].timer <= MessageDelay
        BY <1>2, <3>1 DEF Slack
      <4>2. QED
        BY <1>0, <2>2, <2>3, <4>1
    <3>3. ids'[j].timer = 1 /\ Slack(ids'[j]) = MessageDelay + MaxStep - 1
      BY <2>5, ClockEffect DEF Slack
    <3>4. QED
      BY <1>0, <2>2, <2>4, <3>2, <3>3
  <2>6. CASE j \notin ExpiredIds(d)
    <3>1. ids'[j].timer = ids[j].timer + d /\ Slack(ids'[j]) = Slack(ids[j])
      BY <1>2, <2>6, ClockEffect DEF Slack
    <3>2. ids[j].timer \in 1..IdLimit
      BY <1>2
    <3>3. QED
      BY <1>0, <2>2, <2>3, <2>4, <3>1, <3>2
  <2>7. QED
    BY <2>5, <2>6
<1>5. QED
  BY <1>1, <1>3, <1>4 DEF UserOutlivesRecords, UsersFresher

\* Every handler; only the clock needs the bound on the length of a turn, and
\* that only for Slack.
LEMMA OutlivesStep == TypeOK /\ UserOutlivesRecords /\ [Next]_vars => UserOutlivesRecords'
<1> SUFFICES ASSUME TypeOK, UserOutlivesRecords, [Next]_vars PROVE UserOutlivesRecords'
  OBVIOUS
<1>1. ASSUME NEW my \in Users, NEW i \in G2Ids, DuplicateHeader(my, i)
      PROVE  UserOutlivesRecords'
  <2>1. ASSUME NEW a \in DOMAIN heap
        PROVE  heap'[a] = heap[a] \/ heap'[a].timer \in 0..1
    BY <1>1, TimerSteps DEF DuplicateHeader, ResetUser, NewUser
  <2>2. QED
    BY <1>1, <2>1, FresherReset DEF DuplicateHeader
<1>2. ASSUME users' = Empty, ids' = Empty
      PROVE  UserOutlivesRecords'
  BY <1>2 DEF Empty, UserOutlivesRecords, UsersAllocated, RecordsPending, UsersFresher
<1>3. ASSUME UNCHANGED <<users, heap, ids>>
      PROVE  UserOutlivesRecords'
  BY <1>3 DEF UserOutlivesRecords, UsersAllocated, RecordsPending, UsersFresher
<1>4. CASE Header
  BY <1>1, <1>4, OutlivesSubscribe, OutlivesSpeak, OutlivesUnsubscribe DEF Header
<1>5. CASE Voice
  <2>1. ASSUME NEW i \in G2Ids, G2VoiceFault(i)
        PROVE  UserOutlivesRecords'
    BY <1>2, <2>1 DEF G2VoiceFault, Restart
  <2>2. QED
    BY <1>5, <2>1, OutlivesG2Voice DEF Voice
<1>6. CASE Reflector
  BY <1>3, <1>6 DEF Reflector, ReflectorHeader, ReflectorVoice
<1>7. CASE Operator
  <2>1. CASE LogoffAll
    BY <1>2, <2>1 DEF LogoffAll
  <2>2. QED
    BY <1>7, <2>1, OutlivesLogoffUser DEF Operator
<1>8. CASE Cache
  BY <1>3, <1>8 DEF Cache, UserHeard, GateUp, GateDown, groupVars
<1>9. CASE Tick
  BY <1>9, OutlivesClock DEF Tick
<1>10. CASE Fault
  BY <1>2, <1>10 DEF Fault, UnsubscribeFault, ClockFault, Restart
<1>11. CASE UNCHANGED vars
  BY <1>3, <1>11 DEF vars, groupVars
<1>12. QED
  BY <1>4, <1>5, <1>6, <1>7, <1>8, <1>9, <1>10, <1>11 DEF Next

\* The inactivity timer of a subscriber, which all handlers restart with the
\* timers of his streams, is never far ahead of them, and the object m_users
\* has for him is his own and allocated.
THEOREM UsersOutlive == Spec => []UserOutlivesRecords
<1>1. Init => UserOutlivesRecords
  BY DEF Init, Empty, UserOutlivesRecords, UsersAllocated, RecordsPending, UsersFresher
<1>2. QED
  BY <1>1, OutlivesStep, TypeCorrect, PTL DEF Spec

\* What makes a record dangle: a reference that Keep does not keep.
LEMMA NotDangling ==
    ASSUME NEW h, heap' = Keep(h, users', ids'),
           \A i \in DOMAIN ids' : \/ ids'[i].user \in DOMAIN h
                                  \/ i \in DOMAIN ids /\ ids[i].user \notin DOMAIN heap
    PROVE  Dangling' \subseteq Dangling
  BY DEF Dangling, Keep, Restrict, Reachable

\* A user who times out has no record left, so deleting his object is safe.
LEMMA DanglingClock ==
    ASSUME TypeOK, UserOutlivesRecords, StallBound, NEW d \in 1..MaxStep, Clock(d)
    PROVE  Dangling' \subseteq Dangling
<1> USE Limits
<1>0. /\ d \in Nat /\ d <= MaxStep /\ MaxStep \in Nat
      /\ MessageDelay \in Nat /\ MessageDelay >= 1 /\ UserTimeout \in Nat
  BY GroupAssumption
<1>1. heap' = Keep(ClockUsers(d), users', ids')
  BY DEF Clock
<1>2. ASSUME NEW i \in DOMAIN ids', ids[i].user \in DOMAIN heap,
             ids'[i].user \notin DOMAIN ClockUsers(d)
      PROVE  FALSE
  <2>1. i \in DOMAIN ids /\ i \notin DeletedIds(d) /\ ids'[i].user = ids[i].user
    BY ClockEffect
  <2>2. PICK u \in TimedOut(d) : ids[i].user = users[u]
    BY <1>2, <2>1 DEF ClockUsers
  <2> DEFINE ut == heap[users[u]].timer
             it == ids[i].timer
  <2>3. u \in DOMAIN users /\ ExpiresWithin(ut, UserLimit, d)
    BY <2>2 DEF TimedOut, Clocked
  <2>4. /\ ut \in 0..UserLimit /\ it \in 1..IdLimit /\ it <= MessageDelay
        /\ ids[i].end \in BOOLEAN /\ Slack(ids[i]) \in Nat
    BY <1>2, <2>1, <2>2, Counters DEF UserOutlivesRecords, RecordsPending
  <2>5. ut <= it + Slack(ids[i])
    BY <2>1, <2>2, <2>3 DEF UserOutlivesRecords, UsersFresher
  <2> HIDE DEF ut
  <2>6. UserTimeout # 0 /\ ut + d >= UserTimeout + 1
    BY <1>0, <2>3, <2>4 DEF ExpiresWithin, HasExpired, Advance, UserLimit, LimitOf
  <2>7. 2 * MessageDelay + MaxStep <= UserTimeout + 1
    BY <2>6 DEF StallBound
  <2>8. CASE ids[i].end
    <3>1. ~ExpiresWithin(it, IdLimit, d)
      BY <2>1, <2>8 DEF DeletedIds, ExpiredIds
    <3>2. it + d <= MessageDelay
      BY <1>0, <2>4, <3>1, TimerSteps
    <3>3. Slack(ids[i]) = MessageDelay + MaxStep - 1
      BY <2>8 DEF Slack
    <3> HIDE DEF it
    <3>4. QED
      BY <1>0, <2>4, <2>5, <2>6, <2>7, <3>2, <3>3
  <2>9. CASE ~ids[i].end
    <3>1. Slack(ids[i]) = 0
      BY <2>9 DEF Slack
    <3> HIDE DEF it
    <3>2. QED
      BY <1>0, <2>4, <2>5, <2>6, <2>7, <3>1
  <2>10. QED
    BY <2>8, <2>9
<1>3. ASSUME NEW i \in DOMAIN ids'
      PROVE  \/ ids'[i].user \in DOMAIN ClockUsers(d)
             \/ i \in DOMAIN ids /\ ids[i].user \notin DOMAIN heap
  BY <1>2, ClockEffect
<1>4. QED
  BY <1>1, <1>3, NotDangling

LEMMA DanglingHeader ==
    ASSUME TypeOK, UserOutlivesRecords, NEW my \in Users, NEW i \in G2Ids,
           Subscribe(my, i) \/ Speak(my, i) \/ DuplicateHeader(my, i) \/ Unsubscribe(my, i)
    PROVE  Dangling' \subseteq Dangling
<1>1. CASE Subscribe(my, i)
  <2>1. PICK a \in Addr \ DOMAIN heap :
          /\ ids' = Put(ids, i, NewId(a, "login"))
          /\ heap' = Keep(Put(heap, a, NewUser(my)), users', ids')
    BY <1>1 DEF Subscribe
  <2> DEFINE h == Put(heap, a, NewUser(my))
  <2>2. DOMAIN h = DOMAIN heap \cup {a}
    BY DEF Put
  <2>3. DOMAIN ids' = DOMAIN ids \cup {i} /\ ids'[i].user = a
        /\ \A j \in DOMAIN ids : j # i => ids'[j] = ids[j]
    BY <2>1 DEF Put, NewId
  <2>4. \A j \in DOMAIN ids' : \/ ids'[j].user \in DOMAIN h
                               \/ j \in DOMAIN ids /\ ids[j].user \notin DOMAIN heap
    BY <2>2, <2>3
  <2>5. heap' = Keep(h, users', ids')
    BY <2>1
  <2> HIDE DEF h
  <2>6. QED
    BY <2>4, <2>5, NotDangling
<1>2. CASE Speak(my, i)
  <2>1. users[my] \in DOMAIN heap /\ DOMAIN heap' = DOMAIN heap
    BY <1>2 DEF Speak, UserOutlivesRecords, UsersAllocated
  <2>2. ids' = Put(ids, i, NewId(users[my], "voice"))
    BY <1>2 DEF Speak
  <2>3. QED
    BY <2>1, <2>2 DEF Dangling, Put, NewId
<1>3. CASE DuplicateHeader(my, i)
  BY <1>3 DEF DuplicateHeader, Dangling
<1>4. CASE Unsubscribe(my, i)
  <2>1. users[my] \in DOMAIN heap /\ heap' = Keep(heap, users', ids')
    BY <1>4 DEF Unsubscribe, UserOutlivesRecords, UsersAllocated
  <2>2. DOMAIN ids' = DOMAIN ids \cup {i} /\ ids'[i].user = users[my]
        /\ \A j \in DOMAIN ids : j # i => ids'[j] = ids[j]
    BY <1>4 DEF Unsubscribe, Put, NewId
  <2>3. \A j \in DOMAIN ids' : \/ ids'[j].user \in DOMAIN heap
                               \/ j \in DOMAIN ids /\ ids[j].user \notin DOMAIN heap
    BY <2>1, <2>2
  <2>4. QED
    BY <2>1, <2>3, NotDangling
<1>5. QED
  BY <1>1, <1>2, <1>3, <1>4

LEMMA DanglingVoice ==
    ASSUME TypeOK, NEW i \in G2Ids, NEW end \in BOOLEAN, G2Voice(i, end)
    PROVE  Dangling' \subseteq Dangling
<1> DEFINE t == ids[i]
           h == IF i \in Dangling THEN heap
                ELSE [heap EXCEPT ![t.user] = ResetUser(heap[t.user])]
           next == IF end THEN EndId(t) ELSE [t EXCEPT !.timer = Started(IdLimit)]
<1>1. /\ heap' = Keep(h, users', ids')
      /\ ids' = IF end /\ t.kind = "voice" THEN Without(ids, {i}) ELSE Put(ids, i, next)
      /\ i \in DOMAIN ids
  BY DEF G2Voice
<1>2. DOMAIN h = DOMAIN heap
  OBVIOUS
<1> HIDE DEF h
<1>3. next.user = t.user
  <2>1. t \in IdRecord
    BY <1>1 DEF TypeOK
  <2>2. QED
    BY <2>1 DEF IdRecord, EndId
<1> HIDE DEF next
<1>4. \A j \in DOMAIN ids' : j \in DOMAIN ids /\ ids'[j].user = ids[j].user
  <2>1. CASE end /\ t.kind = "voice"
    BY <1>1, <2>1 DEF Without, Restrict
  <2>2. CASE ~(end /\ t.kind = "voice")
    BY <1>1, <1>3, <2>2 DEF Put
  <2>3. QED
    BY <2>1, <2>2
<1>5. \A j \in DOMAIN ids' : \/ ids'[j].user \in DOMAIN h
                             \/ j \in DOMAIN ids /\ ids[j].user \notin DOMAIN heap
  BY <1>2, <1>4
<1>6. QED
  BY <1>1, <1>5, NotDangling

LEMMA DanglingStep ==
    ASSUME TypeOK, UserOutlivesRecords, StallBound, [Next]_vars
    PROVE  Dangling' \subseteq Dangling \/ \E u \in Droppable : LogoffUser(u)
<1>1. ASSUME UNCHANGED <<heap, ids>> PROVE Dangling' \subseteq Dangling
  BY <1>1 DEF Dangling
<1>2. ASSUME ids' = Empty PROVE Dangling' \subseteq Dangling
  BY <1>2 DEF Dangling, Empty
<1>3. CASE Header
  BY <1>3, DanglingHeader DEF Header
<1>4. CASE Voice
  <2>1. ASSUME NEW i \in G2Ids, G2VoiceFault(i) PROVE Dangling' \subseteq Dangling
    BY <1>2, <2>1 DEF G2VoiceFault, Restart
  <2>2. QED
    BY <1>4, <2>1, DanglingVoice DEF Voice
<1>5. CASE Reflector
  BY <1>1, <1>5 DEF Reflector, ReflectorHeader, ReflectorVoice
<1>6. CASE Operator
  BY <1>2, <1>6 DEF Operator, LogoffAll
<1>7. CASE Cache
  BY <1>1, <1>7 DEF Cache, UserHeard, GateUp, GateDown, groupVars
<1>8. CASE Tick
  BY <1>8, DanglingClock DEF Tick
<1>9. CASE Fault
  BY <1>2, <1>9 DEF Fault, UnsubscribeFault, ClockFault, Restart
<1>10. CASE UNCHANGED vars
  BY <1>1, <1>10 DEF vars, groupVars
<1>11. QED
  BY <1>3, <1>4, <1>5, <1>6, <1>7, <1>8, <1>9, <1>10 DEF Next

\* The CSGSUser a CSGSId points to is only deleted under its hands by
\* LogoffUser: neither the inactivity timer nor anything else in clockInt or in
\* the handlers of headers and frames does it, if no turn of the main loop is so
\* long that StallBound fails.
THEOREM OnlyDropsDangle ==
    ASSUME StallBound
    PROVE  Spec => DanglesOnlyByDrop
<1>1. TypeOK /\ UserOutlivesRecords /\ [Next]_vars
          => [Dangling' \subseteq Dangling \/ \E u \in Droppable : LogoffUser(u)]_vars
  BY DanglingStep
<1>2. QED
  BY <1>1, TypeCorrect, UsersOutlive, PTL DEF Spec, DanglesOnlyByDrop

-----------------------------------------------------------------------------
(***************************************************************************)
(* One talker at a time: the group implements Floor.                       *)
(***************************************************************************)

\* While the group is idle m_repeaters holds what the drop of a talker has left
\* there, and nothing else.
Silent == relayed = NoId => repeaters \subseteq left

\* The audience of a talk.
Hearers == repeaters \ left

LEMMA SilentEnd ==
    ASSUME Silent, relayed' = NoId, repeaters' \subseteq left'
    PROVE  Silent' /\ [TheFloor!Next]_<<relayed, Hearers>>
<1>1. Hearers' = {} /\ relayed = NoId => Hearers = {}
  BY DEF Silent, Hearers
<1>2. CASE relayed = NoId
  BY <1>1, <1>2 DEF Silent, Hearers
<1>3. CASE relayed # NoId
  BY <1>1, <1>3 DEF Silent, Hearers, TheFloor!Next, TheFloor!Release
<1>4. QED
  BY <1>2, <1>3

LEMMA SilentSame ==
    ASSUME Silent, UNCHANGED <<relayed, repeaters>>, Forget
    PROVE  Silent' /\ [TheFloor!Next]_<<relayed, Hearers>>
<1>1. Hearers' = Hearers
  BY DEF Forget, Hearers
<1>2. QED
  BY <1>1 DEF Silent, Forget

LEMMA SilentTake ==
    ASSUME TypeOK, Silent, NEW i \in Ids, relayed = NoId, relayed' = i,
           NEW R, R \subseteq Repeaters, repeaters' = repeaters \cup R
    PROVE  Silent' /\ [TheFloor!Next]_<<relayed, Hearers>>
<1>1. i # NoId
  BY GroupAssumption
<1>2. Hearers' \in SUBSET Repeaters
  BY DEF TypeOK, Hearers
<1>3. TheFloor!Take(i)
  BY <1>2 DEF TheFloor!Take, Hearers
<1>4. QED
  BY <1>1, <1>3 DEF Silent, TheFloor!Next

LEMMA SilentRelayFrom ==
    ASSUME TypeOK, Silent, NEW my \in Users, NEW i \in G2Ids, DOMAIN users' \subseteq Users,
           RelayFrom(my, i), UNCHANGED rptrOf, UNCHANGED located, Forget
    PROVE  Silent' /\ [TheFloor!Next]_<<relayed, Hearers>>
<1>1. CASE relayed # NoId
  BY <1>1, SilentSame DEF RelayFrom
<1>2. CASE relayed = NoId
  <2> DEFINE R == ZoneOf(my, DOMAIN users')
  <2>1. relayed' = i /\ repeaters' = repeaters \cup R
    BY <1>2 DEF RelayFrom
  <2>2. R \subseteq Repeaters /\ i \in Ids
    BY ZoneType DEF ZoneOf, Ids
  <2> HIDE DEF R
  <2>3. QED
    BY <1>2, <2>1, <2>2, SilentTake
<1>3. QED
  BY <1>1, <1>2

LEMMA SilentStep ==
    ASSUME TypeOK, TypeOK', Silent, [Next]_vars
    PROVE  Silent' /\ [TheFloor!Next]_<<relayed, Hearers>>
<1> DEFINE Goal == Silent' /\ [TheFloor!Next]_<<relayed, Hearers>>
<1>1. ASSUME UNCHANGED <<relayed, repeaters, left>> PROVE Goal
  BY <1>1 DEF Silent, Hearers
<1>2. ASSUME relayed' = NoId, repeaters' \subseteq left' PROVE Goal
  BY <1>2, SilentEnd
<1>3. ASSUME UNCHANGED <<relayed, repeaters>>, Forget PROVE Goal
  BY <1>3, SilentSame
<1>4. CASE Header
  <2>1. PICK my \in Users, i \in G2Ids :
          Subscribe(my, i) \/ Speak(my, i) \/ DuplicateHeader(my, i) \/ Unsubscribe(my, i)
    BY <1>4 DEF Header
  <2>2. DOMAIN users' \subseteq Users
    BY DEF TypeOK
  <2>3. CASE Subscribe(my, i) \/ Speak(my, i)
    BY <2>2, <2>3, SilentRelayFrom DEF Subscribe, Speak, cacheVars
  <2>4. CASE DuplicateHeader(my, i) \/ Unsubscribe(my, i)
    BY <1>3, <2>4 DEF DuplicateHeader, Unsubscribe
  <2>5. QED
    BY <2>1, <2>3, <2>4
<1>5. CASE Voice
  <2>1. ASSUME NEW i \in G2Ids, NEW end \in BOOLEAN, G2Voice(i, end) PROVE Goal
    BY <1>2, <1>3, <2>1 DEF G2Voice, EndRelay
  <2>2. ASSUME NEW i \in G2Ids, G2VoiceFault(i) PROVE Goal
    BY <1>2, <2>2 DEF G2VoiceFault, Restart
  <2>3. QED
    BY <1>5, <2>1, <2>2 DEF Voice
<1>6. CASE Reflector
  <2>1. ASSUME NEW i \in ReflectorIds, ReflectorHeader(i) PROVE Goal
    <3> DEFINE R == SubscribedRepeaters(DOMAIN users)
    <3>1. R \subseteq Repeaters /\ i \in Ids
      BY ZoneType DEF TypeOK, Ids
    <3>2. relayed = NoId /\ relayed' = i /\ repeaters' = repeaters \cup R
      BY <2>1 DEF ReflectorHeader
    <3> HIDE DEF R
    <3>3. QED
      BY <3>1, <3>2, SilentTake
  <2>2. ASSUME NEW i \in ReflectorIds, NEW end \in BOOLEAN, ReflectorVoice(i, end) PROVE Goal
    BY <1>2, <1>3, <2>2 DEF ReflectorVoice, EndRelay
  <2>3. QED
    BY <1>6, <2>1, <2>2 DEF Reflector
<1>7. CASE Operator
  <2>1. CASE LogoffAll
    BY <1>2, <2>1 DEF LogoffAll
  <2>2. ASSUME NEW u \in Droppable, LogoffUser(u) PROVE Goal
    <3>1. CASE relayed' = NoId
      BY <1>2, <2>2, <3>1 DEF LogoffUser
    <3>2. CASE relayed' # NoId
      BY <1>1, <2>2, <3>2 DEF LogoffUser
    <3>3. QED
      BY <3>1, <3>2
  <2>3. QED
    BY <1>7, <2>1, <2>2 DEF Operator
<1>8. CASE Cache
  BY <1>1, <1>8 DEF Cache, UserHeard, GateUp, GateDown, groupVars
<1>9. CASE Tick
  BY <1>2, <1>3, <1>9 DEF Tick, Clock, EndRelay
<1>10. CASE Fault
  BY <1>2, <1>10 DEF Fault, UnsubscribeFault, ClockFault, Restart
<1>11. CASE UNCHANGED vars
  BY <1>1, <1>11 DEF vars, groupVars
<1>12. QED
  BY <1>4, <1>5, <1>6, <1>7, <1>8, <1>9, <1>10, <1>11 DEF Next

\* m_id and m_repeaters implement a floor only one stream has at a time, whose
\* audience is fixed when it is taken: of all the handlers that set m_id none
\* does while it is set, and those that clear it leave no audience, the repeaters
\* that the drop of a talker leaves in m_repeaters not counted.
THEOREM FloorImplemented == Spec => OneTalker
<1>1. Init => TheFloor!Init /\ Silent
  BY DEF Init, TheFloor!Init, Silent
<1>2. TypeOK /\ TypeOK' /\ Silent /\ [Next]_vars
          => Silent' /\ [TheFloor!Next]_<<relayed, repeaters \ left>>
  BY SilentStep DEF Hearers
<1>3. QED
  BY <1>1, <1>2, TypeCorrect, PTL DEF Spec, OneTalker, TheFloor!Spec

-----------------------------------------------------------------------------
(***************************************************************************)
(* What the relay leaves behind, and whom it reaches.                      *)
(***************************************************************************)

\* Every handler that clears m_id but the drop of a single user clears
\* m_repeaters too.
LEMMA EndsClean ==
    ASSUME [Next]_vars, relayed # NoId, relayed' = NoId
    PROVE  repeaters' = {} \/ \E u \in Droppable : LogoffUser(u)
<1>1. CASE Header
  BY <1>1 DEF Header, Subscribe, Speak, DuplicateHeader, Unsubscribe, RelayFrom
<1>2. CASE Voice
  BY <1>2 DEF Voice, G2Voice, G2VoiceFault, EndRelay, Restart
<1>3. CASE Reflector
  BY <1>3 DEF Reflector, ReflectorHeader, ReflectorVoice, EndRelay
<1>4. CASE Operator
  BY <1>4 DEF Operator, LogoffAll
<1>5. CASE Cache
  BY <1>5 DEF Cache, UserHeard, GateUp, GateDown, groupVars
<1>6. CASE Tick
  BY <1>6 DEF Tick, Clock, EndRelay
<1>7. CASE Fault
  BY <1>7 DEF Fault, UnsubscribeFault, ClockFault, Restart
<1>8. CASE UNCHANGED vars
  BY <1>8 DEF vars, groupVars
<1>9. QED
  BY <1>1, <1>2, <1>3, <1>4, <1>5, <1>6, <1>7, <1>8 DEF Next

\* A talk that is over, by its end frame, a timeout of either kind, the drop of
\* all users or a crash, leaves no repeater to the next one.
THEOREM RelayLeavesNothing == Spec => RelayEndsClean
<1>1. [Next]_vars => [relayed # NoId /\ relayed' = NoId =>
          repeaters' = {} \/ \E u \in Droppable : LogoffUser(u)]_vars
  BY EndsClean
<1>2. QED
  BY <1>1, PTL DEF Spec, RelayEndsClean

\* A speaker who takes the group finds in m_repeaters only what the drop of a
\* talker has left there, and his own repeater is left out of what is added,
\* wherever the IRC network has heard him meanwhile.
THEOREM SpeakersNotEchoed == Spec => NoEcho
<1>1. Init => Silent
  BY DEF Init, Silent
<1>2. TypeOK /\ TypeOK' /\ Silent /\ [Next]_vars => Silent'
  BY SilentStep
<1>3. ASSUME Silent, NEW my \in Users, NEW i \in G2Ids, relayed = NoId,
             Subscribe(my, i) \/ Speak(my, i)
      PROVE  rptrOf[my] \notin repeaters' \ left
  <2>1. repeaters' \subseteq left \cup ZoneOf(my, DOMAIN users')
    BY <1>3 DEF Subscribe, Speak, RelayFrom, Silent
  <2>2. QED
    BY <2>1 DEF ZoneOf
<1>4. Silent => [\A my \in Users, i \in G2Ids :
          relayed = NoId /\ (Subscribe(my, i) \/ Speak(my, i))
              => rptrOf[my] \notin repeaters' \ left]_vars
  BY <1>3
<1>5. QED
  BY <1>1, <1>2, <1>4, TypeCorrect, PTL DEF Spec, NoEcho

-----------------------------------------------------------------------------
(***************************************************************************)
(* For what reasons subscriptions end.                                     *)
(***************************************************************************)

\* The object of a logoff record is allocated and no subscriber's: once it is
\* erased from m_users only its records refer to it, and nothing deletes it
\* before them, an operator neither.
LogoffsAllocated ==
    \A i \in DOMAIN ids :
        ids[i].kind = "logoff" =>
            ids[i].user \in DOMAIN heap /\ \A u \in DOMAIN users : users[u] # ids[i].user

\* The objects of records are among those Keep keeps.
LEMMA KeepRecords ==
    ASSUME NEW h, NEW us, NEW is, NEW i \in DOMAIN is, is[i].user \in DOMAIN h
    PROVE  is[i].user \in DOMAIN Keep(h, us, is)
  BY DEF Keep, Restrict, Reachable

\* A step that logs nobody off: the logoff records there are refer to objects
\* they did before, which are kept, and subscribers only get others.
LEMMA LogoffsKept ==
    ASSUME LogoffsAllocated, NEW h, heap' = Keep(h, users', ids'),
           \A i \in DOMAIN ids' : ids'[i].kind = "logoff" =>
               /\ i \in DOMAIN ids /\ ids[i].kind = "logoff" /\ ids'[i].user = ids[i].user
               /\ ids[i].user \in DOMAIN heap => ids[i].user \in DOMAIN h,
           \A u \in DOMAIN users' : \/ u \in DOMAIN users /\ users'[u] = users[u]
                                    \/ users'[u] \notin DOMAIN heap
    PROVE  LogoffsAllocated'
<1> SUFFICES ASSUME NEW i \in DOMAIN ids', ids'[i].kind = "logoff"
             PROVE  /\ ids'[i].user \in DOMAIN heap'
                    /\ \A u \in DOMAIN users' : users'[u] # ids'[i].user
  BY DEF LogoffsAllocated
<1>1. /\ i \in DOMAIN ids /\ ids[i].kind = "logoff" /\ ids'[i].user = ids[i].user
      /\ ids[i].user \in DOMAIN heap /\ ids[i].user \in DOMAIN h
      /\ \A u \in DOMAIN users : users[u] # ids[i].user
  BY DEF LogoffsAllocated
<1>2. ids'[i].user \in DOMAIN heap'
  BY <1>1, KeepRecords
<1>3. QED
  BY <1>1, <1>2

LEMMA LogoffsHeader ==
    ASSUME UserOutlivesRecords, LogoffsAllocated, NEW my \in Users, NEW i \in G2Ids,
           Subscribe(my, i) \/ Speak(my, i) \/ DuplicateHeader(my, i) \/ Unsubscribe(my, i)
    PROVE  LogoffsAllocated'
<1>1. CASE Subscribe(my, i)
  <2>1. PICK a \in Addr \ DOMAIN heap :
          /\ users' = Put(users, my, a)
          /\ ids' = Put(ids, i, NewId(a, "login"))
          /\ heap' = Keep(Put(heap, a, NewUser(my)), users', ids')
    BY <1>1 DEF Subscribe
  <2> DEFINE h == Put(heap, a, NewUser(my))
  <2>2. \A b \in DOMAIN heap : b \in DOMAIN h
    BY DEF Put
  <2>3. \A j \in DOMAIN ids' : ids'[j].kind = "logoff" =>
            j \in DOMAIN ids /\ ids[j].kind = "logoff" /\ ids'[j].user = ids[j].user
    BY <2>1 DEF Put, NewId
  <2>4. \A u \in DOMAIN users' : \/ u \in DOMAIN users /\ users'[u] = users[u]
                                 \/ users'[u] \notin DOMAIN heap
    BY <2>1 DEF Put
  <2>5. heap' = Keep(h, users', ids')
    BY <2>1
  <2> HIDE DEF h
  <2>6. QED
    BY <2>2, <2>3, <2>4, <2>5, LogoffsKept
<1>2. CASE Speak(my, i)
  <2>1. /\ users' = users /\ DOMAIN heap' = DOMAIN heap
        /\ ids' = Put(ids, i, NewId(users[my], "voice"))
    BY <1>2 DEF Speak
  <2>2. QED
    BY <2>1 DEF LogoffsAllocated, Put, NewId
<1>3. CASE DuplicateHeader(my, i)
  BY <1>3 DEF DuplicateHeader, LogoffsAllocated
<1>4. CASE Unsubscribe(my, i)
  <2>1. /\ my \in DOMAIN users /\ DOMAIN users' = DOMAIN users \ {my}
        /\ \A u \in DOMAIN users' : users'[u] = users[u] /\ users[u] # users[my]
        /\ users[my] \in DOMAIN heap
        /\ heap' = Keep(heap, users', ids')
    BY <1>4 DEF Unsubscribe, Without, Restrict, UserOutlivesRecords, UsersAllocated
  <2>2. DOMAIN ids' = DOMAIN ids \cup {i} /\ ids'[i].user = users[my]
        /\ \A j \in DOMAIN ids : j # i => ids'[j] = ids[j]
    BY <1>4 DEF Unsubscribe, Put, NewId
  <2>3. ASSUME NEW j \in DOMAIN ids', ids'[j].kind = "logoff"
        PROVE  ids'[j].user \in DOMAIN heap /\ \A u \in DOMAIN users' : users'[u] # ids'[j].user
    BY <2>1, <2>2, <2>3 DEF LogoffsAllocated
  <2>4. QED
    BY <2>1, <2>3, KeepRecords DEF LogoffsAllocated
<1>5. QED
  BY <1>1, <1>2, <1>3, <1>4

LEMMA LogoffsVoice ==
    ASSUME TypeOK, LogoffsAllocated, NEW i \in G2Ids, NEW end \in BOOLEAN, G2Voice(i, end)
    PROVE  LogoffsAllocated'
<1> DEFINE t == ids[i]
           gone == IF end /\ t.kind = "logoff" THEN {heap[t.user].call} ELSE {}
           h == IF i \in Dangling THEN heap
                ELSE [heap EXCEPT ![t.user] = ResetUser(heap[t.user])]
           next == IF end THEN EndId(t) ELSE [t EXCEPT !.timer = Started(IdLimit)]
<1>1. /\ users' = Without(users, gone)
      /\ heap' = Keep(h, users', ids')
      /\ ids' = IF end /\ t.kind = "voice" THEN Without(ids, {i}) ELSE Put(ids, i, next)
      /\ i \in DOMAIN ids
  BY DEF G2Voice
<1>2. DOMAIN h = DOMAIN heap
  OBVIOUS
<1> HIDE DEF h, gone
<1>3. next.user = t.user /\ next.kind = t.kind
  <2>1. t \in IdRecord
    BY <1>1 DEF TypeOK
  <2>2. QED
    BY <2>1 DEF IdRecord, EndId
<1> HIDE DEF next
<1>4. \A j \in DOMAIN ids' :
         j \in DOMAIN ids /\ ids'[j].user = ids[j].user /\ ids'[j].kind = ids[j].kind
  <2>1. CASE end /\ t.kind = "voice"
    BY <1>1, <2>1 DEF Without, Restrict
  <2>2. CASE ~(end /\ t.kind = "voice")
    BY <1>1, <1>3, <2>2 DEF Put
  <2>3. QED
    BY <2>1, <2>2
<1>5. \A u \in DOMAIN users' : u \in DOMAIN users /\ users'[u] = users[u]
  BY <1>1 DEF Without, Restrict
<1>6. QED
  BY <1>1, <1>2, <1>4, <1>5, LogoffsKept

LEMMA LogoffsDrop ==
    ASSUME LogoffsAllocated, NEW w \in Droppable, LogoffUser(w)
    PROVE  LogoffsAllocated'
<1> DEFINE his == {i \in DOMAIN ids : ids[i].user = users[w]}
           first == {i \in his : \A j \in his : i <= j}
           h == Without(heap, {users[w]})
<1>1. /\ w \in DOMAIN users /\ users' = Without(users, {w})
      /\ ids' = Empty \/ ids' = Without(ids, first)
      /\ heap' = Keep(h, users', ids')
  BY DEF LogoffUser
<1> HIDE DEF first
<1>2. \A j \in DOMAIN ids' : j \in DOMAIN ids /\ ids'[j] = ids[j]
  <2>1. CASE ids' = Empty
    BY <2>1 DEF Empty
  <2>2. CASE ids' = Without(ids, first)
    BY <2>2 DEF Without, Restrict
  <2>3. QED
    BY <1>1, <2>1, <2>2
<1>3. \A u \in DOMAIN users' : u \in DOMAIN users /\ users'[u] = users[u]
  BY <1>1 DEF Without, Restrict
<1>4. \A a \in DOMAIN heap : a # users[w] => a \in DOMAIN h
  BY DEF Without, Restrict
<1> HIDE DEF h
<1>5. \A j \in DOMAIN ids' : ids'[j].kind = "logoff" => ids[j].user \in DOMAIN h
  BY <1>1, <1>2, <1>4 DEF LogoffsAllocated
<1>6. QED
  BY <1>1, <1>2, <1>3, <1>5, LogoffsKept

LEMMA LogoffsClock ==
    ASSUME TypeOK, UserOutlivesRecords, LogoffsAllocated, NEW d \in 1..MaxStep, Clock(d)
    PROVE  LogoffsAllocated'
<1>1. /\ heap' = Keep(ClockUsers(d), users', ids')
      /\ ids' = ClockIds(d)
  BY DEF Clock
<1>2. ASSUME NEW i \in DOMAIN ids'
      PROVE  i \in DOMAIN ids /\ ids'[i].kind = ids[i].kind /\ ids'[i].user = ids[i].user
  <2>1. i \in DOMAIN ids
    BY <1>1 DEF ClockIds
  <2>2. ids[i] \in IdRecord
    BY <2>1 DEF TypeOK
  <2>3. /\ EndId(ids[i]).kind = ids[i].kind /\ EndId(ids[i]).user = ids[i].user
        /\ LET t == [ids[i] EXCEPT !.timer = Advance(ids[i].timer, IdLimit, d)]
           IN  t.kind = ids[i].kind /\ t.user = ids[i].user
    BY <2>2 DEF EndId, IdRecord
  <2>4. QED
    BY <1>1, <2>1, <2>3 DEF ClockIds
<1>3. \A u \in DOMAIN users' : u \in DOMAIN users /\ users'[u] = users[u]
  BY ClockEffect
<1>4. ASSUME NEW i \in DOMAIN ids, ids[i].kind = "logoff"
      PROVE  ids[i].user \in DOMAIN ClockUsers(d)
  BY <1>4 DEF LogoffsAllocated, ClockUsers, TimedOut, Clocked
<1>5. QED
  BY <1>1, <1>2, <1>3, <1>4, LogoffsKept

\* Every handler.
LEMMA LogoffsStep ==
    TypeOK /\ UserOutlivesRecords /\ LogoffsAllocated /\ [Next]_vars => LogoffsAllocated'
<1> SUFFICES ASSUME TypeOK, UserOutlivesRecords, LogoffsAllocated, [Next]_vars
             PROVE  LogoffsAllocated'
  OBVIOUS
<1>1. ASSUME UNCHANGED <<users, heap, ids>> PROVE LogoffsAllocated'
  BY <1>1 DEF LogoffsAllocated
<1>2. ASSUME ids' = Empty PROVE LogoffsAllocated'
  BY <1>2 DEF LogoffsAllocated, Empty
<1>3. CASE Header
  BY <1>3, LogoffsHeader DEF Header
<1>4. CASE Voice
  <2>1. ASSUME NEW i \in G2Ids, G2VoiceFault(i) PROVE LogoffsAllocated'
    BY <1>2, <2>1 DEF G2VoiceFault, Restart
  <2>2. QED
    BY <1>4, <2>1, LogoffsVoice DEF Voice
<1>5. CASE Reflector
  BY <1>1, <1>5 DEF Reflector, ReflectorHeader, ReflectorVoice
<1>6. CASE Operator
  BY <1>2, <1>6, LogoffsDrop DEF Operator, LogoffAll
<1>7. CASE Cache
  BY <1>1, <1>7 DEF Cache, UserHeard, GateUp, GateDown, groupVars
<1>8. CASE Tick
  BY <1>8, LogoffsClock DEF Tick
<1>9. CASE Fault
  BY <1>2, <1>9 DEF Fault, UnsubscribeFault, ClockFault, Restart
<1>10. CASE UNCHANGED vars
  BY <1>1, <1>10 DEF vars, groupVars
<1>11. QED
  BY <1>3, <1>4, <1>5, <1>6, <1>7, <1>8, <1>9, <1>10 DEF Next

\* A timer that expires in a shorter time does in a longer one.
LEMMA ExpiresLater ==
    ASSUME NEW l \in Nat, NEW t \in 0..l, NEW d \in Nat, NEW e \in Nat, d <= e,
           ExpiresWithin(t, l, d)
    PROVE  ExpiresWithin(t, l, e)
  BY DEF ExpiresWithin, HasExpired, Advance

\* The reasons for which clockInt drops a subscriber.
LEMMA ClockDrops ==
    ASSUME TypeOK, UserOutlivesRecords, NEW d \in 1..MaxStep, Clock(d),
           NEW u \in DOMAIN users \ DOMAIN users'
    PROVE  Unreachable(u) \/ Inactive(u) \/ LogoffPending(u)
<1> USE Limits
<1>0. d \in Nat /\ MaxStep \in Nat /\ d <= MaxStep
  BY GroupAssumption
<1>1. users[u] \in DOMAIN heap /\ heap[users[u]] \in UserObject
  BY DEF UserOutlivesRecords, UsersAllocated, TypeOK
<1>2. heap[users[u]].timer \in 0..UserLimit /\ heap[users[u]].age \in Nat
  BY <1>1 DEF UserObject
<1>3. u \in NotFound(d) \/ u \in LoggedOff(d) \/ u \in TimedOut(d)
  BY DEF Clock, Clocked, Restrict
<1>4. CASE u \in NotFound(d)
  BY <1>0, <1>2, <1>4 DEF NotFound, Unreachable
<1>5. CASE u \in LoggedOff(d)
  <2>1. PICK i \in ExpiredIds(d) \ Dangling : ids[i].kind = "logoff" /\ u = heap[ids[i].user].call
    BY <1>5 DEF LoggedOff
  <2>2. i \in DOMAIN ids \ Dangling
    BY <2>1 DEF ExpiredIds
  <2>3. QED
    BY <2>1, <2>2 DEF LogoffPending
<1>6. CASE u \in TimedOut(d)
  <2>1. (relayed = NoId \/ RelayEnds(d)) /\ ExpiresWithin(heap[users[u]].timer, UserLimit, d)
    BY <1>6 DEF TimedOut
  <2>2. relayed' = NoId
    BY <2>1 DEF Clock, EndRelay
  <2>3. ExpiresWithin(heap[users[u]].timer, UserLimit, MaxStep)
    BY <1>0, <1>2, <2>1, ExpiresLater
  <2>4. QED
    BY <2>2, <2>3 DEF Inactive
<1>7. QED
  BY <1>3, <1>4, <1>5, <1>6

\* The same of all handlers.
LEMMA KeptStep ==
    ASSUME TypeOK, UserOutlivesRecords, LogoffsAllocated, [Next]_vars,
           NEW u \in DOMAIN users \ DOMAIN users'
    PROVE  Asked(u) \/ Unreachable(u) \/ Inactive(u) \/ LogoffPending(u)
<1>1. ASSUME users' = users PROVE FALSE
  BY <1>1
<1>2. CASE Header
  <2>1. PICK my \in Users, i \in G2Ids :
          Subscribe(my, i) \/ Speak(my, i) \/ DuplicateHeader(my, i) \/ Unsubscribe(my, i)
    BY <1>2 DEF Header
  <2>2. Unsubscribe(my, i)
    BY <1>1, <2>1 DEF Subscribe, Put, Speak, DuplicateHeader
  <2>3. my = u
    BY <2>2 DEF Unsubscribe, Without, Restrict
  <2>4. QED
    BY <2>2, <2>3 DEF Asked
<1>3. CASE Voice
  <2>1. ASSUME NEW i \in G2Ids, NEW end \in BOOLEAN, G2Voice(i, end)
        PROVE  LogoffPending(u)
    <3>1. i \in DOMAIN ids /\ ids[i].kind = "logoff" /\ u = heap[ids[i].user].call
      BY <2>1 DEF G2Voice, Without, Restrict
    <3>2. i \notin Dangling
      BY <3>1 DEF LogoffsAllocated, Dangling
    <3>3. QED
      BY <3>1, <3>2 DEF LogoffPending
  <2>2. QED
    BY <1>3, <2>1 DEF Voice, G2VoiceFault, Asked
<1>4. CASE Reflector
  BY <1>1, <1>4 DEF Reflector, ReflectorHeader, ReflectorVoice
<1>5. CASE Operator
  <2>1. ASSUME NEW w \in Droppable, LogoffUser(w) PROVE w = u
    BY <2>1 DEF LogoffUser, Without, Restrict
  <2>2. QED
    BY <1>5, <2>1 DEF Operator, Asked
<1>6. CASE Cache
  BY <1>1, <1>6 DEF Cache, UserHeard, GateUp, GateDown, groupVars
<1>7. CASE Tick
  BY <1>7, ClockDrops DEF Tick
<1>8. CASE Fault
  BY <1>8 DEF Fault, UnsubscribeFault, ClockFault, Asked
<1>9. CASE UNCHANGED vars
  BY <1>1, <1>9 DEF vars, groupVars
<1>10. QED
  BY <1>2, <1>3, <1>4, <1>5, <1>6, <1>7, <1>8, <1>9 DEF Next

\* No interleaving of talks, timeouts, drops of others and changes of the cache
\* ends a subscription for another reason than the four there are; in particular
\* the callsign that the end of a logoff has erased is read from an object that
\* still exists.
THEOREM SubscriptionsEndForCause == Spec => SubscriptionKept
<1>1. Init => LogoffsAllocated
  BY DEF Init, Empty, LogoffsAllocated
<1>2. TypeOK /\ UserOutlivesRecords /\ LogoffsAllocated /\ [Next]_vars
          => [\A u \in DOMAIN users \ DOMAIN users' :
                  Asked(u) \/ Unreachable(u) \/ Inactive(u) \/ LogoffPending(u)]_vars
  BY KeptStep
<1>3. QED
  BY <1>1, <1>2, LogoffsStep, TypeCorrect, UsersOutlive, PTL DEF Spec, SubscriptionKept
=============================================================================
