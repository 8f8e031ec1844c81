---------------------------- MODULE Routing ----------------------------
(***************************************************************************)
(* How a group finds out who is to hear a talk, and where an               *)
(* acknowledgement goes: CGroupHandler::process and clockInt ask the       *)
(* caches of up to two ircDDB networks, one locked lookup after the other, *)
(* while the threads of the networks write to them.                        *)
(***************************************************************************)
EXTENDS CacheManager, SlowDataEncoder, SequencesExt

CONSTANTS
    Networks,       \* m_irc[0], and m_irc[1] if it is configured
    Talkers,        \* who talks and is acknowledged, of the users
    DbRows,         \* rows about repeaters the first network may send
    Losses          \* what may be lost of the frames of an acknowledgement

ASSUME RoutingAssumption ==
    /\ Networks \in {{0}, {0, 1}}
    /\ Talkers \subseteq Users
    /\ DbRows \subseteq Repeaters \X Gateways
    /\ Losses \subseteq SUBSET (1..18)
    /\ IsFiniteSet(Users)

VARIABLES
    caches,         \* m_irc[i]->cache
    phase,          \* how far process() is with the header of a talk
    subs,           \* m_users
    user,           \* whose talk it is
    asked,          \* the networks that had nothing in the lookup under way
    exclude,        \* the local of that name
    todo,           \* the subscribers still to be looked up
    repeaters,      \* m_repeaters: repeater to gateway and address
    ack,            \* how far clockInt() is with an acknowledgement
    display,        \* what the user's radio has received of it
    steady,         \* history: users of whom nothing changed since the header
    left            \* history: what the drop of a talker has left in the list

talkVars == <<phase, subs, user, asked, exclude, todo, repeaters, left>>
ackVars == <<ack, display>>
vars == <<caches, talkVars, ackVars, steady>>

Data(n, u) ==
    LET r == caches[n].userRptr[u]
        g == findRptrGate(caches[n], r)
    IN  [rptr |-> r, gate |-> g, addr |-> findGateAddr(caches[n], g)]

NoRepeaters == [r \in {} |-> r]
NoAck == [step |-> "none"]
Nothing == [text |-> Empty]

Init ==
    /\ caches = [n \in Networks |-> HostsRead]
    /\ phase = "idle"
    /\ subs = Users
    /\ user \in Talkers
    /\ asked = {} /\ exclude = Empty /\ todo = <<>> /\ repeaters = NoRepeaters
    /\ ack = NoAck /\ display = Nothing
    /\ steady = {} /\ left = {}
-----------------------------------------------------------------------------
(***************************************************************************)
(* The threads of the networks.                                            *)
(***************************************************************************)
Write(n, c) ==
    /\ caches' = [caches EXCEPT ![n] = c]
    /\ steady' = {u \in steady : \A m \in Networks : Data(m, u)' = Data(m, u)}
    /\ UNCHANGED <<talkVars, ackVars>>

UserHeard(n, u, r) == Write(n, updateUser(caches[n], u, r))
GateUp(n, g) == \E a \in Numbers : Write(n, updateGate(caches[n], g, <<g, a>>))
GateDown(n, g) == Write(n, eraseGate(caches[n], g))

\* doUpdate() ignores a row that names the gateway of the repeater's own name.
Row(n, r, g) == g # Home[r] /\ Write(n, updateRptr(caches[n], r, g))

\* What the radio shows is read before anything else happens.
IRC ==
    /\ display = Nothing
    /\ \/ \E row \in DbRows : Row(0, row[1], row[2])
       \/ \E n \in Networks :
            \/ \E u \in Users, r \in Repeaters : UserHeard(n, u, r)
            \/ \E g \in Gateways : GateUp(n, g) \/ GateDown(n, g)
-----------------------------------------------------------------------------
(***************************************************************************)
(* The header of a talk.                                                   *)
(***************************************************************************)
Turn(n) == n \in Networks \ asked /\ \A m \in Networks \ asked : n <= m
IsLast(n) == asked \cup {n} = Networks

BeginTalk ==
    /\ phase = "idle"
    /\ ack = NoAck
    /\ phase' = "exclude"
    /\ user' \in Talkers
    /\ subs' = subs \cup {user'}
    /\ todo' = SetToSeq(subs')     \* m_users is in order
    /\ steady' = subs'
    /\ UNCHANGED <<asked, exclude, repeaters, left, caches, ackVars>>

\* findUserRepeater() in one network, and in the other if the first has nothing.
FindExclude(n) ==
    /\ phase = "exclude"
    /\ Turn(n)
    /\ exclude' = caches[n].userRptr[user]
    /\ IF exclude' = Empty /\ ~IsLast(n)
       THEN asked' = asked \cup {n} /\ UNCHANGED phase
       ELSE asked' = {} /\ phase' = "collect"
    /\ UNCHANGED <<subs, user, todo, repeaters, left, caches, ackVars, steady>>

Include(d) ==
    IF d.addr # Empty /\ d.rptr \notin DOMAIN repeaters \cup {exclude}
    THEN repeaters' = [r \in DOMAIN repeaters \cup {d.rptr} |->
                         IF r = d.rptr THEN <<d.gate, d.addr>> ELSE repeaters[r]]
    ELSE UNCHANGED repeaters

\* findUserData() of a subscriber, likewise.
Mut_Collect(n) ==           \* asks again only about a user who was not found
    /\ phase = "collect"
    /\ todo # <<>>
    /\ Turn(n)
    /\ IF Data(n, Head(todo)).rptr = Empty /\ ~IsLast(n)
       THEN asked' = asked \cup {n} /\ UNCHANGED <<todo, repeaters>>
       ELSE asked' = {} /\ todo' = Tail(todo) /\ Include(Data(n, Head(todo)))
    /\ UNCHANGED <<phase, subs, user, exclude, left, caches, ackVars, steady>>
Collect(n) ==
    /\ phase = "collect"
    /\ todo # <<>>
    /\ Turn(n)
    /\ IF Data(n, Head(todo)).addr = Empty /\ ~IsLast(n)
       THEN asked' = asked \cup {n} /\ UNCHANGED <<todo, repeaters>>
       ELSE asked' = {} /\ todo' = Tail(todo) /\ Include(Data(n, Head(todo)))
    /\ UNCHANGED <<phase, subs, user, exclude, left, caches, ackVars, steady>>

EndCollect ==
    /\ phase = "collect"
    /\ todo = <<>>
    /\ phase' = "talk"
    /\ UNCHANGED <<subs, user, asked, exclude, todo, repeaters, left, caches, ackVars, steady>>

\* The talk ends with its last frame, or its timer expires.
EndTalk ==
    /\ phase = "talk"
    /\ ack = NoAck
    /\ phase' = "idle"
    /\ exclude' = Empty
    /\ repeaters' = NoRepeaters
    /\ steady' = {} /\ left' = {}
    /\ UNCHANGED <<subs, user, asked, todo, caches, ackVars>>

\* LogoffUser() of somebody, who if a talk is on is the talker: the talk is over,
\* but the list is only cleared with the last of m_users.  (Who else is dropped
\* during a talk, or a talker of whom another record is found first, leaves m_users
\* but not the list: as if dropped after it.)
DropUser(u) ==
    /\ phase = "idle" \/ (phase = "talk" /\ u = user)
    /\ ack = NoAck
    /\ u \in subs
    /\ subs' = subs \ {u}
    /\ phase' = "idle"
    /\ exclude' = Empty
    /\ repeaters' = IF subs' = {} THEN NoRepeaters ELSE repeaters
    /\ steady' = {} /\ left' = DOMAIN repeaters'
    /\ UNCHANGED <<user, asked, todo, caches, ackVars>>
-----------------------------------------------------------------------------
(***************************************************************************)
(* An acknowledgement: clockInt() asks for an address, sendAck() again for *)
(* all of the entry, which may be another by then, or none.                *)
(***************************************************************************)
BeginAck(u) ==
    /\ phase \in {"idle", "talk"}
    /\ ack = NoAck
    /\ ack' = [step |-> "ask", user |-> u, net |-> 0]
    /\ UNCHANGED <<talkVars, display, caches, steady>>

AskAddress ==
    /\ ack.step = "ask"
    /\ ack' = IF findUserAddr(caches[ack.net], ack.user) # Empty
              THEN [ack EXCEPT !.step = "send"]
              ELSE IF ack.net + 1 \in Networks THEN [ack EXCEPT !.net = @ + 1]
              ELSE NoAck
    /\ UNCHANGED <<talkVars, display, caches, steady>>

SendAck(text, lost) ==
    /\ ack.step = "send"
    /\ ack' = NoAck
    /\ display' = IF Data(ack.net, ack.user).addr = Empty THEN Nothing
                  ELSE [text |-> text, shown |-> Shown(AckFrames(text), (1..18) \ lost), lost |-> lost]
    /\ UNCHANGED <<talkVars, caches, steady>>

Dismiss ==
    /\ display # Nothing
    /\ display' = Nothing
    /\ UNCHANGED <<talkVars, ack, caches, steady>>

MainThread ==
    /\ display = Nothing
    /\ \/ BeginTalk \/ EndCollect \/ EndTalk \/ AskAddress
       \/ \E n \in Networks : FindExclude(n) \/ Collect(n)
       \/ \E u \in Talkers : BeginAck(u)
       \/ \E u \in Users : DropUser(u)
       \/ \E text \in Texts, lost \in Losses : SendAck(text, lost)

Next == MainThread \/ IRC \/ Dismiss

Spec == Init /\ [][Next]_vars
-----------------------------------------------------------------------------
(***************************************************************************)
(* Properties.                                                             *)
(***************************************************************************)
Where(u) == {caches[n].userRptr[u] : n \in Networks} \ {Empty}
Routes(u) == {<<Data(n, u).gate, Data(n, u).addr>> : n \in {m \in Networks : Data(m, u).addr # Empty}}

\* The networks agree where the user is, and have not changed their minds since
\* the header came.
Certain(u) == u \in steady /\ Cardinality(Where(u)) = 1

\* A talk goes to every subscriber who can be reached through either network and
\* is heard at another repeater than the talker, by a way one of them knows; it
\* does not go back to the repeater it came from, nor where nobody listens.  What
\* the drop of an earlier talker has left in the list is still served, the old
\* way.  Two networks that disagree about a user make all of this go wrong: the
\* repeater that is left out is the one the first network knows, the one that is
\* served that of the first network with an address.
AudienceRight ==
    (phase = "talk" /\ Certain(user)) =>
        /\ \A r \in Where(user) : r \notin DOMAIN repeaters \ left
        /\ \A u \in subs :
              (Certain(u) /\ Where(u) # Where(user) /\ Routes(u) # {}) =>
                  Where(u) \subseteq DOMAIN repeaters
        /\ (\A u \in subs : Certain(u)) =>
              \A r \in DOMAIN repeaters \ left :
                  \E u \in subs : Where(u) = {r} /\ repeaters[r] \in Routes(u)

\* Lost frames blank the text of an acknowledgement, five characters for each
\* block that misses one, and never garble it.
TextShown ==
    display # Nothing =>
        \A i \in 0 .. Padded - 1 :
            LET b == i \div 5 IN
            display.shown[i] = IF {2 * b + 1, 2 * b + 2} \cap display.lost = {}
                               THEN CharAt(display.text, i) ELSE Blank
=============================================================================
