----------------------------- MODULE IRCSession -----------------------------
(***************************************************************************)
(* The ircDDB session, the IRC client and the main thread, with a server   *)
(* that may be silent, lose the connection, or have its users come and go, *)
(* and with time.  A thread that sleeps is woken after its period, and its *)
(* turn takes no longer than MaxStep.  The unit of time is half a second.  *)
(***************************************************************************)
EXTENDS IRCClient, FiniteSets, Functions

CONSTANTS
    EntryPeriod,        \* the sleep of IRCDDBApp::Entry, 1 second
    ClientPeriod,       \* the sleep of IRCClient::Entry, half a second
    QuietTime,          \* the sleep before the queues are deleted, 2 seconds
    MaxStep,            \* the longest turn of a thread
    MaxReceived,        \* bound: messages in the receive queue
    DbRows              \* the rows the server has to send

ASSUME SessionAssumption ==
    /\ {EntryPeriod, ClientPeriod, QuietTime} \subseteq Nat \ {0}
    /\ {MaxStep, ServerWait, ListWait, ReconnectDelay} \subseteq Nat
    /\ {NickWait, LoginWait, JoinWait, PingTimer} \subseteq Nat
    /\ Requests \subseteq Finds \cup {Heard}
    /\ DbRows \subseteq Rows
    /\ IsFiniteSet(Nicks)

VARIABLES
    inChannel,          \* whether the server counts us among the channel
    members,            \* the other nicks in it, as long as we are
    owed,               \* requests the server has not answered
    crossed,            \* gateways one nick of which left while another stayed
    age                 \* time since a thread went to sleep, or began its turn

serverVars == <<members, inChannel, owed, crossed>>
vars == <<appVars, sendQueue, cache, threadVars, clientVars, serverVars, age>>

Threads == {"entry", "client", "main"}
Mut_ClientSleep == ClientPeriod     \* the queues are deleted at once
ClientSleep == IF cpc = "quiet" THEN QuietTime ELSE ClientPeriod

TypeOK ==
    /\ AppTypeOK
    /\ ClientTypeOK
    /\ members \subseteq Nicks
    /\ inChannel \in BOOLEAN
    /\ crossed \subseteq Gateways
    /\ age \in [Threads -> 0 .. EntryPeriod + ClientPeriod + QuietTime + MaxStep]

Init ==
    /\ AppInit
    /\ ClientInit
    /\ members = {}
    /\ inChannel = FALSE
    /\ owed = <<>>
    /\ crossed = {}
    /\ age = [t \in Threads |-> 0]
-----------------------------------------------------------------------------
(***************************************************************************)
(* The server.                                                             *)
(***************************************************************************)
Connected == cState = 5 /\ ~eof
Roster == {Msg("352", n) : n \in members}

Arrive(msgs) ==
    /\ Connected
    /\ Len(recvQueue) + Len(msgs) <= MaxReceived
    /\ Len(sendQueue) < MaxQueue
    /\ recvQueue' = recvQueue \o msgs
    /\ UNCHANGED <<allAppVars, cState, cTimer, protoVars, cpc, age>>

\* What the server has to answer, in the order it was sent.  It may close the
\* connection at any time, on QUIT or without.
Receive(m) ==
    /\ owed' = IF \/ m.cmd \in {"NICK", "USER", "JOIN", "WHO", "PING", "FIND"}
                  \/ m.cmd = "SENDLIST" /\ m.arg \in members
               THEN Append(owed, m)
               ELSE owed
    /\ UNCHANGED <<members, inChannel, crossed>>

\* A nick is only answered when it is taken, FIND by rows or that there are none.
Answers(m) ==
    CASE m.cmd = "NICK" -> {<<>>, <<Msg("433", Empty)>>}
      [] m.cmd = "USER" -> {<<Msg("004", Empty)>>}
      [] m.cmd = "JOIN" -> {<<Msg("JOINED", Empty)>>}
      [] m.cmd = "WHO" -> Bijection(1..Cardinality(Roster), Roster)
      [] m.cmd = "PING" -> {<<Msg("PONG", Empty)>>}
      [] m.cmd = "FIND" -> {<<>>, <<Msg("NOT_FOUND", m.arg)>>}
      [] m.cmd = "SENDLIST" -> {<<Msg("LIST_END", Empty)>>, <<Msg("LIST_MORE", Empty)>>}

Reply ==
    /\ owed # <<>>
    /\ \E msgs \in Answers(Head(owed)) : Arrive(msgs)
    /\ owed' = Tail(owed)
    /\ IF Head(owed).cmd = "JOIN"
       THEN inChannel' = TRUE /\ members' \in SUBSET Nicks
       ELSE UNCHANGED <<inChannel, members>>
    /\ UNCHANGED <<eof, crossed>>

\* A row, in answer to SENDLIST or because a user was heard, or a PING.
Tell ==
    /\ inChannel
    /\ members \cap Servers # {}
    /\ \E row \in DbRows : Arrive(<<Msg("UPDATE", row)>>)
    /\ UNCHANGED <<eof, serverVars>>

ServerPing == Arrive(<<Msg("PING", Empty)>>) /\ UNCHANGED <<eof, serverVars>>
Kick ==
    /\ inChannel
    /\ Arrive(<<Msg("KICK", Empty)>>)
    /\ inChannel' = FALSE
    /\ members' = {}
    /\ UNCHANGED <<eof, owed, crossed>>

SameGate(n) == {k \in members : NameOf(k) = NameOf(n)}

MemberJoins(n) ==
    /\ inChannel
    /\ n \notin members
    /\ Arrive(<<Msg("JOIN", n)>>)
    /\ members' = members \cup {n}
    /\ crossed' = crossed \ {NameOf(n)}
    /\ UNCHANGED <<eof, inChannel, owed>>

MemberLeaves(n) ==
    /\ n \in members
    /\ Arrive(<<Msg("QUIT", n)>>)
    /\ members' = members \ {n}
    /\ crossed' = IF SameGate(n) = {n} THEN crossed \ {NameOf(n)} ELSE crossed \cup {NameOf(n)}
    /\ UNCHANGED <<eof, inChannel, owed>>

Lost == Connected /\ eof' = TRUE
            /\ UNCHANGED <<allAppVars, cState, cTimer, protoVars, cpc, recvQueue, serverVars, age>>

\* The client looks at what has arrived only at the start of its round, and
\* the messages it then handles may as well have been there; so the server is
\* given its steps between the rounds.
ServerStep ==
    /\ cpc = "sleep"
    /\ \/ Reply \/ Tell \/ ServerPing \/ Kick \/ Lost
       \/ \E n \in Nicks : MemberJoins(n) \/ MemberLeaves(n)
-----------------------------------------------------------------------------
(***************************************************************************)
(* The threads, and time.                                                  *)
(***************************************************************************)
Rested(t, period) == age[t] >= period
FallsAsleep(t, asleep) == age' = [age EXCEPT ![t] = IF asleep THEN 0 ELSE @]

EntryThread ==
    /\ \/ EntryWake /\ Rested("entry", EntryPeriod)
       \/ EntryStep
    /\ FallsAsleep("entry", entry'.pc = "sleep")
    /\ UNCHANGED <<clientVars, serverVars>>

ClientWakes == Open \/ StartProtocol \/ BeginRound \/ TakeQueueAway
ClientActs == HandleMessage \/ Kicked \/ ActOnState \/ SwitchOn \/ ShortWrite \/ EndRound

\* The server forgets us when the socket is closed.
Forgotten ==
    /\ inChannel' = FALSE
    /\ owed' = <<>>
    /\ members' = {}
    /\ crossed' = {}

ClientThread ==
    /\ \/ ClientWakes /\ Rested("client", ClientSleep) /\ UNCHANGED serverVars
       \/ DeleteQueues /\ Rested("client", ClientSleep) /\ Forgotten
       \/ ClientActs /\ UNCHANGED serverVars
       \/ SendMessage /\ Receive(Head(sendQueue))
    /\ FallsAsleep("client", cpc' \in {"sleep", "quiet"})

\* The queue is taken to be emptied faster than the main thread fills it.
MainThread ==
    /\ MainPut \/ (cpc # "send" /\ Len(owed) < MaxQueue /\ \E m \in Requests : MainAsk(m))
    /\ age' = [age EXCEPT !["main"] = 0]
    /\ UNCHANGED <<clientVars, serverVars>>

\* Time passes only as long as no thread is later than MaxStep.
Tick ==
    /\ age["entry"] < EntryPeriod + MaxStep
    /\ age["client"] < ClientSleep + MaxStep
    /\ main.pc = "loop" \/ age["main"] < MaxStep
    /\ age' = [t \in Threads |-> IF t = "main" /\ main.pc = "loop" THEN 0 ELSE age[t] + 1]
    /\ UNCHANGED <<allAppVars, clientVars, serverVars>>

Next == EntryThread \/ ClientThread \/ MainThread \/ ServerStep \/ Tick

Spec == Init /\ [][Next]_vars
FairSpec ==
    /\ Spec
    /\ WF_vars(EntryThread)
    /\ WF_vars(ClientThread)
    /\ WF_vars(MainThread)
    /\ WF_vars(Tick)
-----------------------------------------------------------------------------
(***************************************************************************)
(* Properties.                                                             *)
(***************************************************************************)

\* Neither Entry nor findUser nor sendHeard puts a message into a queue that
\* IRCClient::Entry has deleted: whoever fetched the pointer before setSendQ(NULL)
\* is done before the two seconds are over.
NoUseAfterDelete == Deleted \notin {entry.held, main.held}

SwitchedOn == sendQ = Null /\ sendQ' = Queue
StartingOver == {0, 1, 2, 10}

\* By the time a new connection is switched on, Entry has noticed that the old one
\* was lost and begins anew, with no step of its last round pending: it looks for
\* the pointer only once a second, and would otherwise go on with the server of the
\* old connection.
LoginAfterReset ==
    [][SwitchedOn =>
        /\ state \in StartingOver
        /\ entry.pc = "case" => entry.at \in StartingOver
        /\ entry.pc \in {"put", "assign"} => entry.next \in StartingOver]_vars

\* A session on standby that does not take updates has been told that its server
\* left: initReady is cleared by userLeave and by the disconnection only, even if
\* either comes in the middle of a step of Entry.
DeafOnlyWithoutServer == state = 7 /\ ~initReady => currentServer = Empty

\* Entry does not wait for ever for the answer to SENDLIST.
ListEnds == state = 5 ~> state # 5

\* Nothing that concerns the names in the channel is on its way.
InStep ==
    /\ Connected
    /\ inChannel
    /\ pState \in {11, 12}
    /\ recvQueue = <<>>
    /\ Msg("WHO", Empty) \notin Range(owed) \cup Range(sendQueue)

\* The address found for a gateway is that of a nick that is in the channel now,
\* whatever was cached before the last connection was lost; the addresses of
\* reflectors outlive every connection.
AddressesLive ==
    /\ InStep => \A g \in Gateways : findGateAddr(cache, g) \in members \cup {Empty}
    /\ \A x \in Reflectors : findGateAddr(cache, x) = HostsFile

\* Everybody in the channel is in the cache, whether he was there before or joined
\* during the login or after it, unless another nick of the same gateway left.
RosterComplete ==
    InStep => \A n \in members :
        Empty \in {cache.nameNick[NameOf(n)], findGateAddr(cache, NameOf(n))}
            => NameOf(n) \in crossed

\* A connection is only kept for ever if the server answers: to every PING, or
\* else that each nick is taken.
KeptOnlyByAnswers ==
    \/ []<>(cState # 5)
    \/ []<>(pState = 3)
    \/ []<>(pState = 12) /\ []<>(pState = 11)

\* src/IRCDDB.h says of states 1 to 6 that the download of repeater info is in
\* progress: a row that arrives while the answer to SENDLIST is awaited is taken.
DownloadTaken ==
    [][\A row \in DbRows :
        /\ cpc = "recv" /\ recvQueue # <<>> /\ recvQueue' = Tail(recvQueue)
        /\ Head(recvQueue) = Msg("UPDATE", row)
        /\ state = 5
        /\ row[1] = 1 /\ Home[row[2]] # row[3]
        => findRptrGate(cache', row[2]) = row[3]]_vars
=============================================================================
