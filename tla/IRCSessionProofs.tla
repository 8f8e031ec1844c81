-------------------------- MODULE IRCSessionProofs --------------------------
(***************************************************************************)
(* That the send queue is not used after it was deleted, for every number  *)
(* of servers, gateways and users and for all periods and timeouts, as     *)
(* long as the wait before the deletion is longer than a turn of a thread. *)
(*                                                                         *)
(* A pointer that is still held while the client waits was fetched before  *)
(* the wait began, so the turn of its holder has lasted longer than the    *)
(* wait has (QuietOK); a turn is over by MaxStep (TimeOK); so nobody holds *)
(* the pointer when the wait has lasted QuietTime.                         *)
(*                                                                         *)
(* That a session on standby without updates knows it lost its server.     *)
(*                                                                         *)
(* Types, and the roster: addresses are those of nicks in the channel,     *)
(* and that everybody in the channel is known, whatever of the answer to   *)
(* WHO, of arrivals and of departures is on its way.                       *)
(*                                                                         *)
(* That Entry has begun anew when a new connection is switched on, as long *)
(* as three of its turns are shorter than the waits before that.           *)
(***************************************************************************)
EXTENDS IRCSession, SequenceTheorems, FiniteSetTheorems, TLAPS

QuietBound == MaxStep < QuietTime

\* The locals of the threads are records; EXCEPT says nothing of other values.
Locals ==
    /\ entry = [pc |-> entry.pc, at |-> entry.at, next |-> entry.next, held |-> entry.held, msg |-> entry.msg]
    /\ main = [pc |-> main.pc, held |-> main.held, msg |-> main.msg]

\* A pointer is held only between fetching and using it, and is never stale.
HeldOK ==
    /\ sendQ \in {Null, Queue}
    /\ {entry.held, main.held} \subseteq {Null, Queue}
    /\ entry.held = Queue => entry.pc = "put"
    /\ main.held = Queue => main.pc = "put"

\* Turns begin when the period is over and end by MaxStep.
TimeOK ==
    /\ age \in [Threads -> Nat]
    /\ entry.pc # "sleep" => age["entry"] >= EntryPeriod
    /\ age["entry"] <= EntryPeriod + MaxStep
    /\ main.pc # "loop" => age["main"] <= MaxStep

\* Whoever holds the queue while the client waits began before the wait.
QuietOK ==
    cpc = "quiet" =>
        /\ sendQ = Null
        /\ entry.held = Queue => age["client"] + EntryPeriod <= age["entry"]
        /\ main.held = Queue => age["client"] <= age["main"]

Inv == Locals /\ HeldOK /\ TimeOK /\ QuietOK

\* Numbers and names that every proof needs.
LEMMA Facts ==
    /\ EntryPeriod \in Nat /\ ClientPeriod \in Nat /\ QuietTime \in Nat /\ MaxStep \in Nat
    /\ Null # Queue /\ Null # Deleted /\ Queue # Deleted
    /\ Threads = {"entry", "client", "main"}
BY SessionAssumption DEF SessionAssumption, Null, Queue, Deleted, Threads

\* The program starts with nobody holding the queue.
LEMMA InitInv == Init => Inv
BY Facts DEF Init, AppInit, ClientInit, Inv, Locals, HeldOK, TimeOK, QuietOK

\* A step of Entry fetches the pointer as it is now, keeps it, or drops it.
LEMMA EntryFetches ==
    ASSUME Inv, EntryStep
    PROVE  /\ entry.pc # "sleep"
           /\ sendQ' = sendQ /\ main' = main
           /\ Locals'
           /\ entry'.held \in {Null, entry.held, sendQ}
           /\ entry'.held = Queue => entry'.pc = "put"
<1> USE Facts DEF Inv, Locals, HeldOK
<1>1. CASE EntryPut
  BY <1>1 DEF EntryPut, Sleep, appVars
<1>2. CASE EntryAssign
  BY <1>2 DEF EntryAssign, Goto, Sleep
<1>3. CASE EntryCase
  <2> USE DEF EntryCase, InCase, Goto, Stay, Sleep, Quit
  <2>1. CASE WaitForNetwork \/ ConnectToDb \/ GiveUp
    BY <1>3, <2>1 DEF WaitForNetwork, ConnectToDb, GiveUp
  <2>2. CASE ChooseServer
    BY <1>3, <2>2 DEF ChooseServer
  <2>3. CASE NextTable \/ Disconnect \/ Standby
    BY <1>3, <2>3 DEF NextTable, Disconnect, Standby
  <2>4. CASE SendList
    BY <1>3, <2>4 DEF SendList
  <2>5. CASE AwaitList \/ Complete
    BY <1>3, <2>5 DEF AwaitList, Complete
  <2> QED BY <1>3, <2>1, <2>2, <2>3, <2>4, <2>5
<1> QED BY <1>1, <1>2, <1>3 DEF EntryStep

\* The thread of the session keeps the invariant.
LEMMA EntryThreadInv == Inv /\ EntryThread => Inv'
<1> SUFFICES ASSUME Inv, EntryThread PROVE Inv'
  OBVIOUS
<1> USE Facts
<1>1. cpc' = cpc
  BY DEF EntryThread, clientVars
<1>2. CASE EntryWake /\ Rested("entry", EntryPeriod)
  <2>1. /\ entry' = [entry EXCEPT !.pc = "case", !.at = state]
        /\ main' = main /\ sendQ' = sendQ /\ age["entry"] >= EntryPeriod
    BY <1>2 DEF EntryWake, Rested
  <2>2. entry.held # Queue
    BY <1>2 DEF EntryWake, Inv, HeldOK
  <2>3. age' = age
    BY <2>1 DEF EntryThread, FallsAsleep, Inv, Locals, TimeOK
  <2> QED BY <1>1, <2>1, <2>2, <2>3 DEF Inv, Locals, HeldOK, TimeOK, QuietOK
<1>3. CASE EntryStep
  <2>1. /\ entry.pc # "sleep"
        /\ sendQ' = sendQ /\ main' = main
        /\ Locals'
        /\ entry'.held \in {Null, entry.held, sendQ}
        /\ entry'.held = Queue => entry'.pc = "put"
    BY <1>3, EntryFetches
  <2>2. age' = [age EXCEPT !["entry"] = IF entry'.pc = "sleep" THEN 0 ELSE @]
    BY DEF EntryThread, FallsAsleep
  <2>3. HeldOK'
    BY <2>1 DEF Inv, HeldOK
  <2>4. TimeOK'
    BY <2>1, <2>2 DEF Inv, TimeOK
  <2>5. QuietOK'
    <3> SUFFICES ASSUME cpc' = "quiet"
                 PROVE  /\ sendQ' = Null
                        /\ entry'.held = Queue => age'["client"] + EntryPeriod <= age'["entry"]
                        /\ main'.held = Queue => age'["client"] <= age'["main"]
      BY DEF QuietOK
    <3>1. sendQ = Null /\ (entry'.held = Queue => entry.held = Queue)
      BY <1>1, <2>1 DEF Inv, QuietOK
    <3>2. age'["client"] = age["client"] /\ age'["main"] = age["main"]
      BY <2>2 DEF Inv, TimeOK
    <3>3. entry'.held = Queue => age'["entry"] = age["entry"]
      BY <2>1, <2>2 DEF Inv, TimeOK
    <3> QED BY <1>1, <2>1, <3>1, <3>2, <3>3 DEF Inv, QuietOK
  <2> QED BY <2>1, <2>3, <2>4, <2>5 DEF Inv
<1> QED BY <1>2, <1>3 DEF EntryThread

\* The main thread keeps it: what it fetches while the client waits is NULL.
LEMMA MainThreadInv == Inv /\ MainThread => Inv'
<1> SUFFICES ASSUME Inv, MainThread PROVE Inv'
  OBVIOUS
<1> USE Facts
<1>1. /\ cpc' = cpc /\ sendQ' = sendQ /\ entry' = entry
      /\ age' = [age EXCEPT !["main"] = 0]
  BY DEF MainThread, MainPut, MainAsk, clientVars, appVars
<1>2. CASE MainPut
  <2>1. main' = [pc |-> "loop", held |-> Null, msg |-> NoMsg]
    BY <1>2 DEF MainPut
  <2> QED BY <1>1, <2>1 DEF Inv, Locals, HeldOK, TimeOK, QuietOK
<1>3. CASE \E m \in Requests : MainAsk(m)
  <2>1. PICK m \in Requests : MainAsk(m)
    BY <1>3
  <2>2. sendQ # Null /\ main' = [pc |-> "put", held |-> sendQ, msg |-> m]
    BY <2>1 DEF MainAsk, MayAsk
  <2> QED BY <1>1, <2>2 DEF Inv, Locals, HeldOK, TimeOK, QuietOK
<1> QED BY <1>2, <1>3 DEF MainThread

\* A round of the client keeps it: the wait begins when the queue is taken away.
LEMMA WakesInv == Inv /\ ClientWakes /\ FallsAsleep("client", cpc' \in {"sleep", "quiet"}) => Inv'
<1> SUFFICES ASSUME Inv, ClientWakes, FallsAsleep("client", cpc' \in {"sleep", "quiet"})
             PROVE  Inv'
  OBVIOUS
<1> USE Facts
<1>1. /\ entry' = entry /\ main' = main
      /\ sendQ' \in {sendQ, Null}
      /\ cpc' = "quiet" => sendQ' = Null
  BY DEF ClientWakes, Open, StartProtocol, BeginRound, TakeQueueAway, InRound, Restart,
         allAppVars, appVars, threadVars
<1>2. /\ age' \in [Threads -> Nat]
      /\ age'["entry"] = age["entry"] /\ age'["main"] = age["main"]
      /\ cpc' = "quiet" => age'["client"] = 0
  BY DEF FallsAsleep, Inv, TimeOK
<1>3. cpc' = "quiet" => QuietOK'
  <2>1. entry.held = Queue => age["entry"] >= EntryPeriod
    BY DEF Inv, HeldOK, TimeOK
  <2> QED BY <1>1, <1>2, <2>1 DEF Inv, TimeOK, QuietOK
<1> QED BY <1>1, <1>2, <1>3 DEF Inv, Locals, HeldOK, TimeOK, QuietOK

\* When the wait is over, nobody holds the pointer.
LEMMA NobodyHolds ==
    ASSUME QuietBound, Inv, cpc = "quiet", Rested("client", ClientSleep)
    PROVE  Queue \notin {entry.held, main.held}
<1>1. age["client"] >= QuietTime
  BY DEF Rested, ClientSleep
<1>2. entry.held = Queue => age["client"] + EntryPeriod <= EntryPeriod + MaxStep
  BY Facts DEF Inv, QuietOK, TimeOK
<1>3. main.held = Queue => age["client"] <= MaxStep
  BY Facts DEF Inv, QuietOK, TimeOK, HeldOK
<1> QED BY <1>1, <1>2, <1>3, Facts DEF QuietBound, Inv, TimeOK

\* So the deletion leaves no pointer behind.
LEMMA DeleteInv ==
    ASSUME QuietBound, Inv, DeleteQueues, Rested("client", ClientSleep),
           FallsAsleep("client", cpc' \in {"sleep", "quiet"})
    PROVE  Inv'
<1> USE Facts
<1>1. Queue \notin {entry.held, main.held}
  BY NobodyHolds DEF DeleteQueues
<1>2. entry' = entry /\ main' = main
  BY <1>1 DEF DeleteQueues, Inv, Locals
<1>3. sendQ' = sendQ /\ cpc' = "sleep"
  BY DEF DeleteQueues, appVars
<1>4. /\ age' \in [Threads -> Nat]
      /\ age'["entry"] = age["entry"] /\ age'["main"] = age["main"]
  BY DEF FallsAsleep, Inv, TimeOK
<1> QED BY <1>2, <1>3, <1>4 DEF Inv, Locals, HeldOK, TimeOK, QuietOK

\* The rest of a round does not touch the threads' locals.
LEMMA ActsQuietly ==
    ASSUME ClientActs \/ SendMessage
    PROVE  /\ entry' = entry /\ main' = main
           /\ sendQ' \in {sendQ, Queue}
           /\ cpc' # "quiet" \/ cpc' = cpc
           /\ cpc # "quiet"
<1>1. CASE HandleMessage
  <2>1. entry' = entry /\ main' = main /\ cpc' = cpc /\ cpc = "recv"
    BY <1>1 DEF HandleMessage, threadVars
  <2>2. sendQ' = sendQ
    <3> DEFINE m == Head(recvQueue)
    <3>1. Login(m) \/ Answer(m)
      BY <1>1 DEF HandleMessage
    <3>2. CASE Login(m)
      BY <3>2 DEF Login, appVars
    <3>3. CASE Answer(m)
      BY <3>3 DEF Answer, userJoin, userLeave, doUpdate, ListAnswer, NotFound, appVars
    <3> QED BY <3>1, <3>2, <3>3
  <2> QED BY <2>1, <2>2
<1>2. CASE Kicked
  BY <1>2 DEF Kicked, Restart, allAppVars, appVars, threadVars
<1>3. CASE ActOnState
  BY <1>3 DEF ActOnState, MessagesDone, ProtocolStep, Sends, Waits, Fails, Restart,
              appVars, threadVars
<1>4. CASE SwitchOn
  BY <1>4 DEF SwitchOn, MessagesDone, Sends, threadVars
<1>5. CASE ShortWrite \/ EndRound \/ SendMessage
  BY <1>5 DEF ShortWrite, EndRound, SendMessage, Restart, allAppVars, appVars, threadVars
<1> QED BY <1>1, <1>2, <1>3, <1>4, <1>5 DEF ClientActs

\* The client's thread keeps the invariant.
LEMMA ClientThreadInv == QuietBound /\ Inv /\ ClientThread => Inv'
<1> SUFFICES ASSUME QuietBound, Inv, ClientThread PROVE Inv'
  OBVIOUS
<1>1. FallsAsleep("client", cpc' \in {"sleep", "quiet"})
  BY DEF ClientThread
<1>2. CASE ClientWakes
  BY <1>1, <1>2, WakesInv
<1>3. CASE DeleteQueues /\ Rested("client", ClientSleep)
  BY <1>1, <1>3, DeleteInv
<1>4. CASE ClientActs \/ SendMessage
  <2>1. /\ entry' = entry /\ main' = main
        /\ sendQ' \in {sendQ, Queue}
        /\ cpc' # "quiet"
    BY <1>4, ActsQuietly
  <2>2. /\ age' \in [Threads -> Nat]
        /\ age'["entry"] = age["entry"] /\ age'["main"] = age["main"]
    BY <1>1, Facts DEF FallsAsleep, Inv, TimeOK
  <2> QED BY <2>1, <2>2, Facts DEF Inv, Locals, HeldOK, TimeOK, QuietOK
<1> QED BY <1>2, <1>3, <1>4 DEF ClientThread

\* The server touches neither the threads nor time.
LEMMA ServerInv == Inv /\ ServerStep => Inv'
<1>1. ASSUME ServerStep
      PROVE  /\ entry' = entry /\ main' = main /\ sendQ' = sendQ
             /\ cpc' = cpc /\ age' = age
  BY <1>1 DEF ServerStep, Reply, Tell, ServerPing, Kick, Lost, MemberJoins, MemberLeaves, Arrive,
              allAppVars, appVars, threadVars
<1> QED BY <1>1 DEF Inv, Locals, HeldOK, TimeOK, QuietOK

\* The turn of a holder ages as fast as the wait does.
LEMMA TickInv == Inv /\ Tick => Inv'
<1> SUFFICES ASSUME Inv, Tick PROVE Inv'
  OBVIOUS
<1> USE Facts
<1>1. /\ entry' = entry /\ main' = main /\ sendQ' = sendQ /\ cpc' = cpc
      /\ age["entry"] < EntryPeriod + MaxStep
      /\ main.pc = "loop" \/ age["main"] < MaxStep
      /\ age' = [t \in Threads |-> IF t = "main" /\ main.pc = "loop" THEN 0 ELSE age[t] + 1]
  BY DEF Tick, allAppVars, appVars, threadVars, clientVars
<1>2. /\ age' \in [Threads -> Nat]
      /\ age'["entry"] = age["entry"] + 1 /\ age'["client"] = age["client"] + 1
      /\ main.pc # "loop" => age'["main"] = age["main"] + 1
  BY <1>1 DEF Inv, TimeOK
<1>3. TimeOK'
  BY <1>1, <1>2 DEF Inv, TimeOK
<1>4. QuietOK'
  BY <1>1, <1>2 DEF Inv, HeldOK, TimeOK, QuietOK
<1> QED BY <1>1, <1>3, <1>4 DEF Inv, Locals, HeldOK

\* The invariant holds in every behaviour.
THEOREM SessionInv == ASSUME QuietBound PROVE Spec => []Inv
<1>1. Inv /\ [Next]_vars => Inv'
  <2> SUFFICES ASSUME Inv, [Next]_vars PROVE Inv'
    OBVIOUS
  <2>1. CASE EntryThread
    BY <2>1, EntryThreadInv
  <2>2. CASE ClientThread
    BY <2>2, ClientThreadInv
  <2>3. CASE MainThread
    BY <2>3, MainThreadInv
  <2>4. CASE ServerStep
    BY <2>4, ServerInv
  <2>5. CASE Tick
    BY <2>5, TickInv
  <2>6. CASE UNCHANGED vars
    BY <2>6 DEF vars, appVars, threadVars, clientVars, Inv, Locals, HeldOK, TimeOK, QuietOK
  <2> QED BY <2>1, <2>2, <2>3, <2>4, <2>5, <2>6 DEF Next
<1> QED BY <1>1, InitInv, PTL DEF Spec

\* Neither Entry nor findUser nor sendHeard puts a message into a queue that
\* IRCClient::Entry has deleted, if a turn of a thread is shorter than its wait.
THEOREM QueueSafe == ASSUME QuietBound PROVE Spec => []NoUseAfterDelete
<1>1. Inv => NoUseAfterDelete
  BY Facts DEF Inv, HeldOK, NoUseAfterDelete
<1> QED BY <1>1, SessionInv, PTL
-----------------------------------------------------------------------------
(***************************************************************************)
(* That a session on standby which takes no updates knows that its server  *)
(* has left, for all values of the constants.  A step of Entry that will   *)
(* assign standby has set initReady, and only userLeave clears that, with  *)
(* the server; a server is chosen only while the state is still 2.         *)
(***************************************************************************)
EntryRecord ==
    entry = [pc |-> entry.pc, at |-> entry.at, next |-> entry.next, held |-> entry.held, msg |-> entry.msg]

StandbyOK ==
    /\ EntryRecord
    /\ state = 7 /\ ~initReady => currentServer = Empty
    /\ entry.pc = "assign" /\ entry.next = 7 /\ ~initReady => currentServer = Empty
    /\ entry.pc = "case" /\ entry.at = 2 => state = 2
    /\ entry.pc = "put" => entry.next # 7

\* What acting on the state can come to, other than completing the initialization.
Outcomes ==
    \/ entry'.pc = "sleep" /\ UNCHANGED <<state, initReady, currentServer>>
    \/ entry'.pc = "sleep" /\ state' # 7
    \/ /\ entry'.pc = "put" /\ entry'.next # 7
       /\ state' = state \/ state' = 10
       /\ UNCHANGED <<initReady, currentServer>>
    \/ /\ entry'.pc = "assign" /\ entry'.next = 3
       /\ entry.pc = "case" /\ entry.at = 2 /\ state' = state

\* Sleep and Quit change fields of the thread's record.
LEMMA Shapes ==
    /\ EntryRecord /\ Sleep => EntryRecord' /\ entry'.pc = "sleep"
    /\ EntryRecord /\ Quit => EntryRecord' /\ entry'.pc = "put" /\ entry'.next = 10
<1>1. EntryRecord /\ Sleep => EntryRecord' /\ entry'.pc = "sleep"
  BY DEF EntryRecord, Sleep
<1>2. EntryRecord /\ Quit => EntryRecord' /\ entry'.pc = "put" /\ entry'.next = 10
  BY DEF EntryRecord, Quit
<1> QED BY <1>1, <1>2

\* The cases of Entry have these outcomes.
LEMMA CaseOutcomes ==
    ASSUME EntryRecord, EntryCase, ~Complete
    PROVE  Outcomes /\ EntryRecord'
<1> USE Shapes DEF Goto, Stay, InCase, Keep, Outcomes
<1>1. CASE WaitForNetwork
  BY <1>1 DEF WaitForNetwork
<1>2. CASE ConnectToDb
  BY <1>2 DEF ConnectToDb
<1>3. CASE ChooseServer
  <2>1. CASE Quit
    BY <2>1 DEF Quit
  <2>2. CASE Stay
    BY <2>2
  <2>3. CASE entry' = [entry EXCEPT !.pc = "assign", !.next = 3]
    BY <1>3, <2>3 DEF ChooseServer, EntryRecord
  <2> QED BY <1>3, <2>1, <2>2, <2>3 DEF ChooseServer
<1>4. CASE NextTable
  BY <1>4 DEF NextTable
<1>5. CASE SendList
  <2>1. CASE Goto(3)
    BY <2>1
  <2>2. CASE /\ entry' = [entry EXCEPT !.pc = "put", !.next = 5, !.held = sendQ,
                                       !.msg = Msg("SENDLIST", currentServer)]
             /\ UNCHANGED state
             /\ Keep
    <3>1. EntryRecord' /\ entry'.pc = "put" /\ entry'.next = 5
      BY <2>2 DEF EntryRecord
    <3> QED BY <2>2, <3>1
  <2> QED BY <1>5, <2>1, <2>2 DEF SendList
<1>6. CASE AwaitList
  BY <1>6 DEF AwaitList, Quit
<1>7. CASE Standby \/ Disconnect \/ GiveUp
  BY <1>7 DEF Standby, Disconnect, GiveUp
<1> QED BY <1>1, <1>2, <1>3, <1>4, <1>5, <1>6, <1>7 DEF EntryCase

\* A step of Entry keeps it.
LEMMA EntryStandby == StandbyOK /\ (EntryWake \/ EntryStep) => StandbyOK'
<1> SUFFICES ASSUME StandbyOK, EntryWake \/ EntryStep PROVE StandbyOK'
  OBVIOUS
<1>1. CASE EntryWake
  BY <1>1 DEF EntryWake, StandbyOK, EntryRecord
<1>2. CASE EntryPut
  BY <1>2 DEF EntryPut, Sleep, appVars, StandbyOK, EntryRecord
<1>3. CASE EntryAssign
  <2>1. EntryRecord' /\ entry'.pc = "sleep"
    BY <1>3, Shapes DEF EntryAssign, Goto, StandbyOK
  <2> QED BY <1>3, <2>1 DEF EntryAssign, Goto, Keep, StandbyOK
<1>4. CASE EntryCase /\ ~Complete
  BY <1>4, CaseOutcomes DEF Outcomes, StandbyOK
<1>5. CASE Complete
  <2>1. initReady' = TRUE
    BY <1>5 DEF Complete
  <2>2. EntryRecord' /\ entry'.pc = "assign"
    BY <1>5 DEF Complete, StandbyOK, EntryRecord
  <2> QED BY <2>1, <2>2 DEF StandbyOK
<1> QED BY <1>1, <1>2, <1>3, <1>4, <1>5 DEF EntryStep

\* The messages that change the state keep it: LIST_END and LIST_MORE lead to 3
\* and 4, the departure of a server clears currentServer.
LEMMA AnswerStandby ==
    ASSUME NEW m, StandbyOK, Answer(m), entry' = entry
    PROVE  StandbyOK'
<1> USE DEF StandbyOK, EntryRecord
<1>1. CASE m.cmd = "QUIT" /\ userLeave(m.arg)
  BY <1>1 DEF userLeave, appVars
<1>2. CASE ListAnswer(3) \/ ListAnswer(4)
  BY <1>2 DEF ListAnswer
<1>3. CASE state' = state /\ initReady' = initReady /\ currentServer' = currentServer
  BY <1>3
<1> QED BY <1>1, <1>2, <1>3 DEF Answer, userJoin, doUpdate, NotFound, appVars

\* Whatever else happens leaves the session's variables alone.
LEMMA StandbyKept ==
    ASSUME StandbyOK,
           state' = state, initReady' = initReady, currentServer' = currentServer,
           entry' = entry \/ \E h : entry' = [entry EXCEPT !.held = h]
    PROVE  StandbyOK'
BY DEF StandbyOK, EntryRecord

\* The client's thread keeps it.
LEMMA ClientStandby == StandbyOK /\ ClientThread => StandbyOK'
<1> SUFFICES ASSUME StandbyOK, ClientThread PROVE StandbyOK'
  OBVIOUS
<1>1. CASE ClientWakes
  BY <1>1, StandbyKept DEF ClientWakes, Open, StartProtocol, BeginRound, TakeQueueAway,
                           allAppVars, appVars, threadVars
<1>2. CASE DeleteQueues
  <2>1. entry' = [entry EXCEPT !.held = IF entry.held = Queue THEN Deleted ELSE entry.held]
    BY <1>2 DEF DeleteQueues
  <2> QED BY <1>2, <2>1, StandbyKept DEF DeleteQueues, appVars
<1>3. CASE HandleMessage
  <2>1. entry' = entry
    BY <1>3 DEF HandleMessage, threadVars
  <2>2. CASE Answer(Head(recvQueue))
    BY <2>1, <2>2, AnswerStandby
  <2>3. CASE Login(Head(recvQueue))
    BY <2>1, <2>3, StandbyKept DEF Login, appVars
  <2> QED BY <1>3, <2>2, <2>3 DEF HandleMessage
<1>4. CASE Kicked \/ ActOnState \/ SwitchOn \/ ShortWrite \/ EndRound \/ SendMessage
  BY <1>4, StandbyKept DEF Kicked, ActOnState, SwitchOn, ShortWrite, EndRound, SendMessage,
                           allAppVars, appVars, threadVars
<1> QED BY <1>1, <1>2, <1>3, <1>4 DEF ClientThread, ClientActs

\* A session on standby that does not take updates has been told that its server
\* left: initReady is cleared by userLeave and by the disconnection only, even if
\* either comes in the middle of a step of Entry.
THEOREM StandbyHearsServer == Spec => []DeafOnlyWithoutServer
<1>1. Init => StandbyOK
  BY DEF Init, AppInit, StandbyOK, EntryRecord
<1>2. StandbyOK /\ [Next]_vars => StandbyOK'
  <2> SUFFICES ASSUME StandbyOK, [Next]_vars PROVE StandbyOK'
    OBVIOUS
  <2>1. CASE EntryThread
    BY <2>1, EntryStandby DEF EntryThread
  <2>2. CASE ClientThread
    BY <2>2, ClientStandby
  <2>3. CASE MainThread
    BY <2>3, StandbyKept DEF MainThread, MainPut, MainAsk, appVars
  <2>4. CASE ServerStep
    BY <2>4, StandbyKept DEF ServerStep, Reply, Tell, ServerPing, Kick, Lost, MemberJoins,
                             MemberLeaves, Arrive, allAppVars, appVars, threadVars
  <2>5. CASE Tick
    BY <2>5, StandbyKept DEF Tick, allAppVars, appVars, threadVars
  <2>6. CASE UNCHANGED vars
    BY <2>6, StandbyKept DEF vars, appVars, threadVars
  <2> QED BY <2>1, <2>2, <2>3, <2>4, <2>5, <2>6 DEF Next
<1>3. StandbyOK => DeafOnlyWithoutServer
  BY DEF StandbyOK, DeafOnlyWithoutServer
<1> QED BY <1>1, <1>2, <1>3, PTL DEF Spec

-----------------------------------------------------------------------------
(***************************************************************************)
(* Messages on their way, and what is asked of the server.                 *)
(***************************************************************************)
Args == Nicks \cup Users \cup Rows \cup {Empty}
Commands == {"none", "NICK", "USER", "JOIN", "WHO", "PING", "PONG", "FIND", "SENDLIST", "UPDATE",
             "QUIT", "004", "433", "JOINED", "352", "NOT_FOUND", "LIST_END", "LIST_MORE", "KICK"}
Messages == [cmd : Commands, arg : Args]
Entering == {"JOIN", "352"}
Roll == Entering \cup {"QUIT", "JOINED"}

\* What the server sends, and what it has to answer.
Inbound == {m \in Messages : /\ m.cmd \in Entering \cup {"QUIT"} => m.arg \in Nicks
                             /\ m.cmd = "UPDATE" => m.arg \in Rows}
Owing == {m \in Messages : m.cmd \in {"NICK", "USER", "JOIN", "WHO", "PING", "FIND", "SENDLIST"}}

\* The departure of a nick that is on its way, and whether it follows every
\* arrival of the nick that is.
Leaving(q, n) == \E j \in 1 .. Len(q) : q[j].cmd = "QUIT" /\ q[j].arg = n
Followed(q, n) ==
    \A i \in 1 .. Len(q) : q[i].cmd \in Entering /\ q[i].arg = n =>
        \E j \in i .. Len(q) : q[j].cmd = "QUIT" /\ q[j].arg = n

\* What enters and what erases the name of a gateway or a server: an arrival that
\* no departure follows, and no departure at all.
Enters(m, g) == m.cmd \in Entering /\ NameOf(m.arg) = g
Erases(m, g) == m.cmd = "QUIT" /\ m.arg \notin Servers /\ NameOf(m.arg) = g
Stays(q, g) == \A j \in 1 .. Len(q) : ~Erases(q[j], g)
Coming(q, g) ==
    \E i \in 1 .. Len(q) : Enters(q[i], g) /\ \A j \in i .. Len(q) : ~Erases(q[j], g)

\* JOIN is asked for, and only once.
Asked(q) == \E i \in 1 .. Len(q) : q[i].cmd = "JOIN"
Once(q) == \A i, j \in 1 .. Len(q) : q[i].cmd = "JOIN" /\ q[j].cmd = "JOIN" => i = j

\* What is added to a queue comes after what is in it.
LEMMA Added ==
    ASSUME NEW S, NEW q \in Seq(S), NEW s \in Seq(S)
    PROVE  /\ q \o s \in Seq(S)
           /\ Len(q) \in Nat /\ Len(s) \in Nat /\ Len(q \o s) = Len(q) + Len(s)
           /\ \A i \in 1 .. Len(q) : i \in 1 .. Len(q \o s) /\ (q \o s)[i] = q[i]
           /\ \A i \in 1 .. Len(s) : Len(q) + i \in 1 .. Len(q \o s) /\ (q \o s)[Len(q) + i] = s[i]
           /\ \A i \in 1 .. Len(q \o s) : i \notin 1 .. Len(q) => i - Len(q) \in 1 .. Len(s)
                                                              /\ (q \o s)[i] = s[i - Len(q)]
<1>1. Len(q) \in Nat /\ Len(s) \in Nat
  BY LenProperties
<1>2. /\ q \o s \in Seq(S)
      /\ Len(q \o s) = Len(q) + Len(s)
      /\ \A i \in 1 .. Len(q) + Len(s) : (q \o s)[i] = IF i <= Len(q) THEN q[i] ELSE s[i - Len(q)]
  BY ConcatProperties
<1> QED BY <1>1, <1>2

\* What is left when the first is taken.
LEMMA Taken ==
    ASSUME NEW S, NEW q \in Seq(S), q # <<>>
    PROVE  /\ Tail(q) \in Seq(S) /\ Head(q) \in S /\ Head(q) = q[1]
           /\ Len(q) \in Nat /\ Len(Tail(q)) \in Nat
           /\ Len(q) = Len(Tail(q)) + 1 /\ 1 \in 1 .. Len(q)
           /\ \A i \in 1 .. Len(Tail(q)) : i + 1 \in 1 .. Len(q) /\ Tail(q)[i] = q[i + 1]
           /\ \A i \in 1 .. Len(q) : i # 1 => i - 1 \in 1 .. Len(Tail(q)) /\ Tail(q)[i - 1] = q[i]
<1>1. Len(q) \in Nat /\ Len(q) # 0
  BY EmptySeq, LenProperties
<1>2. /\ Head(q) \in S /\ Tail(q) \in Seq(S) /\ Len(Tail(q)) = Len(q) - 1
      /\ \A i \in 1 .. Len(Tail(q)) : Tail(q)[i] = q[i + 1]
  BY HeadTailProperties
<1>3. Head(q) = q[1]
  OBVIOUS
<1> QED BY <1>1, <1>2, <1>3

\* What the addition of messages does to what is on its way.
LEMMA AddedOnItsWay ==
    ASSUME NEW S, NEW q \in Seq(S), NEW s \in Seq(S), NEW n, NEW g
    PROVE  /\ Leaving(q, n) => Leaving(q \o s, n)
           /\ Leaving(s, n) => Leaving(q \o s, n)
           /\ Followed(q, n) /\ Followed(s, n) => Followed(q \o s, n)
           /\ Followed(s, n) /\ Leaving(s, n) => Followed(q \o s, n)
           /\ Stays(q, g) /\ Stays(s, g) => Stays(q \o s, g)
           /\ Coming(q, g) /\ Stays(s, g) => Coming(q \o s, g)
           /\ Coming(s, g) => Coming(q \o s, g)
<1> DEFINE r == q \o s
<1>0. /\ Len(q) \in Nat /\ Len(s) \in Nat /\ Len(r) = Len(q) + Len(s)
      /\ \A i \in 1 .. Len(q) : i \in 1 .. Len(r) /\ r[i] = q[i]
      /\ \A i \in 1 .. Len(s) : Len(q) + i \in 1 .. Len(r) /\ r[Len(q) + i] = s[i]
      /\ \A i \in 1 .. Len(r) : i \notin 1 .. Len(q) => i - Len(q) \in 1 .. Len(s)
                                                      /\ r[i] = s[i - Len(q)]
  BY Added
<1> HIDE DEF r
<1>1. Leaving(q, n) => Leaving(r, n)
  BY <1>0 DEF Leaving
<1>2. Leaving(s, n) => Leaving(r, n)
  BY <1>0 DEF Leaving
<1>3. Followed(q, n) /\ Followed(s, n) => Followed(r, n)
  <2> SUFFICES ASSUME Followed(q, n), Followed(s, n),
                      NEW i \in 1 .. Len(r), r[i].cmd \in Entering /\ r[i].arg = n
               PROVE  \E j \in i .. Len(r) : r[j].cmd = "QUIT" /\ r[j].arg = n
    BY DEF Followed
  <2>1. CASE i \in 1 .. Len(q)
    <3>1. PICK j \in i .. Len(q) : q[j].cmd = "QUIT" /\ q[j].arg = n
      BY <1>0, <2>1 DEF Followed
    <3> QED BY <1>0, <2>1, <3>1
  <2>2. CASE i \notin 1 .. Len(q)
    <3>1. PICK j \in i - Len(q) .. Len(s) : s[j].cmd = "QUIT" /\ s[j].arg = n
      BY <1>0, <2>2 DEF Followed
    <3>2. Len(q) + j \in i .. Len(r) /\ r[Len(q) + j] = s[j]
      BY <1>0, <2>2, <3>1
    <3> QED BY <3>1, <3>2
  <2> QED BY <2>1, <2>2
<1>4. Followed(s, n) /\ Leaving(s, n) => Followed(r, n)
  <2> SUFFICES ASSUME Followed(s, n), Leaving(s, n),
                      NEW i \in 1 .. Len(r), r[i].cmd \in Entering /\ r[i].arg = n
               PROVE  \E j \in i .. Len(r) : r[j].cmd = "QUIT" /\ r[j].arg = n
    BY DEF Followed
  <2>1. CASE i \in 1 .. Len(q)
    <3>1. PICK j \in 1 .. Len(s) : s[j].cmd = "QUIT" /\ s[j].arg = n
      BY DEF Leaving
    <3>2. Len(q) + j \in i .. Len(r) /\ r[Len(q) + j] = s[j]
      BY <1>0, <2>1, <3>1
    <3> QED BY <3>1, <3>2
  <2>2. CASE i \notin 1 .. Len(q)
    <3>1. PICK j \in i - Len(q) .. Len(s) : s[j].cmd = "QUIT" /\ s[j].arg = n
      BY <1>0, <2>2 DEF Followed
    <3>2. Len(q) + j \in i .. Len(r) /\ r[Len(q) + j] = s[j]
      BY <1>0, <2>2, <3>1
    <3> QED BY <3>1, <3>2
  <2> QED BY <2>1, <2>2
<1>5. Stays(q, g) /\ Stays(s, g) => Stays(r, g)
  BY <1>0 DEF Stays
<1>6. Coming(q, g) /\ Stays(s, g) => Coming(r, g)
  <2> SUFFICES ASSUME Coming(q, g), Stays(s, g) PROVE Coming(r, g)
    OBVIOUS
  <2>1. PICK i \in 1 .. Len(q) : Enters(q[i], g) /\ \A j \in i .. Len(q) : ~Erases(q[j], g)
    BY DEF Coming
  <2>2. i \in 1 .. Len(r) /\ Enters(r[i], g)
    BY <1>0, <2>1
  <2>3. ASSUME NEW j \in i .. Len(r) PROVE ~Erases(r[j], g)
    BY <1>0, <2>1, <2>3 DEF Stays
  <2> QED BY <2>2, <2>3 DEF Coming
<1>7. Coming(s, g) => Coming(r, g)
  <2> SUFFICES ASSUME Coming(s, g) PROVE Coming(r, g)
    OBVIOUS
  <2>1. PICK i \in 1 .. Len(s) : Enters(s[i], g) /\ \A j \in i .. Len(s) : ~Erases(s[j], g)
    BY DEF Coming
  <2>2. Len(q) + i \in 1 .. Len(r) /\ Enters(r[Len(q) + i], g)
    BY <1>0, <2>1
  <2>3. ASSUME NEW j \in Len(q) + i .. Len(r) PROVE ~Erases(r[j], g)
    <3>1. j - Len(q) \in i .. Len(s) /\ r[j] = s[j - Len(q)]
      BY <1>0, <2>1, <2>3
    <3> QED BY <2>1, <3>1
  <2> QED BY <2>2, <2>3 DEF Coming
<1> QED BY <1>1, <1>2, <1>3, <1>4, <1>5, <1>6, <1>7 DEF r

\* What handling the first message does to what is on its way.
LEMMA TakenOnItsWay ==
    ASSUME NEW S, NEW q \in Seq(S), q # <<>>, NEW n, NEW g
    PROVE  /\ Leaving(q, n) => \/ Leaving(Tail(q), n)
                               \/ Head(q).cmd = "QUIT" /\ Head(q).arg = n
           /\ Followed(q, n) => Followed(Tail(q), n)
           /\ Followed(q, n) /\ Head(q).cmd \in Entering /\ Head(q).arg = n => Leaving(Tail(q), n)
           /\ Stays(q, g) => Stays(Tail(q), g) /\ ~Erases(Head(q), g)
           /\ Coming(q, g) => \/ Coming(Tail(q), g)
                              \/ Enters(Head(q), g) /\ Stays(Tail(q), g)
<1> DEFINE r == Tail(q)
           h == Head(q)
<1>0. /\ h = q[1]
      /\ Len(q) \in Nat /\ Len(r) \in Nat
      /\ Len(q) = Len(r) + 1 /\ 1 \in 1 .. Len(q)
      /\ \A i \in 1 .. Len(r) : i + 1 \in 1 .. Len(q) /\ r[i] = q[i + 1]
      /\ \A i \in 1 .. Len(q) : i # 1 => i - 1 \in 1 .. Len(r) /\ r[i - 1] = q[i]
  BY Taken
<1> HIDE DEF r, h
<1>1. Leaving(q, n) => Leaving(r, n) \/ (h.cmd = "QUIT" /\ h.arg = n)
  BY <1>0 DEF Leaving
<1>2. Followed(q, n) => Followed(r, n)
  <2> SUFFICES ASSUME Followed(q, n), NEW i \in 1 .. Len(r), r[i].cmd \in Entering /\ r[i].arg = n
               PROVE  \E j \in i .. Len(r) : r[j].cmd = "QUIT" /\ r[j].arg = n
    BY DEF Followed
  <2>1. PICK j \in i + 1 .. Len(q) : q[j].cmd = "QUIT" /\ q[j].arg = n
    BY <1>0 DEF Followed
  <2>2. j - 1 \in i .. Len(r) /\ r[j - 1] = q[j]
    BY <1>0, <2>1
  <2> QED BY <2>1, <2>2
<1>3. Followed(q, n) /\ h.cmd \in Entering /\ h.arg = n => Leaving(r, n)
  <2> SUFFICES ASSUME Followed(q, n), h.cmd \in Entering /\ h.arg = n PROVE Leaving(r, n)
    OBVIOUS
  <2>1. PICK j \in 1 .. Len(q) : q[j].cmd = "QUIT" /\ q[j].arg = n
    BY <1>0 DEF Followed
  <2>2. j # 1
    BY <1>0, <2>1 DEF Entering
  <2> QED BY <1>0, <2>1, <2>2 DEF Leaving
<1>4. Stays(q, g) => Stays(r, g) /\ ~Erases(h, g)
  BY <1>0 DEF Stays
<1>5. Coming(q, g) => Coming(r, g) \/ (Enters(h, g) /\ Stays(r, g))
  <2> SUFFICES ASSUME Coming(q, g) PROVE Coming(r, g) \/ (Enters(h, g) /\ Stays(r, g))
    OBVIOUS
  <2>1. PICK i \in 1 .. Len(q) : Enters(q[i], g) /\ \A j \in i .. Len(q) : ~Erases(q[j], g)
    BY DEF Coming
  <2>2. CASE i = 1
    <3>1. Stays(r, g)
      BY <1>0, <2>1, <2>2 DEF Stays
    <3> QED BY <1>0, <2>1, <2>2, <3>1
  <2>3. CASE i # 1
    <3>1. i - 1 \in 1 .. Len(r) /\ Enters(r[i - 1], g)
      BY <1>0, <2>1, <2>3
    <3>2. ASSUME NEW j \in i - 1 .. Len(r) PROVE ~Erases(r[j], g)
      <4>1. j + 1 \in i .. Len(q) /\ r[j] = q[j + 1]
        BY <1>0, <2>1, <2>3, <3>2
      <4> QED BY <2>1, <4>1
    <3> QED BY <3>1, <3>2 DEF Coming
  <2> QED BY <2>2, <2>3
<1> QED BY <1>1, <1>2, <1>3, <1>4, <1>5 DEF r, h

\* JOIN and what is added to or taken from the requests.
LEMMA AskedOnce ==
    ASSUME NEW S, NEW q \in Seq(S), NEW s \in Seq(S)
    PROVE  /\ Asked(q \o s) <=> Asked(q) \/ Asked(s)
           /\ Once(q) /\ ~Asked(s) => Once(q \o s)
           /\ ~Asked(q) /\ Once(s) => Once(q \o s)
<1> DEFINE r == q \o s
<1>0. /\ Len(q) \in Nat /\ Len(s) \in Nat /\ Len(r) = Len(q) + Len(s)
      /\ \A i \in 1 .. Len(q) : i \in 1 .. Len(r) /\ r[i] = q[i]
      /\ \A i \in 1 .. Len(s) : Len(q) + i \in 1 .. Len(r) /\ r[Len(q) + i] = s[i]
      /\ \A i \in 1 .. Len(r) : i \notin 1 .. Len(q) => i - Len(q) \in 1 .. Len(s)
                                                      /\ r[i] = s[i - Len(q)]
  BY Added
<1> HIDE DEF r
<1>1. Asked(r) <=> Asked(q) \/ Asked(s)
  BY <1>0 DEF Asked
<1>2. Once(q) /\ ~Asked(s) => Once(r)
  BY <1>0 DEF Asked, Once
<1>3. ~Asked(q) /\ Once(s) => Once(r)
  <2> SUFFICES ASSUME ~Asked(q), Once(s), NEW i \in 1 .. Len(r), NEW j \in 1 .. Len(r),
                      r[i].cmd = "JOIN" /\ r[j].cmd = "JOIN"
               PROVE  i = j
    BY DEF Once
  <2>1. i \notin 1 .. Len(q) /\ j \notin 1 .. Len(q)
    BY <1>0 DEF Asked
  <2> QED BY <1>0, <2>1 DEF Once
<1> QED BY <1>1, <1>2, <1>3 DEF r

LEMMA AskedTaken ==
    ASSUME NEW S, NEW q \in Seq(S), q # <<>>
    PROVE  /\ Asked(q) <=> Head(q).cmd = "JOIN" \/ Asked(Tail(q))
           /\ Once(q) => Once(Tail(q))
           /\ Once(q) => ~(Head(q).cmd = "JOIN" /\ Asked(Tail(q)))
<1> DEFINE r == Tail(q)
           h == Head(q)
<1>0. /\ h = q[1]
      /\ Len(q) \in Nat /\ Len(r) \in Nat
      /\ Len(q) = Len(r) + 1 /\ 1 \in 1 .. Len(q)
      /\ \A i \in 1 .. Len(r) : i + 1 \in 1 .. Len(q) /\ r[i] = q[i + 1]
      /\ \A i \in 1 .. Len(q) : i # 1 => i - 1 \in 1 .. Len(r) /\ r[i - 1] = q[i]
  BY Taken
<1> HIDE DEF r, h
<1>1. Asked(q) <=> h.cmd = "JOIN" \/ Asked(r)
  BY <1>0 DEF Asked
<1>2. Once(q) => Once(r)
  <2> SUFFICES ASSUME Once(q), NEW i \in 1 .. Len(r), NEW j \in 1 .. Len(r),
                      r[i].cmd = "JOIN" /\ r[j].cmd = "JOIN"
               PROVE  i = j
    BY DEF Once
  <2>1. i + 1 = j + 1
    BY <1>0 DEF Once
  <2> QED BY <1>0, <2>1
<1>3. Once(q) => ~(h.cmd = "JOIN" /\ Asked(r))
  <2> SUFFICES ASSUME Once(q), h.cmd = "JOIN", NEW i \in 1 .. Len(r), r[i].cmd = "JOIN"
               PROVE  FALSE
    BY DEF Asked
  <2>1. i + 1 = 1
    BY <1>0 DEF Once
  <2> QED BY <1>0, <2>1
<1> QED BY <1>1, <1>2, <1>3 DEF r, h

-----------------------------------------------------------------------------
(***************************************************************************)
(* Types: of the session, whose number of the next table is -1 only where no *)
(* answer to SENDLIST is awaited, of the client, the queues and the server. *)
(***************************************************************************)
\* What a thread other than the client's puts into the queue, which concerns
\* neither the channel nor its names.
Asides == {m \in Messages : m.cmd \notin {"JOIN", "WHO"}}

Entries == [pc : {"sleep", "case", "put", "assign"}, at : 0..7 \cup {10},
            next : {0, 3, 5, 7, 10}, held : Pointers, msg : Asides]
Mains == [pc : {"loop", "put"}, held : Pointers, msg : Asides]

\* After the last table no answer to SENDLIST is waited for until the next choice
\* of a server.
TableOK ==
    sendlistTableID = -1 =>
        /\ state \notin 3 .. 5
        /\ entry.at \notin {4, 5}
        /\ entry.pc = "case" => entry.at # 3
        /\ entry.pc = "put" => entry.next = 10
        /\ entry.pc = "assign" => entry.next = 7

SessionTypes ==
    /\ state \in 0..7 \cup {10}
    /\ timer \in 0 .. ServerWait + ListWait
    /\ currentServer \in Servers \cup {Empty}
    /\ sendlistTableID \in -1 .. 2
    /\ sendQ \in {Null, Queue}
    /\ cache \in Caches
    /\ entry \in Entries
    /\ main \in Mains
    /\ TableOK
ClientTypes ==
    /\ cState \in {0, 4, 5, 6}
    /\ cTimer \in 0..ReconnectDelay
    /\ pState \in {0, 1, 2, 3, 4, 5, 6, 10, 11, 12}
    /\ pTimer \in 0 .. NickWait + LoginWait + JoinWait + PingTimer
    /\ cpc \in {"sleep", "recv", "send", "quiet"}
QueueTypes == sendQueue \in Seq(Messages) /\ recvQueue \in Seq(Inbound) /\ owed \in Seq(Owing)
ServerTypes == members \subseteq Nicks /\ crossed \subseteq Gateways
AgeTypes ==
    /\ age \in [Threads -> Nat]
    /\ age["entry"] <= EntryPeriod + MaxStep
    /\ age["client"] <= ClientSleep + MaxStep
    /\ age["main"] <= MaxStep

Types == SessionTypes /\ ClientTypes /\ QueueTypes /\ ServerTypes /\ AgeTypes

\* Numbers and names that the types rest on.
LEMMA TypeFacts ==
    /\ EntryPeriod \in Nat /\ ClientPeriod \in Nat /\ QuietTime \in Nat /\ MaxStep \in Nat
    /\ ServerWait \in Nat /\ ListWait \in Nat /\ ReconnectDelay \in Nat
    /\ NickWait \in Nat /\ LoginWait \in Nat /\ JoinWait \in Nat /\ PingTimer \in Nat
    /\ Threads = {"entry", "client", "main"}
    /\ numberOfTables = 2
    /\ Servers \subseteq Nicks /\ Empty \in Args
BY SessionAssumption DEF SessionAssumption, Threads, numberOfTables, Nicks, Args

\* Messages that are made.
LEMMA MessageMade ==
    ASSUME NEW c \in Commands, NEW a \in Args
    PROVE  /\ Msg(c, a) \in Messages /\ Msg(c, a).cmd = c /\ Msg(c, a).arg = a
           /\ c \notin {"JOIN", "WHO"} => Msg(c, a) \in Asides
<1>1. Msg(c, a) \in Messages /\ Msg(c, a).cmd = c /\ Msg(c, a).arg = a
  BY DEF Msg, Messages
<1> QED BY <1>1 DEF Asides

\* What Entry and the main thread queue.
LEMMA AsidesMade ==
    /\ NoMsg \in Asides /\ Msg("QUIT", Empty) \in Asides
    /\ \A s \in Servers \cup {Empty} : Msg("SENDLIST", s) \in Asides
    /\ Requests \subseteq Asides
<1>1. NoMsg \in Asides /\ Heard \in Asides /\ Msg("QUIT", Empty) \in Asides
  BY MessageMade, TypeFacts DEF NoMsg, Heard, Commands
<1>2. \A s \in Servers \cup {Empty} : Msg("SENDLIST", s) \in Asides
  BY MessageMade DEF Commands, Args, Nicks
<1>3. \A u \in Users : Msg("FIND", u) \in Asides
  BY MessageMade DEF Commands, Args
<1>4. Requests \subseteq Asides
  BY <1>1, <1>3, SessionAssumption DEF SessionAssumption, Finds
<1> QED BY <1>1, <1>2, <1>4

\* Types at the start.
LEMMA TypesInit == Init => Types
<1> SUFFICES ASSUME Init PROVE Types
  OBVIOUS
<1> USE TypeFacts, AsidesMade
<1>1. HostsRead \in Caches
  <2>1. /\ [u \in Users |-> Empty] \in [Users -> Repeaters \cup {Empty}]
        /\ [r \in Repeaters |-> Empty] \in [Repeaters -> Gateways \cup {Empty}]
        /\ [g \in Names \cup Reflectors |-> IF g \in Reflectors THEN HostsFile ELSE Empty]
              \in [Names \cup Reflectors -> Nicks \cup {HostsFile, Empty}]
        /\ [n \in Names |-> Empty] \in [Names -> Nicks \cup {Empty}]
    OBVIOUS
  <2> QED BY <2>1 DEF HostsRead, Caches
<1>2. SessionTypes
  BY <1>1 DEF Init, AppInit, SessionTypes, Entries, Mains, TableOK, Pointers
<1>3. ClientTypes
  BY DEF Init, ClientInit, ClientTypes
<1>4. QueueTypes
  BY DEF Init, AppInit, ClientInit, QueueTypes
<1>5. ServerTypes /\ AgeTypes
  BY DEF Init, ServerTypes, AgeTypes, ClientSleep, ClientInit
<1> QED BY <1>2, <1>3, <1>4, <1>5 DEF Types

\* A step of Entry keeps the session's variables, its own record, and what is known
\* of the tables.
LEMMA EntryRegisters ==
    ASSUME SessionTypes, EntryWake \/ EntryStep
    PROVE  /\ state' \in 0..7 \cup {10} /\ timer' \in 0 .. ServerWait + ListWait
           /\ currentServer' \in Servers \cup {Empty}
           /\ UNCHANGED <<sendQ, cache, main>>
<1> USE TypeFacts DEF SessionTypes
<1>1. CASE EntryWake
  BY <1>1 DEF EntryWake
<1>2. CASE EntryPut
  BY <1>2 DEF EntryPut, appVars
<1>3. CASE EntryAssign
  BY <1>3 DEF EntryAssign, Goto, Keep, Entries
<1>4. CASE EntryCase
  <2>0. UNCHANGED <<sendQ, cache, main>>
    BY <1>4 DEF EntryCase
  <2> USE <2>0 DEF Goto, Stay, Quit, Keep
  <2>1. CASE WaitForNetwork \/ Standby \/ GiveUp \/ AwaitList
    BY <2>1 DEF WaitForNetwork, Standby, GiveUp, AwaitList
  <2>2. CASE ConnectToDb
    BY <2>2 DEF ConnectToDb
  <2>3. CASE ChooseServer
    BY <2>3 DEF ChooseServer, ServerUsers
  <2>4. CASE NextTable
    BY <2>4 DEF NextTable
  <2>5. CASE SendList
    BY <2>5 DEF SendList
  <2>6. CASE Complete
    BY <2>6 DEF Complete
  <2>7. CASE Disconnect
    BY <2>7 DEF Disconnect
  <2> QED BY <1>4, <2>1, <2>2, <2>3, <2>4, <2>5, <2>6, <2>7 DEF EntryCase
<1> QED BY <1>1, <1>2, <1>3, <1>4 DEF EntryStep

LEMMA EntryLocals ==
    ASSUME SessionTypes, EntryWake \/ EntryStep
    PROVE  entry' \in Entries
<1>1. NoMsg \in Asides /\ Msg("QUIT", Empty) \in Asides /\ Msg("SENDLIST", currentServer) \in Asides
  BY AsidesMade DEF SessionTypes
<1>2. entry \in Entries /\ state \in 0..7 \cup {10} /\ Null \in Pointers /\ sendQ \in Pointers
  BY DEF SessionTypes, Pointers
<1>3. Sleep \/ Quit => entry' \in Entries
  BY <1>1, <1>2 DEF Sleep, Quit, Entries
<1>4. CASE EntryWake
  BY <1>2, <1>4 DEF EntryWake, Entries
<1>5. CASE EntryPut
  BY <1>1, <1>2, <1>3, <1>5 DEF EntryPut, Entries
<1>6. CASE EntryAssign
  BY <1>3, <1>6 DEF EntryAssign, Goto
<1>7. CASE EntryCase
  <2> USE <1>3 DEF Goto, Stay
  <2>1. CASE WaitForNetwork \/ ConnectToDb \/ NextTable \/ AwaitList \/ Standby
    BY <2>1 DEF WaitForNetwork, ConnectToDb, NextTable, AwaitList, Standby
  <2>2. CASE Disconnect \/ GiveUp
    BY <2>2 DEF Disconnect, GiveUp
  <2>3. CASE ChooseServer
    BY <1>2, <2>3 DEF ChooseServer, Entries
  <2>4. CASE SendList
    BY <1>1, <1>2, <2>4 DEF SendList, Entries
  <2>5. CASE Complete
    BY <1>2, <2>5 DEF Complete, Entries
  <2> QED BY <1>7, <2>1, <2>2, <2>3, <2>4, <2>5 DEF EntryCase
<1> QED BY <1>4, <1>5, <1>6, <1>7 DEF EntryStep

LEMMA EntryTable ==
    ASSUME SessionTypes, EntryWake \/ EntryStep
    PROVE  sendlistTableID' \in -1 .. 2 /\ TableOK'
<1>0. sendlistTableID \in -1 .. 2 /\ entry \in Entries /\ TableOK
  BY DEF SessionTypes
<1> USE <1>0, TypeFacts DEF TableOK
<1>1. Sleep => entry'.pc = "sleep" /\ entry'.at = entry.at
  BY DEF Sleep, Entries
<1>2. Quit => /\ entry'.pc = "put" /\ entry'.next = 10 /\ entry'.at = entry.at
              /\ state' = 10 /\ sendlistTableID' = sendlistTableID
  BY DEF Quit, Keep, Entries
<1>3. CASE EntryWake
  BY <1>3 DEF EntryWake, Entries
<1>4. CASE EntryPut
  BY <1>1, <1>4 DEF EntryPut, appVars, Entries
<1>5. CASE EntryAssign
  BY <1>1, <1>5 DEF EntryAssign, Goto, Keep
<1>6. CASE EntryCase
  <2> USE <1>1, <1>2 DEF InCase, Goto, Stay, Keep
  <2>1. CASE WaitForNetwork \/ Standby \/ GiveUp
    BY <2>1 DEF WaitForNetwork, Standby, GiveUp
  <2>2. CASE ConnectToDb
    BY <2>2 DEF ConnectToDb
  <2>3. CASE ChooseServer
    <3>1. CASE sendlistTableID' = numberOfTables
      BY <3>1
    <3>2. CASE Quit \/ Stay
      BY <2>3, <3>2 DEF ChooseServer
    <3> QED BY <2>3, <3>1, <3>2 DEF ChooseServer
  <2>4. CASE NextTable
    <3>1. sendlistTableID # -1
      BY <2>4 DEF NextTable
    <3> QED BY <2>4, <3>1 DEF NextTable
  <2>5. CASE SendList
    <3>1. CASE sendlistTableID = 1
      BY <2>5, <3>1 DEF SendList
    <3>2. CASE sendlistTableID # 1
      BY <2>5, <3>2 DEF SendList
    <3> QED BY <3>1, <3>2
  <2>6. CASE AwaitList
    BY <2>6 DEF AwaitList
  <2>7. CASE Complete
    BY <2>7 DEF Complete, Entries
  <2>8. CASE Disconnect
    BY <2>8 DEF Disconnect
  <2> QED BY <1>6, <2>1, <2>2, <2>3, <2>4, <2>5, <2>6, <2>7, <2>8 DEF EntryCase
<1> QED BY <1>3, <1>4, <1>5, <1>6 DEF EntryStep

LEMMA EntryTypes ==
    ASSUME SessionTypes, EntryWake \/ EntryStep
    PROVE  SessionTypes'
BY EntryRegisters, EntryLocals, EntryTable DEF SessionTypes, Entries, Mains

\* The other threads only add to the queue, and nothing that concerns the channel.
Adds == sendQueue' = sendQueue \/ \E m \in Asides : sendQueue' = Append(sendQueue, m)

LEMMA ThreadsAdd ==
    ASSUME SessionTypes, EntryThread \/ MainThread
    PROVE  Adds
<1>0. entry.msg \in Asides /\ main.msg \in Asides
  BY DEF SessionTypes, Entries, Mains
<1>1. EntryPut \/ MainPut => Adds
  BY <1>0 DEF EntryPut, MainPut, Put, Adds
<1>2. ~EntryPut /\ ~MainPut => sendQueue' = sendQueue
  BY DEF EntryThread, MainThread, EntryWake, EntryStep, EntryAssign, EntryCase, MainAsk
<1> QED BY <1>1, <1>2 DEF Adds

LEMMA AddsTypes == ASSUME sendQueue \in Seq(Messages), Adds PROVE sendQueue' \in Seq(Messages)
<1>1. \A m \in Asides : Append(sendQueue, m) \in Seq(Messages)
  BY DEF Asides
<1> QED BY <1>1 DEF Adds

\* A thread that falls asleep begins to count anew.
LEMMA AsleepTypes ==
    ASSUME AgeTypes, NEW t \in Threads, NEW asleep \in BOOLEAN, FallsAsleep(t, asleep)
    PROVE  /\ age' \in [Threads -> Nat]
           /\ age' = [age EXCEPT ![t] = 0] \/ (~asleep /\ age' = age)
BY DEF AgeTypes, FallsAsleep

\* The thread of the session, and the main thread.
LEMMA EntryThreadTypes == Types /\ EntryThread => Types'
<1> SUFFICES ASSUME Types, EntryThread PROVE Types'
  OBVIOUS
<1>1. SessionTypes'
  BY EntryTypes DEF EntryThread, Types
<1>2. sendQueue' \in Seq(Messages)
  BY ThreadsAdd, AddsTypes DEF Types, QueueTypes
<1>3. UNCHANGED <<clientVars, serverVars>>
  BY DEF EntryThread
<1>4. AgeTypes'
  <2>1. /\ age' \in [Threads -> Nat]
        /\ age' = [age EXCEPT !["entry"] = 0] \/ age' = age
    BY AsleepTypes DEF EntryThread, Types, Threads
  <2> QED BY <1>3, <2>1, TypeFacts DEF Types, AgeTypes, ClientSleep, clientVars
<1> QED BY <1>1, <1>2, <1>3, <1>4 DEF Types, QueueTypes, ClientTypes, ServerTypes, clientVars, serverVars

LEMMA MainThreadTypes == Types /\ MainThread => Types'
<1> SUFFICES ASSUME Types, MainThread PROVE Types'
  OBVIOUS
<1>1. UNCHANGED <<appVars, cache, entry>>
  BY DEF MainThread, MainPut, MainAsk, appVars
<1>2. main' \in Mains
  <2>1. NoMsg \in Asides /\ Requests \subseteq Asides /\ sendQ \in Pointers /\ Null \in Pointers
    BY AsidesMade DEF Types, SessionTypes, Pointers
  <2> QED BY <2>1 DEF MainThread, MainPut, MainAsk, Mains
<1>3. SessionTypes'
  BY <1>1, <1>2 DEF Types, SessionTypes, appVars, TableOK
<1>4. sendQueue' \in Seq(Messages)
  BY ThreadsAdd, AddsTypes DEF Types, QueueTypes
<1>5. UNCHANGED <<clientVars, serverVars>> /\ age' = [age EXCEPT !["main"] = 0]
  BY DEF MainThread
<1>6. AgeTypes'
  BY <1>5, TypeFacts DEF Types, AgeTypes, ClientSleep, clientVars
<1> QED BY <1>3, <1>4, <1>5, <1>6 DEF Types, QueueTypes, ClientTypes, ServerTypes, clientVars, serverVars

\* The operations of the cache keep its type.
LEMMA CacheTypes ==
    ASSUME cache \in Caches
    PROVE  /\ \A n \in Nicks : NameOf(n) \in Names
           /\ \A n \in Nicks : updateGate(updateName(cache, NameOf(n), n), NameOf(n), n) \in Caches
           /\ \A n \in Nicks : eraseGate(eraseName(cache, NameOf(n)), NameOf(n)) \in Caches
           /\ \A u \in Users, r \in Repeaters : updateUser(cache, u, r) \in Caches
           /\ \A r \in Repeaters, g \in Gateways : updateRptr(cache, r, g) \in Caches
           /\ clearGate(cache) \in Caches
<1>1. \A n \in Nicks : NameOf(n) \in Names
  BY DEF Nicks, NameOf, Names
<1>2. ASSUME NEW n \in Nicks
      PROVE  /\ updateGate(updateName(cache, NameOf(n), n), NameOf(n), n) \in Caches
             /\ eraseGate(eraseName(cache, NameOf(n)), NameOf(n)) \in Caches
  BY <1>1 DEF Caches, updateGate, updateName, eraseGate, eraseName
<1>3. ASSUME NEW r \in Repeaters, NEW g \in Gateways
      PROVE  updateRptr(cache, r, g) \in Caches
  BY DEF Caches, updateRptr
<1>4. ASSUME NEW u \in Users, NEW r \in Repeaters
      PROVE  updateUser(cache, u, r) \in Caches
  BY DEF Caches, updateUser
<1>5. clearGate(cache) \in Caches
  BY DEF Caches, clearGate
<1> QED BY <1>1, <1>2, <1>3, <1>4, <1>5

\* What the client hands to the session.
LEMMA AnswerTypes ==
    ASSUME Types, NEW m \in Inbound, Answer(m), UNCHANGED threadVars
    PROVE  SessionTypes' /\ sendQueue' \in Seq(Messages)
<1> USE DEF appVars, threadVars
<1>0. /\ SessionTypes /\ cache \in Caches /\ sendQueue \in Seq(Messages) /\ m \in Messages
      /\ state \in 0..7 \cup {10} /\ Empty \in Args
  BY TypeFacts DEF Types, SessionTypes, QueueTypes, Inbound
<1>1. ASSUME UNCHANGED <<state, timer, currentServer, sendlistTableID, sendQ>>, cache' \in Caches
      PROVE  SessionTypes'
  BY <1>0, <1>1 DEF SessionTypes, TableOK
<1>2. CASE m.cmd = "PING" /\ sendQueue' = Append(sendQueue, Msg("PONG", Empty))
                          /\ UNCHANGED <<appVars, cache>>
  <2>1. Msg("PONG", Empty) \in Messages
    BY MessageMade, TypeFacts DEF Commands
  <2> QED BY <1>0, <1>1, <1>2, <2>1
<1>3. CASE m.cmd \in {"JOIN", "352"} /\ userJoin(m.arg)
  <2>1. m.arg \in Nicks
    BY <1>3 DEF Inbound, Entering
  <2> QED BY <1>0, <1>1, <1>3, <2>1, CacheTypes DEF userJoin
<1>4. CASE m.cmd = "QUIT" /\ userLeave(m.arg)
  <2>1. m.arg \in Nicks
    BY <1>4 DEF Inbound
  <2>2. CASE m.arg \in Servers
    BY <1>0, <1>4, <2>2, TypeFacts DEF userLeave, SessionTypes, TableOK
  <2>3. CASE m.arg \notin Servers
    BY <1>0, <1>1, <1>4, <2>1, <2>3, CacheTypes DEF userLeave
  <2> QED BY <2>2, <2>3
<1>5. CASE m.cmd = "UPDATE" /\ doUpdate(m.arg)
  <2>1. m.arg \in Rows
    BY <1>5 DEF Inbound
  <2>2. cache' \in Caches
    <3>1. CASE \E u \in Users, r \in Repeaters : m.arg = <<0, u, r>>
      BY <1>0, <1>5, <3>1, CacheTypes DEF doUpdate
    <3>2. CASE \E r \in Repeaters, g \in Gateways : m.arg = <<1, r, g>>
      BY <1>0, <1>5, <3>2, CacheTypes DEF doUpdate
    <3> QED BY <2>1, <3>1, <3>2 DEF Rows
  <2> QED BY <1>0, <1>1, <1>5, <2>2 DEF doUpdate
<1>6. ASSUME NEW k \in {3, 4}, ListAnswer(k) PROVE SessionTypes' /\ sendQueue' \in Seq(Messages)
  BY <1>0, <1>6 DEF ListAnswer, SessionTypes, TableOK
<1>7. CASE m.cmd = "NOT_FOUND" /\ NotFound(m.arg)
  <2>1. m.arg \in Args
    BY <1>0 DEF Messages
  <2>2. Msg("FIND", m.arg) \in Messages
    BY <2>1, MessageMade DEF Commands
  <2> QED BY <1>0, <1>1, <1>7, <2>2 DEF NotFound
<1> QED BY <1>2, <1>3, <1>4, <1>5, <1>6, <1>7 DEF Answer

\* A round of the client.
LEMMA WakesTypes ==
    ASSUME Types, ClientWakes, FallsAsleep("client", cpc' \in {"sleep", "quiet"})
    PROVE  SessionTypes' /\ ClientTypes' /\ sendQueue' \in Seq(Messages)
                         /\ recvQueue' \in Seq(Inbound) /\ AgeTypes'
<1> USE TypeFacts
<1>0. /\ SessionTypes /\ ClientTypes /\ AgeTypes
      /\ sendQueue \in Seq(Messages) /\ recvQueue \in Seq(Inbound)
  BY DEF Types, QueueTypes
<1>1. CASE Open
  BY <1>0, <1>1 DEF Open, InRound, CountDown, allAppVars, appVars, threadVars, protoVars, SessionTypes,
                    ClientTypes, TableOK, FallsAsleep, AgeTypes, ClientSleep
<1>2. CASE StartProtocol
  <2>1. <<>> \in Seq(Messages) /\ <<>> \in Seq(Inbound)
    OBVIOUS
  <2> QED BY <1>0, <1>2, <2>1 DEF StartProtocol, InRound, appVars, threadVars, SessionTypes,
                    ClientTypes, TableOK, FallsAsleep, AgeTypes, ClientSleep
<1>3. CASE BeginRound
  <2>1. pTimer' \in 0 .. NickWait + LoginWait + JoinWait + PingTimer
    BY <1>0, <1>3 DEF BeginRound, CountDown, ClientTypes
  <2> QED BY <1>0, <1>3, <2>1 DEF BeginRound, InRound, Restart, allAppVars, appVars, threadVars, SessionTypes,
                    ClientTypes, TableOK, FallsAsleep, AgeTypes, ClientSleep
<1>4. CASE TakeQueueAway
  <2>1. cache' \in Caches
    BY <1>0, <1>4, CacheTypes DEF TakeQueueAway, SessionTypes
  <2>2. ClientTypes'
    BY <1>0, <1>4 DEF TakeQueueAway, ClientTypes
  <2>3. AgeTypes'
    BY <1>0, <1>4 DEF TakeQueueAway, FallsAsleep, AgeTypes, ClientSleep
  <2> QED BY <1>0, <1>4, <2>1, <2>2, <2>3 DEF TakeQueueAway, threadVars, SessionTypes, TableOK
<1> QED BY <1>1, <1>2, <1>3, <1>4 DEF ClientWakes

\* The deletion of the queues.
LEMMA DeleteTypes ==
    ASSUME Types, DeleteQueues, FallsAsleep("client", cpc' \in {"sleep", "quiet"})
    PROVE  SessionTypes' /\ ClientTypes' /\ sendQueue' \in Seq(Messages)
                         /\ recvQueue' \in Seq(Inbound) /\ AgeTypes'
<1> USE TypeFacts
<1>0. /\ SessionTypes /\ ClientTypes /\ AgeTypes
      /\ entry \in Entries /\ main \in Mains
  BY DEF Types, SessionTypes
<1>1. entry' \in Entries /\ entry'.pc = entry.pc /\ entry'.at = entry.at /\ entry'.next = entry.next
  BY <1>0 DEF DeleteQueues, Entries, Pointers
<1>2. main' \in Mains
  BY <1>0 DEF DeleteQueues, Mains, Pointers
<1>3. SessionTypes'
  BY <1>0, <1>1, <1>2 DEF DeleteQueues, appVars, SessionTypes, TableOK
<1>4. ClientTypes'
  BY <1>0 DEF DeleteQueues, protoVars, ClientTypes
<1>5. AgeTypes'
  BY <1>0 DEF DeleteQueues, FallsAsleep, AgeTypes, ClientSleep
<1> QED BY <1>3, <1>4, <1>5 DEF DeleteQueues

\* What the client sends.
LEMMA SendsTypes ==
    ASSUME Types, ActOnState \/ SwitchOn
    PROVE  SessionTypes' /\ ClientTypes' /\ sendQueue' \in Seq(Messages) /\ cpc' \in {"send", "sleep"}
<1>0. SessionTypes /\ ClientTypes /\ sendQueue \in Seq(Messages)
  BY DEF Types, QueueTypes
<1>1. /\ <<Msg("NICK", Empty)>> \in Seq(Messages) /\ <<Msg("USER", Empty)>> \in Seq(Messages)
      /\ <<Msg("JOIN", Empty)>> \in Seq(Messages) /\ <<Msg("PING", Empty)>> \in Seq(Messages)
      /\ <<Msg("WHO", Empty)>> \in Seq(Messages)
  <2>1. /\ Msg("NICK", Empty) \in Messages /\ Msg("USER", Empty) \in Messages
        /\ Msg("JOIN", Empty) \in Messages /\ Msg("PING", Empty) \in Messages
        /\ Msg("WHO", Empty) \in Messages
    BY MessageMade, TypeFacts DEF Commands
  <2> QED BY <2>1
<1>2. ASSUME NEW s \in Seq(Messages), NEW p \in {2, 4, 6, 11, 12},
             NEW t \in {NickWait, LoginWait, JoinWait, PingTimer}, Sends(s, p, t)
      PROVE  ClientTypes' /\ sendQueue' \in Seq(Messages) /\ cpc' = "send"
  <2>1. t \in 0 .. NickWait + LoginWait + JoinWait + PingTimer
    BY TypeFacts
  <2>2. sendQueue \o s \in Seq(Messages)
    BY <1>0
  <2> QED BY <1>0, <1>2, <2>1, <2>2 DEF Sends, ClientTypes
<1>3. Waits \/ Fails => ClientTypes' /\ sendQueue' \in Seq(Messages) /\ cpc' \in {"send", "sleep"}
  BY <1>0, TypeFacts DEF Waits, Fails, Restart, ClientTypes, protoVars
<1>4. CASE ActOnState
  <2>1. ProtocolStep
    BY <1>4 DEF ActOnState
  <2>2. ClientTypes' /\ sendQueue' \in Seq(Messages) /\ cpc' \in {"send", "sleep"}
    BY <1>1, <1>2, <1>3, <2>1 DEF ProtocolStep
  <2> QED BY <1>0, <1>4, <2>2 DEF ActOnState, appVars, threadVars, SessionTypes, TableOK
<1>5. CASE SwitchOn
  <2>1. ClientTypes' /\ sendQueue' \in Seq(Messages) /\ cpc' = "send"
    BY <1>1, <1>2, <1>5 DEF SwitchOn
  <2> QED BY <1>0, <1>5, <2>1 DEF SwitchOn, threadVars, SessionTypes, TableOK
<1> QED BY <1>4, <1>5

\* What it receives.
LEMMA HandleTypes ==
    ASSUME Types, HandleMessage
    PROVE  SessionTypes' /\ ClientTypes' /\ sendQueue' \in Seq(Messages) /\ recvQueue' \in Seq(Inbound)
<1> DEFINE m == Head(recvQueue)
<1>0. SessionTypes /\ ClientTypes /\ sendQueue \in Seq(Messages) /\ recvQueue \in Seq(Inbound)
  BY DEF Types, QueueTypes
<1>1. m \in Inbound /\ recvQueue' \in Seq(Inbound) /\ UNCHANGED <<threadVars, cState, cTimer, cpc>>
  BY <1>0, Taken DEF HandleMessage
<1>2. CASE Login(m)
  <2>1. /\ pState' \in {pState, 3, 5, 10, 11}
        /\ pTimer' \in {pTimer, NickWait, PingTimer}
    BY <1>2 DEF Login, protoVars
  <2>2. pTimer' \in 0 .. NickWait + LoginWait + JoinWait + PingTimer
    BY <1>0, <2>1, TypeFacts DEF ClientTypes
  <2>3. ClientTypes'
    BY <1>0, <1>1, <2>1, <2>2 DEF ClientTypes
  <2> QED BY <1>0, <1>1, <1>2, <2>3 DEF Login, appVars, threadVars, SessionTypes, TableOK
<1>3. CASE Answer(m) /\ UNCHANGED protoVars
  BY <1>0, <1>1, <1>3, AnswerTypes DEF protoVars, ClientTypes
<1> QED BY <1>1, <1>2, <1>3 DEF HandleMessage

\* The client's thread.
LEMMA ClientThreadTypes == Types /\ ClientThread => Types'
<1> SUFFICES ASSUME Types, ClientThread PROVE Types'
  OBVIOUS
<1>0. /\ SessionTypes /\ ClientTypes /\ AgeTypes /\ ServerTypes
      /\ sendQueue \in Seq(Messages) /\ recvQueue \in Seq(Inbound) /\ owed \in Seq(Owing)
      /\ FallsAsleep("client", cpc' \in {"sleep", "quiet"})
  BY DEF Types, QueueTypes, ClientThread
<1>1. ASSUME cpc # "quiet", cpc' # "quiet" PROVE AgeTypes'
  <2>1. /\ age' \in [Threads -> Nat]
        /\ age' = [age EXCEPT !["client"] = 0] \/ age' = age
    BY <1>0 DEF FallsAsleep, AgeTypes, Threads
  <2>2. ClientSleep' = ClientSleep
    BY <1>1 DEF ClientSleep
  <2>3. ClientSleep \in Nat
    BY TypeFacts DEF ClientSleep
  <2> QED BY <1>0, <2>1, <2>2, <2>3, TypeFacts DEF AgeTypes
<1>2. CASE ClientWakes /\ UNCHANGED serverVars
  BY <1>0, <1>2, WakesTypes DEF Types, QueueTypes, ServerTypes, serverVars
<1>3. CASE DeleteQueues /\ Forgotten
  <2>1. <<>> \in Seq(Owing)
    OBVIOUS
  <2> QED BY <1>0, <1>3, <2>1, DeleteTypes DEF Types, QueueTypes, ServerTypes, Forgotten
<1>4. CASE ClientActs /\ UNCHANGED serverVars
  <2>1. SessionTypes' /\ ClientTypes' /\ sendQueue' \in Seq(Messages) /\ recvQueue' \in Seq(Inbound)
                      /\ cpc # "quiet" /\ cpc' # "quiet"
    <3>1. CASE HandleMessage
      BY <3>1, HandleTypes DEF HandleMessage
    <3>2. CASE ActOnState \/ SwitchOn
      BY <1>0, <3>2, SendsTypes DEF ActOnState, SwitchOn, MessagesDone
    <3>3. CASE Kicked
      <4>1. recvQueue' \in Seq(Inbound)
        BY <1>0, <3>3, Taken DEF Kicked
      <4> QED BY <1>0, <3>3, <4>1, TypeFacts DEF Kicked, Restart, allAppVars, appVars, threadVars, protoVars,
                                      SessionTypes, TableOK, ClientTypes
    <3>4. CASE ShortWrite
      <4>1. sendQueue' \in Seq(Messages)
        BY <1>0, <3>4, Taken DEF ShortWrite
      <4> QED BY <1>0, <3>4, <4>1, TypeFacts DEF ShortWrite, Restart, appVars, threadVars, protoVars,
                                      SessionTypes, TableOK, ClientTypes
    <3>5. CASE EndRound
      BY <1>0, <3>5 DEF EndRound, allAppVars, appVars, threadVars, protoVars,
                        SessionTypes, TableOK, ClientTypes
    <3> QED BY <1>4, <3>1, <3>2, <3>3, <3>4, <3>5 DEF ClientActs
  <2> QED BY <1>0, <1>1, <1>4, <2>1 DEF Types, QueueTypes, ServerTypes, serverVars
<1>5. CASE SendMessage /\ Receive(Head(sendQueue))
  <2>1. sendQueue' \in Seq(Messages) /\ Head(sendQueue) \in Messages
    BY <1>0, <1>5, Taken DEF SendMessage
  <2>2. owed' \in Seq(Owing)
    BY <1>0, <1>5, <2>1 DEF Receive, Owing
  <2> QED BY <1>0, <1>1, <1>5, <2>1, <2>2
          DEF SendMessage, Receive, appVars, threadVars, protoVars, SessionTypes, TableOK, ClientTypes,
              Types, QueueTypes, ServerTypes
<1> QED BY <1>2, <1>3, <1>4, <1>5 DEF ClientThread

\* Messages from the server.
LEMMA InboundMade ==
    /\ \A n \in Nicks : /\ Msg("352", n) \in Inbound /\ Msg("JOIN", n) \in Inbound
                        /\ Msg("QUIT", n) \in Inbound
    /\ \A c \in {"433", "004", "JOINED", "PONG", "PING", "KICK", "LIST_END", "LIST_MORE"} :
            Msg(c, Empty) \in Inbound
    /\ \A a \in Args : Msg("NOT_FOUND", a) \in Inbound
    /\ \A row \in DbRows : Msg("UPDATE", row) \in Inbound
<1>1. ASSUME NEW n \in Nicks, NEW c \in {"352", "JOIN", "QUIT"} PROVE Msg(c, n) \in Inbound
  <2>1. n \in Args /\ c \in Commands
    BY DEF Args, Commands
  <2> QED BY <2>1, MessageMade DEF Inbound
<1>2. ASSUME NEW c \in {"433", "004", "JOINED", "PONG", "PING", "KICK", "LIST_END", "LIST_MORE"}
      PROVE  Msg(c, Empty) \in Inbound
  <2>1. c \in Commands /\ c \notin {"JOIN", "352", "QUIT", "UPDATE"}
    BY DEF Commands
  <2> QED BY <2>1, MessageMade, TypeFacts DEF Inbound, Entering
<1>3. ASSUME NEW a \in Args PROVE Msg("NOT_FOUND", a) \in Inbound
  <2>1. "NOT_FOUND" \in Commands
    BY DEF Commands
  <2> QED BY <2>1, MessageMade DEF Inbound, Entering
<1>4. ASSUME NEW row \in DbRows PROVE Msg("UPDATE", row) \in Inbound
  <2>1. "UPDATE" \in Commands /\ row \in Rows /\ row \in Args
    BY SessionAssumption DEF SessionAssumption, Commands, Args
  <2> QED BY <2>1, MessageMade DEF Inbound, Entering
<1> QED BY <1>1, <1>2, <1>3, <1>4

LEMMA OneInbound == <<>> \in Seq(Inbound) /\ \A m \in Inbound : <<m>> \in Seq(Inbound)
OBVIOUS

\* The answer to WHO names everybody in the channel.
LEMMA RosterAnswered ==
    ASSUME members \subseteq Nicks,
           NEW s \in Bijection(1..Cardinality(Roster), Roster)
    PROVE  /\ s \in Seq(Roster)
           /\ \A n \in members : \E i \in 1 .. Len(s) : s[i] = Msg("352", n)
<1>1. IsFiniteSet(members)
  BY SessionAssumption, FS_Subset DEF SessionAssumption
<1>2. [n \in members |-> Msg("352", n)] \in Surjection(members, Roster)
  BY DEF Roster, Surjection
<1>3. IsFiniteSet(Roster)
  BY <1>1, <1>2, FS_Surjection
<1>4. Cardinality(Roster) \in Nat
  BY <1>3, FS_CardinalityType
<1>5. /\ s \in [1..Cardinality(Roster) -> Roster]
      /\ \A m \in Roster : \E i \in 1..Cardinality(Roster) : s[i] = m
  BY DEF Bijection, Surjection
<1>6. s \in Seq(Roster) /\ Len(s) = Cardinality(Roster)
  BY <1>4, <1>5
<1>7. \A n \in members : Msg("352", n) \in Roster
  BY DEF Roster
<1> QED BY <1>5, <1>6, <1>7

\* What the server answers.
LEMMA AnswersTypes ==
    ASSUME members \subseteq Nicks, NEW m \in Owing, NEW s \in Answers(m)
    PROVE  s \in Seq(Inbound)
<1>1. m.cmd \in {"NICK", "USER", "JOIN", "WHO", "PING", "FIND", "SENDLIST"} /\ m.arg \in Args
  BY DEF Owing, Messages
<1>2. CASE m.cmd = "WHO"
  <2>1. s \in Bijection(1..Cardinality(Roster), Roster)
    BY <1>2 DEF Answers
  <2>2. Roster \subseteq Inbound
    BY InboundMade DEF Roster
  <2>3. s \in Seq(Roster)
    BY <2>1, RosterAnswered
  <2> QED BY <2>2, <2>3, SeqMonotonic
<1>3. CASE m.cmd = "NICK"
  BY <1>3, InboundMade, OneInbound DEF Answers
<1>4. CASE m.cmd = "USER"
  BY <1>4, InboundMade, OneInbound DEF Answers
<1>5. CASE m.cmd = "JOIN"
  BY <1>5, InboundMade, OneInbound DEF Answers
<1>6. CASE m.cmd = "PING"
  BY <1>6, InboundMade, OneInbound DEF Answers
<1>7. CASE m.cmd = "FIND"
  BY <1>1, <1>7, InboundMade, OneInbound DEF Answers
<1>8. CASE m.cmd = "SENDLIST"
  BY <1>8, InboundMade, OneInbound DEF Answers
<1> QED BY <1>1, <1>2, <1>3, <1>4, <1>5, <1>6, <1>7, <1>8

\* Nicks of one gateway: those of a server user are his own.
LEMMA NickNames ==
    /\ \A n \in Servers : NameOf(n) = n /\ n \notin Gateways
    /\ \A n \in Nicks \ Servers : NameOf(n) \in Gateways
BY CacheAssumption DEF CacheAssumption, NameOf, Nicks

\* The server.
LEMMA ArriveTypes ==
    ASSUME Types, NEW s \in Seq(Inbound), Arrive(s)
    PROVE  SessionTypes' /\ ClientTypes' /\ sendQueue' \in Seq(Messages)
                         /\ recvQueue' \in Seq(Inbound) /\ AgeTypes'
<1>1. recvQueue' \in Seq(Inbound)
  BY DEF Arrive, Types, QueueTypes
<1> QED BY <1>1 DEF Arrive, allAppVars, appVars, threadVars, protoVars, Types, SessionTypes, TableOK,
                    ClientTypes, QueueTypes, AgeTypes, ClientSleep

LEMMA ServerStepTypes == Types /\ ServerStep => Types'
<1> SUFFICES ASSUME Types, ServerStep PROVE Types'
  OBVIOUS
<1>0. members \subseteq Nicks /\ crossed \subseteq Gateways /\ owed \in Seq(Owing)
  BY DEF Types, ServerTypes, QueueTypes
<1>1. ASSUME NEW s \in Seq(Inbound), Arrive(s), members' \subseteq Nicks, crossed' \subseteq Gateways,
             owed' \in Seq(Owing)
      PROVE  Types'
  BY <1>1, ArriveTypes DEF Types, ServerTypes, QueueTypes
<1>2. CASE Reply
  <2>1. Head(owed) \in Owing /\ owed' \in Seq(Owing)
    BY <1>0, <1>2, Taken DEF Reply
  <2>2. PICK s \in Answers(Head(owed)) : Arrive(s)
    BY <1>2 DEF Reply
  <2>3. s \in Seq(Inbound)
    BY <1>0, <2>1, AnswersTypes
  <2>4. members' \subseteq Nicks /\ crossed' \subseteq Gateways
    BY <1>0, <1>2 DEF Reply
  <2> QED BY <1>1, <2>1, <2>2, <2>3, <2>4
<1>3. CASE Tell
  <2>1. PICK row \in DbRows : Arrive(<<Msg("UPDATE", row)>>)
    BY <1>3 DEF Tell
  <2> QED BY <1>0, <1>1, <1>3, <2>1, InboundMade, OneInbound DEF Tell, serverVars
<1>4. CASE ServerPing
  BY <1>0, <1>1, <1>4, InboundMade, OneInbound DEF ServerPing, serverVars
<1>5. CASE Kick
  BY <1>0, <1>1, <1>5, InboundMade, OneInbound DEF Kick
<1>6. CASE Lost
  BY <1>6 DEF Lost, allAppVars, appVars, threadVars, protoVars, serverVars, Types, SessionTypes, TableOK,
              ClientTypes, QueueTypes, ServerTypes, AgeTypes, ClientSleep
<1>7. ASSUME NEW n \in Nicks, MemberJoins(n) PROVE Types'
  BY <1>0, <1>1, <1>7, InboundMade, OneInbound DEF MemberJoins
<1>8. ASSUME NEW n \in Nicks, MemberLeaves(n) PROVE Types'
  <2>1. crossed' \subseteq Gateways
    <3>1. CASE SameGate(n) = {n}
      BY <1>0, <1>8, <3>1 DEF MemberLeaves
    <3>2. CASE SameGate(n) # {n}
      <4>1. n \in SameGate(n)
        BY <1>8 DEF MemberLeaves, SameGate
      <4>2. PICK k \in members : k # n /\ NameOf(k) = NameOf(n)
        BY <3>2, <4>1 DEF SameGate
      <4>3. NameOf(n) \in Gateways
        BY <1>0, <4>2, NickNames
      <4> QED BY <1>0, <1>8, <3>2, <4>3 DEF MemberLeaves
    <3> QED BY <3>1, <3>2
  <2> QED BY <1>0, <1>1, <1>8, <2>1, InboundMade, OneInbound DEF MemberLeaves
<1> QED BY <1>2, <1>3, <1>4, <1>5, <1>6, <1>7, <1>8 DEF ServerStep

\* Time.
LEMMA TickTypes == Types /\ Tick => Types'
<1> SUFFICES ASSUME Types, Tick PROVE Types'
  OBVIOUS
<1>1. UNCHANGED <<allAppVars, clientVars, serverVars>>
  BY DEF Tick
<1>2. AgeTypes'
  <2>1. ClientSleep \in Nat
    BY TypeFacts DEF ClientSleep
  <2>2. ClientSleep' = ClientSleep
    BY <1>1 DEF ClientSleep, clientVars
  <2> QED BY <2>1, <2>2, TypeFacts DEF Tick, Types, AgeTypes
<1> QED BY <1>1, <1>2 DEF allAppVars, appVars, threadVars, clientVars, serverVars, Types, SessionTypes,
                          TableOK, ClientTypes, QueueTypes, ServerTypes

LEMMA TypesStep == Types /\ [Next]_vars => Types'
<1>1. Types /\ UNCHANGED vars => Types'
  BY DEF vars, appVars, threadVars, clientVars, serverVars, Types, SessionTypes, TableOK,
         ClientTypes, QueueTypes, ServerTypes, AgeTypes, ClientSleep
<1> QED BY <1>1, EntryThreadTypes, ClientThreadTypes, MainThreadTypes, ServerStepTypes, TickTypes DEF Next

\* What is true or false.
Flags == initReady \in BOOLEAN /\ eof \in BOOLEAN /\ inChannel \in BOOLEAN

LEMMA FlagsStep == Flags /\ [Next]_vars => Flags'
<1> SUFFICES ASSUME Flags, [Next]_vars PROVE Flags'
  OBVIOUS
<1>1. initReady' \in {initReady, TRUE, FALSE}
  <2>1. CASE EntryThread
    BY <2>1 DEF EntryThread, EntryWake, EntryStep, EntryCase, EntryPut, EntryAssign, WaitForNetwork,
            ConnectToDb, ChooseServer, NextTable, SendList, AwaitList, Complete, Standby, Disconnect,
            GiveUp, Goto, Stay, Keep, Quit, appVars
  <2>2. CASE ClientThread
    BY <2>2 DEF ClientThread, ClientWakes, ClientActs, Open, StartProtocol, BeginRound, TakeQueueAway,
            DeleteQueues, HandleMessage, Login, Answer, userJoin, userLeave, doUpdate, ListAnswer,
            NotFound, Kicked, ActOnState, SwitchOn, ShortWrite, EndRound, SendMessage, allAppVars, appVars
  <2>3. CASE MainThread \/ ServerStep \/ Tick \/ UNCHANGED vars
    BY <2>3 DEF MainThread, MainPut, MainAsk, ServerStep, Reply, Tell, ServerPing, Kick, Lost,
            MemberJoins, MemberLeaves, Arrive, Tick, vars, allAppVars, appVars
  <2> QED BY <2>1, <2>2, <2>3 DEF Next
<1>2. eof' \in {eof, TRUE, FALSE} /\ inChannel' \in {inChannel, TRUE, FALSE}
  <2>1. CASE EntryThread \/ MainThread \/ Tick \/ UNCHANGED vars
    BY <2>1 DEF EntryThread, MainThread, Tick, vars, clientVars, serverVars
  <2>2. CASE ClientThread
    BY <2>2 DEF ClientThread, ClientWakes, ClientActs, Open, StartProtocol, BeginRound, TakeQueueAway,
            DeleteQueues, HandleMessage, Kicked, ActOnState, SwitchOn, ShortWrite, EndRound, SendMessage,
            Forgotten, Receive, serverVars
  <2>3. CASE ServerStep
    BY <2>3 DEF ServerStep, Reply, Tell, ServerPing, Kick, Lost, MemberJoins, MemberLeaves, serverVars
  <2> QED BY <2>1, <2>2, <2>3 DEF Next
<1> QED BY <1>1, <1>2 DEF Flags

\* Every variable of the session, the client, the server and the threads keeps its
\* type; in particular no turn of a thread and no counter goes beyond its bound, and
\* the number of the next table is never less than -1.
THEOREM TypeCorrect == Spec => []TypeOK
<1>1. Init => Types /\ Flags
  BY TypesInit DEF Init, AppInit, ClientInit, Flags
<1>2. Types => /\ state \in 0..7 \cup {10}
               /\ timer \in 0 .. ServerWait + ListWait
               /\ currentServer \in Servers \cup {Empty}
               /\ sendlistTableID \in -1 .. numberOfTables
               /\ sendQ \in {Null, Queue}
               /\ cache \in Caches
               /\ entry.pc \in {"sleep", "case", "put", "assign"}
               /\ {entry.held, main.held} \subseteq Pointers
               /\ main.pc \in {"loop", "put"}
  BY TypeFacts DEF Types, SessionTypes, Entries, Mains
<1>3. Types => age \in [Threads -> 0 .. EntryPeriod + ClientPeriod + QuietTime + MaxStep]
  <2> SUFFICES ASSUME Types PROVE age \in [Threads -> 0 .. EntryPeriod + ClientPeriod + QuietTime + MaxStep]
    OBVIOUS
  <2>1. ClientSleep <= ClientPeriod + QuietTime /\ ClientSleep \in Nat
    BY TypeFacts DEF ClientSleep
  <2> QED BY <2>1, TypeFacts DEF Types, AgeTypes
<1>4. Types /\ Flags => TypeOK
  BY <1>2, <1>3 DEF Types, Flags, ClientTypes, ServerTypes, TypeOK, AppTypeOK, ClientTypeOK
<1> QED BY <1>1, <1>4, TypesStep, FlagsStep, PTL DEF Spec

-----------------------------------------------------------------------------
(***************************************************************************)
(* The roster: who is in the channel, who is known, and what is on its way. *)
(* Until JOIN is answered nobody is either; after that every nick that left is *)
(* forgotten or about to be, and every nick that came is known or about to be. *)
(***************************************************************************)
JoinAsked == Asked(owed) \/ Asked(sendQueue)

\* Until the server has answered JOIN, nobody can be known, and nothing that
\* concerns the channel comes in.
Before == cState \in {0, 4} \/ (cState = 5 /\ (pState < 6 \/ JoinAsked))
BeforeOK ==
    Before => /\ ~inChannel
              /\ \A i \in 1 .. Len(recvQueue) : recvQueue[i].cmd \notin Roll

\* Where the client is in its round, and with the server.
Control ==
    /\ cpc \in {"recv", "send"} => cState = 5
    /\ cpc = "quiet" => cState = 6
    /\ cState \in {0, 4} => owed = <<>> /\ recvQueue = <<>>
    /\ members # {} => inChannel

\* JOIN is asked for once in a connection.
AskOK ==
    cState = 5 => /\ Once(owed) /\ Once(sendQueue)
                  /\ ~(Asked(owed) /\ Asked(sendQueue))
                  /\ JoinAsked => pState = 6

\* The address of a gateway is one of its nicks, and forgotten with the connection.
GatesOK ==
    /\ \A g \in Gateways : cache.gateAddr[g] # Empty =>
            cache.gateAddr[g] \in Nicks \ Servers /\ NameOf(cache.gateAddr[g]) = g
    /\ (cpc = "quiet" \/ Before) => \A g \in Gateways : cache.gateAddr[g] = Empty
    /\ \A x \in Reflectors : cache.gateAddr[x] = HostsFile

\* A nick that has left is not the address of its gateway, and will not be, unless
\* its departure is still on its way.
Live ==
    cState = 5 /\ inChannel =>
        \A n \in Nicks \ (Servers \cup members) :
            /\ cache.gateAddr[NameOf(n)] = n => Leaving(recvQueue, n)
            /\ Followed(recvQueue, n)

\* Everybody in the channel is known and stays so, or is about to be, unless WHO
\* has yet to be answered or another nick of the same gateway has left.
WhoMsg == Msg("WHO", Empty)
WhoDue == pState \notin {11, 12} \/ WhoMsg \in Range(owed) \cup Range(sendQueue)
Known(g) == cache.nameNick[g] # Empty /\ cache.gateAddr[g] # Empty /\ Stays(recvQueue, g)
Covered ==
    cState = 5 =>
        \A n \in members :
            WhoDue \/ NameOf(n) \in crossed \/ Coming(recvQueue, NameOf(n)) \/ Known(NameOf(n))

RosterInv == Control /\ AskOK /\ BeforeOK /\ GatesOK /\ Live /\ Covered

\* What the roster consists of.
rosterVars == <<cState, pState, recvQueue, owed, members, inChannel, crossed, cache.gateAddr, cache.nameNick>>

\* A message that is added to the requests leaves those that are there.
LEMMA AddsAside ==
    ASSUME sendQueue \in Seq(Messages), Adds
    PROVE  /\ Asked(sendQueue') <=> Asked(sendQueue)
           /\ Once(sendQueue) => Once(sendQueue')
           /\ WhoMsg \in Range(sendQueue) => WhoMsg \in Range(sendQueue')
<1>1. CASE sendQueue' = sendQueue
  BY <1>1
<1>2. ASSUME NEW m \in Asides, sendQueue' = Append(sendQueue, m)
      PROVE  /\ Asked(sendQueue') <=> Asked(sendQueue)
             /\ Once(sendQueue) => Once(sendQueue')
             /\ WhoMsg \in Range(sendQueue) => WhoMsg \in Range(sendQueue')
  <2>1. m \in Messages /\ m.cmd # "JOIN" /\ <<m>> \in Seq(Messages) /\ sendQueue' = sendQueue \o <<m>>
    BY <1>2 DEF Asides
  <2>2. ~Asked(<<m>>)
    BY <2>1 DEF Asked
  <2>3. /\ Asked(sendQueue') <=> Asked(sendQueue)
        /\ Once(sendQueue) => Once(sendQueue')
    BY <2>1, <2>2, AskedOnce
  <2>4. Range(sendQueue') = Range(sendQueue) \cup Range(<<m>>)
    BY <2>1, RangeConcatenation
  <2> QED BY <2>3, <2>4
<1> QED BY <1>1, <1>2 DEF Adds

\* A step that leaves the roster alone.
LEMMA RosterAlone ==
    ASSUME Types, RosterInv, Adds, UNCHANGED rosterVars,
           cpc' = cpc \/ cpc' = "sleep" \/ (cState = 5 /\ cpc' # "quiet")
    PROVE  RosterInv'
<1> USE DEF rosterVars
<1>0. /\ Asked(sendQueue') <=> Asked(sendQueue)
      /\ Once(sendQueue) => Once(sendQueue')
      /\ WhoMsg \in Range(sendQueue) => WhoMsg \in Range(sendQueue')
  BY AddsAside DEF Types, QueueTypes
<1>1. Control'
  BY DEF RosterInv, Control
<1>2. JoinAsked' <=> JoinAsked
  BY <1>0 DEF JoinAsked
<1>3. AskOK'
  BY <1>0, <1>2 DEF RosterInv, AskOK
<1>4. Before' <=> Before
  BY <1>2 DEF Before
<1>5. BeforeOK'
  BY <1>4 DEF RosterInv, BeforeOK
<1>6. GatesOK'
  BY <1>4 DEF RosterInv, GatesOK
<1>7. Live'
  BY DEF RosterInv, Live
<1>8. WhoDue => WhoDue'
  BY <1>0 DEF WhoDue
<1>9. \A g : Known(g) => Known(g)'
  BY DEF Known
<1>10. Covered'
  BY <1>8, <1>9 DEF RosterInv, Covered
<1> QED BY <1>1, <1>3, <1>5, <1>6, <1>7, <1>10 DEF RosterInv

\* A step that ends the connection.
LEMMA RosterRestart ==
    ASSUME RosterInv, cState' = 6, cpc' = "sleep", cache' = cache, UNCHANGED <<members, inChannel>>
    PROVE  RosterInv'
BY DEF RosterInv, Control, AskOK, Before, BeforeOK, GatesOK, Live, Covered

\* The other threads.
LEMMA ThreadsRoster ==
    ASSUME Types, RosterInv, EntryThread \/ MainThread \/ Tick \/ UNCHANGED vars
    PROVE  RosterInv'
<1>1. UNCHANGED rosterVars /\ cpc' = cpc
  BY DEF rosterVars, EntryThread, EntryWake, EntryStep, EntryPut, EntryAssign, EntryCase,
         MainThread, MainPut, MainAsk, Tick, vars, allAppVars, clientVars, serverVars
<1>2. CASE EntryThread \/ MainThread
  BY <1>1, <1>2, ThreadsAdd, RosterAlone DEF Types
<1>3. CASE Tick \/ UNCHANGED vars
  BY <1>1, <1>3, RosterAlone DEF Adds, Tick, vars, allAppVars
<1> QED BY <1>2, <1>3

\* A new connection: nobody is known when it begins, nor when it is over.
LEMMA WakesRoster ==
    ASSUME Types, RosterInv, ClientWakes, UNCHANGED serverVars
    PROVE  RosterInv'
<1>1. CASE Open
  <2>1. cState \in {0, 4} /\ cState' \in {0, 4}
    BY <1>1 DEF Open, InRound
  <2>2. UNCHANGED <<pState, cpc, recvQueue, owed, members, inChannel, crossed, cache, sendQueue>>
    BY <1>1 DEF Open, allAppVars, protoVars, serverVars
  <2> QED BY <2>1, <2>2 DEF RosterInv, Control, AskOK, Before, BeforeOK, GatesOK, Live, Covered
<1>2. CASE StartProtocol
  <2>1. /\ cState = 4 /\ cState' = 5 /\ cpc = "sleep" /\ cpc' = "sleep" /\ pState' = 1
        /\ recvQueue' = <<>> /\ sendQueue' = <<>> /\ UNCHANGED <<owed, members, inChannel, crossed, cache>>
    BY <1>2 DEF StartProtocol, InRound, serverVars
  <2>2. owed = <<>> /\ ~inChannel /\ members = {} /\ \A g \in Gateways : cache.gateAddr[g] = Empty
    BY <2>1 DEF RosterInv, Control, BeforeOK, Before, GatesOK
  <2>3. /\ ~Asked(<<>>) /\ Once(<<>>)
        /\ \A i \in 1 .. Len(<<>>) : <<>>[i].cmd \notin Roll
    BY EmptySeq DEF Asked, Once
  <2>4. Control' /\ AskOK' /\ BeforeOK'
    BY <2>1, <2>2, <2>3 DEF RosterInv, Control, AskOK, BeforeOK, JoinAsked
  <2>5. GatesOK' /\ Live' /\ Covered'
    BY <2>1, <2>2 DEF RosterInv, GatesOK, Live, Covered
  <2> QED BY <2>4, <2>5 DEF RosterInv
<1>3. CASE BeginRound
  <2>1. CASE eof
    BY <1>3, <2>1, RosterRestart DEF BeginRound, Restart, allAppVars, serverVars
  <2>2. CASE ~eof
    BY <1>3, <2>2, RosterAlone DEF BeginRound, InRound, rosterVars, allAppVars, serverVars, Adds
  <2> QED BY <2>1, <2>2
<1>4. CASE TakeQueueAway
  <2>1. /\ cState = 6 /\ cState' = 6 /\ cpc' = "quiet" /\ cache' = clearGate(cache)
        /\ UNCHANGED <<members, inChannel>>
    BY <1>4 DEF TakeQueueAway, InRound, serverVars
  <2>2. /\ \A g \in Gateways : cache'.gateAddr[g] = Empty
        /\ \A x \in Reflectors : cache'.gateAddr[x] = cache.gateAddr[x]
    BY <2>1, CacheAssumption DEF CacheAssumption, clearGate, Types, SessionTypes, Caches, Names
  <2> QED BY <2>1, <2>2 DEF RosterInv, Control, AskOK, Before, BeforeOK, GatesOK, Live, Covered
<1> QED BY <1>1, <1>2, <1>3, <1>4 DEF ClientWakes

LEMMA DeleteRoster ==
    ASSUME Types, RosterInv, DeleteQueues, Forgotten
    PROVE  RosterInv'
<1>1. /\ cpc = "quiet" /\ cState' = 0 /\ cpc' = "sleep" /\ recvQueue' = <<>> /\ owed' = <<>>
      /\ ~inChannel' /\ members' = {} /\ cache' = cache
  BY DEF DeleteQueues, Forgotten
<1>2. \A i \in 1 .. Len(<<>>) : <<>>[i].cmd \notin Roll
  BY EmptySeq
<1> QED BY <1>1, <1>2 DEF RosterInv, Control, AskOK, BeforeOK, GatesOK, Live, Covered

\* One message.
LEMMA OneMessage ==
    ASSUME NEW m
    PROVE  /\ Asked(<<m>>) <=> m.cmd = "JOIN"
           /\ Once(<<m>>)
           /\ Range(<<m>>) = {m}
           /\ \A n : /\ Leaving(<<m>>, n) <=> m.cmd = "QUIT" /\ m.arg = n
                     /\ m.cmd \notin Entering \/ m.arg # n => Followed(<<m>>, n)
           /\ \A g : /\ Stays(<<m>>, g) <=> ~Erases(m, g)
                     /\ Enters(m, g) => Coming(<<m>>, g)
<1>1. Len(<<m>>) = 1 /\ <<m>>[1] = m /\ DOMAIN <<m>> = {1} /\ 1 .. 1 = {1}
  OBVIOUS
<1>2. Asked(<<m>>) <=> m.cmd = "JOIN"
  BY <1>1 DEF Asked
<1>3. Once(<<m>>)
  BY <1>1 DEF Once
<1>4. Range(<<m>>) = {m}
  BY <1>1 DEF Range
<1>5. \A n : /\ Leaving(<<m>>, n) <=> m.cmd = "QUIT" /\ m.arg = n
             /\ m.cmd \notin Entering \/ m.arg # n => Followed(<<m>>, n)
  BY <1>1 DEF Leaving, Followed
<1>6. \A g : Stays(<<m>>, g) <=> ~Erases(m, g)
  BY <1>1 DEF Stays
<1>7. ASSUME NEW g, Enters(m, g) PROVE Coming(<<m>>, g)
  <2>1. ~Erases(m, g)
    BY <1>7 DEF Enters, Erases, Entering
  <2> QED BY <1>1, <1>7, <2>1 DEF Coming
<1> QED BY <1>2, <1>3, <1>4, <1>5, <1>6, <1>7

\* What is taken from a queue was in it.
LEMMA RangeTaken ==
    ASSUME NEW S, NEW q \in Seq(S), q # <<>>
    PROVE  \A m \in Range(q) : m = Head(q) \/ m \in Range(Tail(q))
<1>1. Range(q) = {q[i] : i \in 1 .. Len(q)} /\ Range(Tail(q)) = {Tail(q)[i] : i \in 1 .. Len(Tail(q))}
  <2>1. Tail(q) \in Seq(S)
    BY Taken
  <2>2. Range(q) = {q[i] : i \in 1 .. Len(q)}
    BY RangeEquality
  <2>3. Range(Tail(q)) = {Tail(q)[i] : i \in 1 .. Len(Tail(q))}
    BY <2>1, RangeEquality
  <2> QED BY <2>2, <2>3
<1>2. \A i \in 1 .. Len(q) : i # 1 => i - 1 \in 1 .. Len(Tail(q)) /\ Tail(q)[i - 1] = q[i]
  BY Taken
<1>3. Head(q) = q[1]
  BY Taken
<1> QED BY <1>1, <1>2, <1>3

\* A request that is sent.
LEMMA SendRoster ==
    ASSUME Types, RosterInv, SendMessage, Receive(Head(sendQueue))
    PROVE  RosterInv'
<1> DEFINE m == Head(sendQueue)
<1>0. /\ sendQueue \in Seq(Messages) /\ sendQueue # <<>> /\ owed \in Seq(Owing) /\ owed \in Seq(Messages)
      /\ sendQueue' = Tail(sendQueue) /\ cpc = "send" /\ cState = 5
      /\ UNCHANGED <<cState, pState, cpc, recvQueue, members, inChannel, crossed, cache>>
  BY SeqMonotonic DEF Types, QueueTypes, Owing, SendMessage, Receive, protoVars, RosterInv, Control
<1>1. m \in Messages /\ <<m>> \in Seq(Messages)
  BY <1>0, Taken
<1>2. CASE owed' = owed /\ m.cmd \notin {"JOIN", "WHO"}
  <2>1. Asked(sendQueue) <=> Asked(sendQueue')
    BY <1>0, <1>2, AskedTaken
  <2>2. Once(sendQueue) => Once(sendQueue')
    BY <1>0, AskedTaken
  <2>3. WhoMsg \in Range(sendQueue) => WhoMsg \in Range(sendQueue')
    <3>1. m # WhoMsg
      BY <1>2 DEF WhoMsg, Msg
    <3> QED BY <1>0, <3>1, RangeTaken
  <2>4. AskOK' /\ (JoinAsked' <=> JoinAsked) /\ (WhoDue => WhoDue')
    BY <1>0, <1>2, <2>1, <2>2, <2>3 DEF RosterInv, AskOK, JoinAsked, WhoDue
  <2> HIDE DEF m
  <2> QED BY <1>0, <1>2, <2>4 DEF RosterInv, Control, Before, BeforeOK, GatesOK, Live, Covered, Known
<1>3. CASE owed' = Append(owed, m)
  <2>0. owed' = owed \o <<m>>
    BY <1>0, <1>1, <1>3, AppendIsConcat
  <2>1. Asked(owed') <=> Asked(owed) \/ m.cmd = "JOIN"
    BY <1>0, <1>1, <2>0, AskedOnce, OneMessage
  <2>2. /\ Asked(sendQueue) <=> m.cmd = "JOIN" \/ Asked(sendQueue')
        /\ Once(sendQueue) => Once(sendQueue')
        /\ Once(sendQueue) => ~(m.cmd = "JOIN" /\ Asked(sendQueue'))
    BY <1>0, AskedTaken
  <2>3. Once(owed) /\ ~(m.cmd = "JOIN" /\ Asked(owed)) => Once(owed')
    <3>1. Once(owed) /\ ~Asked(<<m>>) => Once(owed')
      BY <1>0, <1>1, <2>0, AskedOnce
    <3>2. ~Asked(owed) => Once(owed')
      BY <1>0, <1>1, <2>0, AskedOnce, OneMessage
    <3> QED BY <3>1, <3>2, OneMessage
  <2>4. WhoMsg \in Range(owed) \cup Range(sendQueue) => WhoMsg \in Range(owed') \cup Range(sendQueue')
    <3>1. Range(owed \o <<m>>) = Range(owed) \cup Range(<<m>>)
      BY <1>0, <1>1, RangeConcatenation
    <3>2. Range(owed') = Range(owed) \cup {m}
      BY <2>0, <3>1, OneMessage
    <3> QED BY <1>0, <3>2, RangeTaken
  <2>5. AskOK' /\ (JoinAsked' <=> JoinAsked)
    BY <1>0, <2>1, <2>2, <2>3 DEF RosterInv, AskOK, JoinAsked
  <2>6. WhoDue => WhoDue'
    BY <1>0, <2>4 DEF WhoDue
  <2> HIDE DEF m
  <2> QED BY <1>0, <2>5, <2>6 DEF RosterInv, Control, Before, BeforeOK, GatesOK, Live, Covered, Known
<1> QED BY <1>2, <1>3 DEF Receive

\* What the client does about its state.
LEMMA ActsRoster ==
    ASSUME Types, RosterInv, ActOnState \/ SwitchOn, UNCHANGED serverVars
    PROVE  RosterInv'
<1>0. /\ cpc = "recv" /\ cState = 5 /\ recvQueue = <<>> /\ sendQueue \in Seq(Messages)
      /\ UNCHANGED <<recvQueue, owed, members, inChannel, crossed, cache>>
  BY DEF ActOnState, SwitchOn, MessagesDone, serverVars, RosterInv, Control, Types, QueueTypes
<1>1. ASSUME NEW c \in {"NICK", "USER", "PING", "WHO", "JOIN"}
      PROVE  /\ <<Msg(c, Empty)>> \in Seq(Messages)
             /\ Asked(<<Msg(c, Empty)>>) <=> c = "JOIN"
             /\ Once(<<Msg(c, Empty)>>)
             /\ Range(<<Msg(c, Empty)>>) = {Msg(c, Empty)}
  <2>1. c \in Commands
    BY DEF Commands
  <2>2. Msg(c, Empty) \in Messages /\ Msg(c, Empty).cmd = c
    BY <2>1, MessageMade, TypeFacts
  <2> QED BY <2>2, OneMessage
\* A request other than JOIN.
<1>2. ASSUME NEW c \in {"NICK", "USER", "PING", "WHO"}, NEW p, NEW t, Sends(<<Msg(c, Empty)>>, p, t),
             p < 6 => pState < 6, p = 6 <=> pState = 6, p < 6 <=> pState < 6,
             p \in {11, 12} => c = "WHO" \/ pState \in {11, 12}
      PROVE  RosterInv'
  <2>1. /\ sendQueue' = sendQueue \o <<Msg(c, Empty)>> /\ pState' = p /\ cpc' = "send" /\ cState' = cState
    BY <1>2 DEF Sends
  <2>2. /\ Asked(sendQueue') <=> Asked(sendQueue)
        /\ Once(sendQueue) => Once(sendQueue')
    BY <1>0, <1>1, <2>1, AskedOnce
  <2>3. Range(sendQueue') = Range(sendQueue) \cup {Msg(c, Empty)}
    <3>1. <<Msg(c, Empty)>> \in Seq(Messages) /\ Range(<<Msg(c, Empty)>>) = {Msg(c, Empty)}
      BY <1>1
    <3>2. Range(sendQueue \o <<Msg(c, Empty)>>) = Range(sendQueue) \cup Range(<<Msg(c, Empty)>>)
      BY <1>0, <3>1, RangeConcatenation
    <3> QED BY <2>1, <3>1, <3>2
  <2>4. WhoDue => WhoDue'
    BY <1>0, <1>2, <2>1, <2>3 DEF WhoDue, WhoMsg
  <2>5. JoinAsked' <=> JoinAsked
    BY <1>0, <2>2 DEF JoinAsked
  <2>6. AskOK' /\ (Before' <=> Before)
    BY <1>0, <1>2, <2>1, <2>2, <2>5 DEF RosterInv, AskOK, Before
  <2> QED BY <1>0, <2>1, <2>4, <2>6 DEF RosterInv, Control, BeforeOK, GatesOK, Live, Covered, Known
\* JOIN, which has not been asked for before.
<1>3. CASE pState = 5 /\ Sends(<<Msg("JOIN", Empty)>>, 6, JoinWait)
  <2>1. /\ sendQueue' = sendQueue \o <<Msg("JOIN", Empty)>> /\ pState' = 6 /\ cpc' = "send" /\ cState' = cState
    BY <1>3 DEF Sends
  <2>2. ~Asked(sendQueue) /\ ~Asked(owed)
    BY <1>0, <1>3 DEF RosterInv, AskOK, JoinAsked
  <2>3. Asked(sendQueue') /\ Once(sendQueue')
    <3>1. /\ <<Msg("JOIN", Empty)>> \in Seq(Messages)
          /\ Asked(<<Msg("JOIN", Empty)>>) /\ Once(<<Msg("JOIN", Empty)>>)
      BY <1>1
    <3>2. LET q == sendQueue \o <<Msg("JOIN", Empty)>> IN Asked(q) /\ Once(q)
      BY <1>0, <2>2, <3>1, AskedOnce
    <3> QED BY <2>1, <3>2
  <2>4. AskOK' /\ Before
    BY <1>0, <1>3, <2>1, <2>2, <2>3 DEF RosterInv, AskOK, JoinAsked, Before
  <2>5. Covered'
    BY <2>1 DEF Covered, WhoDue
  <2> QED BY <1>0, <2>1, <2>4, <2>5 DEF RosterInv, Control, BeforeOK, GatesOK, Live
<1>4. CASE Waits
  <2>1. UNCHANGED rosterVars /\ Adds /\ cpc' = "send"
    BY <1>0, <1>4 DEF Waits, rosterVars, protoVars, Adds
  <2> QED BY <1>0, <2>1, RosterAlone
<1>5. CASE Fails
  BY <1>0, <1>5, RosterRestart DEF Fails, Restart
<1>6. CASE ActOnState
  <2>1. \/ pState = 1 /\ Sends(<<Msg("NICK", Empty)>>, 2, NickWait)
        \/ pState = 2 /\ Sends(<<Msg("USER", Empty)>>, 4, LoginWait)
        \/ pState = 3 /\ Sends(<<Msg("NICK", Empty)>>, 2, NickWait)
        \/ pState = 5 /\ Sends(<<Msg("JOIN", Empty)>>, 6, JoinWait)
        \/ pState = 11 /\ Sends(<<Msg("PING", Empty)>>, 12, PingTimer)
        \/ Waits \/ Fails
    BY <1>6 DEF ActOnState, ProtocolStep
  <2> QED BY <2>1, <1>2, <1>3, <1>4, <1>5
<1>7. CASE SwitchOn
  <2>1. pState = 10 /\ Sends(<<Msg("WHO", Empty)>>, 11, PingTimer)
    BY <1>7 DEF SwitchOn
  <2> QED BY <2>1, <1>2
<1> QED BY <1>6, <1>7

\* What is not about the names in the channel leaves names and addresses alone.
LEMMA OtherCache ==
    ASSUME cache \in Caches, NEW m \in Inbound, m.cmd \notin Entering \cup {"QUIT"}, Login(m) \/ Answer(m)
    PROVE  cache'.gateAddr = cache.gateAddr /\ cache'.nameNick = cache.nameNick
<1>1. CASE m.cmd = "UPDATE" /\ doUpdate(m.arg)
  <2>1. m.arg \in Rows
    BY <1>1 DEF Inbound
  <2>2. CASE \E u \in Users, r \in Repeaters : m.arg = <<0, u, r>>
    <3>1. PICK u \in Users, r \in Repeaters : m.arg = <<0, u, r>>
      BY <2>2
    <3>2. cache' = cache \/ cache' = updateUser(cache, u, r)
      BY <1>1, <3>1 DEF doUpdate
    <3> QED BY <3>2 DEF updateUser, Caches
  <2>3. CASE \E r \in Repeaters, g \in Gateways : m.arg = <<1, r, g>>
    <3>1. PICK r \in Repeaters, g \in Gateways : m.arg = <<1, r, g>>
      BY <2>3
    <3>2. cache' = cache \/ cache' = updateRptr(cache, r, g)
      BY <1>1, <3>1 DEF doUpdate
    <3> QED BY <3>2 DEF updateRptr, Caches
  <2> QED BY <2>1, <2>2, <2>3 DEF Rows
<1>2. CASE cache' = cache
  BY <1>2
<1> QED BY <1>1, <1>2 DEF Login, Answer, Entering, ListAnswer, NotFound

\* What the first message does to the names and the addresses.
LEMMA HandleCache ==
    ASSUME Types, HandleMessage
    PROVE  LET h == Head(recvQueue)
           IN /\ \A g \in Names :
                    /\ Enters(h, g) => cache'.gateAddr[g] = h.arg /\ cache'.nameNick[g] = h.arg
                    /\ Erases(h, g) => cache'.gateAddr[g] = Empty
                    /\ ~Enters(h, g) /\ ~Erases(h, g) => /\ cache'.gateAddr[g] = cache.gateAddr[g]
                                                         /\ cache'.nameNick[g] = cache.nameNick[g]
              /\ \A x \in Reflectors : cache'.gateAddr[x] = cache.gateAddr[x]
<1> DEFINE h == Head(recvQueue)
<1>0. h \in Inbound /\ cache \in Caches /\ \A x \in Reflectors : x \notin Names
  BY Taken, CacheAssumption DEF HandleMessage, Types, QueueTypes, SessionTypes, CacheAssumption
<1>1. Login(h) \/ Answer(h)
  BY DEF HandleMessage
<1>2. h.cmd \in Entering => userJoin(h.arg)
  BY DEF HandleMessage, Answer, Entering
<1>3. h.cmd = "QUIT" => userLeave(h.arg)
  BY DEF HandleMessage, Answer
<1>4. h.cmd \in Entering \cup {"QUIT"} => NameOf(h.arg) \in Names
  BY <1>0, CacheTypes DEF Inbound
<1> HIDE DEF h
<1>5. CASE h.cmd \notin Entering \cup {"QUIT"}
  BY <1>0, <1>1, <1>5, OtherCache DEF Enters, Erases, h
<1>6. CASE h.cmd \in Entering
  <2>1. /\ \A k \in Names \cup Reflectors :
                cache'.gateAddr[k] = IF k = NameOf(h.arg) THEN h.arg ELSE cache.gateAddr[k]
        /\ \A k \in Names : cache'.nameNick[k] = IF k = NameOf(h.arg) THEN h.arg ELSE cache.nameNick[k]
    BY <1>0, <1>2, <1>4, <1>6 DEF userJoin, updateGate, updateName, Caches
  <2>2. \A g : ~Erases(h, g) /\ (Enters(h, g) <=> g = NameOf(h.arg))
    BY <1>6 DEF Enters, Erases, Entering
  <2> QED BY <1>0, <1>4, <1>6, <2>1, <2>2 DEF h
<1>7. CASE h.cmd = "QUIT"
  <2>1. \A g : ~Enters(h, g) /\ (Erases(h, g) <=> h.arg \notin Servers /\ g = NameOf(h.arg))
    BY <1>7 DEF Enters, Erases, Entering
  <2>2. CASE h.arg \in Servers
    BY <1>0, <1>3, <1>7, <2>1, <2>2 DEF userLeave, h
  <2>3. CASE h.arg \notin Servers
    <3>0. cache' = eraseGate(eraseName(cache, NameOf(h.arg)), NameOf(h.arg))
      BY <1>3, <1>7, <2>3 DEF userLeave
    <3>1. /\ \A k \in Names \cup Reflectors :
                  cache'.gateAddr[k] = IF k = NameOf(h.arg) THEN Empty ELSE cache.gateAddr[k]
          /\ \A k \in Names : cache'.nameNick[k] = IF k = NameOf(h.arg) THEN Empty ELSE cache.nameNick[k]
      BY <1>0, <1>4, <1>7, <3>0 DEF eraseGate, eraseName, Caches
    <3>2. /\ \A g \in Names :
                 /\ Erases(h, g) => cache'.gateAddr[g] = Empty
                 /\ ~Erases(h, g) => /\ cache'.gateAddr[g] = cache.gateAddr[g]
                                     /\ cache'.nameNick[g] = cache.nameNick[g]
          /\ \A x \in Reflectors : cache'.gateAddr[x] = cache.gateAddr[x]
      BY <1>0, <1>4, <1>7, <2>1, <2>3, <3>1
    <3> QED BY <2>1, <3>2 DEF h
  <2> QED BY <2>2, <2>3
<1> QED BY <1>5, <1>6, <1>7

\* What else it does.
LEMMA HandleElse ==
    ASSUME Types, RosterInv, HandleMessage
    PROVE  LET h == Head(recvQueue)
           IN /\ Adds /\ cpc = "recv" /\ cState = 5 /\ UNCHANGED <<cState, cpc>>
              /\ \/ pState' = pState
                 \/ h.cmd = "JOINED" /\ pState = 6 /\ pState' = 10
                 \/ pState < 6 /\ pState' < 6
                 \/ pState = 12 /\ pState' = 11
<1> DEFINE h == Head(recvQueue)
<1>1. cpc = "recv" /\ cState = 5 /\ UNCHANGED <<cState, cpc>>
  BY DEF HandleMessage, RosterInv, Control
<1>2. CASE Login(h)
  <2>1. Adds
    BY <1>2 DEF Login, Adds
  <2>2. \/ pState' = pState
        \/ h.cmd = "JOINED" /\ pState = 6 /\ pState' = 10
        \/ pState < 6 /\ pState' < 6
        \/ pState = 12 /\ pState' = 11
    BY <1>2 DEF Login, protoVars
  <2> QED BY <1>1, <2>1, <2>2
<1>3. CASE Answer(h) /\ UNCHANGED protoVars
  <2>1. h \in Messages
    BY Taken DEF HandleMessage, Types, QueueTypes, Inbound
  <2>2. Msg("PONG", Empty) \in Asides /\ Msg("FIND", h.arg) \in Asides
    BY <2>1, MessageMade, TypeFacts DEF Commands, Messages
  <2>3. Adds
    BY <1>3, <2>2 DEF Answer, userJoin, userLeave, doUpdate, ListAnswer, NotFound, Adds
  <2> QED BY <1>1, <1>3, <2>3 DEF protoVars
<1> QED BY <1>2, <1>3 DEF HandleMessage

LEMMA HandleRoster ==
    ASSUME Types, RosterInv, HandleMessage, UNCHANGED serverVars
    PROVE  RosterInv'
<1> DEFINE h == Head(recvQueue)
<1>0. /\ recvQueue \in Seq(Inbound) /\ recvQueue # <<>> /\ recvQueue' = Tail(recvQueue)
      /\ h \in Inbound
      /\ Adds /\ cpc = "recv" /\ cState = 5 /\ UNCHANGED <<cState, cpc, members, inChannel, owed, crossed>>
      /\ sendQueue \in Seq(Messages)
  BY HandleElse, Taken DEF HandleMessage, Types, QueueTypes, serverVars
<1>1. \/ pState' = pState
      \/ h.cmd = "JOINED" /\ pState = 6 /\ pState' = 10
      \/ pState < 6 /\ pState' < 6
      \/ pState = 12 /\ pState' = 11
  BY HandleElse
<1>2. ASSUME NEW g \in Names
      PROVE  /\ Enters(h, g) => cache'.gateAddr[g] = h.arg /\ cache'.nameNick[g] = h.arg
             /\ Erases(h, g) => cache'.gateAddr[g] = Empty
             /\ ~Enters(h, g) /\ ~Erases(h, g) => /\ cache'.gateAddr[g] = cache.gateAddr[g]
                                                  /\ cache'.nameNick[g] = cache.nameNick[g]
  BY HandleCache
<1>3. /\ Asked(sendQueue') <=> Asked(sendQueue)
      /\ Once(sendQueue) => Once(sendQueue')
      /\ WhoMsg \in Range(sendQueue) => WhoMsg \in Range(sendQueue')
  BY <1>0, AddsAside
<1>4. JoinAsked' <=> JoinAsked
  BY <1>0, <1>3 DEF JoinAsked
<1>5. Before => h.cmd \notin Roll
  BY <1>0, Taken DEF RosterInv, BeforeOK
<1>6. (\E g : Enters(h, g) \/ Erases(h, g)) => h.cmd \in Roll /\ h.arg \in Nicks
  BY <1>0 DEF Enters, Erases, Roll, Inbound
<1> HIDE DEF h
<1>7. Control'
  BY <1>0 DEF RosterInv, Control
<1>8. AskOK'
  <2>1. JoinAsked => pState' = 6
    BY <1>0, <1>1, <1>5 DEF RosterInv, AskOK, Before, Roll
  <2> QED BY <1>0, <1>3, <1>4, <2>1 DEF RosterInv, AskOK
<1>9. Before' => Before
  <2>1. pState' < 6 => pState < 6
    BY <1>1
  <2> QED BY <1>0, <1>4, <2>1 DEF Before
<1>10. BeforeOK'
  <2>1. \A i \in 1 .. Len(recvQueue') : i + 1 \in 1 .. Len(recvQueue) /\ recvQueue'[i] = recvQueue[i + 1]
    BY <1>0, Taken
  <2> QED BY <1>0, <1>9, <2>1 DEF RosterInv, BeforeOK
<1>11. GatesOK'
  <2>1. ASSUME NEW g \in Gateways
        PROVE  /\ cache'.gateAddr[g] # Empty =>
                     cache'.gateAddr[g] \in Nicks \ Servers /\ NameOf(cache'.gateAddr[g]) = g
               /\ Before' => cache'.gateAddr[g] = Empty
    <3>1. g \in Names
      BY DEF Names
    <3>2. CASE Enters(h, g)
      <4>1. h.arg \in Nicks /\ NameOf(h.arg) = g /\ ~Before'
        BY <1>5, <1>6, <1>9, <3>2 DEF Enters
      <4>2. h.arg \notin Servers
        BY <4>1, NickNames
      <4> QED BY <1>2, <3>1, <3>2, <4>1, <4>2
    <3>3. CASE Erases(h, g)
      BY <1>2, <3>1, <3>3
    <3>4. CASE ~Enters(h, g) /\ ~Erases(h, g)
      BY <1>2, <1>9, <3>1, <3>4 DEF RosterInv, GatesOK
    <3> QED BY <3>2, <3>3, <3>4
  <2>2. \A x \in Reflectors : cache'.gateAddr[x] = HostsFile
    BY HandleCache DEF RosterInv, GatesOK
  <2> QED BY <1>0, <2>1, <2>2 DEF GatesOK
<1>12. Live'
  <2> SUFFICES ASSUME inChannel, NEW n \in Nicks \ (Servers \cup members)
               PROVE  /\ cache'.gateAddr[NameOf(n)] = n => Leaving(recvQueue', n)
                      /\ Followed(recvQueue', n)
    BY <1>0 DEF Live
  <2>1. /\ cache.gateAddr[NameOf(n)] = n => Leaving(recvQueue, n)
        /\ Followed(recvQueue, n)
    BY <1>0 DEF RosterInv, Live
  <2>2. /\ Leaving(recvQueue, n) => Leaving(recvQueue', n) \/ (h.cmd = "QUIT" /\ h.arg = n)
        /\ Followed(recvQueue, n) => Followed(recvQueue', n)
        /\ Followed(recvQueue, n) /\ h.cmd \in Entering /\ h.arg = n => Leaving(recvQueue', n)
    BY <1>0, TakenOnItsWay DEF h
  <2>3. NameOf(n) \in Names /\ n # Empty
    BY NickNames, CacheAssumption DEF CacheAssumption, Names
  <2>4. CASE Enters(h, NameOf(n))
    BY <1>2, <2>1, <2>2, <2>3, <2>4 DEF Enters
  <2>5. CASE Erases(h, NameOf(n))
    BY <1>2, <2>1, <2>2, <2>3, <2>5
  <2>6. CASE ~Enters(h, NameOf(n)) /\ ~Erases(h, NameOf(n))
    BY <1>2, <2>1, <2>2, <2>3, <2>6 DEF Erases
  <2> QED BY <2>4, <2>5, <2>6
<1>13. Covered'
  <2> SUFFICES ASSUME NEW n \in members
               PROVE  \/ WhoDue' \/ NameOf(n) \in crossed \/ Coming(recvQueue', NameOf(n)) \/ Known(NameOf(n))'
    BY <1>0 DEF Covered
  <2>1. WhoDue \/ NameOf(n) \in crossed \/ Coming(recvQueue, NameOf(n)) \/ Known(NameOf(n))
    BY <1>0 DEF RosterInv, Covered
  <2>2. WhoDue => WhoDue'
    <3>1. pState \notin {11, 12} => pState' \notin {11, 12}
      BY <1>1
    <3> QED BY <1>0, <1>3, <3>1 DEF WhoDue
  <2>3. NameOf(n) \in Names
    BY CacheTypes DEF Types, ServerTypes, SessionTypes
  <2>4. /\ Stays(recvQueue, NameOf(n)) => Stays(recvQueue', NameOf(n)) /\ ~Erases(h, NameOf(n))
        /\ Coming(recvQueue, NameOf(n)) => \/ Coming(recvQueue', NameOf(n))
                                           \/ Enters(h, NameOf(n)) /\ Stays(recvQueue', NameOf(n))
    BY <1>0, TakenOnItsWay DEF h
  <2>5. Enters(h, NameOf(n)) /\ Stays(recvQueue', NameOf(n)) => Known(NameOf(n))'
    <3>1. h.arg # Empty \/ ~Enters(h, NameOf(n))
      BY <1>6, CacheAssumption DEF CacheAssumption
    <3> QED BY <1>2, <2>3, <3>1 DEF Known
  <2>6. Known(NameOf(n)) => Known(NameOf(n))'
    BY <1>2, <2>3, <2>4, <2>5 DEF Known
  <2> QED BY <2>1, <2>2, <2>4, <2>5, <2>6
<1> QED BY <1>7, <1>8, <1>10, <1>11, <1>12, <1>13 DEF RosterInv

\* The rest of what the client does.
LEMMA ClientRoster == Types /\ RosterInv /\ ClientThread => RosterInv'
<1> SUFFICES ASSUME Types, RosterInv, ClientThread PROVE RosterInv'
  OBVIOUS
<1>1. CASE ClientWakes /\ UNCHANGED serverVars
  BY <1>1, WakesRoster
<1>2. CASE DeleteQueues /\ Forgotten
  BY <1>2, DeleteRoster
<1>3. CASE SendMessage /\ Receive(Head(sendQueue))
  BY <1>3, SendRoster
<1>4. CASE HandleMessage /\ UNCHANGED serverVars
  BY <1>4, HandleRoster
<1>5. CASE (ActOnState \/ SwitchOn) /\ UNCHANGED serverVars
  BY <1>5, ActsRoster
<1>6. CASE (Kicked \/ ShortWrite) /\ UNCHANGED serverVars
  BY <1>6, RosterRestart DEF Kicked, ShortWrite, Restart, allAppVars, serverVars
<1>7. CASE EndRound /\ UNCHANGED serverVars
  BY <1>7, RosterAlone DEF EndRound, Adds, allAppVars, protoVars, serverVars, rosterVars
<1> QED BY <1>1, <1>2, <1>3, <1>4, <1>5, <1>6, <1>7 DEF ClientThread, ClientActs

\* What comes from the server, as long as it is not the answer to JOIN.
LEMMA ArriveRoster ==
    ASSUME Types, RosterInv, cpc = "sleep", NEW s \in Seq(Inbound), Arrive(s),
           owed' = owed \/ (owed # <<>> /\ owed' = Tail(owed) /\ Head(owed).cmd # "JOIN"),
           members' # {} => inChannel', inChannel' => inChannel,
           Before => \A i \in 1 .. Len(s) : s[i].cmd \notin Roll
    PROVE  Control' /\ AskOK' /\ BeforeOK' /\ GatesOK'
<1>0. /\ cState = 5 /\ recvQueue' = recvQueue \o s /\ UNCHANGED <<cState, pState, cpc, cache, sendQueue>>
      /\ recvQueue \in Seq(Inbound) /\ owed \in Seq(Owing)
  BY DEF Arrive, Connected, allAppVars, protoVars, Types, QueueTypes
<1>1. Control'
  BY <1>0 DEF Control
<1>2. (Asked(owed') <=> Asked(owed)) /\ (Once(owed) => Once(owed'))
  BY <1>0, AskedTaken
<1>3. JoinAsked' <=> JoinAsked
  BY <1>0, <1>2 DEF JoinAsked
<1>4. AskOK'
  BY <1>0, <1>2, <1>3 DEF RosterInv, AskOK
<1>5. Before' <=> Before
  BY <1>0, <1>3 DEF Before
<1>6. BeforeOK'
  <2> SUFFICES ASSUME Before PROVE ~inChannel' /\ \A i \in 1 .. Len(recvQueue') : recvQueue'[i].cmd \notin Roll
    BY <1>5 DEF BeforeOK
  <2>1. \A i \in 1 .. Len(recvQueue) : recvQueue[i].cmd \notin Roll
    BY DEF RosterInv, BeforeOK
  <2>2. \A i \in 1 .. Len(recvQueue \o s) : (recvQueue \o s)[i].cmd \notin Roll
    BY <1>0, <2>1, Added
  <2> QED BY <1>0, <2>2 DEF RosterInv, BeforeOK
<1>7. GatesOK'
  BY <1>0, <1>5 DEF RosterInv, GatesOK
<1> QED BY <1>1, <1>4, <1>6, <1>7

\* What does not concern the names in the channel.
LEMMA ArrivesAside ==
    ASSUME Types, RosterInv, cpc = "sleep", NEW s \in Seq(Inbound), Arrive(s),
           UNCHANGED <<members, inChannel, crossed>>,
           owed' = owed \/ (owed # <<>> /\ owed' = Tail(owed) /\ Head(owed).cmd \notin {"JOIN", "WHO"}),
           \A i \in 1 .. Len(s) : s[i].cmd \notin Roll
    PROVE  RosterInv'
<1>0. /\ cState = 5 /\ recvQueue' = recvQueue \o s /\ UNCHANGED <<cState, pState, cpc, cache, sendQueue>>
      /\ recvQueue \in Seq(Inbound) /\ owed \in Seq(Owing)
  BY DEF Arrive, Connected, allAppVars, protoVars, Types, QueueTypes
<1>1. Control' /\ AskOK' /\ BeforeOK' /\ GatesOK'
  BY ArriveRoster DEF RosterInv, Control
<1>2. \A n, g : Followed(s, n) /\ Stays(s, g)
  BY DEF Followed, Stays, Erases, Roll
<1>3. Live'
  BY <1>0, <1>2, AddedOnItsWay DEF RosterInv, Live
<1>4. WhoDue => WhoDue'
  <2>1. WhoMsg \in Range(owed) => WhoMsg \in Range(owed')
    <3>1. Head(owed) = WhoMsg => Head(owed).cmd = "WHO"
      BY DEF WhoMsg, Msg
    <3> QED BY <1>0, <3>1, RangeTaken
  <2> QED BY <1>0, <2>1 DEF WhoDue
<1>5. Covered'
  BY <1>0, <1>2, <1>4, AddedOnItsWay DEF RosterInv, Covered, Known
<1> QED BY <1>1, <1>3, <1>5 DEF RosterInv

\* The answer to JOIN.
LEMMA JoinAnswered ==
    ASSUME Types, RosterInv, cpc = "sleep", Arrive(<<Msg("JOINED", Empty)>>),
           owed # <<>>, Head(owed).cmd = "JOIN", owed' = Tail(owed),
           inChannel' = TRUE, UNCHANGED crossed
    PROVE  RosterInv'
<1> DEFINE s == <<Msg("JOINED", Empty)>>
<1>0. /\ cState = 5 /\ recvQueue' = recvQueue \o s /\ UNCHANGED <<cState, pState, cpc, cache, sendQueue>>
      /\ recvQueue \in Seq(Inbound) /\ owed \in Seq(Owing) /\ s \in Seq(Inbound)
  BY InboundMade, OneInbound DEF Arrive, Connected, allAppVars, protoVars, Types, QueueTypes
<1>1. Asked(owed) /\ ~Asked(owed') /\ Once(owed') /\ ~Asked(sendQueue)
  BY <1>0, AskedTaken DEF RosterInv, AskOK
<1>2. JoinAsked /\ ~JoinAsked' /\ pState = 6 /\ Before /\ ~Before'
  BY <1>0, <1>1 DEF JoinAsked, RosterInv, AskOK, Before
<1>3. Control' /\ AskOK' /\ BeforeOK' /\ GatesOK'
  BY <1>0, <1>1, <1>2 DEF RosterInv, Control, AskOK, BeforeOK, GatesOK
<1>4. Covered'
  BY <1>0, <1>2 DEF Covered, WhoDue
<1>5. Live'
  <2> SUFFICES ASSUME NEW n \in Nicks \ (Servers \cup members')
               PROVE  cache.gateAddr[NameOf(n)] # n /\ Followed(recvQueue', n)
    BY <1>0 DEF Live
  <2>1. cache.gateAddr[NameOf(n)] = Empty /\ n # Empty
    BY <1>2, NickNames, CacheAssumption DEF RosterInv, GatesOK, CacheAssumption
  <2>2. Followed(recvQueue, n)
    BY <1>2 DEF RosterInv, BeforeOK, Followed, Roll
  <2>3. Followed(s, n)
    BY OneMessage DEF Msg, Entering
  <2>4. Followed(recvQueue \o s, n)
    BY <1>0, <2>2, <2>3, AddedOnItsWay
  <2> QED BY <1>0, <2>1, <2>4
<1> QED BY <1>3, <1>4, <1>5 DEF RosterInv

\* The answer to WHO.
LEMMA WhoAnswered ==
    ASSUME Types, RosterInv, cpc = "sleep", NEW s \in Bijection(1..Cardinality(Roster), Roster), Arrive(s),
           owed # <<>>, Head(owed).cmd = "WHO", owed' = Tail(owed),
           UNCHANGED <<members, inChannel, crossed>>
    PROVE  RosterInv'
<1>1. /\ s \in Seq(Roster)
      /\ \A n \in members : \E i \in 1 .. Len(s) : s[i] = Msg("352", n)
  BY RosterAnswered DEF Types, ServerTypes
<1>2. \A i \in 1 .. Len(s) : \E n \in members : s[i] = Msg("352", n)
  <2>1. \A i \in 1 .. Len(s) : s[i] \in Roster
    BY <1>1, ElementOfSeq
  <2> QED BY <2>1 DEF Roster
<1>3. \A n \in members : Msg("352", n) \in Inbound
  BY InboundMade DEF Types, ServerTypes
<1>4. s \in Seq(Inbound)
  <2>1. Roster \subseteq Inbound
    BY <1>3 DEF Roster
  <2> QED BY <1>1, <2>1, SeqMonotonic
<1>0. /\ cState = 5 /\ recvQueue' = recvQueue \o s /\ UNCHANGED <<cState, pState, cpc, cache, sendQueue>>
      /\ recvQueue \in Seq(Inbound)
  BY DEF Arrive, Connected, allAppVars, protoVars, Types, QueueTypes
<1>5. Control' /\ AskOK' /\ BeforeOK' /\ GatesOK'
  <2>1. Before => members = {}
    BY DEF RosterInv, BeforeOK, Control
  <2>2. Before => \A i \in 1 .. Len(s) : s[i].cmd \notin Roll
    BY <1>2, <2>1
  <2> QED BY <1>4, <2>2, ArriveRoster DEF RosterInv, Control
<1>6. \A i \in 1 .. Len(s) : s[i].cmd = "352" /\ s[i].arg \in members
  <2>1. \A n : Msg("352", n).cmd = "352" /\ Msg("352", n).arg = n
    BY DEF Msg
  <2> QED BY <1>2, <2>1
<1>7. Live'
  <2>1. \A n \in Nicks \ (Servers \cup members) : Followed(s, n)
    BY <1>6 DEF Followed
  <2> QED BY <1>0, <1>4, <2>1, AddedOnItsWay DEF RosterInv, Live
<1>8. Covered'
  <2> SUFFICES ASSUME NEW n \in members PROVE Coming(recvQueue', NameOf(n))
    BY DEF Covered
  <2>1. PICK i \in 1 .. Len(s) : s[i] = Msg("352", n)
    BY <1>1
  <2>2. Enters(s[i], NameOf(n))
    BY <2>1 DEF Enters, Entering, Msg
  <2>3. \A j \in i .. Len(s) : ~Erases(s[j], NameOf(n))
    <3>1. \A j \in i .. Len(s) : j \in 1 .. Len(s)
      OBVIOUS
    <3> QED BY <1>6, <3>1 DEF Erases
  <2>4. Coming(s, NameOf(n))
    BY <2>2, <2>3 DEF Coming
  <2> QED BY <1>0, <1>4, <2>4, AddedOnItsWay
<1> QED BY <1>5, <1>7, <1>8 DEF RosterInv

\* The coming and going of others.
LEMMA MemberRoster ==
    ASSUME Types, RosterInv, cpc = "sleep", NEW n \in Nicks, MemberJoins(n) \/ MemberLeaves(n)
    PROVE  RosterInv'
<1>0. inChannel /\ ~Before
  BY DEF RosterInv, Control, BeforeOK, MemberJoins, MemberLeaves
<1>1. CASE MemberJoins(n)
  <2> DEFINE s == <<Msg("JOIN", n)>>
  <2>0. /\ Arrive(s) /\ s \in Seq(Inbound) /\ members' = members \cup {n} /\ crossed' = crossed \ {NameOf(n)}
        /\ UNCHANGED <<inChannel, owed>>
    BY <1>1, InboundMade, OneInbound DEF MemberJoins
  <2>1. /\ cState = 5 /\ recvQueue' = recvQueue \o s /\ UNCHANGED <<cState, pState, cpc, cache, sendQueue>>
        /\ recvQueue \in Seq(Inbound)
    BY <2>0 DEF Arrive, Connected, allAppVars, protoVars, Types, QueueTypes
  <2>2. Control' /\ AskOK' /\ BeforeOK' /\ GatesOK'
    BY <1>0, <2>0, ArriveRoster
  <2>3. /\ \A k : k # n => Followed(s, k)
        /\ \A g : Stays(s, g)
        /\ Coming(s, NameOf(n))
    BY OneMessage DEF Msg, Erases, Enters, Entering
  <2> HIDE DEF s
  <2>4. Live'
    BY <1>0, <2>0, <2>1, <2>3, AddedOnItsWay DEF RosterInv, Live
  <2>5. Covered'
    <3> SUFFICES ASSUME NEW k \in members'
                 PROVE  \/ WhoDue' \/ NameOf(k) \in crossed' \/ Coming(recvQueue', NameOf(k)) \/ Known(NameOf(k))'
      BY DEF Covered
    <3>1. CASE NameOf(k) = NameOf(n)
      BY <2>0, <2>1, <2>3, <3>1, AddedOnItsWay
    <3>2. CASE NameOf(k) # NameOf(n)
      <4>1. WhoDue \/ NameOf(k) \in crossed \/ Coming(recvQueue, NameOf(k)) \/ Known(NameOf(k))
        BY <2>0, <2>1, <3>2 DEF RosterInv, Covered
      <4>2. WhoDue => WhoDue'
        BY <2>0, <2>1 DEF WhoDue
      <4> QED BY <2>0, <2>1, <2>3, <3>2, <4>1, <4>2, AddedOnItsWay DEF Known
    <3> QED BY <3>1, <3>2
  <2> QED BY <2>2, <2>4, <2>5 DEF RosterInv
<1>2. CASE MemberLeaves(n)
  <2> DEFINE s == <<Msg("QUIT", n)>>
  <2>0. /\ Arrive(s) /\ s \in Seq(Inbound) /\ members' = members \ {n} /\ n \in members
        /\ crossed' = IF SameGate(n) = {n} THEN crossed \ {NameOf(n)} ELSE crossed \cup {NameOf(n)}
        /\ UNCHANGED <<inChannel, owed>>
    BY <1>2, InboundMade, OneInbound DEF MemberLeaves
  <2>1. /\ cState = 5 /\ recvQueue' = recvQueue \o s /\ UNCHANGED <<cState, pState, cpc, cache, sendQueue>>
        /\ recvQueue \in Seq(Inbound)
    BY <2>0 DEF Arrive, Connected, allAppVars, protoVars, Types, QueueTypes
  <2>2. Control' /\ AskOK' /\ BeforeOK' /\ GatesOK'
    BY <1>0, <2>0, ArriveRoster
  <2>3. /\ \A k : Followed(s, k)
        /\ Leaving(s, n)
        /\ \A g : g # NameOf(n) => Stays(s, g)
    BY OneMessage DEF Msg, Erases, Entering
  <2> HIDE DEF s
  <2>4. Live'
    <3> SUFFICES ASSUME NEW k \in Nicks \ (Servers \cup members')
                 PROVE  /\ cache.gateAddr[NameOf(k)] = k => Leaving(recvQueue', k)
                        /\ Followed(recvQueue', k)
      BY <2>1 DEF Live
    <3>1. CASE k = n
      BY <2>0, <2>1, <2>3, <3>1, AddedOnItsWay
    <3>2. CASE k # n
      BY <1>0, <2>0, <2>1, <2>3, <3>2, AddedOnItsWay DEF RosterInv, Live
    <3> QED BY <3>1, <3>2
  <2>5. Covered'
    <3> SUFFICES ASSUME NEW k \in members'
                 PROVE  \/ WhoDue' \/ NameOf(k) \in crossed' \/ Coming(recvQueue', NameOf(k)) \/ Known(NameOf(k))'
      BY DEF Covered
    <3>1. CASE NameOf(k) = NameOf(n)
      BY <2>0, <3>1 DEF SameGate
    <3>2. CASE NameOf(k) # NameOf(n)
      <4>1. WhoDue \/ NameOf(k) \in crossed \/ Coming(recvQueue, NameOf(k)) \/ Known(NameOf(k))
        BY <2>0, <2>1 DEF RosterInv, Covered
      <4>2. WhoDue => WhoDue'
        BY <2>0, <2>1 DEF WhoDue
      <4>3. NameOf(k) \in crossed => NameOf(k) \in crossed'
        BY <2>0, <3>2
      <4>4. /\ Coming(recvQueue, NameOf(k)) => Coming(recvQueue', NameOf(k))
            /\ Known(NameOf(k)) => Known(NameOf(k))'
        <5>1. Stays(s, NameOf(k))
          BY <2>3, <3>2
        <5>2. /\ Coming(recvQueue, NameOf(k)) => Coming(recvQueue \o s, NameOf(k))
              /\ Stays(recvQueue, NameOf(k)) => Stays(recvQueue \o s, NameOf(k))
          BY <2>0, <2>1, <5>1, AddedOnItsWay
        <5> QED BY <2>1, <5>2 DEF Known
      <4> QED BY <4>1, <4>2, <4>3, <4>4
    <3> QED BY <3>1, <3>2
  <2> QED BY <2>2, <2>4, <2>5 DEF RosterInv
<1> QED BY <1>1, <1>2

\* The server.
LEMMA ServerRoster == Types /\ RosterInv /\ ServerStep => RosterInv'
<1> SUFFICES ASSUME Types, RosterInv, ServerStep PROVE RosterInv'
  OBVIOUS
<1>0. cpc = "sleep" /\ owed \in Seq(Owing)
  BY DEF ServerStep, Types, QueueTypes
<1>1. ASSUME NEW m \in Inbound, m.cmd \notin Roll
      PROVE  <<m>> \in Seq(Inbound) /\ \A i \in 1 .. Len(<<m>>) : <<m>>[i].cmd \notin Roll
  BY <1>1
<1>2. \A c, a : Msg(c, a).cmd = c
  BY DEF Msg
<1>3. CASE Reply
  <2>0. /\ owed # <<>> /\ owed' = Tail(owed) /\ UNCHANGED crossed
        /\ Head(owed).cmd # "JOIN" => UNCHANGED <<inChannel, members>>
        /\ Head(owed).cmd = "JOIN" => inChannel' = TRUE
    BY <1>3 DEF Reply
  <2>1. PICK s \in Answers(Head(owed)) : Arrive(s)
    BY <1>3 DEF Reply
  <2>2. Head(owed) \in Owing
    BY <1>0, <2>0, Taken
  <2>3. Head(owed).cmd \in {"NICK", "USER", "JOIN", "WHO", "PING", "FIND", "SENDLIST"} /\ Head(owed).arg \in Args
    BY <2>2 DEF Owing, Messages
  <2>4. CASE Head(owed).cmd = "JOIN"
    <3>1. s = <<Msg("JOINED", Empty)>>
      BY <2>1, <2>4 DEF Answers
    <3> QED BY <1>0, <2>0, <2>1, <2>4, <3>1, JoinAnswered
  <2>5. CASE Head(owed).cmd = "WHO"
    <3>1. s \in Bijection(1..Cardinality(Roster), Roster)
      BY <2>1, <2>5 DEF Answers
    <3> QED BY <1>0, <2>0, <2>1, <2>5, <3>1, WhoAnswered
  <2>6. CASE Head(owed).cmd \notin {"JOIN", "WHO"}
    <3>1. s = <<>> \/ \E m \in Inbound : m.cmd \notin Roll /\ s = <<m>>
      <4>1. \/ s = <<>>
            \/ \E c \in {"433", "004", "PONG", "LIST_END", "LIST_MORE"} : s = <<Msg(c, Empty)>>
            \/ s = <<Msg("NOT_FOUND", Head(owed).arg)>>
        BY <2>1, <2>3, <2>6 DEF Answers
      <4> QED BY <1>2, <2>3, <4>1, InboundMade DEF Roll, Entering
    <3>2. s \in Seq(Inbound) /\ \A i \in 1 .. Len(s) : s[i].cmd \notin Roll
      <4>1. CASE s = <<>>
        BY <4>1, OneInbound, EmptySeq
      <4> QED BY <1>1, <3>1, <4>1
    <3> QED BY <1>0, <2>0, <2>1, <2>6, <3>2, ArrivesAside
  <2> QED BY <2>4, <2>5, <2>6
<1>4. CASE Tell
  <2>1. PICK row \in DbRows : Arrive(<<Msg("UPDATE", row)>>)
    BY <1>4 DEF Tell
  <2>2. Msg("UPDATE", row) \in Inbound /\ Msg("UPDATE", row).cmd \notin Roll
    BY <1>2, InboundMade DEF Roll, Entering
  <2> QED BY <1>0, <1>1, <1>4, <2>1, <2>2, ArrivesAside DEF Tell, serverVars
<1>5. CASE ServerPing
  <2>1. Msg("PING", Empty) \in Inbound /\ Msg("PING", Empty).cmd \notin Roll
    BY <1>2, InboundMade DEF Roll, Entering
  <2> QED BY <1>0, <1>1, <1>5, <2>1, ArrivesAside DEF ServerPing, serverVars
<1>6. CASE Kick
  <2>1. Msg("KICK", Empty) \in Inbound /\ Msg("KICK", Empty).cmd \notin Roll
    BY <1>2, InboundMade DEF Roll, Entering
  <2>2. Arrive(<<Msg("KICK", Empty)>>) /\ inChannel' = FALSE /\ members' = {} /\ owed' = owed
    BY <1>6 DEF Kick
  <2>3. Control' /\ AskOK' /\ BeforeOK' /\ GatesOK'
    BY <1>0, <1>1, <2>1, <2>2, ArriveRoster
  <2>4. Live' /\ Covered'
    BY <2>2 DEF Live, Covered
  <2> QED BY <2>3, <2>4 DEF RosterInv
<1>7. CASE Lost
  BY <1>7, RosterAlone DEF Lost, Adds, allAppVars, protoVars, serverVars, rosterVars
<1> QED BY <1>0, <1>3, <1>4, <1>5, <1>6, <1>7, MemberRoster DEF ServerStep

LEMMA RosterInit == Init => RosterInv
<1> SUFFICES ASSUME Init PROVE RosterInv
  OBVIOUS
<1>1. /\ cState = 0 /\ cpc = "sleep" /\ owed = <<>> /\ recvQueue = <<>> /\ members = {} /\ ~inChannel
      /\ cache = HostsRead
  BY DEF Init, AppInit, ClientInit
<1>2. /\ \A g \in Gateways : cache.gateAddr[g] = Empty
      /\ \A x \in Reflectors : cache.gateAddr[x] = HostsFile
  BY <1>1, CacheAssumption DEF CacheAssumption, HostsRead, Names
<1>3. \A i \in 1 .. Len(recvQueue) : recvQueue[i].cmd \notin Roll
  BY <1>1, EmptySeq
<1> QED BY <1>1, <1>2, <1>3 DEF RosterInv, Control, AskOK, BeforeOK, GatesOK, Live, Covered

LEMMA RosterStep == Types /\ RosterInv /\ [Next]_vars => RosterInv'
BY ThreadsRoster, ClientRoster, ServerRoster DEF Next

\* The address found for a gateway is that of a nick in the channel: whatever was
\* known before the connection was lost has been forgotten, and the departure of
\* the nick has been handled.
THEOREM AddressesAreLive == Spec => []AddressesLive
<1>1. Types /\ RosterInv => AddressesLive
  <2> SUFFICES ASSUME Types, RosterInv PROVE AddressesLive
    OBVIOUS
  <2>1. \A g : g # Empty => findGateAddr(cache, g) = cache.gateAddr[g]
    BY DEF findGateAddr
  <2>2. ASSUME NEW x \in Reflectors PROVE findGateAddr(cache, x) = HostsFile
    BY <2>1, CacheAssumption DEF CacheAssumption, RosterInv, GatesOK
  <2>3. ASSUME InStep, NEW g \in Gateways PROVE findGateAddr(cache, g) \in members \cup {Empty}
    <3> DEFINE n == cache.gateAddr[g]
    <3>1. findGateAddr(cache, g) = n
      BY <2>1, CacheAssumption DEF CacheAssumption
    <3>2. CASE n # Empty
      <4>1. n \in Nicks \ Servers /\ NameOf(n) = g
        BY <3>2 DEF RosterInv, GatesOK
      <4>2. ~Leaving(recvQueue, n)
        BY <2>3, EmptySeq DEF InStep, Leaving
      <4>3. n \in members
        BY <2>3, <4>1, <4>2 DEF RosterInv, Live, InStep, Connected
      <4> QED BY <3>1, <4>3
    <3> QED BY <3>1, <3>2
  <2> QED BY <2>2, <2>3 DEF AddressesLive
<1> QED BY <1>1, TypesInit, TypesStep, RosterInit, RosterStep, PTL DEF Spec

\* Everybody in the channel is in the cache, whenever he came, unless another nick of
\* the same gateway left: the answer to WHO and the arrivals around it overlap, and
\* no order of theirs leaves anybody out.
THEOREM RosterIsComplete == Spec => []RosterComplete
<1>1. Types /\ RosterInv => RosterComplete
  <2> SUFFICES ASSUME Types, RosterInv, InStep, NEW n \in members,
                      Empty \in {cache.nameNick[NameOf(n)], findGateAddr(cache, NameOf(n))}
               PROVE  NameOf(n) \in crossed
    BY DEF RosterComplete
  <2>1. ~WhoDue /\ ~Coming(recvQueue, NameOf(n))
    BY EmptySeq DEF InStep, WhoDue, WhoMsg, Coming
  <2>2. CASE Known(NameOf(n))
    <3>1. cache.gateAddr[NameOf(n)] # Empty /\ cache.nameNick[NameOf(n)] # Empty
      BY <2>2 DEF Known
    <3>2. NameOf(n) # Empty
      BY NickNames, CacheAssumption DEF CacheAssumption, Types, ServerTypes, Nicks
    <3> QED BY <3>1, <3>2 DEF findGateAddr
  <2> QED BY <2>1, <2>2 DEF RosterInv, Covered, InStep, Connected
<1> QED BY <1>1, TypesInit, TypesStep, RosterInit, RosterStep, PTL DEF Spec
-----------------------------------------------------------------------------
(***************************************************************************)
(* That a lost connection is noticed before the next one is switched on,   *)
(* for all periods and timeouts with which three turns of Entry take less  *)
(* than the wait before the queues are deleted and the one before a new    *)
(* connection: 34 half seconds with the values of the code, so that turns  *)
(* may last four and a half seconds.                                       *)
(***************************************************************************)
NoticeBound == 3 * (EntryPeriod + MaxStep) < QuietTime + ReconnectDelay * ClientPeriod

\* How many turns Entry needs to begin anew, when the queue is gone: from a state
\* in which it sleeps, at the end of a turn, and now.
Rank(s) ==
    IF s = 5 THEN 2
    ELSE IF s \notin StartingOver \/ (s = 10 /\ entry.at = 5) THEN 1 ELSE 0
Ends(s) == IF Rank(s) = 0 THEN 0 ELSE Rank(s) + 1
Turns ==
    CASE entry.pc = "sleep" -> Rank(state)
      [] entry.pc = "case" -> IF entry.at = 5 THEN 2
                              ELSE IF entry.at \notin StartingOver THEN 1 ELSE Ends(state)
      [] entry.pc = "put" -> IF entry.next = 10 THEN Ends(state) ELSE Ends(entry.next)
      [] entry.pc = "assign" -> Ends(entry.next)

\* The most time those turns take, and the least until there is a new connection.
Needed == Turns * (EntryPeriod + MaxStep) - age["entry"]
Noticed ==
    sendQ = Null =>
        \/ Turns = 0
        \/ cpc = "quiet" /\ Needed < QuietTime + ReconnectDelay * ClientPeriod - age["client"]
        \/ cpc = "sleep" /\ cState = 0 /\ Needed < cTimer * ClientPeriod - age["client"]

LEMMA TurnsCounted ==
    ASSUME Types
    PROVE  /\ Turns \in 0..3
           /\ entry.pc \in {"sleep", "case", "put", "assign"}
           /\ entry.at \in 0..7 \cup {10} /\ state \in 0..7 \cup {10} /\ entry.next \in {0, 3, 5, 7, 10}
BY DEF Types, SessionTypes, Entries, Turns, Ends, Rank

\* Nothing that the counting looks at has changed.
LEMMA TurnsKept ==
    ASSUME state' = state, entry'.pc = entry.pc, entry'.at = entry.at, entry'.next = entry.next
    PROVE  Turns' = Turns
BY DEF Turns, Ends, Rank

\* A round of Entry that finds no queue: what it has begun before is finished, and
\* nothing else is begun.
LEMMA EntryCounts ==
    ASSUME Types, sendQ = Null, EntryWake \/ EntryStep
    PROVE  /\ entry'.pc # "sleep" => Turns' <= Turns
           /\ entry'.pc = "sleep" => Turns' = 0 \/ Turns' <= Turns - 1
<1> USE DEF Turns, Ends, Rank, StartingOver
<1>0. /\ entry \in Entries /\ Queue # Null
      /\ entry.at \in 0..7 \cup {10} /\ state \in 0..7 \cup {10} /\ entry.next \in {0, 3, 5, 7, 10}
  BY TurnsCounted DEF Types, SessionTypes, Queue, Null, Entries
<1>1. CASE EntryWake
  <2>1. entry.pc = "sleep" /\ entry'.pc = "case" /\ entry'.at = state /\ state' = state
    BY <1>0, <1>1 DEF EntryWake, Entries
  <2> QED BY <1>0, <2>1
<1>2. CASE EntryPut
  <2>1. /\ entry.pc = "put" /\ state' = state /\ entry'.at = entry.at /\ entry'.next = entry.next
        /\ entry'.pc = IF entry.next = 10 THEN "sleep" ELSE "assign"
    BY <1>0, <1>2 DEF EntryPut, Sleep, Entries, appVars
  <2> QED BY <1>0, <2>1
<1>3. CASE EntryAssign
  <2>1. entry.pc = "assign" /\ state' = entry.next /\ entry'.at = entry.at /\ entry'.pc = "sleep"
    BY <1>0, <1>3 DEF EntryAssign, Goto, Sleep, Entries
  <2> QED BY <1>0, <2>1
<1>4. CASE EntryCase
  <2>1. /\ entry.pc = "case" /\ entry'.pc = "sleep" /\ entry'.at = entry.at
        /\ \/ entry.at = 0 /\ state' = state
           \/ entry.at = 1 /\ state' = 2
           \/ entry.at \in 2..7 /\ state' = 10
           \/ entry.at = 10 /\ state' = 0
    BY <1>0, <1>4 DEF EntryCase, WaitForNetwork, ConnectToDb, ChooseServer, NextTable, SendList, AwaitList,
                      Complete, Standby, Disconnect, GiveUp, InCase, Goto, Stay, Sleep, Entries
  <2> QED BY <1>0, <2>1
<1> QED BY <1>1, <1>2, <1>3, <1>4 DEF EntryStep

LEMMA Multiples ==
    ASSUME NEW n \in Nat, NEW m \in Nat, NEW p \in Nat
    PROVE  /\ n * p \in Nat
           /\ m <= n => m * p <= n * p
           /\ m + 1 <= n => m * p + p <= n * p
           /\ m + 1 = n => m * p + p = n * p
<1>1. n * p \in Nat /\ m * p \in Nat /\ (m + 1) * p = m * p + p
  OBVIOUS
<1>2. \A k \in Nat : k <= n => k * p <= n * p
  OBVIOUS
<1> QED BY <1>1, <1>2

LEMMA Measured ==
    ASSUME Types
    PROVE  /\ age["entry"] \in 0 .. EntryPeriod + MaxStep /\ age["client"] \in Nat
           /\ Turns * (EntryPeriod + MaxStep) \in Nat
           /\ Needed \in Int
           /\ cTimer * ClientPeriod \in Nat /\ ReconnectDelay * ClientPeriod \in Nat
           /\ QuietTime \in Nat
<1>1. Turns \in Nat /\ EntryPeriod + MaxStep \in Nat /\ cTimer \in Nat /\ ReconnectDelay \in Nat
                    /\ ClientPeriod \in Nat /\ QuietTime \in Nat
  BY TurnsCounted, TypeFacts DEF Types, ClientTypes
<1>2. age["entry"] \in 0 .. EntryPeriod + MaxStep /\ age["client"] \in Nat
  BY <1>1, TypeFacts DEF Types, AgeTypes
<1>3. /\ Turns * (EntryPeriod + MaxStep) \in Nat
      /\ cTimer * ClientPeriod \in Nat /\ ReconnectDelay * ClientPeriod \in Nat
  BY <1>1, Multiples
<1> QED BY <1>1, <1>2, <1>3 DEF Needed

LEMMA EntryNotices == Types /\ Noticed /\ EntryThread => Noticed'
<1> SUFFICES ASSUME Types, Noticed, EntryThread, sendQ' = Null PROVE Noticed'
  BY DEF Noticed
<1> DEFINE P == EntryPeriod + MaxStep
           a == age["entry"]
<1>0. P \in Nat /\ a \in 0..P /\ Turns \in Nat
  BY Measured, TypeFacts, TurnsCounted
<1>a. PICK m \in Nat : m = Turns'
  <2>1. Types'
    BY EntryThreadTypes
  <2>2. Turns' \in 0..3
    BY <2>1 DEF Types, SessionTypes, Entries, Turns, Ends, Rank
  <2> QED BY <2>2
<1>1. sendQ = Null /\ UNCHANGED <<cpc, cState, cTimer>>
  BY DEF EntryThread, EntryWake, EntryStep, EntryCase, EntryPut, EntryAssign, appVars, clientVars
<1>2. CASE m = 0
  BY <1>2, <1>a DEF Noticed
<1> SUFFICES ASSUME m # 0 PROVE Noticed'
  BY <1>2
<1>3. /\ entry'.pc # "sleep" => m <= Turns
      /\ entry'.pc = "sleep" => m + 1 <= Turns
  <2>1. EntryWake \/ EntryStep
    BY DEF EntryThread
  <2>2. /\ entry'.pc # "sleep" => m <= Turns
        /\ entry'.pc = "sleep" => m = 0 \/ m <= Turns - 1
    BY <1>1, <1>a, <2>1, EntryCounts
  <2> QED BY <1>0, <2>2
<1>4. /\ age'["client"] = age["client"]
      /\ age'["entry"] = IF entry'.pc = "sleep" THEN 0 ELSE a
  BY TypeFacts DEF EntryThread, FallsAsleep, Types, AgeTypes
<1>5. PICK d \in Int : d = Needed' /\ d <= Needed /\ Turns # 0
  <2> HIDE DEF P, a
  <2>1. Needed = Turns * P - a /\ Needed' = m * P - age'["entry"]
    BY <1>a DEF Needed, P, a
  <2>2. /\ Turns * P \in Nat /\ m * P \in Nat
        /\ m <= Turns => m * P <= Turns * P
        /\ m + 1 <= Turns => m * P + P <= Turns * P
    BY <1>0, Multiples
  <2>3. \/ m * P <= Turns * P /\ age'["entry"] = a
        \/ m * P + P <= Turns * P /\ age'["entry"] = 0
    BY <1>3, <1>4, <2>2
  <2>4. m * P - age'["entry"] <= Turns * P - a /\ m * P - age'["entry"] \in Int
    BY <1>0, <2>2, <2>3
  <2>5. Turns # 0
    BY <1>0, <1>3
  <2> QED BY <2>1, <2>4, <2>5
<1>6. CASE cpc = "quiet" /\ Needed < QuietTime + ReconnectDelay * ClientPeriod - age["client"]
  BY <1>1, <1>4, <1>5, <1>6, Measured DEF Noticed
<1>7. CASE cpc = "sleep" /\ cState = 0 /\ Needed < cTimer * ClientPeriod - age["client"]
  BY <1>1, <1>4, <1>5, <1>7, Measured DEF Noticed
<1> QED BY <1>1, <1>5, <1>6, <1>7 DEF Noticed

\* What Entry is about to assign.
Aims ==
    /\ entry.pc = "put" => entry.next \in {5, 10}
    /\ entry.pc = "assign" => entry.next \in {3, 5, 7}

LEMMA AimsKept == Types /\ Aims /\ [Next]_vars => Aims'
<1> SUFFICES ASSUME Types, Aims, [Next]_vars PROVE Aims'
  OBVIOUS
<1>0. entry \in Entries
  BY DEF Types, SessionTypes
<1>1. CASE entry'.pc = entry.pc /\ entry'.next = entry.next
  BY <1>1 DEF Aims
<1>2. CASE EntryWake
  BY <1>0, <1>2 DEF EntryWake, Entries, Aims
<1>3. CASE EntryCase
  BY <1>0, <1>3 DEF EntryCase, WaitForNetwork, ConnectToDb, ChooseServer, NextTable, SendList, AwaitList,
                    Complete, Standby, Disconnect, GiveUp, Goto, Stay, Quit, Sleep, Entries, Aims
<1>4. CASE EntryPut \/ EntryAssign
  BY <1>0, <1>4 DEF EntryPut, EntryAssign, Goto, Sleep, Entries, Aims
<1>5. CASE DeleteQueues
  BY <1>0, <1>1, <1>5 DEF DeleteQueues, Entries
<1>6. CASE ClientThread /\ ~DeleteQueues
  <2>1. entry' = entry
    BY <1>6 DEF ClientThread, ClientWakes, ClientActs, Open, StartProtocol, BeginRound, TakeQueueAway, SendMessage,
                HandleMessage, Kicked, ActOnState, SwitchOn, ShortWrite, EndRound, allAppVars, threadVars
  <2> QED BY <1>1, <2>1
<1>7. CASE MainThread \/ ServerStep \/ Tick \/ UNCHANGED vars
  <2>1. entry' = entry
    BY <1>7 DEF MainThread, MainPut, MainAsk, ServerStep, Reply, Tell, ServerPing, Kick, Lost, MemberJoins,
                MemberLeaves, Arrive, Tick, allAppVars, threadVars, vars
  <2> QED BY <1>1, <2>1
<1> QED BY <1>2, <1>3, <1>4, <1>5, <1>6, <1>7 DEF Next, EntryThread, EntryStep

\* Nothing changes of what Entry has to do, and no time passes.
LEMMA NoticedKept ==
    ASSUME Types, Noticed, sendQ' = sendQ, Turns' = Turns, UNCHANGED <<cpc, cState, cTimer>>,
           age'["entry"] = age["entry"], age'["client"] = age["client"]
    PROVE  Noticed'
<1>1. Needed' = Needed
  BY DEF Needed
<1> QED BY <1>1 DEF Noticed

LEMMA MainNotices == Types /\ Noticed /\ MainThread => Noticed'
<1> SUFFICES ASSUME Types, Noticed, MainThread PROVE Noticed'
  OBVIOUS
<1>1. UNCHANGED <<state, entry, sendQ, cpc, cState, cTimer>>
  BY DEF MainThread, MainPut, MainAsk, appVars, clientVars
<1>2. age'["entry"] = age["entry"] /\ age'["client"] = age["client"]
  BY TypeFacts DEF MainThread, Types, AgeTypes
<1> QED BY <1>1, <1>2, TurnsKept, NoticedKept

LEMMA ServerNotices == Types /\ Noticed /\ ServerStep => Noticed'
<1> SUFFICES ASSUME Types, Noticed, ServerStep PROVE Noticed'
  OBVIOUS
<1>1. UNCHANGED <<state, entry, sendQ, cpc, cState, cTimer, age>>
  BY DEF ServerStep, Reply, Tell, ServerPing, Kick, Lost, MemberJoins, MemberLeaves, Arrive,
         allAppVars, appVars, threadVars
<1> QED BY <1>1, TurnsKept, NoticedKept

LEMMA TickNotices == Types /\ Noticed /\ Tick => Noticed'
<1> SUFFICES ASSUME Types, Noticed, Tick, sendQ' = Null, Turns' # 0 PROVE Noticed'
  BY DEF Noticed
<1>1. UNCHANGED <<state, entry, sendQ, cpc, cState, cTimer>>
  BY DEF Tick, allAppVars, appVars, threadVars, clientVars
<1>2. age'["entry"] = age["entry"] + 1 /\ age'["client"] = age["client"] + 1
  BY TypeFacts DEF Tick, Types, AgeTypes
<1>3. Turns' = Turns
  BY <1>1, TurnsKept
<1>4. Needed' = Needed - 1
  BY <1>2, <1>3, Measured DEF Needed
<1> QED BY <1>1, <1>2, <1>3, <1>4, Measured DEF Noticed

\* The client's thread.
LEMMA ClientNotices == NoticeBound /\ Types /\ Noticed /\ ClientThread => Noticed'
<1> SUFFICES ASSUME NoticeBound, Types, Noticed, ClientThread, sendQ' = Null PROVE Noticed'
  BY DEF Noticed
<1>0. /\ Null # Queue /\ entry \in Entries /\ cTimer \in Nat /\ cState \in {0, 4, 5, 6}
      /\ age \in [Threads -> Nat]
      /\ ClientPeriod \in Nat /\ ReconnectDelay \in Nat
  BY TypeFacts DEF Null, Queue, Types, SessionTypes, ClientTypes, AgeTypes
<1>1. /\ age'["entry"] = age["entry"]
      /\ cpc' \in {"sleep", "quiet"} => age'["client"] = 0
  BY <1>0, TypeFacts DEF ClientThread, FallsAsleep
<1>2. ASSUME Turns = 0, Turns' = Turns PROVE Noticed'
  BY <1>2 DEF Noticed
<1>3. CASE Open /\ Rested("client", ClientSleep)
  <2>1. /\ UNCHANGED <<state, entry, sendQ, cpc>> /\ cpc = "sleep" /\ cState = 0
        /\ age["client"] >= ClientPeriod
    BY <1>3 DEF Open, InRound, allAppVars, appVars, threadVars, Rested, ClientSleep
  <2>2. Turns' = Turns /\ Needed' = Needed
    BY <1>1, <2>1, TurnsKept DEF Needed
  <2>3. CASE Turns # 0
    <3>1. Needed < cTimer * ClientPeriod - age["client"] /\ sendQ = Null
      BY <2>1, <2>3 DEF Noticed
    <3>2. 1 * (EntryPeriod + MaxStep) <= Turns * (EntryPeriod + MaxStep)
      BY <2>3, TurnsCounted, TypeFacts, Multiples
    <3>3. Needed >= 0
      BY <3>2, TypeFacts, Measured DEF Needed
    <3>4. cTimer > 1
      <4>1. SUFFICES ASSUME cTimer <= 1 PROVE cTimer * ClientPeriod <= 1 * ClientPeriod
        BY <1>0, <2>1, <3>1, <3>3, Measured
      <4> QED BY <1>0, <4>1, Multiples
    <3>5. cTimer' = cTimer - 1 /\ cState' = 0
      <4>1. cTimer > 0 /\ CountDown(cTimer) = cTimer - 1 /\ CountDown(cTimer) > 0
        BY <1>0, <3>4 DEF CountDown
      <4>2. cTimer' = CountDown(cTimer) /\ cState' = cState
        BY <1>3, <4>1 DEF Open
      <4> QED BY <2>1, <4>1, <4>2
    <3>6. cTimer' * ClientPeriod + ClientPeriod = cTimer * ClientPeriod /\ cTimer' * ClientPeriod \in Nat
      <4>1. cTimer - 1 \in Nat /\ (cTimer - 1) + 1 = cTimer
        BY <1>0, <3>4
      <4> QED BY <1>0, <3>5, <4>1, Multiples
    <3>7. Needed' < cTimer' * ClientPeriod - 0
      <4>1. Needed < cTimer * ClientPeriod - ClientPeriod
        BY <1>0, <2>1, <3>1, Measured
      <4>2. Needed < cTimer' * ClientPeriod - 0
        BY <1>0, <3>6, <4>1, Measured
      <4> QED BY <2>2, <4>2
    <3> QED BY <1>1, <2>1, <3>5, <3>7 DEF Noticed
  <2> QED BY <1>2, <2>2, <2>3
<1>4. CASE StartProtocol \/ BeginRound
  <2>1. UNCHANGED <<state, entry, sendQ>> /\ cpc = "sleep" /\ cState # 0
    BY <1>4 DEF StartProtocol, BeginRound, InRound, allAppVars, appVars, threadVars
  <2> QED BY <1>2, <2>1, TurnsKept DEF Noticed
<1>5. CASE TakeQueueAway
  <2>1. UNCHANGED <<state, entry>> /\ cpc' = "quiet"
    BY <1>5 DEF TakeQueueAway, threadVars
  <2>2. Turns' = Turns
    BY <2>1, TurnsKept
  <2>3. Turns * (EntryPeriod + MaxStep) <= 3 * (EntryPeriod + MaxStep)
    BY TurnsCounted, TypeFacts, Multiples
  <2>4. Needed' <= 3 * (EntryPeriod + MaxStep) /\ Needed' \in Int /\ 3 * (EntryPeriod + MaxStep) \in Int
    BY <1>1, <2>2, <2>3, Measured, TypeFacts DEF Needed
  <2>5. Needed' < QuietTime + ReconnectDelay * ClientPeriod - 0
    BY <2>4, Measured DEF NoticeBound
  <2> QED BY <1>1, <2>1, <2>5 DEF Noticed
<1>6. CASE DeleteQueues /\ Rested("client", ClientSleep)
  <2>1. /\ UNCHANGED <<state, sendQ>> /\ cpc = "quiet" /\ cpc' = "sleep" /\ cState' = 0
        /\ cTimer' = ReconnectDelay /\ age["client"] >= QuietTime
    BY <1>6 DEF DeleteQueues, appVars, Rested, ClientSleep
  <2>2. entry'.pc = entry.pc /\ entry'.at = entry.at /\ entry'.next = entry.next
    BY <1>0, <1>6 DEF DeleteQueues, Entries
  <2>3. Turns' = Turns /\ Needed' = Needed
    BY <1>1, <2>1, <2>2, TurnsKept DEF Needed
  <2>4. CASE Turns # 0
    <3>1. Needed < QuietTime + ReconnectDelay * ClientPeriod - age["client"]
      BY <2>1, <2>4 DEF Noticed
    <3>2. Needed' < cTimer' * ClientPeriod - 0
      BY <2>1, <2>3, <3>1, Measured
    <3> QED BY <1>1, <2>1, <3>2 DEF Noticed
  <2> QED BY <1>2, <2>3, <2>4
<1>7. CASE HandleMessage
  <2>1. UNCHANGED <<entry, sendQ>> /\ cpc = "recv" /\ cpc' = cpc
    BY <1>7 DEF HandleMessage, threadVars, Login, Answer, userJoin, userLeave, doUpdate, ListAnswer, NotFound,
                appVars
  <2>2. Turns = 0
    BY <2>1 DEF Noticed
  <2>3. \/ state' = state
        \/ state' = 2
        \/ state = 5
        \/ state = 10 /\ entry.at = 5
    BY <1>7 DEF HandleMessage, Login, Answer, userJoin, userLeave, doUpdate, ListAnswer, NotFound, appVars
  <2>4. Turns' = 0
    BY <2>1, <2>2, <2>3, TurnsCounted DEF Turns, Ends, Rank, StartingOver
  <2> QED BY <2>4 DEF Noticed
<1>8. CASE Kicked \/ ActOnState \/ ShortWrite \/ EndRound \/ SendMessage
  <2>1. UNCHANGED <<state, entry, sendQ>> /\ cpc \in {"recv", "send"}
    BY <1>8 DEF Kicked, ActOnState, MessagesDone, ShortWrite, EndRound, SendMessage, allAppVars, appVars, threadVars
  <2> QED BY <1>2, <2>1, TurnsKept DEF Noticed
<1>9. CASE SwitchOn
  BY <1>0, <1>9 DEF SwitchOn
<1> QED BY <1>3, <1>4, <1>5, <1>6, <1>7, <1>8, <1>9 DEF ClientThread, ClientWakes, ClientActs

LEMMA OnlySwitchOn == Next /\ SwitchedOn => cpc = "recv"
<1> SUFFICES ASSUME Next, sendQ = Null, sendQ' # Null PROVE cpc = "recv"
  BY DEF SwitchedOn, Null, Queue
<1>1. sendQ' # sendQ
  OBVIOUS
<1>2. ~EntryThread
  BY <1>1 DEF EntryThread, EntryWake, EntryStep, EntryCase, EntryPut, EntryAssign, appVars
<1>3. ~MainThread /\ ~Tick
  BY <1>1 DEF MainThread, MainPut, MainAsk, Tick, allAppVars, appVars
<1>4. ~ServerStep
  BY <1>1 DEF ServerStep, Reply, Tell, ServerPing, Kick, Lost, MemberJoins, MemberLeaves, Arrive,
              allAppVars, appVars
<1>5. ~ClientWakes /\ ~DeleteQueues /\ ~SendMessage
  BY <1>1 DEF ClientWakes, Open, StartProtocol, BeginRound, TakeQueueAway, DeleteQueues, SendMessage,
              allAppVars, appVars
<1>6. ClientActs
  BY <1>2, <1>3, <1>4, <1>5 DEF Next, ClientThread
<1>7. ~Kicked /\ ~ActOnState /\ ~ShortWrite /\ ~EndRound
  BY <1>1 DEF Kicked, ActOnState, ShortWrite, EndRound, allAppVars, appVars
<1>8. HandleMessage \/ SwitchOn
  BY <1>6, <1>7 DEF ClientActs
<1> QED BY <1>8 DEF HandleMessage, SwitchOn, MessagesDone

\* Whenever a new connection is switched on, Entry begins anew: nothing that it is
\* still to do goes on with the old one.
THEOREM LostConnectionsNoticed == ASSUME NoticeBound PROVE Spec => LoginAfterReset
<1>1. Init => Types /\ Noticed /\ Aims
  <2>1. Init => Turns = 0 /\ Aims
    BY DEF Init, AppInit, Turns, Rank, StartingOver, Aims
  <2> QED BY <2>1, TypesInit DEF Noticed
<1>2. Types /\ Noticed /\ Aims /\ [Next]_vars => Types' /\ Noticed' /\ Aims'
  <2> SUFFICES ASSUME Types, Noticed, [Next]_vars PROVE Noticed'
    BY TypesStep, AimsKept
  <2>1. CASE UNCHANGED vars
    BY <2>1, TurnsKept, NoticedKept DEF vars, appVars, threadVars, clientVars
  <2> QED BY <2>1, EntryNotices, ClientNotices, MainNotices, ServerNotices, TickNotices DEF Next
<1>3. Types /\ Noticed /\ Aims /\ [Next]_vars
        => [SwitchedOn =>
              /\ state \in StartingOver
              /\ entry.pc = "case" => entry.at \in StartingOver
              /\ entry.pc \in {"put", "assign"} => entry.next \in StartingOver]_vars
  <2> SUFFICES ASSUME Types, Noticed, Aims, Next, SwitchedOn
               PROVE  /\ state \in StartingOver
                      /\ entry.pc = "case" => entry.at \in StartingOver
                      /\ entry.pc \in {"put", "assign"} => entry.next \in StartingOver
    BY DEF SwitchedOn, vars, appVars, Null, Queue
  <2>1. Turns = 0
    BY OnlySwitchOn DEF SwitchedOn, Noticed
  <2>2. /\ entry.pc = "sleep" => Rank(state) = 0
        /\ entry.pc = "case" => entry.at \in StartingOver /\ Rank(state) = 0
        /\ entry.pc = "put" => entry.next = 10 /\ Rank(state) = 0
    BY <2>1, TurnsCounted DEF Turns, Ends, Rank, StartingOver, Aims
  <2>3. entry.pc # "assign"
    BY <2>1 DEF Turns, Ends, Rank, StartingOver, Aims
  <2>4. Rank(state) = 0
    BY <2>2, <2>3, TurnsCounted
  <2> QED BY <2>2, <2>3, <2>4, TurnsCounted DEF Rank, StartingOver
<1> QED BY <1>1, <1>2, <1>3, PTL DEF Spec, LoginAfterReset
=============================================================================
