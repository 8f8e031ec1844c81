------------------------------ MODULE IRCDDBApp ------------------------------
(***************************************************************************)
(* The session with the ircDDB server user: the thread of IRCDDBApp::Entry, *)
(* the calls that the thread of the IRC client makes, and those of the     *)
(* main thread.  None of the variables is guarded by a lock, so a step     *)
(* here ends wherever another thread can come between two accesses to the  *)
(* state, the server, initReady or the pointer and make a difference; the  *)
(* timer is assigned with the state.  Pointers to the send queue are kept  *)
(* as held: one that outlives the queue becomes Deleted.                   *)
(***************************************************************************)
EXTENDS CacheManager, Sequences

CONSTANTS
    ServerWait,         \* 200 rounds of Entry for a server user to appear
    ListWait,           \* 900 rounds for the answer to SENDLIST
    Requests,           \* what the main thread sends: FIND a user, UPDATE
    MaxQueue            \* bound: the main thread queues no more than this

Null == "null"
Queue == "queue"
Deleted == "deleted"
Pointers == {Null, Queue, Deleted}

numberOfTables == 2
Tables == 0 .. numberOfTables - 1
Rows == {<<0, u, r>> : u \in Users, r \in Repeaters}
            \cup {<<1, r, g>> : r \in Repeaters, g \in Gateways}

Msg(cmd, arg) == [cmd |-> cmd, arg |-> arg]
NoMsg == Msg("none", Empty)
Finds == {Msg("FIND", u) : u \in Users}
Heard == Msg("UPDATE", Empty)

VARIABLES
    state, timer,
    initReady,
    currentServer,
    sendlistTableID,
    sendQ,              \* the pointer that tells the session it is connected
    sendQueue,          \* what is in the queue
    cache,
    entry,              \* where the thread of Entry is, and its locals
    main                \* the main thread, inside of findUser or sendHeard

appVars == <<state, timer, initReady, currentServer, sendlistTableID, sendQ>>
threadVars == <<entry, main>>

AppTypeOK ==
    /\ state \in 0..7 \cup {10}
    /\ timer \in 0 .. ServerWait + ListWait
    /\ initReady \in BOOLEAN
    /\ currentServer \in Servers \cup {Empty}
    /\ sendlistTableID \in -1 .. numberOfTables
    /\ sendQ \in {Null, Queue}
    /\ cache \in Caches
    /\ entry.pc \in {"sleep", "case", "put", "assign"}
    /\ {entry.held, main.held} \subseteq Pointers
    /\ main.pc \in {"loop", "put"}

AppInit ==
    /\ state = 0
    /\ timer = 0
    /\ initReady = FALSE
    /\ currentServer = Empty
    /\ sendlistTableID = 0
    /\ sendQ = Null
    /\ sendQueue = <<>>
    /\ cache = HostsRead
    /\ entry = [pc |-> "sleep", at |-> 0, next |-> 0, held |-> Null, msg |-> NoMsg]
    /\ main = [pc |-> "loop", held |-> Null, msg |-> NoMsg]
-----------------------------------------------------------------------------
(***************************************************************************)
(* Calls of the client's thread.                                           *)
(***************************************************************************)
userJoin(nick) ==
    /\ cache' = updateGate(updateName(cache, NameOf(nick), nick), NameOf(nick), nick)
    /\ UNCHANGED <<appVars, sendQueue>>

\* The departure of any server user restarts the choice, and leaves its name.
userLeave(nick) ==
    IF nick \in Servers
    THEN /\ currentServer' = Empty
         /\ state' = 2
         /\ timer' = ServerWait
         /\ initReady' = FALSE
         /\ UNCHANGED <<sendlistTableID, sendQ, sendQueue, cache>>
    ELSE /\ cache' = eraseGate(eraseName(cache, NameOf(nick)), NameOf(nick))
         /\ UNCHANGED <<appVars, sendQueue>>

\* A row for a repeater of the gateway's own name is not entered.
doUpdate(row) ==
    /\ cache' = CASE ~initReady -> cache
                  [] initReady /\ row[1] = 0 -> updateUser(cache, row[2], row[3])
                  [] initReady /\ row[1] = 1 ->
                        IF Home[row[2]] = row[3] THEN cache ELSE updateRptr(cache, row[2], row[3])
    /\ UNCHANGED <<appVars, sendQueue>>

\* The answers to SENDLIST move the session on only once it waits for them.
\* Entry may time out between the check of the state and its assignment.
ListAnswer(next) ==
    /\ \/ state = 5 /\ state' = next
       \/ state # 5 /\ UNCHANGED state
       \/ state = 10 /\ entry.at = 5 /\ state' = next
    /\ UNCHANGED <<timer, initReady, currentServer, sendlistTableID, sendQ, sendQueue, cache>>

\* findUser: the request is queued if there is a server and the session is ready.
MayAsk == currentServer # Empty /\ state >= 6 /\ sendQ # Null

\* A user that the server does not know is asked for again.
NotFound(u) ==
    /\ sendQueue' = IF MayAsk THEN Append(sendQueue, Msg("FIND", u)) ELSE sendQueue
    /\ UNCHANGED <<appVars, cache>>
-----------------------------------------------------------------------------
(***************************************************************************)
(* Entry: a round reads the state, acts on it, and sleeps.                 *)
(***************************************************************************)
EntryWake ==
    /\ entry.pc = "sleep"
    /\ timer' = IF timer > 0 THEN timer - 1 ELSE 0
    /\ entry' = [entry EXCEPT !.pc = "case", !.at = state]
    /\ UNCHANGED <<state, initReady, currentServer, sendlistTableID, sendQ, sendQueue, cache, main>>

InCase(n) == entry.pc = "case" /\ entry.at = n
Sleep == entry' = [entry EXCEPT !.pc = "sleep", !.held = Null, !.msg = NoMsg]
Keep == UNCHANGED <<timer, initReady, currentServer, sendlistTableID>>

Goto(n) == state' = n /\ Sleep /\ Keep
Stay == Goto(state)
Mut_GiveUp ==                       \* not looked for on standby
    InCase(entry.at) /\ entry.at \in 2..7 /\ sendQ = Null /\ IF entry.at = 7 THEN Stay ELSE Goto(10)
GiveUp == InCase(entry.at) /\ entry.at \in 2..7 /\ sendQ = Null /\ Goto(10)

\* The state is 10 before QUIT is queued.
Quit ==
    /\ state' = 10
    /\ entry' = [entry EXCEPT !.pc = "put", !.next = 10, !.held = sendQ, !.msg = Msg("QUIT", Empty)]
    /\ Keep

WaitForNetwork == InCase(0) /\ IF sendQ # Null THEN Goto(1) ELSE Stay

ConnectToDb ==
    /\ InCase(1)
    /\ state' = 2
    /\ timer' = ServerWait
    /\ Sleep
    /\ UNCHANGED <<initReady, currentServer, sendlistTableID>>

ChooseServer ==
    /\ InCase(2)
    /\ sendQ # Null
    /\ \/ \E s \in ServerUsers(cache) :
            /\ currentServer' = s
            /\ sendlistTableID' = numberOfTables
            /\ entry' = [entry EXCEPT !.pc = "assign", !.next = 3]
            /\ UNCHANGED <<state, timer, initReady>>
       \/ ServerUsers(cache) = {} /\ IF timer = 0 THEN Quit ELSE Stay

Mut_NextTable ==                    \* there is always one more table
    /\ InCase(3)
    /\ sendQ # Null
    /\ sendlistTableID' = sendlistTableID - 1
    /\ state' = 4
    /\ timer' = ListWait
    /\ Sleep
    /\ UNCHANGED <<initReady, currentServer>>

NextTable ==
    /\ InCase(3)
    /\ sendQ # Null
    /\ sendlistTableID' = sendlistTableID - 1
    /\ IF sendlistTableID' < 0
       THEN state' = 6 /\ UNCHANGED timer
       ELSE state' = 4 /\ timer' = ListWait
    /\ Sleep
    /\ UNCHANGED <<initReady, currentServer>>

\* Only table 1 is asked for; the state is 5 after SENDLIST is queued.
SendList ==
    /\ InCase(4)
    /\ sendQ # Null
    /\ IF sendlistTableID = 1
       THEN /\ entry' = [entry EXCEPT !.pc = "put", !.next = 5, !.held = sendQ,
                                      !.msg = Msg("SENDLIST", currentServer)]
            /\ UNCHANGED state
            /\ Keep
       ELSE Goto(3)

Mut_AwaitList == InCase(5) /\ sendQ # Null /\ Stay      \* the timer is not looked at
AwaitList == InCase(5) /\ sendQ # Null /\ IF timer = 0 THEN Quit ELSE Stay

Mut_Complete ==                     \* initReady is forgotten
    /\ InCase(6)
    /\ sendQ # Null
    /\ entry' = [entry EXCEPT !.pc = "assign", !.next = 7]
    /\ UNCHANGED <<state, timer, currentServer, sendlistTableID, initReady>>

Complete ==
    /\ InCase(6)
    /\ sendQ # Null
    /\ initReady' = TRUE
    /\ entry' = [entry EXCEPT !.pc = "assign", !.next = 7]
    /\ UNCHANGED <<state, timer, currentServer, sendlistTableID>>

Standby == InCase(7) /\ sendQ # Null /\ Stay

Disconnect ==
    /\ InCase(10)
    /\ state' = 0
    /\ timer' = 0
    /\ initReady' = FALSE
    /\ Sleep
    /\ UNCHANGED <<currentServer, sendlistTableID>>

EntryCase ==
    /\ \/ WaitForNetwork \/ ConnectToDb \/ ChooseServer \/ NextTable \/ SendList
       \/ AwaitList \/ Complete \/ Standby \/ Disconnect \/ GiveUp
    /\ UNCHANGED <<sendQ, sendQueue, cache, main>>

\* Only a live queue takes the message; the property excludes deleted ones.
Put(held, m) == sendQueue' = IF held = Queue THEN Append(sendQueue, m) ELSE sendQueue

EntryPut ==
    /\ entry.pc = "put"
    /\ Put(entry.held, entry.msg)
    /\ IF entry.next = 10
       THEN Sleep
       ELSE entry' = [entry EXCEPT !.pc = "assign", !.held = Null, !.msg = NoMsg]
    /\ UNCHANGED <<appVars, cache, main>>

EntryAssign ==
    /\ entry.pc = "assign"
    /\ Goto(entry.next)
    /\ UNCHANGED <<sendQ, sendQueue, cache, main>>

EntryStep == EntryCase \/ EntryPut \/ EntryAssign
-----------------------------------------------------------------------------
(***************************************************************************)
(* findUser and sendHeard, called by the main thread.                      *)
(***************************************************************************)
MainAsk(m) ==
    /\ main.pc = "loop"
    /\ MayAsk
    /\ Len(sendQueue) < MaxQueue
    /\ main' = [pc |-> "put", held |-> sendQ, msg |-> m]
    /\ UNCHANGED <<appVars, sendQueue, cache, entry>>

MainPut ==
    /\ main.pc = "put"
    /\ Put(main.held, main.msg)
    /\ main' = [pc |-> "loop", held |-> Null, msg |-> NoMsg]
    /\ UNCHANGED <<appVars, cache, entry>>
=============================================================================
