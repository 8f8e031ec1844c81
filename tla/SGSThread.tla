----------------------------- MODULE SGSThread -----------------------------
(***************************************************************************)
(* The life of the server: CSGSThread::run of src/SGSThread.cpp from the   *)
(* start of the ircDDB clients to their end.  What the turns of the main   *)
(* loop do is in the other modules; here they only log users on and off    *)
(* and open and release links.  Of a client the connection is kept, which  *)
(* decides about the address family and about when its thread can end.     *)
(***************************************************************************)
EXTENDS RemoteHandler

CONSTANTS
    IRCs,           \* how many ircDDB servers are configured, one or two
    DExtraPorts,    \* the local ports of the links
    DCSPorts

ASSUME ServerAssumption == IRCs \in {1, 2} /\ DExtraPorts \cap DCSPorts = {}

Ports == DExtraPorts \cup DCSPorts
Clients == 1..IRCs
Unspec == "AF_UNSPEC"
Families == {"AF_INET", "AF_INET6"}

VARIABLES
    stage,          \* where run() is
    turn,           \* i of its loops over the two ircDDB clients
    killed,         \* m_killed
    family,         \* the local family[] of run()
    g2,             \* m_g2Handler: the clients that have an open G2 socket
    users,          \* whether somebody is logged on
    links,          \* ports of the handlers, of both protocols
    open,           \* ports of the pools
    told,           \* ports by which a reflector has been told to unlink
    client,         \* per ircDDB client: where its thread is
    clientFamily,   \* GetFamily()
    terminate       \* terminateThread

loopVars == <<users, links, open, told>>
ircVars == <<client, clientFamily, terminate>>
setupVars == <<family, g2>>
vars == <<remoteVars, stage, turn, killed, setupVars, loopVars, ircVars>>

Shutdown == <<"logoff", "unlinkDExtra", "closeDExtra", "unlinkDCS", "closeDCS", "closeG2", "closeIRC">>
ShutdownStages == {Shutdown[n] : n \in 1..7}
Over == {"over", "crashed"}

TypeOK ==
    /\ RemoteTypeOK
    /\ stage \in {"family", "start", "loop", "remote"} \cup ShutdownStages \cup Over
    /\ turn \in 1..IRCs + 1
    /\ killed \in BOOLEAN /\ users \in BOOLEAN
    /\ family \in [Clients -> Families \cup {Unspec}]
    /\ g2 \subseteq Clients
    /\ links \subseteq Ports /\ open \subseteq Ports /\ told \subseteq Ports
    /\ client \in [Clients -> {"down", "opening", "up", "cut", "ended"}]
    /\ clientFamily \in [Clients -> Families \cup {Unspec}]
    /\ terminate \in [Clients -> BOOLEAN]

Init ==
    /\ RemoteInit
    /\ stage = "family" /\ turn = 1
    /\ killed = FALSE /\ users = FALSE
    /\ family = [i \in Clients |-> Unspec]
    /\ g2 = {} /\ links = {} /\ open = {} /\ told = {}
    /\ client = [i \in Clients |-> "down"]
    /\ clientFamily = [i \in Clients |-> Unspec]
    /\ terminate = [i \in Clients |-> FALSE]
-----------------------------------------------------------------------------
(***************************************************************************)
(* An ircDDB client: states 0, 4 and 5, and 6 of IRCClient::Entry.         *)
(***************************************************************************)
ClientGoes(i, to, fam) ==
    /\ client' = [client EXCEPT ![i] = to]
    /\ clientFamily' = [clientFamily EXCEPT ![i] = fam]
    /\ UNCHANGED terminate

\* State 0, and the call of Open(), which may take minutes.
Mut_BeginOpen(i) ==     \* terminateThread is only looked at while connected
    /\ client[i] = "down"
    /\ ClientGoes(i, "opening", Unspec)
BeginOpen(i) ==
    /\ client[i] = "down"
    /\ ClientGoes(i, IF terminate[i] THEN "ended" ELSE "opening", Unspec)
EndOpen(i) ==
    /\ client[i] = "opening"
    /\ ClientGoes(i, "down", Unspec) \/ \E f \in Families : ClientGoes(i, "up", f)

\* The server closes the connection.
ServerCloses(i) == client[i] = "up" /\ ClientGoes(i, "cut", clientFamily[i])

\* State 6 closes the socket; the thread ends there or in state 0.
CloseSocket(i) ==
    /\ client[i] = "cut" \/ (client[i] = "up" /\ terminate[i])
    /\ ClientGoes(i, IF terminate[i] THEN "ended" ELSE "down", Unspec)

ClientThread(i) == BeginOpen(i) \/ EndOpen(i) \/ CloseSocket(i)
IRC ==
    /\ \E i \in Clients : ClientThread(i) \/ ServerCloses(i)
    /\ UNCHANGED <<remoteVars, stage, turn, killed, setupVars, loopVars>>

\* Open() goes through a list of addresses that it has not got if the name server
\* could not be asked for a minute.
NoAddresses == \E i \in Clients : client[i] = "opening"

\* Sending to a server that has closed the connection may raise SIGPIPE.
IRCPipeBreaks == \E i \in Clients : client[i] = "cut"
-----------------------------------------------------------------------------
(***************************************************************************)
(* Start-up.                                                               *)
(***************************************************************************)

\* run() waits for one client after the other, whether it is killed or not.
\* Opening the G2 socket may fail.
GetFamily ==
    /\ stage = "family"
    /\ clientFamily[turn] # Unspec
    /\ family' = [family EXCEPT ![turn] = clientFamily[turn]]
    /\ g2' \in {g2, g2 \cup {turn}}
    /\ turn' = turn + 1
    /\ stage' = IF turn = IRCs THEN "start" ELSE "family"
    /\ UNCHANGED <<remoteVars, killed, loopVars, ircVars>>

WrongFamilies == IRCs = 2 /\ (family[1] = family[2] \/ family[2] = "AF_INET6")

\* The handlers are deleted, if there are any.
Mut_StopEarly ==
    /\ stage = "start"
    /\ killed' = (killed \/ WrongFamilies)
    /\ killed'
    /\ stage' = IF 1 \in g2 THEN "closeIRC" ELSE "crashed"
    /\ turn' = 1
    /\ g2' = {}
    /\ UNCHANGED <<remoteVars, family, loopVars, ircVars>>
StopEarly ==
    /\ stage = "start"
    /\ killed' = (killed \/ WrongFamilies)
    /\ killed'
    /\ stage' = "closeIRC"
    /\ turn' = 1
    /\ g2' = {}
    /\ UNCHANGED <<remoteVars, family, loopVars, ircVars>>

\* setG2Handler() asserts that there is a first G2 handler.
AssertG2 ==
    /\ stage = "start"
    /\ ~killed /\ ~WrongFamilies
    /\ 1 \notin g2
    /\ stage' = "crashed"
    /\ UNCHANGED <<remoteVars, turn, killed, setupVars, loopVars, ircVars>>

\* The configured links, and the remote control if it can be opened.
Start ==
    /\ stage = "start"
    /\ ~killed /\ ~WrongFamilies
    /\ 1 \in g2
    /\ stage' = "loop"
    /\ links' \in SUBSET Ports
    /\ open' = links'
    /\ phase' \in {"closed", "idle"}
    /\ UNCHANGED <<turn, killed, family, g2, users, told, peer, held, lost, careless, ircVars>>
-----------------------------------------------------------------------------
(***************************************************************************)
(* The main loop.                                                          *)
(***************************************************************************)
Unopened == g2 # Clients

\* Users come and go, links are made and released with their ports.
Work ==
    /\ users' \in BOOLEAN
    /\ links' \in SUBSET Ports
    /\ open' = links'
    /\ UNCHANGED told

\* A turn up to the remote control.  A second G2 handler that could not be opened
\* is null, and is read from without a question.
TakeTurn ==
    /\ stage = "loop"
    /\ ~killed
    /\ IF Unopened
       THEN stage' = "crashed" /\ UNCHANGED loopVars
       ELSE stage' = "remote" /\ Work
    /\ UNCHANGED <<remoteVars, turn, killed, setupVars, ircVars>>

LeaveLoop ==
    /\ stage = "loop"
    /\ killed
    /\ stage' = Shutdown[1]
    /\ UNCHANGED <<remoteVars, turn, killed, setupVars, loopVars, ircVars>>

\* An exception in a turn is caught outside of the loop.
Exception ==
    /\ stage \in {"loop", "remote"}
    /\ phase \in {"closed", "idle"}
    /\ ~killed
    /\ stage' = Shutdown[1]
    /\ UNCHANGED <<remoteVars, turn, killed, setupVars, loopVars, ircVars>>

BackToLoop == stage' = IF phase' \in {"closed", "idle"} THEN "loop" ELSE "remote"

RemoteStep ==
    /\ stage = "remote"
    /\ \/ (NothingToDo \/ Accept \/ SSLAccept \/ ReadPassword \/ Refuse \/ Admit \/ Reply)
          /\ UNCHANGED <<killed, loopVars>>
       \/ ReadShort /\ killed' \in {killed, TRUE} /\ UNCHANGED loopVars
       \/ ReadCommand /\ Work /\ UNCHANGED killed
    /\ BackToLoop
    /\ UNCHANGED <<turn, setupVars, ircVars>>

SignalCatch ==
    /\ stage \notin Over
    /\ killed' = TRUE
    /\ UNCHANGED <<remoteVars, stage, turn, setupVars, loopVars, ircVars>>
-----------------------------------------------------------------------------
(***************************************************************************)
(* Shutdown, in this order.                                                *)
(***************************************************************************)
Advance == \E n \in 1..6 : stage = Shutdown[n] /\ stage' = Shutdown[n + 1]

\* A reflector is told if the socket is still open.
Tell(ports) == told' = told \cup (links \cap ports \cap open) /\ UNCHANGED <<users, links, open>>
ClosePool(ports) == open' = open \ ports /\ UNCHANGED <<users, links, told>>

Mut_Stop ==     \* the pools are closed before the links are unlinked
    /\ \/ stage = "logoff" /\ users' = FALSE /\ UNCHANGED <<links, open, told>>
       \/ stage = "unlinkDExtra" /\ ClosePool(DExtraPorts)
       \/ stage = "closeDExtra" /\ Tell(DExtraPorts)
       \/ stage = "unlinkDCS" /\ Tell(DCSPorts)
       \/ stage = "closeDCS" /\ ClosePool(DCSPorts)
    /\ Advance
    /\ UNCHANGED <<remoteVars, turn, killed, setupVars, ircVars>>
Stop ==
    /\ \/ stage = "logoff" /\ users' = FALSE /\ UNCHANGED <<links, open, told>>
       \/ stage = "unlinkDExtra" /\ Tell(DExtraPorts)
       \/ stage = "closeDExtra" /\ ClosePool(DExtraPorts)
       \/ stage = "unlinkDCS" /\ Tell(DCSPorts)
       \/ stage = "closeDCS" /\ ClosePool(DCSPorts)
    /\ Advance
    /\ UNCHANGED <<remoteVars, turn, killed, setupVars, ircVars>>

\* The first handler is closed without a question, the second if there is one.
\* (Without a first one run() does not come here.)
CloseG2 ==
    /\ stage = "closeG2"
    /\ IF 1 \in g2 THEN Advance /\ g2' = {} ELSE stage' = "crashed" /\ UNCHANGED g2
    /\ turn' = 1
    /\ UNCHANGED <<remoteVars, killed, family, loopVars, ircVars>>

\* CIRCDDB::close() waits for the threads of one client after the other.
StopWork ==
    /\ stage = "closeIRC"
    /\ turn <= IRCs
    /\ ~terminate[turn]
    /\ terminate' = [terminate EXCEPT ![turn] = TRUE]
    /\ UNCHANGED <<remoteVars, stage, turn, killed, setupVars, loopVars, client, clientFamily>>

Joined ==
    /\ stage = "closeIRC"
    /\ turn <= IRCs
    /\ client[turn] = "ended"
    /\ turn' = turn + 1
    /\ UNCHANGED <<remoteVars, stage, killed, setupVars, loopVars, ircVars>>

\* The remote handler is deleted last.
End ==
    /\ stage = "closeIRC"
    /\ turn > IRCs
    /\ stage' = "over"
    /\ phase' = "closed"
    /\ held' = FALSE
    /\ UNCHANGED <<peer, lost, careless, turn, killed, setupVars, loopVars, ircVars>>

\* A signal that is not caught, or a wild pointer, ends the process.
Dies ==
    /\ stage \notin Over
    /\ PipeBreaks \/ IRCPipeBreaks \/ NoAddresses
    /\ stage' = "crashed"
    /\ UNCHANGED <<remoteVars, turn, killed, setupVars, loopVars, ircVars>>

MainThread ==
    \/ GetFamily \/ StopEarly \/ AssertG2 \/ Start
    \/ TakeTurn \/ LeaveLoop \/ RemoteStep
    \/ Stop \/ CloseG2 \/ StopWork \/ Joined \/ End

PeerStep == stage \notin Over /\ Peer
            /\ UNCHANGED <<stage, turn, killed, setupVars, loopVars, ircVars>>

Next ==
    \/ MainThread \/ Exception \/ SignalCatch \/ Dies \/ PeerStep
    \/ stage \notin Over /\ IRC

Spec == Init /\ [][Next]_vars

Runs(i) == stage \notin Over /\ ClientThread(i)
           /\ UNCHANGED <<remoteVars, stage, turn, killed, setupVars, loopVars>>
FairSpec == Spec /\ WF_vars(MainThread) /\ \A i \in Clients : WF_vars(Runs(i))
-----------------------------------------------------------------------------
(***************************************************************************)
(* Properties.                                                             *)
(***************************************************************************)

\* A server that is told to stop does, except while it waits for the first
\* connection of an ircDDB client, or for a remote control client who says
\* nothing: neither looks at m_killed.
KilledStops ==
    \/ killed ~> stage \in Over
    \/ <>[](stage = "family")
    \/ <>[](phase \in Reading /\ peer = "silent")

\* However it comes to the end of run(), nobody is left logged on, every reflector
\* was told while its socket was open, all sockets are closed and no thread runs.
StopsClean ==
    stage = "over" =>
        /\ ~users
        /\ links \subseteq told
        /\ open = {} /\ g2 = {}
        /\ \A i \in Clients : client[i] = "ended"

\* The process dies early only by SIGPIPE, by the addresses of an ircDDB server that
\* could not be looked up, by the assertion at start-up that there is a first G2
\* handler, or in its first turn without a second one.  Nowhere else, on none of the
\* ways out, is a handler used that is not there.
DiesOnlyCutOrUnopened ==
    [][stage' = "crashed" =>
        \/ stage = "crashed"
        \/ PipeBreaks \/ IRCPipeBreaks \/ NoAddresses
        \/ stage = "start" /\ ~killed' /\ 1 \notin g2
        \/ stage = "loop" /\ ~killed' /\ 1 \in g2 /\ Unopened]_vars

\* The sockets that stay open between commands are those of clients whose command
\* was empty, a single word or halt; they are what uses up the descriptors.
LostOnlyByShortCommands ==
    phase = "idle" => lost + (IF held THEN 1 ELSE 0) <= careless
=============================================================================
