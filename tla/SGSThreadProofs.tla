--------------------------- MODULE SGSThreadProofs ---------------------------
(***************************************************************************)
(* What the server leaves behind and what it dies of, for one or two       *)
(* ircDDB servers, any links and any number of descriptors.                *)
(*                                                                         *)
(* The order of the shutdown is written down stage by stage: what has been *)
(* done by then, and what the next step still needs (HasG2, LinksDone,     *)
(* ThreadsDone).  The sockets of remote clients are counted in step with   *)
(* the commands that leave one open (Counted).                             *)
(***************************************************************************)
EXTENDS SGSThread, TLAPS

\* A client that is being served has the only socket that is not lost; between
\* clients each careless command has left one.
Counted ==
    /\ held => lost < Descriptors
    /\ phase \in Reading \cup Writing => held /\ careless = lost
    /\ phase = "idle" => careless = lost + (IF held THEN 1 ELSE 0)
    /\ phase = "closed" => ~held
    /\ stage \in {"family", "start"} => phase = "closed" /\ careless = lost

Running == {"loop", "remote"}
LoggedOff == {"unlinkDExtra", "closeDExtra", "unlinkDCS", "closeDCS", "closeG2", "closeIRC", "over"}
DExtraTold == LoggedOff \ {"unlinkDExtra"}
AllTold == {"closeDCS", "closeG2", "closeIRC", "over"}
AllClosed == {"closeG2", "closeIRC", "over"}

\* The loop and all of the shutdown that needs the first G2 handler come after the
\* assertion that there is one.
HasG2 ==
    /\ stage = "family" => turn <= IRCs
    /\ stage \in Running \cup {"logoff"} \cup (LoggedOff \ {"closeIRC", "over"}) => 1 \in g2

\* What has become of users and links.
LinksDone ==
    /\ stage \in {"family", "start"} => ~users /\ links = {} /\ open = {}
    /\ stage \in Running \cup {"logoff", "unlinkDExtra", "closeDExtra"} => open = links
    /\ stage \in {"unlinkDCS", "closeDCS"} => open = links \ DExtraPorts
    /\ stage \in LoggedOff => ~users
    /\ stage \in DExtraTold => links \cap DExtraPorts \subseteq told
    /\ stage \in AllTold => links \cap DCSPorts \subseteq told
    /\ stage \in AllClosed => open = {}
    /\ stage \in {"closeIRC", "over"} => g2 = {}

\* close() waits for one client after the other.
ThreadsDone ==
    /\ stage = "closeIRC" => \A i \in Clients : i < turn => client[i] = "ended"
    /\ stage = "over" => \A i \in Clients : client[i] = "ended"

Inv == TypeOK /\ Counted /\ HasG2 /\ LinksDone /\ ThreadsDone

\* Numbers every proof needs.
LEMMA Facts ==
    /\ Descriptors \in Nat \ {0}
    /\ IRCs \in Nat /\ IRCs \in {1, 2} /\ 1 \in Clients
    /\ DExtraPorts \cap DCSPorts = {} /\ Ports = DExtraPorts \cup DCSPorts
    /\ Unspec \notin Families
BY RemoteAssumption, ServerAssumption
DEF RemoteAssumption, ServerAssumption, Ports, Clients, Unspec, Families

\* The stages of the shutdown by their names.
LEMMA StageNames ==
    /\ Shutdown[1] = "logoff"
    /\ {"logoff", "unlinkDExtra", "closeDExtra", "unlinkDCS", "closeDCS", "closeG2", "closeIRC"}
          \subseteq ShutdownStages
<1>1. \A n \in 1..7 : Shutdown[n] \in ShutdownStages
  BY DEF ShutdownStages
<1>2. /\ Shutdown[1] = "logoff" /\ Shutdown[2] = "unlinkDExtra" /\ Shutdown[3] = "closeDExtra"
      /\ Shutdown[4] = "unlinkDCS" /\ Shutdown[5] = "closeDCS" /\ Shutdown[6] = "closeG2"
      /\ Shutdown[7] = "closeIRC"
  BY DEF Shutdown
<1> QED BY <1>1, <1>2

\* The shutdown goes on one stage at a time.
LEMMA Advances ==
    ASSUME Advance
    PROVE  \/ stage = "logoff" /\ stage' = "unlinkDExtra"
           \/ stage = "unlinkDExtra" /\ stage' = "closeDExtra"
           \/ stage = "closeDExtra" /\ stage' = "unlinkDCS"
           \/ stage = "unlinkDCS" /\ stage' = "closeDCS"
           \/ stage = "closeDCS" /\ stage' = "closeG2"
           \/ stage = "closeG2" /\ stage' = "closeIRC"
<1>1. PICK n \in 1..6 : stage = Shutdown[n] /\ stage' = Shutdown[n + 1]
  BY DEF Advance
<1>2. n \in {1, 2, 3, 4, 5, 6}
  BY <1>1
<1> QED BY <1>1, <1>2 DEF Shutdown

-----------------------------------------------------------------------------
\* The program starts with nothing.
LEMMA InitInv == Init => Inv
<1> SUFFICES ASSUME Init PROVE Inv
  OBVIOUS
<1> USE Facts DEF Init, RemoteInit
<1>1. RemoteTypeOK
  <2>1. lost \in 0..Descriptors /\ careless \in 0..Descriptors
    OBVIOUS
  <2>2. phase = "closed" /\ peer = "none" /\ held \in BOOLEAN
    OBVIOUS
  <2> QED BY <2>1, <2>2 DEF RemoteTypeOK
<1>2. stage = "family" /\ turn \in 1..IRCs + 1
  OBVIOUS
<1>3. family \in [Clients -> Families \cup {Unspec}] /\ clientFamily \in [Clients -> Families \cup {Unspec}]
  OBVIOUS
<1>4. /\ client \in [Clients -> {"down", "opening", "up", "cut", "ended"}]
      /\ terminate \in [Clients -> BOOLEAN]
  OBVIOUS
<1>5. TypeOK
  BY <1>1, <1>2, <1>3, <1>4 DEF TypeOK
<1>6. Counted
  BY DEF Counted, Reading, Writing
<1>7. HasG2
  BY DEF HasG2, Running, LoggedOff
<1>8. LinksDone
  BY DEF LinksDone, Running, LoggedOff, DExtraTold, AllTold, AllClosed
<1>9. ThreadsDone
  BY DEF ThreadsDone
<1> QED BY <1>5, <1>6, <1>7, <1>8, <1>9 DEF Inv
-----------------------------------------------------------------------------
(***************************************************************************)
(* The remote control.                                                     *)
(***************************************************************************)

\* Whatever a step of process() does, sockets are counted.
LEMMA RemoteCounted ==
    ASSUME TypeOK, Counted, stage = "remote",
           \/ NothingToDo \/ Accept \/ SSLAccept \/ ReadPassword \/ Refuse \/ Admit \/ Reply
           \/ ReadShort \/ ReadCommand,
           stage' \in Running
    PROVE  RemoteTypeOK' /\ Counted'
<1> USE Facts DEF TypeOK, RemoteTypeOK, Counted, Reading, Writing, Running
<1>0. ASSUME CloseClient, phase \in Reading \cup Writing
      PROVE  RemoteTypeOK' /\ Counted'
  <2>1. ~held' /\ held' \in BOOLEAN
    BY <1>0 DEF CloseClient
  <2>2. phase' = "idle" /\ peer' = "none" /\ lost' = lost /\ careless' = careless
    BY <1>0 DEF CloseClient
  <2>3. careless = lost
    BY <1>0
  <2>4. careless' = lost' + (IF held' THEN 1 ELSE 0)
    BY <2>1, <2>2, <2>3
  <2>5. RemoteTypeOK'
    BY <2>1, <2>2
  <2>6. Counted'
    BY <2>1, <2>2, <2>4
  <2> QED BY <2>5, <2>6
<1>1. CASE NothingToDo
  BY <1>1 DEF NothingToDo, remoteVars
<1>2. CASE Accept
  <2>1. lost' = IF held THEN lost + 1 ELSE lost
    BY <1>2 DEF Accept
  <2>2. lost' = careless /\ lost' \in 0..Descriptors
    <3>1. careless = lost + (IF held THEN 1 ELSE 0)
      BY <1>2 DEF Accept
    <3> QED BY <2>1, <3>1
  <2>3. held' \in BOOLEAN /\ (held' <=> lost' < Descriptors)
    <3>1. held' = (lost' < Descriptors)
      BY <1>2 DEF Accept
    <3>2. (lost' < Descriptors) \in BOOLEAN
      BY <2>2
    <3> QED BY <3>1, <3>2, Zenon
  <2>4. phase' = (IF held' THEN "handshake" ELSE "idle") /\ peer' = peer /\ careless' = careless
    BY <1>2 DEF Accept
  <2>5. CASE held'
    BY <2>2, <2>3, <2>4, <2>5
  <2>6. CASE ~held'
    BY <2>2, <2>3, <2>4, <2>6
  <2> QED BY <2>5, <2>6
<1>3. CASE SSLAccept
  <2>1. CASE CloseClient
    BY <1>0, <1>3, <2>1 DEF SSLAccept
  <2>2. CASE peer' = "silent" /\ Proceed({"password"})
    BY <1>3, <2>2 DEF SSLAccept, Proceed
  <2> QED BY <1>3, <2>1, <2>2 DEF SSLAccept
<1>4. CASE ReadPassword
  BY <1>4 DEF ReadPassword, Consumed, Proceed
<1>5. CASE Refuse \/ Reply
  BY <1>0, <1>5 DEF Refuse, Reply
<1>6. CASE Admit
  BY <1>6 DEF Admit, Proceed
<1>7. CASE ReadShort
  BY <1>7 DEF ReadShort
<1>8. CASE ReadCommand
  BY <1>8 DEF ReadCommand, Consumed, Proceed
<1> QED BY <1>1, <1>2, <1>3, <1>4, <1>5, <1>6, <1>7, <1>8

\* A turn's share of the remote control.
LEMMA RemoteInv ==
    ASSUME Inv, RemoteStep
    PROVE  Inv'
<1> USE Facts DEF Inv
<1>1. stage = "remote" /\ stage' \in Running /\ UNCHANGED <<turn, setupVars, ircVars>>
  BY DEF RemoteStep, BackToLoop, Running
<1>2. RemoteTypeOK' /\ Counted'
  <2>1. \/ NothingToDo \/ Accept \/ SSLAccept \/ ReadPassword \/ Refuse \/ Admit \/ Reply
        \/ ReadShort \/ ReadCommand
    BY DEF RemoteStep
  <2> QED BY <1>1, <2>1, RemoteCounted
<1>3. /\ killed' \in BOOLEAN /\ users' \in BOOLEAN
      /\ links' \subseteq Ports /\ open' \subseteq Ports /\ told' \subseteq Ports
      /\ open' = links'
  BY <1>1 DEF RemoteStep, Work, TypeOK, LinksDone, loopVars, Running
<1>4. TypeOK'
  BY <1>1, <1>2, <1>3 DEF TypeOK, setupVars, ircVars, Running
<1>5. HasG2'
  BY <1>1 DEF HasG2, setupVars, Running, LoggedOff
<1>6. LinksDone'
  BY <1>1, <1>3 DEF LinksDone, Running, LoggedOff, DExtraTold, AllTold, AllClosed
<1>7. ThreadsDone'
  BY <1>1 DEF ThreadsDone, Running
<1> QED BY <1>2, <1>4, <1>5, <1>6, <1>7

\* The client does nothing to the sockets.
LEMMA PeerInv ==
    ASSUME Inv, PeerStep
    PROVE  Inv'
<1> USE DEF PeerStep, Peer, PeerConnects, PeerSends, PeerLeaves, setupVars, loopVars, ircVars, Inv
<1>1. TypeOK'
  BY DEF TypeOK, RemoteTypeOK
<1>2. Counted' /\ HasG2' /\ LinksDone' /\ ThreadsDone'
  BY DEF Counted, HasG2, LinksDone, ThreadsDone
<1> QED BY <1>1, <1>2
-----------------------------------------------------------------------------
(***************************************************************************)
(* The ircDDB clients.                                                     *)
(***************************************************************************)

\* A thread that has ended stays so.
LEMMA IRCInv ==
    ASSUME Inv, IRC
    PROVE  Inv'
<1> USE Facts DEF Inv
<1>1. PICK i \in Clients : ClientThread(i) \/ ServerCloses(i)
  BY DEF IRC
<1>2. UNCHANGED <<remoteVars, stage, turn, killed, setupVars, loopVars, terminate>>
  BY <1>1 DEF IRC, ClientThread, BeginOpen, EndOpen, CloseSocket, ServerCloses, ClientGoes
<1>3. PICK to \in {"down", "opening", "up", "cut", "ended"}, fam \in Families \cup {Unspec} :
        ClientGoes(i, to, fam) /\ client[i] # "ended"
  <2>1. CASE BeginOpen(i)
    BY <2>1 DEF BeginOpen
  <2>2. CASE EndOpen(i)
    BY <2>2 DEF EndOpen
  <2>3. CASE CloseSocket(i)
    BY <2>3 DEF CloseSocket
  <2>4. CASE ServerCloses(i)
    <3>1. clientFamily[i] \in Families \cup {Unspec}
      BY DEF TypeOK
    <3> QED BY <2>4, <3>1 DEF ServerCloses
  <2> QED BY <1>1, <2>1, <2>2, <2>3, <2>4 DEF ClientThread
<1>4. TypeOK'
  <2>1. RemoteTypeOK'
    BY <1>2 DEF TypeOK, RemoteTypeOK, remoteVars
  <2>2. /\ client' \in [Clients -> {"down", "opening", "up", "cut", "ended"}]
        /\ clientFamily' \in [Clients -> Families \cup {Unspec}]
    BY <1>3 DEF TypeOK, ClientGoes
  <2> QED BY <1>2, <2>1, <2>2 DEF TypeOK, setupVars, loopVars
<1>5. Counted' /\ HasG2' /\ LinksDone'
  BY <1>2 DEF Counted, HasG2, LinksDone, remoteVars, setupVars, loopVars
<1>6. ThreadsDone'
  <2>1. \A j \in Clients : client[j] = "ended" => client'[j] = "ended"
    BY <1>3 DEF TypeOK, ClientGoes
  <2> QED BY <1>2, <2>1 DEF ThreadsDone
<1> QED BY <1>4, <1>5, <1>6
-----------------------------------------------------------------------------
(***************************************************************************)
(* The main thread.                                                        *)
(***************************************************************************)

\* Sockets stay counted in a step that is not of the remote control.
LEMMA CountedKept ==
    ASSUME TypeOK, Counted, UNCHANGED remoteVars,
           stage' \in {"family", "start"} => stage \in {"family", "start"}
    PROVE  RemoteTypeOK' /\ Counted'
BY DEF TypeOK, RemoteTypeOK, Counted, remoteVars

\* Start-up.
LEMMA GetFamilyInv ==
    ASSUME Inv, GetFamily
    PROVE  Inv'
<1> USE Facts DEF Inv, GetFamily
<1>1. RemoteTypeOK' /\ Counted'
  BY CountedKept
<1>2. turn' \in 1..IRCs + 1 /\ turn \in Clients
  BY DEF TypeOK, HasG2, Clients
<1>3. family' \in [Clients -> Families \cup {Unspec}] /\ g2' \subseteq Clients
  BY <1>2 DEF TypeOK
<1>4. stage' \in {"family", "start"} /\ (stage' = "family" => turn' <= IRCs)
  <2>1. turn \in Nat /\ turn <= IRCs /\ turn' = turn + 1
    <3>1. stage = "family" /\ turn' = turn + 1
      OBVIOUS
    <3> QED BY <3>1 DEF TypeOK, HasG2
  <2>2. stage' = (IF turn = IRCs THEN "start" ELSE "family")
    OBVIOUS
  <2> QED BY <2>1, <2>2
<1>5. TypeOK'
  BY <1>1, <1>2, <1>3, <1>4 DEF TypeOK, loopVars, ircVars
<1>6. HasG2'
  BY <1>4 DEF HasG2, Running, LoggedOff
<1>7. LinksDone'
  BY <1>4 DEF LinksDone, Running, LoggedOff, DExtraTold, AllTold, AllClosed, loopVars
<1>8. ThreadsDone'
  BY <1>4 DEF ThreadsDone
<1> QED BY <1>1, <1>5, <1>6, <1>7, <1>8

LEMMA StopEarlyInv ==
    ASSUME Inv, StopEarly
    PROVE  Inv'
<1> USE Facts DEF Inv, StopEarly
<1>1. RemoteTypeOK' /\ Counted'
  BY CountedKept
<1>2. killed' \in BOOLEAN
  BY DEF TypeOK
<1>3. TypeOK'
  BY <1>1, <1>2, StageNames DEF TypeOK, loopVars, ircVars
<1>4. HasG2'
  BY DEF HasG2, Running, LoggedOff
<1>5. LinksDone'
  BY DEF LinksDone, Running, LoggedOff, DExtraTold, AllTold, AllClosed, loopVars
<1>6. ThreadsDone'
  BY DEF ThreadsDone, Clients
<1> QED BY <1>1, <1>3, <1>4, <1>5, <1>6

\* The assertion fails.
LEMMA AssertInv ==
    ASSUME Inv, AssertG2
    PROVE  Inv'
<1> USE Facts DEF Inv, AssertG2
<1>1. RemoteTypeOK' /\ Counted'
  BY CountedKept
<1>2. TypeOK'
  BY <1>1 DEF TypeOK, Over, setupVars, loopVars, ircVars
<1>3. HasG2' /\ ThreadsDone'
  BY DEF HasG2, Running, LoggedOff, ThreadsDone
<1>4. LinksDone'
  BY DEF LinksDone, Running, LoggedOff, DExtraTold, AllTold, AllClosed
<1> QED BY <1>1, <1>2, <1>3, <1>4

LEMMA StartInv ==
    ASSUME Inv, Start
    PROVE  Inv'
<1> USE Facts DEF Inv, Start
<1>1. RemoteTypeOK' /\ Counted'
  <2>1. /\ phase' \in {"closed", "idle"} /\ stage' = "loop"
        /\ peer' = peer /\ held' = held /\ lost' = lost /\ careless' = careless
    OBVIOUS
  <2>2. ~held /\ careless = lost
    BY DEF Counted
  <2>3. RemoteTypeOK'
    BY <2>1 DEF TypeOK, RemoteTypeOK
  <2>4. ~held' /\ careless' = lost' /\ lost \in Nat
    BY <2>1, <2>2 DEF TypeOK, RemoteTypeOK
  <2>5. careless' = lost' + (IF held' THEN 1 ELSE 0)
    BY <2>1, <2>4
  <2>6. Counted'
    BY <2>1, <2>4, <2>5 DEF Counted, Reading, Writing
  <2> QED BY <2>3, <2>6
<1>2. TypeOK'
  BY <1>1 DEF TypeOK, ircVars
<1>3. HasG2'
  BY DEF HasG2, Running, LoggedOff
<1>4. LinksDone'
  BY DEF LinksDone, Running, LoggedOff, DExtraTold, AllTold, AllClosed
<1>5. ThreadsDone'
  BY DEF ThreadsDone
<1> QED BY <1>1, <1>2, <1>3, <1>4, <1>5

\* The loop.
LEMMA TakeTurnInv ==
    ASSUME Inv, TakeTurn
    PROVE  Inv'
<1> USE Facts DEF Inv, TakeTurn
<1>1. RemoteTypeOK' /\ Counted'
  BY CountedKept
<1>2. stage' \in {"crashed", "remote"} /\ 1 \in g2
  BY DEF HasG2, Running
<1>3. /\ users' \in BOOLEAN /\ links' \subseteq Ports /\ open' = links' /\ told' \subseteq Ports
  BY DEF TypeOK, LinksDone, Running, Work, loopVars
<1>4. TypeOK'
  BY <1>1, <1>2, <1>3 DEF TypeOK, Over, setupVars, ircVars
<1>5. HasG2'
  BY <1>2 DEF HasG2, Running, LoggedOff, setupVars
<1>6. LinksDone'
  BY <1>2, <1>3 DEF LinksDone, Running, LoggedOff, DExtraTold, AllTold, AllClosed
<1>7. ThreadsDone'
  BY <1>2 DEF ThreadsDone
<1> QED BY <1>1, <1>4, <1>5, <1>6, <1>7

\* The loop ends with its condition or an exception.
LEMMA LeaveInv ==
    ASSUME Inv, LeaveLoop \/ Exception
    PROVE  Inv'
<1> USE Facts DEF Inv
<1>1. /\ stage \in Running /\ stage' = "logoff"
      /\ UNCHANGED <<remoteVars, turn, killed, setupVars, loopVars, ircVars>>
  BY StageNames DEF LeaveLoop, Exception, Running
<1>2. RemoteTypeOK' /\ Counted'
  BY <1>1, CountedKept
<1>3. TypeOK'
  BY <1>1, <1>2, StageNames DEF TypeOK, setupVars, loopVars, ircVars
<1>4. HasG2'
  BY <1>1 DEF HasG2, Running, LoggedOff, setupVars
<1>5. LinksDone'
  BY <1>1 DEF LinksDone, Running, LoggedOff, DExtraTold, AllTold, AllClosed, loopVars
<1>6. ThreadsDone'
  BY <1>1 DEF ThreadsDone
<1> QED BY <1>2, <1>3, <1>4, <1>5, <1>6

\* A signal, or what ends the process.
LEMMA SignalInv ==
    ASSUME Inv, SignalCatch
    PROVE  Inv'
<1> USE DEF Inv, SignalCatch
<1>1. RemoteTypeOK' /\ Counted'
  BY CountedKept
<1>2. TypeOK'
  BY <1>1 DEF TypeOK, setupVars, loopVars, ircVars
<1>3. HasG2' /\ LinksDone' /\ ThreadsDone'
  BY DEF HasG2, LinksDone, ThreadsDone, setupVars, loopVars, ircVars
<1> QED BY <1>1, <1>2, <1>3

LEMMA DiesInv ==
    ASSUME Inv, Dies
    PROVE  Inv'
<1> USE DEF Inv, Dies
<1>1. RemoteTypeOK' /\ Counted'
  BY CountedKept
<1>2. TypeOK'
  BY <1>1 DEF TypeOK, Over, setupVars, loopVars, ircVars
<1>3. HasG2' /\ LinksDone' /\ ThreadsDone'
  BY DEF HasG2, LinksDone, ThreadsDone, Running, LoggedOff, DExtraTold, AllTold, AllClosed
<1> QED BY <1>1, <1>2, <1>3
-----------------------------------------------------------------------------
(***************************************************************************)
(* The shutdown.                                                           *)
(***************************************************************************)

\* Up to the G2 handlers: who is logged off and told, while the port is open.
LEMMA StopInv ==
    ASSUME Inv, Stop
    PROVE  Inv'
<1> USE Facts DEF Inv
<1>1. UNCHANGED <<remoteVars, turn, killed, setupVars, ircVars>> /\ Advance
  BY DEF Stop
<1>2. stage' \in {"unlinkDExtra", "closeDExtra", "unlinkDCS", "closeDCS", "closeG2"}
  BY <1>1, Advances DEF Stop
<1>3. RemoteTypeOK' /\ Counted'
  BY <1>1, <1>2, CountedKept
<1>4. /\ links' = links /\ users' \in BOOLEAN
      /\ open' \subseteq Ports /\ told \subseteq told' /\ told' \subseteq Ports
  BY DEF Stop, TypeOK, Tell, ClosePool
<1>5. TypeOK'
  BY <1>1, <1>2, <1>3, <1>4, StageNames DEF TypeOK, setupVars, ircVars
<1>6. HasG2'
  BY <1>1, <1>2, Advances DEF HasG2, LoggedOff, Running, setupVars
<1>7. LinksDone'
  <2> USE DEF LinksDone, Running, LoggedOff, DExtraTold, AllTold, AllClosed
  <2>1. CASE stage = "logoff"
    <3>1. stage' = "unlinkDExtra" /\ ~users' /\ UNCHANGED <<links, open, told>>
      BY <1>1, <2>1, Advances DEF Stop
    <3> QED BY <2>1, <3>1
  <2>2. CASE stage = "unlinkDExtra"
    <3>1. stage' = "closeDExtra" /\ UNCHANGED <<users, links, open>>
      BY <1>1, <2>2, Advances DEF Stop, Tell
    <3>2. told' = told \cup (links \cap DExtraPorts \cap open) /\ open = links
      BY <2>2 DEF Stop, Tell
    <3> QED BY <2>2, <3>1, <3>2
  <2>3. CASE stage = "closeDExtra"
    <3>1. stage' = "unlinkDCS" /\ UNCHANGED <<users, links, told>>
      BY <1>1, <2>3, Advances DEF Stop, ClosePool
    <3>2. open' = links \ DExtraPorts
      BY <2>3 DEF Stop, ClosePool
    <3> QED BY <2>3, <3>1, <3>2
  <2>4. CASE stage = "unlinkDCS"
    <3>1. stage' = "closeDCS" /\ UNCHANGED <<users, links, open>>
      BY <1>1, <2>4, Advances DEF Stop, Tell
    <3>2. told' = told \cup (links \cap DCSPorts \cap open) /\ open = links \ DExtraPorts
      BY <2>4 DEF Stop, Tell
    <3>3. links \cap DCSPorts \subseteq told'
      BY <3>2
    <3> QED BY <2>4, <3>1, <3>2, <3>3
  <2>5. CASE stage = "closeDCS"
    <3>1. stage' = "closeG2" /\ UNCHANGED <<users, links, told>>
      BY <1>1, <2>5, Advances DEF Stop, ClosePool
    <3>2. open' = (links \ DExtraPorts) \ DCSPorts
      BY <2>5 DEF Stop, ClosePool
    <3>3. open' = {}
      BY <3>2 DEF TypeOK
    <3> QED BY <2>5, <3>1, <3>3
  <2> QED BY <2>1, <2>2, <2>3, <2>4, <2>5 DEF Stop
<1>8. ThreadsDone'
  BY <1>2 DEF ThreadsDone
<1> QED BY <1>3, <1>5, <1>6, <1>7, <1>8

\* The G2 handlers, if the first is there.
LEMMA CloseG2Inv ==
    ASSUME Inv, CloseG2
    PROVE  Inv'
<1> USE Facts DEF Inv
<1>1. UNCHANGED <<remoteVars, killed, family, loopVars, ircVars>> /\ turn' = 1 /\ stage = "closeG2"
  BY DEF CloseG2
<1>2. \/ stage' = "closeIRC" /\ g2' = {}
      \/ stage' = "crashed" /\ g2' = g2
  BY Advances DEF CloseG2
<1>3. RemoteTypeOK' /\ Counted'
  BY <1>1, <1>2, CountedKept
<1>4. TypeOK'
  BY <1>1, <1>2, <1>3, StageNames DEF TypeOK, Over, loopVars, ircVars
<1>5. HasG2'
  BY <1>1, <1>2 DEF HasG2, LoggedOff, Running
<1>6. LinksDone'
  BY <1>1, <1>2 DEF LinksDone, Running, LoggedOff, DExtraTold, AllTold, AllClosed, loopVars
<1>7. ThreadsDone'
  BY <1>1, <1>2 DEF ThreadsDone, Clients
<1> QED BY <1>3, <1>4, <1>5, <1>6, <1>7

\* The threads of the ircDDB clients, one after the other.
LEMMA CloseIRCInv ==
    ASSUME Inv, StopWork \/ Joined
    PROVE  Inv'
<1> USE Facts DEF Inv
<1>1. /\ stage = "closeIRC" /\ stage' = stage /\ turn <= IRCs
      /\ UNCHANGED <<remoteVars, killed, setupVars, loopVars, client, clientFamily>>
  BY DEF StopWork, Joined, ircVars
<1>2. turn \in Clients
  BY <1>1 DEF TypeOK, Clients
<1>3. RemoteTypeOK' /\ Counted'
  BY <1>1, CountedKept
<1>4. turn' \in 1..IRCs + 1 /\ terminate' \in [Clients -> BOOLEAN]
  <2>1. CASE StopWork
    <3>1. turn' = turn /\ terminate' = [terminate EXCEPT ![turn] = TRUE]
      BY <2>1 DEF StopWork
    <3> QED BY <1>2, <3>1 DEF TypeOK
  <2>2. CASE Joined
    <3>1. turn' = turn + 1 /\ terminate' = terminate
      BY <2>2 DEF Joined, ircVars
    <3>2. turn' \in 1..IRCs + 1
      BY <1>2, <3>1 DEF Clients
    <3> QED BY <3>1, <3>2 DEF TypeOK
  <2> QED BY <2>1, <2>2
<1>5. TypeOK'
  BY <1>1, <1>3, <1>4 DEF TypeOK, setupVars, loopVars
<1>6. HasG2' /\ LinksDone'
  BY <1>1 DEF HasG2, LinksDone, Running, LoggedOff, DExtraTold, AllTold, AllClosed, setupVars, loopVars
<1>7. \A i \in Clients : i < turn' => client[i] = "ended"
  <2>1. CASE StopWork
    BY <1>1, <2>1 DEF StopWork, ThreadsDone
  <2>2. CASE Joined
    <3> SUFFICES ASSUME NEW i \in Clients, i < turn'
                 PROVE  client[i] = "ended"
      OBVIOUS
    <3>1. turn' = turn + 1 /\ client[turn] = "ended"
      BY <2>2 DEF Joined
    <3>2. i < turn \/ i = turn
      BY <1>2, <3>1 DEF Clients
    <3> QED BY <1>1, <3>1, <3>2 DEF ThreadsDone
  <2> QED BY <2>1, <2>2
<1>8. ThreadsDone'
  BY <1>1, <1>7 DEF ThreadsDone
<1> QED BY <1>3, <1>5, <1>6, <1>8

\* The end: all threads have been waited for.
LEMMA EndInv ==
    ASSUME Inv, End
    PROVE  Inv'
<1> USE Facts DEF Inv, End
<1>1. RemoteTypeOK' /\ Counted'
  <2>1. ~held' /\ held' \in BOOLEAN /\ phase' = "closed" /\ stage' = "over"
    OBVIOUS
  <2>2. peer' = peer /\ lost' = lost /\ careless' = careless
    OBVIOUS
  <2>3. RemoteTypeOK'
    BY <2>1, <2>2 DEF TypeOK, RemoteTypeOK
  <2>4. phase' \notin {"idle"} \cup Reading \cup Writing /\ stage' \notin {"family", "start"}
    BY <2>1 DEF Reading, Writing
  <2>5. Counted'
    BY <2>1, <2>4 DEF Counted
  <2> QED BY <2>3, <2>5
<1>2. TypeOK'
  BY <1>1 DEF TypeOK, Over, setupVars, loopVars, ircVars
<1>3. HasG2' /\ LinksDone'
  BY DEF HasG2, LinksDone, Running, LoggedOff, DExtraTold, AllTold, AllClosed, setupVars, loopVars
<1>4. ThreadsDone'
  <2>1. \A i \in Clients : i < turn
    BY DEF TypeOK, Clients
  <2> QED BY <2>1 DEF ThreadsDone, ircVars
<1> QED BY <1>1, <1>2, <1>3, <1>4
-----------------------------------------------------------------------------
(***************************************************************************)
(* Theorems.                                                               *)
(***************************************************************************)

\* Nothing happens.
LEMMA StutterInv ==
    ASSUME Inv, UNCHANGED vars
    PROVE  Inv'
<1>1. RemoteTypeOK' /\ Counted'
  BY CountedKept DEF Inv, vars
<1>2. TypeOK'
  BY <1>1 DEF Inv, TypeOK, vars, setupVars, loopVars, ircVars
<1>3. HasG2' /\ LinksDone' /\ ThreadsDone'
  BY DEF Inv, HasG2, LinksDone, ThreadsDone, vars, setupVars, loopVars, ircVars
<1> QED BY <1>1, <1>2, <1>3 DEF Inv

LEMMA NextInv == Inv /\ [Next]_vars => Inv'
<1> SUFFICES ASSUME Inv, [Next]_vars PROVE Inv'
  OBVIOUS
<1>1. CASE MainThread
  BY <1>1, GetFamilyInv, StopEarlyInv, AssertInv, StartInv, TakeTurnInv, LeaveInv, RemoteInv,
     StopInv, CloseG2Inv, CloseIRCInv, EndInv
  DEF MainThread
<1>2. CASE Exception \/ SignalCatch \/ Dies \/ PeerStep
  BY <1>2, LeaveInv, SignalInv, DiesInv, PeerInv
<1>3. CASE IRC
  BY <1>3, IRCInv
<1>4. CASE UNCHANGED vars
  BY <1>4, StutterInv
<1> QED BY <1>1, <1>2, <1>3, <1>4 DEF Next

LEMMA Invariant == Spec => []Inv
<1>1. Init => Inv
  BY InitInv
<1>2. Inv /\ [Next]_vars => Inv'
  BY NextInv
<1> QED BY <1>1, <1>2, PTL DEF Spec

\* The variables have their types: no more sockets of clients are lost than there
\* can be, and no thread is waited for that there is not.
THEOREM TypeCorrect == Spec => []TypeOK
<1>1. Inv => TypeOK
  BY DEF Inv
<1> QED BY <1>1, Invariant, PTL

\* run() never ends with somebody logged on, a link that was not told, a socket that
\* is open or a thread that runs, whichever way the loop was left.
THEOREM CleanStop == Spec => []StopsClean
<1>1. Inv => StopsClean
  <2> SUFFICES ASSUME Inv, stage = "over"
               PROVE  /\ ~users /\ links \subseteq told
                      /\ open = {} /\ g2 = {}
                      /\ \A i \in Clients : client[i] = "ended"
    BY DEF StopsClean
  <2>1. ~users /\ open = {} /\ g2 = {}
    BY DEF Inv, LinksDone, LoggedOff, AllClosed
  <2>2. links \cap DExtraPorts \subseteq told /\ links \cap DCSPorts \subseteq told
    BY DEF Inv, LinksDone, LoggedOff, DExtraTold, AllTold
  <2>3. links \subseteq told
    BY <2>2 DEF Inv, TypeOK, Ports
  <2>4. \A i \in Clients : client[i] = "ended"
    BY DEF Inv, ThreadsDone
  <2> QED BY <2>1, <2>3, <2>4
<1> QED BY <1>1, Invariant, PTL

\* A command that is neither empty, nor a single word, nor halt costs no socket.
THEOREM SocketsCounted == Spec => []LostOnlyByShortCommands
<1>1. Inv => LostOnlyByShortCommands
  <2> SUFFICES ASSUME Inv, phase = "idle"
               PROVE  lost + (IF held THEN 1 ELSE 0) <= careless
    BY DEF LostOnlyByShortCommands
  <2>1. careless = lost + (IF held THEN 1 ELSE 0) /\ careless \in Nat
    BY DEF Inv, Counted, TypeOK, RemoteTypeOK
  <2> QED BY <2>1
<1> QED BY <1>1, Invariant, PTL

\* The process dies of nothing else: the step that closes the first G2 handler is
\* only reached where the assertion has held, and the main loop only reads from a
\* missing second one.
THEOREM KnownDeaths == Spec => DiesOnlyCutOrUnopened
<1> DEFINE Known == \/ stage = "crashed"
                    \/ PipeBreaks \/ IRCPipeBreaks \/ NoAddresses
                    \/ stage = "start" /\ ~killed' /\ 1 \notin g2
                    \/ stage = "loop" /\ ~killed' /\ 1 \in g2 /\ Unopened
<1>1. ASSUME Inv, Next, stage' = "crashed"
      PROVE  Known
  <2>1. CASE GetFamily \/ StopEarly \/ Start \/ LeaveLoop \/ Exception \/ RemoteStep
    BY <1>1, <2>1, StageNames
    DEF GetFamily, StopEarly, Start, LeaveLoop, Exception, RemoteStep, BackToLoop
  <2>2. CASE TakeTurn
    <3>1. stage = "loop" /\ ~killed' /\ Unopened
      BY <1>1, <2>2 DEF TakeTurn
    <3>2. 1 \in g2
      BY <1>1, <3>1 DEF Inv, HasG2, Running
    <3> QED BY <3>1, <3>2
  <2>3. CASE Stop
    <3>1. stage' # "crashed"
      BY <2>3, Advances DEF Stop
    <3> QED BY <1>1, <3>1
  <2>4. CASE CloseG2
    <3>1. stage = "closeG2" /\ 1 \notin g2
      BY <1>1, <2>4, Advances DEF CloseG2
    <3> QED BY <1>1, <3>1 DEF Inv, HasG2, LoggedOff
  <2>5. CASE StopWork \/ Joined \/ End
    BY <1>1, <2>5 DEF StopWork, Joined, End
  <2>6. CASE Dies
    BY <2>6 DEF Dies
  <2>7. CASE SignalCatch \/ PeerStep \/ IRC
    <3>1. stage' = stage
      BY <2>7 DEF SignalCatch, PeerStep, IRC
    <3> QED BY <1>1, <3>1
  <2>8. CASE AssertG2
    BY <2>8 DEF AssertG2
  <2> QED BY <1>1, <2>1, <2>2, <2>3, <2>4, <2>5, <2>6, <2>7, <2>8 DEF Next, MainThread
<1>2. Inv /\ [Next]_vars => [stage' = "crashed" => Known]_vars
  BY <1>1
<1> QED BY <1>2, Invariant, PTL DEF Spec, DiesOnlyCutOrUnopened
=============================================================================
