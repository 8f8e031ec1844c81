--------------------------- MODULE TransportProofs ---------------------------
(***************************************************************************)
(* What holds of Transport for all ports, messages and queue lengths: no   *)
(* index of a pool points to a handler that has been released, a turn of   *)
(* the main loop passes no socket over, a gateway is answered where it was *)
(* last heard, and a datagram is taken for what it was written as.  The    *)
(* pool lemmas are used once for each pool.                                *)
(***************************************************************************)
EXTENDS Transport, TLAPS

X == INSTANCE ProtocolPoolProofs WITH
    Ports <- DExtraPorts, Datagrams <- DExtraDatagrams,
    waiting <- xWaiting, index <- xIndex, found <- xFound, cut <- xCut
C == INSTANCE ProtocolPoolProofs WITH
    Ports <- DCSPorts, Datagrams <- DCSDatagrams,
    waiting <- cWaiting, index <- cIndex, found <- cFound, cut <- cCut

\* The datagram that is processed, and how it was read.
HandedOK ==
    handed # Nothing =>
        CASE stage = "G2" -> /\ handed.datagram \in G2Datagrams
                             /\ G2Kind(handed.datagram) # "NONE"
                             /\ handed.message = G2Read(handed.datagram)
          [] stage = "DExtra" -> /\ handed.datagram \in DExtraDatagrams
                                 /\ DExtraKind(handed.datagram) # "NONE"
                                 /\ handed.message = DExtraRead(handed.datagram)
          [] stage = "DCS" -> /\ handed.datagram \in DCSDatagrams
                              /\ DCSKind(handed.datagram) # "NONE"
                              /\ handed.message = DCSRead(handed.datagram)
          [] OTHER -> FALSE

\* In a round the handlers behind the reader have been read, and the reader stays
\* where it is while a datagram is processed.
DExtraRound ==
    IF stage = "DExtra"
    THEN X!PassedRead /\ (handed # Nothing => xIndex # DExtra!End)
    ELSE xIndex = DExtra!End
DCSRound ==
    IF stage = "DCS"
    THEN C!PassedRead /\ (handed # Nothing => cIndex # DCS!End)
    ELSE cIndex = DCS!End

Control ==
    /\ stage \in Stages
    /\ handed = Nothing \/ (handed.from = stage /\ stage \in {"G2", "DExtra", "DCS"})
    /\ HandedOK

SocketOK == G2!TypeOK /\ G2!AnsweredWhereHeard

Inv ==
    /\ Control
    /\ X!PoolOK /\ DExtraRound
    /\ C!PoolOK /\ DCSRound
    /\ SocketOK
-----------------------------------------------------------------------------
(***************************************************************************)
(* A pool of Transport is the pool the lemmas are about.                   *)
(***************************************************************************)

LEMMA DExtraPool ==
    /\ DExtra!TypeOK = X!TypeOK /\ DExtra!IndexLive = X!IndexLive
    /\ DExtra!open = X!open /\ DExtra!End = X!End
    /\ DExtra!Init = X!Init /\ DExtra!Begin = X!Begin
    /\ DExtra!Pass = X!Pass /\ DExtra!Cut = X!Cut /\ DExtra!Finish = X!Finish
    /\ dextraVars = X!poolVars
    /\ \A p : DExtra!getHandler(p) = X!getHandler(p)
    /\ \A S : DExtra!release(S) = X!release(S) /\ DExtra!Resume(S) = X!Resume(S)
    /\ \A d : DExtra!Take(d) = X!Take(d)
    /\ \A p, d : DExtra!Arrive(p, d) = X!Arrive(p, d)
    /\ X!PortNumbers
BY TransportAssumption
   DEF DExtra!TypeOK, DExtra!IndexLive, DExtra!open, DExtra!End, DExtra!Init,
       DExtra!Begin, DExtra!Pass, DExtra!Cut, DExtra!Finish, DExtra!getHandler, DExtra!release,
       DExtra!Resume, DExtra!Take, DExtra!Arrive, DExtra!Entered, DExtra!From,
       DExtra!Passed, DExtra!Released, DExtra!Resumed, DExtra!Restrict,
       X!TypeOK, X!IndexLive, X!open, X!End, X!Init,
       X!Begin, X!Pass, X!Cut, X!Finish, X!getHandler, X!release,
       X!Resume, X!Take, X!Arrive, X!Entered, X!From,
       X!Passed, X!Released, X!Resumed, X!Restrict, X!poolVars, dextraVars, X!PortNumbers

LEMMA DCSPool ==
    /\ DCS!TypeOK = C!TypeOK /\ DCS!IndexLive = C!IndexLive
    /\ DCS!open = C!open /\ DCS!End = C!End
    /\ DCS!Init = C!Init /\ DCS!Begin = C!Begin
    /\ DCS!Pass = C!Pass /\ DCS!Cut = C!Cut /\ DCS!Finish = C!Finish
    /\ dcsVars = C!poolVars
    /\ \A p : DCS!getHandler(p) = C!getHandler(p)
    /\ \A S : DCS!release(S) = C!release(S) /\ DCS!Resume(S) = C!Resume(S)
    /\ \A d : DCS!Take(d) = C!Take(d)
    /\ \A p, d : DCS!Arrive(p, d) = C!Arrive(p, d)
    /\ C!PortNumbers
BY TransportAssumption
   DEF DCS!TypeOK, DCS!IndexLive, DCS!open, DCS!End, DCS!Init,
       DCS!Begin, DCS!Pass, DCS!Cut, DCS!Finish, DCS!getHandler, DCS!release,
       DCS!Resume, DCS!Take, DCS!Arrive, DCS!Entered, DCS!From,
       DCS!Passed, DCS!Released, DCS!Resumed, DCS!Restrict,
       C!TypeOK, C!IndexLive, C!open, C!End, C!Init,
       C!Begin, C!Pass, C!Cut, C!Finish, C!getHandler, C!release,
       C!Resume, C!Take, C!Arrive, C!Entered, C!From,
       C!Passed, C!Released, C!Resumed, C!Restrict, C!poolVars, dcsVars, C!PortNumbers

LEMMA DExtraKept ==
    ASSUME X!PoolOK, UNCHANGED dextraVars
    PROVE  X!PoolOK' /\ xIndex' = xIndex /\ (X!PassedRead => X!PassedRead')
<1>1. UNCHANGED X!poolVars
  BY DExtraPool DEF dextraVars, X!poolVars
<1>. QED BY <1>1, X!PoolUnchanged

LEMMA DCSKept ==
    ASSUME C!PoolOK, UNCHANGED dcsVars
    PROVE  C!PoolOK' /\ cIndex' = cIndex /\ (C!PassedRead => C!PassedRead')
<1>1. UNCHANGED C!poolVars
  BY DCSPool DEF dcsVars, C!poolVars
<1>. QED BY <1>1, C!PoolUnchanged

\* A pool that is left alone keeps its part of the invariant, if its round is
\* not begun or ended and no datagram of it is handed out.
LEMMA DExtraLeft ==
    ASSUME X!PoolOK, DExtraRound, UNCHANGED dextraVars,
           stage' = "DExtra" <=> stage = "DExtra",
           stage' = "DExtra" => handed' = Nothing \/ handed' = handed
    PROVE  X!PoolOK' /\ DExtraRound'
BY DExtraKept DEF DExtraRound, DExtra!End

LEMMA DCSLeft ==
    ASSUME C!PoolOK, DCSRound, UNCHANGED dcsVars,
           stage' = "DCS" <=> stage = "DCS",
           stage' = "DCS" => handed' = Nothing \/ handed' = handed
    PROVE  C!PoolOK' /\ DCSRound'
BY DCSKept DEF DCSRound, DCS!End

LEMMA SocketKept ==
    ASSUME SocketOK, UNCHANGED socketVars
    PROVE  SocketOK'
BY DEF SocketOK, socketVars, G2!TypeOK, G2!AnsweredWhereHeard, G2!PortOf

LEMMA ControlKept ==
    ASSUME Control, stage' = stage, handed' = handed
    PROVE  Control'
BY DEF Control, HandedOK

\* Between two datagrams the stage may be any.
LEMMA ControlIdle ==
    ASSUME stage' \in Stages, handed' = Nothing
    PROVE  Control'
BY DEF Control, HandedOK
-----------------------------------------------------------------------------
(***************************************************************************)
(* The G2 socket.                                                          *)
(***************************************************************************)

\* A packet takes its port into the map exactly if the map would be wrong.
LEMMA G2Take ==
    ASSUME SocketOK, NEW d, G2!readPackets(d)
    PROVE  SocketOK' /\ d \in G2Datagrams
<1> DEFINE p == Head(inbox)
<1>1. p \in G2!Incoming /\ Tail(inbox) \in Seq(G2!Incoming) /\ d = p.data
  BY DEF SocketOK, G2!TypeOK, G2!readPackets
<1>2. p.addr \in Addresses /\ p.port \in G2Ports /\ d \in G2Datagrams
  BY <1>1 DEF G2!Incoming
<1>3. /\ inbox' = Tail(inbox)
      /\ heard' = [heard EXCEPT ![p.addr] = p.port]
      /\ portmap' = IF G2!Saves(p.addr, p.port)
                    THEN [a \in DOMAIN portmap \cup {p.addr} |->
                             IF a = p.addr THEN p.port ELSE portmap[a]]
                    ELSE portmap
  BY DEF G2!readPackets
<1>. HIDE DEF p
<1>4. /\ portmap \in [DOMAIN portmap -> G2Ports] /\ DOMAIN portmap \subseteq Addresses
      /\ heard \in [Addresses -> G2Ports]
      /\ \A a \in Addresses : heard[a] = IF a \in DOMAIN portmap THEN portmap[a] ELSE StandardPort
  BY DEF SocketOK, G2!TypeOK, G2!AnsweredWhereHeard, G2!PortOf
<1>5. heard' \in [Addresses -> G2Ports]
  BY <1>2, <1>3, <1>4
<1>6. CASE G2!Saves(p.addr, p.port)
  <2>1. portmap' = [a \in DOMAIN portmap \cup {p.addr} |->
                       IF a = p.addr THEN p.port ELSE portmap[a]]
    BY <1>3, <1>6
  <2>2. /\ DOMAIN portmap' = DOMAIN portmap \cup {p.addr}
        /\ \A a \in DOMAIN portmap' : portmap'[a] = IF a = p.addr THEN p.port ELSE portmap[a]
    BY <2>1
  <2>3. portmap' \in [DOMAIN portmap' -> G2Ports] /\ DOMAIN portmap' \subseteq Addresses
    BY <1>2, <1>4, <2>1, <2>2
  <2>4. \A a \in Addresses : heard'[a] = IF a \in DOMAIN portmap' THEN portmap'[a] ELSE StandardPort
    BY <1>2, <1>3, <1>4, <2>2
  <2>. QED BY <1>1, <1>2, <1>3, <1>5, <2>3, <2>4
           DEF SocketOK, G2!TypeOK, G2!AnsweredWhereHeard, G2!PortOf
<1>7. CASE ~ G2!Saves(p.addr, p.port)
  <2>1. portmap' = portmap /\ p.addr \notin DOMAIN portmap /\ p.port = StandardPort
    BY <1>3, <1>7 DEF G2!Saves
  <2>2. \A a \in Addresses : heard'[a] = IF a \in DOMAIN portmap' THEN portmap'[a] ELSE StandardPort
    BY <1>2, <1>3, <1>4, <2>1
  <2>. QED BY <1>1, <1>2, <1>3, <1>4, <1>5, <2>1, <2>2
           DEF SocketOK, G2!TypeOK, G2!AnsweredWhereHeard, G2!PortOf
<1>. QED BY <1>6, <1>7

\* A read that fails, or takes out an empty datagram, leaves the map as it is.
LEMMA G2CutShort ==
    ASSUME SocketOK, G2!cutShort
    PROVE  SocketOK'
<1>1. inbox' \in Seq(G2!Incoming)
  BY DEF SocketOK, G2!TypeOK, G2!cutShort
<1>. QED BY <1>1 DEF SocketOK, G2!cutShort, G2!TypeOK, G2!AnsweredWhereHeard, G2!PortOf

LEMMA G2Arrival ==
    ASSUME SocketOK, NEW p \in G2!Incoming, G2!Arrive(p)
    PROVE  SocketOK'
BY DEF SocketOK, G2!Arrive, G2!TypeOK, G2!AnsweredWhereHeard, G2!PortOf
-----------------------------------------------------------------------------
(***************************************************************************)
(* The actions.                                                            *)
(***************************************************************************)

\* What is handed out is what was read.
LEMMA Handing ==
    ASSUME NEW d, NEW kind, NEW message, stage \in {"G2", "DExtra", "DCS"},
           HandOut(d, kind, message)
    PROVE  \/ handed' = Nothing
           \/ /\ kind # "NONE" /\ handed'.from = stage
              /\ handed'.datagram = d /\ handed'.message = message
BY DEF HandOut

LEMMA ReadG2Keeps ==
    ASSUME Inv, ReadG2
    PROVE  Inv'
<1>1. stage = "G2" /\ stage' = stage /\ UNCHANGED <<dextraVars, dcsVars>>
  BY DEF ReadG2
<1>2. PICK d \in G2Datagrams :
          /\ G2!readPackets(d)
          /\ HandOut(d, G2Kind(d), IF G2Kind(d) = "NONE" THEN {} ELSE G2Read(d))
  BY DEF ReadG2
<1>3. SocketOK'
  BY <1>2, G2Take DEF Inv
<1>4. \/ handed' = Nothing
      \/ /\ G2Kind(d) # "NONE" /\ handed'.from = stage
         /\ handed'.datagram = d /\ handed'.message = G2Read(d)
  BY <1>1, <1>2, Handing
<1>5. Control'
  BY <1>1, <1>4 DEF Control, HandedOK, Stages
<1>6. X!PoolOK' /\ DExtraRound' /\ C!PoolOK' /\ DCSRound'
  BY <1>1, DExtraLeft, DCSLeft DEF Inv
<1>. QED BY <1>3, <1>5, <1>6 DEF Inv

LEMMA ProcessG2Keeps ==
    ASSUME Inv, ProcessG2
    PROVE  Inv'
<1>1. /\ stage = "G2" /\ stage' = stage /\ handed' = Nothing
      /\ UNCHANGED <<dextraVars, dcsVars, socketVars>>
  BY DEF ProcessG2
<1>. QED BY <1>1, ControlIdle, DExtraLeft, DCSLeft, SocketKept DEF Inv, Control

LEMMA G2DoneKeeps ==
    ASSUME Inv, G2Done
    PROVE  Inv'
<1>1. /\ stage = "G2" /\ stage' = "DExtra" /\ handed = Nothing /\ handed' = Nothing
      /\ X!Begin /\ UNCHANGED dcsVars
  BY DExtraPool DEF G2Done
<1>2. X!PoolOK /\ xIndex = X!End
  BY <1>1, DExtraPool DEF Inv, DExtraRound
<1>3. X!PoolOK' /\ X!PassedRead'
  BY <1>1, <1>2, DExtraPool, X!BeginOK
<1>4. DExtraRound'
  BY <1>1, <1>3 DEF DExtraRound
<1>5. SocketOK'
  BY SocketKept, G2CutShort DEF Inv, G2Done
<1>. QED BY <1>1, <1>3, <1>4, <1>5, ControlIdle, DCSLeft DEF Inv, Stages

LEMMA ReadDExtraKeeps ==
    ASSUME Inv, ReadDExtra
    PROVE  Inv'
<1>1. stage = "DExtra" /\ stage' = stage /\ UNCHANGED <<dcsVars, socketVars>>
  BY DEF ReadDExtra
<1>2. PICK d \in DExtraDatagrams :
          /\ DExtra!Take(d)
          /\ HandOut(d, DExtraKind(d), IF DExtraKind(d) = "NONE" THEN {} ELSE DExtraRead(d))
  BY DEF ReadDExtra
<1>3. X!Take(d) /\ X!PoolOK /\ X!PassedRead
  BY <1>1, <1>2, DExtraPool DEF Inv, DExtraRound
<1>4. X!PoolOK' /\ X!PassedRead' /\ xIndex' # X!End
  BY <1>3, X!TakeOK
<1>5. DExtraRound'
  BY <1>1, <1>4, DExtraPool DEF DExtraRound, DExtra!End, X!End
<1>6. \/ handed' = Nothing
      \/ /\ DExtraKind(d) # "NONE" /\ handed'.from = stage
         /\ handed'.datagram = d /\ handed'.message = DExtraRead(d)
  BY <1>1, <1>2, Handing
<1>7. Control'
  BY <1>1, <1>6 DEF Control, HandedOK, Stages
<1>. QED BY <1>1, <1>4, <1>5, <1>7, DCSLeft, SocketKept DEF Inv

\* The links a packet may end are links of the pool.
LEMMA ProcessDExtraKeeps ==
    ASSUME Inv, ProcessDExtra
    PROVE  Inv'
<1>1. /\ stage = "DExtra" /\ stage' = stage /\ handed # Nothing /\ handed' = Nothing
      /\ UNCHANGED <<dcsVars, socketVars>>
  BY DEF ProcessDExtra
<1>2. PICK S \in EndedByDExtra : X!Resume(S)
  BY DExtraPool DEF ProcessDExtra
<1>3. X!PoolOK /\ X!PassedRead /\ xIndex # X!End
  BY <1>1, DExtraPool DEF Inv, DExtraRound
<1>4. xIndex \in X!open
  BY <1>3 DEF X!PoolOK, X!IndexLive
<1>5. S \in SUBSET X!open
  BY <1>2, <1>4, DExtraPool DEF EndedByDExtra
<1>6. X!PoolOK' /\ X!PassedRead'
  BY <1>2, <1>3, <1>5, DExtraPool, X!ResumeOK
<1>7. DExtraRound'
  BY <1>1, <1>6 DEF DExtraRound
<1>. QED BY <1>1, <1>6, <1>7, ControlIdle, DCSLeft, SocketKept DEF Inv, Control

LEMMA PassDExtraKeeps ==
    ASSUME Inv, PassDExtra
    PROVE  Inv'
<1>1. /\ stage = "DExtra" /\ stage' = stage /\ handed = Nothing /\ handed' = Nothing
      /\ X!Pass \/ X!Cut
      /\ UNCHANGED <<dcsVars, socketVars>>
  BY DExtraPool DEF PassDExtra
<1>2. X!PoolOK /\ X!PassedRead
  BY <1>1 DEF Inv, DExtraRound
<1>3. X!PoolOK' /\ X!PassedRead'
  BY <1>1, <1>2, DExtraPool, X!PassOK, X!CutOK
<1>4. DExtraRound'
  BY <1>1, <1>3 DEF DExtraRound
<1>. QED BY <1>1, <1>3, <1>4, ControlIdle, DCSLeft, SocketKept DEF Inv, Control

LEMMA DExtraDoneKeeps ==
    ASSUME Inv, DExtraDone
    PROVE  Inv' /\ DExtra!open \subseteq xFound \cup xCut
<1>1. /\ stage = "DExtra" /\ stage' = "DCS" /\ handed = Nothing /\ handed' = Nothing
      /\ X!Finish /\ C!Begin /\ UNCHANGED socketVars
  BY DExtraPool, DCSPool DEF DExtraDone
<1>2. X!PoolOK' /\ xIndex' = X!End /\ X!open \subseteq xFound \cup xCut
  BY <1>1, X!FinishOK DEF Inv, DExtraRound
<1>3. DExtraRound'
  BY <1>1, <1>2, DExtraPool DEF DExtraRound, DExtra!End, X!End
<1>4. C!PoolOK /\ cIndex = C!End
  BY <1>1, DCSPool DEF Inv, DCSRound
<1>5. C!PoolOK' /\ C!PassedRead'
  BY <1>1, <1>4, DCSPool, C!BeginOK
<1>6. DCSRound'
  BY <1>1, <1>5 DEF DCSRound
<1>7. DExtra!open \subseteq xFound \cup xCut
  BY <1>2, DExtraPool
<1>. QED BY <1>1, <1>2, <1>3, <1>5, <1>6, <1>7, ControlIdle, SocketKept DEF Inv, Stages

LEMMA ReadDCSKeeps ==
    ASSUME Inv, ReadDCS
    PROVE  Inv'
<1>1. stage = "DCS" /\ stage' = stage /\ UNCHANGED <<dextraVars, socketVars>>
  BY DEF ReadDCS
<1>2. PICK d \in DCSDatagrams :
          /\ DCS!Take(d)
          /\ HandOut(d, DCSKind(d), IF DCSKind(d) = "NONE" THEN {} ELSE DCSRead(d))
  BY DEF ReadDCS
<1>3. C!Take(d) /\ C!PoolOK /\ C!PassedRead
  BY <1>1, <1>2, DCSPool DEF Inv, DCSRound
<1>4. C!PoolOK' /\ C!PassedRead' /\ cIndex' # C!End
  BY <1>3, C!TakeOK
<1>5. DCSRound'
  BY <1>1, <1>4, DCSPool DEF DCSRound, DCS!End, C!End
<1>6. \/ handed' = Nothing
      \/ /\ DCSKind(d) # "NONE" /\ handed'.from = stage
         /\ handed'.datagram = d /\ handed'.message = DCSRead(d)
  BY <1>1, <1>2, Handing
<1>7. Control'
  BY <1>1, <1>6 DEF Control, HandedOK, Stages
<1>. QED BY <1>1, <1>4, <1>5, <1>7, DExtraLeft, SocketKept DEF Inv

LEMMA ProcessDCSKeeps ==
    ASSUME Inv, ProcessDCS
    PROVE  Inv'
<1>1. /\ stage = "DCS" /\ stage' = stage /\ handed # Nothing /\ handed' = Nothing
      /\ UNCHANGED <<dextraVars, socketVars>>
  BY DEF ProcessDCS
<1>2. PICK S \in EndedByDCS : C!Resume(S)
  BY DCSPool DEF ProcessDCS
<1>3. C!PoolOK /\ C!PassedRead /\ cIndex # C!End
  BY <1>1, DCSPool DEF Inv, DCSRound
<1>4. cIndex \in C!open
  BY <1>3 DEF C!PoolOK, C!IndexLive
<1>5. S \in SUBSET C!open
  BY <1>2, <1>4 DEF EndedByDCS
<1>6. C!PoolOK' /\ C!PassedRead'
  BY <1>2, <1>3, <1>5, DCSPool, C!ResumeOK
<1>7. DCSRound'
  BY <1>1, <1>6 DEF DCSRound
<1>. QED BY <1>1, <1>6, <1>7, ControlIdle, DExtraLeft, SocketKept DEF Inv, Control

LEMMA PassDCSKeeps ==
    ASSUME Inv, PassDCS
    PROVE  Inv'
<1>1. /\ stage = "DCS" /\ stage' = stage /\ handed = Nothing /\ handed' = Nothing
      /\ C!Pass \/ C!Cut
      /\ UNCHANGED <<dextraVars, socketVars>>
  BY DCSPool DEF PassDCS
<1>2. C!PoolOK /\ C!PassedRead
  BY <1>1 DEF Inv, DCSRound
<1>3. C!PoolOK' /\ C!PassedRead'
  BY <1>1, <1>2, DCSPool, C!PassOK, C!CutOK
<1>4. DCSRound'
  BY <1>1, <1>3 DEF DCSRound
<1>. QED BY <1>1, <1>3, <1>4, ControlIdle, DExtraLeft, SocketKept DEF Inv, Control

LEMMA DCSDoneKeeps ==
    ASSUME Inv, DCSDone
    PROVE  Inv' /\ DCS!open \subseteq cFound \cup cCut
<1>1. /\ stage = "DCS" /\ stage' = "clock" /\ handed = Nothing /\ handed' = Nothing
      /\ C!Finish /\ UNCHANGED <<dextraVars, socketVars>>
  BY DCSPool DEF DCSDone
<1>2. C!PoolOK' /\ cIndex' = C!End /\ C!open \subseteq cFound \cup cCut
  BY <1>1, C!FinishOK DEF Inv, DCSRound
<1>3. DCSRound'
  BY <1>1, <1>2, DCSPool DEF DCSRound, DCS!End, C!End
<1>4. DCS!open \subseteq cFound \cup cCut
  BY <1>2, DCSPool
<1>. QED BY <1>1, <1>2, <1>3, <1>4, ControlIdle, DExtraLeft, SocketKept DEF Inv, Stages

\* The remote control and the clocks act between two rounds.
LEMMA LinkKeeps ==
    ASSUME Inv, Link
    PROVE  Inv'
<1>1. stage = "clock" /\ stage' = stage /\ handed' = handed /\ UNCHANGED socketVars
  BY DEF Link
<1>2. Control' /\ SocketOK'
  BY <1>1, ControlKept, SocketKept DEF Inv
<1>3. CASE \E p \in DExtraPorts : DExtra!getHandler(p) /\ UNCHANGED dcsVars
  <2>1. PICK p \in DExtraPorts : X!getHandler(p)
    BY <1>3, DExtraPool
  <2>2. X!PoolOK' /\ xIndex' = xIndex
    BY <2>1, X!GetHandlerOK DEF Inv
  <2>3. DExtraRound'
    BY <1>1, <2>2 DEF Inv, DExtraRound, DExtra!End
  <2>. QED BY <1>1, <1>2, <1>3, <2>2, <2>3, DCSLeft DEF Inv
<1>4. CASE \E p \in DCSPorts : DCS!getHandler(p) /\ UNCHANGED dextraVars
  <2>1. PICK p \in DCSPorts : C!getHandler(p)
    BY <1>4, DCSPool
  <2>2. C!PoolOK' /\ cIndex' = cIndex
    BY <2>1, C!GetHandlerOK DEF Inv
  <2>3. DCSRound'
    BY <1>1, <2>2 DEF Inv, DCSRound, DCS!End
  <2>. QED BY <1>1, <1>2, <1>4, <2>2, <2>3, DExtraLeft DEF Inv
<1>. QED BY <1>3, <1>4 DEF Link

LEMMA UnlinkKeeps ==
    ASSUME Inv, Unlink
    PROVE  Inv'
<1>1. stage = "clock" /\ stage' = stage /\ handed' = handed /\ UNCHANGED socketVars
  BY DEF Unlink
<1>2. Control' /\ SocketOK'
  BY <1>1, ControlKept, SocketKept DEF Inv
<1>3. CASE \E p \in DExtra!open : DExtra!release({p}) /\ UNCHANGED dcsVars
  <2>1. PICK p \in X!open : X!release({p})
    BY <1>3, DExtraPool
  <2>2. X!PoolOK' /\ xIndex' = X!End
    BY <1>1, <2>1, DExtraPool, X!ReleaseOK DEF Inv, DExtraRound
  <2>3. DExtraRound'
    BY <1>1, <2>2, DExtraPool DEF DExtraRound, DExtra!End, X!End
  <2>. QED BY <1>1, <1>2, <1>3, <2>2, <2>3, DCSLeft DEF Inv
<1>4. CASE \E p \in DCS!open : DCS!release({p}) /\ UNCHANGED dextraVars
  <2>1. PICK p \in C!open : C!release({p})
    BY <1>4, DCSPool
  <2>2. C!PoolOK' /\ cIndex' = C!End
    BY <1>1, <2>1, DCSPool, C!ReleaseOK DEF Inv, DCSRound
  <2>3. DCSRound'
    BY <1>1, <2>2, DCSPool DEF DCSRound, DCS!End, C!End
  <2>. QED BY <1>1, <1>2, <1>4, <2>2, <2>3, DExtraLeft DEF Inv
<1>. QED BY <1>3, <1>4 DEF Unlink

LEMMA NextTurnKeeps ==
    ASSUME Inv, NextTurn
    PROVE  Inv'
<1>1. /\ stage = "clock" /\ stage' = "G2" /\ handed' = handed
      /\ UNCHANGED <<dextraVars, dcsVars, socketVars>>
  BY DEF NextTurn
<1>2. handed' = Nothing
  BY <1>1 DEF Inv, Control
<1>. QED BY <1>1, <1>2, ControlIdle, DExtraLeft, DCSLeft, SocketKept DEF Inv, Stages

\* Datagrams arrive at any moment.
LEMMA FromReflectorKeeps ==
    ASSUME Inv, FromReflector
    PROVE  Inv'
<1>1. stage' = stage /\ handed' = handed /\ UNCHANGED socketVars
  BY DEF FromReflector
<1>2. Control' /\ SocketOK'
  BY <1>1, ControlKept, SocketKept DEF Inv
<1>3. CASE (\E p \in DExtraPorts, d \in DExtraDatagrams : DExtra!Arrive(p, d)) /\ UNCHANGED dcsVars
  <2>1. PICK p \in DExtraPorts, d \in DExtraDatagrams : X!Arrive(p, d)
    BY <1>3, DExtraPool
  <2>2. X!PoolOK' /\ xIndex' = xIndex /\ (X!PassedRead => X!PassedRead')
    BY <2>1, X!ArriveOK DEF Inv
  <2>3. DExtraRound'
    BY <1>1, <2>2 DEF Inv, DExtraRound, DExtra!End
  <2>. QED BY <1>1, <1>2, <1>3, <2>2, <2>3, DCSLeft DEF Inv
<1>4. CASE (\E p \in DCSPorts, d \in DCSDatagrams : DCS!Arrive(p, d)) /\ UNCHANGED dextraVars
  <2>1. PICK p \in DCSPorts, d \in DCSDatagrams : C!Arrive(p, d)
    BY <1>4, DCSPool
  <2>2. C!PoolOK' /\ cIndex' = cIndex /\ (C!PassedRead => C!PassedRead')
    BY <2>1, C!ArriveOK DEF Inv
  <2>3. DCSRound'
    BY <1>1, <2>2 DEF Inv, DCSRound, DCS!End
  <2>. QED BY <1>1, <1>2, <1>4, <2>2, <2>3, DExtraLeft DEF Inv
<1>. QED BY <1>3, <1>4 DEF FromReflector

LEMMA FromGatewayKeeps ==
    ASSUME Inv, FromGateway
    PROVE  Inv'
<1>1. stage' = stage /\ handed' = handed /\ UNCHANGED <<dextraVars, dcsVars>>
  BY DEF FromGateway
<1>2. SocketOK'
  BY G2Arrival DEF FromGateway, Inv
<1>. QED BY <1>1, <1>2, ControlKept, DExtraLeft, DCSLeft DEF Inv
-----------------------------------------------------------------------------
(***************************************************************************)
(* The specification.                                                      *)
(***************************************************************************)

LEMMA InvInitially == Init => Inv
<1>. SUFFICES ASSUME Init PROVE Inv
  OBVIOUS
<1>1. Control
  BY DEF Init, Control, HandedOK, Stages
<1>2. X!PoolOK /\ xIndex = X!End /\ C!PoolOK /\ cIndex = C!End
  BY DExtraPool, DCSPool, X!InitOK, C!InitOK DEF Init
<1>3. DExtraRound /\ DCSRound
  BY <1>2, DExtraPool, DCSPool DEF Init, DExtraRound, DCSRound
<1>4. SocketOK
  BY TransportAssumption
     DEF Init, SocketOK, G2!Init, G2!TypeOK, G2!AnsweredWhereHeard, G2!PortOf
<1>. QED BY <1>1, <1>2, <1>3, <1>4 DEF Inv

LEMMA InvInductive == Inv /\ [Next]_vars => Inv'
<1>. SUFFICES ASSUME Inv, [Next]_vars PROVE Inv'
  OBVIOUS
<1>1. CASE Reading
  BY <1>1, ReadG2Keeps, ProcessG2Keeps, G2DoneKeeps, ReadDExtraKeeps, ProcessDExtraKeeps,
     PassDExtraKeeps, DExtraDoneKeeps, ReadDCSKeeps, ProcessDCSKeeps, PassDCSKeeps,
     DCSDoneKeeps DEF Reading
<1>2. CASE NextTurn
  BY <1>2, NextTurnKeeps
<1>3. CASE Link \/ Unlink
  BY <1>3, LinkKeeps, UnlinkKeeps
<1>4. CASE Network
  BY <1>4, FromReflectorKeeps, FromGatewayKeeps DEF Network
<1>5. CASE UNCHANGED vars
  BY <1>5, ControlKept, DExtraLeft, DCSLeft, SocketKept DEF Inv, vars
<1>. QED BY <1>1, <1>2, <1>3, <1>4, <1>5 DEF Next, MainLoop

THEOREM InvHolds == Spec => []Inv
<1>. QED BY InvInitially, InvInductive, PTL DEF Spec

\* Every variable keeps its type, the queues of the sockets and the datagram in
\* hand among them.
THEOREM TypeCorrect == Spec => []TypeOK
<1>1. Inv => TypeOK
  BY DExtraPool, DCSPool DEF Inv, TypeOK, Control, X!PoolOK, C!PoolOK, SocketOK
<1>. QED BY <1>1, InvHolds, PTL

\* m_index of a pool never points to a handler that has been released, and no
\* round is left half done.
THEOREM IndicesAlwaysLive == Spec => []IndicesLive
<1>1. Inv => IndicesLive
  BY DExtraPool, DCSPool
     DEF Inv, IndicesLive, X!PoolOK, C!PoolOK, DExtraRound, DCSRound
<1>. QED BY <1>1, InvHolds, PTL

\* A turn of the main loop leaves a pool only after it has read the socket of every
\* link until it was empty, or until a read of that socket failed or brought an
\* empty datagram.
THEOREM EveryRoundReadsAll == Spec => RoundsReadAll
<1>1. Inv /\ [Next]_vars =>
          [/\ DExtraDone => DExtra!open \subseteq xFound \cup xCut
           /\ DCSDone => DCS!open \subseteq cFound \cup cCut]_vars
  BY DExtraDoneKeeps, DCSDoneKeeps
<1>. QED BY <1>1, InvHolds, PTL DEF Spec, RoundsReadAll

\* A gateway is spoken to at the port it was last heard from.
THEOREM AlwaysAnsweredWhereHeard == Spec => []AnsweredWhereHeard
<1>1. Inv => AnsweredWhereHeard
  BY DEF Inv, SocketOK, AnsweredWhereHeard
<1>. QED BY <1>1, InvHolds, PTL
-----------------------------------------------------------------------------
(***************************************************************************)
(* Reading what was written.                                               *)
(***************************************************************************)

\* The id as a DExtra handler reads it, with its bytes the wrong way round.
High(i) == i \div 256
Low(i) == i % 256
Joined(high, low) == 256 * high + low
Swapped(i) == Joined(Low(i), High(i))

LEMMA HighAndLow ==
    ASSUME NEW i \in StreamIds
    PROVE  /\ High(i) \in 0 .. 255 /\ Low(i) \in 0 .. 255
           /\ Joined(High(i), Low(i)) = i
<1>1. i \in Int /\ 0 <= i /\ i < 65536
  BY SMT DEF StreamIds
<1>2. i \div 256 \in Int /\ 0 <= i \div 256 /\ i \div 256 <= 255
  BY <1>1, SMT
<1>3. i % 256 \in Int /\ 0 <= i % 256 /\ i % 256 <= 255
  BY <1>1, SMT
<1>4. i % 256 = i - 256 * (i \div 256)
  BY <1>1, SMT
<1>5. \A q, r \in Int : r = i - 256 * q => Joined(q, r) = i
  BY <1>1, SMT DEF Joined
<1>6. Joined(i \div 256, i % 256) = i
  BY <1>2, <1>3, <1>4, <1>5
<1>. QED BY <1>2, <1>3, <1>6 DEF High, Low

LEMMA SwappedDiffers ==
    ASSUME NEW i \in StreamIds, NEW j \in StreamIds, Swapped(i) = Swapped(j)
    PROVE  i = j
<1>1. PICK a \in 0 .. 255, b \in 0 .. 255 : a = Low(i) /\ b = High(i)
  BY HighAndLow
<1>2. PICK c \in 0 .. 255, d \in 0 .. 255 : c = Low(j) /\ d = High(j)
  BY HighAndLow
<1>3. 256 * a + b = 256 * c + d
  BY <1>1, <1>2 DEF Swapped, Joined
<1>4. a = c
  BY <1>3, SMT
<1>5. b = d
  BY <1>3, SMT
<1>6. Low(i) = Low(j) /\ High(i) = High(j)
  BY <1>1, <1>2, <1>4, <1>5
<1>7. Joined(High(i), Low(i)) = Joined(High(j), Low(j))
  BY <1>6
<1>. QED BY <1>7, HighAndLow

\* The two bytes make up the id, in the order of G2 and of DCS.
LEMMA IdBytes ==
    ASSUME NEW i \in StreamIds
    PROVE  /\ IdOf(HighFirst(i)) = i
           /\ IdOfLowFirst(LowFirst(i)) = i
           /\ IdOf(LowFirst(i)) = Swapped(i)
<1>1. /\ HighFirst(i)[1] = High(i) /\ HighFirst(i)[2] = Low(i)
      /\ LowFirst(i)[1] = Low(i) /\ LowFirst(i)[2] = High(i)
  BY DEF HighFirst, LowFirst, High, Low
<1>2. High(i) \in 0 .. 255 /\ Low(i) \in 0 .. 255
  BY HighAndLow
<1>3. High(i) * 256 + Low(i) = Joined(High(i), Low(i))
  BY <1>2, SMT DEF Joined
<1>4. Low(i) * 256 + High(i) = Joined(Low(i), High(i))
  BY <1>2, SMT DEF Joined
<1>. QED BY <1>1, <1>3, <1>4, HighAndLow DEF IdOf, IdOfLowFirst, Swapped

LEMMA EndMark ==
    ASSUME NEW end \in BOOLEAN
    PROVE  IsEnd(Seq14(end)) <=> end
BY DEF Seq14, IsEnd

LEMMA SequenceNumber == \A end : Seq14(end) \in 0 .. 127
BY DEF Seq14

\* What a handler makes of a datagram.
LEMMA G2Reads ==
    ASSUME NEW d, d.mark = "DSVT"
    PROVE  /\ d.len = 56 /\ d.byte14 = 128 => G2Read(d) = HeaderMsg(IdOf(d.id), d.call)
           /\ d.len = 27 /\ d.byte14 \in 0 .. 127 => G2Read(d) = VoiceMsg(IdOf(d.id), IsEnd(d.byte14))
<1>1. d.len = 56 /\ d.byte14 = 128 => G2Kind(d) = "HEADER"
  BY DEF G2Kind
<1>2. d.len = 27 /\ d.byte14 \in 0 .. 127 => G2Kind(d) = "AMBE"
  BY DEF G2Kind
<1>. QED BY <1>1, <1>2 DEF G2Read

LEMMA DExtraReads ==
    ASSUME NEW d
    PROVE  /\ d.mark = "DSVT" /\ d.len = 56 /\ d.type = 16 /\ d.byte14 = 128 =>
                  DExtraRead(d) = HeaderMsg(IdOf(d.id), d.call)
           /\ d.mark = "DSVT" /\ d.len = 27 /\ d.type = 32 =>
                  DExtraRead(d) = VoiceMsg(IdOf(d.id), IsEnd(d.byte14))
           /\ d.mark # "DSVT" /\ d.len = 9 => DExtraRead(d) = PollMsg(d.mark)
           /\ d.mark # "DSVT" /\ d.len \in {11, 14} =>
                  DExtraRead(d) = ConnectMsg(DExtraConnectType(d), d.mark, d.module, d.target)
<1>1. /\ d.mark = "DSVT" /\ d.len = 56 /\ d.type = 16 /\ d.byte14 = 128 => DExtraKind(d) = "HEADER"
      /\ d.mark = "DSVT" /\ d.len = 27 /\ d.type = 32 => DExtraKind(d) = "AMBE"
      /\ d.mark # "DSVT" /\ d.len = 9 => DExtraKind(d) = "POLL"
      /\ d.mark # "DSVT" /\ d.len \in {11, 14} => DExtraKind(d) = "CONNECT"
  BY DEF DExtraKind
<1>. QED BY <1>1 DEF DExtraRead

LEMMA DCSReads ==
    ASSUME NEW d
    PROVE  /\ d.mark = "0001" /\ d.len = 100 =>
                  DCSRead(d) = DataMsg(IdOfLowFirst(d.id), d.call, IsEnd(d.seq))
           /\ d.mark \notin {"0001", "EEEE"} /\ d.len = 22 => DCSRead(d) = PollMsg(d.mark)
           /\ d.mark \notin {"0001", "EEEE"} /\ d.len \in {14, 19, 519} =>
                  DCSRead(d) = ConnectMsg(DCSConnectType(d), d.mark, d.module, d.target)
<1>1. /\ d.mark = "0001" /\ d.len = 100 => DCSKind(d) = "DATA"
      /\ d.mark \notin {"0001", "EEEE"} /\ d.len = 22 => DCSKind(d) = "POLL"
      /\ d.mark \notin {"0001", "EEEE"} /\ d.len \in {14, 19, 519} => DCSKind(d) = "CONNECT"
  BY DEF DCSKind
<1>. QED BY <1>1 DEF DCSRead

\* A datagram without a byte is never handed out.
LEMMA NoneOfEmpty ==
    /\ G2Kind(EmptyDatagram) = "NONE"
    /\ DExtraKind(EmptyDatagram) = "NONE"
    /\ DCSKind(EmptyDatagram) = "NONE"
BY DEF EmptyDatagram, G2Kind, DExtraKind, DCSKind

\* G2 reads exactly what was sent.
LEMMA G2AsSent ==
    ASSUME NEW m \in G2Messages
    PROVE  Agrees(m, G2Read(G2Write(m))) /\ G2Read(G2Write(m)).id = m.id
<1>1. CASE IsHeader(m)
  <2>1. m.kind = "HEADER" /\ m.id \in StreamIds
    BY <1>1 DEF IsHeader
  <2>2. /\ G2Write(m).len = 56 /\ G2Write(m).mark = "DSVT" /\ G2Write(m).byte14 = 128
        /\ G2Write(m).id = HighFirst(m.id) /\ G2Write(m).call = m.call
    BY <2>1 DEF G2Write, G2WriteHeader
  <2>3. G2Read(G2Write(m)) = HeaderMsg(IdOf(HighFirst(m.id)), m.call)
    BY <2>2, G2Reads
  <2>4. IdOf(HighFirst(m.id)) = m.id
    BY <2>1, IdBytes
  <2>. QED BY <2>1, <2>3, <2>4 DEF HeaderMsg, Agrees
<1>2. CASE IsVoice(m)
  <2>1. m.kind = "AMBE" /\ m.id \in StreamIds /\ m.end \in BOOLEAN
    BY <1>2 DEF IsVoice
  <2>2. /\ G2Write(m).len = 27 /\ G2Write(m).mark = "DSVT" /\ G2Write(m).byte14 = Seq14(m.end)
        /\ G2Write(m).id = HighFirst(m.id)
    BY <2>1 DEF G2Write, G2WriteVoice
  <2>3. G2Read(G2Write(m)) = VoiceMsg(IdOf(HighFirst(m.id)), IsEnd(Seq14(m.end)))
    BY <2>2, SequenceNumber, G2Reads
  <2>4. IdOf(HighFirst(m.id)) = m.id /\ (IsEnd(Seq14(m.end)) <=> m.end)
    BY <2>1, IdBytes, EndMark
  <2>. QED BY <2>1, <2>3, <2>4 DEF VoiceMsg, Agrees, IsEnd
<1>. QED BY <1>1, <1>2, MessagesAssumption

\* DExtra reads the id with its bytes swapped, and all else as it was sent.
LEMMA DExtraAsSent ==
    ASSUME NEW m \in DExtraMessages
    PROVE  /\ Agrees(m, DExtraRead(DExtraWrite(m)))
           /\ HasId(m) => /\ m.id \in StreamIds
                          /\ DExtraRead(DExtraWrite(m)).id = Swapped(m.id)
<1>1. CASE IsHeader(m)
  <2>1. m.kind = "HEADER" /\ m.id \in StreamIds
    BY <1>1 DEF IsHeader
  <2>2. DExtraWrite(m) = DExtraWriteHeader(m)
    BY <2>1 DEF DExtraWrite
  <2>3. DExtraRead(DExtraWriteHeader(m)) = HeaderMsg(IdOf(LowFirst(m.id)), m.call)
    BY DExtraReads DEF DExtraWriteHeader
  <2>4. DExtraRead(DExtraWrite(m)) = HeaderMsg(Swapped(m.id), m.call)
    BY <2>1, <2>2, <2>3, IdBytes
  <2>. QED BY <2>1, <2>4 DEF HeaderMsg, Agrees, HasId
<1>2. CASE IsVoice(m)
  <2>1. m.kind = "AMBE" /\ m.id \in StreamIds /\ m.end \in BOOLEAN
    BY <1>2 DEF IsVoice
  <2>2. DExtraWrite(m) = DExtraWriteVoice(m)
    BY <2>1 DEF DExtraWrite
  <2>3. DExtraRead(DExtraWriteVoice(m)) = VoiceMsg(IdOf(LowFirst(m.id)), IsEnd(Seq14(m.end)))
    BY DExtraReads DEF DExtraWriteVoice
  <2>4. DExtraRead(DExtraWrite(m)) = VoiceMsg(Swapped(m.id), IsEnd(Seq14(m.end)))
    BY <2>1, <2>2, <2>3, IdBytes
  <2>5. IsEnd(Seq14(m.end)) <=> m.end
    BY <2>1, EndMark
  <2>. QED BY <2>1, <2>4, <2>5 DEF VoiceMsg, Agrees, HasId, IsEnd
<1>3. CASE IsPoll(m, {"DSVT"})
  <2>1. m.kind = "POLL" /\ m.call # "DSVT"
    BY <1>3 DEF IsPoll
  <2>2. DExtraWrite(m) = DExtraWritePoll(m)
    BY <2>1 DEF DExtraWrite
  <2>3. DExtraRead(DExtraWritePoll(m)) = PollMsg(m.call)
    BY <2>1, DExtraReads DEF DExtraWritePoll
  <2>. QED BY <2>1, <2>2, <2>3 DEF PollMsg, Agrees, HasId
<1>4. CASE IsConnect(m, {"DSVT"})
  <2>1. /\ m.kind = "CONNECT" /\ m.call # "DSVT"
        /\ m.type \in {"LINK", "UNLINK", "ACK", "NAK"} /\ (m.type = "LINK" => m.target # Blank)
    BY <1>4 DEF IsConnect
  <2>2. DExtraWrite(m) = DExtraWriteConnect(m)
    BY <2>1 DEF DExtraWrite
  <2>3. PICK t, u : DExtraRead(DExtraWriteConnect(m)) = ConnectMsg(t, m.call, m.module, u) /\ t = m.type
    <3> DEFINE d == DExtraWriteConnect(m)
    <3>1. /\ d.len = (IF m.type \in {"LINK", "UNLINK"} THEN 11 ELSE 14)
          /\ d.mark = m.call /\ d.module = m.module
          /\ d.target = (IF m.type = "UNLINK" THEN Blank ELSE m.target)
          /\ d.word = (IF m.type \in {"LINK", "UNLINK"} THEN "" ELSE m.type)
      BY DEF DExtraWriteConnect
    <3>. HIDE DEF d
    <3>2. DExtraConnectType(d) = m.type
      <4>1. CASE m.type = "LINK"
        <5>1. d.len = 11 /\ d.target # Blank
          <6>1. m.target # Blank
            BY <2>1, <4>1
          <6>2. d.len = 11 /\ d.target = m.target
            BY <3>1, <4>1
          <6>. QED BY <6>1, <6>2
        <5>. QED BY <5>1, <4>1 DEF DExtraConnectType
      <4>2. CASE m.type = "UNLINK"
        <5>1. d.len = 11 /\ d.target = Blank
          BY <3>1, <4>2
        <5>. QED BY <5>1, <4>2 DEF DExtraConnectType
      <4>3. CASE m.type \in {"ACK", "NAK"}
        <5>1. d.len = 14 /\ d.word = m.type
          BY <3>1, <4>3
        <5>. QED BY <5>1 DEF DExtraConnectType
      <4>. QED BY <2>1, <4>1, <4>2, <4>3
    <3>3. DExtraRead(d) = ConnectMsg(DExtraConnectType(d), m.call, m.module, d.target)
      BY <2>1, <3>1, DExtraReads
    <3>. QED BY <3>2, <3>3 DEF d
  <2>. QED BY <2>1, <2>2, <2>3 DEF ConnectMsg, Agrees, HasId
<1>. QED BY <1>1, <1>2, <1>3, <1>4, MessagesAssumption

\* DCS reads the id as it was sent.
LEMMA DCSAsSent ==
    ASSUME NEW m \in DCSMessages
    PROVE  /\ Agrees(m, DCSRead(DCSWrite(m)))
           /\ HasId(m) => DCSRead(DCSWrite(m)).id = m.id
<1>1. CASE IsData(m)
  <2>1. m.kind = "DATA" /\ m.id \in StreamIds /\ m.end \in BOOLEAN
    BY <1>1 DEF IsData
  <2>2. DCSWrite(m) = DCSWriteData(m)
    BY <2>1 DEF DCSWrite
  <2>3. DCSRead(DCSWriteData(m)) = DataMsg(IdOfLowFirst(LowFirst(m.id)), m.call, IsEnd(Seq14(m.end)))
    BY DCSReads DEF DCSWriteData
  <2>4. IdOfLowFirst(LowFirst(m.id)) = m.id /\ (IsEnd(Seq14(m.end)) <=> m.end)
    BY <2>1, IdBytes, EndMark
  <2>. QED BY <2>1, <2>2, <2>3, <2>4 DEF DataMsg, Agrees, HasId, IsEnd
<1>2. CASE IsPoll(m, {"0001", "EEEE"})
  <2>1. m.kind = "POLL" /\ m.call \notin {"0001", "EEEE"}
    BY <1>2 DEF IsPoll
  <2>2. DCSWrite(m) = DCSWritePoll(m)
    BY <2>1 DEF DCSWrite
  <2>3. DCSRead(DCSWritePoll(m)) = PollMsg(m.call)
    BY <2>1, DCSReads DEF DCSWritePoll
  <2>. QED BY <2>1, <2>2, <2>3 DEF PollMsg, Agrees, HasId
<1>3. CASE IsConnect(m, {"0001", "EEEE"})
  <2>1. /\ m.kind = "CONNECT" /\ m.call \notin {"0001", "EEEE"}
        /\ m.type \in {"LINK", "UNLINK", "ACK", "NAK"}
    BY <1>3 DEF IsConnect
  <2>2. DCSWrite(m) = DCSWriteConnect(m)
    BY <2>1 DEF DCSWrite
  <2>3. PICK t, u : DCSRead(DCSWriteConnect(m)) = ConnectMsg(t, m.call, m.module, u) /\ t = m.type
    <3> DEFINE d == DCSWriteConnect(m)
    <3>1. /\ d.len = DCSLength(m.type) /\ d.mark = m.call /\ d.module = m.module
          /\ d.word = (IF m.type \in {"LINK", "UNLINK"} THEN "" ELSE m.type)
      BY DEF DCSWriteConnect
    <3>. HIDE DEF d
    <3>2. d.len = IF m.type = "LINK" THEN 519 ELSE IF m.type = "UNLINK" THEN 19 ELSE 14
      BY <3>1 DEF DCSLength
    <3>3. DCSConnectType(d) = m.type
      <4>1. CASE m.type = "LINK"
        BY <3>2, <4>1 DEF DCSConnectType
      <4>2. CASE m.type = "UNLINK"
        BY <3>2, <4>2 DEF DCSConnectType
      <4>3. CASE m.type \in {"ACK", "NAK"}
        <5>1. d.len = 14 /\ d.word = m.type
          BY <3>1, <3>2, <4>3
        <5>. QED BY <5>1 DEF DCSConnectType
      <4>. QED BY <2>1, <4>1, <4>2, <4>3
    <3>4. DCSRead(d) = ConnectMsg(DCSConnectType(d), m.call, m.module, d.target)
      BY <2>1, <3>1, <3>2, DCSReads
    <3>. QED BY <3>3, <3>4 DEF d
  <2>. QED BY <2>1, <2>2, <2>3 DEF ConnectMsg, Agrees, HasId
<1>. QED BY <1>1, <1>2, <1>3, MessagesAssumption

\* Headers and frames that were sent with equal ids, and no others, are read
\* with equal ids, and all else is read as it was sent.
THEOREM AlwaysReadAsSent == Spec => []ReadAsSent
<1>1. Inv => ReadAsSent
  <2>. SUFFICES ASSUME Inv, handed # Nothing PROVE
           \E sent \in Protocol.msgs :
              /\ Protocol.back[sent] = handed.message
              /\ Agrees(sent, handed.message)
              /\ HasId(sent) => \A m \in Protocol.msgs :
                     HasId(m) => (m.id = sent.id <=> Protocol.back[m].id = handed.message.id)
    BY DEF ReadAsSent
  <2>1. CASE stage = "G2"
    <3>1. Protocol.msgs = G2Messages /\ \A m \in G2Messages : Protocol.back[m] = G2Read(G2Write(m))
      BY <2>1 DEF Protocol
    <3>2. PICK sent \in G2Messages : handed.datagram = G2Write(sent)
      BY <2>1, MessagesAssumption, NoneOfEmpty DEF Inv, Control, HandedOK, G2Datagrams
    <3>3. handed.message = G2Read(G2Write(sent))
      BY <2>1, <3>2 DEF Inv, Control, HandedOK
    <3>. QED BY <3>1, <3>3, G2AsSent
  <2>2. CASE stage = "DExtra"
    <3>1. /\ Protocol.msgs = DExtraMessages
          /\ \A m \in DExtraMessages : Protocol.back[m] = DExtraRead(DExtraWrite(m))
      BY <2>2 DEF Protocol
    <3>2. PICK sent \in DExtraMessages : handed.datagram = DExtraWrite(sent)
      BY <2>2, MessagesAssumption, NoneOfEmpty DEF Inv, Control, HandedOK, DExtraDatagrams
    <3>3. handed.message = DExtraRead(DExtraWrite(sent))
      BY <2>2, <3>2 DEF Inv, Control, HandedOK
    <3>4. Agrees(sent, handed.message)
      BY <3>3, DExtraAsSent
    <3>5. ASSUME HasId(sent), NEW m \in DExtraMessages, HasId(m)
          PROVE  m.id = sent.id <=> Protocol.back[m].id = handed.message.id
      <4>1. /\ m.id \in StreamIds /\ Protocol.back[m].id = Swapped(m.id)
            /\ sent.id \in StreamIds /\ handed.message.id = Swapped(sent.id)
        BY <3>1, <3>3, <3>5, DExtraAsSent
      <4>. QED BY <4>1, SwappedDiffers
    <3>. QED BY <3>1, <3>3, <3>4, <3>5
  <2>3. CASE stage = "DCS"
    <3>1. Protocol.msgs = DCSMessages /\ \A m \in DCSMessages : Protocol.back[m] = DCSRead(DCSWrite(m))
      BY <2>3 DEF Protocol
    <3>2. PICK sent \in DCSMessages : handed.datagram = DCSWrite(sent)
      BY <2>3, MessagesAssumption, NoneOfEmpty DEF Inv, Control, HandedOK, DCSDatagrams
    <3>3. handed.message = DCSRead(DCSWrite(sent))
      BY <2>3, <3>2 DEF Inv, Control, HandedOK
    <3>4. Agrees(sent, handed.message)
      BY <3>3, DCSAsSent
    <3>5. ASSUME HasId(sent), NEW m \in DCSMessages, HasId(m)
          PROVE  m.id = sent.id <=> Protocol.back[m].id = handed.message.id
      BY <3>1, <3>3, <3>5, DCSAsSent
    <3>. QED BY <3>1, <3>3, <3>4, <3>5
  <2>. QED BY <2>1, <2>2, <2>3 DEF Inv, Control
<1>. QED BY <1>1, InvHolds, PTL
=============================================================================
