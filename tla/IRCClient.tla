----------------------------- MODULE IRCClient -----------------------------
(***************************************************************************)
(* The thread of the IRC client: it connects, logs in, joins the channel,  *)
(* keeps the connection alive with PING, hands the messages it receives to *)
(* the session and sends what is queued.  A round of the thread handles    *)
(* the received messages, then takes one step of the protocol, then        *)
(* empties the send queue.  When anything fails the next round takes the   *)
(* queue away from the session, waits, and deletes it.                     *)
(***************************************************************************)
EXTENDS IRCDDBApp

CONSTANTS
    ReconnectDelay,     \* 30 rounds
    NickWait,           \* 10 rounds for a collision of nicks to be reported
    LoginWait,          \* 30 rounds for the login message
    JoinWait,           \* 30 rounds for our JOIN to come back
    PingTimer           \* 60 rounds between PINGs, and for a PONG

VARIABLES
    cState, cTimer,     \* state and timer of IRCClient::Entry
    pState, pTimer,     \* state and timer of IRCProtocol
    cpc,                \* where the thread is in its round
    recvQueue,          \* what the receiver has put into the receive queue
    eof                 \* the receiver's mark that the connection is closed

clientVars == <<cState, cTimer, pState, pTimer, cpc, recvQueue, eof>>

ClientTypeOK ==
    /\ cState \in {0, 4, 5, 6}
    /\ cTimer \in 0..ReconnectDelay
    /\ pState \in {0, 1, 2, 3, 4, 5, 6, 10, 11, 12}
    /\ pTimer \in 0 .. NickWait + LoginWait + JoinWait + PingTimer
    /\ cpc \in {"sleep", "recv", "send", "quiet"}
    /\ eof \in BOOLEAN

ClientInit ==
    /\ cState = 0
    /\ cTimer = 0
    /\ pState = 0
    /\ pTimer = 0
    /\ cpc = "sleep"
    /\ recvQueue = <<>>
    /\ eof = FALSE

allAppVars == <<appVars, sendQueue, cache, threadVars>>
protoVars == <<pState, pTimer>>
-----------------------------------------------------------------------------
(***************************************************************************)
(* A round, up to the handling of messages.                                *)
(***************************************************************************)
InRound(n) == cpc = "sleep" /\ cState = n
CountDown(t) == IF t > 0 THEN t - 1 ELSE 0

\* The first attempt that succeeds leaves state 0, any other is repeated later.
Open ==
    /\ InRound(0)
    /\ IF CountDown(cTimer) > 0
       THEN cTimer' = CountDown(cTimer) /\ UNCHANGED cState
       ELSE \/ cState' = 4 /\ cTimer' = 0
            \/ cState' = 0 /\ cTimer' = ReconnectDelay
    /\ UNCHANGED <<allAppVars, protoVars, cpc, recvQueue, eof>>

\* New queues, a new receiver, and IRCProtocol::setNetworkReady(true).
StartProtocol ==
    /\ InRound(4)
    /\ recvQueue' = <<>>
    /\ sendQueue' = <<>>
    /\ eof' = FALSE
    /\ pState' = 1
    /\ cState' = 5
    /\ cTimer' = 0
    /\ UNCHANGED <<appVars, cache, threadVars, pTimer, cpc>>

Restart == cState' = 6 /\ cTimer' = 0 /\ cpc' = "sleep"

BeginRound ==
    /\ InRound(5)
    /\ IF eof
       THEN Restart /\ UNCHANGED pTimer
       ELSE cpc' = "recv" /\ pTimer' = CountDown(pTimer) /\ UNCHANGED <<cState, cTimer>>
    /\ UNCHANGED <<allAppVars, pState, recvQueue, eof>>

\* setSendQ(NULL), userListReset, setNetworkReady(false), and the wait.
TakeQueueAway ==
    /\ InRound(6)
    /\ sendQ' = Null
    /\ cache' = clearGate(cache)
    /\ pState' = 0
    /\ cpc' = "quiet"
    /\ UNCHANGED <<state, timer, initReady, currentServer, sendlistTableID, sendQueue,
                   threadVars, cState, cTimer, pTimer, recvQueue, eof>>

\* Whoever still holds the pointer holds a deleted queue.
DeleteQueues ==
    /\ cpc = "quiet"
    /\ sendQueue' = <<>>
    /\ recvQueue' = <<>>
    /\ eof' = FALSE
    /\ entry' = [entry EXCEPT !.held = IF @ = Queue THEN Deleted ELSE @]
    /\ main' = [main EXCEPT !.held = IF @ = Queue THEN Deleted ELSE @]
    /\ cTimer' = ReconnectDelay
    /\ cState' = 0
    /\ cpc' = "sleep"
    /\ UNCHANGED <<appVars, cache, protoVars>>
-----------------------------------------------------------------------------
(***************************************************************************)
(* IRCProtocol::processQueues: the messages, then the state.               *)
(***************************************************************************)
\* The messages that concern the login.
Login(m) ==
    /\ CASE m.cmd = "004" /\ pState = 4 -> pState' = 5 /\ UNCHANGED pTimer
         [] m.cmd = "433" /\ pState = 2 -> pState' = 3 /\ pTimer' = NickWait
         [] m.cmd = "JOINED" /\ pState = 6 -> pState' = 10 /\ UNCHANGED pTimer
         [] m.cmd = "PONG" /\ pState = 12 -> pState' = 11 /\ pTimer' = PingTimer
         [] OTHER -> UNCHANGED protoVars
    /\ UNCHANGED <<appVars, sendQueue, cache>>

\* QUIT stands for PART and for the KICK of somebody else as well.
Answer(m) ==
    \/ /\ m.cmd = "PING"
       /\ sendQueue' = Append(sendQueue, Msg("PONG", Empty))
       /\ UNCHANGED <<appVars, cache>>
    \/ m.cmd \in {"JOIN", "352"} /\ userJoin(m.arg)
    \/ m.cmd = "QUIT" /\ userLeave(m.arg)
    \/ m.cmd = "UPDATE" /\ doUpdate(m.arg)
    \/ m.cmd = "LIST_END" /\ ListAnswer(3)
    \/ m.cmd = "LIST_MORE" /\ ListAnswer(4)
    \/ m.cmd = "NOT_FOUND" /\ NotFound(m.arg)

HandleMessage ==
    /\ cpc = "recv"
    /\ recvQueue # <<>>
    /\ Head(recvQueue).cmd # "KICK"
    /\ LET m == Head(recvQueue)
       IN IF m.cmd \in {"004", "433", "JOINED", "PONG"}
          THEN Login(m)
          ELSE Answer(m) /\ UNCHANGED protoVars
    /\ recvQueue' = Tail(recvQueue)
    /\ UNCHANGED <<threadVars, cState, cTimer, cpc, eof>>

\* Kicked out of the channel: the rest of the messages is not handled.
Kicked ==
    /\ cpc = "recv"
    /\ recvQueue # <<>>
    /\ Head(recvQueue).cmd = "KICK"
    /\ recvQueue' = Tail(recvQueue)
    /\ Restart
    /\ UNCHANGED <<allAppVars, protoVars, eof>>

MessagesDone == cpc = "recv" /\ recvQueue = <<>>

Sends(msgs, p, t) ==
    /\ sendQueue' = sendQueue \o msgs
    /\ pState' = p
    /\ pTimer' = t
    /\ cpc' = "send"
    /\ UNCHANGED <<cState, cTimer>>

Waits == cpc' = "send" /\ UNCHANGED <<sendQueue, protoVars, cState, cTimer>>
Fails == Restart /\ UNCHANGED <<sendQueue, protoVars>>

Mut_ProtocolStep ==                 \* a PONG is awaited for ever
    \/ pState = 1 /\ Sends(<<Msg("NICK", Empty)>>, 2, NickWait)
    \/ pState = 2 /\ IF pTimer = 0 THEN Sends(<<Msg("USER", Empty)>>, 4, LoginWait) ELSE Waits
    \/ pState = 3 /\ IF pTimer = 0 THEN Sends(<<Msg("NICK", Empty)>>, 2, NickWait) ELSE Waits
    \/ pState \in {4, 6} /\ IF pTimer = 0 THEN Fails ELSE Waits
    \/ pState = 5 /\ Sends(<<Msg("JOIN", Empty)>>, 6, JoinWait)
    \/ pState = 11 /\ IF pTimer = 0 THEN Sends(<<Msg("PING", Empty)>>, 12, PingTimer) ELSE Waits
    \/ pState = 12 /\ Waits

\* The PASS that goes before the first NICK is left out.
ProtocolStep ==
    \/ pState = 1 /\ Sends(<<Msg("NICK", Empty)>>, 2, NickWait)
    \/ pState = 2 /\ IF pTimer = 0 THEN Sends(<<Msg("USER", Empty)>>, 4, LoginWait) ELSE Waits
    \/ pState = 3 /\ IF pTimer = 0 THEN Sends(<<Msg("NICK", Empty)>>, 2, NickWait) ELSE Waits
    \/ pState \in {4, 6, 12} /\ IF pTimer = 0 THEN Fails ELSE Waits
    \/ pState = 5 /\ Sends(<<Msg("JOIN", Empty)>>, 6, JoinWait)
    \/ pState = 11 /\ IF pTimer = 0 THEN Sends(<<Msg("PING", Empty)>>, 12, PingTimer) ELSE Waits

ActOnState ==
    /\ MessagesDone
    /\ pState # 10
    /\ ProtocolStep
    /\ UNCHANGED <<appVars, cache, threadVars, recvQueue, eof>>

Mut_SwitchOn ==                     \* WHO is not sent
    /\ MessagesDone
    /\ pState = 10
    /\ Sends(<<>>, 11, PingTimer)
    /\ sendQ' = Queue
    /\ UNCHANGED <<state, timer, initReady, currentServer, sendlistTableID, cache, threadVars,
                   recvQueue, eof>>

\* In the channel: WHO is asked, and the session is switched on.
SwitchOn ==
    /\ MessagesDone
    /\ pState = 10
    /\ Sends(<<Msg("WHO", Empty)>>, 11, PingTimer)
    /\ sendQ' = Queue
    /\ UNCHANGED <<state, timer, initReady, currentServer, sendlistTableID, cache, threadVars,
                   recvQueue, eof>>

SendMessage ==
    /\ cpc = "send"
    /\ sendQueue # <<>>
    /\ sendQueue' = Tail(sendQueue)
    /\ UNCHANGED <<appVars, cache, threadVars, protoVars, cState, cTimer, cpc, recvQueue, eof>>

\* A write may fail at any time.
ShortWrite ==
    /\ cpc = "send"
    /\ sendQueue # <<>>
    /\ sendQueue' = Tail(sendQueue)
    /\ Restart
    /\ UNCHANGED <<appVars, cache, threadVars, protoVars, recvQueue, eof>>

EndRound ==
    /\ cpc = "send"
    /\ sendQueue = <<>>
    /\ cpc' = "sleep"
    /\ UNCHANGED <<allAppVars, protoVars, cState, cTimer, recvQueue, eof>>
=============================================================================
