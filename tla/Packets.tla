------------------------------ MODULE Packets ------------------------------
(***************************************************************************)
(* The datagrams of the three voice protocols, as CAMBEData, CHeaderData,  *)
(* CConnectData and CPollData write and read them, and as the protocol     *)
(* handlers tell them apart.  A datagram is a record of its length and of  *)
(* the bytes that a decision is taken on: the mark it begins with, which   *)
(* is the callsign if the packet has no other, the type in byte 4, the two *)
(* bytes of the stream id in the order they are sent, byte 14.  Callsigns  *)
(* without their module letter are values; audio, slow data, bands, flags  *)
(* and checksums (which no handler asks to be checked) are left out.       *)
(* Two malformed packets have no reading here: a G2 packet of 27 bytes     *)
(* whose byte 14 has its high bit set is taken for a header and fails the  *)
(* assertion on its length in setG2Data, and one of 14 bytes that says     *)
(* neither ACK nor NAK is a connect packet that has no content.            *)
(***************************************************************************)
EXTENDS Integers

Blank == " "

\* A datagram of no bytes; none of the handlers below ever gets to see it.
EmptyDatagram == [len |-> 0, mark |-> ""]

(***************************************************************************)
(* What the program passes to its handlers.                                *)
(***************************************************************************)
HeaderMsg(i, my) == [kind |-> "HEADER", id |-> i, call |-> my]
VoiceMsg(i, end) == [kind |-> "AMBE", id |-> i, end |-> end]
DataMsg(i, my, end) == [kind |-> "DATA", id |-> i, call |-> my, end |-> end]
PollMsg(c) == [kind |-> "POLL", call |-> c]
ConnectMsg(t, rptr, m, target) ==
    [kind |-> "CONNECT", type |-> t, call |-> rptr, module |-> m, target |-> target]

\* Stream ids are 16 bits wide.
HighFirst(i) == <<i \div 256, i % 256>>
LowFirst(i) == <<i % 256, i \div 256>>
IdOf(bytes) == bytes[1] * 256 + bytes[2]
IdOfLowFirst(bytes) == bytes[2] * 256 + bytes[1]

\* m_outSeq, of which all but the mark of the last frame is left out.
Seq14(end) == IF end THEN 64 ELSE 0
IsEnd(seq) == (seq \div 64) % 2 = 1
-----------------------------------------------------------------------------
(***************************************************************************)
(* G2.                                                                     *)
(***************************************************************************)
G2WriteHeader(m) ==
    [len |-> 56, mark |-> "DSVT", type |-> 16, id |-> HighFirst(m.id), byte14 |-> 128, call |-> m.call]
G2WriteVoice(m) ==
    [len |-> 27, mark |-> "DSVT", type |-> 32, id |-> HighFirst(m.id), byte14 |-> Seq14(m.end)]

G2Write(m) == IF m.kind = "HEADER" THEN G2WriteHeader(m) ELSE G2WriteVoice(m)

Ping == [len |-> 4, mark |-> "PING"]

G2Kind(d) ==
    IF d.mark # "DSVT" \/ d.len \notin {27, 56} THEN "NONE"
    ELSE IF d.byte14 >= 128 THEN "HEADER" ELSE "AMBE"

G2Read(d) ==
    IF G2Kind(d) = "HEADER"
    THEN HeaderMsg(IdOf(d.id), d.call)
    ELSE VoiceMsg(IdOf(d.id), IsEnd(d.byte14))
-----------------------------------------------------------------------------
(***************************************************************************)
(* DExtra.  The id is written with its low byte first and read with its    *)
(* high byte first.                                                        *)
(***************************************************************************)
DExtraWriteHeader(m) ==
    [len |-> 56, mark |-> "DSVT", type |-> 16, id |-> LowFirst(m.id), byte14 |-> 128, call |-> m.call]
DExtraWriteVoice(m) ==
    [len |-> 27, mark |-> "DSVT", type |-> 32, id |-> LowFirst(m.id), byte14 |-> Seq14(m.end)]
DExtraWritePoll(m) == [len |-> 9, mark |-> m.call]
DExtraWriteConnect(m) ==
    [len |-> IF m.type \in {"LINK", "UNLINK"} THEN 11 ELSE 14,
     mark |-> m.call, module |-> m.module,
     target |-> IF m.type = "UNLINK" THEN Blank ELSE m.target,
     word |-> IF m.type \in {"LINK", "UNLINK"} THEN "" ELSE m.type]

DExtraWrite(m) ==
    CASE m.kind = "HEADER" -> DExtraWriteHeader(m)
      [] m.kind = "AMBE" -> DExtraWriteVoice(m)
      [] m.kind = "POLL" -> DExtraWritePoll(m)
      [] m.kind = "CONNECT" -> DExtraWriteConnect(m)

DExtraKind(d) ==
    CASE d.mark # "DSVT" /\ d.len = 9 -> "POLL"
      [] d.mark # "DSVT" /\ d.len \in {11, 14} -> "CONNECT"
      [] d.mark = "DSVT" /\ d.len = 56 /\ d.type = 16 /\ d.byte14 = 128 -> "HEADER"
      [] d.mark = "DSVT" /\ d.len = 27 /\ d.type = 32 -> "AMBE"
      [] OTHER -> "NONE"

\* A request without a module asks for the link to be ended.
Mut_DExtraConnectType(d) == IF d.len = 11 THEN "LINK" ELSE d.word
DExtraConnectType(d) ==
    IF d.len = 14 THEN d.word ELSE IF d.target = Blank THEN "UNLINK" ELSE "LINK"

DExtraRead(d) ==
    CASE DExtraKind(d) = "HEADER" -> HeaderMsg(IdOf(d.id), d.call)
      [] DExtraKind(d) = "AMBE" -> VoiceMsg(IdOf(d.id), IsEnd(d.byte14))
      [] DExtraKind(d) = "POLL" -> PollMsg(d.mark)
      [] DExtraKind(d) = "CONNECT" -> ConnectMsg(DExtraConnectType(d), d.mark, d.module, d.target)
-----------------------------------------------------------------------------
(***************************************************************************)
(* DCS.  Every voice frame carries the header.  The poll is the one a      *)
(* reflector sends, of 22 bytes.                                           *)
(***************************************************************************)
DCSLength(t) == CASE t = "LINK" -> 519 [] t = "UNLINK" -> 19 [] OTHER -> 14

DCSWriteData(m) ==
    [len |-> 100, mark |-> "0001", id |-> LowFirst(m.id), seq |-> Seq14(m.end), call |-> m.call]
DCSWritePoll(m) == [len |-> 22, mark |-> m.call]
DCSWriteConnect(m) ==
    [len |-> DCSLength(m.type), mark |-> m.call, module |-> m.module,
     target |-> IF m.type \in {"UNLINK", "NAK"} THEN Blank ELSE m.target,
     word |-> IF m.type \in {"LINK", "UNLINK"} THEN "" ELSE m.type]

DCSWrite(m) ==
    CASE m.kind = "DATA" -> DCSWriteData(m)
      [] m.kind = "POLL" -> DCSWritePoll(m)
      [] m.kind = "CONNECT" -> DCSWriteConnect(m)

\* Status packets, by their mark or their length, are thrown away.
DCSKind(d) ==
    CASE d.mark = "0001" -> IF d.len = 100 THEN "DATA" ELSE "NONE"
      [] d.mark # "0001" /\ d.mark # "EEEE" /\ d.len \in {17, 22} -> "POLL"
      [] d.mark # "0001" /\ d.mark # "EEEE" /\ d.len \in {14, 19, 519} -> "CONNECT"
      [] OTHER -> "NONE"

DCSConnectType(d) == CASE d.len = 519 -> "LINK" [] d.len = 19 -> "UNLINK" [] OTHER -> d.word

DCSRead(d) ==
    CASE DCSKind(d) = "DATA" -> DataMsg(IdOfLowFirst(d.id), d.call, IsEnd(d.seq))
      [] DCSKind(d) = "POLL" -> PollMsg(d.mark)
      [] DCSKind(d) = "CONNECT" -> ConnectMsg(DCSConnectType(d), d.mark, d.module, d.target)
=============================================================================
