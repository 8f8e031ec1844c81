---------------------------- MODULE RoutingProofs ----------------------------
(***************************************************************************)
(* What holds of Routing for any number of users, repeaters and gateways,  *)
(* one or two networks, and all texts and losses.                          *)
(*                                                                         *)
(* A lost frame blanks its block and garbles nothing: each block that is   *)
(* received in full is shown to carry its own number and five characters,  *)
(* so a receiver puts the text together block by block.                    *)
(*                                                                         *)
(* A talk goes to whom it should.  The invariant follows the lookups: the  *)
(* networks that were asked in vain know nothing (InVain), the repeater    *)
(* that is left out is the talker's (Excluded), who has been looked up is  *)
(* served (Served), and whom the list serves is known (Known); each says   *)
(* so of users for whom no cache has changed since the header came, and    *)
(* what the drop of a talker has left in the list is not counted.          *)
(***************************************************************************)
EXTENDS Routing, SequenceTheorems, FiniteSetTheorems, TLAPS

-----------------------------------------------------------------------------
(***************************************************************************)
(* The text of an acknowledgement.                                         *)
(***************************************************************************)
\* The bytes of a block that is received in full, descrambled.
LEMMA BlockRead ==
    ASSUME NEW text, NEW b \in 0..8
    PROVE  Clear(Block(AckFrames(text), b)) = [k \in 0..5 |-> setTextData(text)[6 * b + k]]
<1> DEFINE data == setTextData(text)
           frames == AckFrames(text)
<1>1. \A seq \in 1..18 : frames[seq] = getTextData(data, seq)
  BY DEF AckFrames
<1>2. ASSUME NEW k \in 0..5
      PROVE  Block(frames, b)[k] = Scrambled(data[6 * b + k], (k % 3) + 1)
  <2>1. CASE k < 3
    <3>1. k \div 3 = 0 /\ k % 3 = k /\ 2 * b + 1 + k \div 3 = 2 * b + 1 /\ 2 * b + 1 \in 1..18 /\ k + 1 \in 1..3
      BY <2>1
    <3>2. (3 * (2 * b + 1 - 1) + k + 1 - 1) % Full = 6 * b + k
      BY <2>1 DEF Full
    <3>3. Block(frames, b)[k] = frames[2 * b + 1][k + 1]
      BY <3>1 DEF Block
    <3>4. frames[2 * b + 1][k + 1] = Scrambled(data[6 * b + k], k + 1)
      BY <1>1, <3>1, <3>2 DEF getTextData
    <3> QED BY <3>1, <3>3, <3>4
  <2>2. CASE k >= 3
    <3>1. k \div 3 = 1 /\ k % 3 = k - 3 /\ 2 * b + 1 + k \div 3 = 2 * b + 2 /\ 2 * b + 2 \in 1..18 /\ k - 3 + 1 \in 1..3
      BY <2>2
    <3>2. (3 * (2 * b + 2 - 1) + (k - 3 + 1) - 1) % Full = 6 * b + k
      BY <2>2 DEF Full
    <3>3. Block(frames, b)[k] = frames[2 * b + 2][k - 3 + 1]
      BY <3>1 DEF Block
    <3>4. frames[2 * b + 2][k - 3 + 1] = Scrambled(data[6 * b + k], k - 3 + 1)
      BY <1>1, <3>1, <3>2 DEF getTextData
    <3> QED BY <3>1, <3>3, <3>4
  <2> QED BY <2>1, <2>2
<1> HIDE DEF data, frames
<1> QED BY <1>2 DEF Clear, Scrambled, data, frames

\* What is in it: its number and five characters, or what no receiver looks for.
LEMMA BlockData ==
    ASSUME NEW text, NEW b \in 0..8
    PROVE  /\ b <= 3 => /\ setTextData(text)[6 * b + 0] = Type(b)
                        /\ \A k \in 1..5 : setTextData(text)[6 * b + k] = CharAt(text, 5 * b + k - 1)
           /\ b > 3 => setTextData(text)[6 * b + 0] = Filler
<1>1. ASSUME NEW k \in 0..5 PROVE 6 * b + k \in 0 .. Full - 1 /\ (6 * b + k) % 6 = k /\ (6 * b + k) \div 6 = b
  BY DEF Full
<1>2. (6 * b + 0) % 6 = 0 /\ (6 * b + 0) \div 6 = b
  BY <1>1
<1>3. CASE b <= 3
  <2>1. setTextData(text)[6 * b + 0] = Type(b)
    BY <1>1, <1>2, <1>3 DEF setTextData
  <2>2. ASSUME NEW k \in 1..5 PROVE setTextData(text)[6 * b + k] = CharAt(text, 5 * b + k - 1)
    <3>1. /\ 6 * b + k \in 0 .. Full - 1 /\ ~(6 * b + k >= 24)
          /\ (6 * b + k) % 6 = k /\ k # 0 /\ (6 * b + k) \div 6 = b
      BY <1>1, <1>3
    <3> HIDE DEF Full
    <3>2. setTextData(text)[6 * b + k]
              = CharAt(text, 5 * ((6 * b + k) \div 6) + ((6 * b + k) % 6) - 1)
      BY <3>1 DEF setTextData
    <3> QED BY <3>1, <3>2
  <2> QED BY <1>3, <2>1, <2>2
<1>4. CASE b > 3
  BY <1>1, <1>4 DEF setTextData
<1> QED BY <1>3, <1>4

LEMMA TextRecovered ==
    ASSUME NEW text, NEW lost, NEW i \in 0 .. Padded - 1
    PROVE  LET b == i \div 5
           IN  Shown(AckFrames(text), (1..18) \ lost)[i]
                    = IF {2 * b + 1, 2 * b + 2} \cap lost = {} THEN CharAt(text, i) ELSE Blank
<1> DEFINE c == i \div 5
           heard == (1..18) \ lost
           blocks == {Clear(Block(AckFrames(text), b)) : b \in BlocksHeard(heard)}
           Puts == {block \in blocks : block[0] = Type(c)}
           read == [k \in 0..5 |-> setTextData(text)[6 * c + k]]
<1>1. c \in 0..3 /\ i % 5 \in 0..4 /\ i = 5 * c + (i % 5)
  BY DEF Padded
<1>2. Shown(AckFrames(text), heard)[i] = IF Puts = {} THEN Blank ELSE (CHOOSE block \in Puts : TRUE)[(i % 5) + 1]
  BY DEF Shown, Padded
<1>3. ASSUME NEW b \in 0..8, setTextData(text)[6 * b + 0] = Type(c) PROVE b = c
  <2>1. Filler # Type(c)
    BY DEF Filler, Type
  <2>2. b <= 3 => Type(b) = Type(c)
    BY <1>3, BlockData
  <2>3. b <= 3
    BY <1>3, <2>1, BlockData
  <2> QED BY <2>2, <2>3 DEF Type
<1>4. Puts = IF c \in BlocksHeard(heard) THEN {read} ELSE {}
  <2>1. \A b \in BlocksHeard(heard) : b \in 0..8
    BY DEF BlocksHeard
  <2>2. \A b \in 0..8 : /\ Clear(Block(AckFrames(text), b)) = [k \in 0..5 |-> setTextData(text)[6 * b + k]]
                        /\ Clear(Block(AckFrames(text), b))[0] = setTextData(text)[6 * b + 0]
    BY BlockRead
  <2>3. setTextData(text)[6 * c + 0] = Type(c) /\ c \in 0..8
    BY <1>1, BlockData
  <2> HIDE DEF c
  <2> QED BY <1>3, <2>1, <2>2, <2>3
<1>5. c \in BlocksHeard(heard) <=> {2 * c + 1, 2 * c + 2} \cap lost = {}
  BY <1>1 DEF BlocksHeard
<1>6. read[(i % 5) + 1] = CharAt(text, i)
  <2>1. /\ (i % 5) + 1 \in 1..5 /\ (i % 5) + 1 \in 0..5 /\ 5 * c + ((i % 5) + 1) - 1 = i /\ c \in 0..8 /\ c <= 3
    BY <1>1
  <2> HIDE DEF c
  <2>2. setTextData(text)[6 * c + ((i % 5) + 1)] = CharAt(text, 5 * c + ((i % 5) + 1) - 1)
    BY <2>1, BlockData
  <2> QED BY <2>1, <2>2
<1> HIDE DEF c, heard, read, Puts
<1>7. Shown(AckFrames(text), heard)[i] = IF {2 * c + 1, 2 * c + 2} \cap lost = {} THEN CharAt(text, i) ELSE Blank
  <2>1. CASE c \in BlocksHeard(heard)
    <3>1. Puts = {read} /\ (CHOOSE block \in Puts : TRUE) = read
      BY <1>4, <2>1
    <3> QED BY <1>2, <1>5, <1>6, <2>1, <3>1
  <2>2. CASE c \notin BlocksHeard(heard)
    BY <1>2, <1>4, <1>5, <2>2
  <2> QED BY <2>1, <2>2
<1> QED BY <1>7 DEF c, heard

\* What the radio has received is one of the texts.
DisplayOK ==
    \/ display = Nothing
    \/ \E text \in Texts, lost \in Losses :
          display = [text |-> text, shown |-> Shown(AckFrames(text), (1..18) \ lost), lost |-> lost]

LEMMA DisplayStep == DisplayOK /\ [Next]_vars => DisplayOK'
<1> SUFFICES ASSUME DisplayOK, [Next]_vars PROVE DisplayOK'
  OBVIOUS
<1>1. CASE display' = display
  BY <1>1 DEF DisplayOK
<1>2. CASE display' = Nothing
  BY <1>2 DEF DisplayOK
<1>3. ASSUME NEW text \in Texts, NEW lost \in Losses, SendAck(text, lost) PROVE DisplayOK'
  BY <1>3 DEF SendAck, DisplayOK
<1> QED BY <1>1, <1>2, <1>3
    DEF Next, MainThread, IRC, Dismiss, Row, UserHeard, GateUp, GateDown, Write, BeginTalk, FindExclude,
        Collect, EndCollect, EndTalk, DropUser, BeginAck, AskAddress, ackVars, vars

\* An acknowledgement that loses frames shows blanks for the blocks it lost, and the
\* characters of its text everywhere else, for all texts and losses.
THEOREM AcksReadable == Spec => []TextShown
<1>1. Init => DisplayOK
  BY DEF Init, DisplayOK
<1>2. DisplayOK => TextShown
  <2> SUFFICES ASSUME NEW text \in Texts, NEW lost \in Losses,
                      display = [text |-> text, shown |-> Shown(AckFrames(text), (1..18) \ lost),
                                 lost |-> lost],
                      NEW i \in 0 .. Padded - 1
               PROVE  LET b == i \div 5 IN
                      display.shown[i] = IF {2 * b + 1, 2 * b + 2} \cap display.lost = {}
                                         THEN CharAt(display.text, i) ELSE Blank
    BY DEF DisplayOK, TextShown
  <2>1. /\ display.shown = Shown(AckFrames(text), (1..18) \ lost)
        /\ display.lost = lost /\ display.text = text
    OBVIOUS
  <2>2. LET b == i \div 5
        IN  Shown(AckFrames(text), (1..18) \ lost)[i]
                = IF {2 * b + 1, 2 * b + 2} \cap lost = {} THEN CharAt(text, i) ELSE Blank
    BY TextRecovered
  <2> QED BY <2>1, <2>2
<1> QED BY <1>1, <1>2, DisplayStep, PTL DEF Spec
-----------------------------------------------------------------------------
(***************************************************************************)
(* Who hears a talk.                                                       *)
(***************************************************************************)
Types == user \in Users /\ subs \subseteq Users /\ asked \subseteq Networks /\ todo \in Seq(subs)

\* How far the lookups are.
Asking ==
    /\ phase \in {"idle", "exclude", "collect", "talk"}
    /\ phase \in {"idle", "exclude"} => DOMAIN repeaters \subseteq left
    /\ phase = "exclude" => subs \subseteq Range(todo)
    /\ phase \in {"idle", "talk"} => todo = <<>>
    /\ phase \in {"idle", "talk"} \/ (phase = "collect" /\ todo = <<>>) => asked = {}

\* The networks that were asked in vain about the talker, or about the next subscriber,
\* still have nothing about him, if nothing changed.
InVain ==
    /\ phase = "exclude" /\ user \in steady => \A n \in asked : caches[n].userRptr[user] = Empty
    /\ phase = "collect" /\ todo # <<>> /\ Head(todo) \in steady =>
            \A n \in asked : Data(n, Head(todo)).addr = Empty

\* Whoever has been looked up is served, or is at the talker's repeater; whoever is
\* served was looked up.
Excluded ==
    phase \in {"collect", "talk"} => /\ Certain(user) => Where(user) = {exclude}
                                     /\ exclude \notin DOMAIN repeaters \ left
Served ==
    phase \in {"collect", "talk"} =>
        \A u \in subs \ Range(todo) :
            Certain(u) /\ Routes(u) # {} => Where(u) \subseteq DOMAIN repeaters \cup {exclude}
Known ==
    phase \in {"collect", "talk"} =>
        \A r \in DOMAIN repeaters \ left :
            \E u \in subs : u \in steady => r \in Where(u) /\ repeaters[r] \in Routes(u)

AudienceInv == Types /\ Asking /\ InVain /\ Excluded /\ Served /\ Known

\* Users the networks agree about.
LEMMA OneRepeater == \A u : Cardinality(Where(u)) = 1 <=> \E r : Where(u) = {r}
<1> SUFFICES ASSUME NEW u PROVE IsFiniteSet(Where(u))
  BY FS_Singleton
<1> DEFINE R == {caches[0].userRptr[u], caches[1].userRptr[u]}
<1>1. IsFiniteSet(R)
  <2>1. IsFiniteSet({caches[0].userRptr[u]})
    BY FS_Singleton
  <2>2. IsFiniteSet({caches[0].userRptr[u]} \cup {caches[1].userRptr[u]})
    BY <2>1, FS_AddElement
  <2>3. R = {caches[0].userRptr[u]} \cup {caches[1].userRptr[u]}
    OBVIOUS
  <2> QED BY <2>2, <2>3
<1>2. Where(u) \subseteq R
  BY RoutingAssumption DEF RoutingAssumption, Where
<1> QED BY <1>1, <1>2, FS_Subset

\* What is found in one lookup.
LEMMA Found ==
    ASSUME NEW u, NEW n \in Networks
    PROVE  /\ Data(n, u).rptr = caches[n].userRptr[u]
           /\ Data(n, u).rptr # Empty => Data(n, u).rptr \in Where(u)
           /\ Data(n, u).addr # Empty => /\ Data(n, u).rptr # Empty
                                         /\ <<Data(n, u).gate, Data(n, u).addr>> \in Routes(u)
<1>1. Data(n, u).rptr = caches[n].userRptr[u]
  BY DEF Data
<1>2. Data(n, u).rptr # Empty => Data(n, u).rptr \in Where(u)
  BY <1>1 DEF Where
<1>3. Data(n, u).addr # Empty => Data(n, u).rptr # Empty
  BY DEF Data, findRptrGate, findGateAddr
<1>4. Data(n, u).addr # Empty => <<Data(n, u).gate, Data(n, u).addr>> \in Routes(u)
  BY DEF Routes
<1> QED BY <1>1, <1>2, <1>3, <1>4

\* All subscribers are in the sequence of them.
LEMMA InOrder ==
    ASSUME NEW S, S \subseteq Users
    PROVE  SetToSeq(S) \in Seq(S) /\ S \subseteq Range(SetToSeq(S))
<1> DEFINE N == Cardinality(S)
           f == SetToSeq(S)
<1>1. IsFiniteSet(S) /\ N \in Nat /\ ExistsBijection(1..N, S)
  BY RoutingAssumption, FS_Subset, FS_CardinalityType DEF RoutingAssumption
<1>2. \E g \in [1..N -> S] : IsInjective(g)
  BY <1>1 DEF ExistsBijection, Bijection, Injection
<1>3. f \in [1..N -> S] /\ IsInjective(f)
  BY <1>2 DEF SetToSeq
<1>4. f \in Injection(1..N, S)
  BY <1>3 DEF Injection
<1>5. Cardinality(1..N) = N
  BY <1>1, FS_Interval
<1>6. f \in Surjection(1..N, S)
  BY <1>1, <1>4, <1>5, FS_Injection
<1>7. S \subseteq Range(f)
  BY <1>6 DEF Surjection, Range
<1> HIDE DEF f
<1>8. f \in Seq(S)
  BY <1>1, <1>3
<1> QED BY <1>7, <1>8 DEF f

\* What is left of the users.
LEMMA Left ==
    ASSUME NEW S, NEW q \in Seq(S), q # <<>>
    PROVE  /\ Head(q) \in S /\ Tail(q) \in Seq(S)
           /\ \A x \in Range(q) : x = Head(q) \/ x \in Range(Tail(q))
<1>1. Len(q) \in Nat /\ Len(q) # 0
  BY EmptySeq, LenProperties
<1>2. /\ Head(q) \in S /\ Tail(q) \in Seq(S) /\ Len(Tail(q)) = Len(q) - 1
      /\ \A i \in 1 .. Len(Tail(q)) : Tail(q)[i] = q[i + 1]
  BY HeadTailProperties
<1>3. Head(q) = q[1]
  OBVIOUS
<1>4. Range(q) = {q[i] : i \in 1 .. Len(q)}
  BY RangeEquality
<1>5. Range(Tail(q)) = {Tail(q)[i] : i \in 1 .. Len(Tail(q))}
  BY <1>2, RangeEquality
<1>6. ASSUME NEW i \in 1 .. Len(q), i # 1 PROVE q[i] \in Range(Tail(q))
  <2>1. i - 1 \in 1 .. Len(Tail(q)) /\ Tail(q)[i - 1] = q[i]
    BY <1>1, <1>2, <1>6
  <2> QED BY <1>5, <2>1
<1> QED BY <1>2, <1>3, <1>4, <1>6

LEMMA AudienceInit == Init => AudienceInv
<1> SUFFICES ASSUME Init PROVE AudienceInv
  OBVIOUS
<1>1. user \in Users /\ <<>> \in Seq(Users)
  BY RoutingAssumption DEF Init, RoutingAssumption
<1> QED BY <1>1 DEF Init, NoRepeaters, AudienceInv, Types, Asking, InVain, Excluded, Served, Known

\* The invariant depends on the caches only through what is found about steady users.
LEMMA CachesChange ==
    ASSUME AudienceInv, UNCHANGED talkVars, steady' \subseteq steady,
           \A u \in steady', m \in Networks : Data(m, u)' = Data(m, u)
    PROVE  AudienceInv'
<1>0. UNCHANGED <<phase, subs, user, asked, exclude, todo, repeaters, left>>
  BY DEF talkVars
<1>1. ASSUME NEW u \in steady'
      PROVE  /\ u \in steady
             /\ Where(u)' = Where(u) /\ Routes(u)' = Routes(u)
             /\ Certain(u)' => Certain(u)
             /\ \A m \in Networks : caches'[m].userRptr[u] = caches[m].userRptr[u]
  <2>1. \A m \in Networks : Data(m, u)' = Data(m, u)
    BY <1>1
  <2>2. \A m \in Networks : /\ Data(m, u).rptr = caches[m].userRptr[u]
                            /\ Data(m, u)'.rptr = caches'[m].userRptr[u]
    BY DEF Data
  <2>3. \A m \in Networks : caches'[m].userRptr[u] = caches[m].userRptr[u]
    BY <2>1, <2>2
  <2>4. Where(u)' = Where(u)
    BY <2>3 DEF Where
  <2>5. Routes(u)' = Routes(u)
    BY <2>1 DEF Routes
  <2> QED BY <2>3, <2>4, <2>5 DEF Certain
<1>2. Types' /\ Asking'
  BY <1>0 DEF AudienceInv, Types, Asking
<1>3. InVain'
  BY <1>0, <1>1 DEF AudienceInv, Types, InVain
<1>4. \A u : Certain(u)' => u \in steady'
  BY DEF Certain
<1>5. Excluded'
  BY <1>0, <1>1, <1>4 DEF AudienceInv, Excluded
<1>6. Served'
  BY <1>0, <1>1, <1>4 DEF AudienceInv, Served
<1>7. Known'
  <2> SUFFICES ASSUME phase \in {"collect", "talk"}, NEW r \in DOMAIN repeaters \ left
               PROVE  \E u \in subs : u \in steady' => r \in Where(u)' /\ repeaters[r] \in Routes(u)'
    BY <1>0 DEF Known
  <2>1. PICK u \in subs : u \in steady => r \in Where(u) /\ repeaters[r] \in Routes(u)
    BY DEF AudienceInv, Known
  <2> QED BY <1>1, <2>1
<1> QED BY <1>2, <1>3, <1>5, <1>6, <1>7 DEF AudienceInv

LEMMA IRCAudience ==
    ASSUME AudienceInv, IRC \/ Dismiss \/ AskAddress \/ (\E u \in Talkers : BeginAck(u))
                            \/ (\E text \in Texts, lost \in Losses : SendAck(text, lost)) \/ UNCHANGED vars
    PROVE  AudienceInv'
<1>1. ASSUME NEW n, NEW c, Write(n, c) PROVE AudienceInv'
  BY <1>1, CachesChange DEF Write
<1>2. CASE IRC
  BY <1>1, <1>2 DEF IRC, Row, UserHeard, GateUp, GateDown
<1>3. CASE UNCHANGED <<talkVars, caches, steady>>
  <2>1. \A u, m : Data(m, u)' = Data(m, u)
    BY <1>3 DEF Data
  <2> QED BY <1>3, <2>1, CachesChange
<1> QED BY <1>2, <1>3 DEF Dismiss, AskAddress, BeginAck, SendAck, vars

LEMMA BeginAudience ==
    ASSUME AudienceInv, BeginTalk \/ EndCollect \/ EndTalk \/ \E u \in Users : DropUser(u)
    PROVE  AudienceInv'
<1>1. CASE BeginTalk
  <2>1. user' \in Users /\ subs' \subseteq Users /\ asked' = {}
    BY <1>1, RoutingAssumption DEF BeginTalk, RoutingAssumption, AudienceInv, Types, Asking
  <2>2. todo' \in Seq(subs') /\ subs' \subseteq Range(todo')
    BY <1>1, <2>1, InOrder DEF BeginTalk
  <2> QED BY <1>1, <2>1, <2>2 DEF BeginTalk, AudienceInv, Types, Asking, InVain, Excluded, Served, Known
<1>2. CASE EndCollect
  <2>1. \A u : /\ Where(u)' = Where(u) /\ Routes(u)' = Routes(u) /\ Certain(u)' = Certain(u)
    BY <1>2 DEF EndCollect, Where, Routes, Data, Certain
  <2>2. Types' /\ Asking' /\ InVain'
    BY <1>2 DEF EndCollect, AudienceInv, Types, Asking, InVain
  <2>3. Excluded' /\ Known'
    BY <1>2, <2>1 DEF EndCollect, AudienceInv, Excluded, Known
  <2>4. Served'
    <3>0. UNCHANGED <<subs, todo, repeaters, exclude>> /\ phase = "collect"
      BY <1>2 DEF EndCollect
    <3> SUFFICES ASSUME NEW u \in subs \ Range(todo), Certain(u), Routes(u) # {}
                 PROVE  Where(u) \subseteq DOMAIN repeaters \cup {exclude}
      BY <2>1, <3>0 DEF Served
    <3> QED BY <3>0 DEF AudienceInv, Served
  <2> QED BY <2>2, <2>3, <2>4 DEF AudienceInv
<1>3. CASE EndTalk
  <2>1. Types' /\ Asking' /\ InVain'
    BY <1>3 DEF EndTalk, NoRepeaters, AudienceInv, Types, Asking, InVain
  <2> QED BY <1>3, <2>1 DEF EndTalk, AudienceInv, Excluded, Served, Known
<1>4. ASSUME NEW u \in Users, DropUser(u) PROVE AudienceInv'
  <2>1. todo = <<>> /\ asked = {}
    BY <1>4 DEF DropUser, AudienceInv, Asking
  <2>2. Types' /\ Asking' /\ InVain'
    BY <1>4, <2>1 DEF DropUser, AudienceInv, Types, Asking, InVain
  <2> QED BY <1>4, <2>2 DEF DropUser, AudienceInv, Excluded, Served, Known
<1> QED BY <1>1, <1>2, <1>3, <1>4

\* The talker: the repeater that is left out is the one he was found at.
LEMMA ExcludeAudience ==
    ASSUME AudienceInv, NEW n \in Networks, FindExclude(n)
    PROVE  AudienceInv'
<1>0. /\ phase = "exclude" /\ n \in Networks \ asked
      /\ exclude' = caches[n].userRptr[user]
      /\ UNCHANGED <<subs, user, todo, repeaters, left, caches, steady>>
      /\ DOMAIN repeaters \subseteq left /\ subs \subseteq Range(todo) /\ Types /\ asked \subseteq Networks
      /\ user \in steady => \A m \in asked : caches[m].userRptr[user] = Empty
  BY DEF FindExclude, Turn, AudienceInv, Asking, Types, InVain
<1>1. \A u : Where(u)' = Where(u) /\ Certain(u)' = Certain(u)
  BY <1>0 DEF Where, Certain
<1>2. DOMAIN repeaters' \ left' = {}
  BY <1>0
<1>3. subs' \ Range(todo') = {}
  BY <1>0
<1>4. CASE exclude' = Empty /\ ~IsLast(n)
  <2>1. asked' = asked \cup {n} /\ phase' = phase
    BY <1>4 DEF FindExclude
  <2>2. Types' /\ Asking'
    BY <1>0, <2>1 DEF Types, Asking, AudienceInv
  <2>3. InVain'
    BY <1>0, <1>4, <2>1 DEF InVain
  <2> QED BY <1>0, <2>1, <2>2, <2>3 DEF AudienceInv, Excluded, Served, Known
<1>5. CASE ~(exclude' = Empty /\ ~IsLast(n))
  <2>1. asked' = {} /\ phase' = "collect"
    BY <1>5 DEF FindExclude
  <2>2. Types' /\ Asking' /\ InVain'
    BY <1>0, <2>1 DEF Types, Asking, InVain
  <2>3. ASSUME Certain(user) PROVE Where(user) = {exclude'}
    <3>1. PICK r : Where(user) = {r}
      BY <2>3, OneRepeater DEF Certain
    <3>2. CASE exclude' # Empty
      BY <1>0, <3>1, <3>2 DEF Where
    <3>3. CASE exclude' = Empty
      <4>1. Networks = asked \cup {n} /\ \A m \in asked : caches[m].userRptr[user] = Empty
        BY <1>0, <1>5, <2>3, <3>3 DEF IsLast, Certain
      <4>2. Where(user) = {}
        BY <1>0, <3>3, <4>1 DEF Where
      <4> QED BY <3>1, <4>2
    <3> QED BY <3>2, <3>3
  <2>4. Excluded'
    BY <1>0, <1>1, <1>2, <2>3 DEF Excluded
  <2>5. Served' /\ Known'
    BY <1>2, <1>3 DEF Served, Known
  <2> QED BY <2>2, <2>4, <2>5 DEF AudienceInv
<1> QED BY <1>4, <1>5

\* A subscriber.
LEMMA CollectAudience ==
    ASSUME AudienceInv, NEW n \in Networks, Collect(n)
    PROVE  AudienceInv'
<1> DEFINE h == Head(todo)
           d == Data(n, h)
<1>0. /\ phase = "collect" /\ phase' = "collect" /\ todo # <<>> /\ n \in Networks \ asked
      /\ UNCHANGED <<subs, user, exclude, left, caches, steady>>
      /\ todo \in Seq(subs) /\ Types /\ asked \subseteq Networks
      /\ h \in steady => \A m \in asked : Data(m, h).addr = Empty
      /\ Certain(user) => Where(user) = {exclude}
      /\ exclude \notin DOMAIN repeaters \ left
  BY DEF Collect, Turn, AudienceInv, Types, InVain, Excluded
<1>1. \A u : Where(u)' = Where(u) /\ Certain(u)' = Certain(u) /\ Routes(u)' = Routes(u)
  BY <1>0 DEF Where, Certain, Routes, Data
<1>2. /\ h \in subs /\ Tail(todo) \in Seq(subs)
      /\ \A u \in Range(todo) : u = h \/ u \in Range(Tail(todo))
  BY <1>0, Left
<1>3. CASE d.addr = Empty /\ ~IsLast(n)
  <2>1. asked' = asked \cup {n} /\ UNCHANGED <<todo, repeaters>>
    BY <1>3 DEF Collect
  <2>2. Types' /\ Asking'
    BY <1>0, <2>1 DEF Types, Asking
  <2>3. InVain'
    <3>1. \A m : Data(m, h)' = Data(m, h)
      BY <1>0, <2>1 DEF Data
    <3> QED BY <1>0, <1>3, <2>1, <3>1 DEF InVain
  <2>4. Excluded' /\ Served' /\ Known'
    BY <1>0, <1>1, <2>1 DEF AudienceInv, Excluded, Served, Known
  <2> QED BY <2>2, <2>3, <2>4 DEF AudienceInv
<1>4. CASE ~(d.addr = Empty /\ ~IsLast(n))
  <2>1. asked' = {} /\ todo' = Tail(todo) /\ Include(d)
    BY <1>4 DEF Collect
  <2>2. Types' /\ Asking' /\ InVain'
    BY <1>0, <1>2, <2>1 DEF Types, Asking, InVain
  <2>3. /\ DOMAIN repeaters \subseteq DOMAIN repeaters'
        /\ \A r \in DOMAIN repeaters : repeaters'[r] = repeaters[r]
        /\ DOMAIN repeaters' \subseteq DOMAIN repeaters \cup {d.rptr}
        /\ exclude \notin DOMAIN repeaters' \ left
        /\ d.addr # Empty => d.rptr \in DOMAIN repeaters' \cup {exclude}
        /\ \A r \in DOMAIN repeaters' \ DOMAIN repeaters :
                d.addr # Empty /\ r = d.rptr /\ repeaters'[r] = <<d.gate, d.addr>>
    <3> HIDE DEF d
    <3>1. CASE d.addr # Empty /\ d.rptr \notin DOMAIN repeaters \cup {exclude}
      BY <1>0, <2>1, <3>1 DEF Include
    <3>2. CASE ~(d.addr # Empty /\ d.rptr \notin DOMAIN repeaters \cup {exclude})
      BY <1>0, <2>1, <3>2 DEF Include
    <3> QED BY <3>1, <3>2
  <2>4. d.addr # Empty => d.rptr \in Where(h) /\ <<d.gate, d.addr>> \in Routes(h)
    BY Found
  <2>5. Excluded'
    BY <1>0, <1>1, <2>3 DEF Excluded
  <2>6. Served'
    <3> SUFFICES ASSUME NEW u \in subs \ Range(Tail(todo)), Certain(u), Routes(u) # {}
                 PROVE  Where(u) \subseteq DOMAIN repeaters' \cup {exclude}
      BY <1>0, <1>1, <2>1 DEF Served
    <3>1. CASE u \notin Range(todo)
      BY <1>0, <2>3, <3>1 DEF AudienceInv, Served
    <3>2. CASE u = h
      <4>1. PICK r : Where(h) = {r}
        BY <3>2, OneRepeater DEF Certain
      <4>2. CASE d.addr # Empty
        BY <2>3, <2>4, <3>2, <4>1, <4>2
      <4>3. CASE d.addr = Empty
        <5>1. Networks = asked \cup {n} /\ \A m \in Networks : Data(m, h).addr = Empty
          BY <1>0, <1>4, <3>2, <4>3 DEF IsLast, Certain
        <5>2. Routes(h) = {}
          BY <5>1 DEF Routes
        <5> QED BY <3>2, <5>2
      <4> QED BY <4>2, <4>3
    <3> QED BY <1>2, <3>1, <3>2
  <2>7. Known'
    <3> SUFFICES ASSUME NEW r \in DOMAIN repeaters' \ left
                 PROVE  \E u \in subs : u \in steady => r \in Where(u) /\ repeaters'[r] \in Routes(u)
      BY <1>0, <1>1 DEF Known
    <3>1. CASE r \in DOMAIN repeaters
      BY <1>0, <2>3, <3>1 DEF AudienceInv, Known
    <3>2. CASE r \notin DOMAIN repeaters
      BY <1>2, <2>3, <2>4, <3>2
    <3> QED BY <3>1, <3>2
  <2> QED BY <2>2, <2>5, <2>6, <2>7 DEF AudienceInv
<1> QED BY <1>3, <1>4

LEMMA AudienceStep == AudienceInv /\ [Next]_vars => AudienceInv'
BY IRCAudience, BeginAudience, ExcludeAudience, CollectAudience DEF Next, MainThread

\* A talk reaches every subscriber who can be reached and is at another repeater than
\* the talker, by a way a network knows, and no other repeater but those the drop of an
\* earlier talker has left in the list: however many users there are, and whatever is
\* written between the lookups about those not steady.
THEOREM AudienceIsRight == Spec => []AudienceRight
<1>1. AudienceInv => AudienceRight
  <2> SUFFICES ASSUME AudienceInv, phase = "talk", Certain(user) PROVE
        /\ \A r \in Where(user) : r \notin DOMAIN repeaters \ left
        /\ \A u \in subs :
              (Certain(u) /\ Where(u) # Where(user) /\ Routes(u) # {}) =>
                  Where(u) \subseteq DOMAIN repeaters
        /\ (\A u \in subs : Certain(u)) =>
              \A r \in DOMAIN repeaters \ left :
                  \E u \in subs : Where(u) = {r} /\ repeaters[r] \in Routes(u)
    BY DEF AudienceRight
  <2>1. Where(user) = {exclude} /\ exclude \notin DOMAIN repeaters \ left
    BY DEF AudienceInv, Excluded
  <2>2. ASSUME NEW u \in subs, Certain(u), Where(u) # Where(user), Routes(u) # {}
        PROVE  Where(u) \subseteq DOMAIN repeaters
    <3>1. u \notin Range(todo)
      BY DEF AudienceInv, Asking, Range
    <3>2. Where(u) \subseteq DOMAIN repeaters \cup {exclude}
      BY <2>2, <3>1 DEF AudienceInv, Served
    <3>3. PICK r : Where(u) = {r}
      BY <2>2, OneRepeater DEF Certain
    <3> QED BY <2>1, <2>2, <3>2, <3>3
  <2>3. ASSUME \A u \in subs : Certain(u), NEW r \in DOMAIN repeaters \ left
        PROVE  \E u \in subs : Where(u) = {r} /\ repeaters[r] \in Routes(u)
    <3>1. PICK u \in subs : u \in steady => r \in Where(u) /\ repeaters[r] \in Routes(u)
      BY DEF AudienceInv, Known
    <3>2. PICK q : Where(u) = {q}
      BY <2>3, OneRepeater DEF Certain
    <3> QED BY <2>3, <3>1, <3>2 DEF Certain
  <2> QED BY <2>1, <2>2, <2>3
<1> QED BY <1>1, AudienceInit, AudienceStep, PTL DEF Spec
=============================================================================
