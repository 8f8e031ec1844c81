------------------------- MODULE ProtocolPoolProofs -------------------------
(***************************************************************************)
(* Lemmas about a pool of protocol handlers, for whoever uses one: what    *)
(* its operations do to the place where read() stands, and to the handlers *)
(* that have been read in a round.  A port is a number other than zero,    *)
(* which stands for the end of the map.                                    *)
(***************************************************************************)
EXTENDS ProtocolPool, WellFoundedInduction, TLAPS

PortNumbers == Ports \subseteq Nat \ {0}

PoolOK == TypeOK /\ IndexLive

\* The handlers the reader has passed in this round, all of them when it is at
\* the end, had no data or a read that failed.
PassedRead == \A q \in open : (index = End \/ q < index) => q \in found \cup cut
-----------------------------------------------------------------------------
(***************************************************************************)
(* From.                                                                   *)
(***************************************************************************)

\* A set of numbers has a least one.
LEMMA LeastExists ==
    ASSUME NEW T, T \subseteq Nat, T # {}
    PROVE  \E q \in T : \A r \in T : q <= r
<1> DEFINE R == OpToRel(<, Nat)
<1>1. IsWellFoundedOn(R, Nat)
  BY NatLessThanWellFounded
<1>2. \A x, y \in Nat : <<y, x>> \in R <=> y < x
  BY DEF OpToRel
<1>. HIDE DEF R
<1>3. PICK x \in T : \A y \in T : ~ (<<y, x>> \in R)
  BY <1>1, WFMin
<1>4. \A y \in T : ~ (y < x)
  BY <1>2, <1>3
<1>. QED BY <1>3, <1>4

\* From is the least member that is not below p, and the end if there is none.
LEMMA FromIsLeast ==
    ASSUME NEW S, S \subseteq Nat \ {0}, NEW p \in Nat
    PROVE  /\ From(p, S) \in S \cup {End}
           /\ From(p, S) = End => \A q \in S : q < p
           /\ From(p, S) # End => /\ p <= From(p, S)
                                  /\ \A q \in S : p <= q => From(p, S) <= q
<1> DEFINE later == {q \in S : p <= q}
<1>1. CASE later = {}
  BY <1>1 DEF From, End
<1>2. CASE later # {}
  <2>1. \E q \in later : \A r \in later : q <= r
    BY <1>2, LeastExists
  <2>2. From(p, S) \in later /\ \A r \in later : From(p, S) <= r
    BY <1>2, <2>1 DEF From
  <2>. QED BY <2>2 DEF End
<1>. QED BY <1>1, <1>2

\* A reader that starts over has nothing behind it.
LEMMA StartsOver ==
    ASSUME NEW S, S \subseteq Nat \ {0}
    PROVE  /\ From(1, S) \in S \cup {End}
           /\ From(1, S) = End => S = {}
           /\ From(1, S) # End => \A q \in S : ~ (q < From(1, S))
<1>1. \A q \in S : q \in Nat /\ 1 <= q
  OBVIOUS
<1>2. /\ From(1, S) \in S \cup {End}
      /\ From(1, S) = End => \A q \in S : q < 1
      /\ From(1, S) # End => \A q \in S : 1 <= q => From(1, S) <= q
  BY FromIsLeast
<1>3. From(1, S) = End => S = {}
  BY <1>1, <1>2
<1>4. ASSUME From(1, S) # End, NEW q \in S
      PROVE  ~ (q < From(1, S))
  <2>1. From(1, S) \in Nat /\ From(1, S) <= q
    BY <1>1, <1>2, <1>4
  <2>. QED BY <2>1, <1>1
<1>. QED BY <1>2, <1>3, <1>4
-----------------------------------------------------------------------------
(***************************************************************************)
(* The operations.                                                         *)
(***************************************************************************)

LEMMA InitOK ==
    ASSUME Init
    PROVE  PoolOK /\ index = End
BY DEF Init, PoolOK, TypeOK, IndexLive, open, End

\* getHandler() adds a handler that nobody has read yet, behind the reader's back.
LEMMA GetHandlerOK ==
    ASSUME PoolOK, NEW p \in Ports, getHandler(p)
    PROVE  PoolOK' /\ index' = index
<1>1. open' = open \cup {p}
  BY DEF getHandler, open
<1>2. \A q \in open' : waiting'[q] \in Seq(Datagrams)
  BY DEF getHandler, open, PoolOK, TypeOK
<1>. QED BY <1>1, <1>2 DEF getHandler, PoolOK, TypeOK, IndexLive

\* What Restrict leaves of the pool.
LEMMA ReleasedPool ==
    ASSUME PoolOK, NEW S \in SUBSET open, waiting' = Restrict(waiting, open \ S)
    PROVE  /\ open' = open \ S
           /\ open' \subseteq Ports
           /\ \A p \in open' : waiting'[p] \in Seq(Datagrams)
<1>1. open' = open \ S /\ \A p \in open \ S : waiting'[p] = waiting[p]
  BY DEF Restrict, open
<1>. QED BY <1>1 DEF PoolOK, TypeOK

\* Where the reader stands after a release: at a handler that is left, with no
\* other one in between.
LEMMA ReleasedIndex ==
    ASSUME PortNumbers, PoolOK, NEW S \in SUBSET open
    PROVE  /\ Released(S) \in (open \ S) \cup {End}
           /\ index = End => Released(S) = End
           /\ (Released(S) # End /\ index # End) =>
                  \A q \in open \ S : q < Released(S) => q < index
<1>1. open \ S \subseteq Nat \ {0}
  BY DEF PoolOK, TypeOK, PortNumbers
<1>2. CASE index \in S
  <2>1. index \in Nat \ {0} /\ Released(S) = From(index, open \ S)
    BY <1>2, <1>1 DEF Released, PoolOK, TypeOK, PortNumbers
  <2>2. Released(S) \in (open \ S) \cup {End}
    BY <2>1, <1>1, FromIsLeast
  <2>3. ASSUME Released(S) # End, NEW q \in open \ S, q < Released(S)
        PROVE  q < index
    <3>1. index <= q => Released(S) <= q
      BY <2>1, <2>3, <1>1, FromIsLeast
    <3>2. q \in Nat /\ Released(S) \in Nat
      BY <1>1, <2>2, <2>3
    <3>. QED BY <2>1, <2>3, <3>1, <3>2
  <2>. QED BY <2>1, <2>2, <2>3 DEF End
<1>3. CASE index \notin S
  BY <1>3 DEF Released, PoolOK, IndexLive
<1>. QED BY <1>2, <1>3

\* release() outside a round.
LEMMA ReleaseOK ==
    ASSUME PortNumbers, PoolOK, NEW S \in SUBSET open, release(S)
    PROVE  PoolOK' /\ (index = End => index' = End)
<1>1. /\ open' = open \ S
      /\ open' \subseteq Ports
      /\ \A p \in open' : waiting'[p] \in Seq(Datagrams)
  BY ReleasedPool DEF release
<1>2. index' \in open' \cup {End} /\ (index = End => index' = End)
  BY <1>1, ReleasedIndex DEF release
<1>. QED BY <1>1, <1>2 DEF release, PoolOK, TypeOK, IndexLive

\* A round starts at the first handler.
LEMMA BeginOK ==
    ASSUME PortNumbers, PoolOK, index = End, Begin
    PROVE  PoolOK' /\ PassedRead'
<1>1. open \subseteq Nat \ {0}
  BY DEF PoolOK, TypeOK, PortNumbers
<1>2. index' = From(1, open) /\ waiting' = waiting /\ found' = found /\ cut' = cut /\ open' = open
  BY DEF Begin, Entered, open
<1>3. /\ From(1, open) \in open \cup {End}
      /\ From(1, open) = End => open = {}
      /\ From(1, open) # End => \A q \in open : ~ (q < From(1, open))
  BY <1>1, StartsOver
<1>4. PoolOK'
  BY <1>2, <1>3 DEF PoolOK, TypeOK, IndexLive
<1>5. PassedRead'
  BY <1>2, <1>3 DEF PassedRead
<1>. QED BY <1>4, <1>5

\* readPackets() takes a datagram from the handler the reader stands at.
LEMMA TakeOK ==
    ASSUME PoolOK, PassedRead, NEW d, Take(d)
    PROVE  PoolOK' /\ PassedRead' /\ index' # End /\ d \in Datagrams
<1>1. /\ index \in open /\ index # End /\ index' = index /\ found' = found
      /\ cut' = cut /\ open' = open
      /\ waiting[index] \in Seq(Datagrams) /\ waiting[index] # <<>>
  BY DEF Take, PoolOK, TypeOK, IndexLive, open
<1>2. d \in Datagrams /\ Tail(waiting[index]) \in Seq(Datagrams)
  BY <1>1 DEF Take
<1>3. \A p \in open : waiting'[p] = IF p = index THEN Tail(waiting[index]) ELSE waiting[p]
  BY <1>1 DEF Take, open
<1>4. \A p \in open' : waiting'[p] \in Seq(Datagrams)
  BY <1>1, <1>2, <1>3 DEF PoolOK, TypeOK
<1>. QED BY <1>1, <1>2, <1>4 DEF PoolOK, TypeOK, IndexLive, PassedRead

\* The next handler is the only one the reader has passed when it stands there.
LEMMA StepsOn ==
    ASSUME PortNumbers, PoolOK, index # End
    PROVE  /\ index \in open
           /\ Passed \in open \cup {End}
           /\ \A q \in open : (Passed = End \/ q < Passed) => (q = index \/ q < index)
<1>1. open \subseteq Nat \ {0}
  BY DEF PoolOK, TypeOK, PortNumbers
<1>2. index \in open /\ index \in Nat \ {0} /\ index + 1 \in Nat
  BY <1>1 DEF PoolOK, IndexLive
<1>3. /\ Passed \in open \cup {End}
      /\ Passed = End => \A q \in open : q < index + 1
      /\ Passed # End => \A q \in open : index + 1 <= q => Passed <= q
  BY <1>1, <1>2, FromIsLeast DEF Passed
<1>4. ASSUME NEW q \in open, Passed = End \/ q < Passed
      PROVE  q = index \/ q < index
  <2>1. q < index + 1
    <3>1. CASE Passed = End
      BY <3>1, <1>3, <1>4
    <3>2. CASE Passed # End
      <4>1. q \in Nat /\ Passed \in Nat
        BY <1>1, <1>3, <3>2
      <4>. QED BY <1>2, <1>3, <1>4, <3>2, <4>1
    <3>. QED BY <3>1, <3>2
  <2>. QED BY <2>1, <1>1, <1>2
<1>. QED BY <1>2, <1>3, <1>4

\* The reader steps on, and has passed one more handler without data.
LEMMA PassOK ==
    ASSUME PortNumbers, PoolOK, PassedRead, Pass
    PROVE  PoolOK' /\ PassedRead'
<1>1. /\ index # End /\ index' = Passed /\ waiting' = waiting /\ open' = open
      /\ found' = found \cup {index} /\ cut' = cut
  BY DEF Pass, open
<1>2. PoolOK'
  BY <1>1, StepsOn DEF PoolOK, TypeOK, IndexLive
<1>3. PassedRead'
  BY <1>1, StepsOn DEF PassedRead
<1>. QED BY <1>2, <1>3

\* The reader steps on, and has passed one more handler, whose read failed; a
\* datagram without a byte is gone.
LEMMA CutOK ==
    ASSUME PortNumbers, PoolOK, PassedRead, Cut
    PROVE  PoolOK' /\ PassedRead'
<1>1. /\ index # End /\ index' = Passed /\ found' = found /\ cut' = cut \cup {index}
      /\ index \in open
  BY StepsOn DEF Cut
<1>2. /\ open' = open
      /\ \A p \in open : waiting'[p] \in Seq(Datagrams)
  <2>1. \A p \in open : waiting[p] \in Seq(Datagrams)
    BY DEF PoolOK, TypeOK
  <2>2. CASE waiting' = waiting
    BY <2>1, <2>2 DEF open
  <2>3. CASE waiting[index] # <<>> /\ waiting' = [waiting EXCEPT ![index] = Tail(@)]
    <3>1. Tail(waiting[index]) \in Seq(Datagrams)
      BY <1>1, <2>1, <2>3
    <3>2. /\ open' = open
          /\ \A p \in open : waiting'[p] = IF p = index THEN Tail(waiting[index]) ELSE waiting[p]
      BY <2>3 DEF open
    <3>. QED BY <2>1, <3>1, <3>2
  <2>. QED BY <2>2, <2>3 DEF Cut
<1>3. PoolOK'
  BY <1>1, <1>2, StepsOn DEF PoolOK, TypeOK, IndexLive
<1>4. PassedRead'
  BY <1>1, <1>2, StepsOn DEF PassedRead
<1>. QED BY <1>3, <1>4

\* Handlers are released while a datagram is processed, and the round goes on.
LEMMA ResumeOK ==
    ASSUME PortNumbers, PoolOK, PassedRead, index # End, NEW S \in SUBSET open, Resume(S)
    PROVE  PoolOK' /\ PassedRead'
<1>1. /\ open' = open \ S
      /\ open' \subseteq Ports
      /\ \A p \in open' : waiting'[p] \in Seq(Datagrams)
  BY ReleasedPool DEF Resume
<1>2. open \ S \subseteq Nat \ {0}
  BY DEF PoolOK, TypeOK, PortNumbers
<1>3. index' = Entered(Released(S), open \ S) /\ found' = found /\ cut' = cut
  BY DEF Resume, Resumed
<1>4. CASE Released(S) = End
  <2>1. index' = From(1, open \ S)
    BY <1>3, <1>4 DEF Entered
  <2>2. /\ index' \in (open \ S) \cup {End}
        /\ index' = End => open \ S = {}
        /\ index' # End => \A q \in open \ S : ~ (q < index')
    BY <2>1, <1>2, StartsOver
  <2>3. PassedRead'
    BY <2>2, <1>1 DEF PassedRead
  <2>. QED BY <2>2, <2>3, <1>1, <1>3 DEF PoolOK, TypeOK, IndexLive
<1>5. CASE Released(S) # End
  <2>1. index' = Released(S)
    BY <1>3, <1>5 DEF Entered
  <2>2. index' \in open \ S /\ \A q \in open \ S : q < index' => q < index
    BY <2>1, <1>5, ReleasedIndex
  <2>3. PassedRead'
    BY <2>1, <2>2, <1>1, <1>3, <1>5 DEF PassedRead
  <2>. QED BY <2>2, <2>3, <1>1, <1>3 DEF PoolOK, TypeOK, IndexLive
<1>. QED BY <1>4, <1>5

\* A round that is over has read every handler until there was no data or a read
\* failed.
LEMMA FinishOK ==
    ASSUME PoolOK, PassedRead, Finish
    PROVE  PoolOK' /\ index' = End /\ open \subseteq found \cup cut
BY DEF Finish, PoolOK, TypeOK, IndexLive, PassedRead, open

LEMMA ArriveOK ==
    ASSUME PoolOK, NEW p, NEW d \in Datagrams, Arrive(p, d)
    PROVE  PoolOK' /\ index' = index /\ (PassedRead => PassedRead')
<1>1. /\ p \in open /\ index' = index /\ found' = found /\ cut' = cut /\ open' = open
      /\ waiting[p] \in Seq(Datagrams)
  BY DEF Arrive, PoolOK, TypeOK, open
<1>2. Append(waiting[p], d) \in Seq(Datagrams)
  BY <1>1
<1>3. \A q \in open : waiting'[q] = IF q = p THEN Append(waiting[p], d) ELSE waiting[q]
  BY <1>1 DEF Arrive, open
<1>4. \A q \in open' : waiting'[q] \in Seq(Datagrams)
  BY <1>1, <1>2, <1>3 DEF PoolOK, TypeOK
<1>. QED BY <1>1, <1>4 DEF PoolOK, TypeOK, IndexLive, PassedRead

LEMMA PoolUnchanged ==
    ASSUME PoolOK, UNCHANGED poolVars
    PROVE  PoolOK' /\ index' = index /\ (PassedRead => PassedRead')
BY DEF poolVars, PoolOK, TypeOK, IndexLive, PassedRead, open
=============================================================================
