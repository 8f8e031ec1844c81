---------------------------- MODULE ProtocolPool ----------------------------
(***************************************************************************)
(* A pool of protocol handlers (src/DExtraProtocolHandlerPool.cpp and its  *)
(* DCS twin, which have the same code): one socket for each link, and one  *)
(* reader for all of them that remembers where it stands.  The map is      *)
(* ordered by port.  The network puts datagrams into the sockets at any    *)
(* moment.                                                                 *)
(***************************************************************************)
EXTENDS Integers, Sequences, Functions

CONSTANTS
    Ports,          \* ports the system gives out
    Datagrams,      \* what the reflectors send
    EmptyDatagram,  \* the one without a byte in it
    MaxWaiting      \* datagrams a socket holds in the model

\* m_pool.end().
End == 0

VARIABLES
    waiting,    \* m_pool: port -> the datagrams that wait in its socket
    index,      \* m_index
    found,      \* history: the handlers found without data in this round
    cut         \* history: those whose last read in this round failed

poolVars == <<waiting, index, found, cut>>
open == DOMAIN waiting

TypeOK ==
    /\ open \subseteq Ports
    /\ \A p \in open : waiting[p] \in Seq(Datagrams)
    /\ index \in Ports \cup {End}
    /\ found \subseteq Ports
    /\ cut \subseteq Ports

\* The handler at port p or the next one after it.
From(p, S) ==
    LET later == {q \in S : p <= q}
    IN  IF later = {} THEN End ELSE CHOOSE q \in later : \A r \in later : q <= r

\* What read() finds when it is called with m_index at i.
Entered(i, S) == IF i = End THEN From(1, S) ELSE i

Init == waiting = [p \in {} |-> <<>>] /\ index = End /\ found = {} /\ cut = {}

\* getHandler().
getHandler(p) ==
    /\ p \in Ports \ open
    /\ waiting' = [q \in open \cup {p} |-> IF q = p THEN <<>> ELSE waiting[q]]
    /\ UNCHANGED <<index, found, cut>>

\* release() of the handlers of S: the reader steps over those it stands at.
Mut_Released(S) == index
Released(S) == IF index \in S THEN From(index, open \ S) ELSE index

release(S) ==
    /\ waiting' = Restrict(waiting, open \ S)
    /\ index' = Released(S)
    /\ UNCHANGED <<found, cut>>

\* The first call of read() in a turn of the main loop.
Begin ==
    /\ index' = Entered(index, open)
    /\ UNCHANGED <<waiting, found, cut>>

\* readPackets() takes the next datagram out of the socket.  One of a known
\* type is handed out, and m_index stays where it is; after another the next
\* one is taken.
Take(d) ==
    /\ index # End
    /\ waiting[index] # <<>>
    /\ d = Head(waiting[index])
    /\ d # EmptyDatagram
    /\ waiting' = [waiting EXCEPT ![index] = Tail(@)]
    /\ UNCHANGED <<index, found, cut>>

\* The socket is empty.
Mut_PassedAround == Entered(From(index + 1, open), open)   \* starts over at the end
Mut_PassedByOne == index + 1                               \* the next port, open or not
Passed == From(index + 1, open)

Pass ==
    /\ index # End
    /\ waiting[index] = <<>>
    /\ index' = Passed
    /\ found' = found \cup {index}
    /\ UNCHANGED <<waiting, cut>>

\* The socket gives -1: the read fails, or it takes out a datagram without a
\* byte.  readPackets() makes no difference between that and an empty socket, so
\* that the pool goes on to the next handler whatever waits behind it.
Cut ==
    /\ index # End
    /\ \/ UNCHANGED waiting
       \/ /\ waiting[index] # <<>>
          /\ Head(waiting[index]) = EmptyDatagram
          /\ waiting' = [waiting EXCEPT ![index] = Tail(@)]
    /\ index' = Passed
    /\ cut' = cut \cup {index}
    /\ UNCHANGED found

\* The handlers of S are released while a datagram is processed, and read() is
\* called again.
Mut_Resumed(S) == Entered(From(index + 1, open \ S), open \ S)  \* m_index++ after each
Resumed(S) == Entered(Released(S), open \ S)

Resume(S) ==
    /\ waiting' = Restrict(waiting, open \ S)
    /\ index' = Resumed(S)
    /\ UNCHANGED <<found, cut>>

\* Nothing is left to read.
Finish ==
    /\ index = End
    /\ found' = {}
    /\ cut' = {}
    /\ UNCHANGED <<waiting, index>>

Arrive(p, d) ==
    /\ p \in open
    /\ Len(waiting[p]) < MaxWaiting
    /\ waiting' = [waiting EXCEPT ![p] = Append(@, d)]
    /\ UNCHANGED <<index, found, cut>>

\* m_index is the end of the map or the place of a handler that exists.
IndexLive == index \in open \cup {End}
=============================================================================
