---------------------------- MODULE CacheManager ----------------------------
(***************************************************************************)
(* The cache: where users were last heard, which gateway a repeater has,   *)
(* which address a gateway has, and the names in the IRC channel.  Each    *)
(* public operation holds the mutex throughout, so it is one step.  An     *)
(* entry that a map of the code does not have is Empty here: the code      *)
(* never enters an empty string.                                           *)
(*                                                                         *)
(* A gateway is identified with the name it is entered under (the code     *)
(* pads it and appends a G), an address with the nick that reported it.    *)
(***************************************************************************)
EXTENDS Integers

CONSTANTS
    Servers,            \* IRC users whose names begin with s-
    Gateways,           \* names of gateways
    Numbers,            \* a gateway's nick is its name with one of these
    Reflectors,         \* gateways read from the hosts files
    Repeaters,
    Users,
    Home,               \* the gateway that has the name of a repeater
    HostsFile,          \* the address of a reflector
    Empty

Nicks == Servers \cup (Gateways \X Numbers)
Names == Servers \cup Gateways
NameOf(nick) == IF nick \in Servers THEN nick ELSE nick[1]

ASSUME CacheAssumption ==
    /\ Home \in [Repeaters -> Gateways]
    /\ Servers \cap Gateways = {}
    /\ Servers \cap (Gateways \X Numbers) = {}
    /\ Reflectors \cap Names = {}
    /\ Empty \notin Nicks \cup Gateways \cup Reflectors \cup Repeaters \cup {HostsFile}

Caches == [userRptr: [Users -> Repeaters \cup {Empty}],
           rptrGate: [Repeaters -> Gateways \cup {Empty}],
           gateAddr: [Names \cup Reflectors -> Nicks \cup {HostsFile, Empty}],
           nameNick: [Names -> Nicks \cup {Empty}]]

\* The cache after the hosts files have been read.
HostsRead == [userRptr |-> [u \in Users |-> Empty],
              rptrGate |-> [r \in Repeaters |-> Empty],
              gateAddr |-> [g \in Names \cup Reflectors |->
                              IF g \in Reflectors THEN HostsFile ELSE Empty],
              nameNick |-> [n \in Names |-> Empty]]

\* The callers of updateUser and updateRptr pass neither gateway nor address.
updateUser(c, u, r) == [c EXCEPT !.userRptr[u] = r]
updateRptr(c, r, g) == [c EXCEPT !.rptrGate[r] = g]
updateGate(c, g, a) == [c EXCEPT !.gateAddr[g] = a]
updateName(c, n, nick) == [c EXCEPT !.nameNick[n] = nick]
eraseGate(c, g) == [c EXCEPT !.gateAddr[g] = Empty]
eraseName(c, n) == [c EXCEPT !.nameNick[n] = Empty]

Mut_clearGate(c) == [c EXCEPT !.nameNick = [n \in DOMAIN @ |-> Empty]]     \* addresses stay
\* Reflectors are not erased.
clearGate(c) ==
    [c EXCEPT !.gateAddr = [g \in DOMAIN @ |-> IF g \in Reflectors THEN @[g] ELSE Empty],
              !.nameNick = [n \in DOMAIN @ |-> Empty]]

\* Whatever name beginning with s- the map has first.
ServerUsers(c) == {s \in Servers : c.nameNick[s] # Empty}

findRptrGate(c, r) ==
    IF r = Empty THEN Empty
    ELSE IF c.rptrGate[r] = Empty THEN Home[r] ELSE c.rptrGate[r]
findGateAddr(c, g) == IF g = Empty THEN Empty ELSE c.gateAddr[g]
findUserAddr(c, u) == findGateAddr(c, findRptrGate(c, c.userRptr[u]))
=============================================================================
