# A TLA+ model of the smart group server

The smart group server routes D-Star voice between the subscribers of *smart
groups*. A user subscribes to a group by transmitting to its callsign, hears
everybody who talks there on whatever repeater he was last heard on, and leaves
by transmitting to its logoff callsign or by being inactive. A group may be
linked to a reflector, over DExtra (XRF reflectors) or DCS, and an operator can
link and unlink it and drop users by remote control.

This directory models the program at the level where its difficulties are:
timers, lost end frames, stream ids that collide, objects shared between two
maps, reflectors that answer late or never, an operator who interferes at any
moment, threads that share variables without a lock, calls that block. The proofs are checked by TLAPS, the runs by TLC:

    tlc -config GroupHandler.cfg MCGroupHandler.tla
    tlapm GroupHandlerProofs.tla

`PROJECT.json` lists every run with its module, configuration and properties,
maps every definition to the lines of `src/` it translates, and lists the
hazards the properties are aimed at.

## 1. Inventory

### How the program runs

One thread, `CSGSThread::run`, does all the routing. Each turn of its loop reads
the ircDDB status, then G2 packets until there are none, then DExtra packets,
then DCS packets, then at most one remote control command; then it measures how
long the turn took and gives that time to every group, every DExtra handler and
every DCS handler; then it sleeps for 5 ms. So a handler is never interrupted by
another handler, and **one handler is one step** of the models; what interleaves
is the order of handlers, packets, commands and clocks. The exception is the
ircDDB client: for each of up to two IRC servers three threads (session,
connection, receiver) write the cache that the main thread reads, and share a
few variables and a queue with it.

Nothing is persisted. A crash loses everything and systemd starts the program
again.

### Components

| Component | Source | State it keeps | Operations | Modelled |
|---|---|---|---|---|
| Smart group | `GroupHandler.cpp` | `m_users`, `m_ids`, `m_id`, `m_repeaters`, timers | header and voice from G2, header and voice from the reflector, clock, logoff of one or all | `GroupHandler`; its lookups in the caches one by one in `Routing` |
| Link of a group | `GroupHandler.cpp` | `m_linkType`, `m_linkReflector`, `m_linkStatus`, `m_linkTimer` | link at start-up, `remoteLink`, `remoteUnlink`, `linkUp`, `linkRefused`, `linkFailed` | `GroupLink`, `Linking` |
| DExtra links | `DExtraHandler.cpp` | per link: reflector, state, stream, four timers, number of tries | `link`, `unlink`, header, voice, poll, connect packets, clock | `DExtraHandler`, for one group in `Linking`, for two in `SharedXRF` |
| DCS links | `DCSHandler.cpp` | the same | the same; headers travel inside voice frames | `DCSHandler` |
| Timer | `Timer.h`, `Timer.cpp` | counter and limit | start, stop, clock, hasExpired | `Timer` |
| Cache | `CacheManager.cpp` | five maps: user to time, user to repeater, repeater to gateway, gateway to address, name to nick | find, update, erase, clear, each under one mutex | `CacheManager`; its effect on a group in `GroupHandler` and `Routing` |
| ircDDB session | `IRCDDBApp.cpp` | state 0 to 10, current server, timers | `Entry` once a second; join, leave, query and channel messages | `IRCDDBApp` |
| IRC protocol | `IRCProtocol.cpp` | state 0 to 12, nick, timer | `processQueues` twice a second | `IRCClient` |
| IRC connection | `IRCClient.cpp`, `IRCReceiver.cpp`, `IRCMessageQueue.cpp` | state, the receive and send queues | connect, pump the queues, tear down and reconnect | `IRCClient`, `IRCSession` |
| Main loop | `SGSThread.cpp` | the objects above, `m_killed` | start-up, a turn, shutdown, signals | `SGSThread`, `Transport`; the granularity and the clock of the other modules |
| Remote control | `RemoteHandler.cpp` | none | list, link, unlink, drop, halt | `RemoteHandler` in `SGSThread`; what the commands do in `Linking` and `GroupHandler` |
| TLS server of the remote control | `TLSServer.cpp` | the server socket, the client's socket | accept, read, write, close | `RemoteHandler` |
| Protocol handler pools | `*ProtocolHandlerPool.cpp` | map from port to handler, index of the read round | open a port, release it, read the next packet | `ProtocolPool`, `Transport` |
| G2 protocol handler | `G2ProtocolHandler.cpp` | map from address to port | read, write, ping | `G2Protocol`, `Transport` |
| Frames | `HeaderData`, `AMBEData`, `ConnectData`, `PollData` | one message | encode, decode | `Packets` |
| Slow data and checksum | `SlowDataEncoder`, `CCITTChecksum` | one message being encoded | encode | text messages: `SlowDataEncoder` in `Routing` |
| TCP client | `TCPReaderWriterClient.cpp` | a socket | open, read, write, close | as far as the life of the server depends on it: `SGSThread` |
| UDP sockets | `UDPReaderWriter.cpp` | a socket | open, read, write, close | what a read gives: `ProtocolPool`, `G2Protocol` |
| Configuration, utilities, access lists, reports | the rest | - | strings | no |

### Interactions

* `CG2Handler` finds the group of a G2 header by its callsign, and that of a
  voice frame by the id of the stream the group is relaying.
* A reflector packet goes to the handler of its protocol whose address and ports
  match; the handler passes headers and frames on to its group with
  `process(..., DIR_INCOMING, AS_*)` and reports the fate of the link with
  `linkUp`, `linkRefused` and `linkFailed`. The group does not check which
  reflector a report is about.
* A group asks for a link with the static `link` of the protocol's handler class
  and gives it up with `unlink`; the reflector's address comes from the cache.
* A group asks the caches of one or two networks for the repeater and the address
  of each subscriber, at every header, every ping and every acknowledgement; each
  question takes the mutex for itself.
* A packet from an XRF reflector is offered to the handlers of all groups, which
  compare what it says with what they are.
* The remote control accepts and reads in the main thread: while a client says
  nothing, nothing else happens.

### What is hard here, and what correct means

* **Smart group.** Who has the group is one number, `m_id`; who hears it,
  `m_repeaters`, is collected when the talk starts and must be empty by then;
  whatever happens to the end frame, a timer must end the talk. A `CSGSUser` is
  pointed to by `m_users` and by any number of `CSGSId` records, and deleted in
  several places. Records act on the callsign of their user up to eight seconds after
  the event that made them. *Correct:* one talker at a time; no talk without a
  timer; nobody hears himself (the drop of a talker apart); a record never points to a deleted user; a
  subscription ends only for a reason and inactive users do go.
* **Links.** Answers of a reflector are lost, late or repeated; requests are
  repeated with a backoff; a poll inactivity timer declares a link dead and asks
  again, if the group looks as if it wanted that; unlinking takes two phases in
  DCS and one in DExtra. *Correct:* the handlers there are agree with what the
  group is set to and with the status that is shown; no handler waits for an answer,
  and no stream for its end, without a timer;
  unlink means unlink; a talk of a reflector does not outlive its link.
* **ircDDB client.** Threads that assign the same variables without a lock, a
  queue that is deleted while others may hold its address, a server user that
  leaves, the login dialogue with its timeouts. *Correct:* nobody uses a deleted
  queue; in standby there is a server; a lost connection always leads to a new
  one; entries of the cache are those of gateways that are there.
* **Routing.** Who is to hear a talk is put together from many lookups in two
  caches that other threads write to. *Correct:* as far as nothing changed
  meanwhile, everybody is served who can be, by a way that is known, and the
  talker's own repeater is not.
* **Life of the server.** Start-up waits for the networks, the remote control for
  its client, the shutdown for threads. *Correct:* the server stops when it is
  told to and leaves no user logged on, no reflector linked and no thread running.
* **Reading.** A pool of sockets is read by one reader that remembers its place
  while the packets it hands out delete handlers; hotspots change the port they
  send from. *Correct:* the place is always that of a live handler, no socket is
  passed over because of another one, a hotspot is answered where it was last heard, and reading ends.
* **Timeouts.** Zero means never, a counter of zero means stopped, the limit is
  one more than the time: every module is built on the same `Timer`.

## 2. Modules

| Module | What it is |
|---|---|
| `Timer` | `CTimer` as operators on a counter and a limit |
| `Floor` | the abstract contract of a group: one talker, an audience fixed when he starts |
| `GroupHandler` | a smart group with its users and stream records; implements `Floor` |
| `MCGroupHandler` | its small instances |
| `GroupHandlerProofs` | theorems about it |
| `GroupLink` | the link state of a group, the reports of the handlers, and the link record with the operations both protocols share |
| `DExtraHandler`, `DCSHandler` | the handlers of one protocol for one group |
| `Linking` | a group with both, the remote control and the clock |
| `MCLinking` | its small instances |
| `LinkingProofs` | theorems about it |
| `XRFGroup` | a group of `Linking` to which the packets of a host with several XRF modules are offered |
| `SharedXRF` | two of those |
| `MCSharedXRF` | a small instance |
| `SharedXRFProofs` | theorems about it |
| `CacheManager` | the maps of the cache and the operations on them |
| `IRCDDBApp` | the session with the ircDDB server: `Entry`, and what the other two threads call |
| `IRCClient` | a round of the IRC client's thread, with the protocol |
| `IRCSession` | the three threads with a server, a network and time |
| `MCIRCSession` | its small instances |
| `IRCSessionProofs` | theorems about it |
| `Packets` | what is written and read of the packets of G2, DExtra and DCS |
| `ProtocolPool` | the pool of protocol handlers and its reader, for either protocol |
| `ProtocolPoolProofs` | lemmas about it, for whoever uses one |
| `G2Protocol` | the G2 socket and its port map |
| `Transport` | the main loop reading G2 and two pools |
| `MCTransport` | its small instance |
| `TransportProofs` | theorems about it |
| `SlowDataEncoder` | text messages in slow data, the frames of an acknowledgement, and a receiver |
| `Routing` | the lookups of a group in the caches of two networks, for a talk and for an acknowledgement |
| `MCRouting` | its small instance |
| `RoutingProofs` | theorems about it |
| `RemoteHandler` | the remote control with its client and its sockets |
| `SGSThread` | the main thread from start-up to the end, with the threads of the ircDDB clients and the remote control |
| `MCServer` | its small instance |
| `SGSThreadProofs` | theorems about it |

Definitions whose name starts with `Mut_` are deliberately wrong versions of the
definition after them, of the kind a plausible bug would give. Replacing the one
by the other makes TLC find the property violated that `PROJECT.json` names
beside it; this shows that the property can fail.

### GroupHandler

| Variable | Code |
|---|---|
| `users` | `m_users`, callsign to the address of a `CSGSUser` |
| `heap` | the `CSGSUser` objects that are allocated and still reachable; a deleted one's address may be given out again |
| `ids` | the entries of `m_ids` with a `CSGSId` |
| `nullIds` | the keys of `m_ids` that `operator[]` has entered with a null pointer |
| `relayed`, `repeaters` | `m_id`, `m_repeaters` |
| `linkTimer`, `pingTimer` | the timers of these names |
| `rptrOf`, `located` | what the cache says of users and gateways |
| `left` | history: the entries of `m_repeaters` that have been there since a talker was dropped |

Each handler is an action: `process(CHeaderData&)` is split by its branches into
`Subscribe`, `Speak`, `DuplicateHeader` and `Unsubscribe`, `process(CAMBEData&)`
is `G2Voice`, the two handlers of reflector traffic are `ReflectorHeader` and
`ReflectorVoice`, `LogoffUser` is `LogoffUser(u)` and `LogoffAll`, and
`clockInt` is `Clock(d)`, for a turn of the main loop that took d. The IRC
threads are `UserHeard`, `GateUp` and `GateDown`. Using a deleted user is
undefined: it either changes nothing the model sees or kills the program
(`G2VoiceFault`, `ClockFault`), which starts again. So is the address that
`process(CHeaderData&)` reads, at a logoff, from the map node it has just erased:
it is still there (`Unsubscribe`) or reading it is fatal (`UnsubscribeFault`).

Left out: acknowledgements, pings and the sending of frames, which change no
state; the listen-only flag, which only suppresses sending; the announcements,
which only log.

### GroupLink, DExtraHandler, DCSHandler, Linking

A handler is named by the local UDP port it has opened, and is a record of the
reflector, the state, the try timer and count, the poll inactivity timer, the
stream it carries and that stream's inactivity timer. A reflector's packet needs
no place in the state: an answer to any earlier request can come, or not, as long
as the port is open, so loss, delay, duplication and reordering are the choice of
when `Ack`, `Nak`, `Disconnect`, `Poll`, `ReflectorHeader` and `ReflectorVoice`
happen. `Clock` of a protocol applies `clockInt` to all handlers at once; they do
not influence each other there except through the group's status, which a
recovering handler keeps active, so that their order makes no difference.

In `Linking` the link of a group to a reflector may find no address in the cache
(the first disjunct of `linkInt`), and the talks of subscribers are only seen
taking and leaving the group (`G2Talk`, `TalkCut`): `GroupHandler` has the rest.
A G2 stream and a reflector stream with the same id are its subject too; here
they are distinct. The counter of tries only ever meets 7 in a comparison and is
held there, like a timer at its limit.

Left out: incoming links, access lists and `gatewayUpdate`, which the program
never uses; what handlers only send.

### XRFGroup, SharedXRF

The static `process` of `CDExtraHandler` offers every packet that comes from an
XRF host to the handlers of all groups. `XRFGroup` is `Linking` (XRF only) seen
from there: `OnAck`, `OnNak`, `OnPoll`, `OnDisconnect`, `OnHeader` and `OnVoice`
say which packets a group takes to be its own. An answer to a connect names the
repeater and not the reflector, and a repeater is the gateway's callsign with the
band of the group, which two groups may have in common (`src/README.md:100`); a
poll names the host without the module; a voice frame has only its stream id.
`SharedXRF` instantiates it twice with disjoint ports and offers each packet to
both groups.

The variables are those of `Linking`, with a prefix for the group. Groups do not
share packets from DCS reflectors, which are matched to links by the local port.

### CacheManager, IRCDDBApp, IRCClient, IRCSession

| Variable | Code |
|---|---|
| `state`, `timer`, `initReady`, `currentServer`, `sendlistTableID` | the members of `IRCDDBApp` of these names |
| `sendQ` | the pointer `IRCDDBApp::sendQ`; `sendQueue` is what is in the queue |
| `cache` | the maps of `CCacheManager` but the times, which are only printed |
| `entry`, `main` | where the thread of `Entry` and the main thread are, and the pointer they have fetched (`held`) |
| `cState`, `cTimer` | the locals `state` and `timer` of `IRCClient::Entry` |
| `pState`, `pTimer` | `state` and `timer` of `IRCProtocol` |
| `cpc`, `recvQueue`, `eof` | where the client's thread is in its round, and the receive queue |
| `inChannel`, `members`, `owed` | the server: are we in the channel, who else is, what it has to answer |
| `crossed` | a history variable: gateways one nick of which left while another stayed |
| `age` | how long each thread has slept, or has been at its turn |

The three threads take no lock for `state`, `currentServer`, `initReady` and
`sendQ`, so a thread's step ends wherever another one can come between two of
its accesses and make a difference: `Entry` fetches the pointer, puts a message
and assigns the next state in separate steps, the main thread fetches the
pointer and uses it in separate steps, and the client's thread handles one
message per step. A pointer that is held while the queue is deleted becomes
`Deleted`; using it is what `NoUseAfterDelete` excludes. The cache has its mutex,
so its operations are steps.

Time is part of the state because the code relies on it: `IRCClient::Entry` waits
two seconds between taking the queue away and deleting it, and hopes that nobody
is that slow. A thread sleeps for its period and then acts within `MaxStep`. The
unit is half a second.

Reductions. The server takes its steps between the rounds of the client, which
looks at what has arrived only at the start of a round. Members come and go only
while we are in the channel, where we can see it. The server answers in order.
QUIT stands for PART and for the KICK of others, which are handled alike. The
main thread asks only while the queue is not just being sent, and no more than
`MaxQueue`.

Left out: the repeater information and the watchdog, whose timers repeat messages
that change nothing here, PASS, the bound on the time a server may take to send a
list, the topic, the parsing of lines.

### Packets, ProtocolPool, G2Protocol, Transport

| Variable | Code |
|---|---|
| `stage` | where `CSGSThread::run` is: `processG2`, `processDExtra`, `processDCS`, the clocks |
| `handed` | the datagram that has been read and is being processed |
| `xWaiting`, `cWaiting` | `m_pool` of the DExtra and the DCS pool: port to what waits in the socket |
| `xIndex`, `cIndex` | their `m_index` |
| `xFound`, `cFound` | history: handlers found without data in this round |
| `xCut`, `cCut` | history: handlers whose last read in this round gave -1 |
| `inbox`, `portmap` | the G2 socket and the port map |
| `heard` | history: the port of the last datagram with bytes read from each gateway |

One call of `readPackets` is a step, because the network may put datagrams into
the sockets between any two. Processing a packet is another; it may release the
link it came in by, and a DExtra refusal or disconnect, which is matched to links by
address and not by port, those of several groups. Links are opened, and others
released, only while no pool is being read: by the remote control and the clocks.

`CUDPReaderWriter::Read` returns -1 when `select` or `recvfrom` fails, and also for
a datagram of no bytes, which is then gone. `readPackets` makes no difference
between that and an empty socket: a pool goes on to its next handler (`Cut`), and
`processG2` ends (`cutShort`), with whatever waits behind it left for the next turn.

`Packets` keeps of a datagram its length and the bytes that are looked at. DExtra
stream ids are written with the low byte first and read with the high byte first.
That does no harm, since headers and frames agree in it and no id is compared
across protocols; `ReadAsSent` therefore asks that ids be equal if and only if
they were written equal. The decoder of the 17 byte DCS poll, which only a
reflector gets, stops at the zero byte the encoder puts into the middle; the
program is never a reflector and it is left out. So are repeated sending and two
kinds of malformed packets: a G2 packet of 27 bytes whose byte 14 has its high bit
set, which is taken for a header and fails the assertion of `setG2Data`
(`HeaderData.cpp:150`), and a packet of 14 bytes that says neither ACK nor NAK,
which is handed out as a connect packet without content (`ConnectData.cpp:148`,
`196`). `MessagesAssumption` says that what is sent is what the protocols have.

### SlowDataEncoder, Routing

| Variable | Code |
|---|---|
| `caches` | `m_irc[i]->cache` |
| `phase`, `user` | how far `process(CHeaderData&)` is with the header of a talk, and whose it is |
| `asked` | the networks that had nothing in the lookup under way |
| `exclude`, `todo` | the local of that name, the rest of the loop over `m_users` |
| `subs` | `m_users` |
| `repeaters` | `m_repeaters`, with the gateway and address that are used for sending |
| `ack`, `display` | an acknowledgement from `clockInt` to `sendAck`, and what the radio shows of it |
| `steady` | history: users of whom no cache has changed its mind since the header came |
| `left` | history: the entries of `repeaters` that the drop of a talker has left there |

A lookup is one step, since the cache holds its mutex for it; between any two the
networks may write (`UserHeard`, `GateUp`, `GateDown`, `Row`). A lookup that finds
nothing in the first network is repeated in the second. `sendAck` looks the user
up a second time and finds what is there by then. Users subscribe by talking and
are dropped by the operator (`DropUser`), since that leaves the list as it is; how
long they stay otherwise is the subject of `GroupHandler`.

A text is its name and length and its characters are known by text and place,
so the encoder shows which character goes where and with which scrambler byte.
The receiver (`Shown`) is not part of the program: it is what a radio does with
the blocks it gets in full, and says what the frames of `sendAck` are for. A byte
that is descrambled in another place of a frame is noise. While the display is
being read nothing else happens: nothing looks at it.

### RemoteHandler, SGSThread

| Variable | Code |
|---|---|
| `phase` | where `CRemoteHandler::process` is |
| `peer` | the client: not there, silent, has sent what is read next, gone |
| `held`, `lost` | `m_client`, and the sockets of clients that nothing refers to |
| `careless` | history: commands after which `CloseClient` was not called |
| `stage`, `turn` | where `CSGSThread::run` is, and the index of its loops over the networks |
| `killed` | `m_killed` |
| `family`, `g2` | the local of `run`, and the entries of `m_g2Handler` |
| `users`, `links`, `open`, `told` | what handlers and groups amount to here: somebody is logged on, the ports of links, the open ports, the ports by which a reflector has been told to unlink |
| `client`, `clientFamily`, `terminate` | of each ircDDB client: where its thread is, `GetFamily()`, `terminateThread` |

`process` of the remote control is split at every call that blocks, because the
main loop stands still in it and the client and the networks do not. After no
command, a command of one word, or `halt`, it returns without `CloseClient`, so
that the next `accept` overwrites `m_client` (`ReadShort`): after `Descriptors` of
those nobody can connect any more. Where the process may end by itself is an
action, `Dies`: nothing in the program ignores `SIGPIPE`, so a write to a client
or a server that has gone may end it; and the address list of an ircDDB server
that could not be looked up is used uninitialised. A G2 socket that could not be opened
is a null pointer: `setG2Handler` asserts before the loop that the first is there
(`AssertG2`), and the second is read from in the first turn without a question
(`TakeTurn`). At the end the first is closed without a question too; that `CloseG2`
never meets it null is part of what `KnownDeaths` proves.

Shutdown is the sequence of `run` after the loop, a stage for each step whose
place in the order matters. The thread object itself is never deleted, so its
destructor never runs. Users and links come and go freely in a turn (`Work`):
`GroupHandler` and `Linking` have the details.

Left out: the status timer, which prints; the setters, which only pass on
configuration values; opening the TLS context.

## 3. Runs

Time passes in units, `d` of them in a turn of the main loop. A real turn is far
shorter than any timeout; longer turns are allowed where the order of expiries
could depend on them.

| Run | Properties | What it shows |
|---|---|---|
| `group` | `TypeOK`, `NoStuckRelay`, `NoEcho`, `OneTalker` | two users, two repeaters, a reflector with a colliding stream id, users whom an operator may drop at any moment: the group implements `Floor`, always has a timer for the talk, nobody hears himself, but for the repeaters that the drop of a talker leaves in the list |
| `group_timing` | `UserOutlivesRecords`, `DanglesOnlyByDrop`, `SubscriptionKept`, `RelayEndsClean` | two users, one of whom an operator may drop at any moment, timeouts in the order of the real ones, turns of two lengths, reused memory: user objects outlive the records of their streams, subscriptions end for a reason (the record of an earlier logoff of the same callsign is one), and every end of a talk but a drop clears the repeater list |
| `group_live` | `RelayReleased`, `RecordsDrain`, `InactiveUsersLeave` | the group comes free, records go away, inactive users leave |
| `links` | `DExtraFollows`, `WaitsTimed`, `StraysOnlyByTimeout`, `UnlinkingEnds`, `StreamsReleased` | an XRF and two DCS reflectors: handlers follow the setting, no request is left unrepeated and no stream untimed, only a timeout leaves a link nobody wants, unlinking ends |
| `shared_xrf` | `StatusAgrees`, `HearsOwnModule`, `OrphanedOnlyByLoss`, `StuckOnlyByDisconnect`, `DeadLinkNoticed` | two groups on one band, two modules of one host and one of another: packets offered to both leave each with the status of its own link and the talks of its own module, a group waits in vain only after one kind of packet, a silent host is noticed |
| `irc_session` | `TypeOK`, `NoUseAfterDelete`, `DeafOnlyWithoutServer`, `LoginAfterReset`, `ListEnds` | a server user that comes and goes and a connection that fails at any moment: the deleted queue is not used, a lost connection is noticed before the next is switched on, standby takes updates as long as there is a server, waiting for a list ends |
| `irc_roster` | `AddressesLive`, `RosterComplete`, `KeptOnlyByAnswers` | two nicks of one gateway that join and leave before, during and after the login: addresses in the cache are those of nicks in the channel, nobody in it is missing, a silent server is given up |
| `transport` | `IndicesLive`, `ReadAsSent`, `AnsweredWhereHeard`, `RoundsReadAll`, `ClocksReached` | two DExtra links, a DCS link and a gateway, empty datagrams and failing reads, links that end while their packet is processed: readers stand at live handlers, every turn reads every socket until it is empty or a read of it gives -1, nothing is taken for something else, replies go to the port last heard, the clocks are reached unless packets keep coming |
| `routing` | `AudienceRight`, `TextShown` | two networks that write between any two lookups, two subscribers who may be dropped, two repeaters one of which may move to the other's gateway: a talk goes to whom it should, for all of whom nothing changed meanwhile and but for what the drop of a talker left in the list; an acknowledgement that loses frames is blanked and not garbled |
| `server` | `StopsClean`, `LostOnlyByShortCommands`, `KilledStops`, `DiesOnlyCutOrUnopened` | two ircDDB clients whose servers come and go, a link of either protocol, a remote client that may fall silent or leave at any point, a signal at any moment: the server stops when it is told to and leaves nothing behind, and what it dies of is known |
| `unlink_final`, `irc_download` | `UnlinkIsFinal`, `DownloadTaken` | two disagreements, see below |

Each property is stated in words where it is defined. The type invariants of
`Linking`, `Transport` and `SGSThread` are proved and not run.

### Bounds, and why they are enough

* *Users, repeaters.* Properties of a group speak of one talker and one other
  user, and of a user and one of his records. Two users on two repeaters give a
  talker and a listener; `group_timing` has one repeater, on which the second
  user is never heard.
* *Stream ids.* Two from G2, one of which may come from the reflector as well:
  enough for two records of one user, and for a stream that arrives while another
  is relayed or has the same id. Ids are ordered because `LogoffUser` goes
  through the map in order.
* *Addresses.* One more than can be in use for most behaviours, so that
  allocation may or may not reuse one. If none is free a subscription is not
  possible in the model.
* *Timeouts.* None is before another that it follows in the program (2 s
  network, 4 s acknowledgement, 10 s ping, minutes for inactivity and for an
  unknown address), but some coincide, and the long ones are shortened:
  `group_timing`, whose properties depend on them, has them apart. Counters are
  held at their limits.
* *Links.* Two ports, for at most two handlers at a time: the one an operator has
  unlinked and the one he links next, or none left. Two DCS reflectors so that
  these differ. Poll times of 3 and 2 units leave room for a repeated request
  before they expire.
* *Shared XRF.* Two modules of one host and one of another: a packet is for the
  module a group is set to, for another of the same host, or for neither. One port
  for each group is enough, since a group has one XRF link at most. A network
  timeout of 1 unit and a poll time of 3, turns of 1 or 2, so that a stream can
  end before its link does and one turn can pass a limit by more than a unit.
* *Routing.* Two networks, because the second is asked only if the first has
  nothing; two subscribers, of whom one talks; two repeaters, so that there is one
  to be served and one to be left out; rows from one network, since a row in the
  other adds nothing. Texts of 9 and 10 characters end inside a block and at its
  end. The losses take the first frame of a block, its second, both, several
  blocks, and frames after the text.
* *Server.* Two clients, since families are compared and threads are joined one
  after the other; one link of each protocol; two descriptors, so that one can be
  lost and another still be given.
* *IRC.* One server user and one gateway, or one gateway with two nicks: the
  properties speak of a nick and of another with the same name. The waits of the
  protocol, of the session and before a new connection are one round: the
  shorter they are the less time is there to notice a loss. The wait before the
  queues are deleted is longer than a turn of a thread, as it is in the code. One
  message in a queue, two where their order matters.
* *Transport.* Two DExtra links, so that the reader can stand before, at and after
  the one that is released. One datagram in a socket, but a socket may be filled
  again as soon as it has been read, and a failing read leaves the datagram where it
  is, so that handlers are passed with data waiting. One gateway address, with two
  ports it sends from. Stream ids that differ only in the order of their bytes.

### Fairness

`FairSpec` of `GroupHandler`, `Linking` and `SharedXRF` assumes weak fairness of `Tick` and of
nothing else: the main loop always comes round to the clocks. `CSGSThread::run`
reads packets until there are none and sleeps 5 ms after each turn, so that holds
unless packets arrive faster than they are read (`ClocksReached` of `Transport`
says just that, from the fairness of the main loop's own steps), or a remote
control client that has connected sends nothing (accepting and reading are
blocking calls; `KilledStops` has that exception). No packet, no answer and no action of a user or an operator is assumed to happen: that a
stream keeps sending frames is the alternative in `RelayReleased`, `RecordsDrain`
and `StreamsReleased`, that the group is idle when the clock comes round is the
condition of `InactiveUsersLeave`, because `clockInt` times nobody out during a
talk.

`FairSpec` of `IRCSession` assumes that the threads of the session, the client
and the main loop are scheduled and that time passes: the operating system gives
every thread its turn and every sleep ends. Nothing is assumed of the server: it
need not answer, send or close anything. That of `SGSThread` assumes that the main
thread and the ircDDB clients' threads are scheduled: every call they make but those
that wait for a client or for another thread returns. Nothing is assumed of
servers and remote clients, so `KilledStops` has two exceptions: the wait for the
first connection of a network, which does not look at `m_killed`, and a remote
client that says nothing. `Routing` needs no fairness: its runs check that it
never gets stuck.

### Where the code disagrees with what the repository says

Two runs are expected to find a violation, each a behaviour of the code that a
comment or a document excludes; `PROJECT.json` quotes it.

| Run | Property | What happens |
|---|---|---|
| `unlink_final` | `UnlinkIsFinal` | a DCS reflector does not confirm an unlink; after 30 s the poll inactivity timer asks it to link again |
| `irc_download` | `DownloadTaken` | a row that a server sends in answer to SENDLIST is dropped, because `initReady` is not yet set |

What follows from `unlink_final`: the handler that links again belongs to no
setting; if the operator now links the group to a DCS reflector, `link` returns
without making a handler, while setting and status change. The comment over that
return (`DCSHandler.cpp:222`, "if the handler is currently unlinking, quit!") says
the opposite of its condition, which quits unless the handler is unlinking.

Other behaviours nobody would expect are exceptions that a property names, so that
everything else is excluded:

* *The drop of one user* by an operator deletes the user and one record of him.
  If he was talking, `m_id` is cleared but `m_repeaters` keeps the repeaters of his
  talk (`GroupHandler.cpp:537`; the exception of `RelayEndsClean`). The next talk
  goes to these too, and the next talker's own repeater may be among them, against
  the comments at `GroupHandler.cpp:414` ("we don't want to route this incoming back
  to him") and `GroupHandler.cpp:437` ("we zone route to all the repeaters, except
  for the sender who transmitted it"); so `NoEcho`, `OneTalker` and `AudienceRight` except
  what is `left` of an earlier talk, and nothing else. If he had two records, the
  other points to freed memory (`DanglesOnlyByDrop`).
* *Two networks that disagree* about a user: `exclude` is the repeater the first
  one knows, and a subscriber is served at the repeater of the first one that
  has an address (`AudienceRight` is about users of whom one repeater is known).
* *A datagram of no bytes*, or a read that fails, ends the reading of its socket for
  the turn, though others may wait behind it (`RoundsReadAll`).
* *A disconnect* that comes while a link waits for its acknowledgement deletes
  the handler and does not tell the group (`StuckOnlyByDisconnect`).
* *Short commands* of the remote control lose a socket each
  (`LostOnlyByShortCommands`).

A behaviour that no document excludes but a user would not expect is one of the
reasons in `SubscriptionKept`: a user logs off, his end frame is lost, he
subscribes again, and four seconds after the logoff the old record unsubscribes
him.

## 4. Proofs

For every value of the constants that satisfies the assumptions, any number of
users, repeaters, addresses, reflectors, ports, servers, gateways, hotspots and
descriptors, and one or two ircDDB networks. The assumptions are named where the
constants are declared:

* timeouts are positive, but the user timeout may be zero (`GroupAssumption`,
  `LinkingAssumption`); those of the session may be zero, its periods not
  (`SessionAssumption`);
* stream ids are not zero, those of reflectors and of G2 are distinct where a
  link is the subject (`SharedAssumption`: two groups have different ports and two
  modules different streams);
* names of servers, gateways and reflectors are distinct, and none is the empty
  string (`CacheAssumption`), what the main thread asks is FIND or an UPDATE, and
  there are finitely many nicks (`SessionAssumption`) and users (`RoutingAssumption`);
* what others send is what the protocol has, with stream ids of 16 bits and
  callsigns that are not the marks by which the decoder knows other packets;
  noise is what no decoder knows (`MessagesAssumption` of `Transport`).

Every safety invariant and every action property that a passing run checks is
also proved:

| Theorem | Says |
|---|---|
| `GroupHandlerProofs!TypeCorrect` | `Spec => []TypeOK` |
| `GroupHandlerProofs!RelayAlwaysTimed` | `Spec => []NoStuckRelay` |
| `GroupHandlerProofs!UsersOutlive` | `Spec => []UserOutlivesRecords` |
| `GroupHandlerProofs!OnlyDropsDangle` | `StallBound` implies `Spec => DanglesOnlyByDrop` |
| `GroupHandlerProofs!FloorImplemented` | `Spec => OneTalker` |
| `GroupHandlerProofs!SpeakersNotEchoed` | `Spec => NoEcho` |
| `GroupHandlerProofs!RelayLeavesNothing` | `Spec => RelayEndsClean` |
| `GroupHandlerProofs!SubscriptionsEndForCause` | `Spec => SubscriptionKept` |
| `LinkingProofs!TypeCorrect` | `Spec => []TypeOK` |
| `LinkingProofs!XRFLinkFollows` | `Spec => []DExtraFollows` |
| `LinkingProofs!EverythingTimed` | `Spec => []WaitsTimed` |
| `LinkingProofs!OnlyTimeoutStrays` | `Spec => StraysOnlyByTimeout` |
| `SharedXRFProofs!StatusIsOwn` | `Spec => []StatusAgrees` |
| `SharedXRFProofs!OwnModuleHeard` | `Spec => []HearsOwnModule` |
| `SharedXRFProofs!OnlyLossOrphans` | `Spec => OrphanedOnlyByLoss` |
| `SharedXRFProofs!OnlyDisconnectStrands` | `Spec => StuckOnlyByDisconnect` |
| `IRCSessionProofs!QueueSafe` | `QuietBound` implies `Spec => []NoUseAfterDelete` |
| `IRCSessionProofs!StandbyHearsServer` | `Spec => []DeafOnlyWithoutServer` |
| `IRCSessionProofs!TypeCorrect` | `Spec => []TypeOK` |
| `IRCSessionProofs!AddressesAreLive` | `Spec => []AddressesLive` |
| `IRCSessionProofs!RosterIsComplete` | `Spec => []RosterComplete` |
| `IRCSessionProofs!LostConnectionsNoticed` | `NoticeBound` implies `Spec => LoginAfterReset` |
| `TransportProofs!TypeCorrect` | `Spec => []TypeOK` |
| `TransportProofs!IndicesAlwaysLive` | `Spec => []IndicesLive` |
| `TransportProofs!EveryRoundReadsAll` | `Spec => RoundsReadAll` |
| `TransportProofs!AlwaysAnsweredWhereHeard` | `Spec => []AnsweredWhereHeard` |
| `TransportProofs!AlwaysReadAsSent` | `Spec => []ReadAsSent` |
| `RoutingProofs!AudienceIsRight` | `Spec => []AudienceRight` |
| `RoutingProofs!AcksReadable` | `Spec => []TextShown` |
| `SGSThreadProofs!TypeCorrect` | `Spec => []TypeOK` |
| `SGSThreadProofs!CleanStop` | `Spec => []StopsClean` |
| `SGSThreadProofs!SocketsCounted` | `Spec => []LostOnlyByShortCommands` |
| `SGSThreadProofs!KnownDeaths` | `Spec => DiesOnlyCutOrUnopened` |

*Deleted users.* That a record's user is still allocated depends on time: the
user's inactivity timer and the record's timer are restarted together, and the
record expires first, even though it may be restarted once. `UserOutlivesRecords`
makes that inductive: the user's timer is ahead of the record's by no more than
`Slack`, which is nothing before the first expiry and what may have passed until
it was noticed after it. To conclude that no record dangles it needs
`StallBound`: no turn of the main loop takes so long that both waits of a record
and the turn together exceed the user timeout. The timeouts are 2 x 4 s against
at least a minute, so this allows a turn of 53 s. The proof goes through the
handlers and shows for each that it restarts the user's timer with the record's,
or neither. `OnlyDropsDangle` follows: the clock deletes a user only when his
timer has expired, and with the bound he has no record by then.

*One talker.* The steps of a group map to steps of `Floor` if a talk starts with
nothing in `m_repeaters`, what the drop of a talker left there not counted. So the
invariant `Silent` (the repeaters of an idle group are all `left`) is proved first:
every handler but that drop clears the list with `m_id`, and none adds to what is
left. The same invariant gives `NoEcho`: who takes the group finds nothing else in
the list and is left out of what is added. `RelayEndsClean` needs no invariant,
but every place that clears `m_id` has to be looked at.

*Subscriptions.* The one reason that is not in the step itself is the record of
an earlier logoff: `clockInt` erases the callsign that the record's user carries,
so the object has to be there still. `LogoffsAllocated` says so of every record
of a logoff, which nothing but the record itself deletes.

*Links.* `Inv` is `TypeOK /\ DExtraFollows`. Most steps neither change the
setting nor make a handler, and for those one lemma (`InvKept`) suffices; the
lemmas about packets and the clock show that they are of that kind. The rest are
`StartUp` and `remoteLink`, which find no DExtra handler because the setting was
empty or the main loop had not started, and `remoteUnlink`, which leaves none.
`DExtraFollows` contains that setting and link type agree for this reason. Both
handler modules extend `GroupLink` and are instantiated by `Linking`, which gives
each operator three names; `DExtraOperators` and `DCSOperators` show that they
are the same.

*Waits.* `WaitInv` adds to `Inv` that each link has the timers its state calls for
(`LinksTimed`), that a stream of a reflector is relayed with the network timer
running (`RelayTimed`), and that DCS handlers have DCS reflectors (`DCSOnly`).
The strays follow step by step: of all actions only the clock makes a handler
that belongs to no setting, and only of one that was being unlinked.

*Two groups on one host.* A packet is offered to both, so each has to be shown to
do no harm to the group it is not for. `LinkingProofs` has this for one group of
`XRFGroup`, with `LinkInv` as the invariant: the status is that of the group's
own link (`StatusOK`) and streams belong to the module the link is to
(`StreamsOwn`, from the ids each module uses), and the group's network timer ends
before the link's timer for the stream that is relayed (`TimersOK`).
`SharedXRFProofs` instantiates it for each group and adds nothing but the
combination of steps. The exceptions of `OrphanedOnlyByLoss` and
`StuckOnlyByDisconnect` are those of one group.

*The deleted queue.* `NoUseAfterDelete` depends on time too. Whoever holds the
pointer while the client waits fetched it before the wait began, so his turn has
lasted at least as long as the wait (`QuietOK`); a turn is over by `MaxStep`
(`TimeOK`); with `QuietBound`, that the wait is longer than a turn, nobody holds
the pointer when it ends. The two seconds of the code are such a bound unless a
thread is not scheduled for that long.

*A new connection.* `LoginAfterReset` is a race between `Entry`, which looks for
the pointer once a second, and the client, which waits before it connects again.
`Turns` counts how many turns `Entry` may still need to begin anew from where it
is: at most three, when it has just decided to wait for a list, whose answer may
come after it has given up. `Noticed` says that those turns end before the
client's waits do. Three turns of `Entry` have to be shorter than these waits
(`NoticeBound`: 17 seconds with the values of the code, so that a turn may take
four and a half); the runs have shorter waits and rely on the login as well.

*The roster.* Whether somebody is in the cache depends on what is on its way: our
JOIN, the answers to WHO, and the JOIN and QUIT of others. `Before` says that we
are not in the channel until our JOIN is answered, so that nothing about others
can be in the queue; `Live`, that a nick who is not in the channel is not the
address of its gateway unless its QUIT is in the queue, after everything that
would enter it again; `Covered`, that whoever is in the channel is known, or is
in the queue, or WHO has still to be answered, unless another nick of his gateway
left. The lemmas about queues say what appending to one and taking from one does
to what is on its way.

*Types of the session.* Most types are plain; that the next table never goes
below -1 is not, since nothing in `Entry` stops it. It rests on the state: once
the last table is done no step waits for SENDLIST until a server is chosen again
(`TableOK`).

*Reading.* The pool lemmas are about any pool: opening a port, releasing one,
with the reader anywhere, and reading the next datagram keep the index at a live
handler (`PoolOK`) and every handler the reader has passed was found empty or had a
read that gave -1 (`PassedRead`). `Transport` has two such pools. Its rounds (`DExtraRound`,
`DCSRound`) say that a pool which is not being read stands at its end, so that
the clocks and the remote control may release handlers. `ReadAsSent` goes through
the pairs of encoder and decoder; that ids agree if and only if they were sent
equal is that swapping two bytes is its own inverse.

*Routing.* The caches change between any two lookups, so the invariant speaks
only of users of whom nothing has changed (`steady`): the networks asked in vain
have nothing about him (`InVain`), the repeater that is left out is the talker's
(`Excluded`), everybody who was looked up is served or at that repeater
(`Served`), and every entry of the list is one that some user has (`Known`).
Writes keep all of it by one lemma, since users whose data change are no longer
steady. For a text, each block received in full is computed (`BlockRead`,
`BlockData`): it carries its number and five characters, and no other block has
that number, filler included.

*Standby.* `StandbyOK` adds what `Entry` is about to do: before it assigns state
7 it has set `initReady`, which only `userLeave` and the disconnection clear,
with the server; and a server is chosen only while the state is still 2. The
order of those assignments is what the proof rests on.

*Life of the server.* What the end needs is true of the last stage only because
something is true of every stage before it: `LinksDone` says for each stage of
the shutdown who has been logged off, which reflectors have been told and which
ports are still open, and that the ports are open while it is told is what makes
the order of the stages matter. `ThreadsDone` says whose threads have been waited
for. `HasG2` says that everything from the loop to the closing of the G2 handlers
was reached past the assertion of `setG2Handler`, so that no way out meets a missing
first handler (`KnownDeaths`). `Counted` keeps the open sockets of remote clients equal to the
commands that left one open; that at most `Descriptors` are lost follows because
a socket that is held is one more.

Model-checked only: liveness, which is out of the prover's reach:
`RelayReleased`, `RecordsDrain`, `InactiveUsersLeave`, `UnlinkingEnds`,
`StreamsReleased`, `DeadLinkNoticed`, `ListEnds`, `KeptOnlyByAnswers`,
`ClocksReached` and `KilledStops`. `WaitsTimed` (of links and streams; a group whose
status waits has no timer of its own, see `StuckOnlyByDisconnect`) and `NoStuckRelay` are the part
of some of them that is proved: there is a timer that runs. That the two
disagreements happen is shown by TLC's counterexamples.

## 5. Not modelled, and why

* Parsing and wording of messages, and audio: no property here depends on them.
  Of slow data, headers, GPS and interleaved data, which the program never sends.
  The checksum of a header is written and never checked by the program.
* Access lists and incoming links: present in the code, never used. The tables of
  repeater information and of the watchdog: nothing in the program fills them.
* The reports the remote control prints, the configuration file and the utilities:
  data that is passed on, without a decision.
* UDP sockets: what a read gives, failures and empty datagrams among it, is in
  `Transport`; that they cannot be opened is in `SGSThread` for G2. Writes that fail
  are left out: nothing looks at their outcome. Of OpenSSL only that its calls block
  and fail.
* Malformed packets, as said under `Packets`.
* Wall-clock jumps: the ten minutes without an address are measured by the
  system's clock, which the model takes to be the clock of the timers.
* The wrap-around of timer counters after 49 days.
* Whether a link that shows as such is what the reflector means: an answer that
  two groups take may have been meant for the other one (`DExtraHandler.cpp:474`).

## 6. Plan

In this order:

1. **Theorems**: that each handler of a link does what a record of its timers and
   state promises, as the invariant behind `UnlinkingEnds` and `DeadLinkNoticed`
   (how many units are left until a timer acts); the same for `ListEnds`.
2. **What a session asks**: the round of FIND and NOT_FOUND for a user nobody
   knows, which the main thread keeps up.
3. **Abstract specification of a link** (unlinked, asked for, up, being given
   up) implemented by both handlers, and by `Linking` except for the strays.
