# balance-engine, specified in TLA+

balance-engine is a framework for scalable game servers: WebSocket (and UDP)
servers that share one Redis, with layers for groups, match making, positions
and running matches on top, and load balancers and a service registry in front.
This directory models the parts in which the order of concurrent steps decides
whether the result is right, checks them with TLC and proves theorems about them
with TLAPS.

Contents: [inventory](#inventory), [modules](#modules-and-how-they-correspond-to-the-code),
[runs](#runs), [bounds](#bounds), [fairness](#fairness), [proofs](#proofs), [what the models
show about the code](#what-the-models-show-about-the-code), [not modelled](#not-modelled),
[plan](#plan).

## Inventory

The classes form a chain, each layer inheriting from the one below:

    Server -> JsonMessageLayerServer -> GroupServer -> RoomGroupServer
                                                    -> VectorGroupServer
    UDPCore -> UDPServer   (owned by a RoomGroupServer)

| component | state | operations | interacts with | hard behaviour | correct when |
|---|---|---|---|---|---|
| `lib/Server.js` | sockets by clientId; Redis publish/subscribe connections; one command connection | connect, close, send, sendList, broadcast, the same across instances | Redis channels to the other instances; events to the layers above | a recipient may be on any instance, messages cross instances, servers stop and die | a message to a client reaches it once, in order, wherever it is |
| `lib/JsonMessageLayerServer.js` | none | wraps and parses messages | Server | overridden methods are called by the base class | what is wrapped once is parsed once |
| `lib/groups/*` | Redis: a list of clients per group, a list of groups per client, a hash of known ids | push, remove, erase, get, create | every layer that has groups | each membership is two lists, each write is its own command; check and write are round trips apart | the two lists agree, a group in use is known |
| `lib/GroupServer.js` | none of its own | CREATE, DELETE, JOIN, LEAVE, BROADCAST, CLOSE | groups; `sendList` | requests of one client and of many overlap; disconnects at any moment | lists agree, members are told, leavers are gone |
| `lib/RoomGroupServer.js`, `lib/dto/MatchMakingConfirmation.js` | the queue's id, `_confirmations`, timers; Redis: confirmation lists | SEARCH, LEAVE, CONFIRM, EXIT, CLOSE; matching run, confirmation round | groups; merkury events to the state logic | an interval moves clients from list to list while their own requests do the same; timeouts race answers | a match is decided once, starts when all confirmed, nobody is lost or in two rooms |
| `lib/logic/StateUpdateLogic.js`, `lib/dto/State.js` | identifiers, validated UDP clients; Redis: states | execute, end, clientLeft, UDP/TCP messages, the loop | merkury events, UDPServer | events of other instances, updates that arrive after a client left, lost packets | a leaver's state goes, the switch to UDP takes everybody along, the loop stops |
| `lib/VectorGroupServer.js`, `lib/tools/vector.js` | cell per client in Redis, groups of cells | position and broadcast updates | GroupServer join and leave | moves overlap with each other and with the joins they start | a client is in the group of its cell, neighbours know each other |
| `lib/unreliable/*` | UDP peers | as Server, over udpws | RoomGroupServer | as Server | as Server |
| `lib/balance/WSProxy.js` | down flags, failover timers, last index | route, error, probe | upstream servers | late errors, probes, upstreams that come back | a working upstream is used, a broken one is probed |
| `lib/http/*` | Redis: service entries with expiry | register, list | servers register themselves | POSTs that fail or are late, expiry between two reads | the list shows what lives, and nothing else for long |

What the code is exposed to is listed, at the line where it bites, under
`hazards` in `PROJECT.json`; the properties below were chosen from that list.

## Modules and how they correspond to the code

    GroupStore  <- GroupServer <- GroupMembership (refines Membership) <- MCGroupServer
                               <- VectorCells (with Grid)              <- MCVectorCells
                <- MatchMaking                                         <- MCMatchMaking
    Messaging (refines Delivery)                                       <- MCMessaging
    StateUpdates                                                       <- MCStateUpdates
    ServiceRegistry                                                    <- MCServiceRegistry
    WSProxy

`<-` reads "is extended by"; the two abstract specifications are instantiated.
Each MC module only gives constants their values. The modules whose names end in
`Proofs` hold the theorems about the module they are named after; `GroupServerProofs`
has those about `GroupMembership` too and, in its second half, those about `VectorCells`
and `Grid`, which are built on it; `RoomProofs` goes on where `MatchMakingProofs` stops. An operator
with an underscore in its name (`LeaveOld_Really`) is a mutant: its comment says
which plausible bug it stands for, and no specification uses it.

### GroupStore - `lib/groups/`

A server has one ioredis connection (`_getStandaloneRedisClient`), so its
commands run in the order they were issued, and a promise chain issues its next
command when the reply of the previous one arrives - behind everything issued
meanwhile. That is the state of the model: `pipe[s]` is the FIFO sequence of
commands of server `s` that Redis has not run, each a record naming the command
(`step`), the request it works for (`job`) and its client and group. One step of
the model runs the head of one pipeline and appends the continuation of its
chain. Commands of different servers interleave freely.

- `members[g]`, `groupsOf[c]` are the two kinds of lists, as bags (how many
  copies of an id): nothing in the group layer reads the order. `registry` is
  the key set of the hash `BALANCE:GROUP:HANDLER`.
- `Push*`, `Remove*`, `Erase*`, `GetGroupInstance` are the commands of
  `Group.push`, `remove`, `erase` and `GroupHandler.getGroupInstance`. What
  the caller goes on with is a parameter, so the group protocol and the match
  making share them.

Abstractions: replies are handled one at a time (the continuation of a reply is
queued before the next reply is looked at); the LREMs an erase sends in one
burst are one queued command per distinct member, run back to back; Redis does
not fail a command.

### GroupServer - `lib/GroupServer.js`, connections of `lib/Server.js`

One action per request (`CreateGroup` ... `Close`) and one per command of its
chain. `home[c]` is the instance a client is connected to (it never changes: a
reconnect gets a new id), `known` the ids a CREATE has been answered with
(clients ask for no others), `knows[g]` what members have been told about each
other by JOIN, LEAVE and DELETE notifications. `NotifyGroup` delivers to the
audience `_sendList` can reach. `__leaveAllGroups` runs one leave per group of
the client's list. `getClientInstance` writes the client into the same hash as the
groups; as nothing reads those entries, `SetClient` is a command without effect
on `registry`. `Ops`, `MaxPending`, `CloseMidway` choose what clients do.
PING, answers and events are left out: no list depends on them.

### Membership, GroupMembership - what the group layer promises

`Membership` knows two sets of pairs: who belongs to which group (`belongs`), and
who is shown as a member (`shown`). A change takes effect at one step; from then
on the pair is in flux, `shown` may follow late or first show an older change, and
the pair leaves the flux only when both sets agree. `GroupMembership` maps the
protocol to it: `belongs` is read off the clients' lists, `shown` off the
groups' lists, and a pair is in flux while a second write for it is queued.

### MatchMaking - `lib/RoomGroupServer.js`, `lib/dto/MatchMakingConfirmation.js`

Each instance creates its own queue in `open()`, so the clients it matches are
its own: one server, one pipeline. The interval is `Tick` (LRANGE of the queue),
`MatchQueue` (cut into lobbies, removeMulti), `Removed`/`CreateEntry` (HSET and
pushMulti once a lobby's removes are through), `Push` (when the last push of the
run is through: `_onFreshlyMatchedGroup`), then `ConfirmRound` 10 ms later
(disband what is overdue, ask for the sizes of the rest) and `CheckSize` (start).
`confirming` is `_confirmations` (a set of matches: the order of its keys is never read),
`late` the matches opened two minutes ago,
`timers` the 250 ms timers of disbanded matches, `mmc` and `ttl` the
confirmation lists and their expiry. `RunIds` has more than one element when
runs may overlap, which `setInterval` allows.

`view[c]` is what a client was told (`client/Simple.js` sends what its user
asks for; a client confirms and exits matches it was invited to). With
`MaxPending = 1` clients wait for an answer before the next request; EXIT is
answered before its remove runs, as in the code. `ignored` marks a SEARCH that
was refused, which the server does without an answer.

Abstractions: the id of a match is drawn when its lobby is cut (nobody sees it
before its HSET); the list order LRANGE returns is arbitrary, so each lobby the
code may form is covered; the clock is the action `TwoMinutes`; a confirmation
list expires only when its match is that old or decided; the clients send room
requests only (a RoomGroupServer also accepts the ones of the group layer).

### Messaging, Delivery - `lib/Server.js`, `lib/JsonMessageLayerServer.js`, `lib/unreliable/`

A server goes through `open()` (subscribe to "out", then to "global", only then
the listeners), and ends by `close()` or by dying. `pub[s]` and `sub[s]` are the
connections to Redis, a FIFO per topic; `Publish` is Redis running one PUBLISH,
which hands the packet to all subscribers. A `Send` looks for the socket and hands the
message over, or rejects; the handler of the rejection publishes in a later turn
(`Forward`), and in between the message is in `late[s]`. `Stop` issues QUIT: Redis still
runs what is in `pub`, but what is in `late` comes after it and is lost, as everything
is at a `Crash` (`lost` remembers these messages). `got[c]` is what the socket of a client
has been handed, in order. `layer` is what the messaging is used as: the plain
`Server`, the JSON layer, or the UDP server, whose code is a copy of `Server` with an
identification packet of its own. In the JSON layer a local broadcast is handed over
without being stringified, and on receipt of a global one the base class calls the
override of `broadcast` with one argument, which throws in the listener of the
subscription (`OnMessageGlobalThrows`): the process dies, or, with a handler for uncaught
exceptions as the examples have (`tools/uhecatcher.js`), the packet has been taken in vain.

`Delivery` is what the layers above may rely on: per pair of a server and a client
a channel that keeps the order, loses messages only when the client has gone or
the sender ended, and delivers none twice; a message for many is handed out to
some of them at a time, to nobody twice. Messages have numbers, given in the order of
sending; a channel is the set of the numbers under way, of which the smallest arrives first.
Sockets are also handed things that are no messages of this kind (`NoMessage`:
identification packets, what cannot be parsed). The property `Delivers` of `Messaging`
is that specification under the mapping that gives each pair the messages for one
client that are still in `late`, `pub` or `sub` (`Underway`).

### StateUpdates - `lib/logic/StateUpdateLogic.js`, handlers of `lib/RoomGroupServer.js`

One instance, `Home`, wins "match-started" and runs the logic; the others
emit events only. Its start is two steps, as `execute()` sets the loop and the timer, then
asks Redis for the group (`MatchStarted`) and gives out the identifiers when it has the
list (`SendIdentifiers`); packets and exits come in between. `events[s]` are the merkury events of an instance in order,
interleaved freely with those of the others. `given`, `valid` and `udpList` are the
logic's `clientUidMap`, `validatedUidMap` and `udpClientList`, `hash` the clients
that have an entry in the state hash. `mail[c]` are the packets with the header
RGS:MESSAGE on their way to a client: the test client takes each for its
identifier, so a plain message makes it forget its own (`uid[c]`). `lists` and
`group` are the client's and the group's list; `Exit` and `Close` start the removal
of both and do not wait. TCP updates check the client's list and write the hash on
the client's own instance; UDP packets, states, messages and "world" alike, are
checked for their identifier by `Home` only, and the first of a client validates it
(`HandleUdp`). `fate` is a history variable.

Abstractions: the content of states; "world" packets over TCP, and what "world" packets
over UDP do beyond validating their client: send packets that no client of this model
heeds; a UDP "any" has no sender in the code; the tick of
`_loop` changes no state and is left out.

### Grid, VectorCells - `lib/tools/vector.js`, `lib/VectorGroupServer.js`

`Grid` has the arithmetic: positions to cells and back, vectors to indexes and
back, with the truncation of `| 0` to a word of `2 * HalfWord` values.
`VectorCells` extends the group protocol. Each server makes a group per cell when it
opens (`GroupOf[s]`). A position update is a GET of the client's cell, then a SET in
any case and, in a new cell, a JOIN; these commands go over the same connection
as those of the lists, so they share `pipe`. The broadcast to a new cell waits
500 ms (`timers`). The entry of a cell expires after 15 minutes, which the model lets
happen only when no command of the client is queued. The JOINs, LEAVEs and
closes are the actions of `GroupServer`.

### ServiceRegistry - `lib/http/`

Time is counted in ticks: `timer` is what is left of a server's five-second interval,
`posts[s]` the ages of its POSTs under way, `ttl[s]` what its entry has left.
A POST arrives within `MaxDelay` ticks or fails; `MaxLost` bounds the failures in a
row. The registry refuses those of servers without its authorization (`trusted`, 401) and
those whose body lacks a field or is missing (`complete`, 400). Closing tells the registry nothing. A list request is KEYS, then MGET
(`Keys`, `MGet`): an entry that expired in between is null, which makes the
list of a zone throw and stays in the list of all. `steady` and `since` are
history variables.

### WSProxy - `lib/balance/WSProxy.js`

`RoundRobin` is the loop of `_getRoundRobinServer`: the first upstream behind
the last choice that is up, or the next one after a full cycle (`k` is
`cycles`). `RandomServer` includes the fallback to the first upstream.
`Fail` is the proxy's error listener, `TimerFires` the failover timer, `Probed` the
HEAD request at its upstream and `ProbeReturns` its callback, whose answer may be stale:
the upstream can crash or return in between. Upstreams crash and recover freely
(external); `mode` is chosen once; `doomed` are requests in flight whose connection failed, the error
may surface any time later. `passed` is a history variable for the fairness of
the rotation.

## Runs

| run | instance | checks | shows |
|---|---|---|---|
| `groups_agree` | 2 clients, 2 servers, 1 group, 2 overlapping requests per client, disconnects at any time; create, join, leave, close | `Agreement`, `NoZombieGroup`, `PeersIntroduced`, `NoPhantomPeer`, `ImplementsMembership` (refinement) | however the two writes of joins and leaves interleave, the lists converge, groups in use stay known, members hear of each other; every step is one of `Membership` |
| `groups_delete` | the same with delete and broadcast, 1 request per client | `TypeOK`, `IntactAgreement`, `GoneForGood`, `LeaveTakesEffect`, `ServedEventually` (liveness) | a DELETE spoils its own group only; who left, or closed with nothing under way, is out for good; every chain ends |
| `rooms_polite` | 2 clients that wait for answers, lobby of 2, 1 match, every request but LEAVE | `TypeOK`, `OneVerdict`, `OneRoom`, `AllConfirmed` | one decision per match, a start needs everybody's confirmation |
| `rooms_confirm` | 2 clients that search and confirm with 2 overlapping requests each, lobby of 2, 1 match | `AllConfirmed`: violated | see below |
| `rooms_queue` | search, leave, disconnect in the middle of a request | `QuietSymmetry`, `NobodyLost` | matching runs lose nobody who searches |
| `rooms_live` | search, confirm, disconnect | `Decided`, `Answered`, `Dissolved`, `LeavesMatches` (all liveness) | invited matches are decided, members hear of it, nothing is left over |
| `proxy_rotation` | 3 upstreams, 3 requests, both modes | `DownIffProbed`, `NoneStarved`, `ComesBack` (liveness) | the rotation is fair, upstreams come back |
| `messages_arrive` | 2 servers that open, stop and crash, 2 clients, 2 messages, all three layers | `RightAddressee`, `OneGlobalOrder`, `Delivers` (refinement), `Arrives` (liveness) | messages for one client behave like `Delivery`'s channels; broadcasts arrive in one order |
| `messages_list` | the same | `ListArrives`: violated | see below |
| `states` | 2 clients, 2 instances; one client has both connections at `Home`, the other only TCP and may leave; 1 message | `LeaverCleared`, `SwitchTogether`; `UdpReached`, `LoopEnds` (liveness) | the state of who left comes back only by an update that was still to come; the switch to UDP waits for all and is reached in spite of lost packets, the loop ends |
| `cells` | 1 server, 2 clients, 2 cells; one client goes to and fro across the border, one stays | `LatestCell`, `InItsCell`, `NeighboursKnow` | overlapping updates settle on the latest position |
| `registry` | 2 servers in 2 zones, 1 caller, interval 1, lifetime 4, POSTs late by 1, every second may fail | `TypeOK`, `GhostsExpire`, `ListComplete`, `LiveStays` | who runs stays listed, who has gone disappears, answers are complete |

Every property of a passing run has a mutant in `PROJECT.json`: a plausible bug in
a definition that models code, under which the run finds the property violated.

## Bounds

- Groups: a hazard of the lists takes one client-group pair and two chains that
  overlap on it (two requests of one client, or a DELETE of another); two
  clients on one or two servers and one group give every such overlap, and
  groups do not influence each other but through the close of a client, which
  handles them independently. `MaxPending` bounds the requests of a client that
  are being worked on; with DELETE it is one, as chains of two clients overlap
  anyway.
- Match making: a lobby of two is the smallest that can be incomplete; two clients
  fill it. One match suffices for every race within a match. `RunIds`
  has one element: what is said of runs that overlap is proved, not run.
- Load balancer: three upstreams are the smallest rotation in which one can be skipped
  between two others. `passed` is capped by `N`.
- Messaging: two messages (`MaxSent`) are the fewest that can be out of order, two servers
  have an own and a foreign client, two clients a right and a wrong addressee.
- State updates: with two clients the one who completes the validation differs from
  the one who waits, or the first can be missed. `MaxChats` messages, sent in matches
  nobody leaves; one packet of a client is under way at a time, "world" packets only until
  they have validated their client; nobody sends when the
  time is up; only `Leavers` leave, here the client whose UDP packets come in at another
  instance than his exit, and so in any order with it. The placement is the one in which TCP and UDP reach different sets.
- Cells: two positions on both sides of a border give every kind of move; one
  cell's group does not influence the other's. `MaxQueue` bounds the commands queued
  when an update is taken up, so that three updates of a client overlap.
- Registry: the lifetime is the smallest that satisfies `RegistryAssumption` for one
  failure and one tick of delay, so every margin is tight. In the code it is
  10000 s against an interval of 5 s.

`CHECK_DEADLOCK FALSE` is set where the system may stop: all clients have
disconnected and no ids are left, all messages are sent, the match is over. The
load balancer and the registry never stop, and are checked for deadlock. Symmetry
(of clients, servers and ids) is used in safety runs only.

## Fairness

- `GroupServer`: a pipeline that is not empty moves - Redis answers and the event loop
  turns. Nothing is assumed of clients.
- `MatchMaking` adds the interval, its 10 ms pause, the 250 ms timers and the passing of
  two minutes; nothing is assumed about expiring keys.
- `WSProxy`: connections to dead upstreams fail, timers fire and HEAD requests return or
  time out (`timeout: 10000`); nothing about upstreams.
- `Messaging`: the handlers of rejections run, Redis runs what it was sent and live servers
  read their subscriptions.
- `StateUpdates`: events are delivered and handled, commands run, clients read what they
  are sent; of the UDP packets a client sends again and again the network does not
  lose all (strong fairness of `UdpArrives` for states). The end timer owes nothing: `UdpReached`
  must hold in a match of any length.
- `ServiceRegistry`: none; it has safety properties only, and `Tick` is disabled while
  something is due.

## Proofs

All theorems hold for any values of the constants that satisfy the `ASSUME` of
their module; further assumptions are named.

### GroupServerProofs

Any number of clients, groups, servers and overlapping requests. The lemmas about
pipelines and about converging lists, which the match making and the cells use as
well, are in `GroupStoreProofs`.

- `TypeCorrect`: `Spec => []TypeOK`, with every operation, DELETE included.
- `ListsAgree`: as long as nobody deletes, `Spec => []Agreement`: when second
  writes for a membership are queued, the client's own list already shows what
  the last of them will do to the group's list; when none is, both lists agree.
  Hence `ListsSymmetricWhenQuiet`: with empty pipelines the lists are symmetric.
- `MembersRegistered`: under the same assumption a group that lists anybody is
  in the hash.

  `Agreement` alone is not inductive: it needs that every chain that works on a
  client runs on that client's home (`ChainsInOrder` - otherwise a second write
  could be queued elsewhere) and that everything listed or worked on is registered
  (`ListsRegistered` - otherwise a look-up would start an erase). Their conjunction
  with `TypeOK` is `UndeletedInv`. The assumption `"delete" \notin Ops` is needed: with
  DELETE the statement fails (see the next section).
- `IntactGroupsAgree`: with DELETE, `Spec => []IntactAgreement`: for every group that is
  registered and that no erase has begun to work on, the lists agree as above. The
  invariant `Grounded` rules out that a group *becomes* intact with lists that do not
  agree: that happens only at its HSET, when nothing else works on it and no list
  names it (`HsetAlone`, `FreshUnused`), and never at the end of an erase, whose DEL comes
  after its HDEL (`ChainsRightful`).
- `MembersMeet` (`PeersIntroduced`), `LeaversForgotten` (`NoPhantomPeer`): who is told of whom,
  without DELETE. The invariant `Presence` compares three things: the group's list, the
  notices in the pipeline and what members were told. The last queued notice about
  a client tells the truth about the group's list (`NewsTrue`), as notices are queued in
  the order of the second writes; who was told of others is still a member, on their
  server (`KnowersIn`), so that a leave notice reaches all who heard the join; whom they
  were told of is a member or the notice of his leave is queued (`KnownIn`); two members
  have met or the notice of one's join is queued (`Met`). A CREATE announces nobody:
  that this is right is `Founded` - nobody else is in the group before the founder's
  second write, and all that may be queued behind it is the founder's own close.
- `MembershipImplemented`, the refinement of `Membership` under the same assumption.
  `UndeletedInv` is what makes a step that empties the flux of a pair leave agreeing
  lists; each action is shown to be a `Change`, a `Follow` or a stutter.

### MatchMakingProofs and RoomProofs

Any number of clients and matches, any lobby size, and - unless said otherwise - any
number of matching runs and of overlapping requests of one client.

- `MatchMakingTypes`: `Spec => []TypeOK`, from `TypeInv`, which adds what a command of each
  kind may carry and whom it works for (`Filling`: a command of a run is its first one or
  works for a match of the batch the run is filling).
- `ListsAgreeWhenQuiet` (`QuietSymmetry`), with overlapping runs. A match has its id before
  its group exists. `Births`: until the HSET of a match has run, only the run that fills
  it works for it, so that no look-up takes it for a group that is gone and erases what is
  being filled. `Coherent`: the lists agree up to queued second writes, as in the group
  layer, except for the lists an erase under way is going to empty (`Emptied`).
- `MatchesAreDecidedOnce` (`OneVerdict`), when runs do not overlap (`RunIds = {r}`). `Deciding`:
  the sizes a confirmation round has asked for are queued in front of what the next
  run issues, so that none is answered after the match has been decided. With
  two overlapping runs the statement fails (a counterexample of 49 steps, with
  confirmations in between).
- `StartedWhenAllConfirmed` (`AllConfirmed`), for clients that wait for their answers
  (`MaxPending = 1`). `Inviting`: the confirmation list, the match's list and the
  commands that write them name clients of the lobby only. `Sincere`: a client is in the
  confirmation list at most once, counting the commands that would put it there, so
  that LLEN counts clients. With overlapping requests two CONFIRMs count twice, as
  the next section says.
- `SearchersAreNotLost` (`NobodyLost`), for all constants. `Unheard`, `Tracked`, `Kept`: a client that
  searches has a SEARCH or LEAVE under way, or is in the queue, or is being moved by a
  run, or is in a group whose invitation is queued with nothing in front of it that takes
  him out (`Kept`). While he is being moved only the run can touch his match, as nobody
  has heard of it (`Unheard`), and a lobby is out of the queue before its group is
  created (`Tracked`).
- `NobodyIsInTwoRooms` (`OneRoom`, in `RoomProofs`), for one run and clients that wait for their answers and do not
  LEAVE. None of the three can be left out: TLC finds a client in two groups within
  33 states with a LEAVE that is followed by a SEARCH, 11 with two requests at once, 38 with
  two runs. The invariant `Rooms` follows a client through his stages:
  - `Placed`: he has a search under way, a place in the queue, a place in a lobby the run
    is moving, or a match, and one of these only. SEARCH looks at the client's groups
    and pushes him into the queue several commands later; in between nobody else may put
    him anywhere (`Seeking`). A lobby's clients leave both lists of the queue before they
    enter the match's (`Carried`), and no two lobbies of a run share a client (`Filled`).
  - `Believed`: a client searches again only when he believes he is free, so what he
    believes has to be right. Who was told FOUND and has not left is in that match and nowhere
    else; who was told he is free has no place that is not on its way out. The difficult
    case is the START that reaches a client who is leaving: he takes himself for a
    player once more, but the check of his next EXIT then fails (`Heeds`).
  - `Orderly`, `Heard`: what waits for an answer is in the pipeline once, and the commands
    about one match are there in the order invitation, decision, farewell, erase;
    nobody hears of a match before its invitation.
  - `Disbanding`: what is queued because of a decision belongs to that decision, so that a
    match is erased only behind the farewell that sets its members free.

### The others

`MessagingProofs`, any number of servers, clients and messages, all three layers, with
connections, stops and crashes at any time:

- `TypeCorrect`, and `AddresseesOnly` (`RightAddressee`): only the addressees of a
  message get it. The invariant follows the message on its way: packets that name
  a client name one their message was sent to, wherever they are queued
  (`AllRouted`), and so does what has been handed over (`AllFor`).
- `GlobalOrder` (`OneGlobalOrder`): Redis settles the order of two broadcasts when it runs
  the first PUBLISH. `Earlier` says that a client has been handed the one without the other,
  before the other, or will be as its server has them queued that way round. The
  invariant `Ordered`: no broadcast is earlier than itself, no two are each
  earlier than the other, whatever the servers (`OneSequence`); it waits in a
  queue once (`WaitsOnce`), and nobody has or awaits what is not published yet
  (`WaitsUnpublished`).
- `DeliveryImplemented` (`Delivers`), the refinement of `Delivery`. The invariant `Channels`: of the
  packets of one server for one client the ones in `sub` were sent before those in
  `pub`, these before those in `late`, and the queues hold them in the order of sending
  (`AllAscending`); clients
  are connected to open servers (`Homes`), what is in `pub` was sent by that server (`Own`),
  and a packet that names a client is for one that has connected elsewhere than at its
  sender (`AllFit`). So the packet a server takes from its subscription is the oldest
  of its channel. Each action is shown to be a `Cast`, `Arrive`, `Die` ... of `Delivery` or
  a stutter.

`StateUpdatesProofs`: `TypeCorrect`; `NobodyLeftBehind` (`SwitchTogether`), from the invariant
`Switching`: the group only shrinks after the start, so it stays within the clients
that were given identifiers, and these are all in the UDP list once there is one;
`LeaversCleared` (`LeaverCleared`), from `Clearing`: a client whose state was cleared has
no update under way, as the next one to be let in changes its fate.

The cells, in the second half of `GroupServerProofs` (nothing in its first half uses them or their
assumptions): `CellTypes`; `LatestStays` (`LatestCell`), for any number of overlapping
updates. Its invariant looks into the pipelines: what a client's cell will be is
decided by the last GET of a position update that is queued, or else by the last
SET, or else by the entry itself - and that is the cell of the latest position.
It holds because the SET is issued in any case and in the order of the GETs. The same
invariant gives `CellsHoldPositions`: a position lies in the cell it is mapped to, for
negative coordinates and on borders too, for every even grid size.
`InItsCellsGroup` (`InItsCell`) and `NeighboursMeet` (`NeighboursKnow`) hold as long as nobody asks
to leave or to delete a group (`UpdatesAndJoins`: with such requests they are false, who has
left a group is not in it). Their invariant is `Dwelling`: only joins are under way for a
client that is connected, as the commands that take it out of lists belong to its
CLOSE (`InMove`); the group's list follows the client's, or the push that makes up for it is
queued (`Both`); the group of each cell that is stored, or queued to be, is in the client's
list or a join on its way there (`Entered`, `Dwells`); of two members at one server one has
been told of the other, or the LRANGE of the notice is queued (`Acquainted`). The joins of
the overlapping updates need not be kept apart for it: none of them removes anything.
`IndexRoundTrip`: `to3D` is the inverse of `to1D` for odd and even bounds, as long
as no product leaves the word.

`ServiceRegistryProofs`: `TypeCorrect`; `GhostsFade` (`GhostsExpire`), from `Fading`: a POST under way is at
least as old as the absence of its sender, so the entry it writes is gone in
time; `LiveStaysListed` (`LiveStays`), from `Steady`: the POSTs of a server are an interval
apart, so each failure and each POST under way accounts for one interval of the
lifetime that has passed since the entry was written; `ListsComplete` (`ListComplete`): a
server that was registered all the time a request took is in its answer, if the
answer is about its zone, and servers of other zones are not.

`WSProxyProofs`, any number of upstreams and requests: `RotationStarvesNobody` - in round
robin mode an upstream that is up is chosen before the others got `N`
requests; the inductive invariant `RotationInv` bounds the requests it has waited for
plus the distance of the rotation to it (`Ahead`) by `N`, and the lemma `NoneSkipped` says that
one choice brings the rotation closer to each upstream that is up.
`DownMeansProbed` - an upstream is out of the rotation exactly while its timer or
probe is on.

Two remarks for who extends the proofs. The library's induction theorems cannot be
used, but `WFMin` with `NatLessThanWellFounded` can: that a set of positions has a last one
(`Largest` in `GroupStoreProofs`) and the arguments about the last queued command come from
it. A CASE whose guards overlap is unspecified and cannot be reasoned about; the models
use IF where the code's conditions are not exclusive (`MemberCheck` in `MatchMaking`).

Only model-checked: everything under fairness (`ServedEventually`, `GoneForGood`, `LeaveTakesEffect`,
`Decided`, `Answered`, `Dissolved`, `LeavesMatches`, `ComesBack`, `Arrives`, `UdpReached`, `LoopEnds`), which is
out of the prover's reach. Each invariant and each action property of the passing runs
is stated by a theorem, and so are both refinements.

## What the models show about the code

Two runs check what a comment in the code says, and find it violated:

- `messages_list`: `Server.js:195` says that a message whose recipient is elsewhere is
  forwarded, but `_sendList` publishes the whole array of ids in place of one
  (`Server.js:287`), so no receiver finds a client for it. `UDPCore.js:280` is a copy of
  the mistake (and :188 of the comment), and there it takes the states away from players in the
  middle of a match. Until the switch to UDP a tick of `_loop` goes to the TCP ids, and
  after it to the UDP ids of all players, so that whoever's UDP connection is at
  another instance than the logic gets no more states. `SwitchTogether` says that the switch
  takes everybody along, not that everybody is reached: nothing here claims that.
- `rooms_confirm`: `RoomGroupServer.js:509` says that a client is in the confirmation list once,
  and :566 that all have confirmed when the size is reached. Two CONFIRMs of one
  client that overlap are both entered (`MatchMakingConfirmation.js:34`), and the match
  starts without the other's.

Seen with TLC while the models were written; each statement is easily put back as
an invariant or temporal property of the module named:

- `GroupServer`: a client that disconnects while its JOIN is in the pipeline
  stays a member for ever (GroupServer.js:414); members on other instances get no JOIN
  notice (Server.js:287); a JOIN that overlaps a DELETE leaves the group in the client's
  list although its list and hash entry are gone; the DELETE notice is broadcast to
  the group's list after that list has been deleted (GroupServer.js:198-203), so nobody
  is told.
- `MatchMaking`: leaving and searching again during a
  matching run ends in the queue and in a match at once (RoomGroupServer.js:450, 699); a client
  that confirms and exits still counts, and the match starts with an incomplete lobby
  (RoomGroupServer.js:559); a confirmation that overlaps the disbanding of its match creates
  a list without an expiry (RoomGroupServer.js:659); with overlapping runs and
  confirmations `OneVerdict` fails, as both rounds ask for the size before either
  starts the match. The comment at RoomGroupServer.js:131 warns of several
  intervals, not of one that overtakes itself.
- `StateUpdates`: the notice of the switch, VALIDATION-TOTAL, has the header RGS:MESSAGE, which
  makes the client (`client/Simple.js:261-264`) lose its identifier, so that its later
  updates fail `_checkUdpUpdateIntegrity` (RoomGroupServer.js:886). Any other message that
  arrives first prevents the switch. `clientLeft` runs while the group's list still names the
  client, for `__handleExit` starts the removal and does not wait for it
  (RoomGroupServer.js:748); the comment at StateUpdateLogic.js:187 says that it has been removed.
- `Messaging`: a message for a client of another instance that is sent just before
  `close()` is lost although the client stays connected: the handler that publishes it
  (Server.js:174-187) runs after the QUIT (Server.js:156). `Arrives` excuses these messages.
  With the JSON layer a global broadcast reaches nobody, although
  JsonMessageLayerServer.js:108 says that it goes to all clients: every server throws when it
  gets the packet (Server.js:482, the override at JsonMessageLayerServer.js:103).
- `VectorCells`: a client that changes cells stays in the group of the old one. The comment
  at VectorGroupServer.js:143 says that it leaves, but the group's id is handed over
  under a wrong name (:147). The obvious repair breaks `InItsCell`: the LEAVE of the
  old cell can overtake the JOIN of a client that comes back at once (the mutant
  `LeaveOld_Really`).

Visible in the models without a run:

- Updates under way put the state of a leaver back, and identifiers stay valid after `clientLeft`. A client that leaves
  before it has validated holds the others on TCP for good. `udpClientList` never
  shrinks. A second "match-started" replaces the logic without ending it. States,
  group and hash entries outlive the match.
- The entry of a cell outlives its client; cell groups are per server, so neighbours
  on other servers are not heard; a broadcast right after a move may go to the old
  cell. The comment at vector.js:40-44, which doubts even bounds, is over-cautious
  (`IndexRoundTrip`).
- A dead server stays in the registry for up to 10000 s; one entry that expires between KEYS and
  MGET fails the whole list of a zone; an empty registry answers 500; two
  servers of one name overwrite each other's entry.
- Entries of clients are never removed from the groups' hash.

## Not modelled

- `UDPProxy`: a stub without code. `lib/tools` but `vector.js`, the examples, statistics and the
  start scripts: no state that anything modelled depends on.
- The SCAN iteration of `GroupHandler`, `ClientGroup.erase` and its reversed push and remove:
  called by nothing in `lib/`. The float functions of `vector.js` likewise.
- PING and broadcasts to several groups, which only send; the queue's BROADCAST;
  the manual execution of the two runs.
- A crash and restart of a RoomGroupServer: the code recovers nothing, so there is no
  recovery to state anything about. Crashes of servers are part of `Messaging` and
  `ServiceRegistry`, those of upstreams part of `WSProxy`.
- Redis errors and reconnects; failures of a socket's send; formats, logging,
  certificates, listening and closing of HTTP servers.

## Plan

Each safety property of the passing runs is proved. What could be added, in this order:

1. The safety halves of `Dissolved`, `LeavesMatches` and `GoneForGood`: once a match or a
   membership is gone it stays gone. Their other halves need fairness.
2. A weaker form of `OneRoom` for clients that LEAVE: at most the queue and one match.
