---------------------------- MODULE StateUpdates -----------------------------
(***************************************************************************)
(* A running match: lib/logic/StateUpdateLogic.js, the event wiring and    *)
(* the update handlers of lib/RoomGroupServer.js, lib/dto/State.js, the    *)
(* UDP side (lib/unreliable) and the test clients (client/).               *)
(*                                                                         *)
(* One instance, Home, wins the race for "match-started" and runs the      *)
(* logic of the match; the others only pass on events.  A client has a TCP *)
(* connection and, once it has its identifier, a UDP connection, each to   *)
(* some instance.  Events travel over merkury (external): in order from    *)
(* one instance, in any order from different ones.                         *)
(***************************************************************************)
EXTENDS Naturals, Sequences, FiniteSets

CONSTANTS Servers,    \* instances
          Home,       \* the instance that runs the logic
          Clients,    \* the clients the match was made of
          Leavers,    \* bound: those who may leave or disconnect
          Placements, \* where the clients are: [tcp, udp : Clients -> Servers]
          MaxChats,   \* bound: "message" packets sent, over TCP and UDP
          None

ASSUME StateUpdatesAssumption ==
    /\ Home \in Servers
    /\ IsFiniteSet(Clients)
    /\ Placements \subseteq [tcp : [Clients -> Servers], udp : [Clients -> Servers]]
    /\ MaxChats \in Nat

VARIABLES place,    \* the placement
          online,   \* clients whose sockets are open
          lists,    \* clients whose own list in Redis holds the match
          group,    \* clients on the group's list in Redis
          leaving,  \* clients whose removal has been started
          logic,    \* "idle", "starting" (execute() asks Redis), "on" or "over"
          given,    \* clients in clientUidMap
          valid,    \* clients in validatedUidMap
          udpList,  \* udpClientList, by client
          hash,     \* clients with an entry in the state hash in Redis
          writing,  \* TCP state updates between the LRANGE and the HSET
          events,   \* events[s]: events s has emitted
          mail,     \* mail[c]: packets of Home on their way to c
          uid,      \* uid[c]: us_uid of the client
          chats,
          fate      \* history: "playing", "cleared" (clientLeft ran) or "late"

vars == <<place, online, lists, group, leaving, logic, given, valid, udpList,
          hash, writing, events, mail, uid, chats, fate>>

redis   == <<lists, group, leaving>>
matchV  == <<logic, given, valid, udpList>>
clientV == <<online, mail, uid>>

Uids == {"none", "good", "undefined"}

Event(k, c) == [k |-> k, c |-> c]

(* The packets a client sends over UDP, as the events they become.          *)
UdpKinds == {"udp-state", "udp-message", "udp-world"}

(* There is a logic of the match: its timers and listeners are there before *)
(* its identifiers are.                                                     *)
Running == logic \in {"starting", "on"}

TypeOK ==
    /\ place \in Placements
    /\ online \subseteq Clients
    /\ lists \subseteq group /\ group \subseteq Clients
    /\ leaving \subseteq Clients
    /\ logic \in {"idle", "starting", "on", "over"}
    /\ udpList \subseteq valid /\ valid \subseteq given /\ given \subseteq Clients
    /\ hash \subseteq Clients
    /\ writing \subseteq Clients
    /\ events \in [Servers -> Seq([k : UdpKinds \cup {"tcp-message", "exited"},
                                   c : Clients] \cup [k : {"ended"}, c : {None}])]
    /\ mail \in [Clients -> Seq({"identifier", "message"})]
    /\ uid \in [Clients -> Uids]
    /\ chats \in 0..MaxChats
    /\ fate \in [Clients -> {"playing", "cleared", "late"}]

(* The match has just been started: "match-started" is under way.           *)
Init ==
    /\ place \in Placements
    /\ online = Clients
    /\ lists = Clients
    /\ group = Clients
    /\ leaving = {}
    /\ logic = "idle"
    /\ given = {}
    /\ valid = {}
    /\ udpList = {}
    /\ hash = {}
    /\ writing = {}
    /\ events = [s \in Servers |-> <<>>]
    /\ mail = [c \in Clients |-> <<>>]
    /\ uid = [c \in Clients |-> "none"]
    /\ chats = 0
    /\ fate = [c \in Clients |-> "playing"]

(* Clients whose TCP connection is at Home: sendList reaches no others.     *)
TcpHere == {c \in online : place.tcp[c] = Home}

Emit(s, e) == events' = [events EXCEPT ![s] = Append(@, e)]

Post(cs, p) == mail' = [c \in Clients |-> IF c \in cs THEN Append(mail[c], p) ELSE mail[c]]

(* An update of c has been received but has not reached the state hash.     *)
UnderWay(c) == \/ c \in writing
               \/ \E s \in Servers : \E i \in DOMAIN events[s] :
                     events[s][i] = Event("udp-state", c)

(* A packet of c is under way to the logic.                                 *)
Sending(c) == \/ c \in writing
              \/ \E s \in Servers : \E i \in DOMAIN events[s] :
                    events[s][i].c = c /\ events[s][i].k \in UdpKinds

-------------------------------------------------------------------------------
(* Clients *)

(* Simple.js: any packet with the header RGS:MESSAGE is taken for the       *)
(* identifier, and its content's identifier, if any, for the uid.           *)
Receive(c) ==
    /\ mail[c] # <<>>
    /\ mail' = [mail EXCEPT ![c] = Tail(@)]
    /\ uid' = [uid EXCEPT ![c] = CASE Head(mail[c]) = "identifier" -> "good"
                                   [] Head(mail[c]) = "message" -> "undefined"]
    /\ UNCHANGED <<place, online, redis, matchV, hash, writing, events, chats, fate>>

TimeUp == \E i \in DOMAIN events[Home] : events[Home][i].k = "ended"

(* Bound: when the time of the match is up, nobody sends any more.          *)
Playing == logic # "over" /\ ~TimeUp

(* Bound: messages only in matches that nobody leaves.                      *)
Together == leaving = {} /\ online = Clients

(* __handleUdpUpdateState, -Message and -World: a packet without a uid      *)
(* fails the integrity check, any other is emitted as a "udp-msg".  Packets *)
(* may be lost, late, even behind the close of the client, or doubled.      *)
(* Bound: one of a client is under way at a time, "world" packets only      *)
(* while there is something they can do, validate the client.               *)
UdpArrives(c, k) ==
    /\ Playing
    /\ uid[c] = "good"
    /\ ~Sending(c)
    /\ Emit(place.udp[c], Event(k, c))
    /\ k = "udp-message" => Together /\ chats < MaxChats
    /\ k = "udp-world" => c \notin valid
    /\ chats' = IF k = "udp-message" THEN chats + 1 ELSE chats
    /\ fate' = [fate EXCEPT ![c] = IF @ = "cleared" /\ k = "udp-state" THEN "late" ELSE @]
    /\ UNCHANGED <<place, redis, matchV, hash, writing, clientV>>

(* __handleUpdateState: Redis says that the client is in the match ...      *)
TcpState(c) ==
    /\ Playing
    /\ c \in online \cap lists
    /\ ~Sending(c)
    /\ writing' = writing \cup {c}
    /\ fate' = [fate EXCEPT ![c] = IF @ = "cleared" THEN "late" ELSE @]
    /\ UNCHANGED <<place, redis, matchV, hash, events, clientV, chats>>

(* ... and the client's own instance stores the state.                      *)
TcpStore(c) ==
    /\ c \in writing
    /\ writing' = writing \ {c}
    /\ hash' = hash \cup {c}
    /\ UNCHANGED <<place, redis, matchV, events, clientV, chats, fate>>

(* __handleUpdateMessage: what the others get is seen by their clients only;*)
(* "world" packets take the same way and change nothing: left out.          *)
TcpMessage(c) ==
    /\ Playing
    /\ c \in online \cap lists
    /\ Together
    /\ chats < MaxChats
    /\ chats' = chats + 1
    /\ Emit(place.tcp[c], Event("tcp-message", c))
    /\ UNCHANGED <<place, redis, matchV, hash, writing, clientV, fate>>

(* __handleExit: the removal from both lists is started and not waited for. *)
Exit(c) ==
    /\ Playing
    /\ chats = 0
    /\ c \in online \cap group \cap Leavers
    /\ c \notin leaving
    /\ leaving' = leaving \cup {c}
    /\ Emit(place.tcp[c], Event("exited", c))
    /\ UNCHANGED <<place, lists, group, matchV, hash, writing, clientV, chats, fate>>

(* The client closes its connections.  __handleClose: a client whose list   *)
(* holds the match leaves it the same way.                                  *)
Close(c) ==
    /\ Playing
    /\ chats = 0
    /\ c \in online \cap Leavers
    /\ online' = online \ {c}
    /\ mail' = [mail EXCEPT ![c] = <<>>]
    /\ IF c \in lists
       THEN /\ leaving' = leaving \cup {c}
            /\ Emit(place.tcp[c], Event("exited", c))
       ELSE UNCHANGED <<leaving, events>>
    /\ UNCHANGED <<place, lists, group, matchV, hash, writing, uid, chats, fate>>

(* Group.remove: the client's list first, then the group's.                 *)
Remove(c) ==
    /\ c \in leaving \cap group
    /\ lists' = lists \ {c}
    /\ group' = IF c \in lists THEN group ELSE group \ {c}
    /\ UNCHANGED <<place, leaving, matchV, hash, writing, events, clientV, chats, fate>>

-------------------------------------------------------------------------------
(* The instance that runs the logic *)

(* "match-started", execute(): the loop and the timer are set, then the     *)
(* group is looked up in Redis ...                                          *)
MatchStarted ==
    /\ logic = "idle"
    /\ logic' = "starting"
    /\ UNCHANGED <<place, redis, given, valid, udpList, hash, writing, events, clientV,
                   chats, fate>>

(* ... and everybody who is on its list gets an identifier.                 *)
SendIdentifiers ==
    /\ logic = "starting"
    /\ logic' = "on"
    /\ given' = group
    /\ Post(group \cap online, "identifier")
    /\ UNCHANGED <<place, redis, valid, udpList, hash, writing, events, online,
                   uid, chats, fate>>

Take(s, ks) == /\ events[s] # <<>>
               /\ Head(events[s]).k \in ks
               /\ events' = [events EXCEPT ![s] = Tail(@)]

(* Other instances have no logic of the match, and Home has none before the *)
(* start and after the end.                                                 *)
Ignore(s) ==
    /\ ~Running
    /\ events[s] # <<>>
    /\ events' = [events EXCEPT ![s] = Tail(@)]
    /\ UNCHANGED <<place, redis, matchV, hash, writing, clientV, chats, fate>>

(* _sendToGroup reads the group's list; sendList serves the sockets here.   *)
SendToGroup(packets) ==
    mail' = [c \in Clients |-> IF c \in group \cap TcpHere THEN mail[c] \o packets ELSE mail[c]]

(* _checkFirstClientIdentifierValidation: c completes the validation.       *)
(* Mutant: those who are still there are counted. *)
Completes_Present(c) ==
    /\ c \notin valid
    /\ Cardinality(valid \cup {c}) >= Cardinality(group)

(* Mutant: the client itself is not counted. *)
Completes_Others(c) ==
    /\ c \notin valid
    /\ Cardinality(valid) >= Cardinality(given)

Completes(c) ==
    /\ c \notin valid
    /\ Cardinality(valid \cup {c}) >= Cardinality(given)

(* handleUdpMessage: an identifier that was given out stays good, whatever  *)
(* the packet.  The last client to validate makes the logic send            *)
(* VALIDATION-TOTAL, a packet with the header RGS:MESSAGE, and switch to    *)
(* UDP; a state is stored, a broadcast message passed on.                   *)
HandleUdp(s) ==
    LET e == Head(events[s])
        done == e.c \in given /\ Completes(e.c)
        told == e.c \in given /\ e.k = "udp-message" IN
    /\ Running
    /\ Take(s, UdpKinds)
    /\ valid' = valid \cup ({e.c} \cap given)
    /\ udpList' = IF done THEN valid' ELSE udpList
    /\ SendToGroup((IF done THEN <<"message">> ELSE <<>>) \o (IF told THEN <<"message">> ELSE <<>>))
    /\ hash' = IF e.k = "udp-state" THEN hash \cup ({e.c} \cap given) ELSE hash
    /\ UNCHANGED <<place, redis, logic, given, writing, online, uid, chats, fate>>

(* handleTcpMessage: the broadcast is passed on to the group.               *)
HandleTcp(s) ==
    /\ Running
    /\ Take(s, {"tcp-message"})
    /\ SendToGroup(<<"message">>)
    /\ UNCHANGED <<place, redis, matchV, hash, writing, online, uid, chats, fate>>

(* Mutant: the state of the client is left where it is. *)
MatchExited_KeepsState(s) ==
    LET c == Head(events[s]).c IN
    /\ Running
    /\ Take(s, {"exited"})
    /\ fate' = [fate EXCEPT ![c] = IF UnderWay(c) THEN "late" ELSE "cleared"]
    /\ UNCHANGED <<place, redis, matchV, hash, writing, clientV, chats>>

(* "match-exited", clientLeft(): only the state of the client is removed.   *)
MatchExited(s) ==
    LET c == Head(events[s]).c IN
    /\ Running
    /\ Take(s, {"exited"})
    /\ hash' = hash \ {c}
    /\ fate' = [fate EXCEPT ![c] = IF UnderWay(c) THEN "late" ELSE "cleared"]
    /\ UNCHANGED <<place, redis, matchV, writing, clientV, chats>>

(* The timer of execute() fires: endMatch().  Bound: a match lasts longer   *)
(* than the two commands of its start.                                      *)
Timeout ==
    /\ logic = "on"
    /\ ~TimeUp
    /\ Emit(Home, Event("ended", None))
    /\ UNCHANGED <<place, redis, logic, given, valid, udpList, hash, writing, clientV,
                   chats, fate>>

(* Mutant: the logic is forgotten without having been stopped. *)
MatchEnded_NotStopped(s) ==
    /\ Running
    /\ Take(s, {"ended"})
    /\ UNCHANGED <<place, redis, matchV, hash, writing, clientV, chats, fate>>

(* "match-ended", end(): the loop stops.  Nothing is erased, nobody told.   *)
MatchEnded(s) ==
    /\ Running
    /\ Take(s, {"ended"})
    /\ logic' = "over"
    /\ UNCHANGED <<place, redis, given, valid, udpList, hash, writing, clientV,
                   chats, fate>>

-------------------------------------------------------------------------------
Player(c) == \/ Receive(c)
             \/ \E k \in UdpKinds : UdpArrives(c, k)
             \/ TcpState(c)
             \/ TcpStore(c)
             \/ TcpMessage(c)
             \/ Exit(c)
             \/ Close(c)
             \/ Remove(c)

Handle(s) == \/ HandleUdp(s)
             \/ HandleTcp(s)
             \/ MatchExited(s)
             \/ MatchEnded(s)
             \/ Ignore(s)

Next == \/ \E c \in Clients : Player(c)
        \/ \E s \in Servers : Handle(s)
        \/ MatchStarted
        \/ SendIdentifiers
        \/ Timeout

Spec == Init /\ [][Next]_vars

(* Events are delivered and handled, commands run; the clients go on        *)
(* sending, and the network does not lose everything they send.  The timer  *)
(* need not fire: a match is long.                                          *)
FairSpec ==
    /\ Spec
    /\ WF_vars(MatchStarted)
    /\ WF_vars(SendIdentifiers)
    /\ \A s \in Servers : WF_vars(Handle(s))
    /\ \A c \in Clients : /\ WF_vars(Receive(c))
                          /\ WF_vars(TcpStore(c))
                          /\ SF_vars(UdpArrives(c, "udp-state"))

-------------------------------------------------------------------------------
(* Properties. *)

(* A client that left is no longer among the states the others are sent,    *)
(* unless an update of it was under way when clientLeft ran or was let in   *)
(* afterwards (an identifier stays good, and the removal of the client from *)
(* the lists is not waited for).                                            *)
LeaverCleared == \A c \in Clients : fate[c] = "cleared" => c \notin hash

(* The switch from TCP to UDP takes no player's updates away: it waits for  *)
(* everybody who was given an identifier, and the match has no others.      *)
SwitchTogether ==
    /\ udpList # {} => given \subseteq udpList
    /\ udpList # {} => group \subseteq udpList

(* While everybody stays and nobody's packets are mistaken for identifiers, *)
(* the match does switch to UDP, whatever the network loses.                *)
UdpReached ==
    logic = "on" ~> \/ udpList = Clients
                    \/ leaving # {}
                    \/ chats > 0
                    \/ logic # "on"

(* When the time of a match is up, its loop is stopped.                     *)
LoopEnds == TimeUp ~> logic = "over"
===============================================================================
