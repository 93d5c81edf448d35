------------------------------ MODULE Messaging -------------------------------
(***************************************************************************)
(* lib/Server.js with lib/JsonMessageLayerServer.js, and the copy of it in *)
(* lib/unreliable/UDPCore.js with UDPServer.js: servers that share a Redis *)
(* send messages to clients, wherever these are connected.                 *)
(*                                                                         *)
(* A server hands a message to the sockets it has; for clients of other    *)
(* servers it publishes the message on the topic "out", broadcasts to all  *)
(* go over the topic "global".  Each topic has a connection of its own for *)
(* publishing (pub: commands Redis has not run yet) and one for the        *)
(* subscription (sub: packets the server has not handled yet); each        *)
(* connection is FIFO, and Redis hands a packet to all subscribers at once.*)
(* A message for one client elsewhere is published by the rejection        *)
(* handler of _send, in a later turn of the event loop; until then it is   *)
(* in late.                                                                *)
(* (Redis, and the sockets of uws and udpws, are external: what a socket   *)
(* has been handed is as far as the model goes.)                           *)
(***************************************************************************)
EXTENDS Naturals, Sequences, FiniteSets

CONSTANTS Servers,  \* servers (originIds)
          Clients,  \* connections (clientIds)
          None,     \* a connection that does not exist yet
          Gone,     \* a connection that has been closed
          MaxSent   \* bound: messages the application sends

ASSUME MessagingAssumption == /\ {None, Gone} \cap (Servers \cup Clients) = {}
                              /\ None # Gone
                              /\ IsFiniteSet(Clients)
                              /\ MaxSent \in Nat

VARIABLES layer,  \* "raw" (Server), "json" (JsonMessageLayerServer), "udp" (UDPServer)
          phase,  \* phase[s]: how far open() has come, or how s ended
          at,     \* at[c]: the server whose clients[] has c
          late,   \* late[s]: what _send has rejected and send has not published
          pub,    \* pub[s][topic]: PUBLISH commands of s
          sub,    \* sub[s][topic]: packets on their way to s
          sent,   \* the application's sends: [kind, from, to]
          got,    \* got[c]: what the socket of c was handed
          lost    \* history: messages whose PUBLISH Redis never ran

vars == <<layer, phase, at, late, pub, sub, sent, got, lost>>

Topics == {"out", "global"}

(* sendList publishes the array of all its ids where one id belongs;        *)
(* _getClientForId finds no client for an array.                            *)
NoClient == None

(* A socket also gets the identification packet (UDP:CONN from a UDPServer) *)
(* and, from a JSON layer, the objects broadcast() forgot to stringify:     *)
(* neither is a message.                                                    *)
Ident == 0
Garbled == 0

Packet(m, to, s) == [m |-> m, to |-> to, origin |-> s]

Ids == 1..MaxSent

Packets == [m : Ids, to : Clients \cup {NoClient}, origin : Servers]

Kinds == {"one", "list", "local", "global"}

TypeOK ==
    /\ layer \in {"raw", "json", "udp"}
    /\ phase \in [Servers -> {"closed", "subscribing", "open", "stopped", "crashed"}]
    /\ at \in [Clients -> Servers \cup {None, Gone}]
    /\ late \in [Servers -> Seq(Packets)]
    /\ pub \in [Servers -> [Topics -> Seq(Packets)]]
    /\ sub \in [Servers -> [Topics -> Seq(Packets)]]
    /\ sent \in Seq([kind : Kinds, from : Servers, to : SUBSET Clients])
    /\ got \in [Clients -> Seq(Ids \cup {Ident, Garbled})]
    /\ lost \subseteq Ids

NoPackets == [s \in Servers |-> [k \in Topics |-> <<>>]]

Init ==
    /\ layer \in {"raw", "json", "udp"}
    /\ phase = [s \in Servers |-> "closed"]
    /\ at = [c \in Clients |-> None]
    /\ late = [s \in Servers |-> <<>>]
    /\ pub = NoPackets
    /\ sub = NoPackets
    /\ sent = <<>>
    /\ got = [c \in Clients |-> <<>>]
    /\ lost = {}

On(s) == {c \in Clients : at[c] = s}

Connected == {c \in Clients : at[c] \in Servers}

(* socket.send to each client of cs. *)
Hand(cs, m) == got' = [c \in Clients |-> IF c \in cs THEN Append(got[c], m) ELSE got[c]]

-------------------------------------------------------------------------------
(* open(): the topic "out" is subscribed first, then "global"; only then    *)
(* the listeners for packets and connections are attached.                  *)
SubscribeOut(s) ==
    /\ phase[s] = "closed"
    /\ phase' = [phase EXCEPT ![s] = "subscribing"]
    /\ UNCHANGED <<layer, at, late, pub, sub, sent, got, lost>>

SubscribeGlobal(s) ==
    /\ phase[s] = "subscribing"
    /\ phase' = [phase EXCEPT ![s] = "open"]
    /\ UNCHANGED <<layer, at, late, pub, sub, sent, got, lost>>

(* _onConnection; a layer answers the CONNECTED event with the id.          *)
Connect(c, s) ==
    /\ phase[s] = "open"
    /\ at[c] = None
    /\ at' = [at EXCEPT ![c] = s]
    /\ Hand(IF layer = "raw" THEN {} ELSE {c}, Ident)
    /\ UNCHANGED <<layer, phase, late, pub, sub, sent, lost>>

Disconnect(c) ==
    /\ at[c] \in Servers
    /\ at' = [at EXCEPT ![c] = Gone]
    /\ UNCHANGED <<layer, phase, late, pub, sub, sent, got, lost>>

Drop(s) == at' = [c \in Clients |-> IF at[c] = s THEN Gone ELSE at[c]]

Carried(q) == {q[i].m : i \in DOMAIN q}

(* close(): the sockets go.  QUIT lets Redis run what was published before; *)
(* the handlers that are still to publish come after it, in vain.           *)
Stop(s) ==
    /\ phase[s] = "open"
    /\ phase' = [phase EXCEPT ![s] = "stopped"]
    /\ Drop(s)
    /\ sub' = [sub EXCEPT ![s] = [k \in Topics |-> <<>>]]
    /\ late' = [late EXCEPT ![s] = <<>>]
    /\ lost' = lost \cup Carried(late[s])
    /\ UNCHANGED <<layer, pub, sent, got>>

(* The process dies. *)
Crash(s) ==
    /\ phase[s] = "open"
    /\ phase' = [phase EXCEPT ![s] = "crashed"]
    /\ Drop(s)
    /\ sub' = [sub EXCEPT ![s] = [k \in Topics |-> <<>>]]
    /\ pub' = [pub EXCEPT ![s] = [k \in Topics |-> <<>>]]
    /\ late' = [late EXCEPT ![s] = <<>>]
    /\ lost' = lost \cup Carried(late[s]) \cup UNION {Carried(pub[s][k]) : k \in Topics}
    /\ UNCHANGED <<layer, sent, got>>

-------------------------------------------------------------------------------
(* Sending.  Messages are numbered; a clientId is known once its owner has  *)
(* connected, and may be used after it has gone.                            *)

Known == {c \in Clients : at[c] # None}

NextId == Len(sent) + 1

Log(kind, s, cs) == /\ phase[s] = "open"
                    /\ NextId \in Ids
                    /\ sent' = Append(sent, [kind |-> kind, from |-> s, to |-> cs])

Issue(s, k, packets) == pub' = [pub EXCEPT ![s][k] = @ \o packets]

(* Mutant: other servers are not asked. *)
Send_LocalOnly(s, c) ==
    /\ Log("one", s, {c})
    /\ Hand({c} \cap On(s), NextId)
    /\ UNCHANGED <<layer, phase, at, late, pub, sub, lost>>

(* Mutant: what is for other servers overtakes what waits to be published.  *)
Send_Unordered(s, c) ==
    /\ Log("one", s, {c})
    /\ Hand({c} \cap On(s), NextId)
    /\ late' = IF c \in On(s) THEN late
                ELSE [late EXCEPT ![s] = <<Packet(NextId, c, s)>> \o @]
    /\ UNCHANGED <<layer, phase, at, pub, sub, lost>>

(* _send finds the socket, or rejects. *)
Send(s, c) ==
    /\ Log("one", s, {c})
    /\ Hand({c} \cap On(s), NextId)
    /\ late' = IF c \in On(s) THEN late
                ELSE [late EXCEPT ![s] = Append(@, Packet(NextId, c, s))]
    /\ UNCHANGED <<layer, phase, at, pub, sub, lost>>

(* The rejection handler: the next turn publishes.  (bluebird runs handlers *)
(* in the order of the rejections.)                                         *)
Forward(s) ==
    /\ late[s] # <<>>
    /\ late' = [late EXCEPT ![s] = Tail(@)]
    /\ Issue(s, "out", <<Head(late[s])>>)
    /\ UNCHANGED <<layer, phase, at, sub, sent, got, lost>>

(* _sendList: one packet for each id that is not here. *)
SendList(s, cs) ==
    /\ Log("list", s, cs)
    /\ Hand(cs \cap On(s), NextId)
    /\ Issue(s, "out", [i \in 1..Cardinality(cs \ On(s)) |-> Packet(NextId, NoClient, s)])
    /\ UNCHANGED <<layer, phase, at, late, sub, lost>>

Broadcast(s) ==
    /\ Log("local", s, On(s))
    /\ Hand(On(s), IF layer = "json" THEN Garbled ELSE NextId)
    /\ UNCHANGED <<layer, phase, at, late, pub, sub, lost>>

(* Mutant: the own clients are served at once. *)
BroadcastGlobal_OwnFirst(s) ==
    /\ Log("global", s, Connected)
    /\ Hand(On(s), NextId)
    /\ Issue(s, "global", <<Packet(NextId, NoClient, s)>>)
    /\ UNCHANGED <<layer, phase, at, late, sub, lost>>

BroadcastGlobal(s) ==
    /\ Log("global", s, Connected)
    /\ Issue(s, "global", <<Packet(NextId, NoClient, s)>>)
    /\ UNCHANGED <<layer, phase, at, late, sub, got, lost>>

-------------------------------------------------------------------------------
(* Redis and the subscribers. *)

Subscribed(k) == {s \in Servers : phase[s] \in
                     (IF k = "out" THEN {"subscribing", "open"} ELSE {"open"})}

Publish(s, k) ==
    /\ pub[s][k] # <<>>
    /\ pub' = [pub EXCEPT ![s][k] = Tail(@)]
    /\ sub' = [t \in Servers |-> IF t \in Subscribed(k)
                                 THEN [sub[t] EXCEPT ![k] = Append(@, Head(pub[s][k]))]
                                 ELSE sub[t]]
    /\ UNCHANGED <<layer, phase, at, late, sent, got, lost>>

Take(s, k) == /\ sub[s][k] # <<>>
              /\ sub' = [sub EXCEPT ![s][k] = Tail(@)]
              /\ UNCHANGED <<layer, phase, at, late, pub, sent, lost>>

(* Mutant: the addressee is not looked up. *)
OnMessageOut_Anybody(s) ==
    LET p == Head(sub[s]["out"]) IN
    /\ Take(s, "out")
    /\ Hand(IF phase[s] = "open" /\ p.origin # s THEN On(s) ELSE {}, p.m)

(* _onMessageOut: the sender's own packets are ignored, and whatever        *)
(* arrives before the listener is attached.                                 *)
OnMessageOut(s) ==
    LET p == Head(sub[s]["out"]) IN
    /\ Take(s, "out")
    /\ Hand(IF phase[s] = "open" /\ p.origin # s THEN On(s) \cap {p.to} ELSE {}, p.m)

(* _onMessageGlobal calls this.broadcast(message.message).                  *)
OnMessageGlobal(s) ==
    LET p == Head(sub[s]["global"]) IN
    /\ layer # "json"
    /\ Take(s, "global")
    /\ Hand(On(s), p.m)

(* In a JSON layer that is the override, which misses its second argument   *)
(* and throws in the listener.  The process dies of it, unless it has a     *)
(* handler for uncaught exceptions (tools/uhecatcher.js): then it goes on.  *)
OnMessageGlobalThrows(s) ==
    /\ layer = "json"
    /\ sub[s]["global"] # <<>>
    /\ Crash(s) \/ (Take(s, "global") /\ Hand({}, Garbled))

-------------------------------------------------------------------------------
Lifecycle(s) == \/ SubscribeOut(s)
                \/ SubscribeGlobal(s)
                \/ Stop(s)
                \/ Crash(s)
                \/ \E c \in Clients : Connect(c, s)

Application(s) == \/ \E c \in Known : Send(s, c)
                  \/ \E cs \in SUBSET Known : cs # {} /\ SendList(s, cs)
                  \/ Broadcast(s)
                  \/ BroadcastGlobal(s)

Transport(s) == \/ Forward(s)
                \/ \E k \in Topics : Publish(s, k)
                \/ OnMessageOut(s)
                \/ OnMessageGlobal(s)
                \/ OnMessageGlobalThrows(s)

Next == \/ \E s \in Servers : Lifecycle(s) \/ Application(s) \/ Transport(s)
        \/ \E c \in Clients : Disconnect(c)

Spec == Init /\ [][Next]_vars

(* Handlers run, Redis runs what it is sent, and live servers read their    *)
(* subscriptions.                                                           *)
FairSpec ==
    /\ Spec
    /\ \A s \in Servers : /\ WF_vars(Forward(s))
                          /\ \A k \in Topics : WF_vars(Publish(s, k))
                          /\ WF_vars(OnMessageOut(s))
                          /\ WF_vars(OnMessageGlobal(s))
                          /\ WF_vars(OnMessageGlobalThrows(s))

-------------------------------------------------------------------------------
(* Properties. *)

Has(c, m) == \E i \in DOMAIN got[c] : got[c][i] = m

(* Only the addressee of a message gets it; a global broadcast, those that  *)
(* were connected when it was sent or came while it was under way.          *)
RightAddressee ==
    \A c \in Clients, m \in Ids :
        Has(c, m) => sent[m].kind = "global" \/ c \in sent[m].to

(* All clients see global broadcasts in one order, that of the topic,       *)
(* whichever servers they are sent from and received at.                    *)
Before(c, m, n) == \E i, j \in DOMAIN got[c] : i < j /\ got[c][i] = m /\ got[c][j] = n

OneGlobalOrder ==
    \A c, d \in Clients, m, n \in Ids :
        (/\ {c, d} \subseteq {x \in Clients : Has(x, m) /\ Has(x, n)}
         /\ sent[m].kind = "global" /\ sent[n].kind = "global"
         /\ Before(c, m, n)) => Before(d, m, n)

Bears(q, s, c, m) == \E i \in DOMAIN q : q[i] = Packet(m, c, s)

(* The messages from s that are on their way to c: they wait at c's server, *)
(* Redis has not run them yet, or s has still to publish them.              *)
Underway(s, c) ==
    {m \in DOMAIN sent : /\ at[c] \in Servers
                         /\ \/ Bears(sub[at[c]]["out"], s, c, m)
                            \/ Bears(pub[s]["out"], s, c, m)
                            \/ Bears(late[s], s, c, m)}

(* The servers implement Delivery: messages for one client neither overtake *)
(* each other nor vanish, and nothing arrives twice, although a broadcast   *)
(* comes back to its sender (toSelf) and a packet for one client reaches    *)
(* every server.                                                            *)
Promise == INSTANCE Delivery WITH
    sent <- Len(sent),
    casts <- {m \in DOMAIN sent : sent[m].kind # "one"},
    up <- Connected,
    channel <- [s \in Servers |-> [c \in Clients |-> Underway(s, c)]],
    got <- got

Delivers == Promise!Spec

(* A message gets through unless the client has gone, or its sender ended   *)
(* before Redis had run the PUBLISH: it crashed, or it was closed before    *)
(* the handler that publishes came to run.                                  *)
Arrived(m) == /\ m \in DOMAIN sent
              /\ \A c \in sent[m].to : Has(c, m) \/ at[c] = Gone \/ m \in lost

Sent(kind, m) == m \in DOMAIN sent /\ sent[m].kind = kind

(* A message for one client gets through, wherever the client is connected  *)
(* and whatever becomes of its sender once it is published, and so does,    *)
(* but with a JSON layer, a global broadcast to everybody who was there.    *)
Arrives ==
    \A m \in Ids :
        Sent("one", m) \/ (Sent("global", m) /\ layer # "json") ~> Arrived(m)

(* Server.js:195: a message for a list reaches those on other servers too.  *)
ListArrives == \A m \in Ids : Sent("list", m) ~> Arrived(m)
===============================================================================
