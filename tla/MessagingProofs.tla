--------------------------- MODULE MessagingProofs ----------------------------
(***************************************************************************)
(* The messaging of any number of servers and clients, whatever layer is   *)
(* on top and whoever connects, goes, stops or crashes.                    *)
(***************************************************************************)
EXTENDS Messaging, TLAPS, FiniteSetTheorems, SequenceTheorems

-------------------------------------------------------------------------------
Queues == [Servers -> [Topics -> Seq(Packets)]]

Items == Ids \cup {Ident, Garbled}

Sends == [kind : Kinds, from : Servers, to : SUBSET Clients]

LEMMA TypeInit == Init => TypeOK
<1> SUFFICES ASSUME Init PROVE TypeOK
  OBVIOUS
<1>1. <<>> \in Seq(Packets) /\ <<>> \in Seq(Items) /\ <<>> \in Seq(Sends)
  OBVIOUS
<1>2. pub \in Queues /\ sub \in Queues /\ late \in [Servers -> Seq(Packets)]
  BY <1>1 DEF Init, NoPackets, Queues
<1>3. got \in [Clients -> Seq(Items)] /\ sent \in Seq(Sends)
  BY <1>1 DEF Init
<1> QED  BY <1>2, <1>3 DEF Init, TypeOK, Queues, Items, Sends

LEMMA Handing ==
    ASSUME TypeOK, NEW cs, NEW m \in Items, Hand(cs, m)
    PROVE  got' \in [Clients -> Seq(Items)]
<1>1. got \in [Clients -> Seq(Items)]
  BY DEF TypeOK, Items
<1> QED  BY <1>1 DEF Hand

LEMMA Issuing ==
    ASSUME TypeOK, NEW s \in Servers, NEW k \in Topics, NEW q \in Seq(Packets), Issue(s, k, q)
    PROVE  pub' \in Queues
<1>1. pub \in Queues /\ pub[s][k] \o q \in Seq(Packets)
  BY DEF TypeOK, Queues
<1> QED  BY <1>1 DEF Issue, Queues

LEMMA CarriedIds ==
    ASSUME NEW q \in Seq(Packets)
    PROVE  Carried(q) \subseteq Ids
<1>1. \A i \in DOMAIN q : q[i] \in Packets
  OBVIOUS
<1> QED  BY <1>1 DEF Carried, Packets

LEMMA Logging ==
    ASSUME TypeOK, NEW kind \in Kinds, NEW s \in Servers, NEW cs \in SUBSET Clients,
           Log(kind, s, cs)
    PROVE  /\ sent' \in Seq(Sends) /\ NextId \in Ids /\ NextId \in Items
           /\ Len(sent') = NextId /\ sent'[NextId] = [kind |-> kind, from |-> s, to |-> cs]
           /\ \A m \in DOMAIN sent : m \in DOMAIN sent' /\ sent'[m] = sent[m]
<1>1. sent \in Seq(Sends) /\ [kind |-> kind, from |-> s, to |-> cs] \in Sends
  BY DEF TypeOK, Sends
<1>2. sent' = Append(sent, [kind |-> kind, from |-> s, to |-> cs]) /\ NextId \in Ids
  BY DEF Log
<1> QED  BY <1>1, <1>2 DEF NextId, Items

(* The packets of a list are as many as it has clients elsewhere.           *)
LEMMA ListPackets ==
    ASSUME TypeOK, NEW s \in Servers, NEW cs \in SUBSET Clients, NextId \in Ids
    PROVE  [i \in 1..Cardinality(cs \ On(s)) |-> Packet(NextId, NoClient, s)] \in Seq(Packets)
<1>1. IsFiniteSet(cs \ On(s))
  BY FS_Subset, MessagingAssumption
<1>2. Cardinality(cs \ On(s)) \in Nat
  BY <1>1, FS_CardinalityType
<1>3. Packet(NextId, NoClient, s) \in Packets
  BY DEF Packet, Packets
<1>4. [i \in 1..Cardinality(cs \ On(s)) |-> Packet(NextId, NoClient, s)]
         \in [1..Cardinality(cs \ On(s)) -> Packets]
  BY <1>3
<1> QED  BY <1>2, <1>4, SeqDef

LEMMA TypeNext == TypeOK /\ [Next]_vars => TypeOK'
<1> SUFFICES ASSUME TypeOK, [Next]_vars PROVE TypeOK'
  OBVIOUS
<1>0. TypeOK <=> /\ layer \in {"raw", "json", "udp"}
                 /\ phase \in [Servers -> {"closed", "subscribing", "open", "stopped", "crashed"}]
                 /\ at \in [Clients -> Servers \cup {None, Gone}]
                 /\ late \in [Servers -> Seq(Packets)]
                 /\ pub \in Queues /\ sub \in Queues
                 /\ sent \in Seq(Sends)
                 /\ got \in [Clients -> Seq(Items)]
                 /\ lost \subseteq Ids
  BY DEF TypeOK, Queues, Items, Sends
<1>p. pub \in Queues /\ sub \in Queues /\ late \in [Servers -> Seq(Packets)] /\ lost \subseteq Ids
  BY <1>0
<1>1. ASSUME NEW s \in Servers, SubscribeOut(s) \/ SubscribeGlobal(s) PROVE TypeOK'
  BY <1>1 DEF SubscribeOut, SubscribeGlobal, TypeOK
<1>2. ASSUME NEW s \in Servers, NEW c \in Clients, Connect(c, s) PROVE TypeOK'
  <2>1. got' \in [Clients -> Seq(Items)]
    BY <1>2, Handing DEF Connect, Items
  <2> QED  BY <1>2, <2>1 DEF Connect, TypeOK, Items
<1>3. ASSUME NEW c \in Clients, Disconnect(c) PROVE TypeOK'
  BY <1>3 DEF Disconnect, TypeOK
<1>4. ASSUME NEW s \in Servers, Stop(s) \/ Crash(s) PROVE TypeOK'
  <2>1. at' \in [Clients -> Servers \cup {None, Gone}]
    BY <1>4 DEF Stop, Crash, Drop, TypeOK
  <2>2. [k \in Topics |-> <<>>] \in [Topics -> Seq(Packets)]
    OBVIOUS
  <2>3. sub' \in Queues /\ pub' \in Queues
    BY <1>4, <1>p, <2>2 DEF Stop, Crash, Queues
  <2>4. phase' \in [Servers -> {"closed", "subscribing", "open", "stopped", "crashed"}]
    BY <1>4 DEF Stop, Crash, TypeOK
  <2>5. late' \in [Servers -> Seq(Packets)]
    <3>1. <<>> \in Seq(Packets)
      OBVIOUS
    <3> QED  BY <1>4, <1>p, <3>1 DEF Stop, Crash
  <2>6. Carried(late[s]) \subseteq Ids /\ \A k \in Topics : Carried(pub[s][k]) \subseteq Ids
    BY <1>p, CarriedIds DEF Queues
  <2>7. lost' \subseteq Ids
    BY <1>4, <1>p, <2>6 DEF Stop, Crash
  <2> QED  BY <1>4, <2>1, <2>3, <2>4, <2>5, <2>7 DEF Stop, Crash, TypeOK, Queues
<1>5. ASSUME NEW s \in Servers, NEW c \in Clients, Send(s, c) PROVE TypeOK'
  <2>1. sent' \in Seq(Sends) /\ NextId \in Ids /\ NextId \in Items
    BY <1>5, Logging DEF Send, Kinds
  <2>2. Packet(NextId, c, s) \in Packets /\ late[s] \in Seq(Packets)
    BY <1>p, <2>1 DEF Packet, Packets
  <2>3. late' \in [Servers -> Seq(Packets)]
    <3>1. Append(late[s], Packet(NextId, c, s)) \in Seq(Packets)
      BY <2>2
    <3> QED  BY <1>5, <1>p, <3>1 DEF Send
  <2>4. got' \in [Clients -> Seq(Items)]
    BY <1>5, <2>1, Handing DEF Send
  <2> QED  BY <1>5, <2>1, <2>3, <2>4 DEF Send, TypeOK, Items, Sends
<1>6. ASSUME NEW s \in Servers, NEW cs \in SUBSET Clients, SendList(s, cs) PROVE TypeOK'
  <2>1. sent' \in Seq(Sends) /\ NextId \in Ids /\ NextId \in Items
    BY <1>6, Logging DEF SendList, Kinds
  <2>2. pub' \in Queues
    BY <1>6, <2>1, ListPackets, Issuing DEF SendList, Topics
  <2>3. got' \in [Clients -> Seq(Items)]
    BY <1>6, <2>1, Handing DEF SendList
  <2> QED  BY <1>6, <2>1, <2>2, <2>3 DEF SendList, TypeOK, Queues, Items, Sends
<1>7. ASSUME NEW s \in Servers, Broadcast(s) PROVE TypeOK'
  <2>1. sent' \in Seq(Sends) /\ NextId \in Items
    BY <1>7, Logging DEF Broadcast, Kinds, On
  <2>2. got' \in [Clients -> Seq(Items)]
    BY <1>7, <2>1, Handing DEF Broadcast, Items
  <2> QED  BY <1>7, <2>1, <2>2 DEF Broadcast, TypeOK, Items, Sends
<1>8. ASSUME NEW s \in Servers, BroadcastGlobal(s) PROVE TypeOK'
  <2>1. sent' \in Seq(Sends) /\ NextId \in Ids
    BY <1>8, Logging DEF BroadcastGlobal, Kinds, Connected
  <2>2. <<Packet(NextId, NoClient, s)>> \in Seq(Packets)
    <3>1. Packet(NextId, NoClient, s) \in Packets
      BY <2>1 DEF Packet, Packets
    <3> QED  BY <3>1
  <2>3. pub' \in Queues
    BY <1>8, <2>2, Issuing DEF BroadcastGlobal, Topics
  <2> QED  BY <1>8, <2>1, <2>3 DEF BroadcastGlobal, TypeOK, Queues, Sends
<1>9. ASSUME NEW s \in Servers, NEW k \in Topics, Publish(s, k) PROVE TypeOK'
  <2>1. pub[s][k] \in Seq(Packets) /\ pub[s][k] # <<>>
    BY <1>9, <1>p DEF Publish, Queues
  <2>2. Tail(pub[s][k]) \in Seq(Packets) /\ Head(pub[s][k]) \in Packets
    BY <2>1
  <2>3. pub' \in Queues
    BY <1>9, <1>p, <2>2 DEF Publish, Queues
  <2>4. sub' \in Queues
    <3>1. \A t \in Servers : Append(sub[t][k], Head(pub[s][k])) \in Seq(Packets)
      BY <1>p, <2>2 DEF Queues
    <3>2. \A t \in Servers : [sub[t] EXCEPT ![k] = Append(@, Head(pub[s][k]))]
                                \in [Topics -> Seq(Packets)]
      BY <1>p, <3>1 DEF Queues
    <3> QED  BY <1>9, <1>p, <3>2 DEF Publish, Queues
  <2> QED  BY <1>9, <2>3, <2>4 DEF Publish, TypeOK, Queues
<1>10. ASSUME NEW s \in Servers, NEW k \in Topics, Take(s, k)
       PROVE  sub' \in Queues /\ Head(sub[s][k]) \in Packets
  <2>1. sub[s][k] \in Seq(Packets) /\ sub[s][k] # <<>>
    BY <1>10, <1>p DEF Take, Queues
  <2>2. Tail(sub[s][k]) \in Seq(Packets) /\ Head(sub[s][k]) \in Packets
    BY <2>1
  <2> QED  BY <1>10, <1>p, <2>2 DEF Take, Queues
<1>11. ASSUME NEW s \in Servers, OnMessageOut(s) PROVE TypeOK'
  <2>1. Take(s, "out") /\ sub' \in Queues /\ Head(sub[s]["out"]).m \in Items
    BY <1>10, <1>11 DEF OnMessageOut, Topics, Packets, Items
  <2>2. got' \in [Clients -> Seq(Items)]
    BY <1>11, <2>1, Handing DEF OnMessageOut
  <2> QED  BY <2>1, <2>2 DEF Take, TypeOK, Queues, Items
<1>12. ASSUME NEW s \in Servers, OnMessageGlobal(s) PROVE TypeOK'
  <2>1. Take(s, "global") /\ sub' \in Queues /\ Head(sub[s]["global"]).m \in Items
    BY <1>10, <1>12 DEF OnMessageGlobal, Topics, Packets, Items
  <2>2. got' \in [Clients -> Seq(Items)]
    BY <1>12, <2>1, Handing DEF OnMessageGlobal
  <2> QED  BY <2>1, <2>2 DEF Take, TypeOK, Queues, Items
<1>13. ASSUME NEW s \in Servers, OnMessageGlobalThrows(s) PROVE TypeOK'
  <2>1. CASE Take(s, "global") /\ Hand({}, Garbled)
    <3>1. sub' \in Queues
      BY <1>10, <2>1 DEF Topics
    <3>2. got' \in [Clients -> Seq(Items)]
      BY <2>1, Handing DEF Items
    <3> QED  BY <2>1, <3>1, <3>2 DEF Take, TypeOK, Queues, Items
  <2> QED  BY <1>4, <1>13, <2>1 DEF OnMessageGlobalThrows
<1>14. ASSUME NEW s \in Servers, Forward(s) PROVE TypeOK'
  <2>1. late[s] \in Seq(Packets) /\ late[s] # <<>>
    BY <1>14, <1>p DEF Forward
  <2>2. Tail(late[s]) \in Seq(Packets) /\ <<Head(late[s])>> \in Seq(Packets)
    BY <2>1
  <2>3. pub' \in Queues
    BY <1>14, <2>2, Issuing DEF Forward, Topics
  <2>4. late' \in [Servers -> Seq(Packets)]
    BY <1>14, <1>p, <2>2 DEF Forward
  <2> QED  BY <1>14, <2>3, <2>4 DEF Forward, TypeOK, Queues
<1>15. CASE UNCHANGED vars
  BY <1>15 DEF vars, TypeOK
<1> QED
  BY <1>1, <1>2, <1>3, <1>4, <1>5, <1>6, <1>7, <1>8, <1>9, <1>11, <1>12, <1>13, <1>14, <1>15
  DEF Next, Lifecycle, Application, Transport, Known

(* Every variable keeps to its range; what is queued are packets of servers *)
(* with numbers of messages, what sockets are handed such numbers.          *)
THEOREM TypeCorrect == Spec => []TypeOK
BY TypeInit, TypeNext, PTL DEF Spec

-------------------------------------------------------------------------------
(* Who gets what.  A packet that names a client names one its message was   *)
(* sent to, the topic "global" carries the global broadcasts and they alone, *)
(* and so whatever a socket has been handed was for it.                     *)

For(log, m, c) == m \in DOMAIN log /\ (log[m].kind = "global" \/ c \in log[m].to)

Routed(log, k, p) ==
    /\ p.m \in DOMAIN log
    /\ k = "global" <=> log[p.m].kind = "global"
    /\ k = "out" => (p.to \in Clients => p.to \in log[p.m].to)

AllRouted ==
    /\ \A s \in Servers, k \in Topics :
          /\ \A i \in DOMAIN pub[s][k] : Routed(sent, k, pub[s][k][i])
          /\ \A i \in DOMAIN sub[s][k] : Routed(sent, k, sub[s][k][i])
    /\ \A s \in Servers : \A i \in DOMAIN late[s] : Routed(sent, "out", late[s][i])

AllFor ==
    \A c \in Clients : \A i \in DOMAIN got[c] :
        got[c][i] \in {Ident, Garbled} \/ For(sent, got[c][i], c)

LEMMA RoutedInit == Init => AllRouted /\ AllFor
BY DEF Init, NoPackets, AllRouted, AllFor

(* What has been sent stays as it was.                                      *)
LEMMA Lasting ==
    ASSUME \A m \in DOMAIN sent : m \in DOMAIN sent' /\ sent'[m] = sent[m]
    PROVE  /\ \A m, c : For(sent, m, c) => For(sent', m, c)
           /\ \A k, p : Routed(sent, k, p) => Routed(sent', k, p)
BY DEF For, Routed

LEMMA HandedOut ==
    ASSUME TypeOK, AllFor, NEW cs, NEW m \in Items, Hand(cs, m),
           \A n \in DOMAIN sent : n \in DOMAIN sent' /\ sent'[n] = sent[n],
           m \in {Ident, Garbled} \/ \A c \in cs \cap Clients : For(sent', m, c)
    PROVE  AllFor'
<1>1. got \in [Clients -> Seq(Items)]
  BY DEF TypeOK, Items
<1>2. \A n, c : For(sent, n, c) => For(sent', n, c)
  BY Lasting
<1>3. ASSUME NEW c \in Clients, NEW i \in DOMAIN got'[c]
      PROVE  got'[c][i] \in {Ident, Garbled} \/ For(sent', got'[c][i], c)
  <2>1. CASE c \notin cs
    BY <1>1, <1>2, <1>3, <2>1 DEF Hand, AllFor
  <2>2. CASE c \in cs
    <3>1. got'[c] = Append(got[c], m)
      BY <1>1, <2>2 DEF Hand
    <3>2. (i \in DOMAIN got[c] /\ got'[c][i] = got[c][i]) \/ got'[c][i] = m
      BY <1>1, <1>3, <3>1
    <3> QED  BY <1>2, <2>2, <3>2 DEF AllFor
  <2> QED  BY <2>1, <2>2
<1> QED  BY <1>3 DEF AllFor

LEMMA IssuedPackets ==
    ASSUME TypeOK, AllRouted, NEW s \in Servers, NEW k \in Topics, NEW q \in Seq(Packets),
           Issue(s, k, q), sub' = sub,
           \A n \in DOMAIN sent : n \in DOMAIN sent' /\ sent'[n] = sent[n],
           \A i \in DOMAIN q : Routed(sent', k, q[i]),
           \A t \in Servers : \A i \in DOMAIN late'[t] :
               \E j \in DOMAIN late[t] : late'[t][i] = late[t][j]
    PROVE  AllRouted'
<1>1. pub \in Queues
  BY DEF TypeOK, Queues
<1>2. \A l, p : Routed(sent, l, p) => Routed(sent', l, p)
  BY Lasting
<1>3. ASSUME NEW t \in Servers, NEW l \in Topics
      PROVE  /\ \A i \in DOMAIN pub'[t][l] : Routed(sent', l, pub'[t][l][i])
             /\ \A i \in DOMAIN sub'[t][l] : Routed(sent', l, sub'[t][l][i])
  <2>1. CASE t = s /\ l = k
    <3>1. pub[s][k] \in Seq(Packets) /\ pub'[s][k] = pub[s][k] \o q
      BY <1>1 DEF Issue, Queues
    <3>2. ASSUME NEW i \in DOMAIN pub'[s][k] PROVE Routed(sent', k, pub'[s][k][i])
      <4>1. \/ i \in DOMAIN pub[s][k] /\ pub'[s][k][i] = pub[s][k][i]
            \/ \E j \in DOMAIN q : pub'[s][k][i] = q[j]
        BY <3>1, <3>2
      <4> QED  BY <1>2, <4>1 DEF AllRouted
    <3> QED  BY <1>2, <2>1, <3>2 DEF AllRouted
  <2>2. CASE ~(t = s /\ l = k)
    <3>1. pub'[t][l] = pub[t][l]
      BY <1>1, <2>2 DEF Issue, Queues
    <3> QED  BY <1>2, <3>1 DEF AllRouted
  <2> QED  BY <2>1, <2>2
<1>4. \A t \in Servers : \A i \in DOMAIN late'[t] : Routed(sent', "out", late'[t][i])
  BY <1>2 DEF AllRouted
<1> QED  BY <1>3, <1>4 DEF AllRouted

LEMMA RoutedNext == TypeOK /\ AllRouted /\ AllFor /\ [Next]_vars => AllRouted' /\ AllFor'
<1> SUFFICES ASSUME TypeOK, AllRouted, AllFor, [Next]_vars PROVE AllRouted' /\ AllFor'
  OBVIOUS
<1> DEFINE Goal == AllRouted' /\ AllFor'
<1> HIDE DEF Goal
<1>p. /\ pub \in Queues /\ sub \in Queues /\ sent \in Seq(Sends)
      /\ late \in [Servers -> Seq(Packets)]
      /\ Ident \in Items /\ Garbled \in Items
  BY DEF TypeOK, Queues, Sends, Items
<1>0. ASSUME UNCHANGED <<late, pub, sub, sent, got>> PROVE Goal
  BY <1>0 DEF Goal, AllRouted, AllFor
<1>1. ASSUME NEW s \in Servers, SubscribeOut(s) \/ SubscribeGlobal(s) PROVE Goal
  BY <1>0, <1>1 DEF SubscribeOut, SubscribeGlobal
<1>2. ASSUME NEW s \in Servers, NEW c \in Clients, Connect(c, s) PROVE Goal
  <2>1. AllFor'
    BY <1>2, <1>p, HandedOut DEF Connect
  <2> QED  BY <1>2, <2>1 DEF Connect, AllRouted, Goal
<1>3. ASSUME NEW c \in Clients, Disconnect(c) PROVE Goal
  BY <1>0, <1>3 DEF Disconnect
<1>4. ASSUME NEW s \in Servers, Stop(s) \/ Crash(s) PROVE Goal
  <2>1. /\ sent' = sent /\ got' = got
        /\ \A t \in Servers : late'[t] = late[t] \/ late'[t] = <<>>
        /\ \A t \in Servers : \A k \in Topics : /\ pub'[t][k] = pub[t][k] \/ pub'[t][k] = <<>>
                                                /\ sub'[t][k] = sub[t][k] \/ sub'[t][k] = <<>>
    <3> DEFINE none == [k \in Topics |-> <<>>]
    <3>1. /\ sent' = sent /\ got' = got
          /\ pub' = pub \/ pub' = [pub EXCEPT ![s] = none]
          /\ sub' = [sub EXCEPT ![s] = none]
          /\ late' = [late EXCEPT ![s] = <<>>]
      BY <1>4 DEF Stop, Crash
    <3>2. \A k \in Topics : none[k] = <<>>
      OBVIOUS
    <3> HIDE DEF none
    <3> QED  BY <1>p, <3>1, <3>2 DEF Queues
  <2> QED  BY <2>1 DEF AllRouted, AllFor, Goal
<1>5. ASSUME NEW s \in Servers, NEW c \in Clients, Send(s, c) PROVE Goal
  <2> DEFINE p == Packet(NextId, c, s)
  <2>1. /\ NextId \in Ids /\ NextId \in Items /\ For(sent', NextId, c)
        /\ NextId \in DOMAIN sent' /\ sent'[NextId].to = {c} /\ sent'[NextId].kind = "one"
        /\ \A m \in DOMAIN sent : m \in DOMAIN sent' /\ sent'[m] = sent[m]
    <3>1. /\ sent' \in Seq(Sends) /\ NextId \in Ids /\ NextId \in Items /\ Len(sent') = NextId
          /\ sent'[NextId] = [kind |-> "one", from |-> s, to |-> {c}]
          /\ \A m \in DOMAIN sent : m \in DOMAIN sent' /\ sent'[m] = sent[m]
      BY <1>5, Logging DEF Send, Kinds
    <3>2. NextId \in DOMAIN sent'
      BY <3>1 DEF Ids
    <3> QED  BY <3>1, <3>2 DEF For
  <2>2. p \in Packets /\ Routed(sent', "out", p)
    BY <2>1 DEF Packet, Packets, Routed
  <2> HIDE DEF p
  <2>3. /\ pub' = pub /\ sub' = sub /\ Hand({c} \cap On(s), NextId)
        /\ \A t \in Servers : late'[t] = late[t] \/ late'[t] = Append(late[t], p)
    BY <1>5, <1>p DEF Send, p
  <2>4. ASSUME NEW t \in Servers, NEW i \in DOMAIN late'[t]
        PROVE  (\E j \in DOMAIN late[t] : late'[t][i] = late[t][j]) \/ late'[t][i] = p
    <3>1. late[t] \in Seq(Packets)
      BY <1>p
    <3>2. CASE late'[t] = late[t]
      BY <2>4, <3>2
    <3>3. CASE late'[t] = Append(late[t], p)
      BY <2>2, <2>4, <3>1, <3>3
    <3> QED  BY <2>3, <3>2, <3>3
  <2>5. \A l, r : Routed(sent, l, r) => Routed(sent', l, r)
    BY <2>1, Lasting
  <2>6. \A t \in Servers : \A i \in DOMAIN late'[t] : Routed(sent', "out", late'[t][i])
    BY <2>2, <2>4, <2>5 DEF AllRouted
  <2>7. AllRouted'
    BY <2>3, <2>5, <2>6 DEF AllRouted
  <2>8. AllFor'
    BY <2>1, <2>3, HandedOut
  <2> QED  BY <2>7, <2>8 DEF Goal
<1>6. ASSUME NEW s \in Servers, NEW cs \in SUBSET Clients, SendList(s, cs) PROVE Goal
  <2> DEFINE q == [i \in 1..Cardinality(cs \ On(s)) |-> Packet(NextId, NoClient, s)]
  <2>1. /\ NextId \in Ids /\ NextId \in Items /\ NextId \in DOMAIN sent'
        /\ sent'[NextId].kind = "list"
        /\ \A c \in cs : For(sent', NextId, c)
        /\ \A m \in DOMAIN sent : m \in DOMAIN sent' /\ sent'[m] = sent[m]
    <3>1. /\ sent' \in Seq(Sends) /\ NextId \in Ids /\ NextId \in Items /\ Len(sent') = NextId
          /\ sent'[NextId] = [kind |-> "list", from |-> s, to |-> cs]
          /\ \A m \in DOMAIN sent : m \in DOMAIN sent' /\ sent'[m] = sent[m]
      BY <1>6, Logging DEF SendList, Kinds
    <3>2. NextId \in DOMAIN sent'
      BY <3>1 DEF Ids
    <3> QED  BY <3>1, <3>2 DEF For
  <2>2. q \in Seq(Packets)
    BY <2>1, ListPackets
  <2>3. \A i \in DOMAIN q : Routed(sent', "out", q[i])
    <3>1. Routed(sent', "out", Packet(NextId, NoClient, s))
      BY <2>1, MessagingAssumption DEF Packet, Routed, NoClient
    <3> QED  BY <3>1
  <2>4. Issue(s, "out", q) /\ sub' = sub /\ late' = late /\ Hand(cs \cap On(s), NextId)
    BY <1>6 DEF SendList
  <2> HIDE DEF q
  <2>5. AllRouted'
    BY <2>1, <2>2, <2>3, <2>4, IssuedPackets DEF Topics
  <2>6. AllFor'
    BY <2>1, <2>4, HandedOut
  <2> QED  BY <2>5, <2>6 DEF Goal
<1>7. ASSUME NEW s \in Servers, Broadcast(s) PROVE Goal
  <2>1. /\ NextId \in Items
        /\ \A c \in On(s) : For(sent', NextId, c)
        /\ \A m \in DOMAIN sent : m \in DOMAIN sent' /\ sent'[m] = sent[m]
    <3>1. /\ sent' \in Seq(Sends) /\ NextId \in Ids /\ NextId \in Items /\ Len(sent') = NextId
          /\ sent'[NextId] = [kind |-> "local", from |-> s, to |-> On(s)]
          /\ \A m \in DOMAIN sent : m \in DOMAIN sent' /\ sent'[m] = sent[m]
      BY <1>7, Logging DEF Broadcast, Kinds, On
    <3>2. NextId \in DOMAIN sent'
      BY <3>1 DEF Ids
    <3> QED  BY <3>1, <3>2 DEF For
  <2>2. Hand(On(s), IF layer = "json" THEN Garbled ELSE NextId)
    BY <1>7 DEF Broadcast
  <2>3. AllFor'
    <3>1. CASE layer = "json"
      BY <1>p, <2>1, <2>2, <3>1, HandedOut
    <3>2. CASE layer # "json"
      BY <2>1, <2>2, <3>2, HandedOut
    <3> QED  BY <3>1, <3>2
  <2>4. AllRouted'
    BY <1>7, <2>1, Lasting DEF Broadcast, AllRouted
  <2> QED  BY <2>3, <2>4 DEF Goal
<1>8. ASSUME NEW s \in Servers, BroadcastGlobal(s) PROVE Goal
  <2>1. /\ NextId \in Ids /\ NextId \in DOMAIN sent' /\ sent'[NextId].kind = "global"
        /\ \A m \in DOMAIN sent : m \in DOMAIN sent' /\ sent'[m] = sent[m]
    <3>1. /\ sent' \in Seq(Sends) /\ NextId \in Ids /\ Len(sent') = NextId
          /\ sent'[NextId] = [kind |-> "global", from |-> s, to |-> Connected]
          /\ \A m \in DOMAIN sent : m \in DOMAIN sent' /\ sent'[m] = sent[m]
      BY <1>8, Logging DEF BroadcastGlobal, Kinds, Connected
    <3>2. NextId \in DOMAIN sent'
      BY <3>1 DEF Ids
    <3> QED  BY <3>1, <3>2
  <2> DEFINE q == <<Packet(NextId, NoClient, s)>>
  <2>2. q \in Seq(Packets) /\ \A i \in DOMAIN q : Routed(sent', "global", q[i])
    <3>1. /\ Packet(NextId, NoClient, s) \in Packets
          /\ Routed(sent', "global", Packet(NextId, NoClient, s))
      BY <2>1 DEF Packet, Packets, Routed
    <3> QED  BY <3>1
  <2>3. Issue(s, "global", q) /\ sub' = sub /\ late' = late /\ got' = got
    BY <1>8 DEF BroadcastGlobal
  <2> HIDE DEF q
  <2>4. AllRouted'
    BY <2>1, <2>2, <2>3, IssuedPackets DEF Topics
  <2>5. AllFor'
    BY <2>1, <2>3, Lasting DEF AllFor
  <2> QED  BY <2>4, <2>5 DEF Goal
<1>9. ASSUME NEW s \in Servers, NEW k \in Topics, Publish(s, k) PROVE Goal
  <2> DEFINE p == Head(pub[s][k])
  <2>1. /\ pub[s][k] \in Seq(Packets) /\ pub[s][k] # <<>>
        /\ sent' = sent /\ got' = got /\ late' = late
    BY <1>9, <1>p DEF Publish, Queues
  <2>2. Routed(sent, k, p)
    <3>1. p = pub[s][k][1] /\ 1 \in DOMAIN pub[s][k]
      BY <2>1
    <3> QED  BY <3>1 DEF AllRouted
  <2> HIDE DEF p
  <2>3. ASSUME NEW t \in Servers, NEW l \in Topics
        PROVE  /\ \A i \in DOMAIN pub'[t][l] : Routed(sent, l, pub'[t][l][i])
               /\ \A i \in DOMAIN sub'[t][l] : Routed(sent, l, sub'[t][l][i])
    <3>1. pub'[t][l] = pub[t][l] \/ (t = s /\ l = k /\ pub'[t][l] = Tail(pub[s][k]))
      BY <1>9, <1>p DEF Publish, Queues
    <3>2. sub'[t][l] = sub[t][l] \/ (l = k /\ sub'[t][l] = Append(sub[t][k], p))
      <4>1. \/ sub'[t] = sub[t]
            \/ sub'[t] = [sub[t] EXCEPT ![k] = Append(@, p)]
        BY <1>9 DEF Publish, p
      <4>2. sub[t] \in [Topics -> Seq(Packets)]
        BY <1>p DEF Queues
      <4> QED  BY <4>1, <4>2
    <3>3. \A i \in DOMAIN pub'[t][l] : Routed(sent, l, pub'[t][l][i])
      <4>1. \A i \in DOMAIN Tail(pub[s][k]) :
               i + 1 \in DOMAIN pub[s][k] /\ Tail(pub[s][k])[i] = pub[s][k][i + 1]
        BY <2>1
      <4> QED  BY <3>1, <4>1 DEF AllRouted
    <3>4. \A i \in DOMAIN sub'[t][l] : Routed(sent, l, sub'[t][l][i])
      <4>1. sub[t][k] \in Seq(Packets)
        BY <1>p DEF Queues
      <4>2. \A i \in DOMAIN Append(sub[t][k], p) :
               \/ i \in DOMAIN sub[t][k] /\ Append(sub[t][k], p)[i] = sub[t][k][i]
               \/ Append(sub[t][k], p)[i] = p
        BY <4>1
      <4> QED  BY <2>2, <3>2, <4>2 DEF AllRouted
    <3> QED  BY <3>3, <3>4
  <2> QED  BY <2>1, <2>3 DEF Goal, AllRouted, AllFor
<1>10. ASSUME NEW s \in Servers, NEW k \in Topics, Take(s, k)
       PROVE  /\ AllRouted' /\ sent' = sent /\ Routed(sent, k, Head(sub[s][k]))
              /\ Head(sub[s][k]) \in Packets
  <2>1. /\ sub[s][k] \in Seq(Packets) /\ sub[s][k] # <<>>
        /\ sent' = sent /\ pub' = pub /\ late' = late
    BY <1>10, <1>p DEF Take, Queues
  <2>2. /\ Head(sub[s][k]) = sub[s][k][1] /\ 1 \in DOMAIN sub[s][k]
        /\ \A i \in DOMAIN Tail(sub[s][k]) :
              i + 1 \in DOMAIN sub[s][k] /\ Tail(sub[s][k])[i] = sub[s][k][i + 1]
    BY <2>1
  <2>3. ASSUME NEW t \in Servers, NEW l \in Topics
        PROVE  \A i \in DOMAIN sub'[t][l] : Routed(sent, l, sub'[t][l][i])
    <3>1. sub'[t][l] = sub[t][l] \/ (t = s /\ l = k /\ sub'[t][l] = Tail(sub[s][k]))
      BY <1>10, <1>p DEF Take, Queues
    <3> QED  BY <2>2, <3>1 DEF AllRouted
  <2>4. AllRouted'
    BY <2>1, <2>3 DEF AllRouted
  <2> QED  BY <2>1, <2>2, <2>4 DEF AllRouted
<1>11. ASSUME NEW s \in Servers, OnMessageOut(s) PROVE Goal
  <2> DEFINE p == Head(sub[s]["out"])
             cs == IF phase[s] = "open" /\ p.origin # s THEN On(s) \cap {p.to} ELSE {}
  <2>1. Take(s, "out") /\ Hand(cs, p.m)
    BY <1>11 DEF OnMessageOut
  <2>2. AllRouted' /\ sent' = sent /\ Routed(sent, "out", p) /\ p \in Packets
    BY <1>10, <2>1 DEF Topics
  <2>3. \A c \in cs \cap Clients : c = p.to
    OBVIOUS
  <2> HIDE DEF p, cs
  <2>4. p.m \in Items /\ \A c \in cs \cap Clients : For(sent', p.m, c)
    BY <2>2, <2>3 DEF Packets, Items, Routed, For
  <2>5. AllFor'
    BY <2>1, <2>2, <2>4, HandedOut
  <2> QED  BY <2>2, <2>5 DEF Goal
<1>12. ASSUME NEW s \in Servers, OnMessageGlobal(s) PROVE Goal
  <2> DEFINE p == Head(sub[s]["global"])
  <2>1. Take(s, "global") /\ Hand(On(s), p.m)
    BY <1>12 DEF OnMessageGlobal
  <2>2. AllRouted' /\ sent' = sent /\ Routed(sent, "global", p) /\ p \in Packets
    BY <1>10, <2>1 DEF Topics
  <2> HIDE DEF p
  <2>3. p.m \in Items /\ \A c \in On(s) \cap Clients : For(sent', p.m, c)
    BY <2>2 DEF Packets, Items, Routed, For
  <2>4. AllFor'
    BY <2>1, <2>2, <2>3, HandedOut
  <2> QED  BY <2>2, <2>4 DEF Goal
<1>13. ASSUME NEW s \in Servers, OnMessageGlobalThrows(s) PROVE Goal
  <2>1. CASE Take(s, "global") /\ Hand({}, Garbled)
    <3>1. AllRouted' /\ sent' = sent
      BY <1>10, <2>1 DEF Topics
    <3>2. AllFor'
      BY <1>p, <2>1, <3>1, HandedOut
    <3> QED  BY <3>1, <3>2 DEF Goal
  <2> QED  BY <1>4, <1>13, <2>1 DEF OnMessageGlobalThrows
<1>f. ASSUME NEW s \in Servers, Forward(s) PROVE Goal
  <2> DEFINE q == <<Head(late[s])>>
  <2>1. late[s] \in Seq(Packets) /\ late[s] # <<>> /\ sub' = sub /\ got' = got /\ sent' = sent
    BY <1>f, <1>p DEF Forward
  <2>2. /\ 1 \in DOMAIN late[s] /\ Head(late[s]) = late[s][1] /\ q \in Seq(Packets)
        /\ \A i \in DOMAIN q : q[i] = late[s][1]
        /\ \A i \in DOMAIN Tail(late[s]) :
              i + 1 \in DOMAIN late[s] /\ Tail(late[s])[i] = late[s][i + 1]
    BY <2>1
  <2>3. \A i \in DOMAIN q : Routed(sent', "out", q[i])
    BY <2>1, <2>2 DEF AllRouted
  <2>4. ASSUME NEW t \in Servers, NEW i \in DOMAIN late'[t]
        PROVE  \E j \in DOMAIN late[t] : late'[t][i] = late[t][j]
    <3>1. late'[t] = late[t] \/ (t = s /\ late'[t] = Tail(late[s]))
      BY <1>f, <1>p DEF Forward
    <3> QED  BY <2>2, <2>4, <3>1
  <2>5. Issue(s, "out", q)
    BY <1>f DEF Forward
  <2> HIDE DEF q
  <2>6. AllRouted'
    BY <2>1, <2>2, <2>3, <2>4, <2>5, IssuedPackets DEF Topics
  <2> QED  BY <2>1, <2>6 DEF AllFor, Goal
<1>u. ASSUME UNCHANGED vars PROVE Goal
  BY <1>0, <1>u DEF vars
<1>14. Goal
  BY <1>1, <1>2, <1>3, <1>4, <1>5, <1>6, <1>7, <1>8, <1>9, <1>11, <1>12, <1>13, <1>f, <1>u
  DEF Next, Lifecycle, Application, Transport, Known
<1> QED  BY <1>14 DEF Goal

(* Only the addressee of a message gets it, on whichever servers it is      *)
(* looked for; a global broadcast may go to anybody.                        *)
THEOREM AddresseesOnly == Spec => []RightAddressee
<1>1. TypeOK /\ AllFor => RightAddressee
  <2> SUFFICES ASSUME TypeOK, AllFor, NEW c \in Clients, NEW m \in Ids, Has(c, m)
               PROVE  sent[m].kind = "global" \/ c \in sent[m].to
    BY DEF RightAddressee
  <2>1. PICK i \in DOMAIN got[c] : got[c][i] = m
    BY DEF Has
  <2>2. m \notin {Ident, Garbled}
    BY DEF Ids, Ident, Garbled
  <2> QED  BY <2>1, <2>2 DEF AllFor, For
<1> QED  BY <1>1, RoutedInit, RoutedNext, TypeCorrect, PTL DEF Spec

-------------------------------------------------------------------------------
(* One order of the global broadcasts.  Redis settles it when it publishes: *)
(* m is Earlier than n when a socket was handed m before n, when m is       *)
(* before n on its way to a server, when m has arrived where n still has    *)
(* to, and when m is published and n is not.  No broadcast is earlier than  *)
(* itself, and no two are earlier than each other.                          *)

Casts == {m \in DOMAIN sent : sent[m].kind = "global"}

InQueue(q, m) == \E i \in DOMAIN q : q[i].m = m

Precedes(q, m, n) == \E i, j \in DOMAIN q : i < j /\ q[i].m = m /\ q[j].m = n

Waiting(m) == \E s \in Servers : InQueue(pub[s]["global"], m)

Out(m) == \/ \E c \in Clients : Has(c, m)
          \/ \E t \in Servers : InQueue(sub[t]["global"], m)

Earlier(m, n) ==
    \/ \E c \in Clients : Before(c, m, n)
    \/ \E t \in Servers : Precedes(sub[t]["global"], m, n)
    \/ \E c \in Clients : at[c] \in Servers /\ Has(c, m) /\ InQueue(sub[at[c]]["global"], n)
    \/ Out(m) /\ Waiting(n)

OneSequence == \A m, n \in Casts : ~(Earlier(m, n) /\ Earlier(n, m))

WaitsOnce ==
    \A s, t \in Servers :
        \A i \in DOMAIN pub[s]["global"], j \in DOMAIN pub[t]["global"] :
            pub[s]["global"][i].m = pub[t]["global"][j].m => s = t /\ i = j

WaitsUnpublished == \A m \in Casts : ~(Waiting(m) /\ Out(m))

(* Who has not connected has been handed nothing.                           *)
Untouched == \A c \in Clients : at[c] = None => got[c] = <<>>

Ordered == OneSequence /\ WaitsOnce /\ WaitsUnpublished

LEMMA OrderedInit == Init => Ordered /\ Untouched
<1> SUFFICES ASSUME Init PROVE Ordered /\ Untouched
  OBVIOUS
<1>1. Casts = {}
  BY DEF Init, Casts
<1>2. \A s \in Servers : pub[s]["global"] = <<>>
  BY DEF Init, NoPackets, Topics
<1>3. WaitsOnce
  BY <1>2 DEF WaitsOnce
<1>4. Untouched
  BY DEF Init, Untouched
<1> QED  BY <1>1, <1>3, <1>4 DEF Ordered, OneSequence, WaitsUnpublished

LEMMA EarlierIsOut == \A m, n : Earlier(m, n) => Out(m)
BY DEF Earlier, Out, Before, Has, Precedes, InQueue

LEMMA HandedTo ==
    ASSUME TypeOK, NEW cs, NEW m, Hand(cs, m), NEW c \in Clients
    PROVE  /\ \A n : Has(c, n)' => Has(c, n) \/ (n = m /\ c \in cs)
           /\ \A k, n : Before(c, k, n)' => Before(c, k, n) \/ (n = m /\ c \in cs /\ Has(c, k))
           /\ c \notin cs => got'[c] = got[c]
<1>1. got \in [Clients -> Seq(Items)]
  BY DEF TypeOK, Items
<1>2. got[c] \in Seq(Items) /\ got'[c] = IF c \in cs THEN Append(got[c], m) ELSE got[c]
  BY <1>1 DEF Hand
<1>3. CASE c \notin cs
  BY <1>2, <1>3 DEF Has, Before
<1>4. CASE c \in cs
  <2>1. got'[c] = Append(got[c], m) /\ Len(got[c]) \in Nat /\ DOMAIN got[c] = 1..Len(got[c])
    BY <1>2, <1>4
  <2>2. /\ DOMAIN got'[c] = 1..(Len(got[c]) + 1)
        /\ \A i \in DOMAIN got[c] : got'[c][i] = got[c][i]
        /\ got'[c][Len(got[c]) + 1] = m
    BY <1>2, <2>1
  <2>3. \A i \in DOMAIN got'[c] : i \in DOMAIN got[c] \/ i = Len(got[c]) + 1
    BY <2>1, <2>2
  <2>4. \A n : Has(c, n)' => Has(c, n) \/ n = m
    BY <2>2, <2>3 DEF Has
  <2>5. ASSUME NEW k, NEW n, Before(c, k, n)'
        PROVE  Before(c, k, n) \/ (n = m /\ Has(c, k))
    <3>1. PICK i, j \in DOMAIN got'[c] : i < j /\ got'[c][i] = k /\ got'[c][j] = n
      BY <2>5 DEF Before
    <3>2. i \in DOMAIN got[c]
      BY <2>1, <2>2, <3>1
    <3> QED  BY <2>2, <2>3, <3>1, <3>2 DEF Before, Has
  <2> QED  BY <1>4, <2>4, <2>5
<1> QED  BY <1>3, <1>4

(* Queues that become shorter. *)
LEMMA QueueTail ==
    ASSUME NEW q \in Seq(Packets), q # <<>>
    PROVE  /\ InQueue(q, Head(q).m)
           /\ \A n : InQueue(Tail(q), n) => InQueue(q, n) /\ Precedes(q, Head(q).m, n)
           /\ \A k, n : Precedes(Tail(q), k, n) => Precedes(q, k, n)
<1>1. /\ Head(q) = q[1] /\ 1 \in DOMAIN q
      /\ \A i \in DOMAIN Tail(q) : /\ i + 1 \in DOMAIN q /\ Tail(q)[i] = q[i + 1]
                                   /\ i \in Nat /\ 1 < i + 1
  OBVIOUS
<1>2. ASSUME NEW k, NEW n, Precedes(Tail(q), k, n) PROVE Precedes(q, k, n)
  <2>1. PICK i, j \in DOMAIN Tail(q) : i < j /\ Tail(q)[i].m = k /\ Tail(q)[j].m = n
    BY <1>2 DEF Precedes
  <2>2. i + 1 < j + 1
    BY <1>1, <2>1
  <2> QED  BY <1>1, <2>1, <2>2 DEF Precedes
<1> QED  BY <1>1, <1>2 DEF InQueue, Precedes

(* Queues that become longer. *)
LEMMA QueueAppend ==
    ASSUME NEW q \in Seq(Packets), NEW p \in Packets
    PROVE  /\ \A n : InQueue(Append(q, p), n) => InQueue(q, n) \/ n = p.m
           /\ \A k, n : Precedes(Append(q, p), k, n) =>
                            Precedes(q, k, n) \/ (n = p.m /\ InQueue(q, k))
<1>1. Len(q) \in Nat /\ DOMAIN q = 1..Len(q)
  OBVIOUS
<1>2. /\ DOMAIN Append(q, p) = 1..(Len(q) + 1)
      /\ \A i \in DOMAIN q : Append(q, p)[i] = q[i]
      /\ Append(q, p)[Len(q) + 1] = p
  OBVIOUS
<1>3. \A i \in DOMAIN Append(q, p) : i \in DOMAIN q \/ i = Len(q) + 1
  BY <1>1, <1>2
<1>4. ASSUME NEW k, NEW n, Precedes(Append(q, p), k, n)
      PROVE  Precedes(q, k, n) \/ (n = p.m /\ InQueue(q, k))
  <2>1. PICK i, j \in DOMAIN Append(q, p) :
             i < j /\ Append(q, p)[i].m = k /\ Append(q, p)[j].m = n
    BY <1>4 DEF Precedes
  <2>2. i \in DOMAIN q
    BY <1>1, <1>2, <2>1
  <2> QED  BY <1>2, <1>3, <2>1, <2>2 DEF Precedes, InQueue
<1> QED  BY <1>2, <1>3, <1>4 DEF InQueue

(* A step that hands out, moves and sends no global broadcast.              *)
LEMMA NoCastMoves ==
    ASSUME Ordered,
           Casts' \subseteq Casts,
           \A c \in Clients : \A n \in Casts : Has(c, n)' => Has(c, n),
           \A c \in Clients : \A k, n \in Casts : Before(c, k, n)' => Before(c, k, n),
           \A t \in Servers : sub'[t]["global"] \in {sub[t]["global"], <<>>},
           \A t \in Servers : pub'[t]["global"] \in {pub[t]["global"], <<>>},
           \A c \in Clients : at'[c] \in Servers =>
               at'[c] = at[c] \/ \A n \in Casts : ~Has(c, n)
    PROVE  Ordered'
<1>1. \A t \in Servers : \A k : /\ InQueue(sub'[t]["global"], k) => InQueue(sub[t]["global"], k)
                                /\ InQueue(pub'[t]["global"], k) => InQueue(pub[t]["global"], k)
  BY DEF InQueue
<1>2. \A t \in Servers : \A k, n :
          Precedes(sub'[t]["global"], k, n) => Precedes(sub[t]["global"], k, n)
  BY DEF Precedes
<1>3. ASSUME NEW n \in Casts PROVE (Waiting(n)' => Waiting(n)) /\ (Out(n)' => Out(n))
  <2>1. Waiting(n)' => Waiting(n)
    BY <1>1 DEF Waiting
  <2>2. (\E c \in Clients : Has(c, n)') => \E c \in Clients : Has(c, n)
    BY <1>3
  <2>3. (\E t \in Servers : InQueue(sub'[t]["global"], n)) =>
            \E t \in Servers : InQueue(sub[t]["global"], n)
    BY <1>1
  <2> QED  BY <2>1, <2>2, <2>3 DEF Out
<1>4. ASSUME NEW k \in Casts, NEW n \in Casts, Earlier(k, n)' PROVE Earlier(k, n)
  <2>1. CASE \E c \in Clients : Before(c, k, n)'
    BY <1>4, <2>1 DEF Earlier
  <2>2. CASE \E t \in Servers : Precedes(sub'[t]["global"], k, n)
    BY <1>2, <2>2 DEF Earlier
  <2>3. ASSUME NEW c \in Clients, at'[c] \in Servers, Has(c, k)',
               InQueue(sub'[at'[c]]["global"], n)
        PROVE  Earlier(k, n)
    <3>1. Has(c, k)
      BY <1>4, <2>3
    <3>2. at'[c] = at[c]
      BY <1>4, <2>3, <3>1
    <3> QED  BY <1>1, <2>3, <3>1, <3>2 DEF Earlier
  <2>4. CASE Out(k)' /\ Waiting(n)'
    BY <1>3, <1>4, <2>4 DEF Earlier
  <2> QED  BY <1>4, <2>1, <2>2, <2>3, <2>4 DEF Earlier
<1>5. OneSequence'
  BY <1>4 DEF Ordered, OneSequence
<1>6. WaitsUnpublished'
  BY <1>3 DEF Ordered, WaitsUnpublished
<1>7. WaitsOnce'
  <2>1. \A t \in Servers : \A i \in DOMAIN pub'[t]["global"] :
           i \in DOMAIN pub[t]["global"] /\ pub'[t]["global"][i] = pub[t]["global"][i]
    OBVIOUS
  <2> QED  BY <2>1 DEF Ordered, WaitsOnce
<1> QED  BY <1>5, <1>6, <1>7 DEF Ordered

LEMMA UntouchedNext == TypeOK /\ Untouched /\ [Next]_vars => Untouched'
<1> SUFFICES ASSUME TypeOK, Untouched, [Next]_vars, NEW c \in Clients, at'[c] = None
             PROVE  got'[c] = <<>>
  BY DEF Untouched
<1>p. at \in [Clients -> Servers \cup {None, Gone}] /\ None # Gone /\ None \notin Servers
  BY MessagingAssumption DEF TypeOK
<1>1. ASSUME at[c] = None, got'[c] = got[c] PROVE got'[c] = <<>>
  BY <1>1 DEF Untouched
<1>2. ASSUME NEW s \in Servers, NEW cs, NEW m, cs \subseteq On(s), Hand(cs, m), at' = at
      PROVE  got'[c] = <<>>
  <2>1. at[c] = None /\ c \notin cs
    BY <1>p, <1>2 DEF On
  <2> QED  BY <1>1, <1>2, <2>1, HandedTo
<1>3. ASSUME NEW s \in Servers, Lifecycle(s) PROVE got'[c] = <<>>
  <2>1. CASE SubscribeOut(s) \/ SubscribeGlobal(s)
    BY <1>1, <2>1 DEF SubscribeOut, SubscribeGlobal
  <2>2. CASE Stop(s) \/ Crash(s)
    BY <1>1, <1>p, <2>2 DEF Stop, Crash, Drop
  <2>3. ASSUME NEW d \in Clients, Connect(d, s) PROVE got'[c] = <<>>
    <3>1. at[c] = None /\ c # d
      BY <1>p, <2>3 DEF Connect
    <3> QED  BY <1>1, <2>3, <3>1, HandedTo DEF Connect
  <2> QED  BY <1>3, <2>1, <2>2, <2>3 DEF Lifecycle
<1>4. ASSUME NEW s \in Servers, Application(s) PROVE got'[c] = <<>>
  <2>1. ASSUME NEW d, Send(s, d) PROVE got'[c] = <<>>
    BY <1>2, <2>1 DEF Send
  <2>2. ASSUME NEW cs, SendList(s, cs) PROVE got'[c] = <<>>
    BY <1>2, <2>2 DEF SendList
  <2>3. CASE Broadcast(s)
    BY <1>2, <2>3 DEF Broadcast
  <2>4. CASE BroadcastGlobal(s)
    BY <1>1, <2>4 DEF BroadcastGlobal
  <2> QED  BY <1>4, <2>1, <2>2, <2>3, <2>4 DEF Application
<1>5. ASSUME NEW s \in Servers, Transport(s) PROVE got'[c] = <<>>
  <2>1. ASSUME NEW k \in Topics, Publish(s, k) PROVE got'[c] = <<>>
    BY <1>1, <2>1 DEF Publish
  <2>2. CASE OnMessageOut(s)
    <3> DEFINE cs == IF phase[s] = "open" /\ Head(sub[s]["out"]).origin # s
                     THEN On(s) \cap {Head(sub[s]["out"]).to} ELSE {}
    <3>1. cs \subseteq On(s) /\ at' = at /\ Hand(cs, Head(sub[s]["out"]).m)
      BY <2>2 DEF OnMessageOut, Take
    <3> QED  BY <1>2, <3>1
  <2>3. CASE OnMessageGlobal(s)
    BY <1>2, <2>3 DEF OnMessageGlobal, Take
  <2>4. CASE OnMessageGlobalThrows(s)
    <3>1. CASE Crash(s)
      BY <1>3, <3>1 DEF Lifecycle
    <3>2. CASE Take(s, "global") /\ Hand({}, Garbled)
      BY <1>2, <3>2 DEF Take
    <3> QED  BY <2>4, <3>1, <3>2 DEF OnMessageGlobalThrows
  <2>5. CASE Forward(s)
    BY <1>1, <2>5 DEF Forward
  <2> QED  BY <1>5, <2>1, <2>2, <2>3, <2>4, <2>5 DEF Transport
<1>6. ASSUME NEW d \in Clients, Disconnect(d) PROVE got'[c] = <<>>
  BY <1>1, <1>p, <1>6 DEF Disconnect
<1>7. CASE UNCHANGED vars
  BY <1>1, <1>7 DEF vars
<1> QED  BY <1>3, <1>4, <1>5, <1>6, <1>7 DEF Next

(* What is handed out is not a global broadcast. *)
LEMMA OtherHanded ==
    ASSUME TypeOK, NEW cs, NEW m, Hand(cs, m), m \notin Casts
    PROVE  /\ \A c \in Clients : \A n \in Casts : Has(c, n)' => Has(c, n)
           /\ \A c \in Clients : \A k, n \in Casts : Before(c, k, n)' => Before(c, k, n)
BY HandedTo

(* A message that is not a global broadcast. *)
LEMMA OtherLogged ==
    ASSUME TypeOK, NEW kind \in Kinds \ {"global"}, NEW s \in Servers,
           NEW cs \in SUBSET Clients, Log(kind, s, cs)
    PROVE  Casts' \subseteq Casts /\ NextId \notin Casts /\ Garbled \notin Casts
<1>1. sent' = Append(sent, [kind |-> kind, from |-> s, to |-> cs]) /\ sent \in Seq(Sends)
  BY DEF Log, TypeOK, Sends
<1>2. /\ DOMAIN sent = 1..Len(sent) /\ Len(sent) \in Nat
      /\ DOMAIN sent' = 1..(Len(sent) + 1)
      /\ \A m \in DOMAIN sent : sent'[m] = sent[m]
      /\ sent'[Len(sent) + 1].kind = kind
  BY <1>1
<1> QED  BY <1>2 DEF Casts, NextId, Garbled

LEMMA OrderedPublish ==
    ASSUME TypeOK, AllRouted, Ordered, NEW s \in Servers, Publish(s, "global")
    PROVE  Ordered'
<1> DEFINE p == Head(pub[s]["global"])
<1>1. /\ pub[s]["global"] \in Seq(Packets) /\ pub[s]["global"] # <<>>
      /\ \A t \in Servers : sub[t]["global"] \in Seq(Packets)
      /\ pub \in Queues /\ sub \in Queues
  BY DEF Publish, TypeOK, Topics, Queues
<1>2. /\ 1 \in DOMAIN pub[s]["global"] /\ p = pub[s]["global"][1] /\ p \in Packets
      /\ \A i \in DOMAIN Tail(pub[s]["global"]) :
            /\ i + 1 \in DOMAIN pub[s]["global"] /\ i + 1 # 1 /\ i \in Nat
            /\ Tail(pub[s]["global"])[i] = pub[s]["global"][i + 1]
  BY <1>1
<1>3. /\ pub'[s]["global"] = Tail(pub[s]["global"])
      /\ \A t \in Servers : t # s => pub'[t]["global"] = pub[t]["global"]
  BY <1>1 DEF Publish, Queues, Topics
<1>4. \A t \in Servers : sub'[t]["global"] \in {sub[t]["global"], Append(sub[t]["global"], p)}
  BY <1>1 DEF Publish, Queues, Topics
<1>5. /\ got' = got /\ at' = at /\ sent' = sent /\ Casts' = Casts
      /\ \A c, n : Has(c, n)' = Has(c, n)
      /\ \A c, k, n : Before(c, k, n)' = Before(c, k, n)
  BY DEF Publish, Casts, Has, Before
<1>6. p.m \in Casts /\ Waiting(p.m)
  BY <1>2 DEF AllRouted, Routed, Casts, Topics, Waiting, InQueue
<1> HIDE DEF p
<1>7. ~Out(p.m)
  BY <1>6 DEF Ordered, WaitsUnpublished
<1>a. ASSUME NEW t \in Servers
      PROVE  /\ \A n : InQueue(sub'[t]["global"], n) => InQueue(sub[t]["global"], n) \/ n = p.m
             /\ \A k, n : Precedes(sub'[t]["global"], k, n) =>
                    Precedes(sub[t]["global"], k, n) \/ (n = p.m /\ InQueue(sub[t]["global"], k))
  <2> DEFINE q == sub[t]["global"]
  <2>1. q \in Seq(Packets) /\ p \in Packets
    BY <1>1, <1>2
  <2>2. CASE sub'[t]["global"] = q
    BY <2>2
  <2>3. CASE sub'[t]["global"] = Append(q, p)
    <3> HIDE DEF q
    <3>1. /\ \A n : InQueue(Append(q, p), n) => InQueue(q, n) \/ n = p.m
          /\ \A k, n : Precedes(Append(q, p), k, n) =>
                 Precedes(q, k, n) \/ (n = p.m /\ InQueue(q, k))
      BY <2>1, QueueAppend
    <3> QED  BY <2>3, <3>1 DEF q
  <2> QED  BY <1>4, <2>2, <2>3
<1>8. \A t \in Servers : \A n :
          InQueue(sub'[t]["global"], n) => InQueue(sub[t]["global"], n) \/ n = p.m
  BY <1>a
<1>9. \A t \in Servers : \A k, n : Precedes(sub'[t]["global"], k, n) =>
          Precedes(sub[t]["global"], k, n) \/ (n = p.m /\ InQueue(sub[t]["global"], k))
  BY <1>a
<1>10. ASSUME NEW n, Waiting(n)' PROVE Waiting(n) /\ n # p.m
  <2>1. PICK t \in Servers : \E i \in DOMAIN pub'[t]["global"] : pub'[t]["global"][i].m = n
    BY <1>10 DEF Waiting, InQueue
  <2>i. PICK i \in DOMAIN pub'[t]["global"] : pub'[t]["global"][i].m = n
    BY <2>1
  <2>2. CASE t # s
    BY <1>2, <1>3, <2>i, <2>2 DEF Waiting, InQueue, Ordered, WaitsOnce
  <2>3. CASE t = s
    <3>1. i + 1 \in DOMAIN pub[s]["global"] /\ i + 1 # 1 /\ pub[s]["global"][i + 1].m = n
      BY <1>2, <1>3, <2>i, <2>3
    <3> QED  BY <1>2, <3>1 DEF Waiting, InQueue, Ordered, WaitsOnce
  <2> QED  BY <2>2, <2>3
<1>11. \A n : Out(n)' => Out(n) \/ n = p.m
  BY <1>5, <1>8 DEF Out
<1>12. ASSUME NEW k, NEW n, Earlier(k, n)'
       PROVE  Earlier(k, n) \/ (k = p.m /\ Waiting(n)')
  <2>1. CASE \E c \in Clients : Before(c, k, n)'
    BY <1>5, <2>1 DEF Earlier
  <2>2. ASSUME NEW t \in Servers, Precedes(sub'[t]["global"], k, n) PROVE Earlier(k, n)
    BY <1>6, <1>9, <2>2 DEF Earlier, Out
  <2>3. ASSUME NEW c \in Clients, at'[c] \in Servers, Has(c, k)',
               InQueue(sub'[at'[c]]["global"], n)
        PROVE  Earlier(k, n)
    <3>1. at[c] \in Servers /\ Has(c, k)
      BY <1>5, <2>3
    <3>2. InQueue(sub[at[c]]["global"], n) \/ n = p.m
      BY <1>5, <1>8, <2>3, <3>1
    <3> QED  BY <1>6, <3>1, <3>2 DEF Earlier, Out
  <2>4. CASE Out(k)' /\ Waiting(n)'
    BY <1>10, <1>11, <2>4 DEF Earlier
  <2> QED  BY <1>12, <2>1, <2>2, <2>3, <2>4 DEF Earlier
<1>13. ASSUME NEW n \in Casts, Waiting(n)' PROVE ~Out(n)'
  BY <1>10, <1>11, <1>13 DEF Ordered, WaitsUnpublished
<1>14. \A k, n : Earlier(k, n)' => Out(k)'
  BY DEF Earlier, Out, Before, Has, Precedes, InQueue
<1>15. OneSequence'
  <2> SUFFICES ASSUME NEW k \in Casts, NEW n \in Casts, Earlier(k, n)', Earlier(n, k)'
               PROVE  FALSE
    BY <1>5 DEF OneSequence
  <2>1. ~Waiting(n)' /\ ~Waiting(k)'
    BY <1>13, <1>14
  <2> QED  BY <1>12, <2>1 DEF Ordered, OneSequence
<1>16. WaitsUnpublished'
  BY <1>5, <1>13 DEF WaitsUnpublished
<1>17. WaitsOnce'
  <2> DEFINE At(t, i) == IF t = s THEN i + 1 ELSE i
  <2>1. \A t \in Servers : \A i \in DOMAIN pub'[t]["global"] :
           /\ At(t, i) \in DOMAIN pub[t]["global"]
           /\ pub'[t]["global"][i] = pub[t]["global"][At(t, i)]
    BY <1>2, <1>3
  <2>2. \A i, j \in DOMAIN pub'[s]["global"] : At(s, i) = At(s, j) => i = j
    BY <1>2, <1>3
  <2>3. \A t \in Servers : \A i, j : t # s /\ At(t, i) = At(t, j) => i = j
    OBVIOUS
  <2> HIDE DEF At
  <2>4. ASSUME NEW t \in Servers, NEW u \in Servers,
               NEW i \in DOMAIN pub'[t]["global"], NEW j \in DOMAIN pub'[u]["global"],
               pub'[t]["global"][i].m = pub'[u]["global"][j].m
        PROVE  t = u /\ i = j
    <3>1. t = u /\ At(t, i) = At(u, j)
      BY <2>1, <2>4 DEF Ordered, WaitsOnce
    <3> QED  BY <2>2, <2>3, <3>1
  <2> QED  BY <2>4 DEF WaitsOnce
<1> QED  BY <1>15, <1>16, <1>17 DEF Ordered

(* A server takes a global broadcast and hands it to some of its clients.   *)
LEMMA OrderedHanding ==
    ASSUME TypeOK, Ordered, NEW s \in Servers, NEW cs \in SUBSET On(s),
           Take(s, "global"), Hand(cs, Head(sub[s]["global"]).m)
    PROVE  Ordered'
<1> DEFINE q == sub[s]["global"]
           m == Head(q).m
<1>1. q \in Seq(Packets) /\ q # <<>> /\ sub \in Queues
  BY DEF Take, TypeOK, Topics, Queues
<1>2. /\ sub'[s]["global"] = Tail(q)
      /\ \A t \in Servers : t # s => sub'[t]["global"] = sub[t]["global"]
  BY <1>1 DEF Take, Queues, Topics
<1>3. /\ at' = at /\ pub' = pub /\ sent' = sent /\ Casts' = Casts /\ Hand(cs, m)
      /\ \A c \in cs : at[c] = s
  BY DEF Take, Casts, On
<1>4. \A n : Waiting(n)' = Waiting(n)
  BY <1>3 DEF Waiting, InQueue
<1>5. /\ InQueue(q, m)
      /\ \A n : InQueue(Tail(q), n) => InQueue(q, n) /\ Precedes(q, m, n)
      /\ \A k, n : Precedes(Tail(q), k, n) => Precedes(q, k, n)
  BY <1>1, QueueTail
<1> HIDE DEF m
<1>6. \A t \in Servers : \A n : InQueue(sub'[t]["global"], n) => InQueue(sub[t]["global"], n)
  BY <1>2, <1>5
<1>7. \A c \in Clients : \A n : Has(c, n)' => Has(c, n) \/ (n = m /\ at[c] = s)
  BY <1>3, HandedTo
<1>8. \A c \in Clients : \A k, n :
          Before(c, k, n)' => Before(c, k, n) \/ (n = m /\ at[c] = s /\ Has(c, k))
  BY <1>3, HandedTo
<1>9. \A n : Out(n)' => Out(n)
  BY <1>5, <1>6, <1>7 DEF Out
<1>10. ASSUME NEW k, NEW n, Earlier(k, n)' PROVE Earlier(k, n)
  <2>1. ASSUME NEW c \in Clients, Before(c, k, n)' PROVE Earlier(k, n)
    <3>1. CASE Before(c, k, n)
      BY <3>1 DEF Earlier
    <3>2. CASE n = m /\ at[c] = s /\ Has(c, k)
      <4>1. InQueue(sub[at[c]]["global"], n) /\ at[c] \in Servers
        BY <1>5, <3>2
      <4> QED  BY <3>2, <4>1 DEF Earlier
    <3> QED  BY <1>8, <2>1, <3>1, <3>2
  <2>2. ASSUME NEW t \in Servers, Precedes(sub'[t]["global"], k, n) PROVE Earlier(k, n)
    <3>1. Precedes(sub[t]["global"], k, n)
      BY <1>2, <1>5, <2>2
    <3> QED  BY <3>1 DEF Earlier
  <2>3. ASSUME NEW c \in Clients, at'[c] \in Servers, Has(c, k)',
               InQueue(sub'[at'[c]]["global"], n)
        PROVE  Earlier(k, n)
    <3>1. at[c] \in Servers /\ InQueue(sub'[at[c]]["global"], n)
      BY <1>3, <2>3
    <3>2. CASE Has(c, k)
      BY <1>6, <3>1, <3>2 DEF Earlier
    <3>3. CASE k = m /\ at[c] = s
      <4>1. Precedes(sub[s]["global"], k, n)
        BY <1>2, <1>5, <3>1, <3>3
      <4> QED  BY <4>1 DEF Earlier
    <3> QED  BY <1>7, <2>3, <3>2, <3>3
  <2>4. CASE Out(k)' /\ Waiting(n)'
    BY <1>4, <1>9, <2>4 DEF Earlier
  <2> QED  BY <1>10, <2>1, <2>2, <2>3, <2>4 DEF Earlier
<1>11. OneSequence' /\ WaitsUnpublished'
  BY <1>3, <1>4, <1>9, <1>10 DEF Ordered, OneSequence, WaitsUnpublished
<1>12. WaitsOnce'
  BY <1>3 DEF Ordered, WaitsOnce
<1> QED  BY <1>11, <1>12 DEF Ordered

LEMMA OrderedBroadcast ==
    ASSUME TypeOK, AllRouted, AllFor, Ordered, NEW s \in Servers, BroadcastGlobal(s)
    PROVE  Ordered'
<1> DEFINE m == NextId
           q == pub[s]["global"]
<1>1. /\ q \in Seq(Packets) /\ pub \in Queues /\ sent \in Seq(Sends)
      /\ sent' = Append(sent, [kind |-> "global", from |-> s, to |-> Connected])
      /\ sub' = sub /\ got' = got /\ at' = at
  BY DEF BroadcastGlobal, Log, TypeOK, Topics, Queues, Sends
<1>2. /\ pub'[s]["global"] = Append(q, Packet(m, NoClient, s))
      /\ \A t \in Servers : t # s => pub'[t]["global"] = pub[t]["global"]
  BY <1>1 DEF BroadcastGlobal, Issue, Queues, Topics
<1>3. m \notin DOMAIN sent /\ m # Ident /\ m # Garbled /\ Casts' \subseteq Casts \cup {m}
  <2>1. /\ DOMAIN sent = 1..Len(sent) /\ Len(sent) \in Nat
        /\ DOMAIN sent' = 1..(Len(sent) + 1)
        /\ \A n \in DOMAIN sent : sent'[n] = sent[n]
    BY <1>1
  <2> QED  BY <2>1 DEF Casts, NextId, Ident, Garbled
<1>4. /\ \A c, n : Has(c, n)' = Has(c, n)
      /\ \A c, k, n : Before(c, k, n)' = Before(c, k, n)
      /\ \A n : Out(n)' = Out(n)
  BY <1>1 DEF Has, Before, Out
<1>5. ~Out(m)
  <2>1. \A c \in Clients : ~Has(c, m)
    BY <1>3 DEF AllFor, For, Has
  <2>2. \A t \in Servers : ~InQueue(sub[t]["global"], m)
    BY <1>3 DEF AllRouted, Routed, Topics, InQueue
  <2> QED  BY <2>1, <2>2 DEF Out
<1>6. \A t \in Servers : \A i \in DOMAIN pub[t]["global"] : pub[t]["global"][i].m # m
  BY <1>3 DEF AllRouted, Routed, Topics
<1>7. /\ Packet(m, NoClient, s).m = m
      /\ Len(q) \in Nat /\ DOMAIN q = 1..Len(q)
      /\ DOMAIN pub'[s]["global"] = 1..(Len(q) + 1)
      /\ \A i \in DOMAIN q : pub'[s]["global"][i] = q[i]
      /\ pub'[s]["global"][Len(q) + 1] = Packet(m, NoClient, s)
  BY <1>1, <1>2 DEF Packet
<1>8. \A t \in Servers : \A i \in DOMAIN pub'[t]["global"] :
          \/ i \in DOMAIN pub[t]["global"] /\ pub'[t]["global"][i] = pub[t]["global"][i]
          \/ t = s /\ i = Len(q) + 1 /\ pub'[t]["global"][i].m = m
  BY <1>2, <1>7
<1> HIDE DEF m, q
<1>9. \A n : Waiting(n)' => Waiting(n) \/ n = m
  BY <1>8 DEF Waiting, InQueue
<1>10. ASSUME NEW k, NEW n, Earlier(k, n)' PROVE Earlier(k, n) \/ n = m
  <2>1. CASE \E c \in Clients : Before(c, k, n)'
    BY <1>4, <2>1 DEF Earlier
  <2>2. CASE \E t \in Servers : Precedes(sub'[t]["global"], k, n)
    BY <1>1, <2>2 DEF Earlier
  <2>3. CASE \E c \in Clients : at'[c] \in Servers /\ Has(c, k)' /\ InQueue(sub'[at'[c]]["global"], n)
    BY <1>1, <1>4, <2>3 DEF Earlier
  <2>4. CASE Out(k)' /\ Waiting(n)'
    BY <1>4, <1>9, <2>4 DEF Earlier
  <2> QED  BY <1>10, <2>1, <2>2, <2>3, <2>4 DEF Earlier
<1>11. \A k, n : Earlier(k, n)' => k # m
  <2>1. \A k, n : Earlier(k, n)' => Out(k)'
    BY DEF Earlier, Out, Before, Has, Precedes, InQueue
  <2> QED  BY <1>4, <1>5, <2>1
<1>12. OneSequence'
  BY <1>3, <1>10, <1>11 DEF Ordered, OneSequence
<1>13. WaitsUnpublished'
  BY <1>3, <1>4, <1>5, <1>9 DEF Ordered, WaitsUnpublished
<1>14. WaitsOnce'
  <2> SUFFICES ASSUME NEW t \in Servers, NEW u \in Servers,
                      NEW i \in DOMAIN pub'[t]["global"], NEW j \in DOMAIN pub'[u]["global"],
                      pub'[t]["global"][i].m = pub'[u]["global"][j].m
               PROVE  t = u /\ i = j
    BY DEF WaitsOnce
  <2>1. CASE i \in DOMAIN pub[t]["global"] /\ pub'[t]["global"][i] = pub[t]["global"][i]
    BY <1>6, <1>8, <2>1 DEF Ordered, WaitsOnce
  <2>2. CASE t = s /\ i = Len(q) + 1 /\ pub'[t]["global"][i].m = m
    BY <1>6, <1>8, <2>2
  <2> QED  BY <1>8, <2>1, <2>2
<1> QED  BY <1>12, <1>13, <1>14 DEF Ordered

LEMMA OrderedNext ==
    TypeOK /\ AllRouted /\ AllFor /\ Ordered /\ Untouched /\ [Next]_vars => Ordered'
<1> SUFFICES ASSUME TypeOK, AllRouted, AllFor, Ordered, Untouched, [Next]_vars PROVE Ordered'
  OBVIOUS
<1>p. /\ pub \in Queues /\ sub \in Queues /\ at \in [Clients -> Servers \cup {None, Gone}]
      /\ Gone \notin Servers /\ None \notin Servers
      /\ "out" \in Topics /\ "global" \in Topics
  BY MessagingAssumption DEF TypeOK, Queues, Topics
(* Steps that hand out cs one thing that is no global broadcast, if any.    *)
<1>0. ASSUME \A t \in Servers : sub'[t]["global"] \in {sub[t]["global"], <<>>},
             \A t \in Servers : pub'[t]["global"] \in {pub[t]["global"], <<>>},
             \A c \in Clients : at'[c] \in Servers =>
                 at'[c] = at[c] \/ \A n \in Casts : ~Has(c, n),
             Casts' \subseteq Casts,
             got' = got \/ \E cs : \E m : Hand(cs, m) /\ m \notin Casts
      PROVE  Ordered'
  <2>1. CASE got' = got
    <3>1. /\ \A c \in Clients : \A n \in Casts : Has(c, n)' => Has(c, n)
          /\ \A c \in Clients : \A k, n \in Casts : Before(c, k, n)' => Before(c, k, n)
      BY <2>1 DEF Has, Before
    <3> QED  BY <1>0, <3>1, NoCastMoves
  <2>2. ASSUME NEW cs, NEW m, Hand(cs, m), m \notin Casts PROVE Ordered'
    <3>1. /\ \A c \in Clients : \A n \in Casts : Has(c, n)' => Has(c, n)
          /\ \A c \in Clients : \A k, n \in Casts : Before(c, k, n)' => Before(c, k, n)
      BY <2>2, OtherHanded
    <3> QED  BY <1>0, <3>1, NoCastMoves
  <2> QED  BY <1>0, <2>1, <2>2
<1>1. ASSUME NEW s \in Servers, Lifecycle(s) PROVE Ordered'
  <2>0. sent' = sent /\ Casts' = Casts
    BY <1>1 DEF Lifecycle, SubscribeOut, SubscribeGlobal, Stop, Crash, Connect, Casts
  <2>1. CASE SubscribeOut(s) \/ SubscribeGlobal(s)
    BY <1>0, <2>0, <2>1 DEF SubscribeOut, SubscribeGlobal
  <2>2. CASE Stop(s) \/ Crash(s)
    <3> DEFINE none == [k \in Topics |-> <<>>]
    <3>1. none["global"] = <<>>
      BY <1>p
    <3> HIDE DEF none
    <3>2. /\ pub' = pub \/ pub' = [pub EXCEPT ![s] = none]
          /\ sub' = [sub EXCEPT ![s] = none] /\ got' = got
      BY <2>2 DEF Stop, Crash, none
    <3>3. \A t \in Servers : /\ sub'[t]["global"] \in {sub[t]["global"], <<>>}
                             /\ pub'[t]["global"] \in {pub[t]["global"], <<>>}
      BY <1>p, <3>1, <3>2 DEF Queues
    <3>4. \A c \in Clients : at'[c] \in Servers => at'[c] = at[c]
      BY <1>p, <2>2 DEF Stop, Crash, Drop
    <3> QED  BY <1>0, <2>0, <3>2, <3>3, <3>4
  <2>3. ASSUME NEW d \in Clients, Connect(d, s) PROVE Ordered'
    <3>1. \A n : ~Has(d, n)
      BY <2>3 DEF Connect, Untouched, Has
    <3>2. \A c \in Clients : at'[c] = at[c] \/ c = d
      BY <1>p, <2>3 DEF Connect
    <3>3. /\ Hand(IF layer = "raw" THEN {} ELSE {d}, Ident)
          /\ sub' = sub /\ pub' = pub
      BY <2>3 DEF Connect
    <3>4. Ident \notin Casts
      <4>1. DOMAIN sent = 1..Len(sent) /\ Len(sent) \in Nat
        BY DEF TypeOK
      <4> QED  BY <4>1 DEF Casts, Ident
    <3> QED  BY <1>0, <2>0, <3>1, <3>2, <3>3, <3>4
  <2> QED  BY <1>1, <2>1, <2>2, <2>3 DEF Lifecycle
<1>i. ASSUME NEW s \in Servers, NEW q, Issue(s, "out", q)
      PROVE  \A t \in Servers : pub'[t]["global"] = pub[t]["global"]
  BY <1>p, <1>i DEF Issue, Queues
<1>2. ASSUME NEW s \in Servers, NEW c \in Clients, Send(s, c) PROVE Ordered'
  <2>1. Casts' \subseteq Casts /\ NextId \notin Casts
    BY <1>2, OtherLogged DEF Send, Kinds
  <2>2. pub' = pub /\ sub' = sub /\ at' = at /\ Hand({c} \cap On(s), NextId)
    BY <1>2 DEF Send
  <2> QED  BY <1>0, <2>1, <2>2
<1>3. ASSUME NEW s \in Servers, NEW cs \in SUBSET Clients, SendList(s, cs) PROVE Ordered'
  <2>1. Casts' \subseteq Casts /\ NextId \notin Casts
    BY <1>3, OtherLogged DEF SendList, Kinds
  <2>2. /\ \A t \in Servers : pub'[t]["global"] = pub[t]["global"]
        /\ sub' = sub /\ at' = at /\ Hand(cs \cap On(s), NextId)
    BY <1>3, <1>i DEF SendList
  <2> QED  BY <1>0, <2>1, <2>2
<1>4. ASSUME NEW s \in Servers, Broadcast(s) PROVE Ordered'
  <2>1. Casts' \subseteq Casts /\ NextId \notin Casts /\ Garbled \notin Casts
    <3>1. On(s) \in SUBSET Clients /\ "local" \in Kinds \ {"global"} /\ Log("local", s, On(s))
      BY <1>4 DEF Broadcast, Kinds, On
    <3> QED  BY <3>1, OtherLogged
  <2>2. /\ pub' = pub /\ sub' = sub /\ at' = at
        /\ Hand(On(s), IF layer = "json" THEN Garbled ELSE NextId)
    BY <1>4 DEF Broadcast
  <2>3. (IF layer = "json" THEN Garbled ELSE NextId) \notin Casts
    BY <2>1
  <2> QED  BY <1>0, <2>1, <2>2, <2>3
<1>5. ASSUME NEW s \in Servers, BroadcastGlobal(s) PROVE Ordered'
  BY <1>5, OrderedBroadcast
<1>6. ASSUME NEW s \in Servers, Publish(s, "global") PROVE Ordered'
  BY <1>6, OrderedPublish
<1>7. ASSUME NEW s \in Servers, Publish(s, "out") PROVE Ordered'
  <2>1. /\ got' = got /\ at' = at /\ sent' = sent /\ Casts' = Casts
    BY <1>7 DEF Publish, Casts
  <2>2. \A t \in Servers : pub'[t]["global"] = pub[t]["global"]
    BY <1>p, <1>7 DEF Publish, Queues
  <2>3. ASSUME NEW t \in Servers PROVE sub'[t]["global"] = sub[t]["global"]
    <3>1. \/ sub'[t] = sub[t]
          \/ sub'[t] = [sub[t] EXCEPT !["out"] = Append(@, Head(pub[s]["out"]))]
      BY <1>7 DEF Publish
    <3>2. sub[t] \in [Topics -> Seq(Packets)]
      BY <1>p DEF Queues
    <3> QED  BY <1>p, <3>1, <3>2
  <2> QED  BY <1>0, <2>1, <2>2, <2>3
<1>8. ASSUME NEW s \in Servers, OnMessageOut(s) PROVE Ordered'
  <2> DEFINE p == Head(sub[s]["out"])
             cs == IF phase[s] = "open" /\ p.origin # s THEN On(s) \cap {p.to} ELSE {}
  <2>1. Take(s, "out") /\ Hand(cs, p.m)
    BY <1>8 DEF OnMessageOut
  <2>2. p.m \notin Casts
    <3>1. sub[s]["out"] \in Seq(Packets) /\ sub[s]["out"] # <<>>
      BY <1>p, <2>1 DEF Take, Queues
    <3>2. p = sub[s]["out"][1] /\ 1 \in DOMAIN sub[s]["out"]
      BY <3>1
    <3>3. Routed(sent, "out", p)
      BY <1>p, <3>2 DEF AllRouted
    <3> QED  BY <3>3 DEF Routed, Casts
  <2> HIDE DEF p, cs
  <2>3. /\ pub' = pub /\ at' = at /\ sent' = sent /\ Casts' = Casts
        /\ \A t \in Servers : sub'[t]["global"] = sub[t]["global"]
    BY <1>p, <2>1 DEF Take, Queues, Casts
  <2> QED  BY <1>0, <2>1, <2>2, <2>3
<1>9. ASSUME NEW s \in Servers, OnMessageGlobal(s) PROVE Ordered'
  BY <1>9, OrderedHanding DEF OnMessageGlobal
<1>t. ASSUME NEW s \in Servers, OnMessageGlobalThrows(s) PROVE Ordered'
  <2>1. CASE Crash(s)
    BY <1>1, <2>1 DEF Lifecycle
  <2>2. CASE Take(s, "global") /\ Hand({}, Garbled)
    <3>1. Hand({}, Head(sub[s]["global"]).m)
      BY <2>2 DEF Hand
    <3> QED  BY <2>2, <3>1, OrderedHanding
  <2> QED  BY <1>t, <2>1, <2>2 DEF OnMessageGlobalThrows
<1>f. ASSUME NEW s \in Servers, Forward(s) PROVE Ordered'
  <2>1. /\ \A t \in Servers : pub'[t]["global"] = pub[t]["global"]
        /\ sub' = sub /\ at' = at /\ got' = got /\ Casts' = Casts
    BY <1>f, <1>i DEF Forward, Casts
  <2> QED  BY <1>0, <2>1
<1>10. ASSUME NEW d \in Clients, Disconnect(d) PROVE Ordered'
  <2>1. \A c \in Clients : at'[c] \in Servers => at'[c] = at[c]
    BY <1>p, <1>10 DEF Disconnect
  <2>2. pub' = pub /\ sub' = sub /\ got' = got /\ Casts' = Casts
    BY <1>10 DEF Disconnect, Casts
  <2> QED  BY <1>0, <2>1, <2>2
<1>11. CASE UNCHANGED vars
  <2>1. pub' = pub /\ sub' = sub /\ got' = got /\ at' = at /\ Casts' = Casts
    BY <1>11 DEF vars, Casts
  <2> QED  BY <1>0, <2>1
<1>12. ASSUME NEW s \in Servers, Application(s) PROVE Ordered'
  BY <1>2, <1>3, <1>4, <1>5, <1>12 DEF Application, Known
<1>13. ASSUME NEW s \in Servers, Transport(s) PROVE Ordered'
  BY <1>6, <1>7, <1>8, <1>9, <1>t, <1>f, <1>13 DEF Transport, Topics
<1> QED  BY <1>1, <1>10, <1>11, <1>12, <1>13 DEF Next

(* All clients see the global broadcasts in one order, whichever servers    *)
(* these are sent from and received at, whoever comes, goes or crashes      *)
(* meanwhile: no two clients that were handed the same two were handed them *)
(* the other way round.                                                     *)
THEOREM GlobalOrder == Spec => []OneGlobalOrder
<1>1. TypeOK /\ AllFor /\ Ordered => OneGlobalOrder
  <2> SUFFICES ASSUME TypeOK, AllFor, Ordered, NEW c \in Clients, NEW d \in Clients,
                      NEW m \in Ids, NEW n \in Ids,
                      Has(d, m), Has(d, n), m \in Casts, n \in Casts, Before(c, m, n)
               PROVE  Before(d, m, n)
    <3>1. ASSUME NEW c \in Clients, NEW m \in Ids, Has(c, m), sent[m].kind = "global",
                 AllFor
          PROVE  m \in Casts
      BY <3>1 DEF AllFor, For, Has, Casts, Ids, Ident, Garbled
    <3> QED  BY <3>1 DEF OneGlobalOrder
  <2>1. PICK i \in DOMAIN got[d] : got[d][i] = m
    BY DEF Has
  <2>2. PICK j \in DOMAIN got[d] : got[d][j] = n
    BY DEF Has
  <2>3. i \in Nat /\ j \in Nat
    <3>1. got[d] \in Seq(Items)
      BY DEF TypeOK, Items
    <3> QED  BY <3>1
  <2>4. ~Before(d, n, m) /\ m # n
    BY DEF Earlier, Ordered, OneSequence
  <2>5. i < j
    BY <2>1, <2>2, <2>3, <2>4 DEF Before
  <2> QED  BY <2>1, <2>2, <2>5 DEF Before
<1> QED
  BY <1>1, OrderedInit, OrderedNext, UntouchedNext, RoutedInit, RoutedNext, TypeCorrect, PTL
  DEF Spec

-------------------------------------------------------------------------------
(* The channels of Delivery.  The packets of the topic "out" that name a    *)
(* client were sent from elsewhere, and on their way - first in late, then  *)
(* in pub, then in sub - those of one server for one client stay in the     *)
(* order in which they were sent.                                           *)

Homes == \A c \in Clients : at[c] \in Servers => phase[at[c]] = "open"

Own == \A s \in Servers : /\ \A i \in DOMAIN pub[s]["out"] : pub[s]["out"][i].origin = s
                          /\ \A i \in DOMAIN late[s] : late[s][i].origin = s

Fits(log, where, p) == p.to \in Clients => /\ where[p.to] \notin {None, p.origin}
                                           /\ log[p.m].kind = "one"

AllFit ==
    \A s \in Servers : /\ \A i \in DOMAIN pub[s]["out"] : Fits(sent, at, pub[s]["out"][i])
                       /\ \A i \in DOMAIN sub[s]["out"] : Fits(sent, at, sub[s]["out"][i])
                       /\ \A i \in DOMAIN late[s] : Fits(sent, at, late[s][i])

(* p has to reach its client before r does. *)
InTurn(p, r) == (p.to \in Clients /\ p.to = r.to /\ p.origin = r.origin) => p.m < r.m

Ascending(q) == \A i, j \in DOMAIN q : i < j => InTurn(q[i], q[j])

Ahead(q, r) == \A i \in DOMAIN q, j \in DOMAIN r : InTurn(q[i], r[j])

AllAscending ==
    /\ \A s \in Servers : /\ Ascending(pub[s]["out"])
                          /\ Ascending(sub[s]["out"])
                          /\ Ascending(late[s])
                          /\ Ahead(pub[s]["out"], late[s])
    /\ \A s, t \in Servers : /\ Ahead(sub[t]["out"], pub[s]["out"])
                             /\ Ahead(sub[t]["out"], late[s])

Channels == Homes /\ Own /\ AllFit /\ AllAscending

LEMMA ChannelsInit == Init => Channels
<1> SUFFICES ASSUME Init PROVE Channels
  OBVIOUS
<1>1. \A s \in Servers : pub[s]["out"] = <<>> /\ sub[s]["out"] = <<>> /\ late[s] = <<>>
  BY DEF Init, NoPackets, Topics
<1>2. Homes
  BY MessagingAssumption DEF Init, Homes
<1> QED  BY <1>1, <1>2 DEF Channels, Own, AllFit, AllAscending, Ascending, Ahead

(* r is what is left of q. *)
Rest(r, q) == \E d \in Nat : \A i \in DOMAIN r : i \in Nat /\ i + d \in DOMAIN q /\ r[i] = q[i + d]

LEMMA RestOf ==
    ASSUME NEW q \in Seq(Packets)
    PROVE  Rest(q, q) /\ Rest(<<>>, q) /\ (q # <<>> => Rest(Tail(q), q))
<1>1. \A i \in DOMAIN q : i \in Nat /\ i + 0 = i
  OBVIOUS
<1>2. Rest(q, q)
  BY <1>1 DEF Rest
<1>3. Rest(<<>>, q)
  BY DEF Rest
<1>4. ASSUME q # <<>> PROVE Rest(Tail(q), q)
  <2>1. \A i \in DOMAIN Tail(q) : i \in Nat /\ i + 1 \in DOMAIN q /\ Tail(q)[i] = q[i + 1]
    BY <1>4
  <2> QED  BY <2>1 DEF Rest
<1> QED  BY <1>2, <1>3, <1>4

LEMMA RestKeeps ==
    ASSUME NEW r, NEW q, Rest(r, q)
    PROVE  /\ \A i \in DOMAIN r : \E j \in DOMAIN q : r[i] = q[j]
           /\ Ascending(q) => Ascending(r)
<1>1. PICK d \in Nat : \A i \in DOMAIN r : i \in Nat /\ i + d \in DOMAIN q /\ r[i] = q[i + d]
  BY DEF Rest
<1>2. ASSUME Ascending(q), NEW i \in DOMAIN r, NEW j \in DOMAIN r, i < j
      PROVE  InTurn(r[i], r[j])
  <2>1. i + d < j + d
    BY <1>1, <1>2
  <2> QED  BY <1>1, <1>2, <2>1 DEF Ascending
<1> QED  BY <1>1, <1>2 DEF Ascending

LEMMA RestAhead ==
    ASSUME NEW q, NEW r, NEW p, NEW o, Rest(p, q), Rest(o, r), Ahead(q, r)
    PROVE  Ahead(p, o)
<1>1. /\ \A i \in DOMAIN p : \E j \in DOMAIN q : p[i] = q[j]
      /\ \A i \in DOMAIN o : \E j \in DOMAIN r : o[i] = r[j]
  BY RestKeeps
<1> QED  BY <1>1 DEF Ahead

(* What fits its client stays so, until the client has gone.                *)
LEMMA FitsStays ==
    ASSUME \A m \in DOMAIN sent : m \in DOMAIN sent' /\ sent'[m] = sent[m],
           \A c \in Clients : at[c] # None => at'[c] \in {at[c], Gone},
           NEW p \in Packets, p.m \in DOMAIN sent, Fits(sent, at, p)
    PROVE  Fits(sent', at', p)
<1>1. p.origin \in Servers
  BY DEF Packets
<1> QED  BY <1>1, MessagingAssumption DEF Fits

LEMMA AllFitStay ==
    ASSUME TypeOK, AllFit, AllRouted,
           \A m \in DOMAIN sent : m \in DOMAIN sent' /\ sent'[m] = sent[m],
           \A c \in Clients : at[c] # None => at'[c] \in {at[c], Gone}
    PROVE  \A s \in Servers :
               /\ \A i \in DOMAIN pub[s]["out"] : Fits(sent', at', pub[s]["out"][i])
               /\ \A i \in DOMAIN sub[s]["out"] : Fits(sent', at', sub[s]["out"][i])
               /\ \A i \in DOMAIN late[s] : Fits(sent', at', late[s][i])
<1>1. ASSUME NEW s \in Servers, NEW q, q \in {pub[s]["out"], sub[s]["out"], late[s]},
             NEW i \in DOMAIN q
      PROVE  Fits(sent', at', q[i])
  <2>1. q \in Seq(Packets)
    BY <1>1 DEF TypeOK, Topics
  <2>2. q[i] \in Packets
    BY <1>1, <2>1
  <2>3. Routed(sent, "out", q[i])
    BY <1>1 DEF AllRouted, Topics
  <2>4. Fits(sent, at, q[i])
    BY <1>1 DEF AllFit
  <2> QED  BY <2>2, <2>3, <2>4, FitsStays DEF Routed
<1> QED  BY <1>1

(* Steps that put no packet into a queue of the topic "out".                *)
LEMMA ChannelsShrink ==
    ASSUME TypeOK, Channels, AllRouted, Homes',
           \A m \in DOMAIN sent : m \in DOMAIN sent' /\ sent'[m] = sent[m],
           \A s \in Servers : /\ Rest(pub'[s]["out"], pub[s]["out"])
                              /\ Rest(sub'[s]["out"], sub[s]["out"])
                              /\ Rest(late'[s], late[s]),
           \A c \in Clients : at[c] # None => at'[c] \in {at[c], Gone}
    PROVE  Channels'
<1>1. ASSUME NEW s \in Servers
      PROVE  /\ \A i \in DOMAIN pub'[s]["out"] :
                   \E j \in DOMAIN pub[s]["out"] : pub'[s]["out"][i] = pub[s]["out"][j]
             /\ \A i \in DOMAIN sub'[s]["out"] :
                   \E j \in DOMAIN sub[s]["out"] : sub'[s]["out"][i] = sub[s]["out"][j]
             /\ \A i \in DOMAIN late'[s] : \E j \in DOMAIN late[s] : late'[s][i] = late[s][j]
             /\ Ascending(pub'[s]["out"]) /\ Ascending(sub'[s]["out"]) /\ Ascending(late'[s])
  BY RestKeeps DEF Channels, AllAscending
<1>2. Own'
  BY <1>1 DEF Channels, Own
<1>3. AllFit'
  <2>1. \A s \in Servers :
            /\ \A i \in DOMAIN pub[s]["out"] : Fits(sent', at', pub[s]["out"][i])
            /\ \A i \in DOMAIN sub[s]["out"] : Fits(sent', at', sub[s]["out"][i])
            /\ \A i \in DOMAIN late[s] : Fits(sent', at', late[s][i])
    BY AllFitStay DEF Channels
  <2>2. ASSUME NEW s \in Servers, NEW i \in DOMAIN pub'[s]["out"]
        PROVE  Fits(sent', at', pub'[s]["out"][i])
    <3>1. PICK j \in DOMAIN pub[s]["out"] : pub'[s]["out"][i] = pub[s]["out"][j]
      BY <1>1, <2>2
    <3> QED  BY <2>1, <3>1
  <2>3. ASSUME NEW s \in Servers, NEW i \in DOMAIN sub'[s]["out"]
        PROVE  Fits(sent', at', sub'[s]["out"][i])
    <3>1. PICK j \in DOMAIN sub[s]["out"] : sub'[s]["out"][i] = sub[s]["out"][j]
      BY <1>1, <2>3
    <3> QED  BY <2>1, <3>1
  <2>4. ASSUME NEW s \in Servers, NEW i \in DOMAIN late'[s]
        PROVE  Fits(sent', at', late'[s][i])
    <3>1. PICK j \in DOMAIN late[s] : late'[s][i] = late[s][j]
      BY <1>1, <2>4
    <3> QED  BY <2>1, <3>1
  <2> QED  BY <2>2, <2>3, <2>4 DEF AllFit
<1>4. AllAscending'
  <2>1. ASSUME NEW s \in Servers, NEW t \in Servers
        PROVE  /\ Ahead(sub'[t]["out"], pub'[s]["out"])
               /\ Ahead(sub'[t]["out"], late'[s])
               /\ Ahead(pub'[s]["out"], late'[s])
    <3>1. /\ Ahead(sub[t]["out"], pub[s]["out"])
          /\ Ahead(sub[t]["out"], late[s])
          /\ Ahead(pub[s]["out"], late[s])
      BY DEF Channels, AllAscending
    <3> QED  BY <3>1, RestAhead
  <2> QED  BY <1>1, <2>1 DEF AllAscending, Ascending, Ahead, InTurn
<1> QED  BY <1>2, <1>3, <1>4 DEF Channels

LEMMA AppendIs ==
    ASSUME NEW q, NEW p, q \in Seq(Packets)
    PROVE  \A i \in DOMAIN Append(q, p) : \/ i \in DOMAIN q /\ Append(q, p)[i] = q[i]
                                          \/ i = Len(q) + 1 /\ Append(q, p)[i] = p
OBVIOUS

(* A message is delayed behind those sent before.                           *)
LEMMA ChannelsDelay ==
    ASSUME TypeOK, Channels, AllRouted, NEW s \in Servers, NEW p \in Packets,
           late' = [late EXCEPT ![s] = Append(@, p)],
           pub' = pub, sub' = sub, at' = at, phase' = phase,
           \A m \in DOMAIN sent : m \in DOMAIN sent' /\ sent'[m] = sent[m],
           p.origin = s, p.m = NextId, Fits(sent', at', p)
    PROVE  Channels'
<1> DEFINE a == late[s]
           l == Append(a, p)
<1>1. /\ a \in Seq(Packets)
      /\ DOMAIN sent = 1..Len(sent) /\ Len(sent) \in Nat
      /\ late'[s] = l
      /\ \A t \in Servers : t # s => late'[t] = late[t]
  BY DEF TypeOK
<1>2. \A i \in DOMAIN a : a[i].m \in DOMAIN sent /\ a[i].origin = s
  BY DEF AllRouted, Routed, Channels, Own
<1> HIDE DEF a
<1>3. /\ Len(a) \in Nat /\ DOMAIN a = 1..Len(a)
      /\ \A i \in DOMAIN l : \/ i \in DOMAIN a /\ l[i] = a[i]
                             \/ i = Len(a) + 1 /\ l[i] = p
  <2>1. Len(a) \in Nat /\ DOMAIN a = 1..Len(a)
    BY <1>1
  <2>2. \A i \in DOMAIN l : \/ i \in DOMAIN a /\ l[i] = a[i]
                            \/ i = Len(a) + 1 /\ l[i] = p
    BY <1>1, AppendIs
  <2> QED  BY <2>1, <2>2
<1> HIDE DEF l
<1>4. \A r : r.m \in DOMAIN sent => InTurn(r, p)
  BY <1>1 DEF InTurn, NextId
<1>5. \A t \in Servers : /\ \A i \in DOMAIN pub[t]["out"] : pub[t]["out"][i].m \in DOMAIN sent
                         /\ \A i \in DOMAIN sub[t]["out"] : sub[t]["out"][i].m \in DOMAIN sent
  BY DEF AllRouted, Routed, Topics
<1>6. Homes' /\ Own'
  <2>1. Homes'
    BY DEF Channels, Homes
  <2>2. \A i \in DOMAIN late'[s] : late'[s][i].origin = s
    BY <1>1, <1>2, <1>3
  <2>3. Own'
    BY <1>1, <2>2 DEF Channels, Own
  <2> QED  BY <2>1, <2>3
<1>7. AllFit'
  <2>1. \A t \in Servers :
            /\ \A i \in DOMAIN pub[t]["out"] : Fits(sent', at', pub[t]["out"][i])
            /\ \A i \in DOMAIN sub[t]["out"] : Fits(sent', at', sub[t]["out"][i])
            /\ \A i \in DOMAIN late[t] : Fits(sent', at', late[t][i])
    BY AllFitStay DEF Channels
  <2>2. \A i \in DOMAIN late'[s] : Fits(sent', at', late'[s][i])
    BY <1>1, <1>3, <2>1 DEF a
  <2> QED  BY <1>1, <2>1, <2>2 DEF AllFit
<1>8. AllAscending'
  <2>1. Ascending(late'[s])
    <3>1. ASSUME NEW i \in DOMAIN l, NEW j \in DOMAIN l, i < j
          PROVE  InTurn(l[i], l[j])
      <4>1. i \in DOMAIN a /\ l[i] = a[i]
        BY <1>3, <3>1
      <4>2. CASE j \in DOMAIN a /\ l[j] = a[j]
        BY <3>1, <4>1, <4>2 DEF Channels, AllAscending, Ascending, a
      <4>3. CASE l[j] = p
        BY <1>2, <1>4, <4>1, <4>3
      <4> QED  BY <1>3, <4>2, <4>3
    <3> QED  BY <1>1, <3>1 DEF Ascending
  <2>2. ASSUME NEW q, \A i \in DOMAIN q : q[i].m \in DOMAIN sent, Ahead(q, a)
        PROVE  Ahead(q, late'[s])
    BY <1>1, <1>3, <1>4, <2>2 DEF Ahead
  <2>3. Ahead(pub[s]["out"], late'[s]) /\ \A t \in Servers : Ahead(sub[t]["out"], late'[s])
    BY <1>5, <2>2 DEF Channels, AllAscending, a
  <2>4. ASSUME NEW t \in Servers
        PROVE  /\ Ascending(pub[t]["out"]) /\ Ascending(sub[t]["out"]) /\ Ascending(late'[t])
               /\ Ahead(pub[t]["out"], late'[t])
    <3>1. /\ Ascending(pub[t]["out"]) /\ Ascending(sub[t]["out"]) /\ Ascending(late[t])
          /\ Ahead(pub[t]["out"], late[t])
      BY DEF Channels, AllAscending
    <3> QED  BY <1>1, <2>1, <2>3, <3>1
  <2>5. ASSUME NEW t \in Servers, NEW u \in Servers
        PROVE  Ahead(sub[t]["out"], pub[u]["out"]) /\ Ahead(sub[t]["out"], late'[u])
    <3>1. Ahead(sub[t]["out"], pub[u]["out"]) /\ Ahead(sub[t]["out"], late[u])
      BY DEF Channels, AllAscending
    <3> QED  BY <1>1, <2>3, <3>1
  <2> QED  BY <2>4, <2>5 DEF AllAscending, Ascending, Ahead, InTurn
<1> QED  BY <1>6, <1>7, <1>8 DEF Channels

(* Packets of s are published behind those on their way and in front of     *)
(* those that are delayed.                                                  *)
LEMMA ChannelsIssue ==
    ASSUME TypeOK, Channels, AllRouted, NEW s \in Servers, NEW q \in Seq(Packets),
           Issue(s, "out", q), sub' = sub, at' = at, phase' = phase,
           \A m \in DOMAIN sent : m \in DOMAIN sent' /\ sent'[m] = sent[m],
           \A t \in Servers : Rest(late'[t], late[t]),
           \A i \in DOMAIN q : q[i].origin = s /\ Fits(sent', at', q[i]),
           Ascending(q), Ahead(pub[s]["out"], q), Ahead(q, late'[s]),
           \A t \in Servers : Ahead(sub[t]["out"], q)
    PROVE  Channels'
<1> DEFINE a == pub[s]["out"]
<1>1. /\ a \in Seq(Packets) /\ pub \in Queues
  BY DEF TypeOK, Queues, Topics
<1>2. /\ pub'[s]["out"] = a \o q
      /\ \A t \in Servers : t # s => pub'[t]["out"] = pub[t]["out"]
  BY <1>1 DEF Issue, Queues, Topics
<1>3. /\ Len(a) \in Nat /\ DOMAIN a = 1..Len(a) /\ Len(q) \in Nat /\ DOMAIN q = 1..Len(q)
      /\ DOMAIN pub'[s]["out"] = 1..(Len(a) + Len(q))
      /\ \A i \in DOMAIN a : pub'[s]["out"][i] = a[i]
      /\ \A i \in DOMAIN q : pub'[s]["out"][Len(a) + i] = q[i]
  <2>1. a \in Seq(Packets) /\ pub'[s]["out"] = a \o q
    BY <1>1, <1>2
  <2> HIDE DEF a
  <2> QED  BY <2>1
<1> HIDE DEF a
<1>4. ASSUME NEW i \in DOMAIN pub'[s]["out"]
      PROVE  \/ i \in DOMAIN a /\ pub'[s]["out"][i] = a[i]
             \/ /\ i - Len(a) \in DOMAIN q /\ i > Len(a)
                /\ pub'[s]["out"][i] = q[i - Len(a)]
  <2>1. i \in Nat /\ i >= 1 /\ i <= Len(a) + Len(q)
    BY <1>3, <1>4
  <2>2. CASE i <= Len(a)
    BY <1>3, <2>1, <2>2
  <2>3. CASE i > Len(a)
    <3>1. i - Len(a) \in DOMAIN q /\ Len(a) + (i - Len(a)) = i
      BY <1>3, <2>1, <2>3
    <3> QED  BY <1>3, <2>3, <3>1
  <2> QED  BY <1>3, <2>1, <2>2, <2>3
<1>5. \A t \in Servers : /\ \A i \in DOMAIN late'[t] : \E j \in DOMAIN late[t] : late'[t][i] = late[t][j]
                         /\ Ascending(late'[t])
  BY RestKeeps DEF Channels, AllAscending
<1>6. Homes' /\ Own'
  <2>1. \A i \in DOMAIN a : a[i].origin = s
    BY DEF Channels, Own, a
  <2>2. \A i \in DOMAIN pub'[s]["out"] : pub'[s]["out"][i].origin = s
    BY <1>4, <2>1
  <2>3. Own'
    <3>1. \A t \in Servers : \A i \in DOMAIN pub'[t]["out"] : pub'[t]["out"][i].origin = t
      BY <1>2, <2>2 DEF Channels, Own
    <3>2. \A t \in Servers : \A i \in DOMAIN late'[t] : late'[t][i].origin = t
      BY <1>5 DEF Channels, Own
    <3> QED  BY <3>1, <3>2 DEF Own
  <2>4. Homes'
    BY DEF Channels, Homes
  <2> QED  BY <2>3, <2>4
<1>7. AllFit'
  <2>1. \A t \in Servers :
            /\ \A i \in DOMAIN pub[t]["out"] : Fits(sent', at', pub[t]["out"][i])
            /\ \A i \in DOMAIN sub[t]["out"] : Fits(sent', at', sub[t]["out"][i])
            /\ \A i \in DOMAIN late[t] : Fits(sent', at', late[t][i])
    BY AllFitStay DEF Channels
  <2>2. \A i \in DOMAIN pub'[s]["out"] : Fits(sent', at', pub'[s]["out"][i])
    BY <1>4, <2>1 DEF a
  <2>3. ASSUME NEW t \in Servers, NEW i \in DOMAIN late'[t] PROVE Fits(sent', at', late'[t][i])
    <3>1. PICK j \in DOMAIN late[t] : late'[t][i] = late[t][j]
      BY <1>5
    <3> QED  BY <2>1, <3>1
  <2> QED  BY <1>2, <2>1, <2>2, <2>3 DEF AllFit
<1>8. AllAscending'
  <2>1. ASSUME NEW i \in DOMAIN pub'[s]["out"], NEW j \in DOMAIN pub'[s]["out"], i < j
        PROVE  InTurn(pub'[s]["out"][i], pub'[s]["out"][j])
    <3>1. CASE i \in DOMAIN a /\ pub'[s]["out"][i] = a[i]
      <4>1. CASE j \in DOMAIN a /\ pub'[s]["out"][j] = a[j]
        BY <2>1, <3>1, <4>1 DEF Channels, AllAscending, Ascending, a
      <4>2. CASE j - Len(a) \in DOMAIN q /\ pub'[s]["out"][j] = q[j - Len(a)]
        BY <3>1, <4>2 DEF Ahead, a
      <4> QED  BY <1>4, <4>1, <4>2
    <3>2. CASE /\ i - Len(a) \in DOMAIN q /\ i > Len(a)
               /\ pub'[s]["out"][i] = q[i - Len(a)]
      <4>1. j - Len(a) \in DOMAIN q /\ pub'[s]["out"][j] = q[j - Len(a)]
        <5>1. ~(j \in DOMAIN a)
          BY <1>3, <2>1, <3>2
        <5> QED  BY <1>4, <5>1
      <4>2. i - Len(a) < j - Len(a)
        BY <1>3, <2>1
      <4> QED  BY <3>2, <4>1, <4>2 DEF Ascending
    <3> QED  BY <1>4, <3>1, <3>2
  <2>2. \A t \in Servers : Ascending(pub'[t]["out"])
    BY <1>2, <2>1 DEF Channels, AllAscending, Ascending
  <2>3. Ahead(pub'[s]["out"], late'[s])
    <3>1. Ahead(a, late'[s])
      BY <1>5 DEF Channels, AllAscending, Ahead, a
    <3> QED  BY <1>4, <3>1 DEF Ahead
  <2>4. \A t \in Servers : Ahead(pub'[t]["out"], late'[t])
    <3>1. \A t \in Servers : t # s => Ahead(pub'[t]["out"], late'[t])
      BY <1>2, <1>5 DEF Channels, AllAscending, Ahead
    <3> QED  BY <2>3, <3>1
  <2>5. ASSUME NEW t \in Servers, NEW u \in Servers
        PROVE  Ahead(sub[t]["out"], pub'[u]["out"]) /\ Ahead(sub[t]["out"], late'[u])
    <3>1. Ahead(sub[t]["out"], late'[u])
      BY <1>5 DEF Channels, AllAscending, Ahead
    <3>2. Ahead(sub[t]["out"], a)
      BY DEF Channels, AllAscending, a
    <3>3. Ahead(sub[t]["out"], pub'[s]["out"])
      BY <1>4, <3>2 DEF Ahead
    <3>4. u # s => Ahead(sub[t]["out"], pub'[u]["out"])
      BY <1>2 DEF Channels, AllAscending
    <3> QED  BY <3>1, <3>3, <3>4
  <2>6. \A t \in Servers : Ascending(sub[t]["out"])
    BY DEF Channels, AllAscending
  <2> QED  BY <1>5, <2>2, <2>4, <2>5, <2>6 DEF AllAscending, Ascending, Ahead, InTurn
<1> QED  BY <1>6, <1>7, <1>8 DEF Channels

(* Redis puts a packet behind those of the same connection it has run       *)
(* before.                                                                  *)
LEMMA ChannelsPublish ==
    ASSUME TypeOK, Channels, NEW s \in Servers, Publish(s, "out")
    PROVE  Channels'
<1> DEFINE a == pub[s]["out"]
           p == Head(a)
<1>1. /\ a \in Seq(Packets) /\ a # <<>> /\ pub \in Queues
      /\ \A t \in Servers : sub[t] \in [Topics -> Seq(Packets)]
      /\ \A t \in Servers : sub[t]["out"] \in Seq(Packets)
      /\ sent' = sent /\ at' = at /\ phase' = phase /\ late' = late
  BY DEF Publish, TypeOK, Topics, Queues
<1>2. /\ pub'[s]["out"] = Tail(a)
      /\ \A t \in Servers : t # s => pub'[t]["out"] = pub[t]["out"]
  BY <1>1 DEF Publish, Queues, Topics
<1>3. \A t \in Servers : sub'[t]["out"] \in {sub[t]["out"], Append(sub[t]["out"], p)}
  BY <1>1 DEF Publish, Topics
<1>4. /\ 1 \in DOMAIN a /\ p = a[1]
      /\ \A i \in DOMAIN Tail(a) : i \in Nat /\ i + 1 \in DOMAIN a /\ 1 < i + 1 /\ Tail(a)[i] = a[i + 1]
  BY <1>1
<1>5. /\ Rest(Tail(a), a)
      /\ \A t \in Servers : Rest(pub[t]["out"], pub[t]["out"])
  BY <1>1, RestOf DEF TypeOK, Topics
<1>6. \A t \in Servers : /\ \A i \in DOMAIN pub'[t]["out"] :
                               \E j \in DOMAIN pub[t]["out"] : pub'[t]["out"][i] = pub[t]["out"][j]
                         /\ Ascending(pub'[t]["out"])
  <2>1. \A t \in Servers : Rest(pub'[t]["out"], pub[t]["out"])
    BY <1>2, <1>5
  <2> QED  BY <2>1, RestKeeps DEF Channels, AllAscending
<1>7. p.origin = s /\ Fits(sent, at, p)
  BY <1>4 DEF Channels, Own, AllFit
<1>8. ASSUME NEW t \in Servers, NEW i \in DOMAIN sub'[t]["out"]
      PROVE  \/ i \in DOMAIN sub[t]["out"] /\ sub'[t]["out"][i] = sub[t]["out"][i]
             \/ i = Len(sub[t]["out"]) + 1 /\ sub'[t]["out"][i] = p
  <2> DEFINE q == sub[t]["out"]
  <2>1. q \in Seq(Packets)
    BY <1>1
  <2> HIDE DEF p, q
  <2>2. \A j \in DOMAIN Append(q, p) : \/ j \in DOMAIN q /\ Append(q, p)[j] = q[j]
                                       \/ j = Len(q) + 1 /\ Append(q, p)[j] = p
    BY <2>1
  <2>3. sub'[t]["out"] \in {q, Append(q, p)}
    BY <1>3 DEF q
  <2>4. CASE sub'[t]["out"] = q
    BY <1>8, <2>4 DEF q
  <2>5. CASE sub'[t]["out"] = Append(q, p)
    BY <1>8, <2>2, <2>5 DEF q
  <2> QED  BY <2>3, <2>4, <2>5
<1>9. \A t \in Servers : \A i \in DOMAIN sub[t]["out"] : InTurn(sub[t]["out"][i], p)
  BY <1>4 DEF Channels, AllAscending, Ahead
<1>10. \A i \in DOMAIN Tail(a) : InTurn(p, Tail(a)[i])
  BY <1>4 DEF Channels, AllAscending, Ascending
<1> HIDE DEF p, a
<1>11. Homes' /\ Own'
  <2>1. Homes'
    BY <1>1 DEF Channels, Homes
  <2>2. Own'
    <3>1. \A t \in Servers : \A i \in DOMAIN pub'[t]["out"] : pub'[t]["out"][i].origin = t
      BY <1>6 DEF Channels, Own
    <3>2. \A t \in Servers : \A i \in DOMAIN late[t] : late[t][i].origin = t
      BY DEF Channels, Own
    <3> QED  BY <1>1, <3>1, <3>2 DEF Own
  <2> QED  BY <2>1, <2>2
<1>12. AllFit'
  <2>1. ASSUME NEW t \in Servers, NEW i \in DOMAIN sub'[t]["out"]
        PROVE  Fits(sent, at, sub'[t]["out"][i])
    BY <1>7, <1>8 DEF Channels, AllFit
  <2>2. ASSUME NEW t \in Servers, NEW i \in DOMAIN pub'[t]["out"]
        PROVE  Fits(sent, at, pub'[t]["out"][i])
    BY <1>6 DEF Channels, AllFit
  <2>3. \A t \in Servers : \A i \in DOMAIN late[t] : Fits(sent, at, late[t][i])
    BY DEF Channels, AllFit
  <2> QED  BY <1>1, <2>1, <2>2, <2>3 DEF AllFit
<1>13. ASSUME NEW t \in Servers PROVE Ascending(sub'[t]["out"])
  <2>1. ASSUME NEW i \in DOMAIN sub'[t]["out"], NEW j \in DOMAIN sub'[t]["out"], i < j
        PROVE  InTurn(sub'[t]["out"][i], sub'[t]["out"][j])
    <3>0. DOMAIN sub[t]["out"] = 1..Len(sub[t]["out"]) /\ Len(sub[t]["out"]) \in Nat
      BY <1>1
    <3>1. CASE i \in DOMAIN sub[t]["out"] /\ sub'[t]["out"][i] = sub[t]["out"][i]
      BY <1>8, <1>9, <2>1, <3>1 DEF Channels, AllAscending, Ascending
    <3>2. CASE i = Len(sub[t]["out"]) + 1
      <4>1. j \in DOMAIN sub[t]["out"] \/ j = Len(sub[t]["out"]) + 1
        BY <1>8
      <4> QED  BY <2>1, <3>0, <3>2, <4>1
    <3> QED  BY <1>8, <3>1, <3>2
  <2> QED  BY <2>1 DEF Ascending
<1>14. ASSUME NEW u \in Servers, NEW t \in Servers,
              NEW i \in DOMAIN sub'[t]["out"], NEW j \in DOMAIN pub'[u]["out"]
       PROVE  InTurn(sub'[t]["out"][i], pub'[u]["out"][j])
  <2>1. CASE sub'[t]["out"][i] = p
    <3>1. CASE u = s
      BY <1>2, <1>10, <2>1, <3>1
    <3>2. CASE u # s
      <4>1. pub'[u]["out"][j].origin = u
        BY <1>11 DEF Own
      <4> QED  BY <1>7, <2>1, <3>2, <4>1 DEF InTurn
    <3> QED  BY <3>1, <3>2
  <2>2. CASE i \in DOMAIN sub[t]["out"] /\ sub'[t]["out"][i] = sub[t]["out"][i]
    <3>1. PICK k \in DOMAIN pub[u]["out"] : pub'[u]["out"][j] = pub[u]["out"][k]
      BY <1>6
    <3> QED  BY <2>2, <3>1 DEF Channels, AllAscending, Ahead
  <2> QED  BY <1>8, <2>1, <2>2
<1>b. ASSUME NEW u \in Servers, NEW t \in Servers,
             NEW i \in DOMAIN sub'[t]["out"], NEW j \in DOMAIN late[u]
      PROVE  InTurn(sub'[t]["out"][i], late[u][j])
  <2>1. CASE sub'[t]["out"][i] = p
    <3>1. CASE u = s
      BY <1>4, <2>1, <3>1 DEF Channels, AllAscending, Ahead, a
    <3>2. CASE u # s
      <4>1. late[u][j].origin = u
        BY DEF Channels, Own
      <4> QED  BY <1>7, <2>1, <3>2, <4>1 DEF InTurn
    <3> QED  BY <3>1, <3>2
  <2>2. CASE i \in DOMAIN sub[t]["out"] /\ sub'[t]["out"][i] = sub[t]["out"][i]
    BY <2>2 DEF Channels, AllAscending, Ahead
  <2> QED  BY <1>8, <2>1, <2>2
<1>15. AllAscending'
  <2>1. \A t \in Servers : /\ Ascending(pub'[t]["out"])
                           /\ Ascending(sub'[t]["out"])
                           /\ Ascending(late[t])
    BY <1>6, <1>13 DEF Channels, AllAscending
  <2>2. \A t \in Servers : Ahead(pub'[t]["out"], late[t])
    BY <1>6 DEF Channels, AllAscending, Ahead
  <2>3. \A t, u \in Servers : /\ Ahead(sub'[t]["out"], pub'[u]["out"])
                              /\ Ahead(sub'[t]["out"], late[u])
    BY <1>14, <1>b DEF Ahead
  <2> QED  BY <1>1, <2>1, <2>2, <2>3 DEF AllAscending, Ascending, Ahead, InTurn
<1> QED  BY <1>11, <1>12, <1>15 DEF Channels

LEMMA HomesNext == TypeOK /\ Homes /\ [Next]_vars => Homes'
<1> SUFFICES ASSUME TypeOK, Homes, [Next]_vars, NEW c \in Clients, at'[c] \in Servers
             PROVE  phase'[at'[c]] = "open"
  BY DEF Homes
<1>p. /\ at \in [Clients -> Servers \cup {None, Gone}] /\ Gone \notin Servers
      /\ phase \in [Servers -> {"closed", "subscribing", "open", "stopped", "crashed"}]
      /\ at[c] \in Servers => phase[at[c]] = "open"
  BY MessagingAssumption DEF TypeOK, Homes
<1>1. ASSUME at' = at, phase' = phase PROVE phase'[at'[c]] = "open"
  BY <1>p, <1>1
<1>2. ASSUME NEW s \in Servers, Lifecycle(s) PROVE phase'[at'[c]] = "open"
  <2>1. CASE SubscribeOut(s) \/ SubscribeGlobal(s)
    BY <1>p, <2>1 DEF SubscribeOut, SubscribeGlobal
  <2>2. CASE Stop(s) \/ Crash(s)
    <3>1. at'[c] = at[c] /\ at[c] # s
      BY <1>p, <2>2 DEF Stop, Crash, Drop
    <3> QED  BY <1>p, <2>2, <3>1 DEF Stop, Crash
  <2>3. CASE \E d \in Clients : Connect(d, s)
    BY <1>p, <2>3 DEF Connect
  <2> QED  BY <1>2, <2>1, <2>2, <2>3 DEF Lifecycle
<1>3. ASSUME NEW s \in Servers, Application(s) PROVE at' = at /\ phase' = phase
  BY <1>3 DEF Application, Send, SendList, Broadcast, BroadcastGlobal
<1>4. ASSUME NEW s \in Servers, Transport(s)
      PROVE  Crash(s) \/ (at' = at /\ phase' = phase)
  BY <1>4 DEF Transport, Forward, Publish, OnMessageOut, OnMessageGlobal,
              OnMessageGlobalThrows, Take
<1>5. ASSUME NEW d \in Clients, Disconnect(d) PROVE phase'[at'[c]] = "open"
  BY <1>p, <1>5 DEF Disconnect
<1>6. CASE UNCHANGED vars
  BY <1>1, <1>6 DEF vars
<1> QED  BY <1>1, <1>2, <1>3, <1>4, <1>5, <1>6 DEF Next, Lifecycle

LEMMA ChannelsNext == TypeOK /\ AllRouted /\ Channels /\ [Next]_vars => Channels'
<1> SUFFICES ASSUME TypeOK, AllRouted, Channels, [Next]_vars PROVE Channels'
  OBVIOUS
<1>h. Homes'
  BY HomesNext DEF Channels
<1>p. /\ pub \in Queues /\ sub \in Queues /\ at \in [Clients -> Servers \cup {None, Gone}]
      /\ Gone \notin Servers /\ None \notin Servers /\ None \notin Clients
      /\ "out" \in Topics /\ "global" \in Topics
      /\ \A s \in Servers : /\ pub[s]["out"] \in Seq(Packets) /\ sub[s]["out"] \in Seq(Packets)
                            /\ late[s] \in Seq(Packets)
  BY MessagingAssumption DEF TypeOK, Queues, Topics
<1>r. \A s \in Servers :
         /\ Rest(pub[s]["out"], pub[s]["out"]) /\ Rest(sub[s]["out"], sub[s]["out"])
         /\ Rest(<<>>, pub[s]["out"]) /\ Rest(<<>>, sub[s]["out"])
         /\ sub[s]["out"] # <<>> => Rest(Tail(sub[s]["out"]), sub[s]["out"])
         /\ Rest(late[s], late[s]) /\ Rest(<<>>, late[s])
         /\ late[s] # <<>> => Rest(Tail(late[s]), late[s])
  BY <1>p, RestOf
<1>0. ASSUME \A m \in DOMAIN sent : m \in DOMAIN sent' /\ sent'[m] = sent[m],
             \A s \in Servers : pub'[s]["out"] \in {pub[s]["out"], <<>>},
             \A s \in Servers : late'[s] \in {late[s], <<>>},
             \A s \in Servers : \/ sub'[s]["out"] \in {sub[s]["out"], <<>>}
                                \/ /\ sub[s]["out"] # <<>>
                                   /\ sub'[s]["out"] = Tail(sub[s]["out"]),
             \A c \in Clients : at[c] # None => at'[c] \in {at[c], Gone}
      PROVE  Channels'
  <2>1. \A s \in Servers : Rest(pub'[s]["out"], pub[s]["out"])
    BY <1>0, <1>r
  <2>2. \A s \in Servers : Rest(sub'[s]["out"], sub[s]["out"])
    BY <1>0, <1>r
  <2>3. \A s \in Servers : Rest(late'[s], late[s])
    BY <1>0, <1>r
  <2> QED  BY <1>0, <1>h, <2>1, <2>2, <2>3, ChannelsShrink
<1>1. ASSUME NEW s \in Servers, Lifecycle(s) PROVE Channels'
  <2>0. sent' = sent
    BY <1>1 DEF Lifecycle, SubscribeOut, SubscribeGlobal, Stop, Crash, Connect
  <2>1. CASE SubscribeOut(s) \/ SubscribeGlobal(s)
    BY <1>0, <2>0, <2>1 DEF SubscribeOut, SubscribeGlobal
  <2>2. CASE Stop(s) \/ Crash(s)
    <3> DEFINE none == [k \in Topics |-> <<>>]
    <3>1. none["out"] = <<>>
      BY <1>p
    <3> HIDE DEF none
    <3>2. /\ pub' = pub \/ pub' = [pub EXCEPT ![s] = none]
          /\ sub' = [sub EXCEPT ![s] = none]
          /\ late' = [late EXCEPT ![s] = <<>>] /\ late \in [Servers -> Seq(Packets)]
      BY <2>2 DEF Stop, Crash, TypeOK, none
    <3>3. \A t \in Servers : /\ sub'[t]["out"] \in {sub[t]["out"], <<>>}
                             /\ pub'[t]["out"] \in {pub[t]["out"], <<>>}
                             /\ late'[t] \in {late[t], <<>>}
      BY <1>p, <3>1, <3>2 DEF Queues
    <3>4. \A c \in Clients : at'[c] \in {at[c], Gone}
      BY <1>p, <2>2 DEF Stop, Crash, Drop
    <3> QED  BY <1>0, <2>0, <3>3, <3>4
  <2>3. ASSUME NEW d \in Clients, Connect(d, s) PROVE Channels'
    <3>1. \A c \in Clients : at[c] # None => at'[c] = at[c]
      BY <1>p, <2>3 DEF Connect
    <3>2. sub' = sub /\ pub' = pub /\ late' = late
      BY <2>3 DEF Connect
    <3> QED  BY <1>0, <2>0, <3>1, <3>2
  <2> QED  BY <1>1, <2>1, <2>2, <2>3 DEF Lifecycle
<1>2. ASSUME NEW s \in Servers, NEW c \in Known, Send(s, c) PROVE Channels'
  <2> DEFINE p == Packet(NextId, c, s)
  <2>1. /\ sent'[NextId].kind = "one" /\ NextId \in Ids /\ c \in Clients
        /\ \A m \in DOMAIN sent : m \in DOMAIN sent' /\ sent'[m] = sent[m]
    <3>1. c \in Clients /\ {c} \in SUBSET Clients /\ Log("one", s, {c}) /\ "one" \in Kinds
      BY <1>2 DEF Send, Kinds, Known
    <3>2. /\ NextId \in Ids /\ sent'[NextId] = [kind |-> "one", from |-> s, to |-> {c}]
          /\ \A m \in DOMAIN sent : m \in DOMAIN sent' /\ sent'[m] = sent[m]
      BY <3>1, Logging
    <3> QED  BY <3>1, <3>2
  <2>2. p \in Packets /\ p.origin = s /\ p.m = NextId /\ p.to = c
    BY <2>1 DEF Packet, Packets
  <2>3. c \notin On(s) => Fits(sent', at', p)
    BY <1>2, <2>1, <2>2 DEF Send, Fits, Known, On
  <2>4. pub' = pub /\ sub' = sub /\ at' = at /\ phase' = phase
    BY <1>2 DEF Send
  <2>5. CASE c \in On(s)
    <3>1. late' = late
      BY <1>2, <2>5 DEF Send
    <3> QED  BY <1>0, <2>1, <2>4, <3>1
  <2>6. CASE c \notin On(s)
    <3>1. late' = [late EXCEPT ![s] = Append(@, p)]
      BY <1>2, <2>6 DEF Send
    <3> HIDE DEF p
    <3> QED  BY <2>1, <2>2, <2>3, <2>4, <2>6, <3>1, ChannelsDelay
  <2> QED  BY <2>5, <2>6
<1>3. ASSUME NEW s \in Servers, NEW cs \in SUBSET Clients, SendList(s, cs) PROVE Channels'
  <2> DEFINE p == Packet(NextId, NoClient, s)
             q == [i \in 1..Cardinality(cs \ On(s)) |-> p]
  <2>1. /\ NextId \in Ids
        /\ \A m \in DOMAIN sent : m \in DOMAIN sent' /\ sent'[m] = sent[m]
    BY <1>3, Logging DEF SendList, Kinds
  <2>2. q \in Seq(Packets)
    BY <2>1, ListPackets
  <2>3. p.origin = s /\ p.m = NextId /\ p.to \notin Clients
    BY <1>p DEF Packet, NoClient
  <2>4. Issue(s, "out", q) /\ sub' = sub /\ at' = at /\ phase' = phase /\ late' = late
    BY <1>3 DEF SendList
  <2> HIDE DEF p
  <2>5. \A i \in DOMAIN q : q[i] = p
    OBVIOUS
  <2> HIDE DEF q
  <2>6. Ascending(q) /\ \A i \in DOMAIN q : q[i].origin = s /\ Fits(sent', at', q[i])
    BY <2>3, <2>5 DEF Ascending, InTurn, Fits
  <2>7. \A r : Ahead(r, q) /\ Ahead(q, r)
    BY <2>3, <2>5 DEF Ahead, InTurn
  <2> QED  BY <1>r, <2>1, <2>2, <2>4, <2>6, <2>7, ChannelsIssue
<1>4. ASSUME NEW s \in Servers, Broadcast(s) PROVE Channels'
  <2>1. \A m \in DOMAIN sent : m \in DOMAIN sent' /\ sent'[m] = sent[m]
    BY <1>4, Logging DEF Broadcast, Kinds, On
  <2> QED  BY <1>0, <1>4, <2>1 DEF Broadcast
<1>5. ASSUME NEW s \in Servers, BroadcastGlobal(s) PROVE Channels'
  <2>1. \A m \in DOMAIN sent : m \in DOMAIN sent' /\ sent'[m] = sent[m]
    BY <1>5, Logging DEF BroadcastGlobal, Kinds, Connected
  <2>2. /\ sub' = sub /\ at' = at /\ late' = late
        /\ \A t \in Servers : pub'[t]["out"] = pub[t]["out"]
    BY <1>p, <1>5 DEF BroadcastGlobal, Issue, Queues
  <2> QED  BY <1>0, <2>1, <2>2
<1>6. ASSUME NEW s \in Servers, Publish(s, "out") PROVE Channels'
  BY <1>6, ChannelsPublish
<1>7. ASSUME NEW s \in Servers, Publish(s, "global") PROVE Channels'
  <2>1. sent' = sent /\ at' = at /\ late' = late
    BY <1>7 DEF Publish
  <2>2. \A t \in Servers : pub'[t]["out"] = pub[t]["out"]
    BY <1>p, <1>7 DEF Publish, Queues
  <2>3. ASSUME NEW t \in Servers PROVE sub'[t]["out"] = sub[t]["out"]
    <3>1. \/ sub'[t] = sub[t]
          \/ sub'[t] = [sub[t] EXCEPT !["global"] = Append(@, Head(pub[s]["global"]))]
      BY <1>7 DEF Publish
    <3>2. sub[t] \in [Topics -> Seq(Packets)]
      BY <1>p DEF Queues
    <3> QED  BY <1>p, <3>1, <3>2
  <2> QED  BY <1>0, <2>1, <2>2, <2>3
<1>8. ASSUME NEW s \in Servers, NEW k \in Topics, Take(s, k) PROVE Channels'
  <2>1. /\ pub' = pub /\ at' = at /\ sent' = sent /\ late' = late
        /\ \A t \in Servers : \/ sub'[t]["out"] = sub[t]["out"]
                              \/ /\ sub[t]["out"] # <<>>
                                 /\ sub'[t]["out"] = Tail(sub[t]["out"])
    BY <1>p, <1>8 DEF Take, Queues
  <2> QED  BY <1>0, <2>1
<1>9. ASSUME NEW d \in Clients, Disconnect(d) PROVE Channels'
  <2>1. \A c \in Clients : at'[c] \in {at[c], Gone}
    BY <1>p, <1>9 DEF Disconnect
  <2> QED  BY <1>0, <1>9, <2>1 DEF Disconnect
<1>10. CASE UNCHANGED vars
  BY <1>0, <1>10 DEF vars
<1>11. ASSUME NEW s \in Servers, Application(s) PROVE Channels'
  <2>1. Known \subseteq Clients
    BY DEF Known
  <2> QED  BY <1>2, <1>3, <1>4, <1>5, <1>11, <2>1 DEF Application
<1>f. ASSUME NEW s \in Servers, Forward(s) PROVE Channels'
  <2> DEFINE a == late[s]
             q == <<Head(a)>>
  <2>1. /\ a \in Seq(Packets) /\ a # <<>> /\ late' = [late EXCEPT ![s] = Tail(a)]
        /\ Issue(s, "out", q) /\ late \in [Servers -> Seq(Packets)]
        /\ sub' = sub /\ at' = at /\ phase' = phase /\ sent' = sent
    BY <1>f, <1>p DEF Forward, TypeOK
  <2>2. \A t \in Servers : Rest(late'[t], late[t])
    BY <1>r, <2>1
  <2>3. late'[s] = Tail(a)
    BY <2>1
  <2>4. /\ 1 \in DOMAIN a /\ q \in Seq(Packets) /\ DOMAIN q = {1} /\ q[1] = a[1]
        /\ \A i \in DOMAIN Tail(a) : i + 1 \in DOMAIN a /\ 1 < i + 1 /\ Tail(a)[i] = a[i + 1]
    <3> HIDE DEF a
    <3> QED  BY <2>1
  <2>5. a[1].origin = s /\ Fits(sent', at', a[1])
    BY <2>1, <2>4 DEF Channels, Own, AllFit, Fits
  <2> HIDE DEF q
  <2>6. Ascending(q) /\ \A i \in DOMAIN q : q[i].origin = s /\ Fits(sent', at', q[i])
    BY <2>4, <2>5 DEF Ascending
  <2>7. \A r : Ahead(r, a) => Ahead(r, q)
    BY <2>4 DEF Ahead
  <2>8. Ahead(pub[s]["out"], q) /\ \A t \in Servers : Ahead(sub[t]["out"], q)
    BY <2>7 DEF Channels, AllAscending
  <2>9. Ahead(q, late'[s])
    <3>1. ASSUME NEW i \in DOMAIN Tail(a) PROVE InTurn(a[1], Tail(a)[i])
      BY <2>4, <3>1 DEF Channels, AllAscending, Ascending
    <3> QED  BY <2>3, <2>4, <3>1 DEF Ahead
  <2> QED  BY <2>1, <2>2, <2>4, <2>6, <2>8, <2>9, ChannelsIssue
<1>12. ASSUME NEW s \in Servers, Transport(s) PROVE Channels'
  <2>1. ASSUME OnMessageGlobalThrows(s) PROVE Channels'
    BY <1>p, <1>1, <1>8, <2>1 DEF OnMessageGlobalThrows, Lifecycle
  <2> QED  BY <1>p, <1>6, <1>7, <1>8, <1>f, <1>12, <2>1
           DEF Transport, Topics, OnMessageOut, OnMessageGlobal
<1> QED  BY <1>1, <1>9, <1>10, <1>11, <1>12 DEF Next

-------------------------------------------------------------------------------
(* The refinement: the state of Delivery and its steps.                     *)

ForMany == {m \in DOMAIN sent : sent[m].kind # "one"}

Channel == [s \in Servers |-> [c \in Clients |-> Underway(s, c)]]

promised == <<Len(sent), ForMany, Connected, Channel, got>>

OnItsWay(s, c, m) == /\ at[c] \in Servers
                     /\ \/ Bears(sub[at[c]]["out"], s, c, m)
                        \/ Bears(pub[s]["out"], s, c, m)
                        \/ Bears(late[s], s, c, m)

LEMMA UnderwayIs ==
    ASSUME AllRouted, NEW s \in Servers, NEW c \in Clients
    PROVE  \A m : m \in Underway(s, c) <=> OnItsWay(s, c, m)
<1>1. ASSUME NEW m, OnItsWay(s, c, m) PROVE m \in DOMAIN sent
  BY <1>1 DEF OnItsWay, Bears, Packet, AllRouted, Routed, Topics
<1> QED  BY <1>1 DEF Underway, OnItsWay

LEMMA UnderwayNext ==
    ASSUME AllRouted', NEW s \in Servers, NEW c \in Clients
    PROVE  \A m : m \in Underway(s, c)' <=> OnItsWay(s, c, m)'
<1>1. ASSUME NEW m, OnItsWay(s, c, m)' PROVE m \in DOMAIN sent'
  BY <1>1 DEF OnItsWay, Bears, Packet, AllRouted, Routed, Topics
<1> QED  BY <1>1 DEF Underway, OnItsWay

LEMMA ChannelStays ==
    ASSUME AllRouted, AllRouted',
           \A s \in Servers, c \in Clients : \A m : OnItsWay(s, c, m)' <=> OnItsWay(s, c, m)
    PROVE  Channel' = Channel
<1>1. ASSUME NEW s \in Servers, NEW c \in Clients PROVE Underway(s, c)' = Underway(s, c)
  BY UnderwayIs, UnderwayNext
<1> QED  BY <1>1 DEF Channel

LEMMA Numbered ==
    ASSUME TypeOK, NEW kind \in Kinds, NEW s \in Servers, NEW cs \in SUBSET Clients,
           Log(kind, s, cs)
    PROVE  /\ Len(sent) \in Nat /\ Len(sent') = Len(sent) + 1 /\ Len(sent') = NextId
           /\ NextId \notin DOMAIN sent /\ NextId # 0
           /\ ForMany' = IF kind = "one" THEN ForMany ELSE ForMany \cup {NextId}
<1>1. sent \in Seq(Sends) /\ [kind |-> kind, from |-> s, to |-> cs] \in Sends
  BY DEF TypeOK, Sends
<1>2. sent' = Append(sent, [kind |-> kind, from |-> s, to |-> cs])
  BY DEF Log
<1>3. /\ Len(sent) \in Nat /\ DOMAIN sent = 1..Len(sent)
      /\ Len(sent') = Len(sent) + 1 /\ DOMAIN sent' = 1..(Len(sent) + 1)
      /\ \A m \in DOMAIN sent : sent'[m] = sent[m]
      /\ sent'[Len(sent) + 1].kind = kind
  BY <1>1, <1>2
<1>4. \A m \in DOMAIN sent' : m \in DOMAIN sent \/ m = Len(sent) + 1
  BY <1>3
<1>5. DOMAIN sent \subseteq DOMAIN sent' /\ Len(sent) + 1 \in DOMAIN sent'
  BY <1>3
<1>6. ForMany' = IF kind = "one" THEN ForMany ELSE ForMany \cup {Len(sent) + 1}
  <2>1. Len(sent) + 1 \notin DOMAIN sent
    BY <1>3
  <2> DEFINE n == Len(sent) + 1
  <2> HIDE DEF n
  <2> QED  BY <1>3, <1>4, <1>5, <2>1 DEF ForMany, n
<1> QED  BY <1>3, <1>6 DEF NextId

(* Nobody has been handed the next message.                                 *)
LEMMA NobodyHas == AllFor /\ NextId \notin DOMAIN sent /\ NextId # 0
                      => \A c \in Clients : ~Has(c, NextId)
BY DEF AllFor, For, Has, Ident, Garbled

(* Clients that go. *)
LEMMA Leaves ==
    ASSUME TypeOK, AllRouted, AllRouted', sent' = sent, got' = got,
           NEW cs \in SUBSET Clients, cs \subseteq Connected,
           \A c \in Clients : at'[c] = IF c \in cs THEN Gone ELSE at[c],
           \A s \in Servers, c \in Clients \ cs : \A m :
               OnItsWay(s, c, m)' <=> OnItsWay(s, c, m)
    PROVE  Promise!Leave(cs)
<1>1. Connected' = Connected \ cs
  BY MessagingAssumption DEF Connected
<1>2. ForMany' = ForMany
  BY DEF ForMany
<1>3. ASSUME NEW s \in Servers, NEW c \in Clients
      PROVE  Underway(s, c)' = IF c \in cs THEN {} ELSE Underway(s, c)
  <2>1. CASE c \in cs
    <3>1. \A m : ~OnItsWay(s, c, m)'
      BY <2>1, MessagingAssumption DEF OnItsWay
    <3> QED  BY <2>1, <3>1, UnderwayNext
  <2>2. CASE c \notin cs
    BY <2>2, UnderwayIs, UnderwayNext
  <2> QED  BY <2>1, <2>2
<1> QED  BY <1>1, <1>2, <1>3 DEF Promise!Leave, ForMany

(* What is known of a packet that bears m to c. *)
LEMMA BornFit ==
    ASSUME Channels, AllRouted, NEW s \in Servers, NEW c \in Clients, NEW m
    PROVE  /\ Bears(pub[s]["out"], s, c, m) \/ Bears(late[s], s, c, m) =>
                  /\ at[c] \notin {None, s}
                  /\ m \in DOMAIN sent /\ sent[m].kind = "one"
           /\ \A t \in Servers : Bears(sub[t]["out"], s, c, m) =>
                  /\ at[c] \notin {None, s}
                  /\ m \in DOMAIN sent /\ sent[m].kind = "one"
<1> DEFINE p == Packet(m, c, s)
<1>1. p.to = c /\ p.origin = s /\ p.m = m
  BY DEF Packet
<1>2. ASSUME NEW q, NEW t \in Servers, q \in {pub[t]["out"], sub[t]["out"], late[t]},
             Bears(q, s, c, m)
      PROVE  at[c] \notin {None, s} /\ m \in DOMAIN sent /\ sent[m].kind = "one"
  <2>1. PICK i \in DOMAIN q : q[i] = p
    BY <1>2 DEF Bears
  <2>2. Fits(sent, at, p) /\ Routed(sent, "out", p)
    BY <1>2, <2>1 DEF Channels, AllFit, AllRouted, Topics
  <2> HIDE DEF p
  <2> QED  BY <1>1, <2>2 DEF Fits, Routed
<1> QED  BY <1>2

LEMMA ConnectEnters ==
    ASSUME TypeOK, AllRouted, AllRouted', Channels, Untouched,
           NEW s \in Servers, NEW c \in Clients, Connect(c, s)
    PROVE  Promise!Enter(c)
<1>1. /\ at \in [Clients -> Servers \cup {None, Gone}] /\ None \notin Servers
      /\ at[c] = None /\ at' = [at EXCEPT ![c] = s] /\ got[c] = <<>>
      /\ pub' = pub /\ sub' = sub /\ late' = late /\ sent' = sent
      /\ got \in [Clients -> Seq(Items)]
  BY MessagingAssumption DEF TypeOK, Connect, Untouched, Items
<1>2. c \notin Connected /\ Connected' = Connected \cup {c}
  BY <1>1 DEF Connected
<1>3. got' = got \/ got' = [got EXCEPT ![c] = <<Ident>>]
  <2>1. CASE layer = "raw"
    BY <1>1, <2>1 DEF Connect, Hand
  <2>2. CASE layer # "raw"
    <3>1. got' = [x \in Clients |-> IF x \in {c} THEN Append(got[x], Ident) ELSE got[x]]
      BY <2>2 DEF Connect, Hand
    <3>2. Append(got[c], Ident) = <<Ident>>
      BY <1>1
    <3> QED  BY <1>1, <3>1, <3>2
  <2> QED  BY <2>1, <2>2
<1>4. ASSUME NEW o \in Servers, NEW d \in Clients, NEW m
      PROVE  OnItsWay(o, d, m)' <=> OnItsWay(o, d, m)
  <2>1. CASE d # c
    BY <1>1, <2>1 DEF OnItsWay
  <2>2. CASE d = c
    <3>1. /\ ~Bears(sub[s]["out"], o, c, m)
          /\ ~Bears(pub[o]["out"], o, c, m) /\ ~Bears(late[o], o, c, m)
      BY <1>1, BornFit
    <3> QED  BY <1>1, <2>2, <3>1 DEF OnItsWay
  <2> QED  BY <2>1, <2>2
<1>5. Channel' = Channel /\ ForMany' = ForMany
  BY <1>1, <1>4, ChannelStays DEF ForMany
<1> QED  BY <1>1, <1>2, <1>3, <1>5
         DEF Promise!Enter, Promise!NoMessage, Ident, Channel, ForMany

LEMMA DisconnectLeaves ==
    ASSUME TypeOK, AllRouted, AllRouted', NEW c \in Clients, Disconnect(c)
    PROVE  Promise!Leave({c})
<1>1. /\ at \in [Clients -> Servers \cup {None, Gone}] /\ at' = [at EXCEPT ![c] = Gone]
      /\ at[c] \in Servers /\ late' = late /\ pub' = pub /\ sub' = sub
      /\ sent' = sent /\ got' = got
  BY DEF TypeOK, Disconnect
<1>2. {c} \subseteq Connected
  BY <1>1 DEF Connected
<1>3. \A d \in Clients : at'[d] = IF d \in {c} THEN Gone ELSE at[d]
  BY <1>1
<1>4. \A s \in Servers, d \in Clients \ {c} : \A m : OnItsWay(s, d, m)' <=> OnItsWay(s, d, m)
  BY <1>1 DEF OnItsWay
<1> QED  BY <1>1, <1>2, <1>3, <1>4, Leaves

(* Of what a server has sent that ends, that is kept which is ahead.        *)
LEMMA Dies ==
    ASSUME TypeOK, AllRouted, NEW s \in Servers,
           NEW kept \in [Clients -> SUBSET (1..Len(sent))],
           sent' = sent, got' = got,
           \A c \in Clients : at'[c] = IF c \in On(s) THEN Gone ELSE at[c],
           \A t \in Servers : t # s => sub'[t] = sub[t] /\ pub'[t] = pub[t] /\ late'[t] = late[t],
           \A c \in Clients \ On(s) :
               /\ kept[c] \subseteq Underway(s, c)
               /\ \A m \in Underway(s, c) \ kept[c], n \in kept[c] : n < m
               /\ Underway(s, c)' = kept[c]
    PROVE  Promise!Die(s, On(s), kept)
<1>1. On(s) \subseteq Connected /\ Gone \notin Servers
  BY MessagingAssumption DEF On, Connected
<1>2. Connected' = Connected \ On(s) /\ ForMany' = ForMany
  BY <1>1 DEF Connected, ForMany
<1>3. ASSUME NEW t \in Servers, NEW c \in Clients
      PROVE  Underway(t, c)' = IF c \in On(s) THEN {}
                               ELSE IF t = s THEN kept[c] ELSE Underway(t, c)
  <2>1. CASE c \in On(s)
    BY <1>1, <2>1 DEF Underway
  <2>2. CASE c \notin On(s) /\ t = s
    BY <2>2
  <2>3. CASE c \notin On(s) /\ t # s
    BY <2>3 DEF Underway, On
  <2> QED  BY <2>1, <2>2, <2>3
<1> QED  BY <1>1, <1>2, <1>3 DEF Promise!Die, ForMany

(* Ahead of what a server has still to publish is what it has published.    *)
LEMMA StopDies ==
    ASSUME TypeOK, AllRouted, Channels, NEW s \in Servers, Stop(s)
    PROVE  \E kept \in [Clients -> SUBSET (1..Len(sent))] : Promise!Die(s, On(s), kept)
<1> DEFINE Near(c, m) == /\ at[c] \in Servers
                         /\ \/ Bears(sub[at[c]]["out"], s, c, m)
                            \/ Bears(pub[s]["out"], s, c, m)
           kept == [c \in Clients |-> {m \in 1..Len(sent) : Near(c, m)}]
<1>1. /\ sent' = sent /\ got' = got /\ pub' = pub
      /\ \A t \in Servers : t # s => sub'[t] = sub[t] /\ pub'[t] = pub[t] /\ late'[t] = late[t]
      /\ late'[s] = <<>>
  BY DEF TypeOK, Stop
<1>2. \A d \in Clients : at'[d] = IF d \in On(s) THEN Gone ELSE at[d]
  BY DEF Stop, Drop, On
<1>3. DOMAIN sent = 1..Len(sent)
  BY DEF TypeOK
<1>4. kept \in [Clients -> SUBSET (1..Len(sent))]
  OBVIOUS
<1>5. \A c \in Clients, m \in DOMAIN sent : m \in kept[c] <=> Near(c, m)
  BY <1>3
<1> HIDE DEF kept
<1>6. ASSUME NEW c \in Clients \ On(s)
      PROVE  /\ kept[c] \subseteq Underway(s, c)
             /\ \A m \in Underway(s, c) \ kept[c], n \in kept[c] : n < m
             /\ Underway(s, c)' = kept[c]
  <2>1. kept[c] \subseteq Underway(s, c)
    BY <1>3, <1>4, <1>5 DEF Underway
  <2>2. ASSUME NEW m \in Underway(s, c) \ kept[c], NEW n \in kept[c] PROVE n < m
    <3>1. m \in DOMAIN sent /\ n \in DOMAIN sent /\ at[c] \in Servers
      BY <1>3, <1>4 DEF Underway
    <3>2. Bears(late[s], s, c, m)
      BY <1>5, <2>2, <3>1 DEF Underway
    <3>3. Bears(sub[at[c]]["out"], s, c, n) \/ Bears(pub[s]["out"], s, c, n)
      BY <1>5, <2>2, <3>1
    <3>4. InTurn(Packet(n, c, s), Packet(m, c, s))
      BY <3>1, <3>2, <3>3 DEF Bears, Channels, AllAscending, Ahead
    <3> QED  BY <3>4 DEF InTurn, Packet
  <2>3. Underway(s, c)' = kept[c]
    <3>1. \A m \in DOMAIN sent : m \in Underway(s, c)' <=> m \in kept[c]
      BY <1>1, <1>2, <1>5 DEF Underway, On, Bears
    <3>2. kept[c] \subseteq DOMAIN sent /\ Underway(s, c)' \subseteq DOMAIN sent
      BY <1>1, <1>3, <1>4 DEF Underway
    <3> QED  BY <3>1, <3>2
  <2> QED  BY <2>1, <2>2, <2>3
<1>7. Promise!Die(s, On(s), kept)
  BY <1>1, <1>2, <1>4, <1>6, Dies
<1> QED  BY <1>4, <1>7

(* Of what a server that crashes has sent, that arrives which Redis has run. *)
LEMMA CrashDies ==
    ASSUME TypeOK, AllRouted, Channels, NEW s \in Servers, Crash(s)
    PROVE  \E kept \in [Clients -> SUBSET (1..Len(sent))] : Promise!Die(s, On(s), kept)
<1> DEFINE Near(c, m) == at[c] \in Servers /\ Bears(sub[at[c]]["out"], s, c, m)
           kept == [c \in Clients |-> {m \in 1..Len(sent) : Near(c, m)}]
           none == [k \in Topics |-> <<>>]
<1>1. /\ sent' = sent /\ got' = got
      /\ \A t \in Servers : t # s => sub'[t] = sub[t] /\ pub'[t] = pub[t] /\ late'[t] = late[t]
      /\ late'[s] = <<>> /\ pub'[s]["out"] = <<>>
  <2>1. none["out"] = <<>>
    BY DEF Topics
  <2>2. sub' = [sub EXCEPT ![s] = none] /\ pub' = [pub EXCEPT ![s] = none]
    BY DEF Crash
  <2> HIDE DEF none
  <2> QED  BY <2>1, <2>2 DEF TypeOK, Crash
<1>2. \A d \in Clients : at'[d] = IF d \in On(s) THEN Gone ELSE at[d]
  BY DEF Crash, Drop, On
<1>3. DOMAIN sent = 1..Len(sent)
  BY DEF TypeOK
<1>4. kept \in [Clients -> SUBSET (1..Len(sent))]
  OBVIOUS
<1>5. \A c \in Clients, m \in DOMAIN sent : m \in kept[c] <=> Near(c, m)
  BY <1>3
<1> HIDE DEF kept, none
<1>6. ASSUME NEW c \in Clients \ On(s)
      PROVE  /\ kept[c] \subseteq Underway(s, c)
             /\ \A m \in Underway(s, c) \ kept[c], n \in kept[c] : n < m
             /\ Underway(s, c)' = kept[c]
  <2>1. kept[c] \subseteq Underway(s, c)
    BY <1>3, <1>4, <1>5 DEF Underway
  <2>2. ASSUME NEW m \in Underway(s, c) \ kept[c], NEW n \in kept[c] PROVE n < m
    <3>1. m \in DOMAIN sent /\ n \in DOMAIN sent /\ at[c] \in Servers
      BY <1>3, <1>4 DEF Underway
    <3>2. /\ Bears(pub[s]["out"], s, c, m) \/ Bears(late[s], s, c, m)
          /\ Bears(sub[at[c]]["out"], s, c, n)
      BY <1>5, <2>2, <3>1 DEF Underway
    <3>3. InTurn(Packet(n, c, s), Packet(m, c, s))
      BY <3>1, <3>2 DEF Bears, Channels, AllAscending, Ahead
    <3> QED  BY <3>3 DEF InTurn, Packet
  <2>3. Underway(s, c)' = kept[c]
    <3>1. \A m \in DOMAIN sent : m \in Underway(s, c)' <=> m \in kept[c]
      BY <1>1, <1>2, <1>5 DEF Underway, On, Bears
    <3>2. kept[c] \subseteq DOMAIN sent /\ Underway(s, c)' \subseteq DOMAIN sent
      BY <1>1, <1>3, <1>4 DEF Underway
    <3> QED  BY <3>1, <3>2
  <2> QED  BY <2>1, <2>2, <2>3
<1>7. Promise!Die(s, On(s), kept)
  BY <1>1, <1>2, <1>4, <1>6, Dies
<1> QED  BY <1>4, <1>7

LEMMA SendPosts ==
    ASSUME TypeOK, AllRouted, AllRouted', Channels, NEW s \in Servers, NEW c \in Known, Send(s, c)
    PROVE  Promise!Post(s, c)
<1>1. /\ c \in Clients /\ at[c] # None /\ at[c] \in Servers \cup {None, Gone}
      /\ pub' = pub /\ sub' = sub /\ at' = at /\ late \in [Servers -> Seq(Packets)]
      /\ Hand({c} \cap On(s), NextId)
      /\ late' = IF c \in On(s) THEN late
                 ELSE [late EXCEPT ![s] = Append(@, Packet(NextId, c, s))]
  BY DEF TypeOK, Send, Known
<1>2. Log("one", s, {c}) /\ "one" \in Kinds /\ {c} \in SUBSET Clients
  BY <1>1 DEF Send, Kinds
<1>3. /\ Len(sent') = Len(sent) + 1 /\ Len(sent') = NextId /\ ForMany' = ForMany
      /\ NextId \notin DOMAIN sent
  BY <1>2, Numbered
<1>4. Connected' = Connected
  BY <1>1 DEF Connected
<1>7. CASE c \in On(s)
  <2>1. got' = [got EXCEPT ![c] = Append(@, NextId)]
    <3>1. got \in [Clients -> Seq(Items)]
      BY DEF TypeOK, Items
    <3> QED  BY <1>1, <1>7, <3>1 DEF Hand
  <2>3. \A o \in Servers, d \in Clients : \A m : OnItsWay(o, d, m)' <=> OnItsWay(o, d, m)
    BY <1>1, <1>7 DEF OnItsWay
  <2>4. Channel' = Channel
    BY <2>3, ChannelStays
  <2>5. Underway(s, c) = {}
    <3>1. \A m : ~OnItsWay(s, c, m)
      BY <1>1, <1>7, BornFit DEF OnItsWay, On
    <3> QED  BY <1>1, <3>1, UnderwayIs
  <2>6. c \in Connected
    BY <1>1, <1>7 DEF Connected, On
  <2> QED  BY <1>1, <1>3, <1>4, <2>1, <2>4, <2>5, <2>6 DEF Promise!Post, Channel, ForMany
<1>8. CASE c \notin On(s)
  <2>1. got' = got
    <3>1. got \in [Clients -> Seq(Items)]
      BY DEF TypeOK, Items
    <3> QED  BY <1>1, <1>8, <3>1 DEF Hand
  <2> DEFINE p == Packet(NextId, c, s)
             a == late[s]
  <2>2. late'[s] = Append(a, p) /\ \A t \in Servers : t # s => late'[t] = late[t]
    BY <1>1, <1>8
  <2>3. ASSUME NEW d \in Clients, NEW m
        PROVE  Bears(late'[s], s, d, m) <=> Bears(a, s, d, m) \/ (d = c /\ m = NextId)
    <3>1. Packet(m, d, s) = p <=> d = c /\ m = NextId
      BY DEF Packet
    <3> HIDE DEF p
    <3>2. a \in Seq(Packets)
      BY <1>1
    <3> HIDE DEF a
    <3>3. /\ \A i \in DOMAIN a : i \in DOMAIN Append(a, p) /\ Append(a, p)[i] = a[i]
          /\ Len(a) + 1 \in DOMAIN Append(a, p) /\ Append(a, p)[Len(a) + 1] = p
          /\ \A i \in DOMAIN Append(a, p) : i \in DOMAIN a \/ i = Len(a) + 1
      BY <3>2
    <3> QED  BY <2>2, <3>1, <3>3 DEF Bears
  <2>4. ASSUME NEW o \in Servers, NEW d \in Clients
        PROVE  Underway(o, d)' = IF o = s /\ d = c /\ c \in Connected
                                 THEN Underway(s, c) \cup {NextId} ELSE Underway(o, d)
    <3>1. ASSUME NEW m
          PROVE  OnItsWay(o, d, m)' <=>
                    \/ OnItsWay(o, d, m)
                    \/ o = s /\ d = c /\ c \in Connected /\ m = NextId
      BY <1>1, <2>2, <2>3 DEF OnItsWay, Connected
    <3> QED  BY <3>1, UnderwayIs, UnderwayNext
  <2>5. CASE c \in Connected
    <3>1. Channel' = [Channel EXCEPT ![s][c] = @ \cup {NextId}]
      BY <1>1, <2>4, <2>5 DEF Channel
    <3> QED  BY <1>3, <1>4, <2>1, <2>5, <3>1 DEF Promise!Post, Channel, ForMany
  <2>6. CASE c \notin Connected
    <3>1. Channel' = Channel
      BY <2>4, <2>6 DEF Channel
    <3> QED  BY <1>3, <1>4, <2>1, <2>6, <3>1 DEF Promise!Post, Channel, ForMany
  <2> QED  BY <2>5, <2>6
<1> QED  BY <1>7, <1>8

(* Packets that name no client are on their way to nobody.                  *)
LEMMA SendListCasts ==
    ASSUME TypeOK, AllRouted, AllRouted', AllFor,
           NEW s \in Servers, NEW cs \in SUBSET Clients, SendList(s, cs)
    PROVE  \E ds \in SUBSET Clients : Promise!Cast(ds)
<1> DEFINE q == [i \in 1..Cardinality(cs \ On(s)) |-> Packet(NextId, NoClient, s)]
           a == pub[s]["out"]
<1>1. /\ sub' = sub /\ at' = at /\ late' = late /\ pub \in Queues /\ a \in Seq(Packets)
      /\ Hand(cs \cap On(s), NextId) /\ Issue(s, "out", q)
      /\ Log("list", s, cs) /\ "list" \in Kinds /\ NextId \in Ids
  BY DEF TypeOK, Queues, Topics, SendList, Log, Kinds
<1>2. /\ Len(sent') = Len(sent) + 1 /\ Len(sent') = NextId
      /\ ForMany' = ForMany \cup {NextId} /\ NextId \notin DOMAIN sent /\ NextId # 0
  BY <1>1, Numbered
<1>3. q \in Seq(Packets)
  BY <1>1, ListPackets
<1>4. \A i \in DOMAIN q : q[i].to \notin Clients
  BY MessagingAssumption DEF Packet, NoClient
<1>5. /\ pub'[s]["out"] = a \o q
      /\ \A t \in Servers : t # s => pub'[t]["out"] = pub[t]["out"]
  BY <1>1 DEF Issue, Queues, Topics
<1> HIDE DEF q, a
<1>6. \A d \in Clients : \A m : Bears(pub'[s]["out"], s, d, m) <=> Bears(a, s, d, m)
  <2>1. /\ \A i \in DOMAIN a : i \in DOMAIN (a \o q) /\ (a \o q)[i] = a[i]
        /\ \A i \in DOMAIN (a \o q) : \/ i \in DOMAIN a /\ (a \o q)[i] = a[i]
                                      \/ \E j \in DOMAIN q : (a \o q)[i] = q[j]
    BY <1>1, <1>3
  <2> QED  BY <1>4, <1>5, <2>1 DEF Bears, Packet
<1>7. \A o \in Servers, d \in Clients : \A m : OnItsWay(o, d, m)' <=> OnItsWay(o, d, m)
  BY <1>1, <1>5, <1>6 DEF OnItsWay, a
<1>8. Channel' = Channel
  BY <1>7, ChannelStays
<1>9. Connected' = Connected /\ cs \cap On(s) \subseteq Connected
  BY <1>1 DEF Connected, On
<1>10. \A c \in Clients : ~Has(c, NextId)
  BY <1>2, NobodyHas
<1>11. PICK ds \in SUBSET Clients : ds = cs \cap On(s)
  OBVIOUS
<1>12. Promise!HandOut(NextId, ds)
  BY <1>1, <1>9, <1>10, <1>11 DEF Promise!HandOut, Promise!Has, Has, Hand
<1>13. Promise!Cast(ds)
  BY <1>2, <1>8, <1>9, <1>12 DEF Promise!Cast, Channel, ForMany
<1> QED  BY <1>13

LEMMA BroadcastCasts ==
    ASSUME TypeOK, AllRouted, AllRouted', AllFor, NEW s \in Servers, Broadcast(s)
    PROVE  \E ds \in SUBSET Clients : Promise!Cast(ds)
<1>1. /\ sub' = sub /\ at' = at /\ pub' = pub /\ late' = late
      /\ Hand(On(s), NextId) \/ Hand(On(s), Garbled)
      /\ Log("local", s, On(s)) /\ "local" \in Kinds /\ On(s) \in SUBSET Clients
  BY DEF Broadcast, Kinds, On
<1>2. /\ Len(sent') = Len(sent) + 1 /\ Len(sent') = NextId
      /\ ForMany' = ForMany \cup {NextId} /\ NextId \notin DOMAIN sent /\ NextId # 0
  BY <1>1, Numbered
<1>3. Channel' = Channel
  <2>1. \A o \in Servers, d \in Clients : \A m : OnItsWay(o, d, m)' <=> OnItsWay(o, d, m)
    BY <1>1 DEF OnItsWay
  <2> QED  BY <2>1, ChannelStays
<1>4. Connected' = Connected /\ On(s) \subseteq Connected
  BY <1>1 DEF Connected, On
<1>5. \A c \in Clients : ~Has(c, NextId)
  BY <1>2, NobodyHas
<1>6. PICK ds \in SUBSET Clients : ds = On(s)
  BY <1>1
<1>7. Promise!HandOut(NextId, ds) \/ Promise!HandOut(Promise!NoMessage, ds)
  <2>1. CASE Hand(On(s), NextId)
    BY <1>1, <1>4, <1>5, <1>6, <2>1 DEF Promise!HandOut, Promise!Has, Has, Hand
  <2>2. CASE Hand(On(s), Garbled)
    BY <1>1, <1>4, <1>6, <2>2 DEF Promise!HandOut, Promise!NoMessage, Garbled, Hand
  <2> QED  BY <1>1, <2>1, <2>2
<1>8. Promise!Cast(ds)
  BY <1>2, <1>3, <1>4, <1>7 DEF Promise!Cast, Channel, ForMany
<1> QED  BY <1>8

(* A global broadcast reaches nobody before Redis has run it.               *)
LEMMA BroadcastGlobalCasts ==
    ASSUME TypeOK, AllRouted, AllRouted', NEW s \in Servers, BroadcastGlobal(s)
    PROVE  Promise!Cast({})
<1>1. /\ sub' = sub /\ at' = at /\ got' = got /\ late' = late /\ pub \in Queues
      /\ Log("global", s, Connected) /\ "global" \in Kinds /\ Connected \in SUBSET Clients
  BY DEF TypeOK, Queues, BroadcastGlobal, Kinds, Connected
<1>2. /\ Len(sent') = Len(sent) + 1 /\ Len(sent') = NextId
      /\ ForMany' = ForMany \cup {NextId}
  BY <1>1, Numbered
<1>3. \A t \in Servers : pub'[t]["out"] = pub[t]["out"]
  BY <1>1 DEF BroadcastGlobal, Issue, Queues, Topics
<1>4. Channel' = Channel
  <2>1. \A o \in Servers, d \in Clients : \A m : OnItsWay(o, d, m)' <=> OnItsWay(o, d, m)
    BY <1>1, <1>3 DEF OnItsWay
  <2> QED  BY <2>1, ChannelStays
<1>5. Connected' = Connected
  BY <1>1 DEF Connected
<1>6. Promise!HandOut(NextId, {})
  <2>1. got' = [c \in Clients |-> IF c \in {} THEN Append(got[c], NextId) ELSE got[c]]
    BY <1>1 DEF TypeOK
  <2> QED  BY <2>1 DEF Promise!HandOut
<1> QED  BY <1>2, <1>4, <1>5, <1>6 DEF Promise!Cast, Channel, ForMany

(* Redis moves a packet within its channel. *)
LEMMA PublishStutters ==
    ASSUME TypeOK, AllRouted, AllRouted', Channels,
           NEW s \in Servers, NEW k \in Topics, Publish(s, k)
    PROVE  UNCHANGED promised
<1>1. /\ sent' = sent /\ at' = at /\ got' = got /\ late' = late
      /\ Connected' = Connected /\ ForMany' = ForMany
      /\ pub \in Queues /\ \A t \in Servers : sub[t] \in [Topics -> Seq(Packets)]
      /\ pub[s][k] \in Seq(Packets) /\ pub[s][k] # <<>>
  BY DEF Publish, Connected, ForMany, TypeOK, Queues
<1>2. \A o \in Servers, d \in Clients : \A m : OnItsWay(o, d, m)' <=> OnItsWay(o, d, m)
  <2>1. CASE k = "global"
    <3>1. \A t \in Servers : pub'[t]["out"] = pub[t]["out"]
      BY <1>1, <2>1 DEF Publish, Queues, Topics
    <3>2. ASSUME NEW t \in Servers PROVE sub'[t]["out"] = sub[t]["out"]
      <4>1. \/ sub'[t] = sub[t]
            \/ sub'[t] = [sub[t] EXCEPT !["global"] = Append(@, Head(pub[s]["global"]))]
        BY <2>1 DEF Publish
      <4> QED  BY <1>1, <4>1 DEF Topics
    <3> QED  BY <1>1, <3>1, <3>2 DEF OnItsWay
  <2>2. CASE k = "out"
    <3> DEFINE a == pub[s]["out"]
               p == Head(a)
    <3>1. /\ pub'[s]["out"] = Tail(a)
          /\ \A t \in Servers : t # s => pub'[t]["out"] = pub[t]["out"]
      BY <1>1, <2>2 DEF Publish, Queues, Topics
    <3>2. ASSUME NEW t \in Servers, phase[t] = "open"
          PROVE  sub'[t]["out"] = Append(sub[t]["out"], p)
      <4>1. sub'[t] = [sub[t] EXCEPT !["out"] = Append(@, p)]
        BY <2>2, <3>2 DEF Publish, Subscribed
      <4> QED  BY <1>1, <4>1 DEF Topics
    <3>3. /\ a \in Seq(Packets) /\ a # <<>>
          /\ \A t \in Servers : sub[t]["out"] \in Seq(Packets)
      BY <1>1, <2>2 DEF Topics
    <3> HIDE DEF p
    <3>4. /\ \A i \in DOMAIN Tail(a) : i + 1 \in DOMAIN a /\ Tail(a)[i] = a[i + 1]
          /\ \A i \in DOMAIN a : \/ i = 1
                                 \/ i - 1 \in DOMAIN Tail(a) /\ Tail(a)[i - 1] = a[i]
          /\ 1 \in DOMAIN a /\ p = a[1]
      BY <3>3 DEF p
    <3>5. p.origin = s
      BY <3>4 DEF Channels, Own
    <3> HIDE DEF a
    <3>6. ASSUME NEW d \in Clients, NEW m
          PROVE  Bears(a, s, d, m) <=> Bears(Tail(a), s, d, m) \/ p = Packet(m, d, s)
      BY <3>4 DEF Bears
    <3>7. ASSUME NEW t \in Servers, phase[t] = "open", NEW o \in Servers, NEW d \in Clients, NEW m
          PROVE  Bears(sub'[t]["out"], o, d, m) <=>
                    Bears(sub[t]["out"], o, d, m) \/ p = Packet(m, d, o)
      <4> DEFINE q == sub[t]["out"]
      <4>1. q \in Seq(Packets) /\ sub'[t]["out"] = Append(q, p)
        BY <3>2, <3>3, <3>7
      <4> HIDE DEF q
      <4>2. /\ \A i \in DOMAIN q : i \in DOMAIN Append(q, p) /\ Append(q, p)[i] = q[i]
            /\ Len(q) + 1 \in DOMAIN Append(q, p) /\ Append(q, p)[Len(q) + 1] = p
            /\ \A i \in DOMAIN Append(q, p) : i \in DOMAIN q \/ i = Len(q) + 1
        BY <4>1
      <4>3. Bears(Append(q, p), o, d, m) <=> Bears(q, o, d, m) \/ p = Packet(m, d, o)
        BY <4>2 DEF Bears
      <4> QED  BY <4>1, <4>3 DEF q
    <3>8. ASSUME NEW o \in Servers, NEW d \in Clients, NEW m, at[d] \in Servers
          PROVE  (Bears(sub[at[d]]["out"], o, d, m) \/ Bears(pub[o]["out"], o, d, m)) <=>
                    (Bears(sub'[at[d]]["out"], o, d, m) \/ Bears(pub'[o]["out"], o, d, m))
      <4>1. phase[at[d]] = "open"
        BY <3>8 DEF Channels, Homes
      <4>2. CASE o = s
        BY <3>1, <3>6, <3>7, <3>8, <4>1, <4>2 DEF a
      <4>3. CASE o # s
        <5>1. p # Packet(m, d, o)
          BY <3>5, <4>3 DEF Packet
        <5> QED  BY <3>1, <3>7, <3>8, <4>1, <4>3, <5>1
      <4> QED  BY <4>2, <4>3
    <3> QED  BY <1>1, <3>8 DEF OnItsWay
  <2> QED  BY <2>1, <2>2 DEF Topics
<1>3. Channel' = Channel
  BY <1>2, ChannelStays
<1> QED  BY <1>1, <1>3 DEF promised

(* The packet a server takes is the oldest of its channel, if any client    *)
(* there waits for it.                                                      *)
LEMMA OnMessageOutArrives ==
    ASSUME TypeOK, AllRouted, AllRouted', Channels, NEW s \in Servers, OnMessageOut(s)
    PROVE  \/ UNCHANGED promised
           \/ \E o \in Servers, c \in Clients, m \in 1..Len(sent) : Promise!Arrive(o, c, m)
<1> DEFINE q == sub[s]["out"]
           p == Head(q)
           cs == IF phase[s] = "open" /\ p.origin # s THEN On(s) \cap {p.to} ELSE {}
<1>1. /\ sent' = sent /\ at' = at /\ late' = late /\ pub' = pub /\ Hand(cs, p.m)
      /\ Connected' = Connected /\ ForMany' = ForMany
      /\ q \in Seq(Packets) /\ q # <<>> /\ sub \in Queues
      /\ got \in [Clients -> Seq(Items)]
  BY DEF OnMessageOut, Take, Connected, ForMany, TypeOK, Queues, Topics, Items
<1>2. /\ sub'[s]["out"] = Tail(q)
      /\ \A t \in Servers : t # s => sub'[t]["out"] = sub[t]["out"]
  BY <1>1 DEF OnMessageOut, Take, Queues, Topics
<1>3. /\ 1 \in DOMAIN q /\ p = q[1] /\ p \in Packets
      /\ \A i \in DOMAIN Tail(q) : i \in Nat /\ i + 1 \in DOMAIN q /\ 1 < i + 1 /\ Tail(q)[i] = q[i + 1]
      /\ \A i \in DOMAIN q : i = 1 \/ (i - 1 \in DOMAIN Tail(q) /\ Tail(q)[i - 1] = q[i])
  BY <1>1
<1>4. /\ p = Packet(p.m, p.to, p.origin) /\ p.m \in Ids /\ p.origin \in Servers
      /\ Routed(sent, "out", p)
  BY <1>3 DEF Packet, Packets, AllRouted, Topics
<1> HIDE DEF p
<1>5. \A o \in Servers, d \in Clients : \A m :
          p # Packet(m, d, o) => (Bears(Tail(q), o, d, m) <=> Bears(q, o, d, m))
  BY <1>3 DEF Bears
<1>6. \A o \in Servers, d \in Clients : \A m :
          at[d] # s \/ p # Packet(m, d, o) => (OnItsWay(o, d, m)' <=> OnItsWay(o, d, m))
  BY <1>1, <1>2, <1>5 DEF OnItsWay
<1>7. CASE ~(phase[s] = "open" /\ p.origin # s /\ p.to \in On(s))
  <2>1. got' = got
    <3>1. cs = {}
      BY <1>7
    <3> HIDE DEF cs
    <3> QED  BY <1>1, <3>1 DEF Hand
  <2>2. ASSUME NEW o \in Servers, NEW d \in Clients, NEW m, at[d] = s
        PROVE  p # Packet(m, d, o)
    <3> SUFFICES ASSUME p = Packet(m, d, o) PROVE FALSE
      OBVIOUS
    <3>1. Bears(q, o, d, m) /\ p.to = d /\ p.origin = o
      BY <1>3 DEF Bears, Packet
    <3>2. at[d] # o
      BY <3>1, BornFit
    <3>3. phase[s] = "open"
      BY <2>2 DEF Channels, Homes
    <3> QED  BY <1>7, <2>2, <3>1, <3>2, <3>3 DEF On
  <2>3. Channel' = Channel
    BY <1>6, <2>2, ChannelStays
  <2> QED  BY <1>1, <2>1, <2>3 DEF promised
<1>8. CASE phase[s] = "open" /\ p.origin # s /\ p.to \in On(s)
  <2>0. p.to \in Clients /\ at[p.to] = s
    BY <1>8 DEF On
  <2>1. PICK c \in Clients, o \in Servers, m \in Ids :
             /\ at[c] = s /\ p = Packet(m, c, o)
             /\ p.to = c /\ p.m = m
    BY <1>4, <2>0
  <2>2. got' = [got EXCEPT ![c] = Append(@, m)]
    <3>1. cs = {c}
      BY <1>8, <2>1
    <3> HIDE DEF cs
    <3> QED  BY <1>1, <2>1, <3>1 DEF Hand
  <2>3. \A d \in Clients, e \in Servers : \A n :
            p = Packet(n, d, e) <=> (d = c /\ e = o /\ n = m)
    BY <2>1 DEF Packet
  (* p is the oldest: what else is on its way to c is behind it. *)
  <2> DEFINE Behind(n) == Bears(pub[o]["out"], o, c, n) \/ Bears(late[o], o, c, n)
  <2>4. ASSUME NEW n, Bears(Tail(q), o, c, n) \/ Behind(n) PROVE m < n
    <3>1. CASE Bears(Tail(q), o, c, n)
      <4>1. PICK i \in DOMAIN Tail(q) : Tail(q)[i] = Packet(n, c, o)
        BY <3>1 DEF Bears
      <4>2. InTurn(q[1], q[i + 1])
        BY <1>3, <4>1 DEF Channels, AllAscending, Ascending
      <4>3. q[1] = Packet(m, c, o) /\ q[i + 1] = Packet(n, c, o)
        BY <1>3, <2>1, <4>1
      <4> QED  BY <2>1, <4>2, <4>3 DEF InTurn, Packet
    <3>2. CASE Behind(n)
      <4>1. InTurn(q[1], Packet(n, c, o))
        <5>1. Ahead(q, pub[o]["out"]) /\ Ahead(q, late[o])
          BY <2>1 DEF Channels, AllAscending
        <5>2. CASE Bears(pub[o]["out"], o, c, n)
          BY <1>3, <5>1, <5>2 DEF Bears, Ahead
        <5>3. CASE Bears(late[o], o, c, n)
          BY <1>3, <5>1, <5>3 DEF Bears, Ahead
        <5> QED  BY <3>2, <5>2, <5>3
      <4>2. q[1] = Packet(m, c, o)
        BY <1>3, <2>1
      <4> QED  BY <2>1, <4>1, <4>2 DEF InTurn, Packet
    <3> QED  BY <2>4, <3>1, <3>2
  <2>5. m \in DOMAIN sent /\ m \in Nat /\ DOMAIN sent = 1..Len(sent)
    BY <1>4, <2>1 DEF Routed, Ids, TypeOK
  <2>6. Bears(q, o, c, m)
    BY <1>3, <2>1 DEF Bears
  <2>7. ASSUME NEW n
        PROVE  Bears(q, o, c, n) <=> n = m \/ Bears(Tail(q), o, c, n)
    <3>1. CASE n = m
      BY <2>6, <3>1
    <3>2. CASE n # m
      BY <1>5, <2>1, <2>3, <3>2
    <3> QED  BY <3>1, <3>2
  <2>8. ~(m < m)
    BY <2>5
  <2>9. ASSUME NEW n PROVE OnItsWay(o, c, n)' <=> (OnItsWay(o, c, n) /\ n # m)
    <3>1. OnItsWay(o, c, n) <=> (Bears(q, o, c, n) \/ Behind(n))
      BY <2>1 DEF OnItsWay
    <3>2. OnItsWay(o, c, n)' <=> (Bears(Tail(q), o, c, n) \/ Behind(n))
      BY <1>1, <1>2, <2>1 DEF OnItsWay
    <3> QED  BY <2>4, <2>7, <2>8, <3>1, <3>2
  <2>10. Underway(o, c)' = Underway(o, c) \ {m}
    <3>1. \A n : n \in Underway(o, c)' <=> OnItsWay(o, c, n)'
      BY <2>1, UnderwayNext
    <3>2. \A n : n \in Underway(o, c) <=> OnItsWay(o, c, n)
      BY <2>1, UnderwayIs
    <3> QED  BY <2>9, <3>1, <3>2
  <2>11. ASSUME NEW e \in Servers, NEW d \in Clients, ~(e = o /\ d = c)
         PROVE  Underway(e, d)' = Underway(e, d)
    <3>1. \A n : OnItsWay(e, d, n)' <=> OnItsWay(e, d, n)
      BY <1>6, <2>3, <2>11
    <3> QED  BY <3>1, UnderwayIs, UnderwayNext
  <2>12. Channel' = [Channel EXCEPT ![o][c] = @ \ {m}]
    <3>1. \A e \in Servers, d \in Clients :
             Underway(e, d)' = IF e = o /\ d = c THEN Underway(o, c) \ {m} ELSE Underway(e, d)
      BY <2>10, <2>11
    <3> QED  BY <2>1, <3>1 DEF Channel
  <2>13. m \in Underway(o, c) /\ \A n \in Underway(o, c) : m <= n
    <3>1. m \in Underway(o, c)
      BY <2>1, <2>6, UnderwayIs DEF OnItsWay
    <3>2. ASSUME NEW n \in Underway(o, c) PROVE m <= n
      <4>1. n = m \/ m < n
        BY <2>1, <2>4, <2>7, UnderwayIs DEF OnItsWay
      <4>2. n \in Nat
        BY <2>5 DEF Underway
      <4> QED  BY <2>5, <4>1, <4>2
    <3> QED  BY <3>1, <3>2
  <2>14. c \in Connected /\ m \in 1..Len(sent)
    BY <2>1, <2>5 DEF Connected
  <2>15. Promise!Arrive(o, c, m)
    BY <1>1, <2>1, <2>2, <2>12, <2>13, <2>14 DEF Promise!Arrive, Channel, ForMany
  <2> QED  BY <2>1, <2>14, <2>15
<1> QED  BY <1>7, <1>8

(* What a server takes from the topic "global" is in no channel.            *)
LEMMA TakeGlobal ==
    ASSUME TypeOK, AllRouted, AllRouted', NEW s \in Servers, Take(s, "global")
    PROVE  Channel' = Channel /\ sent' = sent /\ Connected' = Connected /\ ForMany' = ForMany
<1>1. /\ sent' = sent /\ at' = at /\ late' = late /\ pub' = pub
      /\ Connected' = Connected /\ ForMany' = ForMany
      /\ \A t \in Servers : sub'[t]["out"] = sub[t]["out"]
  BY DEF Take, Connected, ForMany, TypeOK, Topics
<1>2. \A o \in Servers, d \in Clients : \A n : OnItsWay(o, d, n)' <=> OnItsWay(o, d, n)
  BY <1>1 DEF OnItsWay
<1> QED  BY <1>1, <1>2, ChannelStays

(* Nobody was handed it before. *)
LEMMA OnMessageGlobalCasts ==
    ASSUME TypeOK, AllRouted, AllRouted', Ordered, NEW s \in Servers, OnMessageGlobal(s)
    PROVE  \E m \in ForMany : Promise!CastMore(m, On(s))
<1> DEFINE q == sub[s]["global"]
           m == Head(q).m
<1>0. Take(s, "global") /\ Hand(On(s), m) /\ On(s) \subseteq Connected
  BY DEF OnMessageGlobal, Connected, On
<1>1. /\ Channel' = Channel /\ sent' = sent /\ Connected' = Connected /\ ForMany' = ForMany
      /\ q \in Seq(Packets) /\ q # <<>>
  BY <1>0, TakeGlobal DEF Take, TypeOK, Topics
<1>2. m \in Casts /\ InQueue(q, m)
  <2>1. 1 \in DOMAIN q /\ Head(q) = q[1]
    BY <1>1
  <2> QED  BY <2>1 DEF AllRouted, Routed, Topics, Casts, InQueue
<1> HIDE DEF m
<1>3. \A c \in On(s) : ~Has(c, m)
  BY <1>2 DEF On, Ordered, OneSequence, Earlier
<1>4. m \in ForMany
  BY <1>2 DEF Casts, ForMany
<1>5. Promise!HandOut(m, On(s))
  BY <1>0, <1>3 DEF Promise!HandOut, Promise!Has, Has, Hand
<1>6. Promise!CastMore(m, On(s))
  BY <1>1, <1>4, <1>5 DEF Promise!CastMore, Channel, ForMany
<1> QED  BY <1>4, <1>6

LEMMA ThrowStutters ==
    ASSUME TypeOK, AllRouted, AllRouted', NEW s \in Servers,
           Take(s, "global"), Hand({}, Garbled)
    PROVE  UNCHANGED promised
<1>1. got' = got
  BY DEF Hand, TypeOK
<1> QED  BY <1>1, TakeGlobal DEF promised

(* A handler moves a packet on from one queue of its channel to the next.   *)
LEMMA ForwardStutters ==
    ASSUME TypeOK, AllRouted, AllRouted', NEW s \in Servers, Forward(s)
    PROVE  UNCHANGED promised
<1> DEFINE a == late[s]
           b == pub[s]["out"]
           p == Head(a)
<1>1. /\ sent' = sent /\ at' = at /\ got' = got /\ sub' = sub
      /\ Connected' = Connected /\ ForMany' = ForMany
      /\ a \in Seq(Packets) /\ a # <<>> /\ b \in Seq(Packets) /\ pub \in Queues
  BY DEF Forward, Connected, ForMany, TypeOK, Queues, Topics
<1>2. /\ late'[s] = Tail(a) /\ pub'[s]["out"] = b \o <<p>>
      /\ \A t \in Servers : t # s => late'[t] = late[t] /\ pub'[t]["out"] = pub[t]["out"]
  BY <1>1 DEF Forward, Issue, TypeOK, Queues, Topics
<1>3. /\ \A i \in DOMAIN Tail(a) : i + 1 \in DOMAIN a /\ Tail(a)[i] = a[i + 1]
      /\ \A i \in DOMAIN a : i = 1 \/ (i - 1 \in DOMAIN Tail(a) /\ Tail(a)[i - 1] = a[i])
      /\ 1 \in DOMAIN a /\ p = a[1] /\ p \in Packets
  BY <1>1
<1> HIDE DEF a, b, p
<1>4. /\ \A i \in DOMAIN b : i \in DOMAIN (b \o <<p>>) /\ (b \o <<p>>)[i] = b[i]
      /\ \A i \in DOMAIN (b \o <<p>>) : \/ i \in DOMAIN b /\ (b \o <<p>>)[i] = b[i]
                                        \/ (b \o <<p>>)[i] = p
      /\ \E i \in DOMAIN (b \o <<p>>) : (b \o <<p>>)[i] = p
  <2>1. b \o <<p>> = Append(b, p) /\ b \in Seq(Packets)
    BY <1>1
  <2>2. /\ \A i \in DOMAIN b : i \in DOMAIN Append(b, p) /\ Append(b, p)[i] = b[i]
        /\ \A i \in DOMAIN Append(b, p) : \/ i \in DOMAIN b /\ Append(b, p)[i] = b[i]
                                         \/ Append(b, p)[i] = p
        /\ Len(b) + 1 \in DOMAIN Append(b, p) /\ Append(b, p)[Len(b) + 1] = p
    BY <2>1
  <2> QED  BY <2>1, <2>2
<1>5. ASSUME NEW d \in Clients, NEW m
      PROVE  /\ Bears(a, s, d, m) <=> Bears(Tail(a), s, d, m) \/ p = Packet(m, d, s)
             /\ Bears(b \o <<p>>, s, d, m) <=> Bears(b, s, d, m) \/ p = Packet(m, d, s)
  <2> DEFINE r == Packet(m, d, s)
             l == b \o <<p>>
  <2> HIDE DEF r, l
  <2>1. Bears(a, s, d, m) <=> Bears(Tail(a), s, d, m) \/ p = r
    BY <1>3 DEF Bears, r
  <2>2. Bears(l, s, d, m) <=> Bears(b, s, d, m) \/ p = r
    BY <1>4 DEF Bears, r, l
  <2> QED  BY <2>1, <2>2 DEF r, l
<1>6. \A o \in Servers, d \in Clients : \A m : OnItsWay(o, d, m)' <=> OnItsWay(o, d, m)
  <2>1. ASSUME NEW o \in Servers, NEW d \in Clients, NEW m
        PROVE  OnItsWay(o, d, m)' <=> OnItsWay(o, d, m)
    <3>1. CASE o = s
      BY <1>1, <1>2, <1>5, <3>1 DEF OnItsWay, a, b
    <3>2. CASE o # s
      BY <1>1, <1>2, <3>2 DEF OnItsWay
    <3> QED  BY <3>1, <3>2
  <2> QED  BY <2>1
<1>7. Channel' = Channel
  BY <1>6, ChannelStays
<1> QED  BY <1>1, <1>7 DEF promised

(* The servers keep the promise of Delivery, for any number of servers,     *)
(* clients and messages: what is for one client neither overtakes nor       *)
(* vanishes, unless the client has gone or the sender ended, and nothing    *)
(* arrives twice.                                                           *)
THEOREM DeliveryImplemented == Spec => Delivers
<1>1. Init => Promise!Init
  <2> SUFFICES ASSUME Init PROVE Promise!Init
    OBVIOUS
  <2>1. sent = <<>> /\ Len(sent) = 0 /\ DOMAIN sent = {}
    BY DEF Init
  <2>2. Connected = {} /\ ForMany = {} /\ \A s \in Servers, c \in Clients : Underway(s, c) = {}
    BY <2>1, MessagingAssumption DEF Init, Connected, ForMany, Underway
  <2> QED  BY <2>1, <2>2 DEF Init, Promise!Init, ForMany
<1>2. /\ TypeOK /\ AllRouted /\ AllRouted' /\ AllFor /\ Ordered /\ Untouched /\ Channels
      /\ [Next]_vars
      => [Promise!Next]_promised
  <2> SUFFICES ASSUME TypeOK, AllRouted, AllRouted', AllFor, Ordered, Untouched, Channels,
                      [Next]_vars
               PROVE  Promise!Next \/ UNCHANGED promised
    OBVIOUS
  <2>1. ASSUME NEW s \in Servers, Lifecycle(s) PROVE Promise!Next \/ UNCHANGED promised
    <3>1. CASE SubscribeOut(s) \/ SubscribeGlobal(s)
      BY <3>1 DEF SubscribeOut, SubscribeGlobal, promised, Connected, ForMany, Channel, Underway
    <3>2. CASE Stop(s)
      <4>1. On(s) \in SUBSET Clients
        BY DEF On
      <4> QED  BY <3>2, <4>1, StopDies DEF Promise!Next
    <3>3. CASE Crash(s)
      <4>1. On(s) \in SUBSET Clients
        BY DEF On
      <4> QED  BY <3>3, <4>1, CrashDies DEF Promise!Next
    <3>4. ASSUME NEW c \in Clients, Connect(c, s) PROVE Promise!Next
      BY <3>4, ConnectEnters DEF Promise!Next
    <3> QED  BY <2>1, <3>1, <3>2, <3>3, <3>4 DEF Lifecycle
  <2>2. ASSUME NEW s \in Servers, Application(s) PROVE Promise!Next
    <3>1. ASSUME NEW c \in Known, Send(s, c) PROVE Promise!Next
      <4>1. c \in Clients
        BY DEF Known
      <4> QED  BY <3>1, <4>1, SendPosts DEF Promise!Next
    <3>2. ASSUME NEW cs \in SUBSET Known, SendList(s, cs) PROVE Promise!Next
      <4>1. cs \in SUBSET Clients
        BY DEF Known
      <4> QED  BY <3>2, <4>1, SendListCasts DEF Promise!Next
    <3>3. CASE Broadcast(s)
      BY <3>3, BroadcastCasts DEF Promise!Next
    <3>4. CASE BroadcastGlobal(s)
      <4>1. {} \in SUBSET Clients
        OBVIOUS
      <4>2. Promise!Cast({})
        BY <3>4, BroadcastGlobalCasts
      <4> QED  BY <4>1, <4>2 DEF Promise!Next
    <3> QED  BY <2>2, <3>1, <3>2, <3>3, <3>4 DEF Application
  <2>3. ASSUME NEW s \in Servers, Transport(s) PROVE Promise!Next \/ UNCHANGED promised
    <3>1. CASE \E k \in Topics : Publish(s, k)
      BY <3>1, PublishStutters
    <3>2. CASE OnMessageOut(s)
      BY <3>2, OnMessageOutArrives DEF Promise!Next
    <3>3. CASE OnMessageGlobal(s)
      <4>1. On(s) \in SUBSET Clients
        BY DEF On
      <4> QED  BY <3>3, <4>1, OnMessageGlobalCasts DEF Promise!Next, ForMany
    <3>4. CASE OnMessageGlobalThrows(s)
      <4>1. CASE Crash(s)
        BY <2>1, <4>1 DEF Lifecycle
      <4>2. CASE Take(s, "global") /\ Hand({}, Garbled)
        BY <4>2, ThrowStutters
      <4> QED  BY <3>4, <4>1, <4>2 DEF OnMessageGlobalThrows
    <3>5. CASE Forward(s)
      BY <3>5, ForwardStutters
    <3> QED  BY <2>3, <3>1, <3>2, <3>3, <3>4, <3>5 DEF Transport
  <2>4. ASSUME NEW c \in Clients, Disconnect(c) PROVE Promise!Next
    <3>1. {c} \in SUBSET Clients
      BY <2>4
    <3> QED  BY <2>4, <3>1, DisconnectLeaves DEF Promise!Next
  <2>5. CASE UNCHANGED vars
    BY <2>5 DEF vars, promised, Connected, ForMany, Channel, Underway
  <2> QED  BY <2>1, <2>2, <2>3, <2>4, <2>5 DEF Next
<1>3. [Promise!Next]_promised => [Promise!Next]_(Promise!vars)
  BY DEF Promise!vars, promised, Channel, ForMany
<1> QED
  BY <1>1, <1>2, <1>3, TypeCorrect, RoutedInit, RoutedNext, OrderedInit, OrderedNext,
     UntouchedNext, ChannelsInit, ChannelsNext, PTL
  DEF Spec, Delivers, Promise!Spec
===============================================================================
