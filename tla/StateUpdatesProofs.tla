-------------------------- MODULE StateUpdatesProofs --------------------------
(***************************************************************************)
(* A running match for any number of instances and clients, wherever their *)
(* connections are.                                                        *)
(***************************************************************************)
EXTENDS StateUpdates, TLAPS, FiniteSetTheorems

-------------------------------------------------------------------------------
Kinds == UdpKinds \cup {"tcp-message", "exited"}

Events == [k : Kinds, c : Clients] \cup [k : {"ended"}, c : {None}]

Mails == {"identifier", "message"}

LEMMA TypeInit == Init => TypeOK
<1> SUFFICES ASSUME Init PROVE TypeOK
  OBVIOUS
<1>1. /\ events \in [Servers -> Seq(Events)]
      /\ mail \in [Clients -> Seq(Mails)]
  BY DEF Init
<1> QED  BY <1>1, StateUpdatesAssumption DEF Init, TypeOK, Events, Kinds, Mails, Uids

(* The queues that emitting, posting and taking leave.                      *)
LEMMA Queues ==
    ASSUME TypeOK
    PROVE  /\ events \in [Servers -> Seq(Events)] /\ mail \in [Clients -> Seq(Mails)]
           /\ \A s \in Servers, e \in Events : Emit(s, e) => events' \in [Servers -> Seq(Events)]
           /\ \A ks : \A s \in Servers : Take(s, ks) =>
                 events' \in [Servers -> Seq(Events)] /\ Head(events[s]) \in Events
           /\ \A cs, p : Post(cs, p) /\ p \in Mails => mail' \in [Clients -> Seq(Mails)]
           /\ \A q \in Seq(Mails) : SendToGroup(q) => mail' \in [Clients -> Seq(Mails)]
<1>1. events \in [Servers -> Seq(Events)] /\ mail \in [Clients -> Seq(Mails)]
  BY DEF TypeOK, Events, Kinds, Mails
<1>2. ASSUME NEW s \in Servers, NEW e \in Events, Emit(s, e)
      PROVE  events' \in [Servers -> Seq(Events)]
  BY <1>1, <1>2 DEF Emit
<1>3. ASSUME NEW s \in Servers, NEW ks, Take(s, ks)
      PROVE  events' \in [Servers -> Seq(Events)] /\ Head(events[s]) \in Events
  BY <1>1, <1>3 DEF Take
<1>4. ASSUME NEW cs, NEW p, Post(cs, p), p \in Mails PROVE mail' \in [Clients -> Seq(Mails)]
  BY <1>1, <1>4 DEF Post
<1>5. ASSUME NEW q \in Seq(Mails), SendToGroup(q) PROVE mail' \in [Clients -> Seq(Mails)]
  BY <1>1, <1>5 DEF SendToGroup
<1> QED  BY <1>1, <1>2, <1>3, <1>4, <1>5

(* The switch to UDP.  The group of a match only shrinks, the identifiers   *)
(* given out at its start stay good, and nobody is validated without one:   *)
(* as many validated clients as identifiers are all that have one.          *)
Switching ==
    /\ logic \in {"idle", "starting"} => given = {}
    /\ logic = "on" => group \subseteq given
    /\ udpList # {} => group \subseteq given /\ given \subseteq udpList

LEMMA TypeNext == TypeOK /\ Switching /\ [Next]_vars => TypeOK'
<1> SUFFICES ASSUME TypeOK, Switching, [Next]_vars PROVE TypeOK'
  OBVIOUS
<1>e. /\ \A c \in Clients, k \in Kinds : Event(k, c) \in Events
      /\ Event("ended", None) \in Events
  BY DEF Event, Events, Kinds
<1> USE DEF redis, matchV, clientV
<1>1. ASSUME NEW c \in Clients, Receive(c) PROVE TypeOK'
  <2>1. mail' \in [Clients -> Seq(Mails)] /\ Head(mail[c]) \in Mails
    BY <1>1, Queues DEF Receive
  <2>2. uid' \in [Clients -> Uids]
    BY <1>1, <2>1 DEF Receive, TypeOK, Uids, Mails
  <2> QED  BY <1>1, <2>1, <2>2 DEF Receive, TypeOK, Mails
<1>2. ASSUME NEW c \in Clients, NEW k \in UdpKinds, UdpArrives(c, k) PROVE TypeOK'
  <2>1. place.udp[c] \in Servers
    BY StateUpdatesAssumption DEF TypeOK
  <2>2. events' \in [Servers -> Seq(Events)]
    BY <1>2, <1>e, <2>1, Queues DEF UdpArrives, Kinds
  <2>3. chats' \in 0..MaxChats
    BY <1>2, StateUpdatesAssumption DEF UdpArrives, TypeOK
  <2> QED  BY <1>2, <2>2, <2>3 DEF UdpArrives, TypeOK, Events, Kinds
<1>3. ASSUME NEW c \in Clients, TcpState(c) PROVE TypeOK'
  BY <1>3 DEF TcpState, TypeOK
<1>4. ASSUME NEW c \in Clients, TcpStore(c) PROVE TypeOK'
  BY <1>4 DEF TcpStore, TypeOK
<1>t. \A c \in Clients : place.tcp[c] \in Servers
  BY StateUpdatesAssumption DEF TypeOK
<1>5. ASSUME NEW c \in Clients, TcpMessage(c) PROVE TypeOK'
  <2>1. events' \in [Servers -> Seq(Events)]
    BY <1>5, <1>e, <1>t, Queues DEF TcpMessage, Kinds
  <2>2. chats' \in 0..MaxChats
    BY <1>5, StateUpdatesAssumption DEF TcpMessage, TypeOK
  <2> QED  BY <1>5, <2>1, <2>2 DEF TcpMessage, TypeOK, Events, Kinds
<1>6. ASSUME NEW c \in Clients, Exit(c) PROVE TypeOK'
  <2>1. events' \in [Servers -> Seq(Events)]
    BY <1>6, <1>e, <1>t, Queues DEF Exit, Kinds
  <2> QED  BY <1>6, <2>1 DEF Exit, TypeOK, Events, Kinds
<1>7. ASSUME NEW c \in Clients, Close(c) PROVE TypeOK'
  <2>1. events' \in [Servers -> Seq(Events)]
    BY <1>7, <1>e, <1>t, Queues DEF Close, Kinds
  <2>2. mail' \in [Clients -> Seq(Mails)]
    BY <1>7, Queues DEF Close
  <2>3. online' \subseteq Clients /\ leaving' \subseteq Clients
    BY <1>7 DEF Close, TypeOK
  <2> QED  BY <1>7, <2>1, <2>2, <2>3 DEF Close, TypeOK, Events, Kinds, Mails
<1>8. ASSUME NEW c \in Clients, Remove(c) PROVE TypeOK'
  BY <1>8 DEF Remove, TypeOK
<1>9. CASE MatchStarted
  BY <1>9 DEF MatchStarted, TypeOK
<1>17. CASE SendIdentifiers
  <2>1. mail' \in [Clients -> Seq(Mails)]
    BY <1>17, Queues DEF SendIdentifiers, Mails
  <2>2. given' \subseteq Clients /\ valid' \subseteq given' /\ udpList' \subseteq valid'
    <3>1. logic = "starting"
      BY <1>17 DEF SendIdentifiers
    <3> QED  BY <1>17, <3>1 DEF SendIdentifiers, TypeOK, Switching
  <2> QED  BY <1>17, <2>1, <2>2 DEF SendIdentifiers, TypeOK, Mails
<1>10. ASSUME NEW s \in Servers, Ignore(s) PROVE TypeOK'
  <2>1. events' \in [Servers -> Seq(Events)]
    BY <1>10, Queues DEF Ignore
  <2> QED  BY <1>10, <2>1 DEF Ignore, TypeOK, Events, Kinds
<1>11. ASSUME NEW s \in Servers, HandleUdp(s) PROVE TypeOK'
  <2>1. events' \in [Servers -> Seq(Events)]
    BY <1>11, Queues DEF HandleUdp
  <2>2. mail' \in [Clients -> Seq(Mails)]
    <3> DEFINE done == Head(events[s]).c \in given /\ Completes(Head(events[s]).c)
               told == Head(events[s]).c \in given /\ Head(events[s]).k = "udp-message"
    <3>1. <<>> \in Seq(Mails) /\ <<"message">> \in Seq(Mails)
      BY DEF Mails
    <3>4. \A a, b \in Seq(Mails) : a \o b \in Seq(Mails)
      OBVIOUS
    <3>2. SendToGroup((IF done THEN <<"message">> ELSE <<>>) \o (IF told THEN <<"message">> ELSE <<>>))
      BY <1>11 DEF HandleUdp
    <3> HIDE DEF done, told
    <3>3. (IF done THEN <<"message">> ELSE <<>>) \o (IF told THEN <<"message">> ELSE <<>>) \in Seq(Mails)
      BY <3>1, <3>4
    <3> QED  BY <3>2, <3>3, Queues
  <2>3. valid' \subseteq given /\ udpList' \subseteq valid'
    BY <1>11 DEF HandleUdp, TypeOK
  <2> QED  BY <1>11, <2>1, <2>2, <2>3 DEF HandleUdp, TypeOK, Events, Kinds, Mails
<1>12. ASSUME NEW s \in Servers, HandleTcp(s) PROVE TypeOK'
  <2>1. events' \in [Servers -> Seq(Events)]
    BY <1>12, Queues DEF HandleTcp
  <2>2. mail' \in [Clients -> Seq(Mails)]
    <3>1. <<"message">> \in Seq(Mails)
      BY DEF Mails
    <3>2. SendToGroup(<<"message">>)
      BY <1>12 DEF HandleTcp
    <3> QED  BY <3>1, <3>2, Queues
  <2> QED  BY <1>12, <2>1, <2>2 DEF HandleTcp, TypeOK, Events, Kinds, Mails
<1>13. ASSUME NEW s \in Servers, MatchExited(s) PROVE TypeOK'
  <2>1. events' \in [Servers -> Seq(Events)]
    BY <1>13, Queues DEF MatchExited
  <2> QED  BY <1>13, <2>1 DEF MatchExited, TypeOK, Events, Kinds
<1>14. CASE Timeout
  <2>1. events' \in [Servers -> Seq(Events)]
    BY <1>14, <1>e, Queues, StateUpdatesAssumption DEF Timeout
  <2> QED  BY <1>14, <2>1 DEF Timeout, TypeOK, Events, Kinds
<1>15. ASSUME NEW s \in Servers, MatchEnded(s) PROVE TypeOK'
  <2>1. events' \in [Servers -> Seq(Events)]
    BY <1>15, Queues DEF MatchEnded
  <2> QED  BY <1>15, <2>1 DEF MatchEnded, TypeOK, Events, Kinds
<1>16. CASE UNCHANGED vars
  BY <1>16 DEF vars, TypeOK
<1> QED
  BY <1>1, <1>2, <1>3, <1>4, <1>5, <1>6, <1>7, <1>8, <1>9, <1>10, <1>11, <1>12, <1>13,
     <1>14, <1>15, <1>16, <1>17 DEF Next, Player, Handle

LEMMA SwitchingInit == Init => Switching
BY DEF Init, Switching

LEMMA SwitchingNext == TypeOK /\ Switching /\ [Next]_vars => Switching'
<1> SUFFICES ASSUME TypeOK, Switching, [Next]_vars PROVE Switching'
  OBVIOUS
<1> USE DEF redis, matchV, clientV
<1>0. CASE UNCHANGED <<logic, given, valid, udpList>> /\ group' \subseteq group
  BY <1>0 DEF Switching
<1>1. ASSUME NEW c \in Clients, Player(c) PROVE Switching'
  <2>1. UNCHANGED <<logic, given, valid, udpList>> /\ group' \subseteq group
    BY <1>1 DEF Player, Receive, UdpArrives, TcpState, TcpStore, TcpMessage, Exit, Close, Remove
  <2> QED  BY <1>0, <2>1
<1>2. CASE MatchStarted \/ SendIdentifiers
  BY <1>2 DEF MatchStarted, SendIdentifiers, Switching, TypeOK
<1>3. ASSUME NEW s \in Servers, HandleUdp(s) PROVE Switching'
  <2> DEFINE c == Head(events[s]).c
             done == c \in given /\ Completes(c)
  <2>1. /\ UNCHANGED <<logic, given, group>>
        /\ valid' = valid \cup ({c} \cap given)
        /\ udpList' = IF done THEN valid' ELSE udpList
    BY <1>3 DEF HandleUdp
  <2>2. ASSUME done PROVE group \subseteq given /\ given \subseteq udpList'
    <3>1. c \in given /\ Cardinality(valid \cup {c}) >= Cardinality(given)
      BY <2>2 DEF Completes
    <3>2. IsFiniteSet(given)
      BY FS_Subset, StateUpdatesAssumption DEF TypeOK
    <3>3. valid \cup {c} \in SUBSET given
      BY <3>1 DEF TypeOK
    <3>4. valid \cup {c} = given
      <4>1. Cardinality(given) \in Nat /\ IsFiniteSet(valid \cup {c})
        BY <3>2, <3>3, FS_Subset, FS_CardinalityType
      <4>2. Cardinality(valid \cup {c}) \in Nat
        BY <4>1, FS_CardinalityType
      <4>3. Cardinality(valid \cup {c}) <= Cardinality(given)
        BY <3>2, <3>3, FS_Subset
      <4>4. Cardinality(given) = Cardinality(valid \cup {c})
        BY <3>1, <4>1, <4>2, <4>3
      <4> QED  BY <3>2, <3>3, <4>4, FS_Subset
    <3>5. logic = "on"
      BY <1>3, <3>1 DEF HandleUdp, Running, Switching
    <3> QED  BY <2>1, <2>2, <3>1, <3>4, <3>5 DEF Switching
  <2>3. CASE ~done
    BY <2>1, <2>3 DEF Switching
  <2> HIDE DEF done
  <2> QED  BY <2>1, <2>2, <2>3 DEF Switching
<1>4. ASSUME NEW s \in Servers, HandleTcp(s) \/ MatchExited(s) \/ Ignore(s) PROVE Switching'
  BY <1>0, <1>4 DEF HandleTcp, MatchExited, Ignore
<1>5. ASSUME NEW s \in Servers, MatchEnded(s) PROVE Switching'
  BY <1>5 DEF MatchEnded, Running, Switching
<1>6. CASE Timeout
  BY <1>0, <1>6 DEF Timeout
<1>7. CASE UNCHANGED vars
  BY <1>0, <1>7 DEF vars
<1> QED  BY <1>1, <1>2, <1>3, <1>4, <1>5, <1>6, <1>7 DEF Next, Handle

LEMMA Invariant == Spec => [](TypeOK /\ Switching)
<1>1. Init => TypeOK /\ Switching
  BY TypeInit, SwitchingInit
<1>2. TypeOK /\ Switching /\ [Next]_vars => (TypeOK /\ Switching)'
  BY TypeNext, SwitchingNext
<1> QED  BY <1>1, <1>2, PTL DEF Spec

(* Every variable keeps to its range; the lists of a match stay nested: its *)
(* UDP clients among those validated, these among those with an identifier, *)
(* and whose own list holds the match is on the list of the group.          *)
THEOREM TypeCorrect == Spec => []TypeOK
BY Invariant, PTL

(* The switch from TCP to UDP takes no player's updates away: everybody who *)
(* has an identifier, and so everybody on the group's list, is among the    *)
(* UDP clients as soon as there are any.                                    *)
THEOREM NobodyLeftBehind == Spec => []SwitchTogether
<1>1. TypeOK /\ Switching => SwitchTogether
  BY DEF TypeOK, Switching, SwitchTogether
<1> QED  BY <1>1, Invariant, PTL

-------------------------------------------------------------------------------
(* The state of a client that left.  When clientLeft clears it, no update   *)
(* of the client is under way, and the next one makes it "late".            *)
Clearing == \A c \in Clients : fate[c] = "cleared" => c \notin hash /\ ~UnderWay(c)

LEMMA ClearingInit == Init => Clearing
BY DEF Init, Clearing

(* Updates are under way only when they were before or arrive now.          *)
LEMMA Appended ==
    ASSUME TypeOK, NEW s \in Servers, NEW e \in Events, Emit(s, e), NEW c \in Clients,
           e # Event("udp-state", c), writing' \subseteq writing, UnderWay(c)'
    PROVE  UnderWay(c)
<1>1. events \in [Servers -> Seq(Events)]
  BY Queues
<1>2. CASE c \in writing'
  BY <1>2 DEF UnderWay
<1>3. ASSUME NEW r \in Servers, NEW i \in DOMAIN events'[r], events'[r][i] = Event("udp-state", c)
      PROVE  UnderWay(c)
  <2>1. i \in DOMAIN events[r] /\ events[r][i] = Event("udp-state", c)
    BY <1>1, <1>3 DEF Emit
  <2> QED  BY <2>1 DEF UnderWay
<1> QED  BY <1>2, <1>3 DEF UnderWay

LEMMA Taken ==
    ASSUME TypeOK, NEW s \in Servers, events[s] # <<>>,
           events' = [events EXCEPT ![s] = Tail(@)],
           NEW c \in Clients, writing' \subseteq writing, UnderWay(c)'
    PROVE  UnderWay(c)
<1>1. events \in [Servers -> Seq(Events)]
  BY Queues
<1>2. CASE c \in writing'
  BY <1>2 DEF UnderWay
<1>3. ASSUME NEW r \in Servers, NEW i \in DOMAIN events'[r], events'[r][i] = Event("udp-state", c)
      PROVE  UnderWay(c)
  <2>1. CASE r = s
    <3>1. i + 1 \in DOMAIN events[s] /\ events[s][i + 1] = Event("udp-state", c)
      BY <1>1, <1>3, <2>1
    <3> QED  BY <3>1 DEF UnderWay
  <2>2. CASE r # s
    BY <1>1, <1>3, <2>2 DEF UnderWay
  <2> QED  BY <2>1, <2>2
<1> QED  BY <1>2, <1>3 DEF UnderWay

LEMMA ClearingNext == TypeOK /\ Clearing /\ [Next]_vars => Clearing'
<1> SUFFICES ASSUME TypeOK, Clearing, [Next]_vars, NEW c \in Clients, fate'[c] = "cleared"
             PROVE  c \notin hash' /\ ~UnderWay(c)'
  BY DEF Clearing
<1> DEFINE Kept == c \notin hash' /\ ~UnderWay(c)'
<1> HIDE DEF Kept
<1> USE DEF redis, matchV, clientV
<1>f. fate \in [Clients -> {"playing", "cleared", "late"}]
  BY DEF TypeOK
<1>e. \A d \in Clients, k \in Kinds : Event(k, d) \in Events
  BY DEF Event, Events, Kinds
<1>0. ASSUME fate[c] = "cleared", hash' \subseteq hash, UnderWay(c)' => UnderWay(c) PROVE Kept
  BY <1>0 DEF Kept, Clearing
<1>1. ASSUME UNCHANGED <<hash, writing, events, fate>> PROVE Kept
  BY <1>0, <1>1 DEF UnderWay
<1>2. ASSUME NEW d \in Clients, NEW k \in UdpKinds, UdpArrives(d, k) PROVE Kept
  <2>1. fate[c] = "cleared" /\ (d = c => k # "udp-state")
    BY <1>2, <1>f DEF UdpArrives
  <2>2. place.udp[d] \in Servers
    BY StateUpdatesAssumption DEF TypeOK
  <2>3. Event(k, d) # Event("udp-state", c) /\ Event(k, d) \in Events
    BY <1>e, <2>1 DEF Event, Kinds
  <2>4. UnderWay(c)' => UnderWay(c)
    BY <1>2, <2>2, <2>3, Appended DEF UdpArrives
  <2> QED  BY <1>0, <1>2, <2>1, <2>4 DEF UdpArrives
<1>3. ASSUME NEW d \in Clients, TcpState(d) PROVE Kept
  <2>1. d # c /\ fate[c] = "cleared"
    BY <1>3, <1>f DEF TcpState
  <2> QED  BY <1>0, <1>3, <2>1 DEF TcpState, UnderWay
<1>4. ASSUME NEW d \in Clients, TcpStore(d) PROVE Kept
  <2>1. fate[c] = "cleared"
    BY <1>4 DEF TcpStore
  <2>2. d # c
    BY <1>4, <2>1 DEF TcpStore, Clearing, UnderWay
  <2> QED  BY <1>4, <2>1, <2>2 DEF TcpStore, Clearing, UnderWay, Kept
<1>5. ASSUME NEW d \in Clients, TcpMessage(d) \/ Exit(d) \/ Close(d) PROVE Kept
  <2>1. fate[c] = "cleared" /\ hash' = hash /\ writing' = writing
    BY <1>5 DEF TcpMessage, Exit, Close
  <2>2. \/ events' = events
        \/ \E k \in {"tcp-message", "exited"} : Emit(place.tcp[d], Event(k, d))
    BY <1>5 DEF TcpMessage, Exit, Close
  <2>3. place.tcp[d] \in Servers
    BY StateUpdatesAssumption DEF TypeOK
  <2>4. ASSUME NEW k \in {"tcp-message", "exited"}, Emit(place.tcp[d], Event(k, d))
        PROVE  UnderWay(c)' => UnderWay(c)
    <3>1. Event(k, d) # Event("udp-state", c)
      BY DEF Event
    <3>2. Event(k, d) \in Events
      BY <1>e DEF Kinds
    <3> QED  BY <2>1, <2>3, <2>4, <3>1, <3>2, Appended
  <2>5. UnderWay(c)' => UnderWay(c)
    BY <2>1, <2>2, <2>4 DEF UnderWay
  <2> QED  BY <1>0, <2>1, <2>5
<1>6. ASSUME NEW d \in Clients, Receive(d) \/ Remove(d) PROVE Kept
  BY <1>1, <1>6 DEF Receive, Remove
<1>7. ASSUME MatchStarted \/ SendIdentifiers PROVE Kept
  BY <1>1, <1>7 DEF MatchStarted, SendIdentifiers
<1>8. ASSUME NEW s \in Servers, HandleUdp(s) PROVE Kept
  <2> DEFINE d == Head(events[s]).c
           k == Head(events[s]).k
  <2>1. events[s] # <<>> /\ events' = [events EXCEPT ![s] = Tail(@)]
    BY <1>8 DEF HandleUdp, Take
  <2>2. /\ fate' = fate /\ writing' = writing
        /\ hash' = IF k = "udp-state" THEN hash \cup ({d} \cap given) ELSE hash
    BY <1>8 DEF HandleUdp
  <2>3. ~(d = c /\ k = "udp-state")
    <3>1. events[s] \in Seq(Events)
      BY Queues
    <3>2. Head(events[s]) = events[s][1] /\ 1 \in DOMAIN events[s] /\ events[s][1] \in Events
      BY <2>1, <3>1
    <3>3. ASSUME d = c, k = "udp-state" PROVE FALSE
      <4>1. events[s][1] = Event("udp-state", c)
        BY <3>2, <3>3 DEF Events, Event, Kinds
      <4>2. UnderWay(c)
        BY <3>2, <4>1 DEF UnderWay
      <4> QED  BY <2>2, <4>2 DEF Clearing
    <3> QED  BY <3>3
  <2> HIDE DEF d, k
  <2>4. UnderWay(c)' => UnderWay(c)
    BY <2>1, <2>2, Taken
  <2> QED  BY <2>2, <2>3, <2>4 DEF Kept, Clearing
<1>9. ASSUME NEW s \in Servers, HandleTcp(s) \/ MatchEnded(s) \/ Ignore(s) PROVE Kept
  <2>1. events[s] # <<>> /\ events' = [events EXCEPT ![s] = Tail(@)]
    BY <1>9 DEF HandleTcp, MatchEnded, Ignore, Take
  <2>2. fate' = fate /\ writing' = writing /\ hash' = hash
    BY <1>9 DEF HandleTcp, MatchEnded, Ignore
  <2> QED  BY <1>0, <2>1, <2>2, Taken
<1>10. ASSUME NEW s \in Servers, MatchExited(s) PROVE Kept
  <2> DEFINE d == Head(events[s]).c
  <2>1. events[s] # <<>> /\ events' = [events EXCEPT ![s] = Tail(@)]
    BY <1>10 DEF MatchExited, Take
  <2>2. /\ fate' = [fate EXCEPT ![d] = IF UnderWay(d) THEN "late" ELSE "cleared"]
        /\ hash' = hash \ {d} /\ writing' = writing
    BY <1>10 DEF MatchExited
  <2>3. UnderWay(c)' => UnderWay(c)
    BY <2>1, <2>2, Taken
  <2> HIDE DEF d
  <2>4. CASE d = c
    <3>1. ~UnderWay(c)
      BY <1>f, <2>2, <2>4
    <3> QED  BY <2>2, <2>3, <2>4, <3>1 DEF Kept
  <2>5. CASE d # c
    <3>1. fate[c] = "cleared"
      BY <1>f, <2>2, <2>5
    <3> QED  BY <1>0, <2>2, <2>3, <3>1
  <2> QED  BY <2>4, <2>5
<1>11. ASSUME Timeout PROVE Kept
  <2>1. fate' = fate /\ hash' = hash /\ writing' = writing /\ Emit(Home, Event("ended", None))
    BY <1>11 DEF Timeout
  <2>2. Event("ended", None) \in Events /\ Event("ended", None) # Event("udp-state", c)
    BY DEF Event, Events
  <2> QED  BY <1>0, <2>1, <2>2, Appended, StateUpdatesAssumption
<1>12. ASSUME UNCHANGED vars PROVE Kept
  BY <1>1, <1>12 DEF vars
<1>13. Kept
  BY <1>2, <1>3, <1>4, <1>5, <1>6, <1>7, <1>8, <1>9, <1>10, <1>11, <1>12 DEF Next, Player, Handle
<1> QED  BY <1>13 DEF Kept

(* A client that left is no longer among the states the others are sent,    *)
(* unless an update of it was under way when clientLeft ran or was let in   *)
(* afterwards.                                                              *)
THEOREM LeaversCleared == Spec => []LeaverCleared
<1>1. Clearing => LeaverCleared
  BY DEF Clearing, LeaverCleared
<1> QED  BY <1>1, TypeCorrect, ClearingInit, ClearingNext, PTL DEF Spec
===============================================================================
