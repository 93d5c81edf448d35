---------------------------- MODULE WSProxyProofs -----------------------------
(***************************************************************************)
(* Proofs about WSProxy for any number of upstreams and requests: the      *)
(* rotation starves nobody, and every upstream that is out of it is being  *)
(* probed.                                                                 *)
(***************************************************************************)
EXTENDS WSProxy, TLAPS

(* One choice of the round robin moves the rotation onto i, and does not    *)
(* pass an upstream that is up (_getRoundRobinServer).                      *)
LEMMA NoneSkipped ==
    ASSUME NEW i \in Proxies, NEW x \in Proxies, RotationInv, RoundRobin(i),
           x # i, x \notin down
    PROVE  /\ IF x > i THEN x - i < Ahead(x) ELSE x - i + N < Ahead(x)
<1> USE ProxyAssumption DEF Proxies
<1>1. last \in -1..(N - 1)
  BY DEF RotationInv, TypeOK
<1>2. PICK k \in 0..(N - 1) : /\ i = Wrap(last + 1 + k)
                              /\ \A j \in 0..(k - 1) : Wrap(last + 1 + j) \in down
  BY DEF RoundRobin
<1>3. ASSUME NEW j \in 0..(k - 1) PROVE x # Wrap(last + 1 + j)
  BY <1>2, <1>3
<1> DEFINE a == Ahead(x)
<1>4. a \in 1..N /\ x = Wrap(last + a)
  BY <1>1 DEF Ahead, Wrap
<1>5. a > k + 1
  <2>1. CASE a <= k
    <3>1. a - 1 \in 0..(k - 1) /\ last + 1 + (a - 1) = last + a
      BY <1>1, <1>4, <2>1
    <3>2. x # Wrap(last + 1 + (a - 1))
      BY <1>3, <3>1
    <3> QED BY <1>4, <3>1, <3>2
  <2>2. CASE a = k + 1
    BY <1>1, <1>2, <1>4, <2>2
  <2> QED BY <1>2, <1>4, <2>1, <2>2
<1> QED BY <1>1, <1>2, <1>4, <1>5 DEF Ahead, Wrap

(* The rotation invariant holds in every behaviour. *)
THEOREM RotationInvariant == Spec => []RotationInv
<1> USE ProxyAssumption
<1>1. Init => RotationInv
  BY DEF Init, RotationInv, InTurn, TypeOK, Timers, Ahead, Proxies
<1>2. RotationInv /\ [Next]_vars => RotationInv'
  <2> SUFFICES ASSUME RotationInv, [Next]_vars PROVE RotationInv'
    OBVIOUS
  <2>1. ASSUME NEW r \in Requests, Route(r) PROVE RotationInv'
    <3>1. PICK i \in Proxies : /\ Chosen(i)
                               /\ sentTo' = [sentTo EXCEPT ![r] = i]
                               /\ doomed' = IF i \in alive THEN doomed ELSE doomed \cup {r}
                               /\ last' = IF mode = "RANDOM" THEN last ELSE i
                               /\ passed' = [x \in Proxies |-> Count(i, x)]
                               /\ mode' = mode
      BY <2>1 DEF Route
    <3>2. TypeOK'
      <4>1. last' \in -1..(N - 1) /\ passed' \in [Proxies -> 0..N]
        BY <3>1 DEF RotationInv, TypeOK, Count, Proxies
      <4>2. /\ sentTo' \in [Requests -> Proxies \cup {NoServer}]
            /\ doomed' \subseteq {u \in Requests : sentTo'[u] # NoServer}
        BY <3>1 DEF RotationInv, TypeOK, Proxies
      <4>3. UNCHANGED <<mode, down, timer, alive>>
        BY <2>1 DEF Route
      <4> QED BY <4>1, <4>2, <4>3 DEF RotationInv, TypeOK
    <3>3. ASSUME mode = "ROUND_ROBIN", NEW x \in Proxies PROVE InTurn(x)'
      <4>1. RoundRobin(i) /\ last' = i
        BY <3>1, <3>3 DEF Chosen
      <4>2. CASE x = i \/ x \in down
        <5>1. passed'[x] = 0
          BY <3>1, <4>2 DEF Count
        <5>2. Ahead(x)' <= N
          BY <4>1 DEF Ahead, Proxies
        <5>3. Ahead(x)' \in Int
          BY <4>1 DEF Ahead, Proxies
        <5> QED BY <5>1, <5>2, <5>3 DEF InTurn
      <4>3. CASE x # i /\ x \notin down
        <5>1. Ahead(x)' < Ahead(x)
          BY <4>1, <4>3, NoneSkipped DEF Ahead
        <5>2. /\ Ahead(x) \in Int /\ Ahead(x)' \in Int
              /\ passed[x] \in 0..N /\ passed[x] + Ahead(x) <= N
          BY <3>3, <4>1 DEF RotationInv, InTurn, TypeOK, Ahead, Proxies
        <5>3. Ahead(x)' >= 1
          BY <4>1 DEF Ahead, Proxies
        <5> QED BY <3>1, <4>3, <5>1, <5>2, <5>3 DEF Count, InTurn
      <4> QED BY <4>2, <4>3
    <3> QED BY <3>1, <3>2, <3>3 DEF RotationInv
  <2>2. ASSUME NEW r \in Requests, Answer(r) PROVE RotationInv'
    BY <2>2 DEF Answer, RotationInv, InTurn, TypeOK, Ahead, Proxies
  <2>3. ASSUME NEW r \in Requests, Fail(r) PROVE RotationInv'
    <3>1. sentTo[r] \in Proxies /\ mode' = mode /\ last' = last
      BY <2>3 DEF Fail, RotationInv, TypeOK
    <3>2. CASE timer[sentTo[r]] # "none"
      BY <2>3, <3>2 DEF Fail, StartFailoverTimer, RotationInv, InTurn, TypeOK, Ahead, Proxies
    <3>3. CASE timer[sentTo[r]] = "none"
      <4>1. passed' = [passed EXCEPT ![sentTo[r]] = 0]
        BY <2>3, <3>3 DEF Fail, StartFailoverTimer
      <4>2. mode = "ROUND_ROBIN" => \A i \in Proxies : InTurn(i)'
        BY <3>1, <4>1 DEF RotationInv, InTurn, TypeOK, Ahead, Proxies
      <4>3. TypeOK'
        <5> DEFINE i == sentTo[r]
        <5>1. /\ down' = down \cup {i} /\ timer' = [timer EXCEPT ![i] = "set"]
              /\ sentTo' = [sentTo EXCEPT ![r] = NoServer] /\ doomed' = doomed \ {r}
              /\ alive' = alive
          BY <2>3, <3>3 DEF Fail, StartFailoverTimer
        <5>2. i \in Proxies
          BY <3>1
        <5> HIDE DEF i
        <5>3. /\ down' \subseteq Proxies /\ timer' \in [Proxies -> Timers]
              /\ alive' \subseteq Proxies /\ last' \in -1..(N - 1)
              /\ mode' \in {"RANDOM", "ROUND_ROBIN"}
          BY <3>1, <5>1, <5>2 DEF RotationInv, TypeOK, Timers
        <5>4. /\ sentTo' \in [Requests -> Proxies \cup {NoServer}]
              /\ doomed' \subseteq {u \in Requests : sentTo'[u] # NoServer}
          BY <5>1 DEF RotationInv, TypeOK
        <5>5. passed' \in [Proxies -> 0..N]
          BY <3>1, <4>1 DEF RotationInv, TypeOK
        <5> QED BY <5>3, <5>4, <5>5 DEF TypeOK
      <4> QED BY <3>1, <4>2, <4>3 DEF RotationInv
    <3> QED BY <3>2, <3>3
  <2>4. ASSUME NEW i \in Proxies, TimerFires(i) \/ Probed(i) \/ ProbeReturns(i) PROVE RotationInv'
    <3>1. UNCHANGED <<mode, last, sentTo, doomed, alive, passed>>
      BY <2>4 DEF TimerFires, Probed, ProbeReturns
    <3>2. down' \subseteq Proxies /\ timer' \in [Proxies -> Timers]
      BY <2>4 DEF TimerFires, Probed, ProbeReturns, RotationInv, TypeOK, Timers
    <3> QED BY <3>1, <3>2 DEF RotationInv, InTurn, TypeOK, Ahead
  <2>5. ASSUME NEW i \in Proxies, Crash(i) \/ Recover(i) PROVE RotationInv'
    BY <2>5 DEF Crash, Recover, RotationInv, InTurn, TypeOK, Ahead, Proxies
  <2>6. CASE UNCHANGED vars
    BY <2>6 DEF vars, RotationInv, InTurn, TypeOK, Ahead, Proxies
  <2> QED BY <2>1, <2>2, <2>3, <2>4, <2>5, <2>6 DEF Next, ProxyStep
<1> QED BY <1>1, <1>2, PTL DEF Spec

(* In round robin mode no upstream that is up waits for its turn longer     *)
(* than one round, whatever drops out and comes back meanwhile.             *)
THEOREM RotationStarvesNobody == Spec => []NoneStarved
<1>1. RotationInv => NoneStarved
  BY ProxyAssumption DEF RotationInv, InTurn, TypeOK, NoneStarved, Ahead, Proxies
<1> QED BY <1>1, RotationInvariant, PTL

(* What DownIffProbed needs besides itself. *)
ProbeInv == /\ DownIffProbed
            /\ down \subseteq Proxies
            /\ timer \in [Proxies -> Timers]
            /\ sentTo \in [Requests -> Proxies \cup {NoServer}]
            /\ doomed \subseteq {r \in Requests : sentTo[r] # NoServer}

(* In either mode an upstream is out of the rotation exactly while its      *)
(* failover timer or the probe is on (_startFailoverTimer).                 *)
THEOREM DownMeansProbed == Spec => []DownIffProbed
<1> USE ProxyAssumption
<1>1. Init => ProbeInv
  BY DEF Init, ProbeInv, DownIffProbed, Timers
<1>2. ProbeInv /\ [Next]_vars => ProbeInv'
  <2> SUFFICES ASSUME ProbeInv, [Next]_vars PROVE ProbeInv'
    OBVIOUS
  <2> USE DEF ProbeInv, DownIffProbed
  <2>1. ASSUME NEW r \in Requests, Route(r) PROVE ProbeInv'
    BY <2>1 DEF Route, Proxies
  <2>2. ASSUME NEW r \in Requests, Answer(r) PROVE ProbeInv'
    BY <2>2 DEF Answer
  <2>3. ASSUME NEW r \in Requests, Fail(r) PROVE ProbeInv'
    <3>1. sentTo[r] \in Proxies
      BY <2>3 DEF Fail
    <3> QED BY <2>3, <3>1 DEF Fail, StartFailoverTimer, Timers
  <2>4. ASSUME NEW i \in Proxies, TimerFires(i) \/ Probed(i) PROVE ProbeInv'
    BY <2>4 DEF TimerFires, Probed, Timers
  <2>5. ASSUME NEW i \in Proxies, ProbeReturns(i) PROVE ProbeInv'
    BY <2>5 DEF ProbeReturns, Timers
  <2>6. ASSUME NEW i \in Proxies, Crash(i) \/ Recover(i) PROVE ProbeInv'
    BY <2>6 DEF Crash, Recover, Proxies
  <2>7. CASE UNCHANGED vars
    BY <2>7 DEF vars
  <2> QED BY <2>1, <2>2, <2>3, <2>4, <2>5, <2>6, <2>7 DEF Next, ProxyStep
<1>3. ProbeInv => DownIffProbed
  BY DEF ProbeInv
<1> QED BY <1>1, <1>2, <1>3, PTL DEF Spec
===============================================================================
