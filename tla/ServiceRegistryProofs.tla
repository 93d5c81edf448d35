------------------------ MODULE ServiceRegistryProofs -------------------------
(***************************************************************************)
(* The registry for any number of servers, zones and callers, and any      *)
(* interval, lifetime, delay and losses that RegistryAssumption allows.    *)
(***************************************************************************)
EXTENDS ServiceRegistry, TLAPS, FiniteSetTheorems

-------------------------------------------------------------------------------
CallSet == [step : {"idle", "keys", "mget", "ok", "failed"},
            zone : Zones \cup {Star}, keys : SUBSET Services,
            answer : SUBSET (Services \cup {Null}),
            steady : SUBSET Services]

LEMMA TypeInit == Init => TypeOK
BY RegistryAssumption DEF Init, TypeOK, Idle, Horizon

LEMMA TypeNext == TypeOK /\ [Next]_vars => TypeOK'
<1> SUFFICES ASSUME TypeOK, [Next]_vars PROVE TypeOK'
  OBVIOUS
<1>r. /\ Interval \in Nat \ {0} /\ MaxDelay \in Nat /\ MaxLost \in Nat /\ TTL \in Nat
      /\ Horizon \in Nat
  BY RegistryAssumption DEF Horizon
<1>1. ASSUME NEW s \in Services, RunAutoRegister(s) PROVE TypeOK'
  BY <1>1, <1>r DEF RunAutoRegister, TypeOK
<1>2. ASSUME NEW s \in Services, Register(s) PROVE TypeOK'
  BY <1>2, <1>r DEF Register, TypeOK
<1>3. ASSUME NEW s \in Services, Close(s) PROVE TypeOK'
  BY <1>3 DEF Close, TypeOK
<1>4. ASSUME NEW s \in Services, HandlePost(s) PROVE TypeOK'
  BY <1>4, <1>r DEF HandlePost, SetEntry, TypeOK
<1>5. ASSUME NEW s \in Services, Refuse(s) \/ RefuseBody(s) PROVE TypeOK'
  BY <1>5 DEF Refuse, RefuseBody, TypeOK
<1>6. ASSUME NEW s \in Services, FailPost(s) PROVE TypeOK'
  BY <1>6, <1>r DEF FailPost, TypeOK
<1>7. ASSUME NEW c \in Callers, NEW z \in Zones \cup {Star}, List(c, z) PROVE TypeOK'
  <2> DEFINE call == [Idle EXCEPT !.step = "keys", !.zone = z, !.steady = Listed]
  <2>1. call \in CallSet
    BY DEF Idle, Listed, CallSet, TypeOK
  <2>2. calls' \in [Callers -> CallSet]
    <3>1. calls' = [calls EXCEPT ![c] = call]
      BY <1>7 DEF List
    <3> HIDE DEF call
    <3> QED  BY <2>1, <3>1 DEF TypeOK, CallSet
  <2> QED  BY <1>7, <2>2 DEF List, TypeOK, CallSet
<1>8. ASSUME NEW c \in Callers, Keys(c) PROVE TypeOK'
  <2>1. calls \in [Callers -> CallSet] /\ Listed \subseteq Services
    BY DEF TypeOK, CallSet, Listed
  <2>2. /\ calls' = [x \in Callers |-> calls'[x]]
        /\ \A x \in Callers \ {c} : calls'[x] = calls[x]
    BY <1>8, <2>1 DEF Keys
  <2>3. PICK step \in {"failed", "mget"} :
           calls'[c] = [calls[c] EXCEPT !.step = step, !.keys = Listed]
    BY <1>8, <2>1 DEF Keys
  <2>4. calls'[c] \in CallSet
    BY <2>1, <2>3 DEF CallSet
  <2>5. calls' \in [Callers -> CallSet]
    BY <2>1, <2>2, <2>4
  <2> QED  BY <1>8, <2>5 DEF Keys, TypeOK, CallSet
<1>9. ASSUME NEW c \in Callers, MGet(c) PROVE TypeOK'
  <2>1. Select(Values(c), calls[c].zone) \subseteq Services \cup {Null}
    BY <1>9 DEF Select, Values, Listed
  <2>2. calls \in [Callers -> CallSet]
    BY DEF TypeOK, CallSet
  <2>3. /\ calls' = [x \in Callers |-> calls'[x]]
        /\ \A x \in Callers \ {c} : calls'[x] = calls[x]
    BY <1>9, <2>2 DEF MGet
  <2>4. PICK step \in {"failed", "ok"}, A \in SUBSET (Services \cup {Null}) :
           calls'[c] = [calls[c] EXCEPT !.step = step, !.answer = A]
    BY <1>9, <2>1, <2>2 DEF MGet
  <2>5. calls'[c] \in CallSet
    BY <2>2, <2>4 DEF CallSet
  <2>6. calls' \in [Callers -> CallSet]
    BY <2>2, <2>3, <2>5
  <2> QED  BY <1>9, <2>6 DEF MGet, TypeOK, CallSet
<1>10. ASSUME NEW c \in Callers, Answered(c) PROVE TypeOK'
  <2>1. Idle \in CallSet
    BY DEF Idle, CallSet
  <2>2. calls' \in [Callers -> CallSet]
    BY <1>10, <2>1 DEF Answered, TypeOK, CallSet
  <2> QED  BY <1>10, <2>2 DEF Answered, TypeOK, CallSet
<1>11. CASE Tick
  <2>1. timer' \in [Services -> 0..Interval] /\ ttl' \in [Services -> 0..TTL]
        /\ since' \in [Services -> 0..Horizon]
    <3>1. /\ timer \in [Services -> 0..Interval] /\ ttl \in [Services -> 0..TTL]
          /\ since \in [Services -> 0..Horizon]
      BY DEF TypeOK
    <3>2. timer' \in [Services -> 0..Interval]
      BY <1>11, <1>r, <3>1 DEF Tick
    <3>3. ttl' \in [Services -> 0..TTL]
      <4>1. ttl' = [s \in Services |-> Less(ttl[s])]
        BY <1>11 DEF Tick
      <4> QED  BY <1>r, <3>1, <4>1 DEF Less
    <3>4. since' \in [Services -> 0..Horizon]
      <4>1. since' = [s \in Services |->
                         IF (phase[s] = "gone" \/ since[s] > 0) /\ since[s] < Horizon
                         THEN since[s] + 1 ELSE since[s]]
        BY <1>11 DEF Tick
      <4> QED  BY <1>r, <3>1, <4>1
    <3> QED  BY <3>2, <3>3, <3>4
  <2>2. posts' \in [Services -> SUBSET (0..MaxDelay)]
    <3>1. ASSUME NEW s \in Services, NEW age \in posts[s] PROVE age + 1 \in 0..MaxDelay
      <4>1. age \in 0..MaxDelay
        BY DEF TypeOK
      <4>2. age # MaxDelay
        BY <1>11 DEF Tick
      <4> QED  BY <4>1, <4>2, <1>r
    <3> QED  BY <1>11, <3>1 DEF Tick
  <2>3. calls' \in [Callers -> CallSet]
    <3>1. ASSUME NEW c \in Callers
          PROVE  /\ calls'[c] \in CallSet
                 /\ calls' = [x \in Callers |-> calls'[x]]
      <4>1. calls[c] \in CallSet
        BY DEF TypeOK, CallSet
      <4>2. PICK S \in SUBSET Services : calls'[c] = [calls[c] EXCEPT !.steady = S]
        <5> DEFINE S == IF calls[c].step \in {"keys", "mget"}
                        THEN {s \in calls[c].steady : ttl[s] > 1} ELSE calls[c].steady
        <5>1. S \in SUBSET Services
          BY <4>1 DEF CallSet
        <5>2. calls'[c] = [calls[c] EXCEPT !.steady = S]
          BY <1>11 DEF Tick
        <5> QED  BY <5>1, <5>2
      <4>3. calls' = [x \in Callers |-> calls'[x]]
        BY <1>11 DEF Tick
      <4> QED  BY <4>1, <4>2, <4>3 DEF CallSet
    <3>2. calls' = [x \in Callers |-> calls'[x]]
      BY <1>11 DEF Tick
    <3> QED  BY <3>1, <3>2
  <2> QED  BY <1>11, <2>1, <2>2, <2>3 DEF Tick, TypeOK, CallSet
<1>12. CASE UNCHANGED vars
  BY <1>12 DEF vars, TypeOK
<1> QED  BY <1>1, <1>2, <1>3, <1>4, <1>5, <1>6, <1>7, <1>8, <1>9, <1>10, <1>11, <1>12 DEF Next

(* Every variable keeps to its range, the ages of POSTs under way and the   *)
(* lifetimes included.                                                      *)
THEOREM TypeCorrect == Spec => []TypeOK
BY TypeInit, TypeNext, PTL DEF Spec

-------------------------------------------------------------------------------
(* Who has gone.  A POST that is under way was sent before its sender went, *)
(* so it is at least as old as the absence, and the entry it writes lives   *)
(* for TTL from there.                                                      *)

Fading ==
    \A s \in Services :
        /\ ttl[s] > 0 => s \in trusted \cap complete /\ since[s] + ttl[s] <= TTL + MaxDelay
        /\ \A age \in posts[s] : since[s] <= age
        /\ since[s] > 0 => phase[s] = "gone"

LEMMA FadingInit == Init => Fading
BY RegistryAssumption DEF Init, Fading

LEMMA FadingNext == TypeOK /\ Fading /\ [Next]_vars => Fading'
<1> SUFFICES ASSUME TypeOK, Fading, [Next]_vars PROVE Fading'
  OBVIOUS
<1>r. /\ Interval \in Nat \ {0} /\ MaxDelay \in Nat /\ TTL \in Nat /\ Horizon \in Nat
  BY RegistryAssumption DEF Horizon
<1>1. ASSUME NEW s \in Services, RunAutoRegister(s) PROVE Fading'
  BY <1>1 DEF RunAutoRegister, TypeOK, Fading
<1>2. ASSUME NEW s \in Services, Register(s) PROVE Fading'
  BY <1>2 DEF Register, TypeOK, Fading
<1>3. ASSUME NEW s \in Services, Close(s) PROVE Fading'
  BY <1>3 DEF Close, TypeOK, Fading
<1>4. ASSUME NEW s \in Services, HandlePost(s) PROVE Fading'
  <2>1. PICK age \in posts[s] : posts' = [posts EXCEPT ![s] = @ \ {age}]
    BY <1>4 DEF HandlePost
  <2>2. age \in 0..MaxDelay /\ since[s] \in Nat /\ since[s] <= age
    BY DEF TypeOK, Fading
  <2>3. since[s] + TTL <= TTL + MaxDelay
    BY <2>2, <1>r
  <2> QED  BY <1>4, <2>1, <2>3 DEF HandlePost, SetEntry, TypeOK, Fading
<1>5. ASSUME NEW s \in Services, Refuse(s) \/ RefuseBody(s) PROVE Fading'
  BY <1>5 DEF Refuse, RefuseBody, TypeOK, Fading
<1>6. ASSUME NEW s \in Services, FailPost(s) PROVE Fading'
  BY <1>6 DEF FailPost, TypeOK, Fading
<1>7. CASE UNCHANGED <<trusted, complete, phase, timer, posts, lost, ttl, since>>
  BY <1>7 DEF Fading
<1>8. CASE Tick
  <2> SUFFICES ASSUME NEW s \in Services
               PROVE  /\ ttl'[s] > 0 => s \in (trusted \cap complete)' /\ since'[s] + ttl'[s] <= TTL + MaxDelay
                      /\ \A age \in posts'[s] : since'[s] <= age
                      /\ since'[s] > 0 => phase'[s] = "gone"
    BY DEF Fading
  <2>t. since[s] \in Nat /\ ttl[s] \in Nat /\ posts[s] \subseteq 0..MaxDelay
    BY DEF TypeOK
  <2>1. since'[s] \in Nat /\ since'[s] <= since[s] + 1 /\ (since'[s] > 0 => phase[s] = "gone")
    BY <1>8, <2>t DEF Tick, Fading
  <2>2. ttl'[s] > 0 => ttl[s] > 0 /\ ttl'[s] = ttl[s] - 1
    BY <1>8, <2>t DEF Tick, Less
  <2>3. ttl'[s] > 0 => s \in (trusted \cap complete)' /\ since'[s] + ttl'[s] <= TTL + MaxDelay
    <3>1. ttl[s] > 0 => s \in trusted \cap complete /\ since[s] + ttl[s] <= TTL + MaxDelay
      BY DEF Fading
    <3> QED  BY <1>8, <2>t, <2>1, <2>2, <3>1, <1>r DEF Tick
  <2>4. ASSUME NEW age \in posts'[s] PROVE since'[s] <= age
    <3>1. PICK before \in posts[s] : age = before + 1
      BY <1>8 DEF Tick
    <3>2. since[s] <= before /\ before \in Nat
      BY <2>t DEF Fading
    <3> QED  BY <2>t, <2>1, <3>1, <3>2
  <2> QED  BY <1>8, <2>1, <2>3, <2>4 DEF Tick
<1>9. ASSUME NEW c \in Callers, NEW z \in Zones \cup {Star}, List(c, z) PROVE Fading'
  BY <1>7, <1>9 DEF List
<1>10. ASSUME NEW c \in Callers, Keys(c) \/ MGet(c) \/ Answered(c) PROVE Fading'
  BY <1>7, <1>10 DEF Keys, MGet, Answered
<1>11. CASE UNCHANGED vars
  BY <1>7, <1>11 DEF vars
<1> QED  BY <1>1, <1>2, <1>3, <1>4, <1>5, <1>6, <1>8, <1>9, <1>10, <1>11 DEF Next

(* Nobody is listed that the registry refuses or that has been gone for     *)
(* longer than an entry lives after the last POST, however late that is.    *)
THEOREM GhostsFade == Spec => []GhostsExpire
<1>1. TypeOK /\ Fading => GhostsExpire
  <2> SUFFICES ASSUME TypeOK, Fading, NEW s \in Services, ttl[s] > 0
               PROVE  s \in trusted \cap complete /\ since[s] < Horizon
    BY DEF GhostsExpire, Listed
  <2>1. s \in trusted \cap complete /\ since[s] + ttl[s] <= TTL + MaxDelay
    BY DEF Fading
  <2>2. since[s] \in Nat /\ ttl[s] \in Nat /\ TTL \in Nat /\ MaxDelay \in Nat
    BY RegistryAssumption DEF TypeOK
  <2> QED  BY <2>1, <2>2 DEF Horizon
<1> QED  BY <1>1, FadingInit, FadingNext, TypeCorrect, PTL DEF Spec

-------------------------------------------------------------------------------
(* Who stays.  A server's POSTs leave an interval apart, so those under way *)
(* fit with their intervals into the age of the oldest.  Each of them and   *)
(* each failure stands for one interval without renewal: what an entry has  *)
(* lost of its life is at most an interval for each and the current one.    *)

Under(s) == Cardinality(posts[s])

Younger(s, b) == {age \in posts[s] : age <= b}

Spaced(s) ==
    /\ \A b \in posts[s] : b + timer[s] >= Interval
    /\ \A b \in Nat : Interval * Cardinality(Younger(s, b)) <= b + timer[s]

Renewed(s) == ttl[s] > 0 => ttl[s] + Interval * (lost[s] + Under(s) + 1) >= TTL + timer[s]

Steady ==
    \A s \in Services :
        /\ phase[s] = "new" => ttl[s] = 0 /\ posts[s] = {}
        /\ phase[s] = "running" => Spaced(s) /\ Renewed(s)

(* Time leaves the number of POSTs alone.                                   *)
LEMMA Shifted ==
    ASSUME NEW n \in Nat, NEW S \in SUBSET (0..n)
    PROVE  /\ IsFiniteSet(S) /\ Cardinality(S) \in Nat
           /\ Cardinality({x + 1 : x \in S}) = Cardinality(S)
<1> DEFINE T == {x + 1 : x \in S}
           f == [x \in S |-> x + 1]
<1>1. IsFiniteSet(S) /\ Cardinality(S) \in Nat
  <2>1. IsFiniteSet(0..n)
    BY FS_Interval
  <2>2. IsFiniteSet(S)
    BY <2>1, FS_Subset
  <2> QED  BY <2>2, FS_CardinalityType
<1>2. f \in Surjection(S, T) /\ f \in Injection(S, T)
  <2>1. \A x \in S : x \in Int
    OBVIOUS
  <2>2. f \in [S -> T]
    OBVIOUS
  <2>3. \A a, b \in S : f[a] = f[b] => a = b
    BY <2>1
  <2>4. \A y \in T : \E a \in S : f[a] = y
    OBVIOUS
  <2> HIDE DEF f, T
  <2> QED  BY <2>2, <2>3, <2>4 DEF Surjection, Injection, IsInjective
<1> HIDE DEF f, T
<1>3. Cardinality(T) = Cardinality(S)
  BY <1>1, <1>2, FS_Surjection
<1> QED  BY <1>1, <1>3 DEF T

LEMMA Counted ==
    ASSUME TypeOK, NEW s \in Services
    PROVE  /\ IsFiniteSet(posts[s]) /\ Under(s) \in Nat
           /\ \A b : /\ IsFiniteSet(Younger(s, b)) /\ Cardinality(Younger(s, b)) \in Nat
                     /\ Cardinality(Younger(s, b)) <= Under(s)
<1>1. posts[s] \in SUBSET (0..MaxDelay) /\ MaxDelay \in Nat
  BY RegistryAssumption DEF TypeOK
<1>2. IsFiniteSet(posts[s]) /\ Under(s) \in Nat
  BY <1>1, Shifted DEF Under
<1>3. ASSUME NEW b
      PROVE  /\ IsFiniteSet(Younger(s, b)) /\ Cardinality(Younger(s, b)) \in Nat
             /\ Cardinality(Younger(s, b)) <= Under(s)
  <2>1. Younger(s, b) \in SUBSET posts[s]
    BY DEF Younger
  <2>2. IsFiniteSet(Younger(s, b)) /\ Cardinality(Younger(s, b)) <= Under(s)
    BY <1>2, <2>1, FS_Subset DEF Under
  <2> QED  BY <2>2, FS_CardinalityType
<1> QED  BY <1>2, <1>3

LEMMA Multiples ==
    ASSUME NEW i \in Nat
    PROVE  /\ \A m \in Nat : i * m \in Nat /\ i * (m + 1) = i * m + i
           /\ \A m, k \in Nat : m <= k => i * m <= i * k
BY SMT

LEMMA SteadyInit == Init => Steady
BY DEF Init, Steady

(* A server of which nothing has changed keeps its bounds.                  *)
LEMMA Untouched ==
    ASSUME Steady, NEW s \in Services,
           phase'[s] = phase[s], timer'[s] = timer[s], posts'[s] = posts[s],
           lost'[s] = lost[s], ttl'[s] = ttl[s]
    PROVE  /\ phase'[s] = "new" => ttl'[s] = 0 /\ posts'[s] = {}
           /\ phase'[s] = "running" => Spaced(s)' /\ Renewed(s)'
BY DEF Steady, Spaced, Renewed, Younger, Under

(* A POST that ends leaves the others spaced.                               *)
LEMMA Ended ==
    ASSUME TypeOK, NEW s \in Services, Spaced(s), NEW age \in posts[s],
           posts'[s] = posts[s] \ {age}, timer'[s] = timer[s]
    PROVE  Spaced(s)' /\ Under(s)' = Under(s) - 1 /\ Under(s) >= 1
<1>1. Under(s)' = Under(s) - 1 /\ Under(s) >= 1
  <2>1. Under(s)' = Under(s) - 1
    BY Counted, FS_RemoveElement DEF Under
  <2>2. Under(s) # 0
    BY Counted, FS_EmptySet DEF Under
  <2> QED  BY <2>1, <2>2, Counted
<1>2. ASSUME NEW b \in Nat
      PROVE  Interval * Cardinality(Younger(s, b)') <= b + timer[s]
  <2>2. Interval * Cardinality(Younger(s, b)) <= b + timer[s]
    BY DEF Spaced
  <2>3. /\ Cardinality(Younger(s, b)') \in Nat
        /\ Cardinality(Younger(s, b)') <= Cardinality(Younger(s, b))
    <3>1. Younger(s, b)' \in SUBSET Younger(s, b)
      BY DEF Younger
    <3>2. IsFiniteSet(Younger(s, b)')
      BY <3>1, Counted, FS_Subset
    <3> QED  BY <3>1, <3>2, Counted, FS_Subset, FS_CardinalityType
  <2>4. /\ Interval * Cardinality(Younger(s, b)') <= Interval * Cardinality(Younger(s, b))
        /\ Interval * Cardinality(Younger(s, b)') \in Nat
        /\ Interval * Cardinality(Younger(s, b)) \in Nat
    BY <2>3, Counted, Multiples, RegistryAssumption
  <2>5. timer[s] \in Nat
    BY RegistryAssumption DEF TypeOK
  <2> QED  BY <2>2, <2>4, <2>5
<1> QED  BY <1>1, <1>2 DEF Spaced, Younger

(* What time does to a server that runs: every term but the lifetime moves  *)
(* along, and the lifetime goes down with the timer.                        *)
LEMMA Ticked ==
    ASSUME TypeOK, NEW s \in Services, phase[s] = "running", Spaced(s), Tick
    PROVE  /\ timer[s] \in Nat \ {0} /\ timer'[s] = timer[s] - 1
           /\ Spaced(s)' /\ Under(s)' = Under(s)
<1>1. timer[s] \in Nat \ {0} /\ timer'[s] = timer[s] - 1
  BY RegistryAssumption DEF TypeOK, Tick
<1>2. posts[s] \in SUBSET (0..MaxDelay) /\ MaxDelay \in Nat
  BY RegistryAssumption DEF TypeOK
<1>3. posts'[s] = {x + 1 : x \in posts[s]}
  BY DEF Tick
<1>4. Under(s)' = Under(s)
  BY <1>2, <1>3, Shifted DEF Under
<1>n. \A x \in posts[s] : x \in Nat
  BY <1>2
<1>5. ASSUME NEW c \in posts'[s] PROVE c + timer'[s] >= Interval
  <2>1. PICK b \in posts[s] : c = b + 1
    BY <1>3
  <2>2. b + timer[s] >= Interval
    BY DEF Spaced
  <2> QED  BY <1>1, <1>n, <2>1, <2>2
<1>6. Interval * Cardinality(Younger(s, 0)') <= 0 + timer'[s]
  <2>1. Younger(s, 0)' = {}
    BY <1>3, <1>n DEF Younger
  <2> QED  BY <1>1, <2>1, FS_EmptySet, RegistryAssumption
<1>7. ASSUME NEW c \in Nat \ {0}
      PROVE  Interval * Cardinality(Younger(s, c)') <= c + timer'[s]
  <2> DEFINE b == c - 1
  <2>1. b \in Nat /\ c = b + 1
    OBVIOUS
  <2> HIDE DEF b
  <2>2. b \in Nat /\ \A x \in posts[s] : x \in Nat
    BY <1>n, <2>1
  <2>3. Interval * Cardinality(Younger(s, b)) <= b + timer[s]
    BY <2>1 DEF Spaced
  <2>4. Younger(s, c)' = {x + 1 : x \in Younger(s, b)}
    <3>1. Younger(s, c)' = {y \in {x + 1 : x \in posts[s]} : y <= b + 1}
      BY <1>3, <2>1 DEF Younger
    <3>2. \A x \in posts[s] : x + 1 <= b + 1 <=> x <= b
      BY <2>2
    <3> QED  BY <3>1, <3>2 DEF Younger
  <2>5. Younger(s, b) \in SUBSET (0..MaxDelay)
    BY <1>2 DEF Younger
  <2>6. Cardinality(Younger(s, c)') = Cardinality(Younger(s, b))
    BY <1>2, <2>4, <2>5, Shifted
  <2>7. c + timer'[s] = b + timer[s]
    BY <1>1, <2>1, <2>2
  <2> QED  BY <2>3, <2>6, <2>7
<1> QED  BY <1>1, <1>4, <1>5, <1>6, <1>7 DEF Spaced, Younger

(* No entry of a server that runs is in its last tick when time passes.     *)
LEMMA Alive ==
    ASSUME TypeOK, NEW s \in Services, phase[s] = "running", Spaced(s), Renewed(s),
           ttl[s] > 0, Tick
    PROVE  ttl[s] > 1
<1>r. /\ Interval \in Nat /\ MaxDelay \in Nat /\ MaxLost \in Nat /\ TTL \in Nat
      /\ TTL > (MaxLost + 1) * Interval + MaxDelay
  BY RegistryAssumption
<1>t. ttl[s] \in Nat /\ lost[s] \in 0..MaxLost /\ timer[s] \in Nat /\ Under(s) \in Nat
  BY RegistryAssumption, Counted DEF TypeOK
<1>1. timer[s] > 0 /\ MaxDelay \notin posts[s]
  BY DEF Tick
<1>2. Interval * Under(s) <= MaxDelay + timer[s] - 1 \/ Under(s) = 0
  <2>1. \A x \in posts[s] : x \in 0..(MaxDelay - 1)
    <3>1. posts[s] \subseteq 0..MaxDelay
      BY DEF TypeOK
    <3> QED  BY <1>r, <1>1, <3>1
  <2>2. CASE MaxDelay = 0
    <3>1. posts[s] = {}
      BY <2>1, <2>2
    <3> QED  BY <3>1, FS_EmptySet DEF Under
  <2>3. CASE MaxDelay - 1 \in Nat
    <3>1. Younger(s, MaxDelay - 1) = posts[s]
      BY <2>1, <2>3 DEF Younger
    <3>2. Interval * Under(s) <= (MaxDelay - 1) + timer[s]
      BY <2>3, <3>1 DEF Spaced, Under
    <3> QED  BY <1>r, <1>t, <3>2
  <2> QED  BY <1>r, <2>2, <2>3
<1>3. /\ Interval * (lost[s] + Under(s) + 1) = Interval * (lost[s] + 1) + Interval * Under(s)
      /\ Interval * (lost[s] + 1) <= Interval * (MaxLost + 1)
      /\ Interval * (MaxLost + 1) = (MaxLost + 1) * Interval
      /\ Interval * 0 = 0
  <2>1. /\ lost[s] + 1 \in Nat /\ MaxLost + 1 \in Nat /\ lost[s] + 1 <= MaxLost + 1
    BY <1>r, <1>t
  <2>2. \A m, k \in Nat : Interval * (m + k + 1) = Interval * (m + 1) + Interval * k
    BY <1>r
  <2>3. \A m \in Nat : Interval * m = m * Interval
    BY <1>r
  <2>4. Interval * (lost[s] + 1) <= Interval * (MaxLost + 1)
    BY <1>r, <2>1, Multiples
  <2> QED  BY <1>r, <1>t, <2>1, <2>2, <2>3, <2>4
<1>4. /\ Interval * (lost[s] + Under(s) + 1) \in Nat /\ Interval * Under(s) \in Nat
      /\ Interval * (lost[s] + 1) \in Nat /\ Interval * (MaxLost + 1) \in Nat
  BY <1>r, <1>t, Multiples
<1>5. ttl[s] + Interval * (lost[s] + Under(s) + 1) >= TTL + timer[s]
  BY DEF Renewed
<1>6. CASE Under(s) = 0
  BY <1>r, <1>t, <1>1, <1>3, <1>4, <1>5, <1>6
<1>7. CASE Interval * Under(s) <= MaxDelay + timer[s] - 1
  BY <1>r, <1>t, <1>1, <1>3, <1>4, <1>5, <1>7
<1> QED  BY <1>2, <1>6, <1>7

LEMMA SteadyNext == TypeOK /\ Fading /\ Steady /\ [Next]_vars => Steady'
<1> SUFFICES ASSUME TypeOK, Fading, Steady, [Next]_vars, NEW s \in Services
             PROVE  /\ phase'[s] = "new" => ttl'[s] = 0 /\ posts'[s] = {}
                    /\ phase'[s] = "running" => Spaced(s)' /\ Renewed(s)'
  BY DEF Steady
<1> DEFINE Kept == /\ phase'[s] = "new" => ttl'[s] = 0 /\ posts'[s] = {}
                   /\ phase'[s] = "running" => Spaced(s)' /\ Renewed(s)'
<1>r. /\ Interval \in Nat /\ Interval > 0 /\ MaxDelay \in Nat /\ MaxLost \in Nat /\ TTL \in Nat
      /\ TTL > 0
  <2>1. (MaxLost + 1) * Interval \in Nat
    BY RegistryAssumption, Multiples
  <2> QED  BY <2>1, RegistryAssumption
<1>t. /\ ttl[s] \in Nat /\ lost[s] \in Nat /\ timer[s] \in 0..Interval /\ Under(s) \in Nat
      /\ posts[s] \in SUBSET Nat
  BY <1>r, Counted DEF TypeOK
<1>0. ASSUME phase'[s] = phase[s], timer'[s] = timer[s], posts'[s] = posts[s],
             lost'[s] = lost[s], ttl'[s] = ttl[s]
      PROVE  Kept
  BY <1>0, Untouched
<1> HIDE DEF Kept
<1>1. ASSUME RunAutoRegister(s) PROVE Kept
  <2>1. ttl[s] = 0 /\ posts[s] = {}
    BY <1>1 DEF RunAutoRegister, Steady
  <2>2. /\ ttl'[s] = 0 /\ posts'[s] = {} /\ timer'[s] = Interval /\ phase'[s] = "running"
    BY <1>1, <2>1 DEF RunAutoRegister, TypeOK
  <2>3. \A b : Younger(s, b)' = {}
    BY <2>2 DEF Younger
  <2>4. Spaced(s)'
    BY <1>r, <2>2, <2>3, FS_EmptySet DEF Spaced, Younger
  <2> QED  BY <2>2, <2>4 DEF Kept, Renewed
<1>2. ASSUME Register(s) PROVE Kept
  <2>1. /\ phase[s] = "running" /\ phase'[s] = "running" /\ timer[s] = 0
        /\ timer'[s] = Interval /\ posts'[s] = posts[s] \cup {0}
        /\ ttl'[s] = ttl[s] /\ lost'[s] = lost[s]
    BY <1>2 DEF Register, TypeOK
  <2>2. Spaced(s) /\ Renewed(s)
    BY <2>1 DEF Steady
  <2>3. 0 \notin posts[s]
    BY <1>r, <2>1, <2>2 DEF Spaced
  <2>4. Under(s)' = Under(s) + 1
    <3>1. IsFiniteSet(posts[s])
      BY Counted
    <3>2. Cardinality(posts[s] \cup {0}) = Cardinality(posts[s]) + 1
      BY <2>3, <3>1, FS_AddElement
    <3> QED  BY <2>1, <3>2 DEF Under
  <2>5. ASSUME NEW b \in Nat
        PROVE  Interval * Cardinality(Younger(s, b)') <= b + timer'[s]
    <3>1. Younger(s, b)' = Younger(s, b) \cup {0} /\ 0 \notin Younger(s, b)
      BY <2>1, <2>3 DEF Younger
    <3>2. Cardinality(Younger(s, b)') = Cardinality(Younger(s, b)) + 1
      BY <3>1, Counted, FS_AddElement
    <3>3. Cardinality(Younger(s, b)) \in Nat
      BY Counted
    <3>4. Interval * Cardinality(Younger(s, b)') = Interval * Cardinality(Younger(s, b)) + Interval
      BY <1>r, <3>2, <3>3, Multiples
    <3>5. Interval * Cardinality(Younger(s, b)) <= b + 0
      BY <2>1, <2>2 DEF Spaced
    <3>6. Interval * Cardinality(Younger(s, b)) \in Nat
      BY <1>r, <3>3, Multiples
    <3> QED  BY <1>r, <2>1, <3>4, <3>5, <3>6
  <2>6. \A b \in posts'[s] : b + timer'[s] >= Interval
    BY <1>r, <1>t, <2>1
  <2>7. Spaced(s)'
    BY <2>5, <2>6 DEF Spaced, Younger
  <2>8. ASSUME ttl[s] > 0
        PROVE  ttl[s] + Interval * (lost[s] + (Under(s) + 1) + 1) >= TTL + Interval
    <3>1. ttl[s] + Interval * (lost[s] + Under(s) + 1) >= TTL
      BY <1>r, <2>1, <2>2, <2>8 DEF Renewed
    <3> DEFINE n == lost[s] + Under(s) + 1
    <3>2. n \in Nat /\ lost[s] + (Under(s) + 1) + 1 = n + 1
      BY <1>t
    <3> HIDE DEF n
    <3>3. Interval * (n + 1) = Interval * n + Interval /\ Interval * n \in Nat
      BY <1>r, <3>2, Multiples
    <3>4. ttl[s] + Interval * n >= TTL
      BY <3>1 DEF n
    <3>5. ttl[s] + Interval * (n + 1) >= TTL + Interval
      BY <1>r, <1>t, <3>3, <3>4
    <3> QED  BY <3>2, <3>5
  <2>9. Renewed(s)'
    BY <2>1, <2>4, <2>8 DEF Renewed
  <2> QED  BY <2>1, <2>7, <2>9 DEF Kept
<1>3. ASSUME Close(s) PROVE Kept
  BY <1>3 DEF Close, TypeOK, Kept
<1>4. ASSUME HandlePost(s) PROVE Kept
  <2>1. PICK age \in posts[s] : posts'[s] = posts[s] \ {age}
    BY <1>4 DEF HandlePost, TypeOK
  <2>2. phase'[s] = phase[s] /\ timer'[s] = timer[s] /\ lost'[s] = 0 /\ ttl'[s] = TTL
    BY <1>4 DEF HandlePost, SetEntry, TypeOK
  <2>3. phase[s] # "new"
    BY <2>1 DEF Steady
  <2>4. ASSUME phase[s] = "running" PROVE Spaced(s)' /\ Renewed(s)'
    <3>1. Spaced(s)' /\ Under(s)' \in Nat
      BY <2>1, <2>2, <2>4, Ended, <1>t DEF Steady
    <3>2. Interval * (Under(s)' + 1) = Interval * Under(s)' + Interval
          /\ Interval * Under(s)' \in Nat
      BY <1>r, <3>1, Multiples
    <3>3. TTL + Interval * (Under(s)' + 1) >= TTL + timer[s]
      BY <1>r, <1>t, <3>2
    <3>4. 0 + Under(s)' + 1 = Under(s)' + 1
      BY <3>1
    <3>5. Renewed(s)'
      BY <2>2, <3>3, <3>4 DEF Renewed
    <3> QED  BY <3>1, <3>5
  <2> QED  BY <2>2, <2>3, <2>4 DEF Kept
<1>5. ASSUME Refuse(s) \/ RefuseBody(s) PROVE Kept
  <2>1. PICK age \in posts[s] : posts'[s] = posts[s] \ {age}
    BY <1>5 DEF Refuse, RefuseBody, TypeOK
  <2>2. phase'[s] = phase[s] /\ timer'[s] = timer[s] /\ lost'[s] = lost[s] /\ ttl'[s] = ttl[s]
    BY <1>5 DEF Refuse, RefuseBody
  <2>3. phase[s] # "new"
    BY <2>1 DEF Steady
  <2>4. ttl[s] = 0
    BY <1>5, <1>t DEF Refuse, RefuseBody, Fading
  <2>5. ASSUME phase[s] = "running" PROVE Spaced(s)' /\ Renewed(s)'
    BY <2>1, <2>2, <2>4, <2>5, Ended DEF Steady, Renewed
  <2> QED  BY <2>2, <2>3, <2>5 DEF Kept
<1>6. ASSUME FailPost(s) PROVE Kept
  <2>1. PICK age \in posts[s] : posts'[s] = posts[s] \ {age}
    BY <1>6 DEF FailPost, TypeOK
  <2>2. phase'[s] = phase[s] /\ timer'[s] = timer[s] /\ lost'[s] = lost[s] + 1 /\ ttl'[s] = ttl[s]
    BY <1>6 DEF FailPost, TypeOK
  <2>3. phase[s] # "new"
    BY <2>1 DEF Steady
  <2>4. ASSUME phase[s] = "running" PROVE Spaced(s)' /\ Renewed(s)'
    <3>1. Spaced(s)' /\ Under(s)' = Under(s) - 1
      BY <2>1, <2>2, <2>4, Ended DEF Steady
    <3>2. lost'[s] + Under(s)' + 1 = lost[s] + Under(s) + 1
      BY <1>t, <2>2, <3>1
    <3>3. Renewed(s)
      BY <2>4 DEF Steady
    <3> QED  BY <2>2, <3>1, <3>2, <3>3 DEF Renewed
  <2> QED  BY <2>2, <2>3, <2>4 DEF Kept
<1>7. ASSUME Tick PROVE Kept
  <2>1. phase' = phase /\ lost'[s] = lost[s] /\ ttl'[s] = Less(ttl[s])
    BY <1>7 DEF Tick
  <2>2. ASSUME phase[s] = "new" PROVE ttl'[s] = 0 /\ posts'[s] = {}
    BY <1>7, <2>1, <2>2 DEF Steady, Less, Tick
  <2>3. ASSUME phase[s] = "running" PROVE Spaced(s)' /\ Renewed(s)'
    <3>1. Spaced(s) /\ Renewed(s)
      BY <2>3 DEF Steady
    <3>2. /\ timer'[s] = timer[s] - 1 /\ Spaced(s)' /\ Under(s)' = Under(s)
      BY <1>7, <2>3, <3>1, Ticked
    <3>3. ttl'[s] > 0 => ttl[s] > 0 /\ ttl'[s] = ttl[s] - 1
      BY <1>t, <2>1 DEF Less
    <3>4. Interval * (lost[s] + Under(s) + 1) \in Nat
      BY <1>r, <1>t, Multiples
    <3>5. ASSUME ttl'[s] > 0
          PROVE  ttl'[s] + Interval * (lost[s] + Under(s) + 1) >= TTL + timer'[s]
      BY <1>r, <1>t, <3>1, <3>2, <3>3, <3>4, <3>5 DEF Renewed
    <3> QED  BY <2>1, <3>2, <3>5 DEF Renewed
  <2> QED  BY <2>1, <2>2, <2>3 DEF Kept
<1>8. ASSUME NEW r \in Services \ {s},
             \/ RunAutoRegister(r) \/ Register(r) \/ Close(r)
             \/ HandlePost(r) \/ Refuse(r) \/ RefuseBody(r) \/ FailPost(r)
      PROVE  Kept
  BY <1>0, <1>8 DEF RunAutoRegister, Register, Close, HandlePost, SetEntry, Refuse, RefuseBody, FailPost, TypeOK
<1>9. ASSUME NEW c \in Callers, NEW z \in Zones \cup {Star}, List(c, z) PROVE Kept
  BY <1>0, <1>9 DEF List
<1>10. ASSUME NEW c \in Callers, Keys(c) \/ MGet(c) \/ Answered(c) PROVE Kept
  BY <1>0, <1>10 DEF Keys, MGet, Answered
<1>11. ASSUME UNCHANGED vars PROVE Kept
  BY <1>0, <1>11 DEF vars
<1>12. ASSUME NEW r \in Services,
              \/ RunAutoRegister(r) \/ Register(r) \/ Close(r)
              \/ HandlePost(r) \/ Refuse(r) \/ RefuseBody(r) \/ FailPost(r)
       PROVE  Kept
  <2>1. CASE r = s
    BY <1>1, <1>2, <1>3, <1>4, <1>5, <1>6, <1>12, <2>1
  <2>2. CASE r # s
    BY <1>8, <1>12, <2>2
  <2> QED  BY <2>1, <2>2
<1>13. Kept
  BY <1>7, <1>9, <1>10, <1>11, <1>12 DEF Next
<1> QED  BY <1>13 DEF Kept

(* A server that runs and has got into the registry stays there, whichever  *)
(* of its POSTs are late or fail, as long as an entry outlives the POSTs    *)
(* that may fail in a row and the delay of the next.                        *)
THEOREM LiveStaysListed == Spec => LiveStays
<1> DEFINE Stays == \A s \in Listed : (phase[s] = "running" /\ phase'[s] = "running") => ttl'[s] > 0
<1>1. ASSUME TypeOK, Steady, [Next]_vars PROVE [Stays]_vars
  <2> SUFFICES ASSUME NEW s \in Services, ttl[s] > 0, phase[s] = "running"
               PROVE  ttl'[s] > 0 \/ UNCHANGED vars
    BY DEF Listed
  <2>t. ttl[s] \in Nat /\ ttl \in [Services -> 0..TTL] /\ TTL > 0
    <3>1. (MaxLost + 1) * Interval \in Nat
      BY RegistryAssumption, Multiples
    <3> QED  BY <1>1, <3>1, RegistryAssumption DEF TypeOK
  <2>1. CASE UNCHANGED ttl
    BY <2>1
  <2>2. ASSUME NEW r \in Services, HandlePost(r) PROVE ttl'[s] > 0
    BY <2>2, <2>t DEF HandlePost, SetEntry
  <2>3. CASE Tick
    <3>1. ttl[s] > 1
      BY <1>1, <2>3, Alive DEF Steady
    <3> QED  BY <2>3, <2>t, <3>1 DEF Tick, Less
  <2>4. ASSUME NEW r \in Services,
               RunAutoRegister(r) \/ Register(r) \/ Close(r) \/ Refuse(r) \/ RefuseBody(r) \/ FailPost(r)
        PROVE  UNCHANGED ttl
    BY <2>4 DEF RunAutoRegister, Register, Close, Refuse, RefuseBody, FailPost
  <2>5. ASSUME NEW c \in Callers, NEW z \in Zones \cup {Star}, List(c, z)
        PROVE  UNCHANGED ttl
    BY <2>5 DEF List
  <2>6. ASSUME NEW c \in Callers, Keys(c) \/ MGet(c) \/ Answered(c) PROVE UNCHANGED ttl
    BY <2>6 DEF Keys, MGet, Answered
  <2> QED  BY <1>1, <2>1, <2>2, <2>3, <2>4, <2>5, <2>6 DEF Next
<1>2. TypeOK /\ Steady /\ [Next]_vars => [Stays]_vars
  BY <1>1
<1> QED  BY <1>2, SteadyInit, SteadyNext, FadingInit, FadingNext, TypeCorrect, PTL
         DEF Spec, LiveStays

-------------------------------------------------------------------------------
(* Who is listed.  The entries that have been there since the request are   *)
(* among those that are there now, and from KEYS on among the keys: MGET    *)
(* finds them, whatever has expired or been renewed in between.             *)

Followed(c) ==
    LET call == calls[c] IN
    /\ call.step \in {"keys", "mget"} => call.steady \subseteq Listed
    /\ call.step = "mget" => call.steady \subseteq call.keys
    /\ call.step = "ok" =>
         LET OfZone(s) == call.zone \in {Star, ZoneOf[s]} IN
         /\ \A s \in call.steady : OfZone(s) => s \in call.answer
         /\ \A s \in call.answer \ {Null} : OfZone(s)

Followable == \A c \in Callers : Followed(c)

LEMMA FollowInit == Init => Followable
BY DEF Init, Followable, Followed, Idle

(* A request that nothing happens to keeps to what has been followed as     *)
(* long as its entries live.                                                *)
LEMMA StillFollowed ==
    ASSUME NEW c \in Callers, Followed(c), calls'[c] = calls[c], Listed \subseteq Listed'
    PROVE  Followed(c)'
BY DEF Followed

LEMMA FollowNext == TypeOK /\ Followable /\ [Next]_vars => Followable'
<1> SUFFICES ASSUME TypeOK, Followable, [Next]_vars, NEW c \in Callers PROVE Followed(c)'
  BY DEF Followable
<1>f. Followed(c) /\ calls \in [Callers -> CallSet] /\ calls[c] \in CallSet
  BY DEF Followable, TypeOK, CallSet
<1>t. ttl \in [Services -> Nat] /\ TTL \in Nat \ {0}
  <2>1. /\ Interval \in Nat /\ MaxLost \in Nat /\ MaxDelay \in Nat /\ TTL \in Nat
        /\ TTL > (MaxLost + 1) * Interval + MaxDelay
    BY RegistryAssumption
  <2>2. \A i, m \in Nat : (m + 1) * i \in Nat
    BY SMT
  <2>3. (MaxLost + 1) * Interval \in Nat
    BY <2>1, <2>2
  <2>4. TTL # 0
    BY <2>1, <2>3
  <2> QED  BY <2>1, <2>4 DEF TypeOK
<1>1. CASE UNCHANGED <<ttl, calls>>
  BY <1>1, <1>f, StillFollowed DEF Listed
<1>2. ASSUME NEW s \in Services, RunAutoRegister(s) \/ Register(s) \/ Close(s)
                                 \/ Refuse(s) \/ RefuseBody(s) \/ FailPost(s)
      PROVE  Followed(c)'
  BY <1>1, <1>2 DEF RunAutoRegister, Register, Close, Refuse, RefuseBody, FailPost
<1>3. ASSUME NEW s \in Services, HandlePost(s) PROVE Followed(c)'
  <2>1. Listed \subseteq Listed' /\ calls' = calls
    BY <1>3, <1>t DEF HandlePost, SetEntry, Listed
  <2> QED  BY <1>f, <2>1, StillFollowed
<1>4. ASSUME NEW d \in Callers, d # c,
             (\E z \in Zones \cup {Star} : List(d, z)) \/ Keys(d) \/ MGet(d) \/ Answered(d)
      PROVE  Followed(c)'
  <2>1. calls'[c] = calls[c] /\ ttl' = ttl
    BY <1>4, <1>f DEF List, Keys, MGet, Answered
  <2> QED  BY <1>f, <2>1, StillFollowed DEF Listed
<1>5. ASSUME NEW z \in Zones \cup {Star}, List(c, z) PROVE Followed(c)'
  <2>1. /\ calls'[c] = [Idle EXCEPT !.step = "keys", !.zone = z, !.steady = Listed]
        /\ ttl' = ttl
    BY <1>5, <1>f DEF List
  <2>2. calls'[c].step = "keys" /\ calls'[c].steady = Listed
    BY <2>1 DEF Idle
  <2> QED  BY <2>1, <2>2 DEF Followed, Listed
<1>6. CASE Keys(c)
  <2>1. PICK step \in {"failed", "mget"} :
           /\ calls'[c] = [calls[c] EXCEPT !.step = step, !.keys = Listed]
           /\ ttl' = ttl /\ calls[c].step = "keys"
    BY <1>6, <1>f DEF Keys
  <2>2. /\ calls'[c].step = step /\ calls'[c].keys = Listed
        /\ calls'[c].steady = calls[c].steady
    BY <2>1, <1>f DEF CallSet
  <2> QED  BY <1>f, <2>1, <2>2 DEF Followed, Listed
<1>7. CASE MGet(c)
  <2> DEFINE fails == calls[c].zone # Star /\ Null \in Values(c)
             A == Select(Values(c), calls[c].zone)
  <2>1. /\ calls'[c] = [calls[c] EXCEPT !.step = IF fails THEN "failed" ELSE "ok",
                                        !.answer = IF fails THEN {} ELSE A]
        /\ calls[c].step = "mget" /\ ttl' = ttl
    BY <1>7, <1>f DEF MGet
  <2>2. CASE fails
    <3>1. calls'[c].step = "failed"
      BY <2>1, <2>2, <1>f DEF CallSet
    <3> QED  BY <3>1 DEF Followed
  <2>3. CASE ~fails
    <3>1. /\ calls'[c].step = "ok" /\ calls'[c].answer = A
          /\ calls'[c].steady = calls[c].steady /\ calls'[c].zone = calls[c].zone
      BY <2>1, <2>3, <1>f DEF CallSet
    <3>2. ASSUME NEW s \in calls[c].steady, calls[c].zone \in {Star, ZoneOf[s]} PROVE s \in A
      <4>1. s \in Listed /\ s \in calls[c].keys
        BY <1>f, <2>1 DEF Followed
      <4>2. s \in Values(c)
        BY <4>1 DEF Values
      <4> QED  BY <3>2, <4>2 DEF Select
    <3>3. ASSUME NEW s \in A PROVE calls[c].zone \in {Star, ZoneOf[s]}
      BY <3>3 DEF Select
    <3> HIDE DEF A
    <3> QED  BY <3>1, <3>2, <3>3 DEF Followed
  <2> QED  BY <2>2, <2>3
<1>8. CASE Answered(c)
  <2>1. calls'[c].step = "idle"
    BY <1>8, <1>f DEF Answered, Idle
  <2> QED  BY <2>1 DEF Followed
<1>9. CASE Tick
  <2> DEFINE S == IF calls[c].step \in {"keys", "mget"}
                  THEN {s \in calls[c].steady : ttl[s] > 1} ELSE calls[c].steady
  <2>1. calls'[c] = [calls[c] EXCEPT !.steady = S]
    BY <1>9 DEF Tick
  <2>2. /\ calls'[c].step = calls[c].step /\ calls'[c].keys = calls[c].keys
        /\ calls'[c].zone = calls[c].zone /\ calls'[c].answer = calls[c].answer
        /\ calls'[c].steady = S
    BY <2>1, <1>f DEF CallSet
  <2>3. ASSUME calls[c].step \in {"keys", "mget"} PROVE S \subseteq Listed' /\ S \subseteq calls[c].steady
    <3>1. S = {s \in calls[c].steady : ttl[s] > 1} /\ calls[c].steady \subseteq Services
      BY <2>3, <1>f DEF CallSet
    <3>2. \A s \in Services : ttl[s] > 1 => ttl'[s] > 0
      BY <1>9, <1>t DEF Tick, Less
    <3> QED  BY <3>1, <3>2 DEF Listed
  <2>4. calls[c].step = "ok" => S = calls[c].steady
    OBVIOUS
  <2> HIDE DEF S
  <2> QED  BY <1>f, <2>2, <2>3, <2>4 DEF Followed
<1>10. CASE UNCHANGED vars
  BY <1>1, <1>10 DEF vars
<1> QED  BY <1>2, <1>3, <1>4, <1>5, <1>6, <1>7, <1>8, <1>9, <1>10 DEF Next

(* A list that is answered names every server of the zone whose entry was   *)
(* there from the request to the answer, and nobody of another zone.        *)
THEOREM ListsComplete == Spec => []ListComplete
<1>1. Followable => ListComplete
  BY DEF Followable, Followed, ListComplete
<1> QED  BY <1>1, TypeCorrect, FollowInit, FollowNext, PTL DEF Spec
===============================================================================
