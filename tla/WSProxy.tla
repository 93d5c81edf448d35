------------------------------- MODULE WSProxy --------------------------------
(***************************************************************************)
(* lib/balance/WSProxy.js: the load balancer in front of the servers.  It  *)
(* hands every HTTP request and every upgrade to an upstream, takes an     *)
(* upstream out of the rotation when one of them fails, and probes it with *)
(* a HEAD request every ten seconds until it answers.                      *)
(*                                                                         *)
(* The upstreams crash and come back as they like.  A request that was     *)
(* handed to one that was down, or went down meanwhile, fails, possibly    *)
(* long after the upstream is back.                                        *)
(***************************************************************************)
EXTENDS Integers

CONSTANTS N,         \* the number of upstreams (proxies.length)
          Requests,  \* bound: requests and upgrades in flight
          NoServer   \* the upstream of a request that is not in flight

ASSUME ProxyAssumption == /\ N \in Nat \ {0}
                          /\ NoServer \notin 0..(N - 1)

VARIABLES mode,    \* _mode, RANDOM or ROUND_ROBIN, chosen when it is built
          down,    \* upstreams with options.down
          timer,   \* failoverTimer[i]: none, set, or fired; then the HEAD is on
                   \* its way, or its answer or error on the way back
          last,    \* _roundRobinLastIndex
          sentTo,  \* sentTo[r]: the upstream request r was handed to
          doomed,  \* requests in flight that will fail
          alive,   \* upstreams that work
          passed   \* passed[i]: requests the other upstreams got since i was
                   \* last chosen or came back (bound: counted up to N)

vars == <<mode, down, timer, last, sentTo, doomed, alive, passed>>

Proxies == 0..(N - 1)

Timers == {"none", "set", "probing", "answered", "failed"}

TypeOK ==
    /\ mode \in {"RANDOM", "ROUND_ROBIN"}
    /\ down \subseteq Proxies
    /\ timer \in [Proxies -> Timers]
    /\ last \in -1..(N - 1)
    /\ sentTo \in [Requests -> Proxies \cup {NoServer}]
    /\ doomed \subseteq {r \in Requests : sentTo[r] # NoServer}
    /\ alive \subseteq Proxies
    /\ passed \in [Proxies -> 0..N]

Init ==
    /\ mode \in {"RANDOM", "ROUND_ROBIN"}
    /\ down = {}
    /\ timer = [i \in Proxies |-> "none"]
    /\ last = -1
    /\ sentTo = [r \in Requests |-> NoServer]
    /\ doomed = {}
    /\ alive = Proxies
    /\ passed = [i \in Proxies |-> 0]

-------------------------------------------------------------------------------
(* Choosing an upstream. *)

Wrap(i) == IF i < N THEN i ELSE i - N

(* Mutant: the search always starts at the first upstream. *)
RoundRobin_First(i) ==
    \/ i \notin down /\ \A j \in 0..(i - 1) : j \in down
    \/ down = Proxies /\ i = 0

(* _getRoundRobinServer: the first one behind the last choice that is up    *)
(* (k = cycles); once around, all are down and the next one has to do.      *)
RoundRobin(i) ==
    \/ \E k \in 0..(N - 1) : /\ i = Wrap(last + 1 + k)
                             /\ i \notin down
                             /\ \A j \in 0..(k - 1) : Wrap(last + 1 + j) \in down
    \/ down = Proxies /\ i = Wrap(last + 1)

(* _getRandomServer: any one that is up, and the first one whenever one     *)
(* that is down was drawn.                                                  *)
RandomServer(i) == i \notin down \/ (i = 0 /\ down # {})

Chosen(i) == IF mode = "RANDOM" THEN RandomServer(i) ELSE RoundRobin(i)

Count(i, x) == IF x = i \/ x \in down THEN 0
               ELSE IF passed[x] < N THEN passed[x] + 1 ELSE N

(* _onRequest and the upgrade handler. *)
Route(r) ==
    /\ sentTo[r] = NoServer
    /\ \E i \in Proxies :
          /\ Chosen(i)
          /\ sentTo' = [sentTo EXCEPT ![r] = i]
          /\ doomed' = IF i \in alive THEN doomed ELSE doomed \cup {r}
          /\ last' = IF mode = "RANDOM" THEN last ELSE i
          /\ passed' = [x \in Proxies |-> Count(i, x)]
    /\ UNCHANGED <<mode, down, timer, alive>>

Answer(r) ==
    /\ sentTo[r] # NoServer
    /\ r \notin doomed
    /\ sentTo' = [sentTo EXCEPT ![r] = NoServer]
    /\ UNCHANGED <<mode, down, timer, last, doomed, alive, passed>>

-------------------------------------------------------------------------------
(* Failover. *)

(* _startFailoverTimer: does nothing while a timer (or its probe) is on. *)
StartFailoverTimer(i) ==
    IF timer[i] # "none"
    THEN UNCHANGED <<down, timer, passed>>
    ELSE /\ down' = down \cup {i}
         /\ timer' = [timer EXCEPT ![i] = "set"]
         /\ passed' = [passed EXCEPT ![i] = 0]

(* The "error" listener of the proxy the request was handed to. *)
Fail(r) ==
    /\ r \in doomed
    /\ StartFailoverTimer(sentTo[r])
    /\ sentTo' = [sentTo EXCEPT ![r] = NoServer]
    /\ doomed' = doomed \ {r}
    /\ UNCHANGED <<mode, last, alive>>

TimerFires(i) ==
    /\ timer[i] = "set"
    /\ timer' = [timer EXCEPT ![i] = "probing"]
    /\ UNCHANGED <<mode, down, last, sentTo, doomed, alive, passed>>

(* The HEAD reaches an upstream that works and answers 200, or it fails;    *)
(* the upstream may crash or come back before the callback runs.            *)
Probed(i) ==
    /\ timer[i] = "probing"
    /\ timer' = [timer EXCEPT ![i] = IF i \in alive THEN "answered" ELSE "failed"]
    /\ UNCHANGED <<mode, down, last, sentTo, doomed, alive, passed>>

(* Mutant: a failed probe is not repeated. *)
ProbeReturns_Once(i) ==
    /\ timer[i] \in {"answered", "failed"}
    /\ timer' = [timer EXCEPT ![i] = "none"]
    /\ down' = IF timer[i] = "answered" THEN down \ {i} ELSE down
    /\ UNCHANGED <<mode, last, sentTo, doomed, alive, passed>>

(* The callback of the HEAD request: back in the rotation, or the next      *)
(* timer.                                                                   *)
ProbeReturns(i) ==
    /\ \/ /\ timer[i] = "answered"
          /\ timer' = [timer EXCEPT ![i] = "none"]
          /\ down' = down \ {i}
       \/ /\ timer[i] = "failed"
          /\ timer' = [timer EXCEPT ![i] = "set"]
          /\ UNCHANGED down
    /\ UNCHANGED <<mode, last, sentTo, doomed, alive, passed>>

(* The upstreams. *)
Crash(i) ==
    /\ i \in alive
    /\ alive' = alive \ {i}
    /\ doomed' = doomed \cup {r \in Requests : sentTo[r] = i}
    /\ UNCHANGED <<mode, down, timer, last, sentTo, passed>>

Recover(i) ==
    /\ i \in Proxies \ alive
    /\ alive' = alive \cup {i}
    /\ UNCHANGED <<mode, down, timer, last, sentTo, doomed, passed>>

-------------------------------------------------------------------------------
ProxyStep == \/ \E r \in Requests : Route(r) \/ Answer(r) \/ Fail(r)
             \/ \E i \in Proxies : TimerFires(i) \/ Probed(i) \/ ProbeReturns(i)

Next == ProxyStep \/ \E i \in Proxies : Crash(i) \/ Recover(i)

Spec == Init /\ [][Next]_vars

(* Connections to dead upstreams fail, timers fire and the HEAD returns or  *)
(* times out.  Neither requests nor upstreams owe anything.                 *)
FairSpec ==
    /\ Spec
    /\ \A r \in Requests : WF_vars(Fail(r))
    /\ \A i \in Proxies : /\ WF_vars(TimerFires(i))
                          /\ WF_vars(Probed(i))
                          /\ WF_vars(ProbeReturns(i))

-------------------------------------------------------------------------------
(* Properties. *)

(* An upstream that is out of the rotation is being probed, and one that is *)
(* in it is not: _startFailoverTimer refuses to act while a timer is on, so *)
(* an upstream that lost its timer, or kept one, would never change again.  *)
DownIffProbed == \A i \in Proxies : i \in down <=> timer[i] # "none"

(* The rotation is fair although upstreams drop out and come back between   *)
(* the choices: one that is up is chosen before the others got N requests.  *)
NoneStarved == mode = "ROUND_ROBIN" => \A i \in Proxies \ down : passed[i] < N

(* The invariant behind it: from the last choice on to an upstream that is  *)
(* up there are no more steps than it has requests to wait for.             *)
Ahead(i) == IF i > last THEN i - last ELSE i - last + N

InTurn(i) == passed[i] + Ahead(i) <= N

RotationInv == TypeOK /\ (mode = "ROUND_ROBIN" => \A i \in Proxies : InTurn(i))

(* An upstream that works again gets back into the rotation, and stays.     *)
ComesBack == \A i \in Proxies : <>[](i \in alive) => <>[](i \notin down)
===============================================================================
