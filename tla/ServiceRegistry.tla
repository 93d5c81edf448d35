--------------------------- MODULE ServiceRegistry ----------------------------
(***************************************************************************)
(* lib/http: servers announce themselves to a registry every five seconds  *)
(* (ServiceRegistryClient.runAutoRegister, started by                      *)
(* RoomGroupServer.runServiceDiscovery), the registry keeps what it hears  *)
(* in Redis with an expiry, and anybody can ask for the list of a zone.    *)
(*                                                                         *)
(* Time passes in ticks.  A POST is under way for up to MaxDelay of them,  *)
(* and up to MaxLost in a row may fail (the registry down, Redis down):    *)
(* nothing retries but the interval.  An entry is keyed by the server's    *)
(* configured name, which is taken to be its own.                          *)
(***************************************************************************)
EXTENDS Naturals, FiniteSets

CONSTANTS Services,  \* servers that run the discovery
          Zones,
          ZoneOf,    \* the zone a server is configured with
          Star,       \* the zone "*"
          Callers,   \* those who list
          Interval,  \* REGISTER_INTERVAL in ticks
          TTL,       \* SERVICE_TTL in ticks
          MaxDelay,  \* bound: ticks a POST is under way
          MaxLost    \* bound: POSTs of a server that fail in a row

ASSUME RegistryAssumption ==
    /\ ZoneOf \in [Services -> Zones]
    /\ Star \notin Zones
    /\ Interval \in Nat \ {0} /\ MaxDelay \in Nat /\ MaxLost \in Nat
    /\ TTL \in Nat /\ TTL > ((MaxLost + 1) * Interval) + MaxDelay

VARIABLES trusted, \* servers configured with the registry's authorization
          complete, \* servers configured with a name, a zone and a host
          phase,   \* "new", "running", "gone"
          timer,   \* ticks to the next POST
          posts,   \* ages of the POSTs under way
          lost,    \* failures since the last success
          ttl,     \* what the entry has left to live; 0: no entry
          since,   \* ticks since the server has gone
          calls    \* the list request of a caller

vars == <<trusted, complete, phase, timer, posts, lost, ttl, since, calls>>

Null == "null"   \* what JSON.parse makes of an entry that MGET does not find

Horizon == TTL + MaxDelay + 1

Idle == [step |-> "idle", zone |-> Star, keys |-> {}, answer |-> {}, steady |-> {}]

TypeOK ==
    /\ trusted \subseteq Services /\ complete \subseteq Services
    /\ phase \in [Services -> {"new", "running", "gone"}]
    /\ timer \in [Services -> 0..Interval]
    /\ posts \in [Services -> SUBSET (0..MaxDelay)]
    /\ lost \in [Services -> 0..MaxLost]
    /\ ttl \in [Services -> 0..TTL]
    /\ since \in [Services -> 0..Horizon]
    /\ calls \in [Callers -> [step : {"idle", "keys", "mget", "ok", "failed"},
                              zone : Zones \cup {Star}, keys : SUBSET Services,
                              answer : SUBSET (Services \cup {Null}),
                              steady : SUBSET Services]]

Init ==
    /\ trusted \in SUBSET Services /\ complete \in SUBSET Services
    /\ phase = [s \in Services |-> "new"]
    /\ timer = [s \in Services |-> Interval]
    /\ posts = [s \in Services |-> {}]
    /\ lost = [s \in Services |-> 0]
    /\ ttl = [s \in Services |-> 0]
    /\ since = [s \in Services |-> 0]
    /\ calls = [c \in Callers |-> Idle]

Listed == {s \in Services : ttl[s] > 0}

-------------------------------------------------------------------------------
(* The servers. *)

(* runServiceDiscovery: the first POST leaves one interval later.           *)
RunAutoRegister(s) ==
    /\ phase[s] = "new"
    /\ phase' = [phase EXCEPT ![s] = "running"]
    /\ timer' = [timer EXCEPT ![s] = Interval]
    /\ UNCHANGED <<trusted, complete, posts, lost, ttl, since, calls>>

Register(s) ==
    /\ phase[s] = "running" /\ timer[s] = 0
    /\ timer' = [timer EXCEPT ![s] = Interval]
    /\ posts' = [posts EXCEPT ![s] = @ \cup {0}]
    /\ UNCHANGED <<trusted, complete, phase, lost, ttl, since, calls>>

(* Mutant: the interval is left running. *)
Close_KeepsInterval(s) ==
    /\ phase[s] = "running" /\ since[s] = 0
    /\ since' = [since EXCEPT ![s] = 1]
    /\ UNCHANGED <<trusted, complete, phase, timer, posts, lost, ttl, calls>>

(* close, or the death of the process: no word to the registry, and a POST  *)
(* that is under way still arrives.                                         *)
Close(s) ==
    /\ phase[s] = "running"
    /\ phase' = [phase EXCEPT ![s] = "gone"]
    /\ UNCHANGED <<trusted, complete, timer, posts, lost, ttl, since, calls>>

-------------------------------------------------------------------------------
(* The registry. *)

(* Mutant: an entry that exists is left alone. *)
SetEntry_Once(s) == ttl' = [ttl EXCEPT ![s] = IF @ > 0 THEN @ ELSE TTL]

(* Mutant: the expiry is added to what the entry has left. *)
SetEntry_Extends(s) == ttl' = [ttl EXCEPT ![s] = @ + TTL]

SetEntry(s) == ttl' = [ttl EXCEPT ![s] = TTL]

(* POST /api/register *)
HandlePost(s) ==
    /\ s \in trusted \cap complete
    /\ \E age \in posts[s] : posts' = [posts EXCEPT ![s] = @ \ {age}]
    /\ SetEntry(s)
    /\ lost' = [lost EXCEPT ![s] = 0]
    /\ UNCHANGED <<trusted, complete, phase, timer, since, calls>>

(* 401: not the registry's authorization. *)
Refuse(s) ==
    /\ s \notin trusted
    /\ \E age \in posts[s] : posts' = [posts EXCEPT ![s] = @ \ {age}]
    /\ UNCHANGED <<trusted, complete, phase, timer, lost, ttl, since, calls>>

(* 400: no body, or one that lacks a field.  What is not configured is not  *)
(* in the body: JSON.stringify drops it.                                    *)
RefuseBody(s) ==
    /\ s \in trusted \ complete
    /\ \E age \in posts[s] : posts' = [posts EXCEPT ![s] = @ \ {age}]
    /\ UNCHANGED <<trusted, complete, phase, timer, lost, ttl, since, calls>>

FailPost(s) ==
    /\ lost[s] < MaxLost
    /\ \E age \in posts[s] : posts' = [posts EXCEPT ![s] = @ \ {age}]
    /\ lost' = [lost EXCEPT ![s] = @ + 1]
    /\ UNCHANGED <<trusted, complete, phase, timer, ttl, since, calls>>

(* GET /api/list/:zone: KEYS ... *)
List(c, z) ==
    /\ calls[c].step = "idle"
    /\ calls' = [calls EXCEPT ![c] = [Idle EXCEPT !.step = "keys", !.zone = z,
                                                  !.steady = Listed]]
    /\ UNCHANGED <<trusted, complete, phase, timer, posts, lost, ttl, since>>

(* ... an MGET without keys is an error ...                                 *)
Keys(c) ==
    /\ calls[c].step = "keys"
    /\ calls' = [calls EXCEPT ![c].step = IF Listed = {} THEN "failed" ELSE "mget",
                              ![c].keys = Listed]
    /\ UNCHANGED <<trusted, complete, phase, timer, posts, lost, ttl, since>>

Values(c) == {IF s \in Listed THEN s ELSE Null : s \in calls[c].keys}

(* Mutant: an entry that has expired ends the list. *)
Select_UpToNull(values, z) ==
    IF Null \in values THEN {} ELSE {v \in values : z = Star \/ ZoneOf[v] = z}

Select(values, z) == {v \in values : z = Star \/ ZoneOf[v] = z}

(* ... then MGET.  An entry that has expired in between is null: in the     *)
(* list of a zone it throws and the request fails, in the list of all it    *)
(* stays.                                                                   *)
MGet(c) ==
    LET fails == calls[c].zone # Star /\ Null \in Values(c) IN
    /\ calls[c].step = "mget"
    /\ calls' = [calls EXCEPT ![c].step = IF fails THEN "failed" ELSE "ok",
                              ![c].answer = IF fails THEN {}
                                            ELSE Select(Values(c), calls[c].zone)]
    /\ UNCHANGED <<trusted, complete, phase, timer, posts, lost, ttl, since>>

Answered(c) ==
    /\ calls[c].step \in {"ok", "failed"}
    /\ calls' = [calls EXCEPT ![c] = Idle]
    /\ UNCHANGED <<trusted, complete, phase, timer, posts, lost, ttl, since>>

-------------------------------------------------------------------------------
(* Time: not before the intervals that are due have fired and the POSTs     *)
(* that have been under way for MaxDelay have ended.                        *)
Less(n) == IF n = 0 THEN 0 ELSE n - 1

Tick ==
    /\ \A s \in Services : /\ phase[s] = "running" => timer[s] > 0
                           /\ MaxDelay \notin posts[s]
    /\ timer' = [s \in Services |-> IF phase[s] = "running" THEN timer[s] - 1 ELSE timer[s]]
    /\ posts' = [s \in Services |-> {age + 1 : age \in posts[s]}]
    /\ ttl' = [s \in Services |-> Less(ttl[s])]
    /\ since' = [s \in Services |->
                    IF (phase[s] = "gone" \/ since[s] > 0) /\ since[s] < Horizon
                    THEN since[s] + 1 ELSE since[s]]
    /\ calls' = [c \in Callers |->
                    [calls[c] EXCEPT !.steady =
                        IF calls[c].step \in {"keys", "mget"}
                        THEN {s \in @ : ttl[s] > 1} ELSE @]]
    /\ UNCHANGED <<trusted, complete, phase, lost>>

Next == \/ \E s \in Services : \/ RunAutoRegister(s)
                               \/ Register(s)
                               \/ Close(s)
                               \/ HandlePost(s)
                               \/ Refuse(s)
                               \/ RefuseBody(s)
                               \/ FailPost(s)
        \/ \E c \in Callers : \/ \E z \in Zones \cup {Star} : List(c, z)
                              \/ Keys(c)
                              \/ MGet(c)
                              \/ Answered(c)
        \/ Tick

Spec == Init /\ [][Next]_vars

-------------------------------------------------------------------------------
(* Properties. *)

(* A server that runs and has got into the registry stays there, whichever  *)
(* of its POSTs are late or fail.                                           *)
LiveStays ==
    [][\A s \in Listed : (phase[s] = "running" /\ phase'[s] = "running") => ttl'[s] > 0]_vars

(* The list forgets: nobody is listed that has been gone for longer than an *)
(* entry lives after the last POST it can come from, nor anybody the        *)
(* registry refuses.                                                        *)
GhostsExpire == \A s \in Listed : s \in trusted \cap complete /\ since[s] < Horizon

(* A list that is answered at all names every server of the zone whose      *)
(* entry was there from the request to the answer, and nobody of another    *)
(* zone, whatever expires or is renewed between KEYS and MGET.              *)
ListComplete ==
    \A c \in Callers :
        LET OfZone(s) == calls[c].zone \in {Star, ZoneOf[s]} IN
        calls[c].step = "ok" =>
            /\ \A s \in calls[c].steady : OfZone(s) => s \in calls[c].answer
            /\ \A s \in calls[c].answer \ {Null} : OfZone(s)
===============================================================================
