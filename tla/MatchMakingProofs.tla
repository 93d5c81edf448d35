--------------------------- MODULE MatchMakingProofs --------------------------
(***************************************************************************)
(* What holds of the match making for any number of clients and matches,   *)
(* any lobby size and, unless a theorem says otherwise, any number of      *)
(* matching runs and of requests of one client that overlap.               *)
(***************************************************************************)
EXTENDS MatchMaking, GroupStoreProofs

-------------------------------------------------------------------------------
(* The pipeline of the server: the commands in it, its head, and what a     *)
(* reply and a handler add to it.                                           *)

Pipeline == pipe[Server]

Queued == {Pipeline[i] : i \in DOMAIN Pipeline}

Elements(q) == {q[i] : i \in DOMAIN q}

LEMMA OneServer == Server \in Servers /\ \A s \in Servers : s = Server
BY RoomAssumption

LEMMA Heads ==
    ASSUME NEW S, pipe \in [Servers -> Seq(S)], Pipeline # <<>>
    PROVE  /\ Pipeline \in Seq(S) /\ Head(Pipeline) \in S
           /\ 1 \in DOMAIN Pipeline /\ Pipeline[1] = Head(Pipeline)
           /\ Head(Pipeline) \in Queued /\ Behind \subseteq Queued
           /\ Queued = {Head(Pipeline)} \cup Behind
<1>1. Pipeline \in Seq(S)
  BY OneServer DEF Pipeline
<1>2. /\ DOMAIN Pipeline = 1..Len(Pipeline) /\ Len(Pipeline) \in Nat \ {0}
      /\ Head(Pipeline) \in S /\ Pipeline[1] = Head(Pipeline)
  BY <1>1, HeadTailProperties, EmptySeq, LenProperties
<1>3. 1..Len(Pipeline) = {1} \cup 2..Len(Pipeline)
  BY <1>2
<1> QED  BY <1>1, <1>2, <1>3 DEF Queued, Behind, Pipeline

LEMMA Replied ==
    ASSUME NEW S, pipe \in [Servers -> Seq(S)], Pipeline # <<>>,
           NEW f \in Seq(S), Reply(Server, f)
    PROVE  /\ pipe' \in [Servers -> Seq(S)]
           /\ Pipeline' = Tail(Pipeline) \o f
           /\ Queued' = Behind \cup Elements(f)
<1>1. Pipeline \in Seq(S) /\ pipe' = [pipe EXCEPT ![Server] = Tail(Pipeline) \o f]
  BY OneServer DEF Pipeline, Reply
<1>2. Tail(Pipeline) \o f \in Seq(S)
  BY <1>1, StepElements
<1>3. pipe' \in [Servers -> Seq(S)] /\ Pipeline' = Tail(Pipeline) \o f
  BY <1>1, <1>2, OneServer DEF Pipeline
<1>4. Queued' = Behind \cup Elements(f)
  <2> DEFINE q == Pipeline
             r == Tail(q) \o f
  <2>1. /\ Len(q) \in Nat \ {0} /\ Len(f) \in Nat /\ DOMAIN f = 1..Len(f)
        /\ DOMAIN r = 1..(Len(q) - 1 + Len(f))
        /\ \A i \in DOMAIN r : r[i] = IF i < Len(q) THEN q[i + 1] ELSE f[i - Len(q) + 1]
    BY <1>1, StepElements, LenProperties, EmptySeq, SMTT(20)
  <2>2. Queued' = {r[i] : i \in DOMAIN r} /\ Behind = {q[i] : i \in 2..Len(q)}
    BY <1>3 DEF Queued, Behind, Pipeline
  <2> HIDE DEF q, r
  <2>3. ASSUME NEW i \in DOMAIN r PROVE r[i] \in Behind \cup Elements(f)
    <3>1. CASE i < Len(q)
      <4>1. i + 1 \in 2..Len(q) /\ r[i] = q[i + 1]
        BY <2>1, <3>1
      <4> QED  BY <2>2, <4>1
    <3>2. CASE ~(i < Len(q))
      <4>1. i - Len(q) + 1 \in DOMAIN f /\ r[i] = f[i - Len(q) + 1]
        BY <2>1, <3>2
      <4> QED  BY <4>1 DEF Elements
    <3> QED  BY <3>1, <3>2
  <2>4. ASSUME NEW i \in 2..Len(q) PROVE \E j \in DOMAIN r : r[j] = q[i]
    <3>1. i - 1 \in DOMAIN r /\ r[i - 1] = q[i]
      BY <2>1
    <3> QED  BY <3>1
  <2>5. ASSUME NEW i \in DOMAIN f PROVE \E j \in DOMAIN r : r[j] = f[i]
    <3>1. i + Len(q) - 1 \in DOMAIN r /\ r[i + Len(q) - 1] = f[i]
      BY <2>1
    <3> QED  BY <3>1
  <2> QED  BY <2>2, <2>3, <2>4, <2>5 DEF Elements
<1> QED  BY <1>3, <1>4

LEMMA Issued ==
    ASSUME NEW S, pipe \in [Servers -> Seq(S)], NEW f \in Seq(S), Issue(Server, f)
    PROVE  /\ pipe' \in [Servers -> Seq(S)]
           /\ Pipeline' = Pipeline \o f
           /\ Queued' = Queued \cup Elements(f)
<1>1. Pipeline \in Seq(S) /\ pipe' = [pipe EXCEPT ![Server] = Pipeline \o f]
  BY OneServer DEF Pipeline, Issue
<1>2. Pipeline \o f \in Seq(S)
  BY <1>1, AppendElements
<1>3. pipe' \in [Servers -> Seq(S)] /\ Pipeline' = Pipeline \o f
  BY <1>1, <1>2, OneServer DEF Pipeline
<1>4. Queued' = Queued \cup Elements(f)
  <2> DEFINE q == Pipeline
             r == q \o f
  <2>1. /\ Len(q) \in Nat /\ DOMAIN q = 1..Len(q) /\ Len(f) \in Nat /\ DOMAIN f = 1..Len(f)
        /\ DOMAIN r = 1..(Len(q) + Len(f))
        /\ \A i \in DOMAIN r : r[i] = IF i <= Len(q) THEN q[i] ELSE f[i - Len(q)]
    BY <1>1, AppendElements, LenProperties
  <2>2. Queued' = {r[i] : i \in DOMAIN r} /\ Queued = {q[i] : i \in DOMAIN q}
    BY <1>3 DEF Queued
  <2> HIDE DEF q, r
  <2>3. ASSUME NEW i \in DOMAIN r PROVE r[i] \in Queued \cup Elements(f)
    <3>1. CASE i <= Len(q)
      BY <2>1, <2>2, <3>1
    <3>2. CASE ~(i <= Len(q))
      <4>1. i - Len(q) \in DOMAIN f /\ r[i] = f[i - Len(q)]
        BY <2>1, <3>2
      <4> QED  BY <4>1 DEF Elements
    <3> QED  BY <3>1, <3>2
  <2>4. ASSUME NEW i \in DOMAIN q PROVE \E j \in DOMAIN r : r[j] = q[i]
    BY <2>1
  <2>5. ASSUME NEW i \in DOMAIN f PROVE \E j \in DOMAIN r : r[j] = f[i]
    <3>1. i + Len(q) \in DOMAIN r /\ r[i + Len(q)] = f[i]
      BY <2>1
    <3> QED  BY <3>1
  <2> QED  BY <2>2, <2>3, <2>4, <2>5 DEF Elements
<1> QED  BY <1>3, <1>4

(* The burst of an erase replaces the head.                                 *)
LEMMA Replaced ==
    ASSUME NEW S, pipe \in [Servers -> Seq(S)], Pipeline # <<>>, NEW u \in S,
           pipe' = [pipe EXCEPT ![Server] = <<u>> \o Tail(@)]
    PROVE  /\ pipe' \in [Servers -> Seq(S)]
           /\ Len(Pipeline') = Len(Pipeline) /\ DOMAIN Pipeline' = DOMAIN Pipeline
           /\ Pipeline'[1] = u /\ \A i \in DOMAIN Pipeline : i # 1 => Pipeline'[i] = Pipeline[i]
           /\ Queued' = {u} \cup Behind
<1>1. Pipeline \in Seq(S) /\ pipe' = [pipe EXCEPT ![Server] = <<u>> \o Tail(Pipeline)]
  BY OneServer DEF Pipeline
<1>2. /\ Tail(Pipeline) \in Seq(S) /\ Len(Tail(Pipeline)) = Len(Pipeline) - 1
      /\ \A i \in 1..Len(Tail(Pipeline)) : Tail(Pipeline)[i] = Pipeline[i + 1]
  BY <1>1, HeadTailProperties
<1>3. /\ <<u>> \in Seq(S) /\ Len(<<u>>) = 1 /\ <<u>>[1] = u
      /\ Len(Pipeline) \in Nat \ {0} /\ DOMAIN Pipeline = 1..Len(Pipeline)
  BY <1>1, EmptySeq, LenProperties
<1> DEFINE r == <<u>> \o Tail(Pipeline)
<1>4. /\ r \in Seq(S) /\ Len(r) = Len(Pipeline)
      /\ \A i \in 1..Len(Pipeline) : r[i] = IF i <= 1 THEN u ELSE Tail(Pipeline)[i - 1]
  <2>1. /\ r \in Seq(S) /\ Len(r) = Len(<<u>>) + Len(Tail(Pipeline))
        /\ \A i \in 1..(Len(<<u>>) + Len(Tail(Pipeline))) :
              r[i] = IF i <= Len(<<u>>) THEN <<u>>[i] ELSE Tail(Pipeline)[i - Len(<<u>>)]
    BY <1>2, <1>3, ConcatProperties
  <2> HIDE DEF r
  <2> QED  BY <1>2, <1>3, <2>1
<1>5. /\ DOMAIN r = 1..Len(Pipeline) /\ r[1] = u
      /\ \A i \in 2..Len(Pipeline) : r[i] = Pipeline[i]
  <2>1. DOMAIN r = 1..Len(Pipeline)
    BY <1>4, LenProperties
  <2> HIDE DEF r
  <2> QED  BY <1>2, <1>3, <1>4, <2>1
<1>6. pipe' \in [Servers -> Seq(S)] /\ Pipeline' = r
  BY <1>1, <1>4, OneServer DEF Pipeline
<1> HIDE DEF r
<1>7. Queued' = {r[i] : i \in DOMAIN r} /\ Behind = {Pipeline[i] : i \in 2..Len(Pipeline)}
  BY <1>6 DEF Queued, Behind, Pipeline
<1>8. DOMAIN r = {1} \cup 2..Len(Pipeline)
  BY <1>3, <1>5
<1>9. \A i \in DOMAIN Pipeline : i # 1 => i \in 2..Len(Pipeline)
  BY <1>3
<1>10. Queued' = {u} \cup Behind
  BY <1>5, <1>7, <1>8
<1> QED  BY <1>3, <1>4, <1>5, <1>6, <1>9, <1>10

-------------------------------------------------------------------------------
(* Types.  The commands that a job goes through, and for whom and what.     *)

Fits(job, step, c, g, for) ==
    /\ job = "search" => step \in {"search.lrange"} \cup PushSteps /\ c \in Clients /\ g = Queue
    /\ job = "leave" => step \in RemoveSteps /\ c \in Clients /\ g = Queue
    /\ job = "confirm" => /\ step \in {"get.hget", "member.lrange", "mmc.lrange", "mmc.expire",
                                       "mmc.lpush", "notify.lrange"}
                          /\ c \in Clients /\ g \in Matches
    /\ job = "exit" => /\ step \in {"get.hget", "member.lrange", "notify.lrange"} \cup RemoveSteps
                       /\ c \in Clients /\ g \in Matches
    /\ job = "close" => /\ step \in {"match.lrange", "close.lrange", "get.hget", "notify.lrange"}
                                       \cup RemoveSteps
                        /\ c \in Clients
                        /\ step \notin {"match.lrange", "close.lrange"} => g \in Groups
    /\ job = "heal" => step \in EraseSteps /\ g \in Matches
    /\ job = "match" => \/ step = "mm.lrange" /\ for \in RunIds
                        \/ /\ step \in RemoveSteps
                           /\ c \in Clients /\ g = Queue /\ for \in Matches
                        \/ step = "create.hset" /\ g = for /\ for \in Matches
                        \/ /\ step \in PushSteps
                           /\ c \in Clients /\ g = for /\ for \in Matches
    /\ job = "found" => step = "notify.lrange" /\ g \in Matches
    /\ job = "start" => step \in {"mmc.llen", "mmc.del", "notify.lrange"} /\ g \in Matches
    /\ job = "disband" => step \in {"mmc.del", "notify.lrange"} \cup EraseSteps /\ g \in Matches
    /\ job # "match" => for = None

Formed(t) == Fits(t.job, t.step, t.c, t.g, t.for)

Good == {t \in Tasks : Formed(t)}

InMatch == {"found", "confirmed", "playing"}

(* The tasks of T are at most one place of the pipeline. *)
AtMostOnce(T) ==
    \A i, j \in DOMAIN Pipeline : Pipeline[i] \in T /\ Pipeline[j] \in T => i = j

RunTasks(r) == {t \in Good : t.step = "mm.lrange" /\ t.for = r}

(* A command of a matching run is its first one, or works for a match of    *)
(* the batch the run is filling.                                            *)
Filling ==
    /\ \A t \in Queued : t.job = "match" /\ t.step # "mm.lrange"
                             => \E r \in RunIds : t.for \in Range(batch[r])
    /\ \A t \in Queued : t.step = "mm.lrange" => run[t.for] = "matching" /\ batch[t.for] = <<>>
    /\ \A r \in RunIds : AtMostOnce(RunTasks(r))
    /\ \A r \in RunIds : run[r] # "matching" => batch[r] = <<>>

TypeInv ==
    /\ TypeOK
    /\ pipe \in [Servers -> Seq(Good)]
    /\ Filling
    /\ Queue \in registry
    /\ \A c \in Clients : IF view[c].at \in InMatch THEN view[c].m \in Matches ELSE view[c].m = None

LEMMA Names ==
    /\ None \notin Clients /\ None \notin Groups /\ None \notin Matches /\ Queue \notin Matches
    /\ Matches \subseteq Groups /\ Queue \in Groups
    /\ \A r \in RunIds : r \notin Matches /\ r # None
BY StoreAssumption, RoomAssumption DEF Matches

LEMMA AtGood ==
    ASSUME NEW t \in Good, NEW st \in Steps, Fits(t.job, st, t.c, t.g, t.for)
    PROVE  /\ At(t, st) \in Good /\ At(t, st).step = st /\ At(t, st).job = t.job
           /\ At(t, st).c = t.c /\ At(t, st).g = t.g /\ At(t, st).for = t.for
           /\ At(t, st).left = t.left /\ At(t, st).seen = t.seen
<1>1. /\ At(t, st) \in Tasks /\ At(t, st).step = st /\ At(t, st).job = t.job
      /\ At(t, st).c = t.c /\ At(t, st).g = t.g /\ At(t, st).for = t.for
      /\ At(t, st).left = t.left /\ At(t, st).seen = t.seen
  BY DEF Good, Tasks, At
<1> QED  BY <1>1 DEF Good, Formed

LEMMA RoomFields ==
    ASSUME NEW st, NEW job, NEW c, NEW g, NEW for
    PROVE  LET u == RoomTask(st, job, c, g, for) IN
           /\ u.step = st /\ u.job = job /\ u.c = c /\ u.g = g /\ u.for = for
           /\ u.seen = {} /\ u.left = {}
BY DEF RoomTask

LEMMA RoomGood ==
    ASSUME NEW st \in Steps, NEW job \in Jobs, NEW c \in Clients \cup {None},
           NEW g \in Groups \cup {None}, NEW for \in Matches \cup RunIds \cup {None},
           Fits(job, st, c, g, for)
    PROVE  RoomTask(st, job, c, g, for) \in Good
<1>1. RoomTask(st, job, c, g, for) \in Tasks
  BY DEF RoomTask, Tasks
<1> QED  BY <1>1, RoomFields DEF Good, Formed

LEMMA Singly ==
    ASSUME NEW S, NEW u \in S
    PROVE  <<u>> \in Seq(S) /\ Elements(<<u>>) = {u}
<1>1. <<u>> \in Seq(S) /\ DOMAIN <<u>> = {1} /\ <<u>>[1] = u
  OBVIOUS
<1> QED  BY <1>1 DEF Elements

LEMMA InARow == \A u, v : <<u>> \o <<v>> = <<u, v>>
<1> SUFFICES ASSUME NEW u, NEW v PROVE <<u>> \o <<v>> = <<u, v>>
  OBVIOUS
<1>1. /\ <<u>> \in Seq({u, v}) /\ <<v>> \in Seq({u, v}) /\ <<u, v>> \in Seq({u, v})
      /\ Len(<<u>>) = 1 /\ Len(<<v>>) = 1 /\ <<u>>[1] = u /\ <<v>>[1] = v
      /\ Len(<<u, v>>) = 2 /\ <<u, v>>[1] = u /\ <<u, v>>[2] = v
  OBVIOUS
<1> DEFINE r == <<u>> \o <<v>>
<1>2. /\ r \in Seq({u, v}) /\ Len(r) = 2
      /\ \A i \in 1..2 : r[i] = IF i <= 1 THEN u ELSE v
  BY <1>1, ConcatProperties
<1> HIDE DEF r
<1>3. r[1] = u /\ r[2] = v
  BY <1>2
<1>4. r = <<u, v>>
  BY <1>1, <1>2, <1>3, SeqEqual
<1> QED  BY <1>4 DEF r

LEMMA Nothing == \A S : <<>> \in Seq(S) /\ Elements(<<>>) = {}
BY DEF Elements

LEMMA Steps2 ==
    /\ StoreSteps \subseteq Steps /\ PushSteps \subseteq Steps /\ RemoveSteps \subseteq Steps
    /\ EraseSteps \subseteq Steps
    /\ {"get.hget", "search.lrange", "member.lrange", "match.lrange", "close.lrange", "create.hset",
        "mm.lrange", "notify.lrange", "mmc.lrange", "mmc.expire", "mmc.lpush", "mmc.llen",
        "mmc.del"} \subseteq Steps
    /\ {"search", "leave", "confirm", "exit", "close", "heal", "match", "found", "start",
        "disband"} = Jobs
BY DEF Steps, StoreSteps, Jobs, AllOps

(* An order of a set lists each of its elements once.                       *)
LEMMA Orders ==
    ASSUME NEW S, IsFiniteSet(S), NEW order \in SetToSeqs(S)
    PROVE  /\ DOMAIN order = 1..Cardinality(S) /\ Cardinality(S) \in Nat
           /\ Len(order) = Cardinality(S) /\ order \in Seq(S)
           /\ Elements(order) = S /\ Range(order) = S
           /\ \A i, j \in DOMAIN order : order[i] = order[j] => i = j
<1>1. order \in [1..Cardinality(S) -> S] /\ \A i, j \in 1..Cardinality(S) : i # j => order[i] # order[j]
  BY DEF SetToSeqs
<1>2. Cardinality(S) \in Nat
  BY FS_CardinalityType
<1>3. order \in Injection(1..Cardinality(S), S)
  BY <1>1 DEF Injection, IsInjective
<1>4. IsFiniteSet(1..Cardinality(S)) /\ Cardinality(1..Cardinality(S)) = Cardinality(S)
  BY <1>2, FS_Interval
<1>5. order \in Surjection(1..Cardinality(S), S)
  BY <1>3, <1>4, FS_Injection
<1>6. \A x \in S : \E i \in 1..Cardinality(S) : order[i] = x
  BY <1>5 DEF Surjection
<1> QED  BY <1>1, <1>2, <1>6 DEF Elements, Range

(* Whose command it is, and for whom and what. *)
LEMMA Kinds ==
    ASSUME NEW t \in Good
    PROVE  /\ t.step = "search.lrange" => t.job = "search"
           /\ t.step = "get.hget" => t.job \in {"confirm", "exit", "close"}
           /\ t.step = "member.lrange" => t.job \in {"confirm", "exit"}
           /\ t.step \in {"mmc.lrange", "mmc.expire", "mmc.lpush"} => t.job = "confirm"
           /\ t.step \in {"match.lrange", "close.lrange"} => t.job = "close"
           /\ t.step \in {"mm.lrange", "create.hset"} => t.job = "match"
           /\ t.step = "mmc.llen" => t.job = "start"
           /\ t.step = "mmc.del" => t.job \in {"start", "disband"}
           /\ t.step \in PushSteps => t.job \in {"search", "match"}
           /\ t.step \in RemoveSteps => t.job \in {"leave", "exit", "close", "match"}
           /\ t.step \in EraseSteps => t.job \in {"heal", "disband"}
           /\ t.step = "notify.lrange" =>
                 t.job \in {"confirm", "exit", "close", "found", "start", "disband"}
           /\ Fits(t.job, t.step, t.c, t.g, t.for) /\ t \in Tasks
           /\ t.job \in Jobs /\ t.step \in Steps
<1>1. t \in Tasks /\ Fits(t.job, t.step, t.c, t.g, t.for)
  BY DEF Good, Formed
<1>2. t.job \in Jobs /\ t.step \in Steps
  BY <1>1 DEF Tasks
<1> DEFINE j == t.job
           st == t.step
<1>3. /\ j = "search" => st \in {"search.lrange"} \cup PushSteps
      /\ j = "leave" => st \in RemoveSteps
      /\ j = "confirm" => st \in {"get.hget", "member.lrange", "mmc.lrange", "mmc.expire",
                                       "mmc.lpush", "notify.lrange"}
      /\ j = "exit" => st \in {"get.hget", "member.lrange", "notify.lrange"} \cup RemoveSteps
      /\ j = "close" => st \in {"match.lrange", "close.lrange", "get.hget", "notify.lrange"}
                                       \cup RemoveSteps
      /\ j = "heal" => st \in EraseSteps
      /\ j = "match" => st \in {"mm.lrange", "create.hset"} \cup RemoveSteps \cup PushSteps
      /\ j = "found" => st = "notify.lrange"
      /\ j = "start" => st \in {"mmc.llen", "mmc.del", "notify.lrange"}
      /\ j = "disband" => st \in {"mmc.del", "notify.lrange"} \cup EraseSteps
  BY <1>1 DEF Fits
<1>4. j \in {"search", "leave", "confirm", "exit", "close", "heal", "match", "found", "start",
             "disband"}
  BY <1>2, Steps2
<1> HIDE DEF j, st
<1>5. /\ st = "search.lrange" => j = "search"
      /\ st = "get.hget" => j \in {"confirm", "exit", "close"}
      /\ st = "member.lrange" => j \in {"confirm", "exit"}
      /\ st \in {"mmc.lrange", "mmc.expire", "mmc.lpush"} => j = "confirm"
      /\ st \in {"match.lrange", "close.lrange"} => j = "close"
      /\ st \in {"mm.lrange", "create.hset"} => j = "match"
      /\ st = "mmc.llen" => j = "start"
      /\ st = "mmc.del" => j \in {"start", "disband"}
  BY <1>3, <1>4 DEF PushSteps, RemoveSteps, EraseSteps
<1>6. /\ st \in PushSteps => j \in {"search", "match"}
      /\ st \in RemoveSteps => j \in {"leave", "exit", "close", "match"}
  BY <1>3, <1>4 DEF PushSteps, RemoveSteps, EraseSteps
<1>7. /\ st \in EraseSteps => j \in {"heal", "disband"}
      /\ st = "notify.lrange" => j \in {"confirm", "exit", "close", "found", "start", "disband"}
  BY <1>3, <1>4 DEF PushSteps, RemoveSteps, EraseSteps
<1> QED  BY <1>1, <1>2, <1>5, <1>6, <1>7 DEF j, st

(* A request starts with one command. *)
LEMMA Sent ==
    ASSUME TypeInv, NEW op \in Jobs, NEW c \in Clients, NEW st \in Steps,
           NEW g \in Groups \cup {None}, Fits(op, st, c, g, None), Send(op, c, st, g)
    PROVE  LET u == RoomTask(st, op, c, g, None) IN
           /\ u \in Good /\ Pipeline' = Pipeline \o <<u>> /\ Queued' = Queued \cup {u}
           /\ pipe' \in [Servers -> Seq(Good)]
<1> DEFINE u == RoomTask(st, op, c, g, None)
<1>1. u \in Good
  BY RoomGood
<1>2. <<u>> \in Seq(Good) /\ Elements(<<u>>) = {u} /\ Issue(Server, <<u>>)
  BY <1>1, Singly DEF Send
<1> HIDE DEF u
<1>3. pipe \in [Servers -> Seq(Good)]
  BY DEF TypeInv
<1>4. Pipeline' = Pipeline \o <<u>> /\ Queued' = Queued \cup {u} /\ pipe' \in [Servers -> Seq(Good)]
  BY <1>2, <1>3, Issued
<1> QED  BY <1>1, <1>4 DEF u

(* What is in the pipeline once at most stays so, when what is added behind *)
(* brings it once at most, and only when it is not there yet.               *)
LEMMA OnceMore ==
    ASSUME NEW S, Pipeline \in Seq(S), NEW f \in Seq(S), Pipeline' = Pipeline \o f,
           NEW T, AtMostOnce(T), Queued \cap T = {} \/ Elements(f) \cap T = {},
           \A i, j \in DOMAIN f : f[i] \in T /\ f[j] \in T => i = j
    PROVE  AtMostOnce(T)'
<1> DEFINE q == Pipeline
           r == q \o f
<1>1. /\ Len(q) \in Nat /\ DOMAIN q = 1..Len(q) /\ Len(f) \in Nat /\ DOMAIN f = 1..Len(f)
      /\ DOMAIN r = 1..(Len(q) + Len(f))
      /\ \A i \in DOMAIN r : r[i] = IF i <= Len(q) THEN q[i] ELSE f[i - Len(q)]
  BY AppendElements, LenProperties
<1>2. \A i, j \in DOMAIN q : q[i] \in T /\ q[j] \in T => i = j
  BY DEF AtMostOnce
<1>3. \A i \in DOMAIN q, j \in DOMAIN f : ~(q[i] \in T /\ f[j] \in T)
  BY DEF Queued, Elements
<1>4. AtMostOnce(T)' <=> \A i, j \in DOMAIN r : r[i] \in T /\ r[j] \in T => i = j
  BY DEF AtMostOnce
<1> HIDE DEF q, r
<1> SUFFICES ASSUME NEW i \in DOMAIN r, NEW j \in DOMAIN r, r[i] \in T, r[j] \in T PROVE i = j
  BY <1>4
<1>5. \A k \in DOMAIN r : k <= Len(q) => k \in DOMAIN q /\ r[k] = q[k]
  BY <1>1
<1>6. \A k \in DOMAIN r : ~(k <= Len(q)) => k - Len(q) \in DOMAIN f /\ r[k] = f[k - Len(q)]
  BY <1>1
<1>7. CASE i <= Len(q) /\ j <= Len(q)
  BY <1>2, <1>5, <1>7
<1>8. CASE ~(i <= Len(q)) /\ ~(j <= Len(q))
  <2>1. i - Len(q) = j - Len(q)
    BY <1>6, <1>8
  <2> QED  BY <1>1, <2>1
<1>9. CASE i <= Len(q) /\ ~(j <= Len(q))
  BY <1>3, <1>5, <1>6, <1>9
<1>10. CASE ~(i <= Len(q)) /\ j <= Len(q)
  BY <1>3, <1>5, <1>6, <1>10
<1> QED  BY <1>7, <1>8, <1>9, <1>10

LEMMA OnceAgain ==
    ASSUME NEW S, Pipeline \in Seq(S), Pipeline # <<>>, NEW f \in Seq(S),
           Pipeline' = Tail(Pipeline) \o f,
           NEW T, AtMostOnce(T), Behind \cap T = {} \/ Elements(f) \cap T = {},
           \A i, j \in DOMAIN f : f[i] \in T /\ f[j] \in T => i = j
    PROVE  AtMostOnce(T)'
<1> DEFINE q == Pipeline
           r == Tail(q) \o f
<1>1. /\ Len(q) \in Nat \ {0} /\ DOMAIN q = 1..Len(q)
      /\ Len(f) \in Nat /\ DOMAIN f = 1..Len(f)
      /\ DOMAIN r = 1..(Len(q) - 1 + Len(f))
      /\ \A i \in DOMAIN r : r[i] = IF i < Len(q) THEN q[i + 1] ELSE f[i - Len(q) + 1]
  BY StepElements, LenProperties, EmptySeq
<1>2. \A i, j \in DOMAIN q : q[i] \in T /\ q[j] \in T => i = j
  BY DEF AtMostOnce
<1>3. \A i \in 2..Len(q), j \in DOMAIN f : ~(q[i] \in T /\ f[j] \in T)
  BY DEF Behind, Elements, Pipeline
<1>4. AtMostOnce(T)' <=> \A i, j \in DOMAIN r : r[i] \in T /\ r[j] \in T => i = j
  BY DEF AtMostOnce
<1> HIDE DEF q, r
<1> SUFFICES ASSUME NEW i \in DOMAIN r, NEW j \in DOMAIN r, r[i] \in T, r[j] \in T PROVE i = j
  BY <1>4
<1>5. \A k \in DOMAIN r : k < Len(q) => k + 1 \in 2..Len(q) /\ r[k] = q[k + 1]
                                         /\ k + 1 \in DOMAIN q
  BY <1>1
<1>6. \A k \in DOMAIN r : ~(k < Len(q)) => k - Len(q) + 1 \in DOMAIN f
                                            /\ r[k] = f[k - Len(q) + 1]
  BY <1>1
<1>7. CASE i < Len(q) /\ j < Len(q)
  <2>1. i + 1 = j + 1
    BY <1>2, <1>5, <1>7
  <2> QED  BY <1>1, <2>1
<1>8. CASE ~(i < Len(q)) /\ ~(j < Len(q))
  <2>1. i - Len(q) + 1 = j - Len(q) + 1
    BY <1>6, <1>8
  <2> QED  BY <1>1, <2>1
<1>9. CASE i < Len(q) /\ ~(j < Len(q))
  BY <1>3, <1>5, <1>6, <1>9
<1>10. CASE ~(i < Len(q)) /\ j < Len(q)
  BY <1>3, <1>5, <1>6, <1>10
<1> QED  BY <1>7, <1>8, <1>9, <1>10

(* The burst of an erase is no command of T before or after its step. *)
LEMMA OnceReplaced ==
    ASSUME NEW u, DOMAIN Pipeline' = DOMAIN Pipeline, Pipeline'[1] = u,
           \A i \in DOMAIN Pipeline : i # 1 => Pipeline'[i] = Pipeline[i],
           NEW T, AtMostOnce(T), u \in T => Pipeline[1] \in T
    PROVE  AtMostOnce(T)'
BY DEF AtMostOnce

LEMMA OneMore == \A u, T : \A i, j \in DOMAIN <<u>> : <<u>>[i] \in T /\ <<u>>[j] \in T => i = j
OBVIOUS

(* Commands that are no run's, while the runs stay as they are.             *)
LEMMA FillingKept ==
    ASSUME TypeInv, UNCHANGED <<run, batch>>,
           \A t \in Queued' : t \in Queued \/ t.job # "match",
           \A r \in RunIds : AtMostOnce(RunTasks(r))',
           Queued' \subseteq Good
    PROVE  Filling'
<1>1. \A t \in Queued' : t.step = "mm.lrange" => t.job = "match"
  BY Kinds
<1> QED  BY <1>1 DEF Filling, TypeInv

LEMMA GoodTasks == Seq(Good) \subseteq Seq(Tasks)
<1>1. Good \subseteq Tasks
  BY DEF Good
<1> QED  BY <1>1

LEMMA TypeInit == Init => TypeInv
<1> SUFFICES ASSUME Init PROVE TypeInv
  OBVIOUS
<1>1. TypeOK
  <2>1. view \in [Clients -> [at : Places, m : Matches \cup {None}]]
    BY DEF Init, NoView, Places
  <2>2. pipe \in [Servers -> Seq(Tasks)] /\ pipe \in [Servers -> Seq(Good)]
    BY DEF Init
  <2>3. Queue \in Groups
    BY Names
  <2>4. batch \in [RunIds -> Seq(minted)] /\ lobby \in [Matches -> Seq(Clients)]
        /\ verdicts \in [Matches -> Seq({"start", "disband"})]
    BY DEF Init
  <2> QED  BY <2>1, <2>2, <2>3, <2>4 DEF Init, TypeOK, EmptyMembers, EmptyGroupsOf
<1>2. pipe \in [Servers -> Seq(Good)]
  BY DEF Init
<1>3. \A c \in Clients : view[c].at = "free" /\ view[c].m = None
  BY DEF Init, NoView
<1>4. Pipeline = <<>> /\ Queued = {} /\ DOMAIN Pipeline = {}
  BY OneServer DEF Init, Pipeline, Queued
<1>5. Filling
  BY <1>4 DEF Init, Filling, AtMostOnce
<1> QED  BY <1>1, <1>2, <1>3, <1>5 DEF Init, TypeInv, InMatch

LEMMA ViewSet ==
    ASSUME TypeInv, NEW c \in Clients
    PROVE  /\ view[c].at \in Places /\ view[c].m \in Matches \cup {None}
           /\ view[c].at \in InMatch => view[c].m \in Matches
           /\ view[c].at \notin InMatch => view[c].m = None
BY DEF TypeInv, TypeOK

(* What a request changes: it adds a command behind the pipeline, and the   *)
(* client's view and connection.                                            *)
LEMMA TypeClient == TypeInv /\ (\E c \in Clients : ClientStep(c)) => TypeInv'
<1> SUFFICES ASSUME TypeInv, NEW c \in Clients, ClientStep(c) PROVE TypeInv'
  OBVIOUS
<1> USE DEF storeVars, runVars, roundVars, mmcVars, clientVars
<1>n. Queue \in Groups /\ Matches \subseteq Groups
  BY Names
<1>0. ASSUME UNCHANGED <<storeVars, runVars, roundVars, mmcVars>>,
             pipe' \in [Servers -> Seq(Good)], online' \subseteq Clients,
             view' \in [Clients -> [at : Places, m : Matches \cup {None}]],
             \A d \in Clients : IF view'[d].at \in InMatch THEN view'[d].m \in Matches
                                                           ELSE view'[d].m = None,
             Filling'
      PROVE  TypeInv'
  <2>1. pipe' \in [Servers -> Seq(Tasks)]
    BY <1>0, GoodTasks
  <2> QED  BY <1>0, <2>1 DEF TypeInv, TypeOK
<1>f. ASSUME NEW op \in Jobs, op # "match", NEW st \in Steps, NEW g \in Groups \cup {None},
             Fits(op, st, c, g, None), Send(op, c, st, g), UNCHANGED runVars
      PROVE  Filling' /\ pipe' \in [Servers -> Seq(Good)]
  <2> DEFINE u == RoomTask(st, op, c, g, None)
  <2>1. /\ u \in Good /\ Pipeline' = Pipeline \o <<u>> /\ Queued' = Queued \cup {u}
        /\ pipe' \in [Servers -> Seq(Good)]
    BY <1>f, Sent
  <2>2. u.job # "match" /\ u.step # "mm.lrange"
    <3>1. u.job # "match"
      BY <1>f, RoomFields
    <3> QED  BY <2>1, <3>1, Kinds
  <2> HIDE DEF u
  <2>3. Pipeline \in Seq(Good) /\ <<u>> \in Seq(Good) /\ Elements(<<u>>) = {u}
        /\ Queued \subseteq Good
    BY <2>1, OneServer, Singly DEF TypeInv, Pipeline, Queued
  <2>4. ASSUME NEW r \in RunIds PROVE AtMostOnce(RunTasks(r))'
    <3>1. AtMostOnce(RunTasks(r)) /\ Elements(<<u>>) \cap RunTasks(r) = {}
      BY <2>2, <2>3 DEF TypeInv, Filling, RunTasks
    <3> QED  BY <2>1, <2>3, <3>1, OneMore, OnceMore
  <2>5. Queued' \subseteq Good /\ \A t \in Queued' : t \in Queued \/ t.job # "match"
    BY <2>1, <2>2, <2>3
  <2> QED  BY <1>f, <2>1, <2>4, <2>5, FillingKept
<1>v. view \in [Clients -> [at : Places, m : Matches \cup {None}]] /\ online \subseteq Clients
  BY DEF TypeInv, TypeOK
<1>1. CASE Search(c)
  <2>1. pipe' \in [Servers -> Seq(Good)] /\ Filling'
    <3>1. Fits("search", "search.lrange", c, Queue, None) /\ Send("search", c, "search.lrange", Queue)
      BY <1>1 DEF Search, Fits
    <3> QED  BY <3>1, <1>f, <1>1, <1>n, Steps2 DEF Search
  <2>2. view' = [view EXCEPT ![c] = [at |-> "searching", m |-> None]]
    BY <1>1 DEF Search, NoView
  <2> QED  BY <1>0, <1>1, <1>v, <2>1, <2>2, ViewSet DEF Search, Places, InMatch
<1>2. CASE Leave(c)
  <2>1. Fits("leave", "remove.lremClient", c, Queue, None)
        /\ Send("leave", c, "remove.lremClient", Queue)
    BY <1>2 DEF Leave, Fits, RemoveSteps
  <2>2. pipe' \in [Servers -> Seq(Good)] /\ Filling'
    BY <2>1, <1>f, <1>2, <1>n, Steps2 DEF RemoveSteps, Leave
  <2> QED  BY <1>0, <1>2, <1>v, <2>2, ViewSet DEF Leave
<1>3. CASE Confirm(c)
  <2>0. view[c].m \in Matches
    BY <1>3, ViewSet DEF Confirm, InMatch
  <2>1. Fits("confirm", "get.hget", c, view[c].m, None) /\ Send("confirm", c, "get.hget", view[c].m)
    BY <1>3, <2>0 DEF Confirm, Fits
  <2>2. pipe' \in [Servers -> Seq(Good)] /\ Filling'
    BY <2>0, <2>1, <1>f, <1>3, <1>n, Steps2 DEF Confirm
  <2>3. view' = [view EXCEPT ![c] = [at |-> "confirmed", m |-> view[c].m]]
    <3>1. view[c] \in [at : Places, m : Matches \cup {None}]
      BY <1>v
    <3>2. [view[c] EXCEPT !.at = "confirmed"] = [at |-> "confirmed", m |-> view[c].m]
      BY <3>1
    <3>3. view' = [view EXCEPT ![c] = [view[c] EXCEPT !.at = "confirmed"]]
      BY <1>3 DEF Confirm
    <3> QED  BY <3>2, <3>3
  <2> QED  BY <1>0, <1>3, <1>v, <2>0, <2>2, <2>3, ViewSet DEF Confirm, Places, InMatch
<1>4. CASE Exit(c)
  <2>0. view[c].m \in Matches
    BY <1>4, ViewSet DEF Exit, InMatch
  <2>1. Fits("exit", "get.hget", c, view[c].m, None) /\ Send("exit", c, "get.hget", view[c].m)
    BY <1>4, <2>0 DEF Exit, Fits
  <2>2. pipe' \in [Servers -> Seq(Good)] /\ Filling'
    BY <2>0, <2>1, <1>f, <1>4, <1>n, Steps2 DEF Exit
  <2> QED  BY <1>0, <1>4, <1>v, <2>2, ViewSet DEF Exit
<1>5. CASE Close(c)
  <2>1. Fits("close", "match.lrange", c, None, None) /\ Send("close", c, "match.lrange", None)
    BY <1>5 DEF Close, Fits
  <2>2. pipe' \in [Servers -> Seq(Good)] /\ Filling'
    BY <2>1, <1>f, <1>5, Steps2 DEF Close
  <2>3. view' = [view EXCEPT ![c] = [at |-> "free", m |-> None]]
    BY <1>5 DEF Close, NoView
  <2> QED  BY <1>0, <1>5, <1>v, <2>2, <2>3, ViewSet DEF Close, Places, InMatch
<1> QED  BY <1>1, <1>2, <1>3, <1>4, <1>5 DEF ClientStep

-------------------------------------------------------------------------------
(* The lobbies of a listing. *)

LEMMA Divided ==
    ASSUME NEW a \in Int, NEW b \in Int, b > 0
    PROVE  a \div b \in Int /\ a % b \in 0..(b - 1) /\ a = (b * (a \div b)) + (a % b)
OBVIOUS

LEMMA DividedOnce ==
    ASSUME NEW a \in Int, NEW b \in Int, b > 0,
           NEW q \in Int, NEW r \in 0..(b - 1), a = (q * b) + r
    PROVE  a \div b = q
OBVIOUS

LEMMA Scaled ==
    ASSUME NEW b \in Nat \ {0}, NEW i \in Int, NEW n \in Int
    PROVE  /\ i * b \in Int /\ n * b \in Int /\ (i - 1) * b = (i * b) - b
           /\ i <= n => i * b <= n * b
           /\ i * b < n * b => i < n
           /\ i > 0 => i * b > 0
BY SMT

LEMMA CutOut ==
    ASSUME NEW n \in Nat, NEW k \in 1..(n * LobbySize)
    PROVE  /\ LobbyAt(k) \in 1..n
           /\ k - ((LobbyAt(k) - 1) * LobbySize) \in 1..LobbySize
<1> DEFINE d == (k - 1) \div LobbySize
<1>1. LobbySize \in Nat \ {0} /\ LobbySize \in Int /\ LobbySize > 0 /\ n * LobbySize \in Nat
  BY RoomAssumption, Scaled
<1>2. k - 1 \in Nat /\ k <= n * LobbySize
  BY <1>1
<1>3. d \in Int /\ (k - 1) % LobbySize \in 0..(LobbySize - 1)
      /\ k - 1 = (LobbySize * d) + ((k - 1) % LobbySize)
  BY <1>1, <1>2, Divided
<1>4. LobbySize * d = d * LobbySize
  BY <1>1, <1>3
<1> HIDE DEF d
<1>5. d * LobbySize \in Int /\ d * LobbySize <= k - 1 /\ k - 1 < (d * LobbySize) + LobbySize
  BY <1>1, <1>2, <1>3, <1>4, Scaled
<1>6. d < n
  <2>1. d * LobbySize < n * LobbySize
    BY <1>1, <1>2, <1>5
  <2> QED  BY <2>1, <1>1, <1>3, Scaled
<1>7. d >= 0
  <2>1. (d + 1) * LobbySize = (d * LobbySize) + LobbySize
    BY <1>1, <1>3
  <2>2. 0 * LobbySize < (d + 1) * LobbySize
    BY <2>1, <1>1, <1>2, <1>5
  <2>3. 0 < d + 1
    BY <2>2, <1>1, <1>3, Scaled
  <2> QED  BY <2>3, <1>3
<1>8. LobbyAt(k) = d + 1
  BY DEF LobbyAt, d
<1>9. LobbyAt(k) - 1 = d
  BY <1>3, <1>8
<1> QED  BY <1>1, <1>2, <1>3, <1>5, <1>6, <1>7, <1>8, <1>9

LEMMA CutInto ==
    ASSUME NEW n \in Nat, NEW i \in 1..n, NEW j \in 1..LobbySize
    PROVE  /\ ((i - 1) * LobbySize) + j \in 1..(n * LobbySize)
           /\ LobbyAt(((i - 1) * LobbySize) + j) = i
<1> DEFINE k == ((i - 1) * LobbySize) + j
<1>1. LobbySize \in Nat \ {0} /\ LobbySize \in Int /\ LobbySize > 0
  BY RoomAssumption
<1>2. i \in Int /\ n \in Int /\ i - 1 \in Int /\ i <= n /\ j \in Int /\ j >= 1 /\ j <= LobbySize
  BY <1>1
<1>3. /\ (i - 1) * LobbySize = (i * LobbySize) - LobbySize
      /\ i * LobbySize \in Int /\ n * LobbySize \in Int /\ i * LobbySize <= n * LobbySize
  BY <1>1, <1>2, Scaled
<1>4. 0 * LobbySize <= (i - 1) * LobbySize /\ (i - 1) * LobbySize \in Int
  BY <1>1, <1>2, Scaled
<1>5. k \in 1..(n * LobbySize)
  BY <1>1, <1>2, <1>3, <1>4
<1>6. (k - 1) \div LobbySize = i - 1
  <2>1. k - 1 = ((i - 1) * LobbySize) + (j - 1) /\ j - 1 \in 0..(LobbySize - 1) /\ k - 1 \in Int
    BY <1>1, <1>2, <1>4
  <2> HIDE DEF k
  <2> QED  BY <2>1, <1>1, <1>2, DividedOnce
<1> HIDE DEF k
<1>7. LobbyAt(k) = i
  BY <1>2, <1>6 DEF LobbyAt
<1> QED  BY <1>5, <1>7 DEF k

LEMMA Sized ==
    ASSUME NEW list \in [Clients -> Nat]
    PROVE  ListSize(list) \in Nat
<1> DEFINE f == [c \in Clients |-> {c} \X (1..list[c])]
           T == {{c} \X (1..list[c]) : c \in Clients}
<1>1. f \in Surjection(Clients, T)
  BY DEF Surjection
<1>2. \A c \in Clients : IsFiniteSet({c} \X (1..list[c]))
  <2> SUFFICES ASSUME NEW c \in Clients PROVE IsFiniteSet({c} \X (1..list[c]))
    OBVIOUS
  <2>1. IsFiniteSet({c}) /\ IsFiniteSet(1..list[c])
    <3>1. 1 \in Int /\ list[c] \in Int
      OBVIOUS
    <3> QED  BY <3>1, FS_Singleton, FS_Interval
  <2> QED  BY <2>1, FS_Product
<1>3. \A S \in T : IsFiniteSet(S)
  BY <1>2
<1> HIDE DEF f, T
<1>4. IsFiniteSet(T)
  BY <1>1, FS_Surjection, StoreAssumption
<1>5. IsFiniteSet(UNION T)
  BY <1>3, <1>4, FS_UNION
<1> QED  BY <1>5, FS_CardinalityType DEF ListSize, T

-------------------------------------------------------------------------------
(* The steps of the server: which command runs, and what its chain goes on  *)
(* with.                                                                    *)

Current == Head(Pipeline)

(* The head runs, and its chain goes on with f.                             *)
Runs(f) ==
    /\ Pipeline # <<>> /\ f \in Seq(Good)
    /\ pipe' \in [Servers -> Seq(Good)]
    /\ Pipeline' = Tail(Pipeline) \o f
    /\ Queued' = Behind \cup Elements(f)

LEMMA Currently ==
    ASSUME TypeInv, NEW s \in Servers, NEW st, Running(s, st)
    PROVE  /\ s = Server /\ pipe[s] = Pipeline /\ Pipeline # <<>>
           /\ Current \in Good /\ Current \in Tasks /\ Current.step = st
           /\ Fits(Current.job, st, Current.c, Current.g, Current.for)
           /\ Current \in Queued /\ Behind \subseteq Queued /\ Queued = {Current} \cup Behind
<1>1. s = Server /\ pipe[s] = Pipeline /\ Pipeline # <<>> /\ Current.step = st
  BY OneServer DEF Running, Pipeline, Current
<1>2. pipe \in [Servers -> Seq(Good)]
  BY DEF TypeInv
<1>3. /\ Current \in Good /\ Current \in Queued /\ Behind \subseteq Queued
      /\ Queued = {Current} \cup Behind
  BY <1>1, <1>2, Heads DEF Current
<1> QED  BY <1>1, <1>3 DEF Good, Formed

LEMMA RunsOn ==
    ASSUME TypeInv, Pipeline # <<>>, NEW f \in Seq(Good), Reply(Server, f)
    PROVE  Runs(f)
BY Replied DEF Runs, TypeInv

LEMMA FinitePeople == IsFiniteSet(Clients) /\ IsFiniteSet(Groups) /\ IsFiniteSet(Matches)
<1>1. IsFiniteSet(Clients) /\ IsFiniteSet(Groups) /\ Matches \in SUBSET Groups
  BY StoreAssumption DEF Matches
<1> QED  BY <1>1, FS_Subset

(* A run lists the queue: it fills the lobbies of new matches, and removes  *)
(* those it puts there from the queue.                                      *)
LEMMA QueueCut ==
    ASSUME TypeInv, NEW s \in Servers, MatchQueue(s)
    PROVE  /\ Current.step = "mm.lrange" /\ Current.job = "match" /\ Current.for \in RunIds
           /\ UNCHANGED <<storeVars, clientVars, roundVars, mmcVars>>
           /\ \E new \in SUBSET (Matches \ minted), ids \in Seq(Matches),
              f \in Seq(Good), q \in Listings(Queue) :
                 /\ Runs(f)
                 /\ Elements(ids) = new /\ Range(ids) = new
                 /\ \A t \in Elements(f) :
                       \E m \in new : \E c \in Elements(lobby'[m]) :
                          t = RoomTask("remove.lremClient", "match", c, Queue, m)
                 /\ \A m \in new : lobby'[m] \in [1..LobbySize -> Clients]
                 /\ \A m \in new, j \in 1..LobbySize :
                       RoomTask("remove.lremClient", "match", lobby'[m][j], Queue, m) \in Elements(f)
                 /\ lobby' \in [Matches -> Seq(Clients)]
                 /\ \A m \in Matches \ new : lobby'[m] = lobby[m]
                 /\ \E at \in [new \X (1..LobbySize) -> DOMAIN q] :
                       /\ \A x, y \in new \X (1..LobbySize) : at[x] = at[y] => x = y
                       /\ \A m \in new, j \in 1..LobbySize : lobby'[m][j] = q[at[<<m, j>>]]
                 /\ batch' = [batch EXCEPT ![Current.for] = ids]
                 /\ minted' = minted \cup new
                 /\ run' = IF new = {} THEN [run EXCEPT ![Current.for] = "pausing"] ELSE run
<1> DEFINE t == Current
           full == ListSize(members[Queue]) \div LobbySize
           L == LobbySize
<1>1. /\ s = Server /\ pipe[s] = Pipeline /\ Pipeline # <<>> /\ t \in Good /\ t \in Tasks
      /\ t.step = "mm.lrange" /\ Fits(t.job, "mm.lrange", t.c, t.g, t.for)
      /\ Head(pipe[s]) = t
  BY Currently DEF MatchQueue, Current
<1>2. t.job = "match" /\ t.for \in RunIds
  <2>1. t.job \in Jobs
    BY <1>1 DEF Tasks
  <2> QED  BY <1>1, <2>1, Steps2 DEF Fits, PushSteps, RemoveSteps, EraseSteps
<1>3. UNCHANGED <<storeVars, clientVars, roundVars, mmcVars>>
  BY DEF MatchQueue
<1>4. PICK q \in Listings(Queue), new \in SUBSET (Matches \ minted) :
         /\ Cardinality(new) <= full
         /\ \E ids \in SetToSeqs(new) :
              /\ Reply(s, [k \in 1..(Len(ids) * L) |->
                             RoomTask("remove.lremClient", "match", q[k], Queue, ids[LobbyAt(k)])])
              /\ lobby' = [m \in Matches |->
                             LET i == CHOOSE i \in DOMAIN ids : ids[i] = m IN
                             IF m \in new
                             THEN [j \in 1..L |-> q[((i - 1) * L) + j]]
                             ELSE lobby[m]]
              /\ batch' = [batch EXCEPT ![t.for] = ids]
         /\ minted' = minted \cup new
         /\ run' = IF new = {} THEN [run EXCEPT ![t.for] = "pausing"] ELSE run
  BY <1>1 DEF MatchQueue
<1>5. PICK ids \in SetToSeqs(new) :
         /\ Reply(s, [k \in 1..(Len(ids) * L) |->
                        RoomTask("remove.lremClient", "match", q[k], Queue, ids[LobbyAt(k)])])
         /\ lobby' = [m \in Matches |->
                        LET i == CHOOSE i \in DOMAIN ids : ids[i] = m IN
                        IF m \in new
                        THEN [j \in 1..L |-> q[((i - 1) * L) + j]]
                        ELSE lobby[m]]
         /\ batch' = [batch EXCEPT ![t.for] = ids]
  BY <1>4
<1> DEFINE n == Len(ids)
           f == [k \in 1..(n * L) |->
                    RoomTask("remove.lremClient", "match", q[k], Queue, ids[LobbyAt(k)])]
           Place(m) == CHOOSE i \in DOMAIN ids : ids[i] = m
<1>6. IsFiniteSet(new)
  BY FinitePeople, FS_Subset
<1>7. /\ DOMAIN ids = 1..n /\ n \in Nat /\ n = Cardinality(new) /\ ids \in Seq(new)
      /\ Elements(ids) = new /\ Range(ids) = new
      /\ \A i, j \in DOMAIN ids : ids[i] = ids[j] => i = j
  BY <1>6, Orders
<1>8. L \in Nat \ {0} /\ L \in Int /\ L > 0
  BY RoomAssumption
<1>9. ListSize(members[Queue]) \in Nat
  BY Sized, Names DEF TypeInv, TypeOK
<1>10. n * L \in Nat /\ n * L <= ListSize(members[Queue])
  <2>1. full \in Int /\ ListSize(members[Queue]) % L \in 0..(L - 1)
        /\ ListSize(members[Queue]) = (L * full) + (ListSize(members[Queue]) % L)
    BY <1>8, <1>9, Divided
  <2> HIDE DEF full
  <2>4. n \in Int /\ n <= full /\ n >= 0
    BY <1>4, <1>7
  <2>5. n * L \in Int /\ 0 * L <= n * L /\ n * L <= full * L
    BY <1>8, <2>1, <2>4, Scaled, SMTT(20)
  <2>2. n * L <= full * L /\ n * L \in Nat
    BY <2>5, <1>8
  <2>3. full * L = L * full /\ full * L \in Int
    BY <1>8, <2>1
  <2> QED  BY <1>9, <2>1, <2>2, <2>3
<1>11. q \in [1..ListSize(members[Queue]) -> Clients]
  BY DEF Listings
<1>12. \A k \in 1..(n * L) : k \in DOMAIN q /\ q[k] \in Clients
  BY <1>9, <1>10, <1>11
<1>13. \A m \in new : Place(m) \in 1..n /\ ids[Place(m)] = m
  <2> SUFFICES ASSUME NEW m \in new PROVE Place(m) \in 1..n /\ ids[Place(m)] = m
    OBVIOUS
  <2>1. \E i \in DOMAIN ids : ids[i] = m
    BY <1>7 DEF Elements
  <2> QED  BY <1>7, <2>1
<1>14. \A i \in 1..n : Place(ids[i]) = i /\ ids[i] \in new
  BY <1>7, <1>13 DEF Elements
<1>l. lobby' = [m \in Matches |-> IF m \in new THEN [j \in 1..L |-> q[((Place(m) - 1) * L) + j]]
                                                ELSE lobby[m]]
  BY <1>5
<1>r. Reply(Server, f)
  BY <1>1, <1>5
<1> HIDE DEF Place
<1>15. \A m \in new, j \in 1..L :
          /\ ((Place(m) - 1) * L) + j \in 1..(n * L)
          /\ LobbyAt(((Place(m) - 1) * L) + j) = Place(m)
  BY <1>7, <1>13, CutInto
<1>16. \A m \in new : lobby'[m] \in [1..L -> Clients]
                       /\ \A j \in 1..L : lobby'[m][j] = q[((Place(m) - 1) * L) + j]
  BY <1>l, <1>12, <1>15
<1>17. \A m \in Matches \ new : lobby'[m] = lobby[m]
  BY <1>l
<1>18. lobby' \in [Matches -> Seq(Clients)]
  <2>1. \A m \in new : lobby'[m] \in Seq(Clients)
    BY <1>8, <1>16
  <2>2. \A m \in Matches \ new : lobby'[m] \in Seq(Clients)
    BY <1>17 DEF TypeInv, TypeOK
  <2>3. lobby' = [m \in Matches |-> lobby'[m]]
    BY <1>l
  <2> QED  BY <2>1, <2>2, <2>3
<1>19. /\ \A k \in 1..(n * L) :
             f[k] = RoomTask("remove.lremClient", "match", q[k], Queue, ids[LobbyAt(k)])
       /\ DOMAIN f = 1..(n * L)
  OBVIOUS
<1>20. \A k \in 1..(n * L) : LobbyAt(k) \in 1..n /\ ids[LobbyAt(k)] \in new
                              /\ k - ((LobbyAt(k) - 1) * L) \in 1..L
  BY <1>7, <1>14, CutOut
<1>21. \A k \in 1..(n * L) : f[k] \in Good
  <2> SUFFICES ASSUME NEW k \in 1..(n * L) PROVE f[k] \in Good
    OBVIOUS
  <2>1. q[k] \in Clients /\ ids[LobbyAt(k)] \in Matches
    BY <1>12, <1>20
  <2>2. Fits("match", "remove.lremClient", q[k], Queue, ids[LobbyAt(k)])
    BY <2>1 DEF Fits, RemoveSteps
  <2> QED  BY <1>19, <2>1, <2>2, RoomGood, Steps2, Names DEF RemoveSteps
<1>22. f \in Seq(Good)
  BY <1>10, <1>21
<1> HIDE DEF f
<1>23. Runs(f)
  BY <1>1, <1>r, <1>22, RunsOn
<1>24. \A u \in Elements(f) : \E m \in new : \E c \in Elements(lobby'[m]) :
                                 u = RoomTask("remove.lremClient", "match", c, Queue, m)
  <2> SUFFICES ASSUME NEW u \in Elements(f)
               PROVE  \E m \in new : \E c \in Elements(lobby'[m]) :
                         u = RoomTask("remove.lremClient", "match", c, Queue, m)
    OBVIOUS
  <2>5. PICK k \in DOMAIN f : u = f[k]
    BY DEF Elements
  <2>6. k \in 1..(n * L)
    BY <1>19
  <2> DEFINE m == ids[LobbyAt(k)]
             j == k - ((LobbyAt(k) - 1) * L)
  <2>1. m \in new /\ j \in 1..L /\ Place(m) = LobbyAt(k)
    BY <1>14, <1>20, <2>6
  <2>2. ((LobbyAt(k) - 1) * L) + j = k
    <3>1. LobbyAt(k) \in Int /\ LobbyAt(k) - 1 \in Int /\ k \in Int
      BY <1>7, <1>10, <1>20, <2>6
    <3>2. (LobbyAt(k) - 1) * L \in Int
      BY <1>8, <3>1, Scaled
    <3> QED  BY <3>1, <3>2
  <2>3. f[k] = RoomTask("remove.lremClient", "match", q[k], Queue, m)
    BY <1>19, <2>6
  <2> HIDE DEF m, j
  <2>4. lobby'[m] \in [1..L -> Clients] /\ lobby'[m][j] = q[((Place(m) - 1) * L) + j]
    BY <1>16, <2>1
  <2>7. lobby'[m][j] = q[k] /\ j \in DOMAIN lobby'[m]
    BY <2>1, <2>2, <2>4
  <2>8. q[k] \in Elements(lobby'[m])
    BY <2>7 DEF Elements
  <2> QED  BY <2>1, <2>3, <2>5, <2>8
<1>25. \A m \in new, j \in 1..L :
          RoomTask("remove.lremClient", "match", lobby'[m][j], Queue, m) \in Elements(f)
  <2> SUFFICES ASSUME NEW m \in new, NEW j \in 1..L
               PROVE  RoomTask("remove.lremClient", "match", lobby'[m][j], Queue, m) \in Elements(f)
    OBVIOUS
  <2> DEFINE k == ((Place(m) - 1) * L) + j
  <2>1. k \in 1..(n * L) /\ LobbyAt(k) = Place(m) /\ lobby'[m][j] = q[k] /\ ids[LobbyAt(k)] = m
    BY <1>13, <1>15, <1>16
  <2> HIDE DEF k
  <2>2. f[k] = RoomTask("remove.lremClient", "match", lobby'[m][j], Queue, m) /\ k \in DOMAIN f
    BY <1>19, <2>1
  <2> QED  BY <2>2 DEF Elements
<1>26. \E at \in [new \X (1..L) -> DOMAIN q] :
          /\ \A x, y \in new \X (1..L) : at[x] = at[y] => x = y
          /\ \A m \in new, j \in 1..L : lobby'[m][j] = q[at[<<m, j>>]]
  <2> DEFINE at == [x \in new \X (1..L) |-> ((Place(x[1]) - 1) * L) + x[2]]
  <2>1. at \in [new \X (1..L) -> DOMAIN q]
    BY <1>12, <1>15
  <2>2. ASSUME NEW x \in new \X (1..L), NEW y \in new \X (1..L), at[x] = at[y] PROVE x = y
    <3>1. x[1] \in new /\ x[2] \in 1..L /\ y[1] \in new /\ y[2] \in 1..L
          /\ x = <<x[1], x[2]>> /\ y = <<y[1], y[2]>>
      OBVIOUS
    <3>2. at[x] = ((Place(x[1]) - 1) * L) + x[2] /\ at[y] = ((Place(y[1]) - 1) * L) + y[2]
      OBVIOUS
    <3> HIDE DEF at
    <3>3. Place(x[1]) = Place(y[1])
      BY <1>15, <2>2, <3>1, <3>2
    <3>4. x[1] = y[1]
      BY <1>13, <3>1, <3>3
    <3>5. x[2] = y[2]
      <4> DEFINE a == (Place(x[1]) - 1) * L
      <4>1. a \in Int
        <5>1. Place(x[1]) \in Int /\ Place(x[1]) - 1 \in Int
          BY <1>7, <1>13, <3>1
        <5> QED  BY <1>8, <5>1, Scaled
      <4>2. at[x] = a + x[2] /\ at[y] = a + y[2]
        BY <3>2, <3>3
      <4>3. x[2] \in Int /\ y[2] \in Int
        BY <1>8, <3>1
      <4> DEFINE x2 == x[2]
                 y2 == y[2]
      <4>4. a + x2 = a + y2 /\ x2 \in Int /\ y2 \in Int
        BY <2>2, <4>2, <4>3
      <4> HIDE DEF a, x2, y2
      <4>5. x2 = y2
        BY <4>1, <4>4
      <4> QED  BY <4>5 DEF x2, y2
    <3> QED  BY <3>1, <3>4, <3>5
  <2>3. \A m \in new, j \in 1..L : lobby'[m][j] = q[at[<<m, j>>]]
    BY <1>16
  <2> QED  BY <2>1, <2>2, <2>3
<1>27. ids \in Seq(Matches)
  BY <1>7
<1>28. /\ batch' = [batch EXCEPT ![t.for] = ids] /\ minted' = minted \cup new
       /\ run' = IF new = {} THEN [run EXCEPT ![t.for] = "pausing"] ELSE run
  BY <1>4, <1>5
<1>29. \A m \in new : lobby'[m] \in [1..LobbySize -> Clients]
  BY <1>16
<1>30. t.step = "mm.lrange" /\ t.job = "match" /\ t.for \in RunIds
  BY <1>1, <1>2
<1> HIDE DEF n
<1> QED
  BY <1>3, <1>7, <1>17, <1>18, <1>22, <1>23, <1>24, <1>25, <1>26, <1>27, <1>28, <1>29, <1>30

(* A step of a request or an interval that keeps its kind: what follows is  *)
(* the head's next command, or commands of another job.                     *)
LEMMA FillingRuns ==
    ASSUME TypeInv, UNCHANGED <<run, batch>>, NEW f, Runs(f),
           \A u \in Elements(f) :
              /\ u.step # "mm.lrange"
              /\ u.job = "match" => /\ Current.job = "match" /\ Current.step # "mm.lrange"
                                    /\ u.for = Current.for
    PROVE  Filling'
<1>1. /\ Pipeline \in Seq(Good) /\ Pipeline # <<>> /\ f \in Seq(Good) /\ Current \in Queued
      /\ Behind \subseteq Queued /\ Pipeline' = Tail(Pipeline) \o f
      /\ Queued' = Behind \cup Elements(f)
  BY Heads DEF TypeInv, Runs, Current
<1>2. ASSUME NEW r \in RunIds PROVE AtMostOnce(RunTasks(r))'
  <2>1. AtMostOnce(RunTasks(r)) /\ Elements(f) \cap RunTasks(r) = {}
    BY DEF TypeInv, Filling, RunTasks
  <2>2. \A i, j \in DOMAIN f : f[i] \in RunTasks(r) /\ f[j] \in RunTasks(r) => i = j
    BY <2>1 DEF Elements
  <2> QED  BY <1>1, <2>1, <2>2, OnceAgain
<1>3. ASSUME NEW t \in Queued', t.job = "match", t.step # "mm.lrange"
      PROVE  \E r \in RunIds : t.for \in Range(batch[r])
  <2>1. \/ t \in Queued
        \/ Current.job = "match" /\ Current.step # "mm.lrange" /\ t.for = Current.for
    BY <1>1, <1>3
  <2> QED  BY <1>1, <1>3, <2>1 DEF TypeInv, Filling
<1>4. ASSUME NEW t \in Queued', t.step = "mm.lrange"
      PROVE  run[t.for] = "matching" /\ batch[t.for] = <<>>
  BY <1>1, <1>4 DEF TypeInv, Filling
<1>5. \A r \in RunIds : run[r] # "matching" => batch[r] = <<>>
  BY DEF TypeInv, Filling
<1> QED  BY <1>2, <1>3, <1>4, <1>5 DEF Filling

LEMMA NextCommand ==
    ASSUME NEW t \in Good, NEW st \in Steps, Fits(t.job, st, t.c, t.g, t.for)
    PROVE  /\ <<At(t, st)>> \in Seq(Good) /\ Elements(<<At(t, st)>>) = {At(t, st)}
           /\ At(t, st).step = st /\ At(t, st).job = t.job /\ At(t, st).c = t.c
           /\ At(t, st).g = t.g /\ At(t, st).for = t.for
           /\ At(t, st).seen = t.seen /\ At(t, st).left = t.left
BY AtGood, Singly

Heal(t) == [At(t, "erase.lrangeGroup") EXCEPT !.job = "heal"]

LEMMA HealGood ==
    ASSUME NEW t \in Good, t.step = "get.hget", t.g \in Matches
    PROVE  /\ <<Heal(t)>> \in Seq(Good) /\ Elements(<<Heal(t)>>) = {Heal(t)}
           /\ Heal(t).step = "erase.lrangeGroup" /\ Heal(t).job = "heal" /\ Heal(t).c = t.c
           /\ Heal(t).g = t.g /\ Heal(t).for = None /\ Heal(t).left = t.left
<1>1. t.for = None /\ t \in Tasks
  BY Kinds DEF Fits
<1>2. /\ Heal(t) \in Tasks /\ Heal(t).step = "erase.lrangeGroup" /\ Heal(t).job = "heal"
      /\ Heal(t).c = t.c /\ Heal(t).g = t.g /\ Heal(t).for = None /\ Heal(t).left = t.left
  BY <1>1, Steps2 DEF Tasks, Heal, At, EraseSteps
<1>3. Fits("heal", "erase.lrangeGroup", Heal(t).c, Heal(t).g, Heal(t).for)
  BY <1>2 DEF Fits, EraseSteps
<1>4. Heal(t) \in Good
  BY <1>2, <1>3 DEF Good, Formed
<1> QED  BY <1>2, <1>4, Singly

LEMMA SearchDoes ==
    ASSUME TypeInv, NEW s \in Servers, SearchCheck(s)
    PROVE  /\ Current.step = "search.lrange" /\ Current.job = "search"
           /\ Current.c \in Clients /\ Current.g = Queue
           /\ UNCHANGED <<storeVars, online, runVars, roundVars, mmcVars>>
           /\ GroupsOfClient(Current.c) = {} => /\ Runs(<<At(Current, "push.lrangeGroup")>>)
                                                /\ view' = view
           /\ GroupsOfClient(Current.c) # {} =>
                 /\ Runs(<<>>)
                 /\ view' = IF view[Current.c].at = "searching"
                            THEN Told("ignored", None, {Current.c}) ELSE view
<1>1. /\ s = Server /\ pipe[s] = Pipeline /\ Pipeline # <<>> /\ Current \in Good
      /\ Current.step = "search.lrange" /\ Head(pipe[s]) = Current
  BY Currently DEF SearchCheck, Current
<1>2. Current.job = "search" /\ Current.c \in Clients /\ Current.g = Queue
  BY <1>1, Kinds DEF Fits
<1>3. <<At(Current, "push.lrangeGroup")>> \in Seq(Good)
  <2>1. Fits(Current.job, "push.lrangeGroup", Current.c, Current.g, Current.for)
    BY <1>1, <1>2, Kinds DEF Fits, PushSteps
  <2> QED  BY <1>1, <2>1, NextCommand, Steps2 DEF PushSteps
<1>4. Reply(Server, IF GroupsOfClient(Current.c) = {} THEN <<At(Current, "push.lrangeGroup")>> ELSE <<>>)
  BY <1>1 DEF SearchCheck
<1>5. /\ GroupsOfClient(Current.c) = {} => Runs(<<At(Current, "push.lrangeGroup")>>)
      /\ GroupsOfClient(Current.c) # {} => Runs(<<>>)
  BY <1>1, <1>3, <1>4, RunsOn, Nothing
<1>6. view' = IF GroupsOfClient(Current.c) # {} /\ view[Current.c].at = "searching"
              THEN Told("ignored", None, {Current.c}) ELSE view
  BY <1>1 DEF SearchCheck
<1> QED  BY <1>1, <1>2, <1>5, <1>6 DEF SearchCheck

LEMMA GetDoes ==
    ASSUME TypeInv, NEW s \in Servers, Get(s)
    PROVE  /\ Current.step = "get.hget" /\ Current.job \in {"confirm", "exit", "close"}
           /\ Current.c \in Clients /\ Current.g \in Groups
           /\ UNCHANGED <<storeVars, clientVars, runVars, roundVars, mmcVars>>
           /\ Current.g \in registry /\ Current.job = "close" =>
                 Runs(<<At(Current, "remove.lremClient")>>)
           /\ Current.g \in registry /\ Current.job # "close" =>
                 Runs(<<At(Current, "member.lrange")>>)
           /\ Current.g \notin registry => Current.g \in Matches /\ Runs(<<Heal(Current)>>)
<1>1. /\ s = Server /\ pipe[s] = Pipeline /\ Pipeline # <<>> /\ Current \in Good
      /\ Current.step = "get.hget" /\ Head(pipe[s]) = Current
  BY Currently DEF Get, GetGroupInstance, Current
<1>2. /\ Current.job \in {"confirm", "exit", "close"} /\ Current.c \in Clients /\ Current.g \in Groups
      /\ Current.job # "close" => Current.g \in Matches
  BY <1>1, Kinds, Names DEF Fits
<1>3. Current.job = "close" => <<At(Current, "remove.lremClient")>> \in Seq(Good)
  <2> SUFFICES ASSUME Current.job = "close" PROVE <<At(Current, "remove.lremClient")>> \in Seq(Good)
    OBVIOUS
  <2>1. Fits(Current.job, "remove.lremClient", Current.c, Current.g, Current.for)
    BY <1>1, <1>2, Kinds DEF Fits, RemoveSteps
  <2> QED  BY <1>1, <2>1, NextCommand, Steps2 DEF RemoveSteps
<1>4. Current.job # "close" => <<At(Current, "member.lrange")>> \in Seq(Good)
  <2> SUFFICES ASSUME Current.job # "close" PROVE <<At(Current, "member.lrange")>> \in Seq(Good)
    OBVIOUS
  <2>1. Fits(Current.job, "member.lrange", Current.c, Current.g, Current.for)
    BY <1>1, <1>2, Kinds DEF Fits
  <2> QED  BY <1>1, <2>1, NextCommand, Steps2
<1>5. Current.g \notin registry => Current.g \in Matches /\ <<Heal(Current)>> \in Seq(Good)
  BY <1>1, <1>2, HealGood DEF TypeInv, Matches
<1>6. Reply(Server, IF Current.g \in registry
                    THEN <<At(Current, IF Current.job = "close" THEN "remove.lremClient" ELSE "member.lrange")>>
                    ELSE <<Heal(Current)>>)
  BY <1>1 DEF Get, GetGroupInstance, Found, Heal
<1> QED  BY <1>1, <1>2, <1>3, <1>4, <1>5, <1>6, RunsOn DEF Get, GetGroupInstance, storeVars
LEMMA MemberDoes ==
    ASSUME TypeInv, NEW s \in Servers, MemberCheck(s)
    PROVE  /\ Current.step = "member.lrange" /\ Current.job \in {"confirm", "exit"}
           /\ Current.c \in Clients /\ Current.g \in Matches
           /\ UNCHANGED <<storeVars, online, runVars, roundVars, mmcVars>>
           /\ ~(members[Current.g][Current.c] > 0) => Runs(<<>>) /\ view' = view
           /\ members[Current.g][Current.c] > 0 /\ Current.job = "confirm" =>
                 /\ Runs(<<At(Current, "mmc.lrange"), At(Current, "mmc.expire"),
                           At(Current, "notify.lrange")>>)
                 /\ view' = view
           /\ members[Current.g][Current.c] > 0 /\ Current.job = "exit" =>
                 /\ Runs(<<At(Current, "remove.lremClient"), At(Current, "notify.lrange")>>)
                 /\ view' = IF Current.c \in online /\ view[Current.c].m = Current.g
                            THEN Told("free", None, {Current.c}) ELSE view
<1> DEFINE t == Current
           in == members[Current.g][Current.c] > 0
<1>1. /\ s = Server /\ pipe[s] = Pipeline /\ Pipeline # <<>> /\ Current \in Good
      /\ Current.step = "member.lrange" /\ Head(pipe[s]) = Current
  BY Currently DEF MemberCheck, Current
<1>2. Current.job \in {"confirm", "exit"} /\ Current.c \in Clients /\ Current.g \in Matches
  BY <1>1, Kinds DEF Fits
<1>3. Current.job = "confirm" => At(t, "mmc.lrange") \in Good /\ At(t, "mmc.expire") \in Good
  <2> SUFFICES ASSUME Current.job = "confirm"
               PROVE  At(t, "mmc.lrange") \in Good /\ At(t, "mmc.expire") \in Good
    OBVIOUS
  <2>1. /\ Fits(t.job, "mmc.lrange", t.c, t.g, t.for) /\ Fits(t.job, "mmc.expire", t.c, t.g, t.for)
    BY <1>1, <1>2, Kinds DEF Fits
  <2> QED  BY <1>1, <2>1, AtGood, Steps2
<1>4. Current.job = "exit" => At(t, "remove.lremClient") \in Good
  <2> SUFFICES ASSUME Current.job = "exit" PROVE At(t, "remove.lremClient") \in Good
    OBVIOUS
  <2>1. Fits(t.job, "remove.lremClient", t.c, t.g, t.for)
    BY <1>1, <1>2, Kinds DEF Fits, RemoveSteps
  <2> QED  BY <1>1, <2>1, AtGood, Steps2 DEF RemoveSteps
<1>5. At(t, "notify.lrange") \in Good
  <2>1. Fits(t.job, "notify.lrange", t.c, t.g, t.for)
    BY <1>1, <1>2, Kinds DEF Fits
  <2> QED  BY <1>1, <2>1, AtGood, Steps2
<1> DEFINE next == IF ~in THEN <<>>
                   ELSE IF t.job = "confirm"
                   THEN <<At(t, "mmc.lrange"), At(t, "mmc.expire"), At(t, "notify.lrange")>>
                   ELSE <<At(t, "remove.lremClient"), At(t, "notify.lrange")>>
<1>6. Reply(Server, next)
  BY <1>1 DEF MemberCheck
<1>7. view' = IF in /\ t.job = "exit" /\ t.c \in online /\ view[t.c].m = t.g
              THEN Told("free", None, {t.c}) ELSE view
  BY <1>1 DEF MemberCheck
<1>8. ASSUME ~in PROVE Runs(<<>>) /\ view' = view
  <2> HIDE DEF in
  <2>1. next = <<>>
    BY <1>8
  <2>2. view' = view
    BY <1>7, <1>8
  <2> HIDE DEF next
  <2> QED  BY <1>1, <1>6, <2>1, <2>2, RunsOn, Nothing
<1>9. ASSUME in /\ t.job = "confirm"
      PROVE  /\ Runs(<<At(t, "mmc.lrange"), At(t, "mmc.expire"), At(t, "notify.lrange")>>)
             /\ view' = view
  <2> DEFINE f == <<At(t, "mmc.lrange"), At(t, "mmc.expire"), At(t, "notify.lrange")>>
  <2>0. next = f
    BY <1>9
  <2>1. f \in Seq(Good) /\ Reply(Server, f)
    BY <1>3, <1>5, <1>6, <1>9, <2>0
  <2> HIDE DEF f
  <2>2. Runs(f)
    BY <1>1, <2>1, RunsOn
  <2> QED  BY <1>7, <1>9, <2>2 DEF f
<1>10. ASSUME in /\ t.job = "exit"
       PROVE  /\ Runs(<<At(t, "remove.lremClient"), At(t, "notify.lrange")>>)
              /\ view' = IF t.c \in online /\ view[t.c].m = t.g
                         THEN Told("free", None, {t.c}) ELSE view
  <2> DEFINE f == <<At(t, "remove.lremClient"), At(t, "notify.lrange")>>
  <2>0. next = f
    BY <1>10
  <2>1. f \in Seq(Good) /\ Reply(Server, f)
    BY <1>4, <1>5, <1>6, <1>10, <2>0
  <2> HIDE DEF f
  <2>2. Runs(f)
    BY <1>1, <2>1, RunsOn
  <2> QED  BY <1>7, <1>10, <2>2 DEF f
<1>11. UNCHANGED <<storeVars, online, runVars, roundVars, mmcVars>>
  BY DEF MemberCheck
<1> QED  BY <1>1, <1>2, <1>8, <1>9, <1>10, <1>11

LEMMA ReadConfirmationsDoes ==
    ASSUME TypeInv, NEW s \in Servers, ReadConfirmations(s)
    PROVE  /\ Current.step = "mmc.lrange" /\ Current.job = "confirm"
           /\ Current.c \in Clients /\ Current.g \in Matches
           /\ UNCHANGED <<storeVars, clientVars, runVars, roundVars, mmcVars>>
           /\ mmc[Current.g][Current.c] > 0 => Runs(<<>>)
           /\ ~(mmc[Current.g][Current.c] > 0) => Runs(<<At(Current, "mmc.lpush")>>)
<1>1. /\ s = Server /\ pipe[s] = Pipeline /\ Pipeline # <<>> /\ Current \in Good
      /\ Current.step = "mmc.lrange" /\ Head(pipe[s]) = Current
  BY Currently DEF ReadConfirmations, Current
<1>2. Current.job = "confirm" /\ Current.c \in Clients /\ Current.g \in Matches
  BY <1>1, Kinds DEF Fits
<1>3. <<At(Current, "mmc.lpush")>> \in Seq(Good)
  <2>1. Fits(Current.job, "mmc.lpush", Current.c, Current.g, Current.for)
    BY <1>1, <1>2, Kinds DEF Fits
  <2> QED  BY <1>1, <2>1, NextCommand, Steps2
<1>4. Reply(Server, IF mmc[Current.g][Current.c] > 0 THEN <<>> ELSE <<At(Current, "mmc.lpush")>>)
  BY <1>1 DEF ReadConfirmations
<1> QED  BY <1>1, <1>2, <1>3, <1>4, RunsOn, Nothing DEF ReadConfirmations

LEMMA AddConfirmationDoes ==
    ASSUME TypeInv, NEW s \in Servers, AddConfirmation(s)
    PROVE  /\ Current.step = "mmc.lpush" /\ Current.job = "confirm"
           /\ Current.c \in Clients /\ Current.g \in Matches
           /\ UNCHANGED <<storeVars, clientVars, runVars, roundVars, ttl>>
           /\ Runs(<<>>)
           /\ mmc' \in [Matches -> [Clients -> Nat]]
           /\ \A m \in Matches, c \in Clients :
                 mmc'[m][c] = IF m = Current.g /\ c = Current.c THEN mmc[m][c] + 1 ELSE mmc[m][c]
<1>1. /\ s = Server /\ pipe[s] = Pipeline /\ Pipeline # <<>> /\ Current \in Good
      /\ Current.step = "mmc.lpush" /\ Head(pipe[s]) = Current
  BY Currently DEF AddConfirmation, Current
<1>2. Current.job = "confirm" /\ Current.c \in Clients /\ Current.g \in Matches
  BY <1>1, Kinds DEF Fits
<1>3. mmc' = [mmc EXCEPT ![Current.g][Current.c] = @ + 1]
  BY <1>1 DEF AddConfirmation
<1>4. mmc \in [Matches -> [Clients -> Nat]]
  BY DEF TypeInv, TypeOK
<1> DEFINE g == Current.g
           c == Current.c
<1> HIDE DEF g, c
<1>5. g \in Matches /\ c \in Clients /\ mmc' = [mmc EXCEPT ![g][c] = @ + 1]
  BY <1>2, <1>3 DEF g, c
<1>6. /\ mmc' \in [Matches -> [Clients -> Nat]]
      /\ \A m \in Matches, d \in Clients :
                 mmc'[m][d] = IF m = g /\ d = c THEN mmc[m][d] + 1 ELSE mmc[m][d]
  BY <1>4, <1>5
<1> QED  BY <1>1, <1>2, <1>6, RunsOn, Nothing DEF AddConfirmation, g, c

LEMMA ExpireConfirmationsDoes ==
    ASSUME TypeInv, NEW s \in Servers, ExpireConfirmations(s)
    PROVE  /\ Current.step = "mmc.expire" /\ Current.job = "confirm"
           /\ Current.c \in Clients /\ Current.g \in Matches
           /\ UNCHANGED <<storeVars, clientVars, runVars, roundVars, mmc>>
           /\ Runs(<<>>)
           /\ ttl' \subseteq {m \in Matches : \E c \in Clients : mmc[m][c] > 0}
<1>1. /\ s = Server /\ pipe[s] = Pipeline /\ Pipeline # <<>> /\ Current \in Good
      /\ Current.step = "mmc.expire" /\ Head(pipe[s]) = Current
  BY Currently DEF ExpireConfirmations, Current
<1>2. Current.job = "confirm" /\ Current.c \in Clients /\ Current.g \in Matches
  BY <1>1, Kinds DEF Fits
<1>3. ttl' = IF \E c \in Clients : mmc[Current.g][c] > 0 THEN ttl \cup {Current.g} ELSE ttl
  BY <1>1 DEF ExpireConfirmations
<1>4. ttl' \subseteq {m \in Matches : \E c \in Clients : mmc[m][c] > 0}
  BY <1>2, <1>3 DEF TypeInv, TypeOK
<1> QED  BY <1>1, <1>2, <1>4, RunsOn, Nothing DEF ExpireConfirmations

LEMMA CloseCheckDoes ==
    ASSUME TypeInv, NEW s \in Servers, CloseCheck(s)
    PROVE  /\ Current.step = "match.lrange" /\ Current.job = "close" /\ Current.c \in Clients
           /\ UNCHANGED <<storeVars, clientVars, runVars, roundVars, mmcVars>>
           /\ \/ Runs(<<At(Current, "close.lrange")>>)
              \/ \E m \in Matches :
                    /\ groupsOf[Current.c][m] = 1
                    /\ Runs(<<At(Current, "close.lrange"),
                              RoomTask("notify.lrange", "exit", Current.c, m, None)>>)
<1> DEFINE playing == \E m \in Matches : groupsOf[Current.c] = [EmptyGroupsOf[Current.c] EXCEPT ![m] = 1]
           match == CHOOSE m \in Matches : groupsOf[Current.c][m] = 1
           leave == <<At(Current, "close.lrange")>>
           told == <<RoomTask("notify.lrange", "exit", Current.c, match, None)>>
<1>1. /\ s = Server /\ pipe[s] = Pipeline /\ Pipeline # <<>> /\ Current \in Good
      /\ Current.step = "match.lrange" /\ Head(pipe[s]) = Current
  BY Currently DEF CloseCheck, Current
<1>2. Current.job = "close" /\ Current.c \in Clients
  BY <1>1, Kinds DEF Fits
<1>3. At(Current, "close.lrange") \in Good /\ leave \in Seq(Good)
  <2>1. Fits(Current.job, "close.lrange", Current.c, Current.g, Current.for)
    BY <1>1, <1>2, Kinds DEF Fits
  <2> QED  BY <1>1, <2>1, AtGood, NextCommand, Steps2
<1>4. Reply(Server, IF playing THEN leave \o told ELSE leave)
  BY <1>1 DEF CloseCheck
<1>5. CASE ~playing
  BY <1>1, <1>2, <1>3, <1>4, <1>5, RunsOn DEF CloseCheck
<1>6. CASE playing
  <2>1. \E m \in Matches : groupsOf[Current.c][m] = 1
    <3>1. PICK m \in Matches : groupsOf[Current.c] = [EmptyGroupsOf[Current.c] EXCEPT ![m] = 1]
      BY <1>6
    <3>2. EmptyGroupsOf[Current.c] = [g \in Groups |-> 0] /\ m \in Groups
      BY <1>2, Names DEF EmptyGroupsOf
    <3>3. groupsOf[Current.c][m] = 1
      BY <3>1, <3>2
    <3> QED  BY <3>3
  <2>2. match \in Matches /\ groupsOf[Current.c][match] = 1
    BY <2>1
  <2> HIDE DEF match
  <2>3. RoomTask("notify.lrange", "exit", Current.c, match, None) \in Good
    <3>1. Fits("exit", "notify.lrange", Current.c, match, None)
      BY <1>2, <2>2 DEF Fits
    <3> QED  BY <1>2, <2>2, <3>1, RoomGood, Steps2, Names
  <2> DEFINE u == RoomTask("notify.lrange", "exit", Current.c, match, None)
             v == At(Current, "close.lrange")
  <2>4. v \in Good /\ u \in Good /\ leave \o told = <<v, u>> /\ <<v, u>> \in Seq(Good)
    <3>1. v \in Good /\ u \in Good /\ leave = <<v>> /\ told = <<u>>
      BY <1>3, <2>3
    <3> HIDE DEF u, v, leave, told
    <3>2. <<v>> \o <<u>> = <<v, u>>
      BY InARow
    <3>3. <<v, u>> \in Seq(Good)
      BY <3>1
    <3> QED  BY <3>1, <3>2, <3>3
  <2> HIDE DEF u, v, leave, told
  <2>5. Runs(<<v, u>>)
    BY <1>1, <1>4, <1>6, <2>4, RunsOn
  <2> QED  BY <1>1, <1>2, <2>2, <2>5 DEF CloseCheck, u, v
<1> QED  BY <1>5, <1>6

LEMMA LeaveAllDoes ==
    ASSUME TypeInv, NEW s \in Servers, LeaveAllGroups(s)
    PROVE  /\ Current.step = "close.lrange" /\ Current.job = "close" /\ Current.c \in Clients
           /\ UNCHANGED <<storeVars, clientVars, runVars, roundVars, mmcVars>>
           /\ \E f \in Seq(Good) :
                 /\ Runs(f)
                 /\ Elements(f) = {RoomTask("get.hget", "close", Current.c, g, None) :
                                      g \in GroupsOfClient(Current.c)}
<1>1. /\ s = Server /\ pipe[s] = Pipeline /\ Pipeline # <<>> /\ Current \in Good
      /\ Current.step = "close.lrange" /\ Head(pipe[s]) = Current
  BY Currently DEF LeaveAllGroups, Current
<1>2. Current.job = "close" /\ Current.c \in Clients
  BY <1>1, Kinds DEF Fits
<1> DEFINE G == GroupsOfClient(Current.c)
<1>3. PICK order \in SetToSeqs(G) :
         Reply(Server, [i \in DOMAIN order |-> RoomTask("get.hget", "close", Current.c, order[i], None)])
  BY <1>1 DEF LeaveAllGroups
<1>4. IsFiniteSet(G) /\ G \subseteq Groups
  BY FinitePeople, FS_Subset DEF GroupsOfClient
<1> HIDE DEF G
<1>5. /\ DOMAIN order = 1..Len(order) /\ Len(order) \in Nat
      /\ \A i \in DOMAIN order : order[i] \in Groups
      /\ {order[i] : i \in DOMAIN order} = G
  BY <1>4, Orders DEF Elements
<1> DEFINE f == [i \in DOMAIN order |-> RoomTask("get.hget", "close", Current.c, order[i], None)]
<1>6. \A i \in DOMAIN order : f[i] \in Good
  <2> SUFFICES ASSUME NEW i \in DOMAIN order PROVE f[i] \in Good
    OBVIOUS
  <2>1. Fits("close", "get.hget", Current.c, order[i], None)
    BY <1>2, <1>5 DEF Fits
  <2> QED  BY <1>2, <1>5, <2>1, RoomGood, Steps2
<1>7. f \in Seq(Good)
  BY <1>5, <1>6
<1>8. Elements(f) = {RoomTask("get.hget", "close", Current.c, g, None) : g \in G}
  <2>1. DOMAIN f = DOMAIN order
    OBVIOUS
  <2>2. \A i \in DOMAIN order : f[i] = RoomTask("get.hget", "close", Current.c, order[i], None)
    OBVIOUS
  <2> HIDE DEF f
  <2>3. \A x : x \in Elements(f) <=> \E i \in DOMAIN order : x = RoomTask("get.hget", "close", Current.c, order[i], None)
    BY <2>1, <2>2 DEF Elements
  <2>4. \A g : g \in G <=> \E i \in DOMAIN order : g = order[i]
    BY <1>5
  <2> QED  BY <2>3, <2>4
<1>9. Runs(f)
  BY <1>1, <1>3, <1>7, RunsOn
<1> HIDE DEF f
<1> QED  BY <1>1, <1>2, <1>7, <1>8, <1>9 DEF LeaveAllGroups, G
LEMMA CreateDoes ==
    ASSUME TypeInv, NEW s \in Servers, CreateEntry(s)
    PROVE  /\ Current.step = "create.hset" /\ Current.job = "match"
           /\ Current.g \in Matches /\ Current.for = Current.g
           /\ registry' = registry \cup {Current.g}
           /\ UNCHANGED <<members, groupsOf, clientVars, runVars, roundVars, mmcVars>>
           /\ \E f \in Seq(Good) :
                 /\ Runs(f)
                 /\ Elements(f) = {RoomTask("push.lrangeGroup", "match", c, Current.g, Current.g) :
                                      c \in Range(lobby[Current.g])}
                 /\ DOMAIN f = DOMAIN lobby[Current.g]
                 /\ \A j \in DOMAIN f : f[j].c = lobby[Current.g][j]
<1>1. /\ s = Server /\ pipe[s] = Pipeline /\ Pipeline # <<>> /\ Current \in Good
      /\ Current.step = "create.hset" /\ Head(pipe[s]) = Current
  BY Currently DEF CreateEntry, Current
<1> DEFINE g == Current.g
           q == lobby[g]
           f == [j \in DOMAIN q |-> RoomTask("push.lrangeGroup", "match", q[j], g, g)]
<1>2. Current.job = "match" /\ g \in Matches /\ Current.for = g
  BY <1>1, Kinds DEF Fits, RemoveSteps, PushSteps
<1>3. Reply(Server, f) /\ registry' = registry \cup {g}
  BY <1>1 DEF CreateEntry
<1>4. q \in Seq(Clients)
  BY <1>2 DEF TypeInv, TypeOK
<1> HIDE DEF g, q
<1>5. DOMAIN q = 1..Len(q) /\ Len(q) \in Nat /\ \A j \in DOMAIN q : q[j] \in Clients
  BY <1>4, LenProperties
<1>6. \A j \in DOMAIN q : f[j] \in Good
  <2> SUFFICES ASSUME NEW j \in DOMAIN q PROVE f[j] \in Good
    OBVIOUS
  <2>1. Fits("match", "push.lrangeGroup", q[j], g, g)
    BY <1>2, <1>5 DEF Fits, PushSteps
  <2> QED  BY <1>2, <1>5, <2>1, RoomGood, Steps2, Names DEF PushSteps
<1>7. f \in Seq(Good)
  BY <1>5, <1>6
<1>8. Elements(f) = {RoomTask("push.lrangeGroup", "match", c, g, g) : c \in Range(q)}
  <2>1. DOMAIN f = DOMAIN q
    OBVIOUS
  <2>2. \A j \in DOMAIN q : f[j] = RoomTask("push.lrangeGroup", "match", q[j], g, g)
    OBVIOUS
  <2> HIDE DEF f
  <2>3. \A x : x \in Elements(f) <=>
                  \E j \in DOMAIN q : x = RoomTask("push.lrangeGroup", "match", q[j], g, g)
    BY <2>1, <2>2 DEF Elements
  <2>4. \A c : c \in Range(q) <=> \E j \in DOMAIN q : c = q[j]
    BY DEF Range
  <2> QED  BY <2>3, <2>4
<1>9. Runs(f)
  BY <1>1, <1>3, <1>7, RunsOn
<1>10. DOMAIN f = DOMAIN q /\ \A j \in DOMAIN f : f[j].c = q[j]
  BY RoomFields
<1> HIDE DEF f
<1> QED  BY <1>1, <1>2, <1>3, <1>7, <1>8, <1>9, <1>10 DEF CreateEntry, g, q

LEMMA CheckSizeDoes ==
    ASSUME TypeInv, NEW s \in Servers, CheckSize(s)
    PROVE  /\ Current.step = "mmc.llen" /\ Current.job = "start" /\ Current.g \in Matches
           /\ UNCHANGED <<storeVars, clientVars, runVars, timers, mmcVars>>
           /\ ListSize(mmc[Current.g]) >= LobbySize =>
                 /\ Runs(<<At(Current, "mmc.del"), At(Current, "notify.lrange")>>)
                 /\ confirming' = confirming \ {Current.g} /\ late' = late \ {Current.g}
                 /\ verdicts' = [verdicts EXCEPT ![Current.g] = Append(@, "start")]
           /\ ~(ListSize(mmc[Current.g]) >= LobbySize) =>
                 Runs(<<>>) /\ UNCHANGED <<confirming, late, verdicts>>
<1>1. /\ s = Server /\ pipe[s] = Pipeline /\ Pipeline # <<>> /\ Current \in Good
      /\ Current.step = "mmc.llen" /\ Head(pipe[s]) = Current
  BY Currently DEF CheckSize, Current
<1>2. Current.job = "start" /\ Current.g \in Matches
  BY <1>1, Kinds DEF Fits
<1> DEFINE u == At(Current, "mmc.del")
           v == At(Current, "notify.lrange")
<1>3. u \in Good /\ v \in Good
  <2>1. /\ Fits(Current.job, "mmc.del", Current.c, Current.g, Current.for)
        /\ Fits(Current.job, "notify.lrange", Current.c, Current.g, Current.for)
    BY <1>1, <1>2, Kinds DEF Fits
  <2> QED  BY <1>1, <2>1, AtGood, Steps2
<1>4. Reply(Server, IF ListSize(mmc[Current.g]) >= LobbySize THEN <<u, v>> ELSE <<>>)
  BY <1>1 DEF CheckSize
<1> HIDE DEF u, v
<1>5. <<u, v>> \in Seq(Good)
  BY <1>3
<1>6. /\ ListSize(mmc[Current.g]) >= LobbySize => Runs(<<u, v>>)
      /\ ~(ListSize(mmc[Current.g]) >= LobbySize) => Runs(<<>>)
  BY <1>1, <1>4, <1>5, RunsOn, Nothing
<1> QED  BY <1>1, <1>2, <1>6 DEF CheckSize, u, v

LEMMA EraseConfirmationsDoes ==
    ASSUME TypeInv, NEW s \in Servers, EraseConfirmations(s)
    PROVE  /\ Current.step = "mmc.del" /\ Current.job \in {"start", "disband"}
           /\ Current.g \in Matches
           /\ UNCHANGED <<storeVars, clientVars, runVars, roundVars>>
           /\ Runs(<<>>)
           /\ mmc' = [mmc EXCEPT ![Current.g] = [c \in Clients |-> 0]]
           /\ ttl' = ttl \ {Current.g}
<1>1. /\ s = Server /\ pipe[s] = Pipeline /\ Pipeline # <<>> /\ Current \in Good
      /\ Current.step = "mmc.del" /\ Head(pipe[s]) = Current
  BY Currently DEF EraseConfirmations, Current
<1>2. Current.job \in {"start", "disband"} /\ Current.g \in Matches
  BY <1>1, Kinds DEF Fits
<1> QED  BY <1>1, <1>2, RunsOn, Nothing DEF EraseConfirmations

LEMMA NotifyDoes ==
    ASSUME TypeInv, NEW s \in Servers, NotifyGroup(s)
    PROVE  /\ Current.step = "notify.lrange"
           /\ Current.job \in {"confirm", "exit", "close", "found", "start", "disband"}
           /\ Current.g \in Groups
           /\ Current.job # "close" => Current.g \in Matches
           /\ UNCHANGED <<storeVars, online, runVars, roundVars, mmcVars>>
           /\ Runs(<<>>)
           /\ Current.job = "found" =>
                 view' = Told("found", Current.g, MembersOf(Current.g) \cap online)
           /\ Current.job = "start" =>
                 view' = Told("playing", Current.g, MembersOf(Current.g) \cap online)
           /\ Current.job = "disband" =>
                 view' = Told("free", None,
                              {c \in MembersOf(Current.g) \cap online : view[c].m = Current.g})
           /\ Current.job \notin {"found", "start", "disband"} => view' = view
<1>1. /\ s = Server /\ pipe[s] = Pipeline /\ Pipeline # <<>> /\ Current \in Good
      /\ Current.step = "notify.lrange" /\ Head(pipe[s]) = Current
  BY Currently DEF NotifyGroup, Current
<1>2. /\ Current.job \in {"confirm", "exit", "close", "found", "start", "disband"}
      /\ Current.g \in Groups
      /\ Current.job # "close" => Current.g \in Matches
  BY <1>1, Kinds, Names DEF Fits
<1>3. view' = CASE Current.job = "found" -> Told("found", Current.g, MembersOf(Current.g) \cap online)
                [] Current.job = "start" -> Told("playing", Current.g, MembersOf(Current.g) \cap online)
                [] Current.job = "disband" ->
                      Told("free", None, {c \in MembersOf(Current.g) \cap online : view[c].m = Current.g})
                [] OTHER -> view
  BY <1>1 DEF NotifyGroup
<1>4. Runs(<<>>)
  BY <1>1, RunsOn, Nothing DEF NotifyGroup
<1>5. UNCHANGED <<storeVars, online, runVars, roundVars, mmcVars>>
  BY DEF NotifyGroup
<1>6. /\ Current.job = "found" =>
            view' = Told("found", Current.g, MembersOf(Current.g) \cap online)
      /\ Current.job = "start" =>
            view' = Told("playing", Current.g, MembersOf(Current.g) \cap online)
      /\ Current.job = "disband" =>
            view' = Told("free", None,
                         {c \in MembersOf(Current.g) \cap online : view[c].m = Current.g})
      /\ Current.job \notin {"found", "start", "disband"} => view' = view
  BY <1>3
<1> QED  BY <1>1, <1>2, <1>4, <1>5, <1>6, Zenon

LEMMA RemoveBeginDoes ==
    ASSUME TypeInv, NEW s \in Servers, RemoveBegin(s)
    PROVE  /\ Current.step = "remove.lremClient"
           /\ Current.job \in {"leave", "exit", "close", "match"}
           /\ Current.c \in Clients /\ Current.g \in Groups
           /\ Runs(<<At(Current, "remove.lremGroup")>>)
           /\ At(Current, "remove.lremGroup") \in Good
           /\ groupsOf' \in [Clients -> [Groups -> Nat]]
           /\ \A c \in Clients, g \in Groups :
                 groupsOf'[c][g] = IF c = Current.c /\ g = Current.g THEN 0 ELSE groupsOf[c][g]
           /\ UNCHANGED <<registry, members, clientVars, runVars, roundVars, mmcVars>>
<1>1. /\ s = Server /\ pipe[s] = Pipeline /\ Pipeline # <<>> /\ Current \in Good
      /\ Current.step = "remove.lremClient" /\ Head(pipe[s]) = Current
  BY Currently DEF RemoveBegin, RemoveWriteClient, Current
<1>2. /\ Current.job \in {"leave", "exit", "close", "match"} /\ Current.c \in Clients
      /\ Current.g \in Groups
      /\ Fits(Current.job, "remove.lremGroup", Current.c, Current.g, Current.for)
  <2>1. Current.job \in {"leave", "exit", "close", "match"}
    BY <1>1, Kinds DEF RemoveSteps
  <2>2. Fits(Current.job, "remove.lremClient", Current.c, Current.g, Current.for)
    BY <1>1, Kinds
  <2>3. Current.c \in Clients /\ Current.g \in Groups
    BY <2>1, <2>2, Names DEF Fits, RemoveSteps, PushSteps
  <2>4. Fits(Current.job, "remove.lremGroup", Current.c, Current.g, Current.for)
    BY <2>1, <2>2, <2>3 DEF Fits, RemoveSteps, PushSteps
  <2> QED  BY <2>1, <2>3, <2>4
<1>3. /\ <<At(Current, "remove.lremGroup")>> \in Seq(Good)
      /\ At(Current, "remove.lremGroup") \in Good
  BY <1>1, <1>2, NextCommand, AtGood, Steps2 DEF RemoveSteps
<1>4. Runs(<<At(Current, "remove.lremGroup")>>)
  BY <1>1, <1>3, RunsOn DEF RemoveBegin, RemoveWriteClient
<1> DEFINE c == Current.c
           g == Current.g
<1>5. c \in Clients /\ g \in Groups /\ groupsOf' = [groupsOf EXCEPT ![c][g] = 0]
  BY <1>1, <1>2 DEF RemoveBegin, RemoveWriteClient
<1> HIDE DEF c, g
<1>6. /\ groupsOf' \in [Clients -> [Groups -> Nat]]
      /\ \A d \in Clients, h \in Groups :
            groupsOf'[d][h] = IF d = c /\ h = g THEN 0 ELSE groupsOf[d][h]
  BY <1>5 DEF TypeInv, TypeOK
<1> QED  BY <1>1, <1>2, <1>3, <1>4, <1>6 DEF RemoveBegin, RemoveWriteClient, c, g

LEMMA RemoveEndDoes ==
    ASSUME TypeInv, NEW s \in Servers, RemoveEnd(s)
    PROVE  /\ Current.step = "remove.lremGroup"
           /\ Current.job \in {"leave", "exit", "close", "match"}
           /\ Current.c \in Clients /\ Current.g \in Groups
           /\ Runs(Removed(Current))
           /\ Current.job \in {"leave", "exit"} => Removed(Current) = <<>>
           /\ Current.job = "close" => Removed(Current) = <<At(Current, "notify.lrange")>>
           /\ Current.job = "match" =>
                 /\ Current.g = Queue /\ Current.for \in Matches
                 /\ (\E u \in Behind : u.for = Current.for) => Removed(Current) = <<>>
                 /\ ~(\E u \in Behind : u.for = Current.for) =>
                       Removed(Current) = <<RoomTask("create.hset", "match", None, Current.for,
                                                     Current.for)>>
           /\ members' \in [Groups -> [Clients -> Nat]]
           /\ \A c \in Clients, g \in Groups :
                 members'[g][c] = IF c = Current.c /\ g = Current.g THEN 0 ELSE members[g][c]
           /\ UNCHANGED <<registry, groupsOf, online, runVars, roundVars, mmcVars>>
           /\ view' = IF /\ Current.job = "leave" /\ Current.c \in online
                         /\ view[Current.c].at = "searching"
                      THEN Told("free", None, {Current.c}) ELSE view
<1>1. /\ s = Server /\ pipe[s] = Pipeline /\ Pipeline # <<>> /\ Current \in Good
      /\ Current.step = "remove.lremGroup" /\ Head(pipe[s]) = Current
  BY Currently DEF RemoveEnd, RemoveWriteGroup, Current
<1>2. /\ Current.job \in {"leave", "exit", "close", "match"} /\ Current.c \in Clients
      /\ Current.g \in Groups
      /\ Current.job = "match" => Current.g = Queue /\ Current.for \in Matches
  <2>1. Current.job \in {"leave", "exit", "close", "match"}
    BY <1>1, Kinds DEF RemoveSteps
  <2>2. Fits(Current.job, "remove.lremGroup", Current.c, Current.g, Current.for)
    BY <1>1, Kinds
  <2> QED  BY <2>1, <2>2, Names DEF Fits, RemoveSteps, PushSteps
<1>3. /\ Current.job \in {"leave", "exit"} => Removed(Current) = <<>>
      /\ Current.job = "close" => Removed(Current) = <<At(Current, "notify.lrange")>>
      /\ Current.job = "match" =>
            Removed(Current) = IF \E u \in Behind : u.for = Current.for THEN <<>>
                               ELSE <<RoomTask("create.hset", "match", None, Current.for,
                                               Current.for)>>
  BY DEF Removed
<1>4. Removed(Current) \in Seq(Good)
  <2>0. <<>> \in Seq(Good)
    OBVIOUS
  <2>1. CASE Current.job \in {"leave", "exit"}
    BY <1>3, <2>0, <2>1
  <2>2. CASE Current.job = "close"
    <3>1. Fits(Current.job, "notify.lrange", Current.c, Current.g, Current.for)
      BY <1>1, <1>2, <2>2, Kinds DEF Fits
    <3>2. <<At(Current, "notify.lrange")>> \in Seq(Good)
      BY <1>1, <3>1, NextCommand, Steps2
    <3> QED  BY <1>3, <2>2, <3>2
  <2>3. CASE Current.job = "match"
    <3>1. Fits("match", "create.hset", None, Current.for, Current.for)
      BY <1>2, <2>3 DEF Fits
    <3>2. RoomTask("create.hset", "match", None, Current.for, Current.for) \in Good
      BY <1>2, <2>3, <3>1, RoomGood, Steps2, Names
    <3>3. <<RoomTask("create.hset", "match", None, Current.for, Current.for)>> \in Seq(Good)
      BY <3>2, Singly
    <3> DEFINE u == <<RoomTask("create.hset", "match", None, Current.for, Current.for)>>
    <3>4. Removed(Current) = <<>> \/ Removed(Current) = u
      BY <1>3, <2>3
    <3>5. u \in Seq(Good)
      BY <3>3
    <3> HIDE DEF u
    <3> QED  BY <2>0, <3>4, <3>5
  <2> QED  BY <1>2, <2>1, <2>2, <2>3
<1>5. Runs(Removed(Current))
  BY <1>1, <1>4, RunsOn DEF RemoveEnd, RemoveWriteGroup
<1> DEFINE c == Current.c
           g == Current.g
<1>6. c \in Clients /\ g \in Groups /\ members' = [members EXCEPT ![g][c] = 0]
  BY <1>1, <1>2 DEF RemoveEnd, RemoveWriteGroup
<1> HIDE DEF c, g
<1>7. /\ members' \in [Groups -> [Clients -> Nat]]
      /\ \A d \in Clients, h \in Groups :
            members'[h][d] = IF d = c /\ h = g THEN 0 ELSE members[h][d]
  BY <1>6 DEF TypeInv, TypeOK
<1>8. /\ UNCHANGED <<registry, groupsOf, online, runVars, roundVars, mmcVars>>
      /\ view' = IF /\ Current.job = "leave" /\ Current.c \in online
                    /\ view[Current.c].at = "searching"
                 THEN Told("free", None, {Current.c}) ELSE view
  BY <1>1 DEF RemoveEnd, RemoveWriteGroup
<1> QED  BY <1>1, <1>2, <1>3, <1>5, <1>7, <1>8 DEF c, g
(* A push: the reads refuse it or let it go on, the writes add the client.  *)
LEMMA PushedGood ==
    ASSUME TypeInv, Current \in Queued, Current \in Good, Current.step \in PushSteps
    PROVE  /\ Pushed(Current) \in Seq(Good)
           /\ AllPushed(Current) =>
                 /\ RunOf(Current) \in RunIds
                 /\ Current.for \in Range(batch[RunOf(Current)])
                 /\ Elements(Pushed(Current)) = {RoomTask("notify.lrange", "found", None, m, None) :
                                                    m \in Range(batch[RunOf(Current)])}
           /\ ~AllPushed(Current) => Pushed(Current) = <<>>
<1>1. CASE ~AllPushed(Current)
  <2>1. Pushed(Current) = <<>>
    BY <1>1 DEF Pushed
  <2> QED  BY <1>1, <2>1, Nothing
<1>2. CASE AllPushed(Current)
  <2> DEFINE r == RunOf(Current)
             ids == batch[r]
             f == [i \in DOMAIN ids |-> RoomTask("notify.lrange", "found", None, ids[i], None)]
  <2>1. Current.job = "match" /\ Current.step # "mm.lrange"
    BY <1>2 DEF AllPushed, PushSteps
  <2>2. r \in RunIds /\ Current.for \in Range(batch[r])
    BY <2>1 DEF TypeInv, Filling, RunOf
  <2> HIDE DEF r
  <2>3. ids \in Seq(Matches)
    <3>1. batch \in [RunIds -> Seq(minted)] /\ minted \subseteq Matches
      BY DEF TypeInv, TypeOK
    <3> QED  BY <2>2, <3>1
  <2> HIDE DEF ids
  <2>4. DOMAIN ids = 1..Len(ids) /\ Len(ids) \in Nat /\ \A i \in DOMAIN ids : ids[i] \in Matches
    BY <2>3, LenProperties
  <2>5. \A i \in DOMAIN ids : f[i] \in Good
    <3> SUFFICES ASSUME NEW i \in DOMAIN ids PROVE f[i] \in Good
      OBVIOUS
    <3>1. Fits("found", "notify.lrange", None, ids[i], None)
      BY <2>4 DEF Fits
    <3> QED  BY <2>4, <3>1, RoomGood, Steps2, Names
  <2>6. f \in Seq(Good)
    BY <2>4, <2>5
  <2>7. Pushed(Current) = f
    BY <1>2 DEF Pushed, r, ids
  <2>8. Elements(f) = {RoomTask("notify.lrange", "found", None, m, None) : m \in Range(ids)}
    <3>1. DOMAIN f = DOMAIN ids
      OBVIOUS
    <3>2. \A i \in DOMAIN ids : f[i] = RoomTask("notify.lrange", "found", None, ids[i], None)
      OBVIOUS
    <3> HIDE DEF f
    <3>3. \A x : x \in Elements(f) <=>
                    \E i \in DOMAIN ids : x = RoomTask("notify.lrange", "found", None, ids[i], None)
      BY <3>1, <3>2 DEF Elements
    <3>4. \A m : m \in Range(ids) <=> \E i \in DOMAIN ids : m = ids[i]
      BY DEF Range
    <3> QED  BY <3>3, <3>4
  <2> HIDE DEF f
  <2> QED  BY <1>2, <2>2, <2>6, <2>7, <2>8 DEF r, ids
<1> QED  BY <1>1, <1>2

LEMMA PushDoes ==
    ASSUME TypeInv, NEW s \in Servers, Push(s)
    PROVE  /\ Current.step \in PushSteps /\ Current.job \in {"search", "match"}
           /\ Current.c \in Clients /\ Current.g \in Groups
           /\ Current.job = "search" => Current.g = Queue
           /\ Current.job = "match" => Current.g \in Matches /\ Current.for = Current.g
           /\ \/ /\ Current.step = "push.lrangeGroup" /\ UNCHANGED storeVars
                 /\ \/ /\ members[Current.g][Current.c] > 0 /\ Runs(Pushed(Current))
                       /\ Ends(Current)
                    \/ /\ ~(members[Current.g][Current.c] > 0) /\ ~Ends(Current)
                       /\ Runs(<<At(Current, "push.lrangeClient")>>)
                       /\ At(Current, "push.lrangeClient") \in Good
              \/ /\ Current.step = "push.lrangeClient" /\ UNCHANGED storeVars
                 /\ \/ /\ groupsOf[Current.c][Current.g] > 0 /\ Runs(Pushed(Current))
                       /\ Ends(Current)
                    \/ /\ ~(groupsOf[Current.c][Current.g] > 0) /\ ~Ends(Current)
                       /\ Runs(<<At(Current, "push.lpushClient")>>)
                       /\ At(Current, "push.lpushClient") \in Good
              \/ /\ Current.step = "push.lpushClient" /\ UNCHANGED <<registry, members>>
                 /\ ~Ends(Current)
                 /\ Runs(<<At(Current, "push.lpushGroup")>>)
                 /\ At(Current, "push.lpushGroup") \in Good
                 /\ groupsOf' \in [Clients -> [Groups -> Nat]]
                 /\ \A c \in Clients, g \in Groups :
                       groupsOf'[c][g] = IF c = Current.c /\ g = Current.g
                                         THEN groupsOf[c][g] + 1 ELSE groupsOf[c][g]
              \/ /\ Current.step = "push.lpushGroup" /\ UNCHANGED <<registry, groupsOf>>
                 /\ Ends(Current)
                 /\ Runs(Pushed(Current))
                 /\ members' \in [Groups -> [Clients -> Nat]]
                 /\ \A c \in Clients, g \in Groups :
                       members'[g][c] = IF c = Current.c /\ g = Current.g
                                        THEN members[g][c] + 1 ELSE members[g][c]
           /\ IF Ends(Current) /\ AllPushed(Current)
              THEN /\ confirming' = confirming \cup Range(batch[RunOf(Current)])
                   /\ batch' = [batch EXCEPT ![RunOf(Current)] = <<>>]
                   /\ run' = [run EXCEPT ![RunOf(Current)] = "pausing"]
              ELSE UNCHANGED <<confirming, batch, run>>
           /\ UNCHANGED <<clientVars, minted, lobby, late, timers, verdicts, mmcVars>>
<1> DEFINE c == Current.c
           g == Current.g
<1>1. \E st \in PushSteps : Running(s, st)
  BY DEF Push, PushReadGroup, PushReadClient, PushWriteClient, PushWriteGroup, PushSteps
<1>2. /\ s = Server /\ pipe[s] = Pipeline /\ Pipeline # <<>> /\ Current \in Good
      /\ Current.step \in PushSteps /\ Head(pipe[s]) = Current /\ Current \in Queued
      /\ \A st : Running(s, st) => Current.step = st
  <2>1. Head(pipe[Server]) = Current
    BY DEF Current, Pipeline
  <2> QED  BY <1>1, <2>1, Currently
<1>3. /\ Current.job \in {"search", "match"} /\ c \in Clients /\ g \in Groups
      /\ Current.job = "search" => g = Queue
      /\ Current.job = "match" => g \in Matches /\ Current.for = g
  <2>1. Current.job \in {"search", "match"} /\ Fits(Current.job, Current.step, c, g, Current.for)
    BY <1>2, Kinds
  <2>2. Current.step \in PushSteps
    BY <1>2
  <2> QED  BY <2>1, <2>2, Names DEF Fits, PushSteps, RemoveSteps
<1>4. ASSUME NEW st \in PushSteps
      PROVE  <<At(Current, st)>> \in Seq(Good) /\ At(Current, st) \in Good
  <2>1. Fits(Current.job, st, c, g, Current.for)
    <3>1. Current.for = None \/ Current.job = "match"
      BY <1>2, Kinds DEF Fits
    <3> QED  BY <1>3, <3>1 DEF Fits
  <2> QED  BY <1>2, <2>1, NextCommand, AtGood, Steps2
<1>5. Pushed(Current) \in Seq(Good)
  BY <1>2, PushedGood
<1>6. /\ IF Ends(Current) /\ AllPushed(Current)
         THEN /\ confirming' = confirming \cup Range(batch[RunOf(Current)])
              /\ batch' = [batch EXCEPT ![RunOf(Current)] = <<>>]
              /\ run' = [run EXCEPT ![RunOf(Current)] = "pausing"]
         ELSE UNCHANGED <<confirming, batch, run>>
      /\ UNCHANGED <<clientVars, minted, lobby, late, timers, verdicts, mmcVars>>
  BY <1>2 DEF Push
<1>7. CASE PushReadGroup(s, Pushed(Current))
  <2>1. Current.step = "push.lrangeGroup" /\ UNCHANGED storeVars
    BY <1>2, <1>7 DEF PushReadGroup, storeVars
  <2>2. Reply(Server, IF members[g][c] > 0 THEN Pushed(Current)
                      ELSE <<At(Current, "push.lrangeClient")>>)
    BY <1>2, <1>7 DEF PushReadGroup
  <2>3. Ends(Current) <=> members[g][c] > 0
    BY <2>1 DEF Ends
  <2>4. <<At(Current, "push.lrangeClient")>> \in Seq(Good) /\ At(Current, "push.lrangeClient") \in Good
    BY <1>4 DEF PushSteps
  <2>5. \/ members[g][c] > 0 /\ Runs(Pushed(Current))
        \/ ~(members[g][c] > 0) /\ Runs(<<At(Current, "push.lrangeClient")>>)
    BY <1>2, <1>5, <2>2, <2>4, RunsOn
  <2> QED  BY <1>2, <1>3, <1>6, <2>1, <2>3, <2>4, <2>5
<1>8. CASE PushReadClient(s, Pushed(Current))
  <2>1. Current.step = "push.lrangeClient" /\ UNCHANGED storeVars
    BY <1>2, <1>8 DEF PushReadClient, storeVars
  <2>2. Reply(Server, IF groupsOf[c][g] > 0 THEN Pushed(Current)
                      ELSE <<At(Current, "push.lpushClient")>>)
    BY <1>2, <1>8 DEF PushReadClient
  <2>3. Ends(Current) <=> groupsOf[c][g] > 0
    BY <2>1 DEF Ends
  <2>4. <<At(Current, "push.lpushClient")>> \in Seq(Good) /\ At(Current, "push.lpushClient") \in Good
    BY <1>4 DEF PushSteps
  <2>5. \/ groupsOf[c][g] > 0 /\ Runs(Pushed(Current))
        \/ ~(groupsOf[c][g] > 0) /\ Runs(<<At(Current, "push.lpushClient")>>)
    BY <1>2, <1>5, <2>2, <2>4, RunsOn
  <2> QED  BY <1>2, <1>3, <1>6, <2>1, <2>3, <2>4, <2>5
<1>9. CASE PushWriteClient(s)
  <2>1. /\ Current.step = "push.lpushClient" /\ UNCHANGED <<registry, members>>
        /\ Reply(Server, <<At(Current, "push.lpushGroup")>>)
        /\ groupsOf' = [groupsOf EXCEPT ![c][g] = @ + 1]
    BY <1>2, <1>9 DEF PushWriteClient
  <2>2. <<At(Current, "push.lpushGroup")>> \in Seq(Good) /\ At(Current, "push.lpushGroup") \in Good
    BY <1>4 DEF PushSteps
  <2>3. Runs(<<At(Current, "push.lpushGroup")>>) /\ ~Ends(Current)
    BY <1>2, <2>1, <2>2, RunsOn DEF Ends
  <2>4. groupsOf \in [Clients -> [Groups -> Nat]]
    BY DEF TypeInv, TypeOK
  <2> HIDE DEF c, g
  <2>5. /\ groupsOf' \in [Clients -> [Groups -> Nat]]
        /\ \A d \in Clients, h \in Groups :
              groupsOf'[d][h] = IF d = c /\ h = g THEN groupsOf[d][h] + 1 ELSE groupsOf[d][h]
    BY <1>3, <2>1, <2>4
  <2> QED  BY <1>2, <1>3, <1>6, <2>1, <2>2, <2>3, <2>5 DEF c, g
<1>10. CASE PushWriteGroup(s, Pushed(Current))
  <2>1. /\ Current.step = "push.lpushGroup" /\ UNCHANGED <<registry, groupsOf>>
        /\ Reply(Server, Pushed(Current))
        /\ members' = [members EXCEPT ![g][c] = @ + 1]
    BY <1>2, <1>10 DEF PushWriteGroup
  <2>2. Runs(Pushed(Current)) /\ Ends(Current)
    BY <1>2, <1>5, <2>1, RunsOn DEF Ends
  <2>3. members \in [Groups -> [Clients -> Nat]]
    BY DEF TypeInv, TypeOK
  <2> HIDE DEF c, g
  <2>4. /\ members' \in [Groups -> [Clients -> Nat]]
        /\ \A d \in Clients, h \in Groups :
              members'[h][d] = IF d = c /\ h = g THEN members[h][d] + 1 ELSE members[h][d]
    BY <1>3, <2>1, <2>3
  <2> QED  BY <1>2, <1>3, <1>6, <2>1, <2>2, <2>4 DEF c, g
<1>11. \/ PushReadGroup(s, Pushed(Current)) \/ PushReadClient(s, Pushed(Current))
       \/ PushWriteClient(s) \/ PushWriteGroup(s, Pushed(Current))
  BY <1>2 DEF Push
<1> QED  BY <1>7, <1>8, <1>9, <1>10, <1>11
(* An erase, command by command; u is what follows the head.                *)
EraseNext(u, st, left) ==
    /\ u \in Good /\ u.step = st /\ u.job = Current.job /\ u.c = Current.c /\ u.g = Current.g
    /\ u.for = Current.for /\ u.left = left

(* The head is replaced by u, in its place. *)
Stays(u) ==
    /\ Pipeline # <<>> /\ u \in Good
    /\ pipe' \in [Servers -> Seq(Good)]
    /\ Len(Pipeline') = Len(Pipeline) /\ DOMAIN Pipeline' = DOMAIN Pipeline
    /\ Pipeline'[1] = u /\ \A i \in DOMAIN Pipeline : i # 1 => Pipeline'[i] = Pipeline[i]
    /\ Queued' = {u} \cup Behind

LEMMA EraseDoes ==
    ASSUME TypeInv, NEW s \in Servers, Erase(s)
    PROVE  /\ Current.step \in EraseSteps /\ Current.job \in {"heal", "disband"}
           /\ Current.g \in Matches /\ Current.left \subseteq Clients
           /\ \/ /\ Current.step = "erase.lrangeGroup" /\ UNCHANGED storeVars
                 /\ \E u : /\ Runs(<<u>>)
                           /\ IF MembersOf(Current.g) = {}
                              THEN EraseNext(u, "erase.hdel", Current.left)
                              ELSE EraseNext(u, "erase.lremClient", MembersOf(Current.g))
              \/ /\ Current.step = "erase.lremClient" /\ UNCHANGED <<registry, members>>
                 /\ \E c \in Current.left :
                       /\ groupsOf' \in [Clients -> [Groups -> Nat]]
                       /\ \A d \in Clients, h \in Groups :
                             groupsOf'[d][h] = IF d = c /\ h = Current.g THEN 0 ELSE groupsOf[d][h]
                       /\ \/ /\ Current.left = {c}
                             /\ \E u : Runs(<<u>>) /\ EraseNext(u, "erase.hdel", {})
                          \/ /\ Current.left # {c}
                             /\ \E u : /\ Stays(u)
                                       /\ EraseNext(u, "erase.lremClient", Current.left \ {c})
              \/ /\ Current.step = "erase.hdel" /\ UNCHANGED <<members, groupsOf>>
                 /\ registry' = registry \ {Current.g}
                 /\ \E u : Runs(<<u>>) /\ EraseNext(u, "erase.del", Current.left)
              \/ /\ Current.step = "erase.del" /\ UNCHANGED <<registry, groupsOf>>
                 /\ Runs(<<>>)
                 /\ members' \in [Groups -> [Clients -> Nat]]
                 /\ \A d \in Clients, h \in Groups :
                       members'[h][d] = IF h = Current.g THEN 0 ELSE members[h][d]
           /\ UNCHANGED <<clientVars, runVars, roundVars, mmcVars>>
<1> DEFINE t == Current
           g == Current.g
<1>1. \E st \in EraseSteps : Running(s, st)
  BY DEF Erase, EraseReadGroup, EraseWriteClient, EraseEntry, EraseGroup, EraseSteps
<1>2. /\ s = Server /\ pipe[s] = Pipeline /\ Pipeline # <<>> /\ t \in Good
      /\ t.step \in EraseSteps /\ Head(pipe[s]) = t
      /\ \A st : Running(s, st) => t.step = st
  <2>1. Head(pipe[Server]) = Current
    BY DEF Current, Pipeline
  <2> QED  BY <1>1, <2>1, Currently
<1>3. /\ t.job \in {"heal", "disband"} /\ g \in Matches /\ t.left \subseteq Clients
      /\ t \in Tasks /\ g \in Groups
  BY <1>2, Kinds, Names DEF Fits, Tasks
<1>4. ASSUME NEW st \in EraseSteps, NEW left \in SUBSET Clients, NEW seen \in SUBSET Clients
      PROVE  /\ EraseNext([At(t, st) EXCEPT !.seen = seen, !.left = left], st, left)
             /\ EraseNext([At(t, st) EXCEPT !.left = left], st, left)
             /\ EraseNext(At(t, st), st, t.left)
  <2>1. Fits(t.job, st, t.c, t.g, t.for)
    <3>1. t.for = None
      BY <1>2, <1>3, Kinds DEF Fits
    <3> QED  BY <1>3, <3>1 DEF Fits
  <2>2. At(t, st) \in Good /\ EraseNext(At(t, st), st, t.left)
    BY <1>2, <2>1, AtGood, Steps2 DEF EraseNext
  <2>3. ASSUME NEW u, u \in Tasks, u.step = st, u.job = t.job, u.c = t.c, u.g = t.g,
               u.for = t.for, u.left = left
        PROVE  EraseNext(u, st, left)
    BY <2>1, <2>3 DEF Good, Formed, EraseNext
  <2>4. /\ At(t, st) \in Tasks /\ At(t, st).step = st /\ At(t, st).job = t.job
        /\ At(t, st).c = t.c /\ At(t, st).g = t.g /\ At(t, st).for = t.for
    BY <2>2 DEF Good, EraseNext
  <2> DEFINE v == At(t, st)
  <2> HIDE DEF v
  <2>5. v \in Tasks
    BY <2>4 DEF v
  <2>6. /\ [v EXCEPT !.left = left] \in Tasks /\ [v EXCEPT !.left = left].step = v.step
        /\ [v EXCEPT !.left = left].job = v.job /\ [v EXCEPT !.left = left].c = v.c
        /\ [v EXCEPT !.left = left].g = v.g /\ [v EXCEPT !.left = left].for = v.for
        /\ [v EXCEPT !.left = left].left = left
    BY <2>5 DEF Tasks
  <2>7. LET w == [v EXCEPT !.seen = seen, !.left = left] IN
        /\ w \in Tasks /\ w.step = v.step /\ w.job = v.job /\ w.c = v.c
        /\ w.g = v.g /\ w.for = v.for /\ w.left = left
    BY <2>5 DEF Tasks
  <2>8. EraseNext([v EXCEPT !.left = left], st, left)
    BY <2>3, <2>4, <2>6 DEF v
  <2>9. EraseNext([v EXCEPT !.seen = seen, !.left = left], st, left)
    BY <2>3, <2>4, <2>7 DEF v
  <2> QED  BY <2>2, <2>8, <2>9 DEF v
<1>5. ASSUME NEW u, u \in Good, Reply(Server, <<u>>) PROVE Runs(<<u>>)
  <2>1. <<u>> \in Seq(Good)
    BY <1>5, Singly
  <2> QED  BY <1>2, <1>5, <2>1, RunsOn
<1>6. UNCHANGED <<clientVars, runVars, roundVars, mmcVars>>
  BY DEF Erase
<1>7. CASE EraseReadGroup(s)
  <2>1. /\ t.step = "erase.lrangeGroup" /\ UNCHANGED storeVars
        /\ Reply(Server, IF MembersOf(g) = {} THEN <<At(t, "erase.hdel")>>
                         ELSE <<[At(t, "erase.lremClient")
                                   EXCEPT !.seen = MembersOf(g), !.left = MembersOf(g)]>>)
    BY <1>2, <1>7 DEF EraseReadGroup, storeVars
  <2>2. MembersOf(g) \in SUBSET Clients
    BY DEF MembersOf
  <2>3. \E u : /\ Runs(<<u>>)
               /\ IF MembersOf(g) = {} THEN EraseNext(u, "erase.hdel", t.left)
                                       ELSE EraseNext(u, "erase.lremClient", MembersOf(g))
    <3>1. CASE MembersOf(g) = {}
      <4> DEFINE u == At(t, "erase.hdel")
      <4>1. EraseNext(u, "erase.hdel", t.left) /\ Reply(Server, <<u>>)
        BY <1>4, <2>1, <3>1 DEF EraseSteps
      <4> HIDE DEF u
      <4>2. u \in Good
        BY <4>1 DEF EraseNext
      <4> QED  BY <1>5, <3>1, <4>1, <4>2
    <3>2. CASE MembersOf(g) # {}
      <4> DEFINE u == [At(t, "erase.lremClient")
                         EXCEPT !.seen = MembersOf(g), !.left = MembersOf(g)]
      <4>1. EraseNext(u, "erase.lremClient", MembersOf(g))
        BY <1>4, <2>2 DEF EraseSteps
      <4>2. Reply(Server, <<u>>)
        BY <2>1, <3>2
      <4> HIDE DEF u
      <4>3. u \in Good
        BY <4>1 DEF EraseNext
      <4> QED  BY <1>5, <3>2, <4>1, <4>2, <4>3
    <3> QED  BY <3>1, <3>2
  <2> QED  BY <1>2, <1>3, <1>6, <2>1, <2>3
<1>8. CASE EraseWriteClient(s)
  <2>1. t.step = "erase.lremClient" /\ UNCHANGED <<registry, members>>
    BY <1>2, <1>8 DEF EraseWriteClient
  <2>2. PICK c \in t.left :
          /\ groupsOf' = [groupsOf EXCEPT ![c][g] = 0]
          /\ IF t.left = {c}
             THEN Reply(s, <<[At(t, "erase.hdel") EXCEPT !.left = {}]>>)
             ELSE pipe' = [pipe EXCEPT ![s] = <<[t EXCEPT !.left = @ \ {c}]>> \o Tail(@)]
    BY <1>2, <1>8 DEF EraseWriteClient
  <2>3. c \in Clients
    BY <1>3
  <2> HIDE DEF g
  <2>4. /\ groupsOf' \in [Clients -> [Groups -> Nat]]
        /\ \A d \in Clients, h \in Groups :
              groupsOf'[d][h] = IF d = c /\ h = g THEN 0 ELSE groupsOf[d][h]
    BY <1>3, <2>2, <2>3 DEF TypeInv, TypeOK
  <2>5. CASE t.left = {c}
    <3> DEFINE u == [At(t, "erase.hdel") EXCEPT !.left = {}]
    <3>1. EraseNext(u, "erase.hdel", {})
      <4>1. {} \in SUBSET Clients
        OBVIOUS
      <4> QED  BY <1>4, <4>1 DEF EraseSteps
    <3>2. Reply(Server, <<u>>)
      BY <1>2, <2>2, <2>5
    <3> HIDE DEF u
    <3>3. Runs(<<u>>)
      BY <1>5, <3>1, <3>2 DEF EraseNext
    <3> QED  BY <1>2, <1>3, <1>6, <2>1, <2>4, <2>5, <3>1, <3>3 DEF g
  <2>6. CASE t.left # {c}
    <3> DEFINE u == [t EXCEPT !.left = t.left \ {c}]
    <3>1. EraseNext(u, "erase.lremClient", t.left \ {c})
      <4>1. At(t, "erase.lremClient") = t
        BY <1>3, <2>1 DEF At, Tasks
      <4>2. t.left \ {c} \in SUBSET Clients
        BY <1>3
      <4>3. EraseNext([At(t, "erase.lremClient") EXCEPT !.left = t.left \ {c}],
                      "erase.lremClient", t.left \ {c})
        BY <1>4, <4>2 DEF EraseSteps
      <4> QED  BY <4>1, <4>3
    <3>2. pipe' = [pipe EXCEPT ![Server] = <<u>> \o Tail(@)]
      BY <1>2, <2>2, <2>6
    <3> HIDE DEF u
    <3>3. Stays(u)
      <4>1. u \in Good /\ pipe \in [Servers -> Seq(Good)]
        BY <3>1 DEF EraseNext, TypeInv
      <4> QED  BY <1>2, <3>2, <4>1, Replaced DEF Stays
    <3> QED  BY <1>2, <1>3, <1>6, <2>1, <2>4, <2>6, <3>1, <3>3 DEF g
  <2> QED  BY <2>5, <2>6
<1>9. CASE EraseEntry(s)
  <2>1. /\ t.step = "erase.hdel" /\ UNCHANGED <<members, groupsOf>>
        /\ registry' = registry \ {g} /\ Reply(Server, <<At(t, "erase.del")>>)
    BY <1>2, <1>9 DEF EraseEntry
  <2>2. EraseNext(At(t, "erase.del"), "erase.del", t.left)
    BY <1>4 DEF EraseSteps
  <2>3. Runs(<<At(t, "erase.del")>>)
    BY <1>5, <2>1, <2>2 DEF EraseNext
  <2> QED  BY <1>2, <1>3, <1>6, <2>1, <2>2, <2>3
<1>10. CASE EraseGroup(s, Erased(Head(pipe[s])))
  <2>1. /\ t.step = "erase.del" /\ UNCHANGED <<registry, groupsOf>>
        /\ members' = [members EXCEPT ![g] = [c \in Clients |-> 0]] /\ Reply(Server, <<>>)
    BY <1>2, <1>10 DEF EraseGroup, Erased
  <2>2. Runs(<<>>)
    BY <1>2, <2>1, RunsOn, Nothing
  <2> HIDE DEF g
  <2>3. /\ members' \in [Groups -> [Clients -> Nat]]
        /\ \A d \in Clients, h \in Groups :
              members'[h][d] = IF h = g THEN 0 ELSE members[h][d]
    BY <1>3, <2>1 DEF TypeInv, TypeOK
  <2> QED  BY <1>2, <1>3, <1>6, <2>1, <2>2, <2>3 DEF g
<1>11. \/ EraseReadGroup(s) \/ EraseWriteClient(s) \/ EraseEntry(s)
       \/ EraseGroup(s, Erased(Head(pipe[s])))
  BY DEF Erase
<1> QED  BY <1>7, <1>8, <1>9, <1>10, <1>11
-------------------------------------------------------------------------------
(* The interval and the timers. *)

Adds(f) ==
    /\ f \in Seq(Good)
    /\ pipe' \in [Servers -> Seq(Good)]
    /\ Pipeline' = Pipeline \o f
    /\ Queued' = Queued \cup Elements(f)

LEMMA AddsOn ==
    ASSUME TypeInv, NEW f \in Seq(Good), Issue(Server, f)
    PROVE  Adds(f)
BY Issued DEF Adds, TypeInv

LEMMA TickDoes ==
    ASSUME TypeInv, NEW r \in RunIds, Tick(r)
    PROVE  LET u == RoomTask("mm.lrange", "match", None, Queue, r) IN
           /\ run[r] = "idle" /\ run' = [run EXCEPT ![r] = "matching"]
           /\ u \in Good /\ Adds(<<u>>) /\ Elements(<<u>>) = {u}
           /\ UNCHANGED <<storeVars, clientVars, minted, lobby, batch, roundVars, mmcVars>>
<1> DEFINE u == RoomTask("mm.lrange", "match", None, Queue, r)
<1>1. u \in Good
  <2>1. Fits("match", "mm.lrange", None, Queue, r)
    BY DEF Fits
  <2> QED  BY <2>1, RoomGood, Steps2, Names
<1>2. <<u>> \in Seq(Good) /\ Elements(<<u>>) = {u} /\ Issue(Server, <<u>>)
  BY <1>1, Singly DEF Tick
<1> HIDE DEF u
<1>3. Adds(<<u>>)
  BY <1>2, AddsOn
<1> QED  BY <1>1, <1>2, <1>3 DEF Tick, u

LEMMA TimerDoes ==
    ASSUME TypeInv, NEW m \in Matches, DisbandTimer(m)
    PROVE  LET u == RoomTask("erase.lrangeGroup", "disband", None, m, None) IN
           /\ m \in timers /\ timers' = timers \ {m}
           /\ u \in Good /\ Adds(<<u>>) /\ Elements(<<u>>) = {u}
           /\ UNCHANGED <<storeVars, clientVars, runVars, confirming, late, verdicts, mmcVars>>
<1> DEFINE u == RoomTask("erase.lrangeGroup", "disband", None, m, None)
<1>1. u \in Good
  <2>1. Fits("disband", "erase.lrangeGroup", None, m, None)
    BY DEF Fits, EraseSteps
  <2> QED  BY <2>1, RoomGood, Steps2, Names DEF EraseSteps
<1>2. <<u>> \in Seq(Good) /\ Elements(<<u>>) = {u} /\ Issue(Server, <<u>>)
  BY <1>1, Singly DEF DisbandTimer
<1> HIDE DEF u
<1>3. Adds(<<u>>)
  BY <1>2, AddsOn
<1> QED  BY <1>1, <1>2, <1>3 DEF DisbandTimer, u

Telling(m) == RoomTask("notify.lrange", "disband", None, m, None)

LEMMA RoundDoes ==
    ASSUME TypeInv, NEW r \in RunIds, ConfirmRound(r)
    PROVE  /\ run[r] = "pausing" /\ run' = [run EXCEPT ![r] = "idle"]
           /\ \E f \in Seq(Good) :
                 /\ Adds(f)
                 /\ Elements(f) = {Round(m) : m \in confirming} \cup {Telling(m) : m \in ToTell}
                 /\ \A i, j \in DOMAIN f : f[i].step = "mmc.llen" /\ f[i] = f[j] => i = j
           /\ confirming' = confirming \ late
           /\ late' = {} /\ timers' = timers \cup late
           /\ \A m \in Matches : verdicts'[m] = IF m \in late THEN Append(verdicts[m], "disband")
                                                              ELSE verdicts[m]
           /\ verdicts' \in [Matches -> Seq({"start", "disband"})]
           /\ UNCHANGED <<storeVars, clientVars, minted, lobby, batch, mmcVars>>
<1>1. late \subseteq confirming /\ confirming \subseteq Matches
  BY DEF TypeInv, TypeOK
<1>2. ToTell = late /\ ToErase = late /\ StillOpen = confirming \ late
  BY <1>1 DEF ToTell, ToErase, StillOpen, Overdue
<1>3. IsFiniteSet(confirming) /\ IsFiniteSet(ToTell) /\ ToTell \subseteq Matches
  BY <1>1, <1>2, FinitePeople, FS_Subset
<1>4. PICK order \in SetToSeqs(confirming), told \in SetToSeqs(ToTell) :
         Issue(Server, [i \in DOMAIN order |-> Round(order[i])]
                          \o [i \in DOMAIN told |-> Telling(told[i])])
  BY DEF ConfirmRound, Telling
<1>5. /\ DOMAIN order = 1..Len(order) /\ Len(order) \in Nat /\ Elements(order) = confirming
      /\ \A i \in DOMAIN order : order[i] \in confirming
      /\ \A i, j \in DOMAIN order : order[i] = order[j] => i = j
      /\ DOMAIN told = 1..Len(told) /\ Len(told) \in Nat /\ Elements(told) = ToTell
      /\ \A i \in DOMAIN told : told[i] \in ToTell
  <2>1. /\ DOMAIN order = 1..Len(order) /\ Len(order) \in Nat /\ Elements(order) = confirming
        /\ \A i, j \in DOMAIN order : order[i] = order[j] => i = j
    BY <1>3, Orders
  <2>2. DOMAIN told = 1..Len(told) /\ Len(told) \in Nat /\ Elements(told) = ToTell
    BY <1>3, Orders
  <2> QED  BY <2>1, <2>2 DEF Elements
<1>6. ASSUME NEW m \in confirming
      PROVE  /\ Round(m) \in Good /\ Round(m).g = m
             /\ Round(m).step \in {"mmc.del", "mmc.llen"}
  <2>1. m \in Matches
    BY <1>1
  <2>2. Fits("disband", "mmc.del", None, m, None) /\ Fits("start", "mmc.llen", None, m, None)
    BY <2>1 DEF Fits
  <2>3. /\ RoomTask("mmc.del", "disband", None, m, None) \in Good
        /\ RoomTask("mmc.llen", "start", None, m, None) \in Good
    BY <2>1, <2>2, RoomGood, Steps2, Names
  <2> QED  BY <2>3, RoomFields DEF Round
<1>7. ASSUME NEW m \in Matches PROVE Telling(m) \in Good /\ Telling(m).step = "notify.lrange"
  <2>1. Fits("disband", "notify.lrange", None, m, None)
    BY DEF Fits
  <2> QED  BY <2>1, RoomGood, RoomFields, Steps2, Names DEF Telling
<1> DEFINE a == [i \in DOMAIN order |-> Round(order[i])]
           b == [i \in DOMAIN told |-> Telling(told[i])]
           f == a \o b
<1>8. /\ DOMAIN a = DOMAIN order /\ DOMAIN b = DOMAIN told
      /\ \A i \in DOMAIN order : a[i] = Round(order[i])
      /\ \A i \in DOMAIN told : b[i] = Telling(told[i])
  OBVIOUS
<1>9. a \in Seq(Good) /\ b \in Seq(Good)
  <2>1. (\A i \in DOMAIN order : a[i] \in Good) /\ (\A i \in DOMAIN told : b[i] \in Good)
    BY <1>3, <1>5, <1>6, <1>7
  <2> QED  BY <1>5, <2>1
<1> HIDE DEF a, b
<1>10. /\ f \in Seq(Good) /\ Len(a) \in Nat /\ Len(b) \in Nat
       /\ DOMAIN a = 1..Len(a) /\ DOMAIN b = 1..Len(b)
       /\ DOMAIN f = 1..(Len(a) + Len(b))
       /\ \A i \in DOMAIN f : f[i] = IF i <= Len(a) THEN a[i] ELSE b[i - Len(a)]
  BY <1>9, AppendElements, LenProperties
<1>11. Adds(f)
  <2>1. Issue(Server, f)
    BY <1>4 DEF a, b
  <2> QED  BY <1>10, <2>1, AddsOn
<1> HIDE DEF f
<1>12. /\ \A i \in DOMAIN f : i <= Len(a) => i \in DOMAIN a /\ f[i] = a[i]
       /\ \A i \in DOMAIN f : ~(i <= Len(a)) => i - Len(a) \in DOMAIN b /\ f[i] = b[i - Len(a)]
       /\ \A i \in DOMAIN a : i \in DOMAIN f /\ f[i] = a[i]
       /\ \A i \in DOMAIN b : i + Len(a) \in DOMAIN f /\ f[i + Len(a)] = b[i]
  <2>1. ASSUME NEW i \in DOMAIN f, ~(i <= Len(a))
        PROVE  i - Len(a) \in DOMAIN b /\ f[i] = b[i - Len(a)]
    BY <1>10, <2>1
  <2>2. ASSUME NEW i \in DOMAIN a PROVE i \in DOMAIN f /\ f[i] = a[i]
    BY <1>10
  <2>3. ASSUME NEW i \in DOMAIN b PROVE i + Len(a) \in DOMAIN f /\ f[i + Len(a)] = b[i]
    <3>1. i \in Int /\ i >= 1 /\ i <= Len(b) /\ (i + Len(a)) - Len(a) = i
      BY <1>10
    <3>2. i + Len(a) \in DOMAIN f /\ ~(i + Len(a) <= Len(a))
      BY <1>10, <3>1
    <3> QED  BY <1>10, <3>1, <3>2
  <2>4. ASSUME NEW i \in DOMAIN f, i <= Len(a) PROVE i \in DOMAIN a /\ f[i] = a[i]
    BY <1>10, <2>4
  <2> QED  BY <2>1, <2>2, <2>3, <2>4
<1>13. Elements(f) = {Round(m) : m \in confirming} \cup {Telling(m) : m \in ToTell}
  <2>1. \A x \in Elements(f) : (\E i \in DOMAIN a : x = a[i]) \/ (\E i \in DOMAIN b : x = b[i])
    BY <1>12 DEF Elements
  <2>2. \A x : (\E i \in DOMAIN a : x = a[i]) \/ (\E i \in DOMAIN b : x = b[i]) => x \in Elements(f)
    BY <1>12 DEF Elements
  <2>3. \A x : (\E i \in DOMAIN a : x = a[i]) <=> \E m \in confirming : x = Round(m)
    BY <1>5, <1>8 DEF Elements
  <2>4. \A x : (\E i \in DOMAIN b : x = b[i]) <=> \E m \in ToTell : x = Telling(m)
    BY <1>5, <1>8 DEF Elements
  <2> QED  BY <2>1, <2>2, <2>3, <2>4
<1>14. \A i, j \in DOMAIN f : f[i].step = "mmc.llen" /\ f[i] = f[j] => i = j
  <2>1. \A i \in DOMAIN f : f[i].step = "mmc.llen" => i <= Len(a)
    <3>1. \A i \in DOMAIN b : b[i].step = "notify.lrange"
      BY <1>3, <1>5, <1>7, <1>8
    <3> QED  BY <1>12, <3>1
  <2>2. \A i, j \in DOMAIN a : a[i] = a[j] => i = j
    <3>1. \A i \in DOMAIN a : a[i].g = order[i]
      BY <1>5, <1>6, <1>8
    <3> QED  BY <1>5, <1>8, <3>1
  <2> QED  BY <1>12, <2>1, <2>2
<1>15. /\ run[r] = "pausing" /\ run' = [run EXCEPT ![r] = "idle"]
       /\ confirming' = confirming \ late
       /\ late' = {} /\ timers' = timers \cup late
       /\ UNCHANGED <<storeVars, clientVars, minted, lobby, batch, mmcVars>>
       /\ verdicts' = [m \in Matches |-> IF m \in confirming /\ Overdue(m)
                                          THEN Append(verdicts[m], "disband")
                                          ELSE verdicts[m]]
  <2>1. late \cap (confirming \ late) = {}
    OBVIOUS
  <2> QED  BY <1>1, <1>2, <2>1 DEF ConfirmRound
<1>16. \A m \in Matches : verdicts'[m] = IF m \in late THEN Append(verdicts[m], "disband")
                                                       ELSE verdicts[m]
  BY <1>1, <1>15 DEF Overdue
<1>17. verdicts' \in [Matches -> Seq({"start", "disband"})]
  <2>1. \A m \in Matches : verdicts[m] \in Seq({"start", "disband"})
    BY DEF TypeInv, TypeOK
  <2>2. \A m \in Matches : Append(verdicts[m], "disband") \in Seq({"start", "disband"})
    BY <2>1
  <2> QED  BY <1>15, <2>1, <2>2
<1> QED  BY <1>10, <1>11, <1>13, <1>14, <1>15, <1>16, <1>17
-------------------------------------------------------------------------------
(* Every step keeps the types. *)

LEMMA AtFields ==
    ASSUME NEW t \in Good, NEW st
    PROVE  /\ At(t, st).step = st /\ At(t, st).job = t.job /\ At(t, st).c = t.c
           /\ At(t, st).g = t.g /\ At(t, st).for = t.for
           /\ At(t, st).left = t.left /\ At(t, st).seen = t.seen
<1>1. t \in Tasks
  BY DEF Good
<1> QED  BY <1>1 DEF At, Tasks

LEMMA Few ==
    /\ Elements(<<>>) = {}
    /\ \A u : Elements(<<u>>) = {u}
    /\ \A u, v : Elements(<<u, v>>) = {u, v}
    /\ \A u, v, w : Elements(<<u, v, w>>) = {u, v, w}
<1>1. \A u : DOMAIN <<u>> = {1} /\ <<u>>[1] = u
  OBVIOUS
<1>2. \A u, v : DOMAIN <<u, v>> = {1, 2} /\ <<u, v>>[1] = u /\ <<u, v>>[2] = v
  OBVIOUS
<1>3. \A u, v, w : /\ DOMAIN <<u, v, w>> = {1, 2, 3} /\ <<u, v, w>>[1] = u /\ <<u, v, w>>[2] = v
                   /\ <<u, v, w>>[3] = w
  OBVIOUS
<1>4. \A u : Elements(<<u>>) = {u}
  BY <1>1 DEF Elements
<1>5. \A u, v : Elements(<<u, v>>) = {u, v}
  <2> SUFFICES ASSUME NEW u, NEW v PROVE Elements(<<u, v>>) = {u, v}
    OBVIOUS
  <2> QED  BY <1>2 DEF Elements
<1>6. \A u, v, w : Elements(<<u, v, w>>) = {u, v, w}
  <2> SUFFICES ASSUME NEW u, NEW v, NEW w PROVE Elements(<<u, v, w>>) = {u, v, w}
    OBVIOUS
  <2> QED  BY <1>3 DEF Elements
<1>7. Elements(<<>>) = {}
  BY Nothing
<1> QED  BY <1>4, <1>5, <1>6, <1>7

WellViewed ==
    /\ view \in [Clients -> [at : Places, m : Matches \cup {None}]]
    /\ \A c \in Clients : IF view[c].at \in InMatch THEN view[c].m \in Matches ELSE view[c].m = None

LEMMA Tells ==
    ASSUME TypeInv, NEW at \in Places, NEW m \in Matches \cup {None}, NEW cs,
           IF at \in InMatch THEN m \in Matches ELSE m = None, view' = Told(at, m, cs)
    PROVE  WellViewed'
<1>1. /\ view \in [Clients -> [at : Places, m : Matches \cup {None}]]
      /\ \A c \in Clients : IF view[c].at \in InMatch THEN view[c].m \in Matches ELSE view[c].m = None
  BY DEF TypeInv, TypeOK
<1>2. view' = [c \in Clients |-> IF c \in cs THEN [at |-> at, m |-> m] ELSE view[c]]
  BY DEF Told
<1> QED  BY <1>1, <1>2 DEF WellViewed

LEMMA TypesKept ==
    ASSUME TypeInv, pipe' \in [Servers -> Seq(Good)], Filling', WellViewed',
           registry' \subseteq Groups, Queue \in registry',
           members' \in [Groups -> [Clients -> Nat]], groupsOf' \in [Clients -> [Groups -> Nat]],
           online' \subseteq Clients,
           minted' \subseteq Matches, lobby' \in [Matches -> Seq(Clients)],
           run' \in [RunIds -> {"idle", "matching", "pausing"}],
           batch' \in [RunIds -> Seq(minted')],
           late' \subseteq confirming', confirming' \subseteq minted', timers' \subseteq minted',
           verdicts' \in [Matches -> Seq({"start", "disband"})],
           mmc' \in [Matches -> [Clients -> Nat]],
           ttl' \subseteq {m \in Matches : \E c \in Clients : mmc'[m][c] > 0}
    PROVE  TypeInv'
<1>1. pipe' \in [Servers -> Seq(Tasks)]
  BY GoodTasks
<1> QED  BY <1>1 DEF TypeInv, TypeOK, WellViewed

LEMMA TypesNow ==
    ASSUME TypeInv
    PROVE  /\ pipe \in [Servers -> Seq(Good)] /\ Filling /\ WellViewed
           /\ registry \subseteq Groups /\ Queue \in registry
           /\ members \in [Groups -> [Clients -> Nat]] /\ groupsOf \in [Clients -> [Groups -> Nat]]
           /\ online \subseteq Clients
           /\ minted \subseteq Matches /\ lobby \in [Matches -> Seq(Clients)]
           /\ run \in [RunIds -> {"idle", "matching", "pausing"}]
           /\ batch \in [RunIds -> Seq(minted)]
           /\ late \subseteq confirming /\ confirming \subseteq minted /\ timers \subseteq minted
           /\ verdicts \in [Matches -> Seq({"start", "disband"})]
           /\ mmc \in [Matches -> [Clients -> Nat]]
           /\ ttl \subseteq {m \in Matches : \E c \in Clients : mmc[m][c] > 0}
BY DEF TypeInv, TypeOK, WellViewed

LEMMA TypeRequest == ASSUME TypeInv, NEW s \in Servers, RequestStep(s) PROVE TypeInv'
<1> USE DEF storeVars, runVars, roundVars, mmcVars, clientVars
<1>c. Current \in Good
  <2>1. \E st : Running(s, st)
    BY DEF RequestStep, SearchCheck, Get, GetGroupInstance, MemberCheck, ReadConfirmations,
           AddConfirmation, ExpireConfirmations, CloseCheck, LeaveAllGroups
  <2> QED  BY <2>1, Currently
<1>0. ASSUME UNCHANGED <<storeVars, online, runVars, roundVars>>, NEW f, Runs(f), WellViewed',
             \A u \in Elements(f) : u.step # "mm.lrange" /\ u.job # "match",
             mmc' \in [Matches -> [Clients -> Nat]],
             ttl' \subseteq {m \in Matches : \E c \in Clients : mmc'[m][c] > 0}
      PROVE  TypeInv'
  <2>1. Filling'
    BY <1>0, FillingRuns
  <2>2. pipe' \in [Servers -> Seq(Good)]
    BY <1>0 DEF Runs
  <2> QED  BY <1>0, <2>1, <2>2, TypesNow, TypesKept
<1>v. UNCHANGED view => WellViewed'
  BY TypesNow DEF WellViewed
<1>m. /\ mmc \in [Matches -> [Clients -> Nat]]
      /\ ttl \subseteq {m \in Matches : \E c \in Clients : mmc[m][c] > 0}
  BY TypesNow
<1>1. CASE SearchCheck(s)
  <2>1. WellViewed'
    <3>1. \/ view' = view
          \/ view' = Told("ignored", None, {Current.c})
      BY <1>1, SearchDoes
    <3> QED  BY <1>v, <3>1, Tells DEF Places, InMatch
  <2>2. CASE GroupsOfClient(Current.c) = {}
    <3>1. Runs(<<At(Current, "push.lrangeGroup")>>) /\ Current.job = "search"
      BY <1>1, <2>2, SearchDoes
    <3>2. \A u \in Elements(<<At(Current, "push.lrangeGroup")>>) :
             u.step # "mm.lrange" /\ u.job # "match"
      BY <1>c, <3>1, AtFields, Few
    <3> QED  BY <1>0, <1>1, <1>m, <2>1, <3>1, <3>2, SearchDoes
  <2>3. CASE GroupsOfClient(Current.c) # {}
    <3>1. Runs(<<>>)
      BY <1>1, <2>3, SearchDoes
    <3> QED  BY <1>0, <1>1, <1>m, <2>1, <3>1, Few, SearchDoes
  <2> QED  BY <2>2, <2>3
<1>2. CASE Get(s)
  <2>1. WellViewed' /\ UNCHANGED <<storeVars, online, runVars, roundVars, mmcVars>>
    BY <1>2, <1>v, GetDoes
  <2>2. \E f : Runs(f) /\ \A u \in Elements(f) : u.step # "mm.lrange" /\ u.job # "match"
    <3>1. \/ Runs(<<At(Current, "remove.lremClient")>>)
          \/ Runs(<<At(Current, "member.lrange")>>)
          \/ Runs(<<Heal(Current)>>) /\ Current.step = "get.hget" /\ Current.g \in Matches
      BY <1>2, GetDoes
    <3>2. Current.job # "match"
      BY <1>2, GetDoes
    <3>3. \A st : st # "mm.lrange" =>
             \A u \in Elements(<<At(Current, st)>>) : u.step # "mm.lrange" /\ u.job # "match"
      BY <1>c, <3>2, AtFields, Few
    <3>4. Current.step = "get.hget" /\ Current.g \in Matches =>
             \A u \in Elements(<<Heal(Current)>>) : u.step # "mm.lrange" /\ u.job # "match"
      BY <1>c, HealGood, Few
    <3> QED  BY <3>1, <3>3, <3>4
  <2> QED  BY <1>0, <1>m, <2>1, <2>2
<1>3. CASE MemberCheck(s)
  <2>1. WellViewed'
    <3>1. \/ view' = view
          \/ view' = Told("free", None, {Current.c})
      BY <1>3, MemberDoes
    <3> QED  BY <1>v, <3>1, Tells DEF Places, InMatch
  <2>2. \E f : Runs(f) /\ \A u \in Elements(f) : u.step # "mm.lrange" /\ u.job # "match"
    <3>1. \/ Runs(<<>>)
          \/ Runs(<<At(Current, "mmc.lrange"), At(Current, "mmc.expire"), At(Current, "notify.lrange")>>)
          \/ Runs(<<At(Current, "remove.lremClient"), At(Current, "notify.lrange")>>)
      BY <1>3, MemberDoes
    <3>2. Current.job # "match"
      BY <1>3, MemberDoes
    <3>3. \A st : At(Current, st).step = st /\ At(Current, st).job # "match"
      BY <1>c, <3>2, AtFields
    <3> QED  BY <3>1, <3>3, Few
  <2> QED  BY <1>0, <1>3, <1>m, <2>1, <2>2, MemberDoes
<1>4. CASE ReadConfirmations(s)
  <2>1. WellViewed' /\ UNCHANGED <<storeVars, online, runVars, roundVars, mmcVars>>
    BY <1>4, <1>v, ReadConfirmationsDoes
  <2>2. \E f : Runs(f) /\ \A u \in Elements(f) : u.step # "mm.lrange" /\ u.job # "match"
    <3>1. (Runs(<<>>) \/ Runs(<<At(Current, "mmc.lpush")>>)) /\ Current.job # "match"
      BY <1>4, ReadConfirmationsDoes
    <3>2. \A st : At(Current, st).step = st /\ At(Current, st).job # "match"
      BY <1>c, <3>1, AtFields
    <3> QED  BY <3>1, <3>2, Few
  <2> QED  BY <1>0, <1>m, <2>1, <2>2
<1>5. CASE AddConfirmation(s)
  <2>1. /\ WellViewed' /\ UNCHANGED <<storeVars, online, runVars, roundVars>>
        /\ Runs(<<>>) /\ mmc' \in [Matches -> [Clients -> Nat]]
    BY <1>5, <1>v, AddConfirmationDoes
  <2>2. ttl' \subseteq {m \in Matches : \E c \in Clients : mmc'[m][c] > 0}
    <3>1. \A m \in Matches, c \in Clients : mmc[m][c] > 0 => mmc'[m][c] > 0
      BY <1>5, <1>m, AddConfirmationDoes
    <3>2. ttl' = ttl
      BY <1>5, AddConfirmationDoes
    <3> QED  BY <1>m, <3>1, <3>2
  <2> QED  BY <1>0, <2>1, <2>2, Few
<1>6. CASE ExpireConfirmations(s)
  <2>1. /\ WellViewed' /\ UNCHANGED <<storeVars, online, runVars, roundVars>>
        /\ Runs(<<>>) /\ mmc' = mmc
        /\ ttl' \subseteq {m \in Matches : \E c \in Clients : mmc[m][c] > 0}
    BY <1>6, <1>v, ExpireConfirmationsDoes
  <2> QED  BY <1>0, <1>m, <2>1, Few
<1>7. CASE CloseCheck(s)
  <2>1. WellViewed' /\ UNCHANGED <<storeVars, online, runVars, roundVars, mmcVars>>
    BY <1>7, <1>v, CloseCheckDoes
  <2>2. \E f : Runs(f) /\ \A u \in Elements(f) : u.step # "mm.lrange" /\ u.job # "match"
    <3>1. Current.job # "match"
      BY <1>7, CloseCheckDoes
    <3>2. \A st : At(Current, st).step = st /\ At(Current, st).job # "match"
      BY <1>c, <3>1, AtFields
    <3>3. CASE Runs(<<At(Current, "close.lrange")>>)
      BY <3>2, <3>3, Few
    <3>4. CASE \E m \in Matches :
                    Runs(<<At(Current, "close.lrange"),
                           RoomTask("notify.lrange", "exit", Current.c, m, None)>>)
      BY <3>2, <3>4, Few, RoomFields
    <3> QED  BY <1>7, <3>3, <3>4, CloseCheckDoes
  <2> QED  BY <1>0, <1>m, <2>1, <2>2
<1>8. CASE LeaveAllGroups(s)
  <2>1. WellViewed' /\ UNCHANGED <<storeVars, online, runVars, roundVars, mmcVars>>
    BY <1>8, <1>v, LeaveAllDoes
  <2>2. \E f : Runs(f) /\ \A u \in Elements(f) : u.step # "mm.lrange" /\ u.job # "match"
    <3>1. \A g : /\ RoomTask("get.hget", "close", Current.c, g, None).step = "get.hget"
                 /\ RoomTask("get.hget", "close", Current.c, g, None).job = "close"
      BY RoomFields
    <3> QED  BY <1>8, <3>1, LeaveAllDoes
  <2> QED  BY <1>0, <1>m, <2>1, <2>2
<1> QED  BY <1>1, <1>2, <1>3, <1>4, <1>5, <1>6, <1>7, <1>8 DEF RequestStep
LEMMA TypeQueueCut == ASSUME TypeInv, NEW s \in Servers, MatchQueue(s) PROVE TypeInv'
<1> USE DEF storeVars, runVars, roundVars, mmcVars, clientVars
<1> DEFINE r == Current.for
<1>1. /\ Current.step = "mm.lrange" /\ r \in RunIds
      /\ UNCHANGED <<storeVars, clientVars, roundVars, mmcVars>>
  BY QueueCut
<1>2. PICK new \in SUBSET (Matches \ minted), ids \in Seq(Matches),
           f \in Seq(Good), q \in Listings(Queue) :
         /\ Runs(f) /\ Elements(ids) = new /\ Range(ids) = new
         /\ \A t \in Elements(f) :
               \E m \in new : \E c \in Elements(lobby'[m]) :
                  t = RoomTask("remove.lremClient", "match", c, Queue, m)
         /\ lobby' \in [Matches -> Seq(Clients)]
         /\ batch' = [batch EXCEPT ![r] = ids]
         /\ minted' = minted \cup new
         /\ run' = IF new = {} THEN [run EXCEPT ![r] = "pausing"] ELSE run
  BY QueueCut
<1>3. \A t \in Elements(f) : t.step = "remove.lremClient" /\ t.job = "match" /\ t.for \in new
  BY <1>2, RoomFields
<1>4. /\ Pipeline \in Seq(Good) /\ Pipeline # <<>> /\ 1 \in DOMAIN Pipeline
      /\ Pipeline[1] = Current /\ Current \in Queued /\ Current \in Good
      /\ Queued = {Current} \cup Behind /\ Queued' = Behind \cup Elements(f)
      /\ Pipeline' = Tail(Pipeline) \o f
  BY <1>2, Heads, TypesNow DEF Runs, Current
<1> HIDE DEF r
<1>5. /\ run \in [RunIds -> {"idle", "matching", "pausing"}]
      /\ batch \in [RunIds -> Seq(minted)] /\ minted \subseteq Matches
      /\ run[r] = "matching" /\ batch[r] = <<>>
  BY <1>1, <1>4, TypesNow DEF Filling, r
<1>6. /\ \A x \in RunIds : batch'[x] = IF x = r THEN ids ELSE batch[x]
      /\ \A x \in RunIds : run'[x] = IF x = r /\ new = {} THEN "pausing" ELSE run[x]
  BY <1>1, <1>2, <1>5
<1>7. batch' \in [RunIds -> Seq(minted')] /\ minted' \subseteq Matches
  <2>1. ids \in Seq(minted')
    <3>1. \A i \in DOMAIN ids : ids[i] \in new
      BY <1>2 DEF Elements
    <3> QED  BY <1>2, <3>1
  <2>2. \A x \in RunIds : batch[x] \in Seq(minted')
    <3>1. minted \subseteq minted'
      BY <1>2
    <3> QED  BY <1>5, <3>1
  <2> QED  BY <1>1, <1>2, <1>5, <2>1, <2>2
<1>8. run' \in [RunIds -> {"idle", "matching", "pausing"}]
  BY <1>1, <1>2, <1>5
<1>9. Filling'
  <2>1. \A x \in RunIds : AtMostOnce(RunTasks(x))'
    <3> SUFFICES ASSUME NEW x \in RunIds PROVE AtMostOnce(RunTasks(x))'
      OBVIOUS
    <3>1. AtMostOnce(RunTasks(x)) /\ Elements(f) \cap RunTasks(x) = {}
      BY <1>3, TypesNow DEF Filling, RunTasks
    <3>2. \A i, j \in DOMAIN f : f[i] \in RunTasks(x) /\ f[j] \in RunTasks(x) => i = j
      BY <3>1 DEF Elements
    <3> QED  BY <1>4, <3>1, <3>2, OnceAgain
  <2>2. \A t \in Behind : ~(t.step = "mm.lrange" /\ t.for = r)
    <3> SUFFICES ASSUME NEW i \in 2..Len(Pipeline), Pipeline[i].step = "mm.lrange",
                        Pipeline[i].for = r
                 PROVE  FALSE
      BY DEF Behind, Pipeline
    <3>1. i \in DOMAIN Pipeline /\ Pipeline[i] \in Good /\ i # 1
      BY <1>4, LenProperties
    <3>2. Pipeline[i] \in RunTasks(r) /\ Pipeline[1] \in RunTasks(r)
      BY <1>1, <1>4, <3>1 DEF RunTasks, r
    <3>3. AtMostOnce(RunTasks(r))
      BY <1>1, TypesNow DEF Filling, r
    <3> QED  BY <1>4, <3>1, <3>2, <3>3 DEF AtMostOnce
  <2>3. ASSUME NEW t \in Queued', t.job = "match", t.step # "mm.lrange"
        PROVE  \E x \in RunIds : t.for \in Range(batch'[x])
    <3>1. CASE t \in Elements(f)
      BY <1>1, <1>2, <1>3, <1>6, <3>1 DEF r
    <3>2. CASE t \in Behind
      <4>1. PICK x \in RunIds : t.for \in Range(batch[x])
        BY <1>4, <2>3, <3>2, TypesNow DEF Filling
      <4>2. x # r
        BY <1>5, <4>1 DEF Range
      <4> QED  BY <1>6, <4>1, <4>2
    <3> QED  BY <1>4, <3>1, <3>2
  <2>4. ASSUME NEW t \in Queued', t.step = "mm.lrange"
        PROVE  run'[t.for] = "matching" /\ batch'[t.for] = <<>>
    <3>0. t \in Behind /\ t \in Queued
      BY <1>3, <1>4, <2>4
    <3>1. t \in Behind /\ t \in Queued /\ t \in Good
      BY <1>4, <3>0 DEF Queued
    <3>2. t.for \in RunIds /\ t.for # r
      <4>1. t.job = "match"
        BY <2>4, <3>1, Kinds
      <4>2. Fits("match", "mm.lrange", t.c, t.g, t.for)
        BY <2>4, <3>1, <4>1, Kinds
      <4> QED  BY <2>2, <2>4, <3>1, <4>2 DEF Fits, RemoveSteps, PushSteps
    <3> QED  BY <1>6, <2>4, <3>1, <3>2, TypesNow DEF Filling
  <2>5. ASSUME NEW x \in RunIds, run'[x] # "matching" PROVE batch'[x] = <<>>
    <3>1. CASE x = r
      <4>1. new = {}
        BY <1>5, <1>6, <2>5, <3>1
      <4>2. ids = <<>>
        <5>0. Elements(ids) = {}
          BY <1>2, <4>1
        <5>1. DOMAIN ids = {}
          BY <5>0 DEF Elements
        <5>2. Len(ids) = 0
          BY <1>2, <5>1, LenProperties
        <5> QED  BY <1>2, <5>2, EmptySeq
      <4> QED  BY <1>6, <3>1, <4>2
    <3>2. CASE x # r
      BY <1>6, <2>5, <3>2, TypesNow DEF Filling
    <3> QED  BY <3>1, <3>2
  <2> QED  BY <2>1, <2>3, <2>4, <2>5 DEF Filling
<1>10. WellViewed' /\ pipe' \in [Servers -> Seq(Good)]
  BY <1>1, <1>2, TypesNow DEF WellViewed, Runs
<1>11. /\ confirming' \subseteq minted' /\ timers' \subseteq minted'
  BY <1>1, <1>2, TypesNow
<1> QED  BY <1>1, <1>2, <1>7, <1>8, <1>9, <1>10, <1>11, TypesNow, TypesKept
LEMMA TypePush == ASSUME TypeInv, NEW s \in Servers, Push(s) PROVE TypeInv'
<1> USE DEF storeVars, runVars, roundVars, mmcVars, clientVars
<1>1. /\ Current.step \in PushSteps /\ Current.c \in Clients /\ Current.g \in Groups
      /\ registry' = registry
      /\ UNCHANGED <<clientVars, minted, lobby, late, timers, verdicts, mmcVars>>
  BY PushDoes
<1>2. /\ members' \in [Groups -> [Clients -> Nat]] /\ groupsOf' \in [Clients -> [Groups -> Nat]]
  BY PushDoes, TypesNow
<1>3. /\ Current \in Good /\ Current \in Queued /\ Pipeline # <<>>
      /\ Queued = {Current} \cup Behind
  <2>1. Pipeline # <<>>
    BY PushDoes DEF Runs
  <2> QED  BY <2>1, Heads, TypesNow DEF Current
<1>4. /\ Pushed(Current) \in Seq(Good)
      /\ AllPushed(Current) =>
            /\ RunOf(Current) \in RunIds
            /\ Current.for \in Range(batch[RunOf(Current)])
            /\ \A u \in Elements(Pushed(Current)) : u.job = "found" /\ u.step = "notify.lrange"
      /\ ~AllPushed(Current) => Elements(Pushed(Current)) = {}
  BY <1>1, <1>3, PushedGood, RoomFields, Few
<1>5. WellViewed' /\ pipe' \in [Servers -> Seq(Good)]
  BY PushDoes, TypesNow DEF WellViewed, Runs
<1>6. \E f : /\ Runs(f)
             /\ \/ f = Pushed(Current)
                \/ \E st \in PushSteps : f = <<At(Current, st)>>
  BY PushDoes DEF PushSteps
<1>7. Ends(Current) => Runs(Pushed(Current))
  BY PushDoes
<1>8. CASE ~(Ends(Current) /\ AllPushed(Current))
  <2>1. UNCHANGED <<confirming, batch, run>>
    BY <1>8, PushDoes
  <2>2. ~Ends(Current) => \E st \in PushSteps : Runs(<<At(Current, st)>>)
    BY PushDoes DEF PushSteps
  <2>3. \E f : /\ Runs(f)
               /\ \A u \in Elements(f) :
                     u.step # "mm.lrange" /\ u.job = Current.job /\ u.for = Current.for
    <3>1. CASE Ends(Current)
      BY <1>4, <1>7, <1>8, <3>1
    <3>2. CASE ~Ends(Current)
      <4>1. PICK st \in PushSteps : Runs(<<At(Current, st)>>)
        BY <2>2, <3>2
      <4>2. st # "mm.lrange"
        BY DEF PushSteps
      <4> QED  BY <1>3, <4>1, <4>2, AtFields, Few
    <3> QED  BY <3>1, <3>2
  <2>4. Current.step # "mm.lrange"
    BY <1>1 DEF PushSteps
  <2>5. Filling'
    BY <2>1, <2>3, <2>4, FillingRuns
  <2> QED  BY <1>1, <1>2, <1>5, <2>1, <2>5, TypesNow, TypesKept
<1>9. CASE Ends(Current) /\ AllPushed(Current)
  <2> DEFINE R == RunOf(Current)
             f == Pushed(Current)
  <2>1. /\ R \in RunIds /\ Current.for \in Range(batch[R]) /\ f \in Seq(Good) /\ Runs(f)
        /\ \A u \in Elements(f) : u.job = "found" /\ u.step = "notify.lrange"
    BY <1>4, <1>7, <1>9
  <2>2. \A u \in Behind : u.for \notin Range(batch[R])
    BY <1>9 DEF AllPushed
  <2>3. /\ confirming' = confirming \cup Range(batch[R])
        /\ batch' = [batch EXCEPT ![R] = <<>>]
        /\ run' = [run EXCEPT ![R] = "pausing"]
    BY <1>9, PushDoes
  <2> HIDE DEF R, f
  <2>4. /\ batch' \in [RunIds -> Seq(minted)]
        /\ run' \in [RunIds -> {"idle", "matching", "pausing"}]
        /\ \A x \in RunIds : batch'[x] = IF x = R THEN <<>> ELSE batch[x]
        /\ \A x \in RunIds : run'[x] = IF x = R THEN "pausing" ELSE run[x]
    BY <2>1, <2>3, TypesNow
  <2>5. Range(batch[R]) \subseteq minted
    BY <2>1, TypesNow DEF Range
  <2>6. Filling'
    <3>0. /\ Pipeline \in Seq(Good) /\ Queued' = Behind \cup Elements(f)
          /\ Pipeline' = Tail(Pipeline) \o f
      BY <1>3, <2>1, Heads, TypesNow DEF Runs
    <3>1. \A x \in RunIds : AtMostOnce(RunTasks(x))'
      <4> SUFFICES ASSUME NEW x \in RunIds PROVE AtMostOnce(RunTasks(x))'
        OBVIOUS
      <4>1. AtMostOnce(RunTasks(x)) /\ Elements(f) \cap RunTasks(x) = {}
        BY <2>1, TypesNow DEF Filling, RunTasks
      <4>2. \A i, j \in DOMAIN f : f[i] \in RunTasks(x) /\ f[j] \in RunTasks(x) => i = j
        BY <4>1 DEF Elements
      <4> QED  BY <1>3, <2>1, <3>0, <4>1, <4>2, OnceAgain
    <3>2. ASSUME NEW t \in Queued', t.job = "match", t.step # "mm.lrange"
          PROVE  \E x \in RunIds : t.for \in Range(batch'[x])
      <4>1. t \in Behind /\ t \in Queued
        BY <1>3, <2>1, <3>0, <3>2
      <4>2. PICK x \in RunIds : t.for \in Range(batch[x])
        BY <3>2, <4>1, TypesNow DEF Filling
      <4>3. x # R
        BY <2>2, <4>1, <4>2
      <4> QED  BY <2>4, <4>2, <4>3
    <3>3. ASSUME NEW t \in Queued', t.step = "mm.lrange"
          PROVE  run'[t.for] = "matching" /\ batch'[t.for] = <<>>
      <4>1. t \in Behind /\ t \in Queued /\ t \in Good
        <5>1. t \in Behind
          BY <2>1, <3>0, <3>3
        <5> QED  BY <1>3, <3>0, <5>1 DEF Queued
      <4>2. t.for \in RunIds
        <5>1. t.job = "match" /\ Fits(t.job, "mm.lrange", t.c, t.g, t.for)
          BY <3>3, <4>1, Kinds
        <5> QED  BY <5>1 DEF Fits, RemoveSteps, PushSteps
      <4>3. run[t.for] = "matching" /\ batch[t.for] = <<>>
        BY <3>3, <4>1, TypesNow DEF Filling
      <4>4. t.for # R
        BY <2>1, <4>3 DEF Range
      <4> QED  BY <2>4, <4>2, <4>3, <4>4
    <3>4. ASSUME NEW x \in RunIds, run'[x] # "matching" PROVE batch'[x] = <<>>
      BY <2>4, <3>4, TypesNow DEF Filling
    <3> QED  BY <3>1, <3>2, <3>3, <3>4 DEF Filling
  <2>7. minted' = minted /\ late' = late /\ timers' = timers
    BY <1>1
  <2>8. /\ late' \subseteq confirming' /\ confirming' \subseteq minted' /\ timers' \subseteq minted'
    BY <2>3, <2>5, <2>7, TypesNow
  <2> QED  BY <1>1, <1>2, <1>5, <2>4, <2>6, <2>8, TypesNow, TypesKept
<1> QED  BY <1>8, <1>9

LEMMA TypeRemove == ASSUME TypeInv, NEW s \in Servers, RemoveBegin(s) \/ RemoveEnd(s) PROVE TypeInv'
<1> USE DEF storeVars, runVars, roundVars, mmcVars, clientVars
<1>1. CASE RemoveBegin(s)
  <2>1. /\ Runs(<<At(Current, "remove.lremGroup")>>) /\ Current.step = "remove.lremClient"
        /\ groupsOf' \in [Clients -> [Groups -> Nat]]
        /\ UNCHANGED <<registry, members, clientVars, runVars, roundVars, mmcVars>>
    BY <1>1, RemoveBeginDoes
  <2>2. Current \in Good
    BY <2>1, Heads, TypesNow DEF Runs, Current
  <2>3. Filling'
    <3>1. \A u \in Elements(<<At(Current, "remove.lremGroup")>>) :
             u.step # "mm.lrange" /\ u.job = Current.job /\ u.for = Current.for
      BY <2>2, AtFields, Few
    <3> QED  BY <2>1, <3>1, FillingRuns
  <2>4. WellViewed' /\ pipe' \in [Servers -> Seq(Good)]
    BY <2>1, TypesNow DEF WellViewed, Runs
  <2> QED  BY <2>1, <2>3, <2>4, TypesNow, TypesKept
<1>2. CASE RemoveEnd(s)
  <2>1. /\ Runs(Removed(Current)) /\ Current.step = "remove.lremGroup"
        /\ members' \in [Groups -> [Clients -> Nat]]
        /\ UNCHANGED <<registry, groupsOf, online, runVars, roundVars, mmcVars>>
    BY <1>2, RemoveEndDoes
  <2>2. Current \in Good
    BY <2>1, Heads, TypesNow DEF Runs, Current
  <2>3. Filling'
    <3>1. \A u \in Elements(Removed(Current)) :
             u.step # "mm.lrange" /\ u.job = Current.job /\ u.for = Current.for
      <4>1. CASE Current.job \in {"leave", "exit"}
        BY <1>2, <4>1, RemoveEndDoes, Few
      <4>2. CASE Current.job = "close"
        BY <1>2, <2>2, <4>2, RemoveEndDoes, AtFields, Few
      <4>3. CASE Current.job = "match"
        BY <1>2, <4>3, RemoveEndDoes, RoomFields, Few
      <4> QED  BY <1>2, <4>1, <4>2, <4>3, RemoveEndDoes
    <3> QED  BY <2>1, <3>1, FillingRuns
  <2>4. WellViewed'
    <3>1. view' = view \/ view' = Told("free", None, {Current.c})
      BY <1>2, RemoveEndDoes
    <3> QED  BY <3>1, TypesNow, Tells DEF WellViewed, Places, InMatch
  <2>5. pipe' \in [Servers -> Seq(Good)]
    BY <2>1 DEF Runs
  <2> QED  BY <2>1, <2>3, <2>4, <2>5, TypesNow, TypesKept
<1> QED  BY <1>1, <1>2
LEMMA TypeErase == ASSUME TypeInv, NEW s \in Servers, Erase(s) PROVE TypeInv'
<1> USE DEF storeVars, runVars, roundVars, mmcVars, clientVars
<1>1. /\ Current.step \in EraseSteps /\ Current.job \in {"heal", "disband"} /\ Current.g \in Matches
      /\ UNCHANGED <<clientVars, runVars, roundVars, mmcVars>>
  BY EraseDoes
<1>2. \/ Runs(<<>>)
      \/ \E u : (Runs(<<u>>) \/ Stays(u)) /\ u \in Good /\ u.job = Current.job /\ u.step \in EraseSteps
  BY EraseDoes DEF EraseNext, EraseSteps
<1>3. /\ registry' \subseteq Groups /\ Queue \in registry'
      /\ members' \in [Groups -> [Clients -> Nat]] /\ groupsOf' \in [Clients -> [Groups -> Nat]]
  BY EraseDoes, TypesNow, Names
<1>4. WellViewed'
  BY <1>1, TypesNow DEF WellViewed
<1>5. Filling' /\ pipe' \in [Servers -> Seq(Good)]
  <2>1. CASE Runs(<<>>)
    BY <1>1, <2>1, FillingRuns, Few DEF Runs
  <2>2. ASSUME NEW u, Runs(<<u>>), u \in Good, u.job = Current.job, u.step \in EraseSteps
        PROVE  Filling' /\ pipe' \in [Servers -> Seq(Good)]
    <3>1. \A v \in Elements(<<u>>) : v.step # "mm.lrange" /\ v.job # "match"
      BY <1>1, <2>2, Few DEF EraseSteps
    <3>2. Filling'
      BY <1>1, <2>2, <3>1, FillingRuns
    <3> QED  BY <2>2, <3>2 DEF Runs
  <2>3. ASSUME NEW u, Stays(u), u \in Good, u.job = Current.job, u.step \in EraseSteps
        PROVE  Filling' /\ pipe' \in [Servers -> Seq(Good)]
    <3>1. u.job # "match" /\ u.step # "mm.lrange"
      BY <1>1, <2>3 DEF EraseSteps
    <3>2. /\ DOMAIN Pipeline' = DOMAIN Pipeline /\ Pipeline'[1] = u
          /\ \A i \in DOMAIN Pipeline : i # 1 => Pipeline'[i] = Pipeline[i]
          /\ Queued' = {u} \cup Behind /\ Behind \subseteq Queued /\ Queued \subseteq Good
          /\ pipe' \in [Servers -> Seq(Good)]
      <4>1. Pipeline \in Seq(Good) /\ Behind \subseteq Queued
        BY <2>3, Heads, TypesNow DEF Stays
      <4>2. Queued \subseteq Good
        BY <4>1 DEF Queued
      <4> QED  BY <2>3, <4>1, <4>2 DEF Stays
    <3>3. ASSUME NEW r \in RunIds PROVE AtMostOnce(RunTasks(r))'
      <4>1. AtMostOnce(RunTasks(r)) /\ u \notin RunTasks(r)
        BY <3>1, TypesNow DEF Filling, RunTasks
      <4> QED  BY <3>2, <4>1, OnceReplaced
    <3>4. Queued' \subseteq Good /\ \A t \in Queued' : t \in Queued \/ t.job # "match"
      BY <2>3, <3>1, <3>2
    <3>5. Filling'
      BY <1>1, <3>3, <3>4, FillingKept
    <3> QED  BY <3>2, <3>5
  <2> QED  BY <1>2, <2>1, <2>2, <2>3
<1> QED  BY <1>1, <1>3, <1>4, <1>5, TypesNow, TypesKept

LEMMA TypeOther ==
    ASSUME TypeInv, NEW s \in Servers,
           CreateEntry(s) \/ CheckSize(s) \/ EraseConfirmations(s) \/ NotifyGroup(s)
    PROVE  TypeInv'
<1> USE DEF storeVars, runVars, roundVars, mmcVars, clientVars
<1>c. Current \in Good
  <2>1. \E st : Running(s, st)
    BY DEF CreateEntry, CheckSize, EraseConfirmations, NotifyGroup
  <2> QED  BY <2>1, Currently
<1>1. CASE CreateEntry(s)
  <2>1. /\ Current.step = "create.hset" /\ Current.job = "match"
        /\ Current.g \in Groups /\ Current.for = Current.g
        /\ registry' = registry \cup {Current.g}
        /\ UNCHANGED <<members, groupsOf, clientVars, runVars, roundVars, mmcVars>>
    BY <1>1, CreateDoes, Names
  <2>2. PICK f \in Seq(Good) :
           /\ Runs(f)
           /\ Elements(f) = {RoomTask("push.lrangeGroup", "match", c, Current.g, Current.g) :
                                c \in Range(lobby[Current.g])}
    BY <1>1, CreateDoes
  <2>3. \A u \in Elements(f) : u.step # "mm.lrange" /\ u.job = "match" /\ u.for = Current.g
    BY <2>2, RoomFields
  <2>4. Filling'
    BY <2>1, <2>2, <2>3, FillingRuns
  <2>5. WellViewed' /\ pipe' \in [Servers -> Seq(Good)]
    BY <2>1, <2>2, TypesNow DEF WellViewed, Runs
  <2>6. registry' \subseteq Groups /\ Queue \in registry'
    BY <2>1, TypesNow
  <2> QED  BY <2>1, <2>4, <2>5, <2>6, TypesNow, TypesKept
<1>2. CASE CheckSize(s)
  <2>1. /\ Current.job = "start" /\ Current.g \in Matches
        /\ UNCHANGED <<storeVars, clientVars, runVars, timers, mmcVars>>
    BY <1>2, CheckSizeDoes
  <2>2. Filling' /\ pipe' \in [Servers -> Seq(Good)]
    <3>1. Runs(<<>>) \/ Runs(<<At(Current, "mmc.del"), At(Current, "notify.lrange")>>)
      BY <1>2, CheckSizeDoes
    <3>2. \A st : At(Current, st).step = st /\ At(Current, st).job # "match"
      BY <1>c, <2>1, AtFields
    <3>3. PICK f : Runs(f) /\ \A u \in Elements(f) : u.step # "mm.lrange" /\ u.job # "match"
      BY <3>1, <3>2, Few
    <3>4. Filling'
      BY <2>1, <3>3, FillingRuns
    <3> QED  BY <3>3, <3>4 DEF Runs
  <2>3. /\ confirming' \subseteq minted /\ late' \subseteq confirming'
        /\ verdicts' \in [Matches -> Seq({"start", "disband"})]
    <3>1. CASE ListSize(mmc[Current.g]) >= LobbySize
      <4> DEFINE g == Current.g
      <4>1. confirming' = confirming \ {g} /\ late' = late \ {g}
            /\ verdicts' = [verdicts EXCEPT ![g] = Append(@, "start")] /\ g \in Matches
        BY <1>2, <3>1, CheckSizeDoes
      <4> HIDE DEF g
      <4>2. Append(verdicts[g], "start") \in Seq({"start", "disband"})
        BY <4>1, TypesNow
      <4> QED  BY <4>1, <4>2, TypesNow
    <3>2. CASE ~(ListSize(mmc[Current.g]) >= LobbySize)
      BY <1>2, <3>2, CheckSizeDoes, TypesNow
    <3> QED  BY <3>1, <3>2
  <2>4. WellViewed'
    BY <2>1, TypesNow DEF WellViewed
  <2> QED  BY <2>1, <2>2, <2>3, <2>4, TypesNow, TypesKept
<1>3. CASE EraseConfirmations(s)
  <2>1. /\ UNCHANGED <<storeVars, clientVars, runVars, roundVars>> /\ Runs(<<>>)
        /\ Current.g \in Matches
        /\ mmc' = [mmc EXCEPT ![Current.g] = [c \in Clients |-> 0]] /\ ttl' = ttl \ {Current.g}
    BY <1>3, EraseConfirmationsDoes
  <2>2. Filling' /\ pipe' \in [Servers -> Seq(Good)] /\ WellViewed'
    BY <2>1, Few, FillingRuns, TypesNow DEF Runs, WellViewed
  <2>3. mmc' \in [Matches -> [Clients -> Nat]]
        /\ ttl' \subseteq {m \in Matches : \E c \in Clients : mmc'[m][c] > 0}
    BY <2>1, TypesNow
  <2> QED  BY <2>1, <2>2, <2>3, TypesNow, TypesKept
<1>4. CASE NotifyGroup(s)
  <2>1. UNCHANGED <<storeVars, online, runVars, roundVars, mmcVars>> /\ Runs(<<>>)
    BY <1>4, NotifyDoes
  <2>2. Filling' /\ pipe' \in [Servers -> Seq(Good)]
    BY <2>1, Few, FillingRuns DEF Runs
  <2>3. WellViewed'
    <3>1. CASE Current.job = "found"
      <4>1. Current.g \in Matches /\ view' = Told("found", Current.g, MembersOf(Current.g) \cap online)
        BY <1>4, <3>1, NotifyDoes
      <4> QED  BY <4>1, Tells DEF Places, InMatch
    <3>2. CASE Current.job = "start"
      <4>1. Current.g \in Matches /\ view' = Told("playing", Current.g, MembersOf(Current.g) \cap online)
        BY <1>4, <3>2, NotifyDoes
      <4> QED  BY <4>1, Tells DEF Places, InMatch
    <3>3. CASE Current.job = "disband"
      <4>1. view' = Told("free", None, {c \in MembersOf(Current.g) \cap online : view[c].m = Current.g})
        BY <1>4, <3>3, NotifyDoes
      <4> QED  BY <4>1, Tells DEF Places, InMatch
    <3>4. CASE Current.job \notin {"found", "start", "disband"}
      BY <1>4, <3>4, NotifyDoes, TypesNow DEF WellViewed
    <3> QED  BY <3>1, <3>2, <3>3, <3>4
  <2> QED  BY <2>1, <2>2, <2>3, TypesNow, TypesKept
<1> QED  BY <1>1, <1>2, <1>3, <1>4

LEMMA TypeServer == ASSUME TypeInv, NEW s \in Servers, ServerStep(s) PROVE TypeInv'
BY TypeRequest, TypeQueueCut, TypePush, TypeRemove, TypeErase, TypeOther
   DEF ServerStep, IntervalStep

LEMMA TypeInterval ==
    ASSUME TypeInv,
           \/ \E r \in RunIds : Tick(r) \/ ConfirmRound(r)
           \/ \E m \in Matches : DisbandTimer(m) \/ TwoMinutes(m) \/ ExpireKey(m)
    PROVE  TypeInv'
<1> USE DEF storeVars, runVars, roundVars, mmcVars, clientVars
<1>p. Pipeline \in Seq(Good) /\ Queued \subseteq Good
  <2>1. Pipeline \in Seq(Good)
    BY TypesNow, OneServer DEF Pipeline
  <2> QED  BY <2>1 DEF Queued
<1>o. ASSUME NEW f \in Seq(Good), Adds(f), NEW x \in RunIds, Elements(f) \cap RunTasks(x) = {}
      PROVE  AtMostOnce(RunTasks(x))'
  <2>1. AtMostOnce(RunTasks(x))
    BY TypesNow DEF Filling
  <2>2. \A i, j \in DOMAIN f : f[i] \in RunTasks(x) /\ f[j] \in RunTasks(x) => i = j
    BY <1>o DEF Elements
  <2> QED  BY <1>o, <1>p, <2>1, <2>2, OnceMore DEF Adds
<1>1. ASSUME NEW r \in RunIds, Tick(r) PROVE TypeInv'
  <2> DEFINE u == RoomTask("mm.lrange", "match", None, Queue, r)
  <2>1. /\ run[r] = "idle" /\ run' = [run EXCEPT ![r] = "matching"]
        /\ u \in Good /\ Adds(<<u>>) /\ Elements(<<u>>) = {u}
        /\ UNCHANGED <<storeVars, clientVars, minted, lobby, batch, roundVars, mmcVars>>
    BY <1>1, TickDoes
  <2>2. u.step = "mm.lrange" /\ u.for = r /\ u.job = "match"
    BY RoomFields
  <2> HIDE DEF u
  <2>3. /\ Queued' = Queued \cup {u} /\ Pipeline' = Pipeline \o <<u>> /\ <<u>> \in Seq(Good)
        /\ pipe' \in [Servers -> Seq(Good)]
    BY <2>1 DEF Adds
  <2>4. run' \in [RunIds -> {"idle", "matching", "pausing"}]
        /\ \A x \in RunIds : run'[x] = IF x = r THEN "matching" ELSE run[x]
    BY <1>1, <2>1, TypesNow
  <2>5. \A t \in Queued : t.step = "mm.lrange" => t.for # r
    <3> SUFFICES ASSUME NEW t \in Queued, t.step = "mm.lrange", t.for = r PROVE FALSE
      OBVIOUS
    <3>1. run[t.for] = "matching"
      BY TypesNow DEF Filling
    <3> QED  BY <2>1, <3>1
  <2>6. Filling'
    <3>1. ASSUME NEW x \in RunIds PROVE AtMostOnce(RunTasks(x))'
      <4>1. CASE x # r
        <5>1. Elements(<<u>>) \cap RunTasks(x) = {}
          BY <2>1, <2>2, <4>1 DEF RunTasks
        <5> QED  BY <1>o, <2>1, <2>3, <5>1
      <4>2. CASE x = r
        <5>1. Queued \cap RunTasks(x) = {} /\ AtMostOnce(RunTasks(x))
          BY <2>5, <4>2, TypesNow DEF RunTasks, Filling
        <5> QED  BY <1>p, <2>3, <5>1, OneMore, OnceMore
      <4> QED  BY <4>1, <4>2
    <3>2. ASSUME NEW t \in Queued', t.job = "match", t.step # "mm.lrange"
          PROVE  \E x \in RunIds : t.for \in Range(batch'[x])
      BY <2>1, <2>2, <2>3, <3>2, TypesNow DEF Filling
    <3>3. ASSUME NEW t \in Queued', t.step = "mm.lrange"
          PROVE  run'[t.for] = "matching" /\ batch'[t.for] = <<>>
      <4>1. CASE t = u
        <5>1. batch[r] = <<>>
          BY <2>1, TypesNow DEF Filling
        <5> QED  BY <1>1, <2>1, <2>2, <2>4, <4>1, <5>1
      <4>2. CASE t # u
        <5>1. t \in Queued /\ t \in Good
          BY <1>p, <2>3, <4>2
        <5>2. t.for \in RunIds
          <6>1. t.job = "match" /\ Fits(t.job, "mm.lrange", t.c, t.g, t.for)
            BY <3>3, <5>1, Kinds
          <6> QED  BY <6>1 DEF Fits, RemoveSteps, PushSteps
        <5> QED  BY <2>1, <2>4, <2>5, <3>3, <5>1, <5>2, TypesNow DEF Filling
      <4> QED  BY <4>1, <4>2
    <3>4. ASSUME NEW x \in RunIds, run'[x] # "matching" PROVE batch'[x] = <<>>
      BY <2>1, <2>4, <3>4, TypesNow DEF Filling
    <3> QED  BY <3>1, <3>2, <3>3, <3>4 DEF Filling
  <2>7. WellViewed'
    BY <2>1, TypesNow DEF WellViewed
  <2> QED  BY <2>1, <2>3, <2>4, <2>6, <2>7, TypesNow, TypesKept
<1>2. ASSUME NEW r \in RunIds, ConfirmRound(r) PROVE TypeInv'
  <2>1. PICK f \in Seq(Good) :
           Adds(f) /\ Elements(f) = {Round(m) : m \in confirming} \cup {Telling(m) : m \in ToTell}
    BY <1>2, RoundDoes
  <2>2. /\ run[r] = "pausing" /\ run' = [run EXCEPT ![r] = "idle"]
        /\ confirming' = confirming \ late /\ late' = {} /\ timers' = timers \cup late
        /\ verdicts' \in [Matches -> Seq({"start", "disband"})]
        /\ UNCHANGED <<storeVars, clientVars, minted, lobby, batch, mmcVars>>
    BY <1>2, RoundDoes
  <2>3. \A u \in Elements(f) : u.job # "match" /\ u.step # "mm.lrange"
    BY <2>1, RoomFields DEF Round, Telling
  <2>4. /\ Queued' = Queued \cup Elements(f) /\ pipe' \in [Servers -> Seq(Good)]
    BY <2>1 DEF Adds
  <2>5. run' \in [RunIds -> {"idle", "matching", "pausing"}]
        /\ \A x \in RunIds : run'[x] = IF x = r THEN "idle" ELSE run[x]
    BY <1>2, <2>2, TypesNow
  <2>6. Filling'
    <3>1. ASSUME NEW x \in RunIds PROVE AtMostOnce(RunTasks(x))'
      <4>1. Elements(f) \cap RunTasks(x) = {}
        BY <2>3 DEF RunTasks
      <4> QED  BY <1>o, <2>1, <4>1
    <3>2. ASSUME NEW t \in Queued', t.job = "match", t.step # "mm.lrange"
          PROVE  \E x \in RunIds : t.for \in Range(batch'[x])
      BY <2>2, <2>3, <2>4, <3>2, TypesNow DEF Filling
    <3>3. ASSUME NEW t \in Queued', t.step = "mm.lrange"
          PROVE  run'[t.for] = "matching" /\ batch'[t.for] = <<>>
      <4>1. t \in Queued /\ t \in Good
        BY <1>p, <2>3, <2>4, <3>3
      <4>2. t.for \in RunIds
        <5>1. t.job = "match" /\ Fits(t.job, "mm.lrange", t.c, t.g, t.for)
          BY <3>3, <4>1, Kinds
        <5> QED  BY <5>1 DEF Fits, RemoveSteps, PushSteps
      <4>3. run[t.for] = "matching" /\ batch[t.for] = <<>>
        BY <3>3, <4>1, TypesNow DEF Filling
      <4> QED  BY <2>2, <2>5, <4>2, <4>3
    <3>4. ASSUME NEW x \in RunIds, run'[x] # "matching" PROVE batch'[x] = <<>>
      BY <2>2, <2>5, <3>4, TypesNow DEF Filling
    <3> QED  BY <3>1, <3>2, <3>3, <3>4 DEF Filling
  <2>7. WellViewed'
    BY <2>2, TypesNow DEF WellViewed
  <2>8. late' \subseteq confirming' /\ confirming' \subseteq minted' /\ timers' \subseteq minted'
    BY <2>2, TypesNow
  <2> QED  BY <2>2, <2>4, <2>5, <2>6, <2>7, <2>8, TypesNow, TypesKept
<1>3. ASSUME NEW m \in Matches, DisbandTimer(m) PROVE TypeInv'
  <2> DEFINE u == RoomTask("erase.lrangeGroup", "disband", None, m, None)
  <2>1. /\ m \in timers /\ timers' = timers \ {m}
        /\ u \in Good /\ Adds(<<u>>) /\ Elements(<<u>>) = {u}
        /\ UNCHANGED <<storeVars, clientVars, runVars, confirming, late, verdicts, mmcVars>>
    BY <1>3, TimerDoes
  <2>2. u.step # "mm.lrange" /\ u.job # "match"
    BY RoomFields
  <2> HIDE DEF u
  <2>3. Filling'
    <3>1. Queued' = Queued \cup {u} /\ <<u>> \in Seq(Good)
      BY <2>1 DEF Adds
    <3>2. ASSUME NEW x \in RunIds PROVE AtMostOnce(RunTasks(x))'
      <4>1. Elements(<<u>>) \cap RunTasks(x) = {}
        BY <2>1, <2>2 DEF RunTasks
      <4> QED  BY <1>o, <2>1, <3>1, <4>1
    <3>3. Queued' \subseteq Good /\ \A t \in Queued' : t \in Queued \/ t.job # "match"
      BY <1>p, <2>1, <2>2, <3>1
    <3> QED  BY <2>1, <3>2, <3>3, FillingKept
  <2>4. WellViewed' /\ pipe' \in [Servers -> Seq(Good)]
    BY <2>1, TypesNow DEF WellViewed, Adds
  <2>5. timers' \subseteq minted'
    BY <2>1, TypesNow
  <2> QED  BY <2>1, <2>3, <2>4, <2>5, TypesNow, TypesKept
<1>4. ASSUME UNCHANGED <<storeVars, pipe, clientVars, runVars>> PROVE Filling' /\ WellViewed'
  <2>1. Queued' = Queued /\ \A x \in RunIds : AtMostOnce(RunTasks(x))' <=> AtMostOnce(RunTasks(x))
    BY <1>4 DEF Queued, Pipeline, AtMostOnce
  <2> QED  BY <1>4, <2>1, TypesNow DEF Filling, WellViewed
<1>5. ASSUME NEW m \in Matches, TwoMinutes(m) PROVE TypeInv'
  BY <1>4, <1>5, TypesNow, TypesKept DEF TwoMinutes
<1>6. ASSUME NEW m \in Matches, ExpireKey(m) PROVE TypeInv'
  <2>1. mmc' \in [Matches -> [Clients -> Nat]]
        /\ ttl' \subseteq {n \in Matches : \E c \in Clients : mmc'[n][c] > 0}
    BY <1>6, TypesNow DEF ExpireKey
  <2> QED  BY <1>4, <1>6, <2>1, TypesNow, TypesKept DEF ExpireKey
<1> QED  BY <1>1, <1>2, <1>3, <1>5, <1>6

LEMMA TypeStutter == TypeInv /\ UNCHANGED vars => TypeInv'
<1> SUFFICES ASSUME TypeInv, UNCHANGED vars PROVE TypeInv'
  OBVIOUS
<1>1. Queued' = Queued /\ \A x \in RunIds : AtMostOnce(RunTasks(x))' <=> AtMostOnce(RunTasks(x))
  BY DEF vars, Queued, Pipeline, AtMostOnce
<1> QED
  BY <1>1 DEF vars, storeVars, clientVars, runVars, roundVars, mmcVars, TypeInv, TypeOK, Filling

LEMMA TypeStep == TypeInv /\ [Next]_vars => TypeInv'
BY TypeClient, TypeServer, TypeInterval, TypeStutter DEF Next

LEMMA TypesAlways == Spec => []TypeInv
<1>1. Init => TypeInv
  BY TypeInit
<1>2. TypeInv /\ [Next]_vars => TypeInv'
  BY TypeStep
<1> QED  BY <1>1, <1>2, PTL DEF Spec

(* Type correctness of the match making, for every value of the constants. *)
THEOREM MatchMakingTypes == Spec => []TypeOK
<1>1. TypeInv => TypeOK
  BY DEF TypeInv
<1> QED  BY <1>1, TypesAlways, PTL

-------------------------------------------------------------------------------
(* Symmetry, first part: matches nobody has heard of.  A match has its id   *)
(* before its group exists; until the HSET that makes it exist has run only *)
(* the matching run itself works for it, so getGroupInstance never takes it *)
(* for a group that is gone and erases what is being filled.                *)

(* No matching run is filling m. *)
Loose(m) == \A r \in RunIds : m \notin Range(batch[r])

Begun(m) == m \in minted /\ (Loose(m) \/ m \in registry)

Births ==
    /\ \A r, q \in RunIds : r # q => Range(batch[r]) \cap Range(batch[q]) = {}
    /\ \A m \in confirming \cup timers : Loose(m)
    /\ \A t \in Queued : t.g \in Matches /\ t.step # "create.hset" => Begun(t.g)
    /\ \A t \in Queued : t.step \in EraseSteps => Loose(t.g)
    /\ \A c \in Clients : view[c].m \in Matches => Begun(view[c].m)
    /\ \A c \in Clients, m \in Matches : groupsOf[c][m] > 0 => Begun(m)

LEMMA Head1 ==
    ASSUME TypeInv, Pipeline # <<>>
    PROVE  /\ Current \in Good /\ Current \in Queued /\ Pipeline[1] = Current
           /\ Behind \subseteq Queued /\ Queued = {Current} \cup Behind /\ Queued \subseteq Good
           /\ Pipeline \in Seq(Good)
<1>1. pipe \in [Servers -> Seq(Good)]
  BY TypesNow
<1>2. Queued \subseteq Good
  BY <1>1, Heads DEF Queued
<1> QED  BY <1>1, <1>2, Heads DEF Current

(* Steps that do not touch the batches. *)
LEMMA BirthsSame ==
    ASSUME TypeInv, Births, UNCHANGED <<minted, batch>>, registry \subseteq registry',
           confirming' \subseteq confirming, \A m \in timers' : m \in timers \/ Loose(m),
           \A t \in Queued' : \/ t \in Queued
                              \/ /\ t.g \in Matches /\ t.step # "create.hset" => Begun(t.g)'
                                 /\ t.step \in EraseSteps => Loose(t.g),
           \A c \in Clients : view'[c].m \in Matches => view'[c] = view[c] \/ Begun(view'[c].m),
           \A c \in Clients, m \in Matches : groupsOf'[c][m] > 0 => groupsOf[c][m] > 0 \/ Begun(m)
    PROVE  Births'
<1>1. \A m : Loose(m)' <=> Loose(m)
  BY DEF Loose
<1>2. \A m : Begun(m) => Begun(m)'
  BY <1>1 DEF Begun
<1> QED  BY <1>1, <1>2 DEF Births

(* Commands that stay with the group of the head, or get to none. *)
LEMMA BirthsOn ==
    ASSUME TypeInv, Births, UNCHANGED <<minted, batch>>, registry \subseteq registry',
           confirming' \subseteq confirming, \A m \in timers' : m \in timers \/ Loose(m),
           NEW f, Runs(f) \/ Adds(f),
           \A u \in Elements(f) : u.g \in Matches /\ u.step # "create.hset" => Begun(u.g)',
           \A u \in Elements(f) : u.step \in EraseSteps => Loose(u.g),
           \A c \in Clients : view'[c].m \in Matches => view'[c] = view[c] \/ Begun(view'[c].m),
           \A c \in Clients, m \in Matches : groupsOf'[c][m] > 0 => groupsOf[c][m] > 0 \/ Begun(m)
    PROVE  Births'
<1>1. \A t \in Queued' : t \in Queued \/ t \in Elements(f)
  BY Head1 DEF Runs, Adds
<1>2. \A t \in Queued' : \/ t \in Queued
                         \/ /\ t.g \in Matches /\ t.step # "create.hset" => Begun(t.g)'
                            /\ t.step \in EraseSteps => Loose(t.g)
  BY <1>1
<1> QED  BY <1>2, BirthsSame

LEMMA BirthsInit == Init => Births
<1> SUFFICES ASSUME Init PROVE Births
  OBVIOUS
<1>1. \A r \in RunIds : Range(batch[r]) = {}
  BY DEF Init, Range
<1>2. Queued = {}
  BY OneServer DEF Init, Queued, Pipeline
<1>3. \A c \in Clients : view[c].m = None
  BY DEF Init, NoView
<1>4. confirming = {} /\ timers = {}
  BY DEF Init
<1>5. \A c \in Clients, m \in Matches : ~(groupsOf[c][m] > 0)
  BY Names DEF Init, EmptyGroupsOf
<1> QED  BY <1>1, <1>2, <1>3, <1>4, <1>5, Names DEF Births

(* A step that does not change the view of anybody but c.                   *)
LEMMA TellOne ==
    ASSUME NEW at, NEW cs
    PROVE  \A c \in Clients : Told(at, None, cs)[c].m \in Matches => Told(at, None, cs)[c] = view[c]
BY Names DEF Told

LEMMA BirthsClient == ASSUME TypeInv, Births, NEW c \in Clients, ClientStep(c) PROVE Births'
<1> USE DEF storeVars, runVars, roundVars, mmcVars, clientVars
<1>0. /\ UNCHANGED <<storeVars, runVars, roundVars, mmcVars>>
      /\ \E op \in Jobs, st \in Steps, g \in {Queue, None, view[c].m} :
            /\ Send(op, c, st, g)
            /\ st # "create.hset" /\ st \notin EraseSteps
  BY DEF ClientStep, Search, Leave, Confirm, Exit, Close, EraseSteps, Steps, StoreSteps, PushSteps,
         RemoveSteps, Jobs, AllOps
<1>1. \A d \in Clients : view'[d].m \in Matches => Begun(view'[d].m)
  <2>1. \A d \in Clients : view'[d].m = view[d].m \/ view'[d].m = None
    <3>1. view \in [Clients -> [at : Places, m : Matches \cup {None}]]
      BY DEF TypeInv, TypeOK
    <3>2. CASE Search(c)
      BY <3>1, <3>2 DEF Search, NoView
    <3>3. CASE Leave(c)
      BY <3>1, <3>3 DEF Leave
    <3>4. CASE Confirm(c)
      BY <3>1, <3>4 DEF Confirm
    <3>5. CASE Exit(c)
      BY <3>1, <3>5 DEF Exit
    <3>6. CASE Close(c)
      BY <3>1, <3>6 DEF Close, NoView
    <3> QED  BY <3>2, <3>3, <3>4, <3>5, <3>6 DEF ClientStep
  <2> QED  BY <2>1, Names DEF Births
<1>2. PICK op \in Jobs, st \in Steps, g \in {Queue, None, view[c].m} :
           /\ Send(op, c, st, g)
           /\ st # "create.hset" /\ st \notin EraseSteps
  BY <1>0
<1>3. PICK S : pipe \in [Servers -> Seq(S)] /\ <<RoomTask(st, op, c, g, None)>> \in Seq(S)
  <2>1. pipe \in [Servers -> Seq(Good)]
    BY TypesNow
  <2> DEFINE S == Good \cup {RoomTask(st, op, c, g, None)}
  <2>2. Seq(Good) \subseteq Seq(S)
    <3> SUFFICES ASSUME NEW q \in Seq(Good) PROVE q \in Seq(S)
      OBVIOUS
    <3>1. \A i \in 1..Len(q) : q[i] \in S
      BY ElementOfSeq
    <3> QED  BY <3>1, LenProperties
  <2>3. pipe \in [Servers -> Seq(S)]
    BY <2>1, <2>2
  <2>4. <<RoomTask(st, op, c, g, None)>> \in Seq(S)
    BY Singly
  <2> QED  BY <2>3, <2>4
<1>4. Queued' = Queued \cup {RoomTask(st, op, c, g, None)}
  <2>1. Queued' = Queued \cup Elements(<<RoomTask(st, op, c, g, None)>>)
    BY <1>2, <1>3, Issued DEF Send
  <2> QED  BY <2>1, Few
<1>5. RoomTask(st, op, c, g, None).g = g /\ RoomTask(st, op, c, g, None).step = st
  BY RoomFields
<1>6. g \in Matches => Begun(g)
  BY Names DEF Births
<1>7. Begun(g) => Begun(g)'
  BY <1>0 DEF Begun, Loose
<1>8. \A t \in Queued' : \/ t \in Queued
                         \/ /\ t.g \in Matches /\ t.step # "create.hset" => Begun(t.g)'
                            /\ t.step \in EraseSteps => Loose(t.g)
  BY <1>2, <1>4, <1>5, <1>6, <1>7
<1> QED  BY <1>0, <1>1, <1>8, BirthsSame

LEMMA BirthsRequest == ASSUME TypeInv, Births, NEW s \in Servers, RequestStep(s) PROVE Births'
<1> USE DEF storeVars, runVars, roundVars, mmcVars, clientVars
<1>1. UNCHANGED <<storeVars, online, runVars, roundVars>>
  BY SearchDoes, GetDoes, MemberDoes, ReadConfirmationsDoes, AddConfirmationDoes,
     ExpireConfirmationsDoes, CloseCheckDoes, LeaveAllDoes DEF RequestStep
<1>2. ASSUME NEW m PROVE Begun(m) => Begun(m)'
  BY <1>1 DEF Begun, Loose
<1>3. \A c \in Clients : view'[c].m \in Matches => view'[c] = view[c]
  <2>1. view' = view \/ \E at, cs : view' = Told(at, None, cs)
    BY SearchDoes, GetDoes, MemberDoes, ReadConfirmationsDoes, AddConfirmationDoes,
       ExpireConfirmationsDoes, CloseCheckDoes, LeaveAllDoes DEF RequestStep
  <2> QED  BY <2>1, TellOne
<1>4. ASSUME NEW f, Runs(f),
             \A u \in Elements(f) : u.step \notin EraseSteps /\ (u.g \in Matches => Begun(u.g))
      PROVE  Births'
  <2>1. /\ \A u \in Elements(f) : u.g \in Matches /\ u.step # "create.hset" => Begun(u.g)'
        /\ \A u \in Elements(f) : u.step \in EraseSteps => Loose(u.g)
    BY <1>2, <1>4
  <2> QED  BY <1>1, <1>3, <1>4, <2>1, BirthsOn
<1>5. ASSUME Pipeline # <<>>, Current.step # "create.hset"
      PROVE  /\ Current.g \in Matches => Begun(Current.g)
             /\ Current \in Good
  BY <1>5, Head1 DEF Births
<1>6. CASE SearchCheck(s)
  <2>1. Runs(<<At(Current, "push.lrangeGroup")>>) \/ Runs(<<>>)
    BY <1>6, SearchDoes
  <2>2. Current \in Good /\ Current.g \notin Matches
    BY <1>5, <1>6, <2>1, SearchDoes, Names DEF Runs
  <2> QED  BY <1>4, <2>1, <2>2, AtFields, Few DEF EraseSteps
<1>7. CASE Get(s)
  <2>1. /\ Current.step = "get.hget"
        /\ \/ Runs(<<At(Current, "remove.lremClient")>>)
           \/ Runs(<<At(Current, "member.lrange")>>)
           \/ Current.g \notin registry /\ Current.g \in Matches /\ Runs(<<Heal(Current)>>)
    BY <1>7, GetDoes
  <2>2. Current \in Good /\ (Current.g \in Matches => Begun(Current.g))
    BY <1>5, <2>1 DEF Runs
  <2>3. CASE \/ Runs(<<At(Current, "remove.lremClient")>>)
             \/ Runs(<<At(Current, "member.lrange")>>)
    BY <1>4, <2>2, <2>3, AtFields, Few DEF EraseSteps
  <2>4. CASE Current.g \notin registry /\ Current.g \in Matches /\ Runs(<<Heal(Current)>>)
    <3>1. Heal(Current).step = "erase.lrangeGroup" /\ Heal(Current).g = Current.g
      BY <2>1, <2>2, <2>4, HealGood
    <3>2. PICK g : g = Current.g
      OBVIOUS
    <3>3. Loose(g) /\ Begun(g)'
      <4>1. Begun(g) /\ g \notin registry
        BY <2>2, <2>4, <3>2
      <4> QED  BY <1>2, <4>1 DEF Begun
    <3>4. Elements(<<Heal(Current)>>) = {Heal(Current)} /\ Heal(Current).g = g
      BY <3>1, <3>2, Few
    <3> QED  BY <1>1, <1>3, <2>4, <3>3, <3>4, BirthsOn
  <2> QED  BY <2>1, <2>3, <2>4
<1>8. CASE MemberCheck(s)
  <2>1. /\ Current.step = "member.lrange"
        /\ \/ Runs(<<>>)
           \/ Runs(<<At(Current, "mmc.lrange"), At(Current, "mmc.expire"),
                     At(Current, "notify.lrange")>>)
           \/ Runs(<<At(Current, "remove.lremClient"), At(Current, "notify.lrange")>>)
    BY <1>8, MemberDoes
  <2>2. Current \in Good /\ (Current.g \in Matches => Begun(Current.g))
    BY <1>5, <2>1 DEF Runs
  <2> QED  BY <1>4, <2>1, <2>2, AtFields, Few DEF EraseSteps
<1>9. CASE ReadConfirmations(s)
  <2>1. Current.step = "mmc.lrange" /\ (Runs(<<>>) \/ Runs(<<At(Current, "mmc.lpush")>>))
    BY <1>9, ReadConfirmationsDoes
  <2>2. Current \in Good /\ (Current.g \in Matches => Begun(Current.g))
    BY <1>5, <2>1 DEF Runs
  <2> QED  BY <1>4, <2>1, <2>2, AtFields, Few DEF EraseSteps
<1>10. CASE AddConfirmation(s) \/ ExpireConfirmations(s)
  <2>1. Runs(<<>>)
    BY <1>10, AddConfirmationDoes, ExpireConfirmationsDoes
  <2> QED  BY <1>4, <2>1, Few
<1>11. CASE CloseCheck(s)
  <2>1. /\ Current.step = "match.lrange" /\ Current.job = "close" /\ Current.c \in Clients
        /\ \/ Runs(<<At(Current, "close.lrange")>>)
           \/ \E m \in Matches :
                 /\ groupsOf[Current.c][m] = 1
                 /\ Runs(<<At(Current, "close.lrange"),
                           RoomTask("notify.lrange", "exit", Current.c, m, None)>>)
    BY <1>11, CloseCheckDoes
  <2>2. Current \in Good /\ (Current.g \in Matches => Begun(Current.g))
    BY <1>5, <2>1 DEF Runs
  <2>3. CASE Runs(<<At(Current, "close.lrange")>>)
    BY <1>4, <2>2, <2>3, AtFields, Few DEF EraseSteps
  <2>4. ASSUME NEW m \in Matches, groupsOf[Current.c][m] = 1,
               Runs(<<At(Current, "close.lrange"),
                      RoomTask("notify.lrange", "exit", Current.c, m, None)>>)
        PROVE  Births'
    <3>1. Begun(m)
      BY <2>1, <2>4 DEF Births
    <3> DEFINE u == RoomTask("notify.lrange", "exit", Current.c, m, None)
    <3>2. u.g = m /\ u.step = "notify.lrange"
      BY RoomFields
    <3>3. At(Current, "close.lrange").g = Current.g /\ At(Current, "close.lrange").step = "close.lrange"
      BY <2>2, AtFields
    <3>4. Elements(<<At(Current, "close.lrange"), u>>) = {At(Current, "close.lrange"), u}
      BY Few
    <3> HIDE DEF u
    <3>5. \A v \in Elements(<<At(Current, "close.lrange"), u>>) :
             v.step \notin EraseSteps /\ (v.g \in Matches => Begun(v.g))
      BY <2>2, <3>1, <3>2, <3>3, <3>4 DEF EraseSteps
    <3> QED  BY <1>4, <2>4, <3>5 DEF u
  <2> QED  BY <2>1, <2>3, <2>4
<1>12. CASE LeaveAllGroups(s)
  <2>1. /\ Current.c \in Clients
        /\ \E f \in Seq(Good) :
              /\ Runs(f)
              /\ Elements(f) = {RoomTask("get.hget", "close", Current.c, g, None) :
                                   g \in GroupsOfClient(Current.c)}
    BY <1>12, LeaveAllDoes
  <2>2. PICK f \in Seq(Good) :
              /\ Runs(f)
              /\ Elements(f) = {RoomTask("get.hget", "close", Current.c, g, None) :
                                   g \in GroupsOfClient(Current.c)}
    BY <2>1
  <2>3. \A u \in Elements(f) : /\ u.step = "get.hget"
                               /\ u.g \in Groups /\ groupsOf[Current.c][u.g] > 0
    BY <2>2, RoomFields DEF GroupsOfClient
  <2> QED  BY <1>4, <2>1, <2>2, <2>3 DEF Births, EraseSteps
<1> QED  BY <1>6, <1>7, <1>8, <1>9, <1>10, <1>11, <1>12 DEF RequestStep

(* Steps of the pipeline that are not the matching run's. *)
LEMMA BirthsOther ==
    ASSUME TypeInv, Births, NEW s \in Servers,
           CheckSize(s) \/ EraseConfirmations(s) \/ NotifyGroup(s) \/ RemoveBegin(s) \/ RemoveEnd(s)
    PROVE  Births'
<1> USE DEF storeVars, runVars, roundVars, mmcVars, clientVars
<1>1. /\ UNCHANGED <<registry, minted, batch, timers>> /\ confirming' \subseteq confirming
      /\ Pipeline # <<>>
      /\ Current.step \in {"mmc.llen", "mmc.del", "notify.lrange"} \cup RemoveSteps
  BY CheckSizeDoes, EraseConfirmationsDoes, NotifyDoes, RemoveBeginDoes, RemoveEndDoes
     DEF Runs, RemoveSteps
<1>2. Current \in Good /\ (Current.g \in Matches => Begun(Current.g))
  BY <1>1, Head1 DEF Births, RemoveSteps
<1>3. ASSUME NEW m PROVE Begun(m) => Begun(m)'
  BY <1>1 DEF Begun, Loose
<1>4. \A c \in Clients : view'[c].m \in Matches => view'[c] = view[c] \/ Begun(view'[c].m)
  <2>1. view' = view \/ \E at, cs : view' = Told(at, None, cs) \/ view' = Told(at, Current.g, cs)
    BY CheckSizeDoes, EraseConfirmationsDoes, NotifyDoes, RemoveBeginDoes, RemoveEndDoes
  <2>2. CASE \E at, cs : view' = Told(at, None, cs)
    BY <2>2, TellOne
  <2>3. CASE \E at, cs : view' = Told(at, Current.g, cs)
    BY <1>2, <2>3 DEF Told
  <2> QED  BY <2>1, <2>2, <2>3
<1>5. \A c \in Clients, m \in Matches : groupsOf'[c][m] > 0 => groupsOf[c][m] > 0
  <2>1. CASE RemoveBegin(s)
    <3>1. \A c \in Clients, g \in Groups :
             groupsOf'[c][g] = IF c = Current.c /\ g = Current.g THEN 0 ELSE groupsOf[c][g]
      BY <2>1, RemoveBeginDoes
    <3> QED  BY <3>1, Names
  <2>2. CASE ~RemoveBegin(s)
    BY <2>2, CheckSizeDoes, EraseConfirmationsDoes, NotifyDoes, RemoveEndDoes
  <2> QED  BY <2>1, <2>2
<1>6. ASSUME NEW f, Runs(f),
             \A u \in Elements(f) : (u.g = Current.g /\ u.step \notin EraseSteps) \/ u.step = "create.hset"
      PROVE  Births'
  <2>1. /\ \A u \in Elements(f) : u.g \in Matches /\ u.step # "create.hset" => Begun(u.g)'
        /\ \A u \in Elements(f) : u.step \in EraseSteps => Loose(u.g)
    BY <1>2, <1>3, <1>6 DEF EraseSteps
  <2> QED  BY <1>1, <1>4, <1>5, <1>6, <2>1, BirthsOn
<1>7. CASE CheckSize(s)
  <2>1. Runs(<<At(Current, "mmc.del"), At(Current, "notify.lrange")>>) \/ Runs(<<>>)
    BY <1>7, CheckSizeDoes
  <2> QED  BY <1>2, <1>6, <2>1, AtFields, Few DEF EraseSteps
<1>8. CASE EraseConfirmations(s) \/ NotifyGroup(s)
  <2>1. Runs(<<>>)
    BY <1>8, EraseConfirmationsDoes, NotifyDoes
  <2> QED  BY <1>6, <2>1, Few
<1>9. CASE RemoveBegin(s)
  <2>1. Runs(<<At(Current, "remove.lremGroup")>>)
    BY <1>9, RemoveBeginDoes
  <2> QED  BY <1>2, <1>6, <2>1, AtFields, Few DEF EraseSteps
<1>10. CASE RemoveEnd(s)
  <2>1. /\ Runs(Removed(Current))
        /\ \/ Removed(Current) = <<>>
           \/ Removed(Current) = <<At(Current, "notify.lrange")>>
           \/ Removed(Current) = <<RoomTask("create.hset", "match", None, Current.for, Current.for)>>
    BY <1>10, RemoveEndDoes
  <2>2. \A u \in Elements(Removed(Current)) :
           (u.g = Current.g /\ u.step \notin EraseSteps) \/ u.step = "create.hset"
    BY <1>2, <2>1, AtFields, RoomFields, Few DEF EraseSteps
  <2> QED  BY <1>6, <2>1, <2>2
<1> QED  BY <1>7, <1>8, <1>9, <1>10

(* The part of it that is about the run, not about whom it takes.            *)
LEMMA QueueCutBriefly ==
    ASSUME TypeInv, NEW s \in Servers, MatchQueue(s)
    PROVE  /\ Current.step = "mm.lrange" /\ Current.for \in RunIds
           /\ UNCHANGED <<storeVars, clientVars, roundVars, mmcVars>>
           /\ \E new \in SUBSET (Matches \ minted), ids \in Seq(Matches), f \in Seq(Good) :
                 /\ Runs(f) /\ Range(ids) = new
                 /\ \A t \in Elements(f) : t.g = Queue /\ t.step = "remove.lremClient"
                                           /\ t.job = "match" /\ t.for \in new
                 /\ batch' = [batch EXCEPT ![Current.for] = ids]
                 /\ minted' = minted \cup new
                 /\ run' = IF new = {} THEN [run EXCEPT ![Current.for] = "pausing"] ELSE run
<1>1. PICK new \in SUBSET (Matches \ minted), ids \in Seq(Matches), f \in Seq(Good) :
         /\ Runs(f) /\ Range(ids) = new
         /\ \A t \in Elements(f) :
               \E m \in new : \E c \in Elements(lobby'[m]) :
                  t = RoomTask("remove.lremClient", "match", c, Queue, m)
         /\ batch' = [batch EXCEPT ![Current.for] = ids]
         /\ minted' = minted \cup new
         /\ run' = IF new = {} THEN [run EXCEPT ![Current.for] = "pausing"] ELSE run
  BY QueueCut
<1>2. \A t \in Elements(f) : t.g = Queue /\ t.step = "remove.lremClient"
                             /\ t.job = "match" /\ t.for \in new
  BY <1>1, RoomFields
<1>3. /\ Runs(f) /\ Range(ids) = new
      /\ batch' = [batch EXCEPT ![Current.for] = ids]
      /\ minted' = minted \cup new
      /\ run' = IF new = {} THEN [run EXCEPT ![Current.for] = "pausing"] ELSE run
  BY <1>1
<1>4. /\ Current.step = "mm.lrange" /\ Current.for \in RunIds
      /\ UNCHANGED <<storeVars, clientVars, roundVars, mmcVars>>
  BY QueueCut
<1> QED  BY <1>2, <1>3, <1>4

LEMMA BirthsQueueCut == ASSUME TypeInv, Births, NEW s \in Servers, MatchQueue(s) PROVE Births'
<1> USE DEF storeVars, runVars, roundVars, mmcVars, clientVars
<1>1. /\ Current.step = "mm.lrange" /\ Current.for \in RunIds
      /\ UNCHANGED <<storeVars, clientVars, roundVars, mmcVars>>
  BY QueueCutBriefly
<1>2. PICK new \in SUBSET (Matches \ minted), ids \in Seq(Matches), f \in Seq(Good) :
         /\ Runs(f) /\ Range(ids) = new
         /\ \A t \in Elements(f) : t.g = Queue /\ t.step = "remove.lremClient"
                                   /\ t.job = "match" /\ t.for \in new
         /\ batch' = [batch EXCEPT ![Current.for] = ids]
         /\ minted' = minted \cup new
         /\ run' = IF new = {} THEN [run EXCEPT ![Current.for] = "pausing"] ELSE run
  BY QueueCutBriefly
<1>3. batch[Current.for] = <<>>
  BY <1>1, <1>2, Head1, TypesNow DEF Runs, Filling
<1>4. DOMAIN batch = RunIds /\ \A r \in RunIds : Range(batch[r]) \subseteq minted
  <2>1. batch \in [RunIds -> Seq(minted)]
    BY TypesNow
  <2> QED  BY <2>1 DEF Range
<1>5. \A r \in RunIds : Range(batch'[r]) = IF r = Current.for THEN new ELSE Range(batch[r])
  BY <1>2, <1>4
<1>6. Range(batch[Current.for]) = {}
  BY <1>3 DEF Range
<1>7. \A r, p \in RunIds : r # p => Range(batch'[r]) \cap Range(batch'[p]) = {}
  BY <1>4, <1>5 DEF Births
<1>8. \A m \in minted : Loose(m) => Loose(m)'
  BY <1>5 DEF Loose
<1>9. \A m : Begun(m) => Begun(m)'
  BY <1>1, <1>2, <1>8 DEF Begun
<1>10. \A t \in Queued' : t \in Queued \/ (t.g = Queue /\ t.step = "remove.lremClient")
  <2>1. \A t \in Elements(f) : t.g = Queue /\ t.step = "remove.lremClient"
    BY <1>2
  <2> QED  BY <1>2, <2>1, Head1 DEF Runs
<1>11. /\ \A t \in Queued' : t.g \in Matches /\ t.step # "create.hset" => Begun(t.g)'
       /\ \A t \in Queued' : t.step \in EraseSteps => Loose(t.g)'
  <2>1. ASSUME NEW t \in Queued', t.g \in Matches, t.step # "create.hset" PROVE Begun(t.g)'
    <3>1. t \in Queued
      BY <1>10, <2>1, Names
    <3> QED  BY <1>9, <2>1, <3>1 DEF Births
  <2>2. ASSUME NEW t \in Queued', t.step \in EraseSteps PROVE Loose(t.g)'
    <3>1. t \in Queued
      BY <1>10, <2>2 DEF EraseSteps
    <3>2. t \in Good
      BY <3>1, <1>2, Head1 DEF Runs
    <3>3. t.g \in Matches /\ t.step # "create.hset"
      BY <2>2, <3>2, Kinds DEF EraseSteps, Fits
    <3>4. t.g \in minted /\ Loose(t.g)
      BY <2>2, <3>1, <3>3 DEF Births, Begun
    <3> QED  BY <1>8, <3>4
  <2> QED  BY <2>1, <2>2
<1>12. \A m \in confirming' \cup timers' : Loose(m)'
  <2>1. \A m \in confirming \cup timers : m \in minted /\ Loose(m)
    BY TypesNow DEF Births
  <2> QED  BY <1>1, <1>8, <2>1
<1>13. /\ \A c \in Clients : view'[c].m \in Matches => Begun(view[c].m)'
       /\ \A c \in Clients, m \in Matches : groupsOf'[c][m] > 0 => Begun(m)'
  <2>1. \A c \in Clients : view[c].m \in Matches => \E m : m = view[c].m /\ Begun(m)
    BY DEF Births
  <2>2. \A c \in Clients : view'[c].m \in Matches => \E m : m = view'[c].m /\ Begun(m)'
    BY <1>1, <1>9, <2>1
  <2> QED  BY <1>1, <1>9, <2>2 DEF Births
<1> QED  BY <1>7, <1>11, <1>12, <1>13 DEF Births

LEMMA BirthsCreate == ASSUME TypeInv, Births, NEW s \in Servers, CreateEntry(s) PROVE Births'
<1> USE DEF storeVars, runVars, roundVars, mmcVars, clientVars
<1>1. /\ Current.step = "create.hset" /\ Current.job = "match"
      /\ Current.g \in Matches /\ Current.for = Current.g
      /\ registry' = registry \cup {Current.g}
      /\ UNCHANGED <<members, groupsOf, clientVars, runVars, roundVars, mmcVars>>
  BY CreateDoes
<1>2. PICK f \in Seq(Good) :
         /\ Runs(f)
         /\ Elements(f) = {RoomTask("push.lrangeGroup", "match", c, Current.g, Current.g) :
                              c \in Range(lobby[Current.g])}
  BY CreateDoes
<1>3. PICK g : g = Current.g
  OBVIOUS
<1>4. Begun(g)'
  <2>1. Current \in Queued
    BY <1>2, Head1 DEF Runs
  <2>2. \E r \in RunIds : g \in Range(batch[r])
    BY <1>1, <1>3, <2>1, TypesNow DEF Filling
  <2>3. g \in minted
    <3>1. batch \in [RunIds -> Seq(minted)]
      BY TypesNow
    <3> QED  BY <2>2, <3>1 DEF Range
  <2> QED  BY <1>1, <1>3, <2>3 DEF Begun
<1>5. \A u \in Elements(f) : u.g = g /\ u.step = "push.lrangeGroup"
  BY <1>2, <1>3, RoomFields
<1>6. /\ \A u \in Elements(f) : u.g \in Matches /\ u.step # "create.hset" => Begun(u.g)'
      /\ \A u \in Elements(f) : u.step \in EraseSteps => Loose(u.g)
  BY <1>4, <1>5 DEF EraseSteps
<1> QED  BY <1>1, <1>2, <1>6, BirthsOn

LEMMA BirthsPush == ASSUME TypeInv, Births, NEW s \in Servers, Push(s) PROVE Births'
<1> USE DEF storeVars, runVars, roundVars, mmcVars, clientVars
<1>1. /\ Pipeline # <<>> /\ Current.step \in PushSteps /\ Current.c \in Clients
      /\ Current.g \in Groups
      /\ UNCHANGED <<registry, clientVars, minted, lobby, late, timers, verdicts, mmcVars>>
  BY PushDoes DEF Runs
<1>2. Current \in Good /\ Current \in Queued /\ Behind \subseteq Queued
  BY <1>1, Head1
<1>3. Current.g \in Matches => Begun(Current.g)
  BY <1>1, <1>2 DEF Births, PushSteps
<1>4. \A c \in Clients, m \in Matches : groupsOf'[c][m] > 0 => groupsOf[c][m] > 0 \/ Begun(m)
  <2>1. CASE UNCHANGED groupsOf
    BY <2>1
  <2>2. CASE \A c \in Clients, g \in Groups :
                groupsOf'[c][g] = IF c = Current.c /\ g = Current.g
                                  THEN groupsOf[c][g] + 1 ELSE groupsOf[c][g]
    BY <1>3, <2>2, Names
  <2> QED  BY <2>1, <2>2, PushDoes
<1>5. ASSUME UNCHANGED <<minted, batch, confirming>>, NEW st, Runs(<<At(Current, st)>>),
             st \in PushSteps
      PROVE  Births'
  <2>1. \A m : Begun(m) => Begun(m)'
    BY <1>1, <1>5 DEF Begun, Loose
  <2>2. \A u \in Elements(<<At(Current, st)>>) : u.g = Current.g /\ u.step = st
    BY <1>2, AtFields, Few
  <2>3. /\ \A u \in Elements(<<At(Current, st)>>) : u.g \in Matches /\ u.step # "create.hset" => Begun(u.g)'
        /\ \A u \in Elements(<<At(Current, st)>>) : u.step \in EraseSteps => Loose(u.g)
    BY <1>3, <1>5, <2>1, <2>2 DEF EraseSteps, PushSteps
  <2> QED  BY <1>1, <1>4, <1>5, <2>3, BirthsOn
<1>6. ASSUME UNCHANGED <<minted, batch, confirming>>, Runs(<<>>)
      PROVE  Births'
  BY <1>1, <1>4, <1>6, BirthsOn, Few
<1>7. CASE ~Ends(Current)
  <2>1. UNCHANGED <<minted, batch, confirming>>
    BY <1>7, PushDoes
  <2>2. \E st \in PushSteps : Runs(<<At(Current, st)>>)
    BY <1>7, PushDoes DEF PushSteps
  <2> QED  BY <1>5, <2>1, <2>2
<1>8. CASE Ends(Current) /\ ~AllPushed(Current)
  <2>1. UNCHANGED <<minted, batch, confirming>> /\ Runs(Pushed(Current))
    BY <1>8, PushDoes
  <2>2. Pushed(Current) = <<>>
    BY <1>1, <1>2, <1>8, PushedGood
  <2> QED  BY <1>6, <2>1, <2>2
<1>9. CASE Ends(Current) /\ AllPushed(Current)
  <2>1. PICK r : r = RunOf(Current)
    OBVIOUS
  <2>2. /\ r \in RunIds
        /\ Elements(Pushed(Current)) = {RoomTask("notify.lrange", "found", None, m, None) :
                                           m \in Range(batch[r])}
    BY <1>1, <1>2, <1>9, <2>1, PushedGood
  <2>3. /\ confirming' = confirming \cup Range(batch[r]) /\ batch' = [batch EXCEPT ![r] = <<>>]
        /\ Runs(Pushed(Current))
    BY <1>9, <2>1, PushDoes
  <2>4. batch \in [RunIds -> Seq(minted)] /\ DOMAIN batch = RunIds
    BY TypesNow
  <2>5. \A p \in RunIds : Range(batch'[p]) = IF p = r THEN {} ELSE Range(batch[p])
    BY <2>3, <2>4 DEF Range
  <2>6. \A m : Loose(m) => Loose(m)'
    BY <2>5 DEF Loose
  <2>7. \A m : Begun(m) => Begun(m)'
    BY <1>1, <2>6 DEF Begun
  <2>8. \A m \in Range(batch[r]) : m \in minted /\ Loose(m)'
    <3>1. Range(batch[r]) \subseteq minted
      BY <2>2, <2>4 DEF Range
    <3> QED  BY <2>2, <2>5, <3>1 DEF Births, Loose
  <2>9. \A m \in Range(batch[r]) : Begun(m)'
    BY <1>1, <2>8 DEF Begun
  <2>10. \A t \in Queued' : \/ t \in Queued
                            \/ t.step = "notify.lrange" /\ t.g \in Range(batch[r])
    <3>1. \A t \in Elements(Pushed(Current)) : t.step = "notify.lrange" /\ t.g \in Range(batch[r])
      BY <2>2, RoomFields
    <3> QED  BY <1>2, <2>3, <3>1 DEF Runs
  <2>11. \A t \in Queued' : t.g \in Matches /\ t.step # "create.hset" => Begun(t.g)'
    BY <2>7, <2>9, <2>10 DEF Births
  <2>12. \A t \in Queued' : t.step \in EraseSteps => Loose(t.g)'
    BY <2>6, <2>10 DEF Births, EraseSteps
  <2>13. \A m \in confirming' \cup timers' : Loose(m)'
    BY <1>1, <2>3, <2>6, <2>8 DEF Births
  <2>14. \A c \in Clients : view'[c].m \in Matches => \E m : m = view'[c].m /\ Begun(m)'
    BY <1>1, <2>7 DEF Births
  <2>15. \A c \in Clients, m \in Matches : groupsOf'[c][m] > 0 => Begun(m)'
    BY <1>4, <2>7 DEF Births
  <2>16. \A q, p \in RunIds : q # p => Range(batch'[q]) \cap Range(batch'[p]) = {}
    BY <2>5 DEF Births
  <2> QED  BY <2>11, <2>12, <2>13, <2>14, <2>15, <2>16 DEF Births
<1> QED  BY <1>7, <1>8, <1>9

LEMMA BirthsErase == ASSUME TypeInv, Births, NEW s \in Servers, Erase(s) PROVE Births'
<1> USE DEF storeVars, runVars, roundVars, mmcVars, clientVars
<1>1. /\ Current.step \in EraseSteps /\ Current.g \in Matches
      /\ UNCHANGED <<clientVars, runVars, roundVars, mmcVars>>
      /\ registry' = registry \/ registry' = registry \ {Current.g}
  BY EraseDoes
<1>2. \/ Runs(<<>>)
      \/ \E u : (Runs(<<u>>) \/ Stays(u)) /\ u.g = Current.g /\ u.step \in EraseSteps
  BY EraseDoes DEF EraseNext, EraseSteps
<1>3. Current \in Queued /\ Behind \subseteq Queued
  BY <1>2, Head1 DEF Runs, Stays
<1>4. Loose(Current.g)
  BY <1>1, <1>3 DEF Births
<1>5. \A m : Loose(m) <=> Loose(m)'
  BY <1>1 DEF Loose
<1>6. \A m : Begun(m) => Begun(m)'
  BY <1>1, <1>4, <1>5 DEF Begun
<1>7. Begun(Current.g)
  BY <1>1, <1>3 DEF Births, EraseSteps
<1>8. \A t \in Queued' : t \in Queued \/ t.g = Current.g
  <2>1. \/ Queued' = Behind
        \/ \E u : Queued' = Behind \cup {u} /\ u.g = Current.g
    <3>1. CASE Runs(<<>>)
      BY <3>1, Few DEF Runs
    <3>2. ASSUME NEW u, Runs(<<u>>), u.g = Current.g
          PROVE  \E v : Queued' = Behind \cup {v} /\ v.g = Current.g
      <4>1. Queued' = Behind \cup {u}
        BY <3>2, Few DEF Runs
      <4> QED  BY <3>2, <4>1
    <3>3. ASSUME NEW u, Stays(u), u.g = Current.g
          PROVE  \E v : Queued' = Behind \cup {v} /\ v.g = Current.g
      <4>1. Queued' = Behind \cup {u}
        BY <3>3 DEF Stays
      <4> QED  BY <3>3, <4>1
    <3> QED  BY <1>2, <3>1, <3>2, <3>3
  <2> QED  BY <1>3, <2>1
<1>9. \A t \in Queued' : t.g \in Matches /\ t.step # "create.hset" => Begun(t.g)'
  BY <1>6, <1>7, <1>8 DEF Births
<1>10. \A t \in Queued' : t.step \in EraseSteps => Loose(t.g)'
  BY <1>4, <1>5, <1>8 DEF Births
<1>11. \A c \in Clients, m \in Matches : groupsOf'[c][m] > 0 => groupsOf[c][m] > 0
  <2>1. UNCHANGED groupsOf \/ \E d \in Clients : \A c \in Clients, h \in Groups :
             groupsOf'[c][h] = IF c = d /\ h = Current.g THEN 0 ELSE groupsOf[c][h]
    BY EraseDoes, TypesNow
  <2> QED  BY <2>1, Names
<1>12. \A c \in Clients : view'[c].m \in Matches => \E m : m = view'[c].m /\ Begun(m)'
  BY <1>1, <1>6 DEF Births
<1>13. \A m \in confirming' \cup timers' : Loose(m)'
  BY <1>1, <1>5 DEF Births
<1>14. \A r, q \in RunIds : r # q => Range(batch'[r]) \cap Range(batch'[q]) = {}
  BY <1>1 DEF Births
<1> QED  BY <1>6, <1>9, <1>10, <1>11, <1>12, <1>13, <1>14 DEF Births

LEMMA BirthsInterval ==
    ASSUME TypeInv, Births,
           \/ \E r \in RunIds : Tick(r) \/ ConfirmRound(r)
           \/ \E m \in Matches : DisbandTimer(m) \/ TwoMinutes(m) \/ ExpireKey(m)
    PROVE  Births'
<1> USE DEF storeVars, runVars, roundVars, mmcVars, clientVars
<1>1. ASSUME NEW r \in RunIds, Tick(r) PROVE Births'
  <2> DEFINE u == RoomTask("mm.lrange", "match", None, Queue, r)
  <2>1. u.g = Queue /\ u.step = "mm.lrange"
    BY RoomFields
  <2>2. /\ Adds(<<u>>) /\ Elements(<<u>>) = {u}
        /\ UNCHANGED <<storeVars, clientVars, minted, lobby, batch, roundVars, mmcVars>>
    BY <1>1, TickDoes
  <2> HIDE DEF u
  <2> QED  BY <2>1, <2>2, BirthsOn, Names DEF EraseSteps
<1>2. ASSUME NEW m \in Matches, DisbandTimer(m) PROVE Births'
  <2> DEFINE u == RoomTask("erase.lrangeGroup", "disband", None, m, None)
  <2>1. u.g = m /\ u.step = "erase.lrangeGroup"
    BY RoomFields
  <2>2. /\ m \in timers /\ timers' = timers \ {m} /\ Adds(<<u>>) /\ Elements(<<u>>) = {u}
        /\ UNCHANGED <<storeVars, clientVars, runVars, confirming, late, verdicts, mmcVars>>
    BY <1>2, TimerDoes
  <2>3. Loose(m) /\ m \in minted
    BY <2>2, TypesNow DEF Births
  <2>4. Begun(m)'
    BY <2>2, <2>3 DEF Begun, Loose
  <2> HIDE DEF u
  <2> QED  BY <2>1, <2>2, <2>3, <2>4, BirthsOn
<1>3. ASSUME NEW r \in RunIds, ConfirmRound(r) PROVE Births'
  <2>1. PICK f \in Seq(Good) :
           /\ Adds(f)
           /\ Elements(f) = {Round(m) : m \in confirming} \cup {Telling(m) : m \in ToTell}
    BY <1>3, RoundDoes
  <2>2. /\ confirming' = confirming \ late /\ timers' = timers \cup late /\ late \subseteq confirming
        /\ UNCHANGED <<storeVars, clientVars, minted, lobby, batch, mmcVars>>
    BY <1>3, RoundDoes, TypesNow
  <2>3. \A u \in Elements(f) : u.g \in confirming /\ u.step \notin EraseSteps
    BY <2>1, RoomFields DEF Round, Telling, ToTell, EraseSteps
  <2>4. \A m \in confirming : Loose(m) /\ Begun(m)'
    <3>1. \A m \in confirming : Loose(m) /\ m \in minted
      BY TypesNow DEF Births
    <3>2. \A m \in confirming : Begun(m)
      BY <3>1 DEF Begun
    <3> QED  BY <2>2, <3>1, <3>2 DEF Begun, Loose
  <2>5. /\ \A u \in Elements(f) : u.g \in Matches /\ u.step # "create.hset" => Begun(u.g)'
        /\ \A u \in Elements(f) : u.step \in EraseSteps => Loose(u.g)
    BY <2>3, <2>4
  <2> QED  BY <2>1, <2>2, <2>4, <2>5, BirthsOn
<1>4. ASSUME NEW m \in Matches, TwoMinutes(m) \/ ExpireKey(m) PROVE Births'
  <2>1. UNCHANGED <<storeVars, pipe, clientVars, runVars, confirming, timers, verdicts>>
    BY <1>4 DEF TwoMinutes, ExpireKey
  <2>2. Queued' = Queued
    BY <2>1 DEF Queued, Pipeline
  <2> QED  BY <2>1, <2>2, BirthsSame
<1> QED  BY <1>1, <1>2, <1>3, <1>4

LEMMA BirthsStep == TypeInv /\ Births /\ [Next]_vars => Births'
<1> SUFFICES ASSUME TypeInv, Births, [Next]_vars PROVE Births'
  OBVIOUS
<1>1. CASE UNCHANGED vars
  BY <1>1, BirthsSame DEF vars, storeVars, runVars, roundVars, mmcVars, clientVars, Queued, Pipeline
<1>2. ASSUME NEW s \in Servers, ServerStep(s) PROVE Births'
  BY <1>2, BirthsRequest, BirthsQueueCut, BirthsCreate, BirthsPush, BirthsErase, BirthsOther
     DEF ServerStep, IntervalStep
<1> QED  BY <1>1, <1>2, BirthsClient, BirthsInterval DEF Next

(* What a client sends. *)
LEMMA ClientDoes ==
    ASSUME TypeInv, NEW c \in Clients, ClientStep(c)
    PROVE  /\ UNCHANGED <<storeVars, runVars, roundVars, mmcVars>> /\ c \in online
           /\ \E op \in Jobs, st \in Steps, g \in Groups \cup {None} :
                 /\ Adds(<<RoomTask(st, op, c, g, None)>>)
                 /\ \/ /\ op = "search" /\ st = "search.lrange" /\ g = Queue
                       /\ view[c].at \notin InMatch
                       /\ view' = [view EXCEPT ![c] = NoView("searching")] /\ online' = online
                    \/ /\ op = "leave" /\ st = "remove.lremClient" /\ g = Queue
                       /\ UNCHANGED clientVars
                    \/ /\ op = "confirm" /\ st = "get.hget" /\ g = view[c].m
                       /\ view[c].at \in {"found", "confirmed"}
                       /\ view' = [view EXCEPT ![c].at = "confirmed"] /\ online' = online
                    \/ /\ op = "exit" /\ st = "get.hget" /\ g = view[c].m
                       /\ view[c].at \in InMatch /\ UNCHANGED clientVars
                    \/ /\ op = "close" /\ st = "match.lrange" /\ g = None
                       /\ view' = [view EXCEPT ![c] = NoView("free")] /\ online' = online \ {c}
                 /\ op # "close" => MaySend(c, op)
                 /\ op = "close" => CloseMidway \/ Pending(c) = {}
<1> USE DEF storeVars, runVars, roundVars, mmcVars, clientVars
<1>1. ASSUME NEW op \in Jobs, NEW st \in Steps, NEW g \in Groups \cup {None},
             Fits(op, st, c, g, None), Send(op, c, st, g)
      PROVE  Adds(<<RoomTask(st, op, c, g, None)>>)
  <2>1. RoomTask(st, op, c, g, None) \in Good
    BY <1>1, Sent
  <2> QED  BY <1>1, <2>1, AddsOn, Singly DEF Send
<1>2. view[c].at \in InMatch => view[c].m \in Matches
  BY ViewSet
<1>3. CASE Search(c)
  <2>1. Fits("search", "search.lrange", c, Queue, None) /\ Send("search", c, "search.lrange", Queue)
    BY <1>3 DEF Search, Fits
  <2>2. Adds(<<RoomTask("search.lrange", "search", c, Queue, None)>>)
    BY <1>1, <2>1, Names, Steps2
  <2> QED  BY <1>3, <2>2, Names, Steps2 DEF Search, MaySend, InMatch
<1>4. CASE Leave(c)
  <2>1. Fits("leave", "remove.lremClient", c, Queue, None)
        /\ Send("leave", c, "remove.lremClient", Queue)
    BY <1>4 DEF Leave, Fits, RemoveSteps
  <2>2. "remove.lremClient" \in Steps
    BY Steps2 DEF RemoveSteps
  <2>3. Adds(<<RoomTask("remove.lremClient", "leave", c, Queue, None)>>)
    BY <1>1, <2>1, <2>2, Names, Steps2
  <2> QED  BY <1>4, <2>2, <2>3, Names, Steps2 DEF Leave, MaySend
<1>5. CASE Confirm(c)
  <2>0. view[c].at \in {"found", "confirmed"} /\ view[c].m \in Matches
    BY <1>2, <1>5 DEF Confirm, InMatch
  <2>1. Fits("confirm", "get.hget", c, view[c].m, None) /\ Send("confirm", c, "get.hget", view[c].m)
    BY <1>5, <2>0 DEF Confirm, Fits
  <2>2. Adds(<<RoomTask("get.hget", "confirm", c, view[c].m, None)>>)
    BY <1>1, <2>0, <2>1, Names, Steps2
  <2> QED  BY <1>5, <2>0, <2>2, Names, Steps2 DEF Confirm, MaySend
<1>6. CASE Exit(c)
  <2>0. view[c].at \in InMatch /\ view[c].m \in Matches
    BY <1>2, <1>6 DEF Exit, InMatch
  <2>1. Fits("exit", "get.hget", c, view[c].m, None) /\ Send("exit", c, "get.hget", view[c].m)
    BY <1>6, <2>0 DEF Exit, Fits
  <2>2. Adds(<<RoomTask("get.hget", "exit", c, view[c].m, None)>>)
    BY <1>1, <2>0, <2>1, Names, Steps2
  <2> QED  BY <1>6, <2>0, <2>2, Names, Steps2 DEF Exit, MaySend
<1>7. CASE Close(c)
  <2>1. Fits("close", "match.lrange", c, None, None) /\ Send("close", c, "match.lrange", None)
    BY <1>7 DEF Close, Fits
  <2>2. Adds(<<RoomTask("match.lrange", "close", c, None, None)>>)
    BY <1>1, <2>1, Steps2
  <2> QED  BY <1>7, <2>2, Steps2 DEF Close
<1> QED  BY <1>3, <1>4, <1>5, <1>6, <1>7 DEF ClientStep

-------------------------------------------------------------------------------
(* Symmetry, second part: the two lists of a membership agree up to the     *)
(* second writes still queued, but for a group whose erase has already      *)
(* listed its members: there the clients' lists are clean, and the group's  *)
(* own list goes with the last command of the erase.                        *)

Erasures == {"erase.lremClient", "erase.hdel", "erase.del"}

Erasing(g) == \E t \in Queued : t.g = g /\ t.step \in Erasures

Agrees(c, g) ==
    \/ Converging(Pipeline, c, g, groupsOf[c][g] > 0, members[g][c] > 0)
    \/ Erasing(g) /\ groupsOf[c][g] = 0

(* What an erase has done, and whom it still has to visit. *)
Emptied ==
    \A t \in Queued, c \in Clients :
        /\ t.step = "erase.lremClient" /\ groupsOf[c][t.g] > 0 => c \in t.left
        /\ t.step \in {"erase.hdel", "erase.del"} => groupsOf[c][t.g] = 0

Coherent == Emptied /\ \A c \in Clients, g \in Groups : Agrees(c, g)

Writes == {"push.lpushClient", "push.lpushGroup", "remove.lremClient", "remove.lremGroup"}
              \cup Erasures

LEMMA AllGood == TypeInv => Queued \subseteq Good /\ Pipeline \in Seq(Good)
<1> SUFFICES ASSUME TypeInv PROVE Queued \subseteq Good /\ Pipeline \in Seq(Good)
  OBVIOUS
<1>1. Pipeline \in Seq(Good)
  BY OneServer, TypesNow DEF Pipeline
<1> QED  BY <1>1 DEF Queued

(* Nobody is pushed into a group that is being erased. *)
LEMMA NoPushHere ==
    ASSUME TypeInv, Births, NEW t \in Queued, t.step \in EraseSteps,
           NEW u \in Queued, u.step \in PushSteps
    PROVE  u.g # t.g
<1>1. t \in Good /\ u \in Good
  BY AllGood
<1>2. t.g \in Matches /\ Loose(t.g)
  BY <1>1, Kinds DEF Births, EraseSteps, Fits
<1>3. u.job \in {"search", "match"}
  BY <1>1, Kinds
<1>4. CASE u.job = "search"
  <2>1. u.g = Queue
    BY <1>1, <1>4, Kinds DEF Fits
  <2> QED  BY <1>2, <2>1, Names
<1>5. CASE u.job = "match"
  <2>1. u.step # "mm.lrange"
    BY DEF PushSteps
  <2>2. u.g = u.for
    BY <1>1, <1>5, Kinds DEF Fits, PushSteps, RemoveSteps
  <2>3. \E r \in RunIds : u.g \in Range(batch[r])
    BY <1>5, <2>1, <2>2, TypesNow DEF Filling
  <2> QED  BY <1>2, <2>3 DEF Loose
<1> QED  BY <1>3, <1>4, <1>5

LEMMA Counted ==
    ASSUME TypeInv, NEW c \in Clients, NEW g \in Groups
    PROVE  groupsOf[c][g] \in Nat /\ members[g][c] \in Nat
BY TypesNow

(* Whom an erase that lists the members does not see has nothing to clean.  *)
LEMMA Listed ==
    ASSUME TypeInv, Births, Coherent, NEW t \in Queued, t.step \in EraseSteps,
           NEW c \in Clients, t.g \in Groups
    PROVE  groupsOf[c][t.g] > 0 => members[t.g][c] > 0
<1>1. \A i \in DOMAIN Pipeline : Owes(Pipeline[i], c, t.g) => Pipeline[i].step # "push.lpushGroup"
  BY NoPushHere DEF Queued, Owes, PushSteps
<1>2. Pipeline \in Seq(Good)
  BY OneServer, TypesNow DEF Pipeline
<1>3. CASE Converging(Pipeline, c, t.g, groupsOf[c][t.g] > 0, members[t.g][c] > 0)
  <2> DEFINE a == groupsOf[c][t.g] > 0
             b == members[t.g][c] > 0
  <2>1. a \in BOOLEAN /\ b \in BOOLEAN /\ Converging(Pipeline, c, t.g, a, b)
    BY <1>3
  <2> HIDE DEF a, b
  <2>2. a => b
    BY <1>1, <1>2, <2>1, ConvergeListed
  <2> QED  BY <2>2 DEF a, b
<1>4. CASE groupsOf[c][t.g] = 0
  BY <1>4
<1> QED  BY <1>3, <1>4 DEF Coherent, Agrees

(* A command runs and leaves both lists of c and g as they are. *)
LEMMA AgreesOn ==
    ASSUME TypeInv, NEW c \in Clients, NEW g \in Groups, Agrees(c, g),
           NEW f, Runs(f), ~Owes(Current, c, g), \A u \in Elements(f) : ~Owes(u, c, g),
           groupsOf'[c][g] = groupsOf[c][g], members'[g][c] = members[g][c],
           Current.g = g /\ Current.step \in Erasures
               => \E u \in Elements(f) : u.g = g /\ u.step \in Erasures
    PROVE  Agrees(c, g)'
<1>1. CASE Erasing(g) /\ groupsOf[c][g] = 0
  <2>1. Erasing(g)'
    <3>1. PICK t \in Queued : t.g = g /\ t.step \in Erasures
      BY <1>1 DEF Erasing
    <3>2. t \in Behind \/ t = Current
      BY Head1 DEF Runs
    <3>3. Queued' = Behind \cup Elements(f)
      BY DEF Runs
    <3> QED  BY <3>1, <3>2, <3>3 DEF Erasing
  <2> QED  BY <1>1, <2>1 DEF Agrees
<1>2. CASE Converging(Pipeline, c, g, groupsOf[c][g] > 0, members[g][c] > 0)
  <2>1. /\ Pipeline \in Seq(Good) /\ Pipeline # <<>> /\ f \in Seq(Good)
        /\ Pipeline' = Tail(Pipeline) \o f
    BY Head1 DEF Runs
  <2>2. \A k \in DOMAIN f : ~Owes(f[k], c, g)
    BY DEF Elements
  <2> DEFINE a == groupsOf[c][g] > 0
             b == members[g][c] > 0
  <2>3. a \in BOOLEAN /\ b \in BOOLEAN /\ Converging(Pipeline, c, g, a, b)
    BY <1>2
  <2> HIDE DEF a, b
  <2>4. Converging(Tail(Pipeline) \o f, c, g, a, b)
    BY <2>1, <2>2, <2>3, ConvergeOther DEF Current
  <2>5. Converging(Pipeline', c, g, groupsOf'[c][g] > 0, members'[g][c] > 0)
    BY <2>1, <2>4 DEF a, b
  <2> QED  BY <2>5 DEF Agrees
<1> QED  BY <1>1, <1>2 DEF Agrees

LEMMA AgreesAdded ==
    ASSUME TypeInv, NEW c \in Clients, NEW g \in Groups, Agrees(c, g), NEW f, Adds(f),
           \A u \in Elements(f) : ~Owes(u, c, g),
           groupsOf'[c][g] = groupsOf[c][g], members'[g][c] = members[g][c]
    PROVE  Agrees(c, g)'
<1>1. CASE Erasing(g) /\ groupsOf[c][g] = 0
  BY <1>1 DEF Agrees, Erasing, Adds
<1>2. CASE Converging(Pipeline, c, g, groupsOf[c][g] > 0, members[g][c] > 0)
  <2>1. Pipeline \in Seq(Good) /\ f \in Seq(Good) /\ Pipeline' = Pipeline \o f
    BY OneServer, TypesNow DEF Adds, Pipeline
  <2>2. \A k \in DOMAIN f : ~Owes(f[k], c, g)
    BY DEF Elements
  <2> DEFINE a == groupsOf[c][g] > 0
             b == members[g][c] > 0
  <2>3. a \in BOOLEAN /\ b \in BOOLEAN /\ Converging(Pipeline, c, g, a, b)
    BY <1>2
  <2> HIDE DEF a, b
  <2>4. Converging(Pipeline \o f, c, g, a, b)
    BY <2>1, <2>2, <2>3, ConvergeIssue
  <2>5. Converging(Pipeline', c, g, groupsOf'[c][g] > 0, members'[g][c] > 0)
    BY <2>1, <2>4 DEF a, b
  <2> QED  BY <2>5 DEF Agrees
<1> QED  BY <1>1, <1>2 DEF Agrees

(* Commands that write neither list. *)
LEMMA CoherentOn ==
    ASSUME TypeInv, Coherent, UNCHANGED <<members, groupsOf>>, NEW f,
           \/ Runs(f) /\ Current.step \notin Writes
           \/ Adds(f),
           \A u \in Elements(f) : u.step \notin Erasures \cup {"push.lpushGroup", "remove.lremGroup"}
    PROVE  Coherent'
<1>1. \A t \in Queued' : t \in Queued \/ t.step \notin Erasures
  <2>1. \A t \in Queued' : t \in Queued \/ t \in Elements(f)
    BY Head1 DEF Runs, Adds
  <2> QED  BY <2>1
<1>2. Emptied'
  BY <1>1 DEF Coherent, Emptied, Erasures
<1>3. ASSUME NEW c \in Clients, NEW g \in Groups PROVE Agrees(c, g)'
  <2>1. Agrees(c, g) /\ \A u \in Elements(f) : ~Owes(u, c, g)
    BY DEF Coherent, Owes
  <2>2. CASE Runs(f) /\ Current.step \notin Writes
    <3>1. ~Owes(Current, c, g) /\ Current.step \notin Erasures
      BY <2>2 DEF Owes, Writes
    <3> QED  BY <2>1, <2>2, <3>1, AgreesOn
  <2>3. CASE Adds(f)
    BY <2>1, <2>3, AgreesAdded
  <2> QED  BY <2>2, <2>3
<1> QED  BY <1>2, <1>3 DEF Coherent

LEMMA CoherentInit == Init => Coherent
<1> SUFFICES ASSUME Init PROVE Coherent
  OBVIOUS
<1>1. Pipeline = <<>> /\ Queued = {}
  BY OneServer DEF Init, Queued, Pipeline
<1>2. \A c \in Clients, g \in Groups : groupsOf[c][g] = 0 /\ members[g][c] = 0
  BY DEF Init, EmptyGroupsOf, EmptyMembers
<1>3. \A c \in Clients, g \in Groups : Converging(Pipeline, c, g, FALSE, FALSE)
  BY <1>1 DEF Converging, IsLast
<1>4. ASSUME NEW c \in Clients, NEW g \in Groups PROVE Agrees(c, g)
  <2>1. (groupsOf[c][g] > 0) = FALSE /\ (members[g][c] > 0) = FALSE
    BY <1>2
  <2> QED  BY <1>3, <2>1 DEF Agrees
<1> QED  BY <1>1, <1>4 DEF Coherent, Emptied

(* Everything but the pushes, the removes and the erases. *)
LEMMA CoherentClient == ASSUME TypeInv, Coherent, NEW c \in Clients, ClientStep(c) PROVE Coherent'
<1>1. PICK op \in Jobs, st \in Steps, g \in Groups \cup {None} :
         /\ Adds(<<RoomTask(st, op, c, g, None)>>)
         /\ st \in {"search.lrange", "remove.lremClient", "get.hget", "match.lrange"}
  BY ClientDoes
<1>2. UNCHANGED <<members, groupsOf>>
  BY ClientDoes DEF storeVars
<1>3. \A u \in Elements(<<RoomTask(st, op, c, g, None)>>) : u.step = st
  BY RoomFields, Few
<1> QED  BY <1>1, <1>2, <1>3, CoherentOn DEF Erasures

LEMMA CoherentRequest == ASSUME TypeInv, Coherent, NEW s \in Servers, RequestStep(s) PROVE Coherent'
<1> DEFINE Quietly == {"push.lrangeGroup", "remove.lremClient", "member.lrange", "erase.lrangeGroup",
                       "mmc.lrange", "mmc.expire", "mmc.lpush", "notify.lrange", "close.lrange",
                       "get.hget"}
<1>1. UNCHANGED <<members, groupsOf>>
  BY SearchDoes, GetDoes, MemberDoes, ReadConfirmationsDoes, AddConfirmationDoes,
     ExpireConfirmationsDoes, CloseCheckDoes, LeaveAllDoes DEF RequestStep, storeVars
<1>2. /\ Current.step \in {"search.lrange", "get.hget", "member.lrange", "mmc.lrange", "mmc.lpush",
                           "mmc.expire", "match.lrange", "close.lrange"}
      /\ Pipeline # <<>>
  <2>1. Current.step \in {"search.lrange", "get.hget", "member.lrange", "mmc.lrange", "mmc.lpush",
                          "mmc.expire", "match.lrange", "close.lrange"}
    BY SearchDoes, GetDoes, MemberDoes, ReadConfirmationsDoes, AddConfirmationDoes,
       ExpireConfirmationsDoes, CloseCheckDoes, LeaveAllDoes DEF RequestStep
  <2>2. Pipeline # <<>>
    <3>1. \E st : Running(s, st)
      BY DEF RequestStep, SearchCheck, Get, GetGroupInstance, MemberCheck, ReadConfirmations,
             AddConfirmation, ExpireConfirmations, CloseCheck, LeaveAllGroups
    <3> QED  BY <3>1, Currently
  <2> QED  BY <2>1, <2>2
<1>3. Current \in Good
  BY <1>2, Head1
<1>4. \E f : Runs(f) /\ \A u \in Elements(f) : u.step \in Quietly
  <2>1. CASE SearchCheck(s)
    <3>1. Runs(<<At(Current, "push.lrangeGroup")>>) \/ Runs(<<>>)
      BY <2>1, SearchDoes
    <3> QED  BY <1>3, <3>1, AtFields, Few
  <2>2. CASE Get(s)
    <3>1. /\ Current.step = "get.hget"
          /\ \/ Runs(<<At(Current, "remove.lremClient")>>)
             \/ Runs(<<At(Current, "member.lrange")>>)
             \/ Current.g \in Matches /\ Runs(<<Heal(Current)>>)
      BY <2>2, GetDoes
    <3>2. Current.g \in Matches => Heal(Current).step = "erase.lrangeGroup"
      BY <1>3, <3>1, HealGood
    <3> QED  BY <1>3, <3>1, <3>2, AtFields, Few
  <2>3. CASE MemberCheck(s)
    <3>1. \/ Runs(<<>>)
          \/ Runs(<<At(Current, "mmc.lrange"), At(Current, "mmc.expire"),
                    At(Current, "notify.lrange")>>)
          \/ Runs(<<At(Current, "remove.lremClient"), At(Current, "notify.lrange")>>)
      BY <2>3, MemberDoes
    <3>2. /\ \A u \in Elements(<<>>) : u.step \in Quietly
          /\ \A u \in Elements(<<At(Current, "mmc.lrange"), At(Current, "mmc.expire"),
                                 At(Current, "notify.lrange")>>) : u.step \in Quietly
          /\ \A u \in Elements(<<At(Current, "remove.lremClient"), At(Current, "notify.lrange")>>) :
                u.step \in Quietly
      BY <1>3, AtFields, Few
    <3> HIDE DEF Quietly
    <3> QED  BY <3>1, <3>2
  <2>4. CASE ReadConfirmations(s)
    <3>1. Runs(<<>>) \/ Runs(<<At(Current, "mmc.lpush")>>)
      BY <2>4, ReadConfirmationsDoes
    <3> QED  BY <1>3, <3>1, AtFields, Few
  <2>5. CASE AddConfirmation(s) \/ ExpireConfirmations(s)
    <3>1. Runs(<<>>)
      BY <2>5, AddConfirmationDoes, ExpireConfirmationsDoes
    <3> QED  BY <3>1, Few
  <2>6. CASE CloseCheck(s)
    <3>1. \/ Runs(<<At(Current, "close.lrange")>>)
          \/ \E m \in Matches : Runs(<<At(Current, "close.lrange"),
                                       RoomTask("notify.lrange", "exit", Current.c, m, None)>>)
      BY <2>6, CloseCheckDoes
    <3>2. \A u \in Elements(<<At(Current, "close.lrange")>>) : u.step \in Quietly
      BY <1>3, AtFields, Few
    <3>3. \A m : \A u \in Elements(<<At(Current, "close.lrange"),
                                     RoomTask("notify.lrange", "exit", Current.c, m, None)>>) :
                    u.step \in Quietly
      BY <1>3, AtFields, RoomFields, Few
    <3> HIDE DEF Quietly
    <3> QED  BY <3>1, <3>2, <3>3
  <2>7. CASE LeaveAllGroups(s)
    <3>1. PICK f \in Seq(Good) :
             /\ Runs(f)
             /\ Elements(f) = {RoomTask("get.hget", "close", Current.c, g, None) :
                                  g \in GroupsOfClient(Current.c)}
      BY <2>7, LeaveAllDoes
    <3>2. \A u \in Elements(f) : u.step = "get.hget"
      BY <3>1, RoomFields
    <3> QED  BY <3>1, <3>2
  <2> QED  BY <2>1, <2>2, <2>3, <2>4, <2>5, <2>6, <2>7 DEF RequestStep
<1> QED  BY <1>1, <1>2, <1>4, CoherentOn DEF Writes, Erasures

LEMMA CoherentOther ==
    ASSUME TypeInv, Coherent, NEW s \in Servers,
           MatchQueue(s) \/ CreateEntry(s) \/ CheckSize(s) \/ EraseConfirmations(s) \/ NotifyGroup(s)
    PROVE  Coherent'
<1>1. UNCHANGED <<members, groupsOf>>
  BY QueueCutBriefly, CreateDoes, CheckSizeDoes, EraseConfirmationsDoes, NotifyDoes DEF storeVars
<1>2. Current.step \in {"mm.lrange", "create.hset", "mmc.llen", "mmc.del", "notify.lrange"}
  BY QueueCutBriefly, CreateDoes, CheckSizeDoes, EraseConfirmationsDoes, NotifyDoes
<1>3. \E f : Runs(f) /\ \A u \in Elements(f) : u.step \in {"remove.lremClient", "push.lrangeGroup",
                                                           "mmc.del", "notify.lrange"}
  <2>1. CASE MatchQueue(s)
    BY <2>1, QueueCutBriefly
  <2>2. CASE CreateEntry(s)
    <3>1. PICK f \in Seq(Good) :
             /\ Runs(f)
             /\ Elements(f) = {RoomTask("push.lrangeGroup", "match", c, Current.g, Current.g) :
                                  c \in Range(lobby[Current.g])}
      BY <2>2, CreateDoes
    <3>2. \A u \in Elements(f) : u.step = "push.lrangeGroup"
      BY <3>1, RoomFields
    <3> QED  BY <3>1, <3>2
  <2>3. CASE CheckSize(s)
    <3>1. Runs(<<At(Current, "mmc.del"), At(Current, "notify.lrange")>>) \/ Runs(<<>>)
      BY <2>3, CheckSizeDoes
    <3>2. Current \in Good
      BY <3>1, Head1 DEF Runs
    <3> QED  BY <3>1, <3>2, AtFields, Few
  <2>4. CASE EraseConfirmations(s) \/ NotifyGroup(s)
    <3>1. Runs(<<>>)
      BY <2>4, EraseConfirmationsDoes, NotifyDoes
    <3> QED  BY <3>1, Few
  <2> QED  BY <2>1, <2>2, <2>3, <2>4
<1> QED  BY <1>1, <1>2, <1>3, CoherentOn DEF Writes, Erasures

LEMMA CoherentInterval ==
    ASSUME TypeInv, Coherent,
           \/ \E r \in RunIds : Tick(r) \/ ConfirmRound(r)
           \/ \E m \in Matches : DisbandTimer(m) \/ TwoMinutes(m) \/ ExpireKey(m)
    PROVE  Coherent'
<1> USE DEF storeVars, runVars, roundVars, mmcVars, clientVars
<1>1. ASSUME NEW r \in RunIds, Tick(r) PROVE Coherent'
  <2> DEFINE u == RoomTask("mm.lrange", "match", None, Queue, r)
  <2>1. u.step = "mm.lrange" /\ Elements(<<u>>) = {u}
    BY RoomFields, Few
  <2>2. Adds(<<u>>) /\ UNCHANGED <<members, groupsOf>>
    BY <1>1, TickDoes
  <2> HIDE DEF u
  <2> QED  BY <2>1, <2>2, CoherentOn DEF Erasures
<1>2. ASSUME NEW m \in Matches, DisbandTimer(m) PROVE Coherent'
  <2> DEFINE u == RoomTask("erase.lrangeGroup", "disband", None, m, None)
  <2>1. u.step = "erase.lrangeGroup" /\ Elements(<<u>>) = {u}
    BY RoomFields, Few
  <2>2. Adds(<<u>>) /\ UNCHANGED <<members, groupsOf>>
    BY <1>2, TimerDoes
  <2> HIDE DEF u
  <2> QED  BY <2>1, <2>2, CoherentOn DEF Erasures
<1>3. ASSUME NEW r \in RunIds, ConfirmRound(r) PROVE Coherent'
  <2>1. PICK f \in Seq(Good) :
           /\ Adds(f)
           /\ Elements(f) = {Round(m) : m \in confirming} \cup {Telling(m) : m \in ToTell}
    BY <1>3, RoundDoes
  <2>2. \A u \in Elements(f) : u.step \in {"mmc.del", "mmc.llen", "notify.lrange"}
    BY <2>1, RoomFields DEF Round, Telling
  <2>3. UNCHANGED <<members, groupsOf>>
    BY <1>3, RoundDoes
  <2> QED  BY <2>1, <2>2, <2>3, CoherentOn DEF Erasures
<1>4. ASSUME NEW m \in Matches, TwoMinutes(m) \/ ExpireKey(m) PROVE Coherent'
  BY <1>4 DEF TwoMinutes, ExpireKey, Coherent, Emptied, Agrees, Erasing, Queued, Pipeline
<1> QED  BY <1>1, <1>2, <1>3, <1>4

(* The first write of a push or a remove, and the second. *)
LEMMA FirstWrite ==
    ASSUME TypeInv, NEW c \in Clients, NEW g \in Groups, NEW u \in Good, Runs(<<u>>),
           Owes(u, c, g), groupsOf'[c][g] > 0 <=> u.step = "push.lpushGroup"
    PROVE  Agrees(c, g)'
<1> DEFINE a == groupsOf'[c][g] > 0
           b == members'[g][c] > 0
<1>1. a \in BOOLEAN /\ b \in BOOLEAN /\ (a <=> u.step = "push.lpushGroup")
  OBVIOUS
<1>2. /\ Pipeline \in Seq(Good) /\ Pipeline # <<>> /\ Pipeline' = Tail(Pipeline) \o <<u>>
  BY Head1 DEF Runs
<1> HIDE DEF a, b
<1>3. Converging(Tail(Pipeline) \o <<u>>, c, g, a, b)
  BY <1>1, <1>2, ConvergeFirst
<1>4. Converging(Pipeline', c, g, groupsOf'[c][g] > 0, members'[g][c] > 0)
  BY <1>2, <1>3 DEF a, b
<1> QED  BY <1>4 DEF Agrees

LEMMA SecondWrite ==
    ASSUME TypeInv, NEW c \in Clients, NEW g \in Groups, Agrees(c, g), NEW f, Runs(f),
           Owes(Current, c, g), \A u \in Elements(f) : ~Owes(u, c, g),
           groupsOf'[c][g] = groupsOf[c][g],
           members'[g][c] > 0 <=> Current.step = "push.lpushGroup"
    PROVE  Agrees(c, g)'
<1>0. /\ Pipeline \in Seq(Good) /\ Pipeline # <<>> /\ f \in Seq(Good)
      /\ Pipeline' = Tail(Pipeline) \o f /\ Queued' = Behind \cup Elements(f)
      /\ Queued = {Current} \cup Behind
  BY Head1 DEF Runs
<1>1. CASE Erasing(g) /\ groupsOf[c][g] = 0
  <2>1. Erasing(g)'
    BY <1>0, <1>1 DEF Erasing, Erasures, Owes
  <2> QED  BY <1>1, <2>1 DEF Agrees
<1>2. CASE Converging(Pipeline, c, g, groupsOf[c][g] > 0, members[g][c] > 0)
  <2> DEFINE a == groupsOf[c][g] > 0
             b == members[g][c] > 0
             d == members'[g][c] > 0
  <2>1. /\ a \in BOOLEAN /\ b \in BOOLEAN /\ d \in BOOLEAN /\ Converging(Pipeline, c, g, a, b)
        /\ d <=> Current.step = "push.lpushGroup"
    BY <1>2
  <2>2. \A k \in DOMAIN f : ~Owes(f[k], c, g)
    BY DEF Elements
  <2> HIDE DEF a, b, d
  <2>3. Converging(Tail(Pipeline) \o f, c, g, a, d)
    BY <1>0, <2>1, <2>2, ConvergeSecond DEF Current
  <2>4. Converging(Pipeline', c, g, groupsOf'[c][g] > 0, members'[g][c] > 0)
    BY <1>0, <2>3 DEF a, d
  <2> QED  BY <2>4 DEF Agrees
<1> QED  BY <1>1, <1>2 DEF Agrees

LEMMA CoherentRemove ==
    ASSUME TypeInv, Coherent, NEW s \in Servers, RemoveBegin(s) \/ RemoveEnd(s) PROVE Coherent'
<1>1. CASE RemoveBegin(s)
  <2> DEFINE u == At(Current, "remove.lremGroup")
  <2>1. /\ Current.step = "remove.lremClient" /\ Current.c \in Clients /\ Current.g \in Groups
        /\ u \in Good /\ Runs(<<u>>) /\ members' = members
        /\ \A c \in Clients, g \in Groups :
              groupsOf'[c][g] = IF c = Current.c /\ g = Current.g THEN 0 ELSE groupsOf[c][g]
    BY <1>1, RemoveBeginDoes
  <2>2. Current \in Good
    BY <2>1, Head1 DEF Runs
  <2>3. /\ u.step = "remove.lremGroup" /\ u.c = Current.c /\ u.g = Current.g
        /\ Elements(<<u>>) = {u}
    BY <2>2, AtFields, Few
  <2> HIDE DEF u
  <2>4. Queued' = Behind \cup {u} /\ Queued = {Current} \cup Behind
    BY <2>1, <2>3, Head1 DEF Runs
  <2>5. Emptied'
    <3>1. \A c \in Clients, g \in Groups : groupsOf[c][g] = 0 => groupsOf'[c][g] = 0
      BY <2>1
    <3>2. \A c \in Clients, g \in Groups : groupsOf'[c][g] > 0 => groupsOf[c][g] > 0
      BY <2>1
    <3>3. \A t \in Queued' : t.step \in Erasures => t \in Queued /\ t.g \in Groups
      <4>1. \A t \in Queued' : t.step \in Erasures => t \in Queued
        BY <2>3, <2>4 DEF Erasures
      <4>2. \A t \in Queued : t.step \in Erasures => t.g \in Groups
        BY AllGood, Kinds, Names DEF Fits, Erasures, EraseSteps
      <4> QED  BY <4>1, <4>2
    <3> QED  BY <3>1, <3>2, <3>3 DEF Coherent, Emptied, Erasures
  <2>6. ASSUME NEW c \in Clients, NEW g \in Groups PROVE Agrees(c, g)'
    <3>1. CASE c = Current.c /\ g = Current.g
      BY <2>1, <2>3, <3>1, FirstWrite DEF Owes
    <3>2. CASE ~(c = Current.c /\ g = Current.g)
      <4>1. ~Owes(Current, c, g) /\ \A v \in Elements(<<u>>) : ~Owes(v, c, g)
        BY <2>1, <2>3, <3>2 DEF Owes
      <4>2. groupsOf'[c][g] = groupsOf[c][g] /\ members'[g][c] = members[g][c] /\ Agrees(c, g)
        BY <2>1, <3>2 DEF Coherent
      <4> QED  BY <2>1, <4>1, <4>2, AgreesOn DEF Erasures
    <3> QED  BY <3>1, <3>2
  <2> QED  BY <2>5, <2>6 DEF Coherent
<1>2. CASE RemoveEnd(s)
  <2>1. /\ Current.step = "remove.lremGroup" /\ Current.c \in Clients /\ Current.g \in Groups
        /\ Runs(Removed(Current)) /\ groupsOf' = groupsOf
        /\ \A c \in Clients, g \in Groups :
              members'[g][c] = IF c = Current.c /\ g = Current.g THEN 0 ELSE members[g][c]
    BY <1>2, RemoveEndDoes
  <2>2. Current \in Good
    BY <2>1, Head1 DEF Runs
  <2>3. \A u \in Elements(Removed(Current)) : u.step \in {"notify.lrange", "create.hset"}
    <3>1. \/ Removed(Current) = <<>>
          \/ Removed(Current) = <<At(Current, "notify.lrange")>>
          \/ Removed(Current) = <<RoomTask("create.hset", "match", None, Current.for, Current.for)>>
      BY <1>2, RemoveEndDoes
    <3> QED  BY <2>2, <3>1, AtFields, RoomFields, Few
  <2>4. Emptied'
    <3>1. \A t \in Queued' : t.step \in Erasures => t \in Queued
      BY <2>1, <2>3, Head1 DEF Runs, Erasures
    <3> QED  BY <2>1, <3>1 DEF Coherent, Emptied, Erasures
  <2>5. ASSUME NEW c \in Clients, NEW g \in Groups PROVE Agrees(c, g)'
    <3>1. \A u \in Elements(Removed(Current)) : ~Owes(u, c, g)
      BY <2>3 DEF Owes
    <3>2. Agrees(c, g)
      BY DEF Coherent
    <3>3. CASE c = Current.c /\ g = Current.g
      BY <2>1, <3>1, <3>2, <3>3, SecondWrite DEF Owes
    <3>4. CASE ~(c = Current.c /\ g = Current.g)
      <4>1. ~Owes(Current, c, g) /\ groupsOf'[c][g] = groupsOf[c][g] /\ members'[g][c] = members[g][c]
        BY <2>1, <3>4 DEF Owes
      <4> QED  BY <2>1, <3>1, <3>2, <4>1, AgreesOn DEF Erasures
    <3> QED  BY <3>3, <3>4
  <2> QED  BY <2>4, <2>5 DEF Coherent
<1> QED  BY <1>1, <1>2

LEMMA CoherentPush == ASSUME TypeInv, Births, Coherent, NEW s \in Servers, Push(s) PROVE Coherent'
<1>0. /\ Pipeline # <<>> /\ Current.step \in PushSteps /\ Current.c \in Clients
      /\ Current.g \in Groups
  BY PushDoes DEF Runs
<1>1. /\ Current \in Good /\ Current \in Queued /\ Behind \subseteq Queued
      /\ Queued = {Current} \cup Behind
  BY <1>0, Head1
<1>2. \A u \in Elements(Pushed(Current)) : u.step = "notify.lrange"
  <2>1. CASE AllPushed(Current)
    <3>1. Elements(Pushed(Current)) = {RoomTask("notify.lrange", "found", None, m, None) :
                                          m \in Range(batch[RunOf(Current)])}
      BY <1>0, <1>1, <2>1, PushedGood
    <3> QED  BY <3>1, RoomFields
  <2>2. CASE ~AllPushed(Current)
    <3>1. Pushed(Current) = <<>>
      BY <1>0, <1>1, <2>2, PushedGood
    <3> QED  BY <3>1, Few
  <2> QED  BY <2>1, <2>2
<1>3. CASE Current.step \in {"push.lrangeGroup", "push.lrangeClient"}
  <2>1. UNCHANGED <<members, groupsOf>>
    BY <1>3, PushDoes DEF storeVars
  <2>2. \E f : Runs(f) /\ \A u \in Elements(f) : u.step \in {"notify.lrange", "push.lrangeClient",
                                                             "push.lpushClient"}
    <3>1. \/ Runs(Pushed(Current))
          \/ Runs(<<At(Current, "push.lrangeClient")>>)
          \/ Runs(<<At(Current, "push.lpushClient")>>)
      BY <1>3, PushDoes
    <3> QED  BY <1>1, <1>2, <3>1, AtFields, Few
  <2> QED  BY <1>3, <2>1, <2>2, CoherentOn DEF Writes, Erasures
<1>4. CASE Current.step = "push.lpushClient"
  <2> DEFINE u == At(Current, "push.lpushGroup")
  <2>1. /\ u \in Good /\ Runs(<<u>>) /\ members' = members
        /\ \A c \in Clients, g \in Groups :
              groupsOf'[c][g] = IF c = Current.c /\ g = Current.g
                                THEN groupsOf[c][g] + 1 ELSE groupsOf[c][g]
    BY <1>4, PushDoes
  <2>2. /\ u.step = "push.lpushGroup" /\ u.c = Current.c /\ u.g = Current.g
        /\ Elements(<<u>>) = {u}
    BY <1>1, AtFields, Few
  <2> HIDE DEF u
  <2>3. Queued' = Behind \cup {u}
    BY <2>1, <2>2 DEF Runs
  <2>4. Emptied'
    <3>1. \A t \in Queued' : t.step \in Erasures => t \in Queued
      BY <1>1, <2>2, <2>3 DEF Erasures
    <3>2. \A t \in Queued : t.step \in Erasures => t.g \in Groups /\ t.g # Current.g
      <4>1. \A t \in Queued : t.step \in Erasures => t.g \in Groups
        BY AllGood, Kinds, Names DEF Fits, Erasures, EraseSteps
      <4>2. \A t \in Queued : t.step \in Erasures => t.g # Current.g
        BY <1>0, <1>1, NoPushHere DEF Erasures, EraseSteps
      <4> QED  BY <4>1, <4>2
    <3>3. \A t \in Queued', c \in Clients : t.step \in Erasures => groupsOf'[c][t.g] = groupsOf[c][t.g]
      BY <2>1, <3>1, <3>2
    <3> QED  BY <3>1, <3>3 DEF Coherent, Emptied, Erasures
  <2>5. ASSUME NEW c \in Clients, NEW g \in Groups PROVE Agrees(c, g)'
    <3>1. CASE c = Current.c /\ g = Current.g
      <4>1. groupsOf'[c][g] > 0
        BY <2>1, <3>1, Counted
      <4> QED  BY <2>1, <2>2, <3>1, <4>1, FirstWrite DEF Owes
    <3>2. CASE ~(c = Current.c /\ g = Current.g)
      <4>1. ~Owes(Current, c, g) /\ \A v \in Elements(<<u>>) : ~Owes(v, c, g)
        BY <1>4, <2>2, <3>2 DEF Owes
      <4>2. groupsOf'[c][g] = groupsOf[c][g] /\ members'[g][c] = members[g][c] /\ Agrees(c, g)
        BY <2>1, <3>2 DEF Coherent
      <4> QED  BY <1>4, <2>1, <4>1, <4>2, AgreesOn DEF Erasures
    <3> QED  BY <3>1, <3>2
  <2> QED  BY <2>4, <2>5 DEF Coherent
<1>5. CASE Current.step = "push.lpushGroup"
  <2>1. /\ Runs(Pushed(Current)) /\ groupsOf' = groupsOf
        /\ \A c \in Clients, g \in Groups :
              members'[g][c] = IF c = Current.c /\ g = Current.g
                               THEN members[g][c] + 1 ELSE members[g][c]
    BY <1>5, PushDoes
  <2>2. Emptied'
    <3>1. \A t \in Queued' : t.step \in Erasures => t \in Queued
      BY <1>1, <1>2, <2>1 DEF Runs, Erasures
    <3> QED  BY <2>1, <3>1 DEF Coherent, Emptied, Erasures
  <2>3. ASSUME NEW c \in Clients, NEW g \in Groups PROVE Agrees(c, g)'
    <3>1. \A u \in Elements(Pushed(Current)) : ~Owes(u, c, g)
      BY <1>2 DEF Owes
    <3>2. Agrees(c, g)
      BY DEF Coherent
    <3>3. CASE c = Current.c /\ g = Current.g
      <4>1. members'[g][c] > 0
        BY <2>1, <3>3, Counted
      <4> QED  BY <1>5, <2>1, <3>1, <3>2, <3>3, <4>1, SecondWrite DEF Owes
    <3>4. CASE ~(c = Current.c /\ g = Current.g)
      <4>1. ~Owes(Current, c, g) /\ groupsOf'[c][g] = groupsOf[c][g] /\ members'[g][c] = members[g][c]
        BY <2>1, <3>4 DEF Owes
      <4> QED  BY <1>5, <2>1, <3>1, <3>2, <4>1, AgreesOn DEF Erasures
    <3> QED  BY <3>3, <3>4
  <2> QED  BY <2>2, <2>3 DEF Coherent
<1> QED  BY <1>0, <1>3, <1>4, <1>5 DEF PushSteps

LEMMA CoherentErase == ASSUME TypeInv, Births, Coherent, NEW s \in Servers, Erase(s) PROVE Coherent'
<1>0. /\ Pipeline # <<>> /\ Current.step \in EraseSteps /\ Current.g \in Matches
      /\ Current.g \in Groups
  BY EraseDoes, Names DEF Runs, Stays
<1>1. /\ Current \in Good /\ Current \in Queued /\ Behind \subseteq Queued
      /\ Queued = {Current} \cup Behind /\ Pipeline[1] = Current
  BY <1>0, Head1
<1>2. \A t \in Queued : t.step \in Erasures => t.g \in Groups
  BY AllGood, Kinds, Names DEF Fits, Erasures, EraseSteps
<1>3. \A c \in Clients, g \in Groups : Agrees(c, g) /\ ~Owes(Current, c, g)
  BY <1>0 DEF Coherent, EraseSteps, Owes
<1>4. CASE Current.step = "erase.lrangeGroup"
  <2>1. /\ UNCHANGED <<members, groupsOf>>
        /\ \E u : /\ Runs(<<u>>)
                  /\ IF MembersOf(Current.g) = {}
                     THEN EraseNext(u, "erase.hdel", Current.left)
                     ELSE EraseNext(u, "erase.lremClient", MembersOf(Current.g))
    BY <1>4, EraseDoes DEF storeVars
  <2>2. PICK u : /\ Runs(<<u>>)
                 /\ IF MembersOf(Current.g) = {}
                    THEN EraseNext(u, "erase.hdel", Current.left)
                    ELSE EraseNext(u, "erase.lremClient", MembersOf(Current.g))
    BY <2>1
  <2>3. /\ u.g = Current.g /\ u.step \in {"erase.hdel", "erase.lremClient"}
        /\ u.step = "erase.hdel" => MembersOf(Current.g) = {}
        /\ u.step = "erase.lremClient" => u.left = MembersOf(Current.g)
    BY <2>2 DEF EraseNext
  <2>4. Queued' = Behind \cup {u} /\ Elements(<<u>>) = {u}
    BY <2>2, Few DEF Runs
  <2>5. Emptied'
    <3>1. \A c \in Clients : groupsOf[c][u.g] > 0 => c \in MembersOf(Current.g)
      BY <1>0, <1>1, <2>3, Listed DEF MembersOf
    <3>2. ASSUME NEW t \in Queued', NEW c \in Clients
          PROVE  /\ t.step = "erase.lremClient" /\ groupsOf[c][t.g] > 0 => c \in t.left
                 /\ t.step \in {"erase.hdel", "erase.del"} => groupsOf[c][t.g] = 0
      <4>1. CASE t \in Queued
        BY <4>1 DEF Coherent, Emptied
      <4>2. CASE t = u
        BY <1>0, <2>3, <3>1, <4>2, Counted
      <4> QED  BY <1>1, <2>4, <4>1, <4>2
    <3> QED  BY <2>1, <3>2 DEF Emptied
  <2>6. ASSUME NEW c \in Clients, NEW g \in Groups PROVE Agrees(c, g)'
    <3>1. \A v \in Elements(<<u>>) : ~Owes(v, c, g)
      BY <2>3, <2>4 DEF Owes
    <3> QED  BY <1>3, <1>4, <2>1, <2>2, <3>1, AgreesOn DEF Erasures
  <2> QED  BY <2>5, <2>6 DEF Coherent
<1>5. CASE Current.step = "erase.lremClient"
  <2>1. /\ members' = members
        /\ \E c \in Current.left :
              /\ \A d \in Clients, h \in Groups :
                    groupsOf'[d][h] = IF d = c /\ h = Current.g THEN 0 ELSE groupsOf[d][h]
              /\ \/ /\ Current.left = {c}
                    /\ \E u : Runs(<<u>>) /\ EraseNext(u, "erase.hdel", {})
                 \/ /\ Current.left # {c}
                    /\ \E u : Stays(u) /\ EraseNext(u, "erase.lremClient", Current.left \ {c})
    BY <1>5, EraseDoes
  <2>2. PICK c \in Current.left :
              /\ \A d \in Clients, h \in Groups :
                    groupsOf'[d][h] = IF d = c /\ h = Current.g THEN 0 ELSE groupsOf[d][h]
              /\ \/ /\ Current.left = {c}
                    /\ \E u : Runs(<<u>>) /\ EraseNext(u, "erase.hdel", {})
                 \/ /\ Current.left # {c}
                    /\ \E u : Stays(u) /\ EraseNext(u, "erase.lremClient", Current.left \ {c})
    BY <2>1
  <2>3. PICK u : /\ u.g = Current.g /\ u.step \in {"erase.hdel", "erase.lremClient"}
                 /\ u.step = "erase.hdel" => Current.left = {c}
                 /\ u.step = "erase.lremClient" => u.left = Current.left \ {c}
                 /\ Runs(<<u>>) \/ Stays(u)
    BY <2>2 DEF EraseNext
  <2>4. Queued' = Behind \cup {u} /\ Elements(<<u>>) = {u}
    BY <2>3, Few DEF Runs, Stays
  <2>5. \A d \in Clients : groupsOf[d][Current.g] > 0 => d \in Current.left
    BY <1>1, <1>5 DEF Coherent, Emptied
  <2>6. \A d \in Clients, h \in Groups : /\ groupsOf[d][h] = 0 => groupsOf'[d][h] = 0
                                         /\ groupsOf'[d][h] > 0 => groupsOf[d][h] > 0
    BY <2>2
  <2>7. Emptied'
    <3>1. ASSUME NEW t \in Queued', NEW d \in Clients
          PROVE  /\ t.step = "erase.lremClient" /\ groupsOf'[d][t.g] > 0 => d \in t.left
                 /\ t.step \in {"erase.hdel", "erase.del"} => groupsOf'[d][t.g] = 0
      <4>1. CASE t \in Queued
        BY <1>2, <2>6, <4>1 DEF Coherent, Emptied, Erasures
      <4>2. CASE t = u
        <5>1. CASE d = c
          BY <1>0, <2>2, <2>3, <4>2, <5>1
        <5>2. CASE d # c
          <6>1. groupsOf'[d][u.g] = groupsOf[d][Current.g] /\ groupsOf[d][Current.g] \in Nat
            BY <1>0, <2>2, <2>3, <5>2, Counted
          <6> QED  BY <2>3, <2>5, <4>2, <5>2, <6>1
        <5> QED  BY <5>1, <5>2
      <4> QED  BY <1>1, <2>4, <4>1, <4>2
    <3> QED  BY <3>1 DEF Emptied
  <2>8. ASSUME NEW d \in Clients, NEW g \in Groups PROVE Agrees(d, g)'
    <3>1. CASE g = Current.g /\ (groupsOf[d][g] = 0 \/ d = c)
      <4>1. groupsOf'[d][g] = 0
        BY <2>2, <2>6, <3>1
      <4>2. Erasing(g)'
        BY <2>3, <2>4, <3>1 DEF Erasing, Erasures
      <4> QED  BY <4>1, <4>2 DEF Agrees
    <3>2. CASE ~(g = Current.g /\ (groupsOf[d][g] = 0 \/ d = c))
      <4>1. groupsOf'[d][g] = groupsOf[d][g] /\ members'[g][d] = members[g][d]
        BY <2>1, <2>2, <3>2
      <4>2. ~Owes(u, d, g) /\ \A v \in Elements(<<u>>) : ~Owes(v, d, g)
        BY <2>3, <2>4 DEF Owes
      <4>3. CASE Runs(<<u>>)
        <5>1. \E v \in Elements(<<u>>) : v.g = Current.g /\ v.step \in Erasures
          BY <2>3, <2>4 DEF Erasures
        <5> QED  BY <1>3, <4>1, <4>2, <4>3, <5>1, AgreesOn
      <4>4. CASE Stays(u)
        <5>1. CASE Erasing(g) /\ groupsOf[d][g] = 0
          <6>1. Erasing(g)'
            BY <1>1, <2>3, <2>4, <5>1 DEF Erasing, Erasures
          <6> QED  BY <4>1, <5>1, <6>1 DEF Agrees
        <5>2. CASE Converging(Pipeline, d, g, groupsOf[d][g] > 0, members[g][d] > 0)
          <6> DEFINE a == groupsOf[d][g] > 0
                     b == members[g][d] > 0
                     q == Pipeline
                     r == Pipeline'
          <6>1. a \in BOOLEAN /\ b \in BOOLEAN /\ Converging(q, d, g, a, b)
            BY <5>2
          <6>2. /\ DOMAIN r = DOMAIN q /\ \A i \in DOMAIN q : i # 1 => r[i] = q[i]
                /\ ~Owes(q[1], d, g) /\ ~Owes(r[1], d, g)
            BY <1>1, <1>3, <4>2, <4>4 DEF Stays
          <6> HIDE DEF a, b, q, r
          <6>3. Converging(r, d, g, a, b)
            BY <6>1, <6>2, ConvergeStays
          <6>4. Converging(Pipeline', d, g, groupsOf'[d][g] > 0, members'[g][d] > 0)
            BY <4>1, <6>3 DEF a, b, r
          <6> QED  BY <6>4 DEF Agrees
        <5> QED  BY <1>3, <5>1, <5>2 DEF Agrees
      <4> QED  BY <2>3, <4>3, <4>4
    <3> QED  BY <3>1, <3>2
  <2> QED  BY <2>7, <2>8 DEF Coherent
<1>6. CASE Current.step = "erase.hdel"
  <2>1. /\ UNCHANGED <<members, groupsOf>>
        /\ \E u : Runs(<<u>>) /\ EraseNext(u, "erase.del", Current.left)
    BY <1>6, EraseDoes
  <2>2. PICK u : Runs(<<u>>) /\ u.g = Current.g /\ u.step = "erase.del"
    BY <2>1 DEF EraseNext
  <2>3. Queued' = Behind \cup {u} /\ Elements(<<u>>) = {u}
    BY <2>2, Few DEF Runs
  <2>4. Emptied'
    <3>1. \A c \in Clients : groupsOf[c][u.g] = 0
      BY <1>1, <1>6, <2>2 DEF Coherent, Emptied
    <3> QED  BY <1>1, <2>1, <2>2, <2>3, <3>1 DEF Coherent, Emptied
  <2>5. ASSUME NEW c \in Clients, NEW g \in Groups PROVE Agrees(c, g)'
    <3>1. \A v \in Elements(<<u>>) : ~Owes(v, c, g)
      BY <2>2, <2>3 DEF Owes
    <3>2. \E v \in Elements(<<u>>) : v.g = Current.g /\ v.step \in Erasures
      BY <2>2, <2>3 DEF Erasures
    <3> QED  BY <1>3, <2>1, <2>2, <3>1, <3>2, AgreesOn
  <2> QED  BY <2>4, <2>5 DEF Coherent
<1>7. CASE Current.step = "erase.del"
  <2>1. /\ groupsOf' = groupsOf /\ Runs(<<>>)
        /\ \A d \in Clients, h \in Groups :
              members'[h][d] = IF h = Current.g THEN 0 ELSE members[h][d]
    BY <1>7, EraseDoes
  <2>2. Queued' = Behind /\ Elements(<<>>) = {}
    BY <2>1, Few DEF Runs
  <2>3. Emptied'
    BY <1>1, <2>1, <2>2 DEF Coherent, Emptied
  <2>4. ASSUME NEW c \in Clients, NEW g \in Groups PROVE Agrees(c, g)'
    <3>1. CASE g = Current.g
      <4>1. groupsOf'[c][g] = 0 /\ members'[g][c] = 0
        BY <1>1, <1>7, <2>1, <3>1 DEF Coherent, Emptied
      <4>2. \A t \in Queued' : Owes(t, c, g) => t.step # "push.lpushGroup"
        BY <1>0, <1>1, <2>2, <3>1, NoPushHere DEF Owes, PushSteps
      <4>3. \A i \in DOMAIN Pipeline' : Owes(Pipeline'[i], c, g) => Pipeline'[i].step # "push.lpushGroup"
        BY <4>2 DEF Queued
      <4>4. Converging(Pipeline', c, g, FALSE, FALSE)
        BY <4>3, ConvergeEmpty
      <4>5. (groupsOf'[c][g] > 0) = FALSE /\ (members'[g][c] > 0) = FALSE
        BY <4>1
      <4> QED  BY <4>4, <4>5 DEF Agrees
    <3>2. CASE g # Current.g
      BY <1>3, <2>1, <2>2, <3>2, AgreesOn
    <3> QED  BY <3>1, <3>2
  <2> QED  BY <2>3, <2>4 DEF Coherent
<1> QED  BY <1>0, <1>4, <1>5, <1>6, <1>7 DEF EraseSteps

LEMMA CoherentStep == TypeInv /\ Births /\ Coherent /\ [Next]_vars => Coherent'
<1> SUFFICES ASSUME TypeInv, Births, Coherent, [Next]_vars PROVE Coherent'
  OBVIOUS
<1>1. CASE UNCHANGED vars
  BY <1>1 DEF vars, storeVars, Coherent, Emptied, Agrees, Erasing, Queued, Pipeline
<1>2. ASSUME NEW s \in Servers, ServerStep(s) PROVE Coherent'
  BY <1>2, CoherentRequest, CoherentOther, CoherentPush, CoherentRemove, CoherentErase
     DEF ServerStep, IntervalStep
<1> QED  BY <1>1, <1>2, CoherentClient, CoherentInterval DEF Next

LEMMA CoherentAlways == Spec => [](TypeInv /\ Births /\ Coherent)
<1>1. Init => TypeInv /\ Births /\ Coherent
  BY TypeInit, BirthsInit, CoherentInit
<1>2. TypeInv /\ Births /\ Coherent /\ [Next]_vars => (TypeInv /\ Births /\ Coherent)'
  BY TypeStep, BirthsStep, CoherentStep
<1> QED  BY <1>1, <1>2, PTL DEF Spec

(* The lists of clients and groups agree once the pipeline is empty,        *)
(* although matching runs, erases and requests wrote them in between, for   *)
(* any number of overlapping runs and requests: second writes of one        *)
(* connection stay in order, and an erase never works on a group that is    *)
(* still being filled.                                                      *)
THEOREM ListsAgreeWhenQuiet == Spec => []QuietSymmetry
<1>1. TypeInv /\ Coherent => QuietSymmetry
  <2> SUFFICES ASSUME TypeInv, Coherent, Quiet, NEW c \in Clients, NEW g \in Groups
               PROVE  Symmetric(c, g)
    BY DEF QuietSymmetry
  <2>1. Pipeline = <<>> /\ Queued = {}
    BY OneServer DEF Quiet, Pipeline, Queued
  <2>2. Converging(Pipeline, c, g, groupsOf[c][g] > 0, members[g][c] > 0)
    BY <2>1 DEF Coherent, Agrees, Erasing
  <2> QED  BY <2>1, <2>2 DEF Converging, Symmetric
<1> QED  BY <1>1, CoherentAlways, PTL

-------------------------------------------------------------------------------
(* What a chain goes on with, one step of the server at a time.             *)

(* The commands of one request, in the order its chain issues them. *)
Chain(now, then) ==
    \/ now = "search.lrange" /\ then = "push.lrangeGroup"
    \/ now = "push.lrangeGroup" /\ then = "push.lrangeClient"
    \/ now = "push.lrangeClient" /\ then = "push.lpushClient"
    \/ now = "push.lpushClient" /\ then = "push.lpushGroup"
    \/ now = "get.hget" /\ then \in {"member.lrange", "remove.lremClient"}
    \/ /\ now = "member.lrange"
       /\ then \in {"mmc.lrange", "mmc.expire", "notify.lrange", "remove.lremClient"}
    \/ now = "mmc.lrange" /\ then = "mmc.lpush"
    \/ now = "match.lrange" /\ then = "close.lrange"
    \/ now = "remove.lremClient" /\ then = "remove.lremGroup"
    \/ now = "remove.lremGroup" /\ then = "notify.lrange"
    \/ now = "mmc.llen" /\ then \in {"mmc.del", "notify.lrange"}
    \/ now = "erase.lrangeGroup" /\ then \in {"erase.lremClient", "erase.hdel"}
    \/ now = "erase.lremClient" /\ then \in {"erase.lremClient", "erase.hdel"}
    \/ now = "erase.hdel" /\ then = "erase.del"

GoesOn(u) == /\ u.job = Current.job /\ u.c = Current.c /\ u.g = Current.g /\ u.for = Current.for
             /\ Chain(Current.step, u.step)
             /\ u.step = "mmc.lrange" => members[Current.g][Current.c] > 0
             /\ u.step = "mmc.lpush" => ~(mmc[Current.g][Current.c] > 0)

Turns(u) ==
    \/ /\ Current.step = "get.hget" /\ Current.job \in {"confirm", "exit", "close"}
       /\ Current.g \in Matches
       /\ u.step = "erase.lrangeGroup" /\ u.job = "heal" /\ u.g = Current.g /\ u.for = None
    \/ /\ Current.step = "match.lrange" /\ Current.job = "close"
       /\ u.step = "notify.lrange" /\ u.job = "exit" /\ u.c = Current.c /\ u.for = None
       /\ u.g \in Matches /\ groupsOf[Current.c][u.g] > 0
    \/ /\ Current.step = "close.lrange" /\ Current.job = "close"
       /\ u.step = "get.hget" /\ u.job = "close" /\ u.c = Current.c /\ u.for = None
       /\ u.g \in Groups /\ groupsOf[Current.c][u.g] > 0
    \/ /\ Current.step = "mm.lrange" /\ Current.job = "match"
       /\ u.step = "remove.lremClient" /\ u.job = "match" /\ u.g = Queue
       /\ u.for \in Matches \ minted
    \/ /\ Current.step = "remove.lremGroup" /\ Current.job = "match"
       /\ u.step = "create.hset" /\ u.job = "match" /\ u.g = Current.for /\ u.for = Current.for
       /\ \A v \in Behind : v.for # Current.for
    \/ /\ Current.step = "create.hset" /\ Current.job = "match"
       /\ u.step = "push.lrangeGroup" /\ u.job = "match" /\ u.c \in Range(lobby[Current.g])
       /\ u.g = Current.g /\ u.for = Current.for
    \/ /\ Current.step \in PushSteps /\ Current.job = "match" /\ Ends(Current) /\ AllPushed(Current)
       /\ u.step = "notify.lrange" /\ u.job = "found" /\ u.for = None
       /\ \E r \in RunIds : Current.for \in Range(batch[r]) /\ u.g \in Range(batch[r])

Distinct(f) == \A i, j \in DOMAIN f : f[i].step = f[j].step => i = j

(* What is behind the head stays, and what follows it comes from its chain, *)
(* at most one command of a kind.                                           *)
Proceeds(f) ==
    /\ \/ Runs(f)
       \/ \E u : f = <<u>> /\ Stays(u) /\ u.step = "erase.lremClient"
    /\ \A u \in Elements(f) : GoesOn(u) \/ Turns(u)
    /\ Distinct(f) \/ \A u \in Elements(f) : ~Chain(Current.step, u.step)

LEMMA FewDistinct ==
    /\ Distinct(<<>>)
    /\ \A u : Distinct(<<u>>)
    /\ \A u, v : u.step # v.step => Distinct(<<u, v>>)
    /\ \A u, v, w : u.step # v.step /\ u.step # w.step /\ v.step # w.step => Distinct(<<u, v, w>>)
BY DEF Distinct

LEMMA RequestProceeds == ASSUME TypeInv, NEW s \in Servers, RequestStep(s) PROVE \E f : Proceeds(f)
<1>0. \A f : Runs(f) => Current \in Good
  BY Head1 DEF Runs
<1>1. CASE SearchCheck(s)
  <2>1. /\ Current.step = "search.lrange"
        /\ Runs(<<At(Current, "push.lrangeGroup")>>) \/ Runs(<<>>)
    BY <1>1, SearchDoes
  <2> QED  BY <1>0, <2>1, AtFields, Few, FewDistinct DEF Proceeds, GoesOn, Chain
<1>2. CASE Get(s)
  <2>1. /\ Current.step = "get.hget" /\ Current.job \in {"confirm", "exit", "close"}
        /\ \/ Runs(<<At(Current, "remove.lremClient")>>)
           \/ Runs(<<At(Current, "member.lrange")>>)
           \/ Current.g \in Matches /\ Runs(<<Heal(Current)>>)
    BY <1>2, GetDoes
  <2>2. CASE Runs(<<At(Current, "remove.lremClient")>>) \/ Runs(<<At(Current, "member.lrange")>>)
    BY <1>0, <2>1, <2>2, AtFields, Few, FewDistinct DEF Proceeds, GoesOn, Chain
  <2>3. CASE Current.g \in Matches /\ Runs(<<Heal(Current)>>)
    BY <1>0, <2>1, <2>3, HealGood, Few, FewDistinct DEF Proceeds, Turns, Chain
  <2> QED  BY <2>1, <2>2, <2>3
<1>3. CASE MemberCheck(s)
  <2>1. /\ Current.step = "member.lrange"
        /\ \/ Runs(<<>>)
           \/ /\ members[Current.g][Current.c] > 0
              /\ Runs(<<At(Current, "mmc.lrange"), At(Current, "mmc.expire"),
                        At(Current, "notify.lrange")>>)
           \/ Runs(<<At(Current, "remove.lremClient"), At(Current, "notify.lrange")>>)
    BY <1>3, MemberDoes
  <2> QED  BY <1>0, <2>1, AtFields, Few, FewDistinct DEF Proceeds, GoesOn, Chain
<1>4. CASE ReadConfirmations(s)
  <2>1. /\ Current.step = "mmc.lrange"
        /\ \/ Runs(<<>>)
           \/ ~(mmc[Current.g][Current.c] > 0) /\ Runs(<<At(Current, "mmc.lpush")>>)
    BY <1>4, ReadConfirmationsDoes
  <2> QED  BY <1>0, <2>1, AtFields, Few, FewDistinct DEF Proceeds, GoesOn, Chain
<1>5. CASE AddConfirmation(s) \/ ExpireConfirmations(s)
  <2>1. Runs(<<>>)
    BY <1>5, AddConfirmationDoes, ExpireConfirmationsDoes
  <2> QED  BY <2>1, Few, FewDistinct DEF Proceeds
<1>6. CASE CloseCheck(s)
  <2>1. /\ Current.step = "match.lrange" /\ Current.job = "close" /\ Current.c \in Clients
        /\ \/ Runs(<<At(Current, "close.lrange")>>)
           \/ \E m \in Matches :
                 /\ groupsOf[Current.c][m] = 1
                 /\ Runs(<<At(Current, "close.lrange"),
                           RoomTask("notify.lrange", "exit", Current.c, m, None)>>)
    BY <1>6, CloseCheckDoes
  <2>2. CASE Runs(<<At(Current, "close.lrange")>>)
    BY <1>0, <2>1, <2>2, AtFields, Few, FewDistinct DEF Proceeds, GoesOn, Chain
  <2>3. ASSUME NEW m \in Matches, groupsOf[Current.c][m] = 1,
               Runs(<<At(Current, "close.lrange"),
                      RoomTask("notify.lrange", "exit", Current.c, m, None)>>)
        PROVE  \E f : Proceeds(f)
    <3> DEFINE u == RoomTask("notify.lrange", "exit", Current.c, m, None)
               v == At(Current, "close.lrange")
    <3>1. u.g = m /\ u.step = "notify.lrange" /\ u.job = "exit" /\ u.c = Current.c /\ u.for = None
      BY RoomFields
    <3>2. GoesOn(v)
      BY <1>0, <2>1, <2>3, AtFields DEF GoesOn, Chain
    <3>3. Elements(<<v, u>>) = {v, u} /\ Runs(<<v, u>>) /\ v.step # u.step
      BY <1>0, <2>3, <3>1, Few, AtFields
    <3> HIDE DEF u, v
    <3>4. Turns(u)
      BY <2>1, <2>3, <3>1 DEF Turns
    <3> QED  BY <3>2, <3>3, <3>4, FewDistinct DEF Proceeds
  <2> QED  BY <2>1, <2>2, <2>3
<1>7. CASE LeaveAllGroups(s)
  <2>1. /\ Current.step = "close.lrange" /\ Current.job = "close"
        /\ \E f \in Seq(Good) :
              /\ Runs(f)
              /\ Elements(f) = {RoomTask("get.hget", "close", Current.c, g, None) :
                                   g \in GroupsOfClient(Current.c)}
    BY <1>7, LeaveAllDoes
  <2>2. PICK f \in Seq(Good) :
              /\ Runs(f)
              /\ Elements(f) = {RoomTask("get.hget", "close", Current.c, g, None) :
                                   g \in GroupsOfClient(Current.c)}
    BY <2>1
  <2>3. \A u \in Elements(f) : /\ u.step = "get.hget" /\ u.job = "close" /\ u.c = Current.c
                               /\ u.for = None
                               /\ u.g \in Groups /\ groupsOf[Current.c][u.g] > 0
    BY <2>2, RoomFields DEF GroupsOfClient
  <2> QED  BY <2>1, <2>2, <2>3 DEF Proceeds, Turns, Chain
<1> QED  BY <1>1, <1>2, <1>3, <1>4, <1>5, <1>6, <1>7 DEF RequestStep

LEMMA RunProceeds ==
    ASSUME TypeInv, NEW s \in Servers, MatchQueue(s) \/ CreateEntry(s) \/ Push(s)
    PROVE  \E f : Proceeds(f)
<1>0. \A f : Runs(f) => Current \in Good
  BY Head1 DEF Runs
<1>1. CASE MatchQueue(s)
  <2>1. /\ Current.step = "mm.lrange" /\ Current.job = "match"
        /\ \E new \in SUBSET (Matches \ minted), f \in Seq(Good) :
              /\ Runs(f)
              /\ \A t \in Elements(f) : t.g = Queue /\ t.step = "remove.lremClient"
                                        /\ t.job = "match" /\ t.for \in new
    BY <1>1, QueueCut, QueueCutBriefly
  <2> QED  BY <2>1 DEF Proceeds, Turns, Chain
<1>2. CASE CreateEntry(s)
  <2>1. /\ Current.step = "create.hset" /\ Current.job = "match" /\ Current.for = Current.g
        /\ \E f \in Seq(Good) :
              /\ Runs(f)
              /\ Elements(f) = {RoomTask("push.lrangeGroup", "match", c, Current.g, Current.g) :
                                   c \in Range(lobby[Current.g])}
    BY <1>2, CreateDoes
  <2>2. PICK f \in Seq(Good) :
              /\ Runs(f)
              /\ Elements(f) = {RoomTask("push.lrangeGroup", "match", c, Current.g, Current.g) :
                                   c \in Range(lobby[Current.g])}
    BY <2>1
  <2>3. \A u \in Elements(f) : /\ u.step = "push.lrangeGroup" /\ u.job = "match"
                               /\ u.c \in Range(lobby[Current.g])
                               /\ u.g = Current.g /\ u.for = Current.g
    BY <2>2, RoomFields
  <2> QED  BY <2>1, <2>2, <2>3 DEF Proceeds, Turns, Chain
<1>3. CASE Push(s)
  <2>1. /\ Current.step \in PushSteps
        /\ \/ Runs(Pushed(Current)) /\ Ends(Current)
           \/ Runs(<<At(Current, "push.lrangeClient")>>) /\ Current.step = "push.lrangeGroup"
           \/ Runs(<<At(Current, "push.lpushClient")>>) /\ Current.step = "push.lrangeClient"
           \/ Runs(<<At(Current, "push.lpushGroup")>>) /\ Current.step = "push.lpushClient"
    BY <1>3, PushDoes
  <2>2. CASE Runs(Pushed(Current)) /\ Ends(Current)
    <3>1. CASE AllPushed(Current)
      <4>1. Current.job = "match" /\ Current \in Queued /\ Current.step # "mm.lrange"
        BY <2>1, <2>2, <3>1, Head1 DEF AllPushed, PushSteps, Runs
      <4>2. \E r \in RunIds : Current.for \in Range(batch[r])
        BY <4>1 DEF TypeInv, Filling
      <4>3. RunOf(Current) \in RunIds /\ Current.for \in Range(batch[RunOf(Current)])
        BY <4>2 DEF RunOf
      <4> DEFINE ids == batch[RunOf(Current)]
      <4>4. Pushed(Current) = [i \in DOMAIN ids |-> RoomTask("notify.lrange", "found", None, ids[i], None)]
        BY <3>1 DEF Pushed
      <4>5. \A u \in Elements(Pushed(Current)) :
               /\ u.step = "notify.lrange" /\ u.job = "found" /\ u.for = None
               /\ u.g \in Range(ids)
        BY <4>4, RoomFields DEF Elements, Range
      <4>6. \A u \in Elements(Pushed(Current)) : Turns(u)
        BY <2>1, <2>2, <3>1, <4>1, <4>3, <4>5 DEF Turns
      <4>7. \A u \in Elements(Pushed(Current)) : ~Chain(Current.step, u.step)
        BY <2>1, <4>5 DEF Chain, PushSteps
      <4> QED  BY <2>2, <4>6, <4>7 DEF Proceeds
    <3>2. CASE ~AllPushed(Current)
      BY <2>2, <3>2, Few, FewDistinct DEF Proceeds, Pushed
    <3> QED  BY <3>1, <3>2
  <2>3. CASE ~(Runs(Pushed(Current)) /\ Ends(Current))
    BY <1>0, <2>1, <2>3, AtFields, Few, FewDistinct DEF Proceeds, GoesOn, Chain
  <2> QED  BY <2>2, <2>3
<1> QED  BY <1>1, <1>2, <1>3

LEMMA OtherProceeds ==
    ASSUME TypeInv, NEW s \in Servers,
           \/ CheckSize(s) \/ EraseConfirmations(s) \/ NotifyGroup(s)
           \/ RemoveBegin(s) \/ RemoveEnd(s) \/ Erase(s)
    PROVE  \E f : Proceeds(f)
<1>0. \A f : Runs(f) => Current \in Good
  BY Head1 DEF Runs
<1>1. CASE CheckSize(s)
  <2>1. /\ Current.step = "mmc.llen"
        /\ Runs(<<At(Current, "mmc.del"), At(Current, "notify.lrange")>>) \/ Runs(<<>>)
    BY <1>1, CheckSizeDoes
  <2> QED  BY <1>0, <2>1, AtFields, Few, FewDistinct DEF Proceeds, GoesOn, Chain
<1>2. CASE EraseConfirmations(s) \/ NotifyGroup(s)
  <2>1. Runs(<<>>)
    BY <1>2, EraseConfirmationsDoes, NotifyDoes
  <2> QED  BY <2>1, Few, FewDistinct DEF Proceeds
<1>3. CASE RemoveBegin(s)
  <2>1. Current.step = "remove.lremClient" /\ Runs(<<At(Current, "remove.lremGroup")>>)
    BY <1>3, RemoveBeginDoes
  <2> QED  BY <1>0, <2>1, AtFields, Few, FewDistinct DEF Proceeds, GoesOn, Chain
<1>4. CASE RemoveEnd(s)
  <2>1. /\ Current.step = "remove.lremGroup" /\ Runs(Removed(Current))
        /\ \/ Removed(Current) = <<>>
           \/ Removed(Current) = <<At(Current, "notify.lrange")>>
           \/ /\ Current.job = "match" /\ \A v \in Behind : v.for # Current.for
              /\ Removed(Current) = <<RoomTask("create.hset", "match", None, Current.for, Current.for)>>
    BY <1>4, RemoveEndDoes
  <2>2. \A u \in Elements(Removed(Current)) : GoesOn(u) \/ Turns(u)
    BY <1>0, <2>1, AtFields, RoomFields, Few DEF GoesOn, Turns, Chain
  <2> QED  BY <2>1, <2>2, FewDistinct DEF Proceeds
<1>5. CASE Erase(s)
  <2>1. \/ Runs(<<>>)
        \/ \E u : /\ \/ Runs(<<u>>)
                     \/ Stays(u) /\ u.step = "erase.lremClient"
                  /\ u.g = Current.g /\ u.job = Current.job /\ u.c = Current.c /\ u.for = Current.for
                  /\ Chain(Current.step, u.step) /\ u.step \in EraseSteps
    BY <1>5, EraseDoes DEF EraseNext, EraseSteps, Chain
  <2>2. CASE Runs(<<>>)
    BY <2>2, Few, FewDistinct DEF Proceeds
  <2>3. ASSUME NEW u, Runs(<<u>>) \/ (Stays(u) /\ u.step = "erase.lremClient"), GoesOn(u)
        PROVE  \E f : Proceeds(f)
    <3>1. Elements(<<u>>) = {u}
      BY Few
    <3> QED  BY <2>3, <3>1, FewDistinct DEF Proceeds
  <2> QED  BY <2>1, <2>2, <2>3 DEF GoesOn, EraseSteps
<1> QED  BY <1>1, <1>2, <1>3, <1>4, <1>5

LEMMA ServerProceeds == ASSUME TypeInv, NEW s \in Servers, ServerStep(s) PROVE \E f : Proceeds(f)
BY RequestProceeds, RunProceeds, OtherProceeds DEF ServerStep, IntervalStep

LEMMA Behindhand ==
    ASSUME TypeInv, NEW f, Proceeds(f)
    PROVE  /\ Pipeline # <<>> /\ Queued' = Behind \cup Elements(f) /\ Queued' \subseteq Good
           /\ Queued = {Current} \cup Behind
<1>1. Pipeline # <<>> /\ Queued' = Behind \cup Elements(f) /\ pipe' \in [Servers -> Seq(Good)]
  BY Few DEF Proceeds, Runs, Stays
<1>2. Queued' \subseteq Good
  BY <1>1, OneServer, ElementOfSeq DEF Queued, Pipeline
<1> QED  BY <1>1, <1>2, Head1

-------------------------------------------------------------------------------
(* Decisions.  With one matching run the sizes asked for in a round are     *)
(* answered before the run that follows it gets to its first reply, so the  *)
(* next round finds none of them open: the sizes are queued in front of     *)
(* every command of the run.                                                *)

Sizings(m) == {t \in Good : t.step = "mmc.llen" /\ t.g = m}

InTurn == \A i, j \in DOMAIN Pipeline :
             Pipeline[i].step = "mmc.llen" /\ Pipeline[j].job = "match" => i < j

Deciding ==
    /\ InTurn
    /\ \A r \in RunIds : run[r] = "pausing" => \A t \in Queued : t.step # "mmc.llen"
    /\ \A t \in Queued : t.step = "mmc.llen" => t.g \in confirming
    /\ \A m \in Matches : AtMostOnce(Sizings(m))
    /\ \A m \in Matches : Len(verdicts[m]) <= 1
    /\ \A m \in Matches : verdicts[m] # <<>> => m \in minted /\ Loose(m) /\ m \notin confirming

(* Commands that are no sizes keep the order, and so do sizes behind a      *)
(* pipeline without commands of a run.                                      *)
LEMMA InTurnOn ==
    ASSUME TypeInv, InTurn, NEW f, Runs(f) \/ Adds(f), \A u \in Elements(f) : u.step # "mmc.llen"
    PROVE  InTurn'
<1> DEFINE q == Pipeline
<1>0. q \in Seq(Good) /\ \A i \in DOMAIN f : f[i].step # "mmc.llen"
  BY OneServer DEF TypeInv, Pipeline, Elements
<1>1. CASE Runs(f)
  <2> DEFINE p == Tail(q) \o f
  <2>1. /\ Len(q) \in Nat \ {0} /\ DOMAIN q = 1..Len(q)
        /\ Len(f) \in Nat /\ DOMAIN f = 1..Len(f)
        /\ DOMAIN p = 1..(Len(q) - 1 + Len(f))
        /\ \A i \in DOMAIN p : p[i] = IF i < Len(q) THEN q[i + 1] ELSE f[i - Len(q) + 1]
    BY <1>0, <1>1, StepElements, LenProperties, EmptySeq DEF Runs
  <2>2. Pipeline' = p
    BY <1>1 DEF Runs
  <2> HIDE DEF p
  <2>3. SUFFICES ASSUME NEW i \in DOMAIN p, NEW j \in DOMAIN p, p[i].step = "mmc.llen",
                        p[j].job = "match"
                 PROVE  i < j
    BY <2>2 DEF InTurn
  <2>4. i < Len(q)
    <3>1. ~(i < Len(q)) => i - Len(q) + 1 \in DOMAIN f /\ p[i] = f[i - Len(q) + 1]
      BY <2>1
    <3> QED  BY <1>0, <2>1, <2>3, <3>1
  <2>5. i + 1 \in DOMAIN q /\ p[i] = q[i + 1]
    BY <2>1, <2>4
  <2>6. CASE j < Len(q)
    <3>1. j + 1 \in DOMAIN q /\ p[j] = q[j + 1]
      BY <2>1, <2>6
    <3>2. i + 1 < j + 1
      BY <2>3, <2>5, <3>1 DEF InTurn
    <3> QED  BY <2>1, <3>2
  <2> QED  BY <2>1, <2>4, <2>6
<1>2. CASE Adds(f)
  <2> DEFINE p == q \o f
  <2>1. /\ Len(q) \in Nat /\ DOMAIN q = 1..Len(q)
        /\ Len(f) \in Nat /\ DOMAIN f = 1..Len(f)
        /\ DOMAIN p = 1..(Len(q) + Len(f))
        /\ \A i \in DOMAIN p : p[i] = IF i <= Len(q) THEN q[i] ELSE f[i - Len(q)]
    BY <1>0, <1>2, AppendElements, LenProperties DEF Adds
  <2>2. Pipeline' = p
    BY <1>2 DEF Adds
  <2> HIDE DEF p
  <2>3. SUFFICES ASSUME NEW i \in DOMAIN p, NEW j \in DOMAIN p, p[i].step = "mmc.llen",
                        p[j].job = "match"
                 PROVE  i < j
    BY <2>2 DEF InTurn
  <2>4. i <= Len(q)
    <3>1. ~(i <= Len(q)) => i - Len(q) \in DOMAIN f /\ p[i] = f[i - Len(q)]
      BY <2>1
    <3> QED  BY <1>0, <2>1, <2>3, <3>1
  <2>5. i \in DOMAIN q /\ p[i] = q[i]
    BY <2>1, <2>4
  <2>6. CASE j <= Len(q)
    <3>1. j \in DOMAIN q /\ p[j] = q[j]
      BY <2>1, <2>6
    <3> QED  BY <2>3, <2>5, <3>1 DEF InTurn
  <2> QED  BY <2>1, <2>4, <2>6
<1> QED  BY <1>1, <1>2

(* No command of a chain asks for a size. *)
LEMMA DecidingQueue ==
    ASSUME TypeInv, Deciding, NEW f, Proceeds(f) \/ Adds(f),
           \A u \in Elements(f) : u.step # "mmc.llen"
    PROVE  /\ InTurn' /\ \A m \in Matches : AtMostOnce(Sizings(m))'
           /\ \A t \in Queued' : t.step = "mmc.llen" => t \in Queued
<1>1. CASE Runs(f) \/ Adds(f)
  <2>1. InTurn'
    BY <1>1, InTurnOn DEF Deciding
  <2>2. ASSUME NEW m \in Matches PROVE AtMostOnce(Sizings(m))'
    <3>1. AtMostOnce(Sizings(m)) /\ Elements(f) \cap Sizings(m) = {}
      BY DEF Deciding, Sizings
    <3>2. \A i, j \in DOMAIN f : f[i] \in Sizings(m) /\ f[j] \in Sizings(m) => i = j
      BY <3>1 DEF Elements
    <3>3. Pipeline \in Seq(Good)
      BY OneServer DEF TypeInv, Pipeline
    <3>4. CASE Runs(f)
      BY <3>1, <3>2, <3>3, <3>4, OnceAgain DEF Runs
    <3>5. CASE Adds(f)
      BY <3>1, <3>2, <3>3, <3>5, OnceMore DEF Adds
    <3> QED  BY <1>1, <3>4, <3>5
  <2>3. \A t \in Queued' : t \in Queued \/ t \in Elements(f)
    BY <1>1, Head1 DEF Runs, Adds
  <2> QED  BY <2>1, <2>2, <2>3
<1>2. ASSUME NEW u, Stays(u), f = <<u>>, u.step = "erase.lremClient"
      PROVE  /\ InTurn' /\ \A m \in Matches : AtMostOnce(Sizings(m))'
             /\ \A t \in Queued' : t.step = "mmc.llen" => t \in Queued
  <2>1. u.step # "mmc.llen"
    BY <1>2, Few
  <2>2. \A t \in Queued' : t \in Queued \/ t = u
    BY <1>2, Head1 DEF Stays
  <2>3. \A m \in Matches : u \notin Sizings(m)
    BY <2>1 DEF Sizings
  <2>4. \A m \in Matches : AtMostOnce(Sizings(m))'
    BY <1>2, <2>3, OnceReplaced DEF Stays, Deciding
  <2>5. ASSUME NEW i \in DOMAIN Pipeline', NEW j \in DOMAIN Pipeline',
               Pipeline'[i].step = "mmc.llen", Pipeline'[j].job = "match"
        PROVE  i < j
    <3>1. Pipeline \in Seq(Good) /\ DOMAIN Pipeline = 1..Len(Pipeline)
      BY OneServer, LenProperties DEF TypeInv, Pipeline
    <3>2. i # 1 /\ i \in DOMAIN Pipeline /\ Pipeline'[i] = Pipeline[i] /\ j \in DOMAIN Pipeline
      BY <1>2, <2>1, <2>5 DEF Stays
    <3>3. CASE j # 1
      BY <1>2, <2>5, <3>2, <3>3 DEF Stays, Deciding, InTurn
    <3>4. CASE j = 1
      <4>1. u.job = "match" /\ u \in Good
        BY <1>2, <2>5, <3>4 DEF Stays
      <4> QED  BY <1>2, <4>1, Kinds DEF Fits, RemoveSteps, PushSteps
    <3> QED  BY <3>3, <3>4
  <2> QED  BY <2>1, <2>2, <2>4, <2>5 DEF InTurn
<1> QED  BY <1>1, <1>2 DEF Proceeds

LEMMA NoSizing ==
    \A f : Proceeds(f) => \A u \in Elements(f) : u.step # "mmc.llen"
BY DEF Proceeds, GoesOn, Turns, Chain

LEMMA NoneOpen ==
    ASSUME TypeInv, InTurn, Pipeline # <<>>, Current.job = "match"
    PROVE  \A t \in Queued : t.step # "mmc.llen"
<1>1. /\ Pipeline \in Seq(Good) /\ DOMAIN Pipeline = 1..Len(Pipeline)
      /\ Len(Pipeline) \in Nat \ {0} /\ Pipeline[1] = Current
  BY Head1, LenProperties, EmptySeq
<1>2. \A i \in DOMAIN Pipeline : Pipeline[i].step = "mmc.llen" => i < 1
  BY <1>1 DEF InTurn
<1> QED  BY <1>1, <1>2 DEF Queued

LEMMA DecidingSame ==
    ASSUME TypeInv, Deciding, NEW f, Proceeds(f) \/ Adds(f),
           \A u \in Elements(f) : u.step # "mmc.llen",
           UNCHANGED <<minted, run, batch, confirming, verdicts>>
    PROVE  Deciding'
<1>1. /\ InTurn' /\ \A m \in Matches : AtMostOnce(Sizings(m))'
      /\ \A t \in Queued' : t.step = "mmc.llen" => t \in Queued
  BY DecidingQueue
<1>2. \A m : Loose(m) <=> Loose(m)'
  BY DEF Loose
<1> QED  BY <1>1, <1>2 DEF Deciding

LEMMA DecidingInit == Init => Deciding
<1> SUFFICES ASSUME Init PROVE Deciding
  OBVIOUS
<1>1. Pipeline = <<>> /\ DOMAIN Pipeline = {} /\ Queued = {}
  BY OneServer DEF Init, Pipeline, Queued
<1>2. \A m \in Matches : verdicts[m] = <<>> /\ Len(verdicts[m]) = 0
  BY DEF Init
<1> QED  BY <1>1, <1>2 DEF Deciding, InTurn, AtMostOnce

LEMMA DecidingRun ==
    ASSUME TypeInv, Births, Deciding, NEW s \in Servers, MatchQueue(s) \/ Push(s)
    PROVE  Deciding'
<1> USE DEF storeVars, runVars, roundVars, mmcVars, clientVars
<1>1. PICK f : Proceeds(f)
  BY RunProceeds
<1>2. /\ InTurn' /\ \A m \in Matches : AtMostOnce(Sizings(m))'
      /\ \A t \in Queued' : t.step = "mmc.llen" => t \in Queued
  BY <1>1, NoSizing, DecidingQueue
<1>3. batch \in [RunIds -> Seq(minted)] /\ DOMAIN batch = RunIds /\ minted \subseteq Matches
  BY TypesNow
<1>4. CASE MatchQueue(s)
  <2>1. Current.job = "match" /\ Current.step = "mm.lrange" /\ Current.for \in RunIds
    BY <1>4, QueueCut
  <2>2. PICK new \in SUBSET (Matches \ minted), ids \in Seq(Matches) :
               /\ Range(ids) = new /\ batch' = [batch EXCEPT ![Current.for] = ids]
               /\ minted' = minted \cup new
    BY <1>4, QueueCutBriefly
  <2>3. UNCHANGED <<confirming, verdicts>>
    BY <1>4, QueueCutBriefly
  <2>4. \A t \in Queued' : t.step # "mmc.llen"
    BY <1>1, <1>2, <2>1, NoneOpen, Behindhand DEF Deciding
  <2>5. \A p \in RunIds : Range(batch'[p]) = IF p = Current.for THEN new ELSE Range(batch[p])
    BY <1>3, <2>1, <2>2 DEF Range
  <2>6. \A m \in minted : Loose(m) => Loose(m)'
    BY <2>2, <2>5 DEF Loose
  <2> QED  BY <1>2, <2>2, <2>3, <2>4, <2>6 DEF Deciding
<1>5. CASE Push(s) /\ UNCHANGED <<run, batch, confirming>>
  <2>1. UNCHANGED <<minted, verdicts>>
    BY <1>5 DEF Push
  <2> QED  BY <1>1, <1>5, <2>1, NoSizing, DecidingSame
<1>6. CASE Push(s) /\ Ends(Current) /\ AllPushed(Current)
  <2> DEFINE r == RunOf(Current)
  <2>1. /\ Current.job = "match" /\ Current \in Queued /\ Current.step # "mm.lrange"
        /\ s = Server /\ Current = Head(pipe[s])
    BY <1>1, <1>6, PushDoes, Behindhand, OneServer DEF AllPushed, PushSteps, Current, Pipeline
  <2>2. \E p \in RunIds : Current.for \in Range(batch[p])
    BY <2>1 DEF TypeInv, Filling
  <2>3. r \in RunIds /\ Current.for \in Range(batch[r])
    BY <2>2 DEF RunOf
  <2>4. /\ confirming' = confirming \cup Range(batch[r])
        /\ batch' = [batch EXCEPT ![r] = <<>>]
        /\ UNCHANGED <<minted, verdicts>>
    BY <1>6, <2>1 DEF Push
  <2>5. \A t \in Queued' : t.step # "mmc.llen"
    BY <1>1, <1>2, <2>1, NoneOpen, Behindhand DEF Deciding
  <2>6. \A p \in RunIds : Range(batch'[p]) = IF p = r THEN {} ELSE Range(batch[p])
    BY <1>3, <2>3, <2>4 DEF Range
  <2>7. \A m : Loose(m) => Loose(m)' /\ m \notin Range(batch[r])
    BY <2>3, <2>6 DEF Loose
  <2> QED  BY <1>2, <2>4, <2>5, <2>7 DEF Deciding
<1>7. Push(s) => \/ UNCHANGED <<run, batch, confirming>>
                 \/ Ends(Current) /\ AllPushed(Current)
  BY OneServer DEF Push, Current, Pipeline
<1> QED  BY <1>4, <1>5, <1>6, <1>7

LEMMA DecidingSize ==
    ASSUME TypeInv, Births, Deciding, NEW s \in Servers, CheckSize(s)
    PROVE  Deciding'
<1> USE DEF storeVars, runVars, roundVars, mmcVars, clientVars
<1>1. PICK f : Proceeds(f)
  BY OtherProceeds
<1>2. /\ InTurn' /\ \A m \in Matches : AtMostOnce(Sizings(m))'
      /\ \A t \in Queued' : t.step = "mmc.llen" => t \in Queued
  BY <1>1, NoSizing, DecidingQueue
<1>3. PICK g : g = Current.g
  OBVIOUS
<1>4. /\ Current.step = "mmc.llen" /\ g \in Matches /\ UNCHANGED <<minted, run, batch>>
      /\ \/ /\ confirming' = confirming \ {g}
            /\ verdicts' = [verdicts EXCEPT ![g] = Append(@, "start")]
         \/ UNCHANGED <<confirming, verdicts>>
  BY <1>3, CheckSizeDoes
<1>5. Current \in Queued /\ Current \in Good /\ Pipeline # <<>>
  BY <1>1, Behindhand, Head1
<1>6. g \in confirming /\ verdicts[g] = <<>> /\ confirming \subseteq minted /\ Loose(g)
  <2>1. g \in confirming
    BY <1>3, <1>4, <1>5 DEF Deciding
  <2>2. verdicts[g] = <<>>
    BY <1>4, <2>1 DEF Deciding
  <2> QED  BY <2>1, <2>2, TypesNow DEF Births
<1>7. CASE UNCHANGED <<confirming, verdicts>>
  BY <1>1, <1>4, <1>7, NoSizing, DecidingSame
<1>8. CASE /\ confirming' = confirming \ {g}
           /\ verdicts' = [verdicts EXCEPT ![g] = Append(@, "start")]
  <2>1. \A m \in Matches : verdicts'[m] = IF m = g THEN <<"start">> ELSE verdicts[m]
    BY <1>4, <1>6, <1>8, TypesNow
  <2>2. Len(<<"start">>) = 1
    OBVIOUS
  <2>3. \A t \in Queued' : t.step = "mmc.llen" => t.g # g
    <3>1. Sizings(g)' = Sizings(g)
      BY DEF Sizings, Good
    <3>2. Elements(f) \cap Sizings(g) = {} /\ Queued' = Behind \cup Elements(f)
      BY <1>1, NoSizing, Behindhand DEF Sizings
    <3>3. Behind \cap Sizings(g) = {}
      <4>1. AtMostOnce(Sizings(g)) /\ Pipeline[1] \in Sizings(g)
        BY <1>3, <1>4, <1>5, Head1 DEF Deciding, Sizings
      <4>2. Pipeline \in Seq(Good) /\ DOMAIN Pipeline = 1..Len(Pipeline) /\ Len(Pipeline) \in Nat \ {0}
        BY <1>5, Head1, LenProperties, EmptySeq
      <4>3. \A i \in 2..Len(Pipeline) : Pipeline[i] \notin Sizings(g)
        BY <4>1, <4>2 DEF AtMostOnce
      <4> QED  BY <4>3 DEF Behind, Pipeline
    <3>4. Queued' \subseteq Good
      BY <1>1, Behindhand
    <3> QED  BY <3>2, <3>3, <3>4 DEF Sizings
  <2>4. \A m : Loose(m) => Loose(m)'
    BY <1>4 DEF Loose
  <2> QED  BY <1>2, <1>4, <1>6, <1>8, <2>1, <2>2, <2>3, <2>4 DEF Deciding
<1> QED  BY <1>4, <1>7, <1>8

(* A round finds no run at work, and the sizes of the last one answered.    *)
LEMMA DecidingRound ==
    ASSUME TypeInv, Births, Deciding, NEW r, RunIds = {r}, ConfirmRound(r)
    PROVE  Deciding'
<1> USE DEF storeVars, runVars, roundVars, mmcVars, clientVars
<1>1. /\ run[r] = "pausing" /\ run' = [run EXCEPT ![r] = "idle"]
      /\ confirming' = confirming \ late
      /\ \A m \in Matches : verdicts'[m] = IF m \in late THEN Append(verdicts[m], "disband")
                                                         ELSE verdicts[m]
      /\ UNCHANGED <<minted, batch>>
  BY RoundDoes
<1>2. PICK f \in Seq(Good) :
         /\ Adds(f)
         /\ Elements(f) = {Round(m) : m \in confirming} \cup {Telling(m) : m \in ToTell}
         /\ \A i, j \in DOMAIN f : f[i].step = "mmc.llen" /\ f[i] = f[j] => i = j
  BY RoundDoes
<1>3. /\ late \subseteq confirming /\ confirming \subseteq minted /\ minted \subseteq Matches
      /\ run \in [RunIds -> {"idle", "matching", "pausing"}]
      /\ verdicts \in [Matches -> Seq({"start", "disband"})]
  BY TypesNow
<1>4. \A t \in Queued : t.step # "mmc.llen" /\ t.job # "match"
  <2>1. \A t \in Queued : t.step # "mmc.llen"
    BY <1>1 DEF Deciding
  <2>2. run[r] # "matching" /\ batch[r] = <<>> /\ Range(batch[r]) = {}
    BY <1>1 DEF TypeInv, Filling, Range
  <2>3. \A t \in Queued : t.step # "mm.lrange"
    <3>1. \A t \in Queued : t.step = "mm.lrange" => t \in Good
      BY OneServer, ElementOfSeq DEF TypeInv, Queued, Pipeline
    <3>2. \A t \in Queued : t.step = "mm.lrange" => t.for \in RunIds
      BY <3>1, Kinds DEF Fits, RemoveSteps, PushSteps
    <3> QED  BY <2>2, <3>2 DEF TypeInv, Filling
  <2> QED  BY <2>1, <2>2, <2>3 DEF TypeInv, Filling
<1>5. \A m \in confirming : /\ Round(m).step = "mmc.llen" => m \in confirming \ late
                            /\ Round(m).g = m /\ Round(m).job # "match"
                            /\ Telling(m).step # "mmc.llen" /\ Telling(m).job # "match"
  BY RoomFields DEF Round, Telling, Overdue
<1>6. \A u \in Elements(f) : /\ u.job # "match"
                             /\ u.step = "mmc.llen" => /\ u.g \in confirming \ late
                                                       /\ u = Round(u.g)
  BY <1>2, <1>5 DEF ToTell
<1>7. Queued' = Queued \cup Elements(f)
  BY <1>2 DEF Adds
<1>8. InTurn'
  <2>1. \A t \in Queued' : t.job # "match"
    BY <1>4, <1>6, <1>7
  <2> QED  BY <2>1 DEF InTurn, Queued
<1>9. ASSUME NEW m \in Matches PROVE AtMostOnce(Sizings(m))'
  <2>1. AtMostOnce(Sizings(m)) /\ Queued \cap Sizings(m) = {}
    BY <1>4 DEF Deciding, Sizings
  <2>2. \A i, j \in DOMAIN f : f[i] \in Sizings(m) /\ f[j] \in Sizings(m) => i = j
    <3> SUFFICES ASSUME NEW i \in DOMAIN f, NEW j \in DOMAIN f,
                        f[i] \in Sizings(m), f[j] \in Sizings(m)
                 PROVE  i = j
      OBVIOUS
    <3>1. f[i] = Round(m) /\ f[j] = Round(m) /\ f[i].step = "mmc.llen"
      BY <1>6 DEF Elements, Sizings
    <3> QED  BY <1>2, <3>1
  <2>3. Pipeline \in Seq(Good)
    BY OneServer DEF TypeInv, Pipeline
  <2> QED  BY <1>2, <2>1, <2>2, <2>3, OnceMore DEF Adds
<1>10. \A m : Loose(m) <=> Loose(m)'
  BY <1>1 DEF Loose
<1>11. \A m \in confirming : verdicts[m] = <<>> /\ Loose(m) /\ m \in minted
  BY <1>3 DEF Deciding, Births
<1>12. \A m \in Matches : Len(verdicts'[m]) <= 1
  <2>1. Append(<<>>, "disband") = <<"disband">> /\ Len(<<"disband">>) = 1
    OBVIOUS
  <2>2. \A m \in late : verdicts'[m] = <<"disband">>
    BY <1>1, <1>3, <1>11, <2>1
  <2>3. \A m \in Matches \ late : verdicts'[m] = verdicts[m] /\ Len(verdicts[m]) <= 1
    BY <1>1 DEF Deciding
  <2>4. Len(<<"disband">>) <= 1
    BY <2>1
  <2> QED  BY <2>2, <2>3, <2>4
<1>13. \A m \in Matches : verdicts'[m] # <<>> => m \in minted /\ Loose(m) /\ m \notin confirming'
  BY <1>1, <1>3, <1>11 DEF Deciding
<1>14. \A t \in Queued' : t.step = "mmc.llen" => t.g \in confirming'
  BY <1>1, <1>4, <1>6, <1>7
<1>15. \A p \in RunIds : run'[p] # "pausing"
  BY <1>1, <1>3
<1> QED  BY <1>1, <1>8, <1>9, <1>10, <1>12, <1>13, <1>14, <1>15 DEF Deciding

LEMMA DecidingStep ==
    ASSUME NEW r, RunIds = {r}
    PROVE  TypeInv /\ Births /\ Deciding /\ [Next]_vars => Deciding'
<1> USE DEF storeVars, runVars, roundVars, mmcVars, clientVars
<1> SUFFICES ASSUME TypeInv, Births, Deciding, [Next]_vars PROVE Deciding'
  OBVIOUS
<1>1. ASSUME UNCHANGED <<pipe, minted, run, batch, confirming, verdicts>> PROVE Deciding'
  BY <1>1 DEF Deciding, InTurn, AtMostOnce, Loose, Queued, Pipeline, Sizings, Good, Formed
<1>2. ASSUME NEW c \in Clients, ClientStep(c) PROVE Deciding'
  <2>1. UNCHANGED <<runVars, roundVars>>
    BY <1>2, ClientDoes
  <2>2. PICK op \in Jobs, st \in Steps, g \in Groups \cup {None} :
             Adds(<<RoomTask(st, op, c, g, None)>>) /\ st # "mmc.llen"
    BY <1>2, ClientDoes
  <2>3. \A u \in Elements(<<RoomTask(st, op, c, g, None)>>) : u.step # "mmc.llen"
    BY <2>2, Few, RoomFields
  <2> QED  BY <2>1, <2>2, <2>3, DecidingSame
<1>3. ASSUME NEW s \in Servers, ServerStep(s) PROVE Deciding'
  <2>1. CASE MatchQueue(s) \/ Push(s)
    BY <2>1, DecidingRun
  <2>2. CASE CheckSize(s)
    BY <2>2, DecidingSize
  <2>3. CASE \/ RequestStep(s) \/ CreateEntry(s) \/ EraseConfirmations(s) \/ NotifyGroup(s)
             \/ RemoveBegin(s) \/ RemoveEnd(s) \/ Erase(s)
    <3>1. PICK f : Proceeds(f)
      BY <1>3, ServerProceeds
    <3>2. UNCHANGED <<minted, run, batch, confirming, verdicts>>
      <4>1. CASE RequestStep(s)
        BY <4>1, SearchDoes, GetDoes, MemberDoes, ReadConfirmationsDoes, AddConfirmationDoes,
           ExpireConfirmationsDoes, CloseCheckDoes, LeaveAllDoes DEF RequestStep
      <4>2. CASE ~RequestStep(s)
        BY <2>3, <4>2 DEF CreateEntry, EraseConfirmations, NotifyGroup, RemoveBegin, RemoveEnd, Erase
      <4> QED  BY <4>1, <4>2
    <3> QED  BY <3>1, <3>2, NoSizing, DecidingSame
  <2> QED  BY <1>3, <2>1, <2>2, <2>3 DEF ServerStep, IntervalStep
<1>4. ASSUME NEW p \in RunIds, Tick(p) PROVE Deciding'
  <2> DEFINE u == RoomTask("mm.lrange", "match", None, Queue, p)
  <2>1. /\ Adds(<<u>>) /\ run' = [run EXCEPT ![p] = "matching"]
        /\ UNCHANGED <<minted, batch, roundVars>>
    BY <1>4, TickDoes
  <2>2. \A v \in Elements(<<u>>) : v.step # "mmc.llen"
    BY Few, RoomFields
  <2> HIDE DEF u
  <2>3. /\ InTurn' /\ \A m \in Matches : AtMostOnce(Sizings(m))'
        /\ \A t \in Queued' : t.step = "mmc.llen" => t \in Queued
    BY <2>1, <2>2, DecidingQueue
  <2>4. \A q \in RunIds : run'[q] = "pausing" => run[q] = "pausing"
    BY <2>1, TypesNow
  <2>5. \A m : Loose(m) <=> Loose(m)'
    BY <2>1 DEF Loose
  <2> QED  BY <2>1, <2>3, <2>4, <2>5 DEF Deciding
<1>5. ASSUME NEW p \in RunIds, ConfirmRound(p) PROVE Deciding'
  BY <1>5, DecidingRound
<1>6. ASSUME NEW m \in Matches, DisbandTimer(m) PROVE Deciding'
  <2> DEFINE u == RoomTask("erase.lrangeGroup", "disband", None, m, None)
  <2>1. Adds(<<u>>) /\ UNCHANGED <<runVars, confirming, verdicts>>
    BY <1>6, TimerDoes
  <2>2. \A v \in Elements(<<u>>) : v.step # "mmc.llen"
    BY Few, RoomFields
  <2> HIDE DEF u
  <2> QED  BY <2>1, <2>2, DecidingSame
<1>7. ASSUME NEW m \in Matches, TwoMinutes(m) \/ ExpireKey(m) PROVE Deciding'
  BY <1>1, <1>7 DEF TwoMinutes, ExpireKey
<1> QED  BY <1>1, <1>2, <1>3, <1>4, <1>5, <1>6, <1>7 DEF Next, vars

(* A match is decided once, if matching runs do not overlap: it is started  *)
(* or disbanded, never both and never twice, although the sizes of a round  *)
(* come in while time passes (_executeMatchConfirmationLogic).              *)
THEOREM MatchesAreDecidedOnce ==
    ASSUME NEW r, RunIds = {r}
    PROVE  Spec => []OneVerdict
<1>1. Init => TypeInv /\ Births /\ Deciding
  BY TypeInit, BirthsInit, DecidingInit
<1>2. TypeInv /\ Births /\ Deciding /\ [Next]_vars => (TypeInv /\ Births /\ Deciding)'
  BY TypeStep, BirthsStep, DecidingStep
<1>3. Deciding => OneVerdict
  BY DEF Deciding, OneVerdict
<1> QED  BY <1>1, <1>2, <1>3, PTL DEF Spec

-------------------------------------------------------------------------------
(* Confirmations.  A list of confirmations, the list of a match and the     *)
(* commands that write them name clients of the lobby only; and a client    *)
(* that waits for its answers confirms once, so that its name is in the     *)
(* list once at most and the length of the list counts clients.             *)

Inviting ==
    /\ \A m \in Matches : lobby[m] # <<>> => m \in minted /\ Len(lobby[m]) = LobbySize
    /\ \A c \in Clients, m \in Matches :
          mmc[m][c] > 0 \/ members[m][c] > 0 => c \in Range(lobby[m])
    /\ \A t \in Queued : t.step \in {"mmc.lrange", "mmc.lpush"} => t.c \in Range(lobby[t.g])
    /\ \A t \in Queued : t.job = "match" /\ t.step \in RemoveSteps \cup PushSteps
                             => t.c \in Range(lobby[t.for])

LEMMA InvitingInit == Init => Inviting
<1> SUFFICES ASSUME Init PROVE Inviting
  OBVIOUS
<1>1. Queued = {}
  BY OneServer DEF Init, Queued, Pipeline
<1>2. \A c \in Clients, m \in Matches : ~(mmc[m][c] > 0) /\ ~(members[m][c] > 0) /\ lobby[m] = <<>>
  BY Names DEF Init, EmptyMembers
<1>3. \A m \in Matches : lobby[m] = <<>>
  BY DEF Init
<1> QED  BY <1>1, <1>2, <1>3 DEF Inviting

LEMMA InvitingSame ==
    ASSUME TypeInv, Inviting, UNCHANGED lobby, minted \subseteq minted',
           \A c \in Clients, m \in Matches :
              mmc'[m][c] > 0 \/ members'[m][c] > 0 => c \in Range(lobby[m]),
           \A t \in Queued' : \/ t \in Queued
                              \/ /\ t.step \in {"mmc.lrange", "mmc.lpush"}
                                       => t.c \in Range(lobby[t.g])
                                 /\ t.job = "match" /\ t.step \in RemoveSteps \cup PushSteps
                                       => t.c \in Range(lobby[t.for])
    PROVE  Inviting'
BY DEF Inviting

(* What follows the head names somebody of the same lobby.                  *)
LEMMA InvitingOn ==
    ASSUME TypeInv, Inviting, NEW f, Proceeds(f), Current.step # "mm.lrange", NEW t \in Elements(f)
    PROVE  /\ t.step \in {"mmc.lrange", "mmc.lpush"} => t.c \in Range(lobby[t.g])
           /\ t.job = "match" /\ t.step \in RemoveSteps \cup PushSteps => t.c \in Range(lobby[t.for])
<1>1. Current \in Good /\ Current \in Queued
  BY Behindhand, Head1
<1>2. CASE GoesOn(t)
  <2>1. ASSUME t.step = "mmc.lrange" PROVE t.c \in Range(lobby[t.g])
    <3>1. /\ Current.step = "member.lrange" /\ t.c = Current.c /\ t.g = Current.g
          /\ members[Current.g][Current.c] > 0
      BY <1>2, <2>1 DEF GoesOn, Chain
    <3>2. Current.c \in Clients /\ Current.g \in Matches
      BY <1>1, <3>1, Kinds DEF Fits
    <3> QED  BY <3>1, <3>2 DEF Inviting
  <2>2. ASSUME t.step = "mmc.lpush" PROVE t.c \in Range(lobby[t.g])
    <3>1. Current.step = "mmc.lrange" /\ t.c = Current.c /\ t.g = Current.g
      BY <1>2, <2>2 DEF GoesOn, Chain
    <3> QED  BY <1>1, <3>1 DEF Inviting
  <2>3. ASSUME t.job = "match", t.step \in RemoveSteps \cup PushSteps
        PROVE  t.c \in Range(lobby[t.for])
    <3>1. /\ Current.job = "match" /\ t.c = Current.c /\ t.for = Current.for
          /\ Current.step \in {"search.lrange", "get.hget", "member.lrange"} \cup RemoveSteps \cup PushSteps
      BY <1>2, <2>3 DEF GoesOn, Chain, RemoveSteps, PushSteps
    <3>2. Current.step \in RemoveSteps \cup PushSteps
      BY <1>1, <3>1, Kinds
    <3> QED  BY <1>1, <3>1, <3>2 DEF Inviting
  <2> QED  BY <2>1, <2>2, <2>3
<1>3. CASE Turns(t)
  <2>1. ASSUME t.job = "match", t.step \in RemoveSteps \cup PushSteps
        PROVE  /\ Current.step = "create.hset" /\ t.c \in Range(lobby[Current.g])
               /\ t.for = Current.for
    BY <1>3, <2>1 DEF Turns, RemoveSteps, PushSteps
  <2>2. Current.step = "create.hset" => Current.g = Current.for
    BY <1>1, Kinds DEF Fits, RemoveSteps, PushSteps
  <2>3. t.step \notin {"mmc.lrange", "mmc.lpush"}
    BY <1>3 DEF Turns
  <2> QED  BY <2>1, <2>2, <2>3
<1> QED  BY <1>2, <1>3 DEF Proceeds

(* A run cuts new lobbies; nothing names clients of a match without one.    *)
LEMMA InvitingCut ==
    ASSUME TypeInv, Inviting, NEW s \in Servers, MatchQueue(s)
    PROVE  Inviting'
<1> USE DEF storeVars, runVars, roundVars, mmcVars, clientVars
<1>1. PICK new \in SUBSET (Matches \ minted), f \in Seq(Good) :
         /\ Runs(f)
         /\ \A t \in Elements(f) :
               \E m \in new : \E c \in Elements(lobby'[m]) :
                  t = RoomTask("remove.lremClient", "match", c, Queue, m)
         /\ \A m \in new : lobby'[m] \in [1..LobbySize -> Clients]
         /\ \A m \in Matches \ new : lobby'[m] = lobby[m]
         /\ minted' = minted \cup new
         /\ lobby' \in [Matches -> Seq(Clients)]
  BY QueueCut
<1>2. UNCHANGED <<members, mmc>>
  BY QueueCut
<1>3. \A m \in new : lobby[m] = <<>> /\ Len(lobby'[m]) = LobbySize
  <2>1. ASSUME NEW m \in new PROVE Len(lobby'[m]) = LobbySize
    <3>1. /\ DOMAIN lobby'[m] = 1..LobbySize /\ LobbySize \in Nat /\ lobby'[m] \in Seq(Clients)
          /\ DOMAIN lobby'[m] = 1..Len(lobby'[m])
      BY <1>1, RoomAssumption, LenProperties
    <3> QED  BY <3>1, LenProperties
  <2> QED  BY <2>1 DEF Inviting
<1>4. \A m \in Matches : Range(lobby[m]) \subseteq Range(lobby'[m])
  BY <1>1, <1>3 DEF Range
<1>5. Queued \subseteq Good /\ Queued' = Behind \cup Elements(f) /\ Behind \subseteq Queued
  BY <1>1, Head1 DEF Runs
<1>6. \A t \in Elements(f) : /\ t.step = "remove.lremClient" /\ t.for \in new
                             /\ t.c \in Range(lobby'[t.for])
  BY <1>1, RoomFields DEF Range, Elements
<1>7. \A t \in Queued : /\ t.step \in {"mmc.lrange", "mmc.lpush"} => t.g \in Matches
                        /\ t.job = "match" /\ t.step \in RemoveSteps \cup PushSteps => t.for \in Matches
  BY <1>5, Kinds DEF Fits, RemoveSteps, PushSteps
<1>8. \A m \in Matches : lobby'[m] # <<>> => m \in minted' /\ Len(lobby'[m]) = LobbySize
  BY <1>1, <1>3 DEF Inviting
<1>9. \A t \in Queued' : t.step \in {"mmc.lrange", "mmc.lpush"} => t.c \in Range(lobby'[t.g])
  BY <1>4, <1>5, <1>6, <1>7 DEF Inviting
<1>10. \A t \in Queued' : t.job = "match" /\ t.step \in RemoveSteps \cup PushSteps
                              => t.c \in Range(lobby'[t.for])
  <2>1. ASSUME NEW t \in Queued, t.job = "match", t.step \in RemoveSteps \cup PushSteps
        PROVE  t.c \in Range(lobby'[t.for])
    BY <1>4, <1>7, <2>1 DEF Inviting
  <2> QED  BY <1>5, <1>6, <2>1
<1> QED  BY <1>2, <1>4, <1>8, <1>9, <1>10 DEF Inviting

LEMMA InvitingServer ==
    ASSUME TypeInv, Inviting, NEW s \in Servers, ServerStep(s)
    PROVE  Inviting'
<1> USE DEF storeVars, runVars, roundVars, mmcVars, clientVars
<1>1. CASE MatchQueue(s)
  BY <1>1, InvitingCut
<1>2. CASE ~MatchQueue(s)
  <2>1. PICK f : Proceeds(f)
    BY ServerProceeds
  <2>2. Current \in Good /\ Current \in Queued
    BY <2>1, Behindhand, Head1
  <2>3. Current.step # "mm.lrange" /\ UNCHANGED <<lobby, minted>>
    <3>1. CASE RequestStep(s)
      BY <3>1, SearchDoes, GetDoes, MemberDoes, ReadConfirmationsDoes, AddConfirmationDoes,
         ExpireConfirmationsDoes, CloseCheckDoes, LeaveAllDoes DEF RequestStep
    <3>2. CASE Push(s)
      <4>1. Current.step # "mm.lrange"
        BY <3>2, PushDoes DEF PushSteps
      <4> QED  BY <3>2, <4>1 DEF Push
    <3>3. CASE CreateEntry(s) \/ CheckSize(s) \/ EraseConfirmations(s) \/ NotifyGroup(s)
      BY <3>3, CreateDoes, CheckSizeDoes, EraseConfirmationsDoes, NotifyDoes
    <3>4. CASE RemoveBegin(s) \/ RemoveEnd(s)
      BY <3>4, RemoveBeginDoes, RemoveEndDoes
    <3>5. CASE Erase(s)
      <4>1. Current.step # "mm.lrange"
        BY <3>5, EraseDoes DEF EraseSteps
      <4> QED  BY <3>5, <4>1 DEF Erase
    <3> QED  BY <1>2, <3>1, <3>2, <3>3, <3>4, <3>5 DEF ServerStep, IntervalStep
  <2>4. \A c \in Clients, m \in Matches : mmc'[m][c] > 0 => c \in Range(lobby[m])
    <3>1. CASE AddConfirmation(s)
      <4>1. /\ \A m \in Matches, c \in Clients :
                  mmc'[m][c] = IF m = Current.g /\ c = Current.c THEN mmc[m][c] + 1 ELSE mmc[m][c]
            /\ Current.step = "mmc.lpush"
        BY <3>1, AddConfirmationDoes
      <4> QED  BY <2>2, <4>1 DEF Inviting
    <3>2. CASE EraseConfirmations(s)
      <4>1. /\ mmc' = [mmc EXCEPT ![Current.g] = [c \in Clients |-> 0]] /\ Current.g \in Matches
            /\ mmc \in [Matches -> [Clients -> Nat]]
        BY <3>2, EraseConfirmationsDoes, TypesNow
      <4>2. \A c \in Clients, m \in Matches : mmc'[m][c] = IF m = Current.g THEN 0 ELSE mmc[m][c]
        BY <4>1
      <4> QED  BY <4>2 DEF Inviting
    <3>3. CASE ~AddConfirmation(s) /\ ~EraseConfirmations(s)
      <4>1. UNCHANGED mmc
        <5>1. CASE RequestStep(s)
          BY <3>3, <5>1, SearchDoes, GetDoes, MemberDoes, ReadConfirmationsDoes,
             ExpireConfirmationsDoes, CloseCheckDoes, LeaveAllDoes DEF RequestStep
        <5>2. CASE ~RequestStep(s)
          BY <1>2, <3>3, <5>2 DEF ServerStep, IntervalStep, CreateEntry, CheckSize, Push, RemoveBegin,
                                  RemoveEnd, Erase, NotifyGroup
        <5> QED  BY <5>1, <5>2
      <4> QED  BY <4>1 DEF Inviting
    <3> QED  BY <3>1, <3>2, <3>3
  <2>5. \A c \in Clients, m \in Matches : members'[m][c] > 0 => c \in Range(lobby[m])
    <3>1. CASE Push(s) /\ Current.step = "push.lpushGroup"
      <4>1. /\ \A c \in Clients, g \in Groups :
                  members'[g][c] = IF c = Current.c /\ g = Current.g
                                   THEN members[g][c] + 1 ELSE members[g][c]
            /\ Current.job \in {"search", "match"} /\ (Current.job = "search" => Current.g = Queue)
            /\ (Current.job = "match" => Current.for = Current.g)
        BY <3>1, PushDoes
      <4>2. Current.job = "match" => Current.c \in Range(lobby[Current.for])
        BY <2>2, <3>1 DEF Inviting, PushSteps
      <4> QED  BY <4>1, <4>2, Names DEF Inviting
    <3>2. CASE ~(Push(s) /\ Current.step = "push.lpushGroup")
      <4>1. \A c \in Clients, m \in Matches : members'[m][c] > 0 => members[m][c] > 0
        <5>1. CASE RequestStep(s)
          BY <5>1, SearchDoes, GetDoes, MemberDoes, ReadConfirmationsDoes, AddConfirmationDoes,
             ExpireConfirmationsDoes, CloseCheckDoes, LeaveAllDoes DEF RequestStep
        <5>2. CASE Push(s)
          BY <3>2, <5>2, PushDoes
        <5>3. CASE CreateEntry(s) \/ CheckSize(s) \/ EraseConfirmations(s) \/ NotifyGroup(s)
          BY <5>3, CreateDoes, CheckSizeDoes, EraseConfirmationsDoes, NotifyDoes
        <5>4. CASE RemoveBegin(s)
          BY <5>4, RemoveBeginDoes
        <5>5. CASE RemoveEnd(s)
          <6>1. \A c \in Clients, g \in Groups :
                   members'[g][c] = IF c = Current.c /\ g = Current.g THEN 0 ELSE members[g][c]
            BY <5>5, RemoveEndDoes
          <6> QED  BY <6>1, Names
        <5>6. CASE Erase(s)
          <6>1. \/ UNCHANGED members
                \/ \A d \in Clients, h \in Groups :
                      members'[h][d] = IF h = Current.g THEN 0 ELSE members[h][d]
            BY <5>6, EraseDoes
          <6> QED  BY <6>1, Names
        <5> QED  BY <1>2, <5>1, <5>2, <5>3, <5>4, <5>5, <5>6 DEF ServerStep, IntervalStep
      <4> QED  BY <4>1 DEF Inviting
    <3> QED  BY <3>1, <3>2
  <2>6. \A t \in Queued' : t \in Queued \/ t \in Elements(f)
    BY <2>1, Behindhand
  <2> QED  BY <2>1, <2>3, <2>4, <2>5, <2>6, InvitingOn, InvitingSame
<1> QED  BY <1>1, <1>2

(* A client's confirmation up to the LPUSH: with one request at a time the  *)
(* reading of the list and the write behind it are nobody else's.           *)
Confirmations(c) ==
    {t \in Good : /\ t.job = "confirm" /\ t.c = c
                  /\ t.step \in {"get.hget", "member.lrange", "mmc.lrange", "mmc.lpush"}}

Sincere ==
    /\ \A c \in Clients : AtMostOnce(Confirmations(c))
    /\ \A t \in Queued : t.step = "mmc.lpush" => mmc[t.g][t.c] = 0
    /\ \A c \in Clients, m \in Matches : mmc[m][c] <= 1

LEMMA SincereInit == Init => Sincere
<1> SUFFICES ASSUME Init PROVE Sincere
  OBVIOUS
<1>1. DOMAIN Pipeline = {} /\ Queued = {}
  BY OneServer DEF Init, Queued, Pipeline
<1>2. \A c \in Clients, m \in Matches : mmc[m][c] = 0
  BY DEF Init
<1> QED  BY <1>1, <1>2 DEF Sincere, AtMostOnce

(* Whoever may send has nothing in the pipeline that he waits for. *)
LEMMA NothingPending ==
    ASSUME TypeInv, MaxPending = 1, NEW c \in Clients, NEW op, MaySend(c, op)
    PROVE  Queued \cap Confirmations(c) = {}
<1>1. /\ Pipeline \in Seq(Good) /\ DOMAIN Pipeline = 1..Len(Pipeline) /\ Len(Pipeline) \in Nat
      /\ Pending(c) = {i \in DOMAIN Pipeline : Awaited(Pipeline[i]) /\ Pipeline[i].c = c}
  BY OneServer, LenProperties DEF TypeInv, Pipeline, Pending
<1>2. IsFiniteSet(Pending(c))
  <2>1. IsFiniteSet(1..Len(Pipeline)) /\ Pending(c) \in SUBSET (1..Len(Pipeline))
    BY <1>1, FS_Interval
  <2> QED  BY <2>1, FS_Subset
<1>3. Cardinality(Pending(c)) = 0
  BY <1>2, FS_CardinalityType DEF MaySend
<1>4. Pending(c) = {}
  BY <1>2, <1>3, FS_EmptySet
<1>5. \A t \in Confirmations(c) : Awaited(t) /\ t.c = c
  BY DEF Confirmations, Awaited, AllOps
<1> QED  BY <1>1, <1>4, <1>5 DEF Queued

(* A confirmation goes on with one command that is still a confirmation.    *)
LEMMA ConfirmsOn ==
    ASSUME TypeInv, NEW f, Proceeds(f), NEW c
    PROVE  /\ \A i, j \in DOMAIN f : f[i] \in Confirmations(c) /\ f[j] \in Confirmations(c) => i = j
           /\ \A t \in Elements(f) : t \in Confirmations(c) => Current \in Confirmations(c)
<1>1. Current \in Good
  BY Behindhand, Head1
<1>2. ASSUME NEW t \in Elements(f), t \in Confirmations(c)
      PROVE  /\ Current \in Confirmations(c) /\ Chain(Current.step, t.step)
             /\ Current.step = "get.hget" => t.step = "member.lrange"
             /\ Current.step = "member.lrange" => t.step = "mmc.lrange"
             /\ Current.step = "mmc.lrange" => t.step = "mmc.lpush"
             /\ Current.step # "mmc.lpush"
  <2>1. t.job = "confirm" /\ t.c = c
        /\ t.step \in {"get.hget", "member.lrange", "mmc.lrange", "mmc.lpush"}
    BY <1>2 DEF Confirmations
  <2>2. CASE GoesOn(t)
    BY <1>1, <2>1, <2>2 DEF GoesOn, Chain, Confirmations
  <2>3. CASE Turns(t)
    BY <2>1, <2>3 DEF Turns
  <2> QED  BY <2>2, <2>3 DEF Proceeds
<1>3. \A i \in DOMAIN f : f[i] \in Elements(f)
  BY DEF Elements
<1>4. \A t \in Confirmations(c) : t.step \in {"get.hget", "member.lrange", "mmc.lrange", "mmc.lpush"}
  BY DEF Confirmations
<1>5. (\E t \in Elements(f) : t \in Confirmations(c)) => Distinct(f)
  BY <1>2 DEF Proceeds
<1>6. \A i, j \in DOMAIN f : f[i] \in Confirmations(c) /\ f[j] \in Confirmations(c)
                                 => f[i].step = f[j].step
  BY <1>2, <1>3, <1>4
<1> QED  BY <1>2, <1>3, <1>5, <1>6 DEF Distinct

LEMMA ConfirmsOnce ==
    ASSUME TypeInv, NEW f, Proceeds(f), NEW c, AtMostOnce(Confirmations(c))
    PROVE  AtMostOnce(Confirmations(c))'
<1>1. Pipeline \in Seq(Good) /\ Pipeline # <<>> /\ Pipeline[1] = Current /\ DOMAIN Pipeline = 1..Len(Pipeline)
      /\ Len(Pipeline) \in Nat
  BY Behindhand, Head1, LenProperties
<1>2. CASE Runs(f)
  <2>1. Behind \cap Confirmations(c) = {} \/ Elements(f) \cap Confirmations(c) = {}
    <3>1. ASSUME Current \in Confirmations(c) PROVE Behind \cap Confirmations(c) = {}
      <4>1. \A i \in 2..Len(Pipeline) : i \in DOMAIN Pipeline /\ 1 \in DOMAIN Pipeline /\ i # 1
        BY <1>1
      <4>2. \A i \in 2..Len(Pipeline) : Pipeline[i] \notin Confirmations(c)
        BY <1>1, <3>1, <4>1 DEF AtMostOnce
      <4> QED  BY <4>2 DEF Behind, Pipeline
    <3> QED  BY <3>1, ConfirmsOn
  <2>2. \A i, j \in DOMAIN f : f[i] \in Confirmations(c) /\ f[j] \in Confirmations(c) => i = j
    BY ConfirmsOn
  <2> QED  BY <1>1, <1>2, <2>1, <2>2, OnceAgain DEF Runs
<1>3. ASSUME NEW u, Stays(u), u.step = "erase.lremClient" PROVE AtMostOnce(Confirmations(c))'
  <2>1. u \notin Confirmations(c)
    BY <1>3 DEF Confirmations
  <2> QED  BY <1>3, <2>1, OnceReplaced DEF Stays
<1> QED  BY <1>2, <1>3 DEF Proceeds

LEMMA SincereClient ==
    ASSUME TypeInv, Sincere, MaxPending = 1, NEW d \in Clients, ClientStep(d)
    PROVE  Sincere'
<1> USE DEF storeVars, runVars, roundVars, mmcVars, clientVars
<1>1. UNCHANGED mmc
  BY ClientDoes
<1>2. PICK op \in Jobs, st \in Steps, g \in Groups \cup {None} :
           /\ Adds(<<RoomTask(st, op, d, g, None)>>)
           /\ st # "mmc.lpush"
           /\ op = "confirm" => MaySend(d, op)
  BY ClientDoes
<1> DEFINE u == RoomTask(st, op, d, g, None)
<1>3. u.step = st /\ u.job = op /\ u.c = d /\ Elements(<<u>>) = {u}
  BY RoomFields, Few
<1>4. Adds(<<u>>) /\ Pipeline \in Seq(Good)
  BY <1>2, OneServer DEF TypeInv, Pipeline
<1> HIDE DEF u
<1>5. ASSUME NEW c \in Clients PROVE AtMostOnce(Confirmations(c))'
  <2>1. Queued \cap Confirmations(c) = {} \/ Elements(<<u>>) \cap Confirmations(c) = {}
    <3>1. ASSUME u \in Confirmations(c) PROVE Queued \cap Confirmations(c) = {}
      <4>1. op = "confirm" /\ d = c
        BY <1>3, <3>1 DEF Confirmations
      <4> QED  BY <1>2, <4>1, NothingPending
    <3> QED  BY <1>3, <3>1
  <2>2. AtMostOnce(Confirmations(c))
    BY DEF Sincere
  <2> QED  BY <1>4, <2>1, <2>2, OnceMore, OneMore DEF Adds
<1>6. \A t \in Queued' : t.step = "mmc.lpush" => t \in Queued
  BY <1>2, <1>3, <1>4 DEF Adds
<1> QED  BY <1>1, <1>5, <1>6 DEF Sincere

LEMMA SincereServer ==
    ASSUME TypeInv, Sincere, NEW s \in Servers, ServerStep(s)
    PROVE  Sincere'
<1> USE DEF storeVars, runVars, roundVars, mmcVars, clientVars
<1>1. PICK f : Proceeds(f)
  BY ServerProceeds
<1>2. \A c \in Clients : AtMostOnce(Confirmations(c))'
  BY <1>1, ConfirmsOnce DEF Sincere
<1>3. /\ Current \in Good /\ Current \in Queued /\ Behind \subseteq Queued /\ Queued \subseteq Good
      /\ Queued' = Behind \cup Elements(f) /\ Queued' \subseteq Good /\ Pipeline[1] = Current
      /\ Pipeline \in Seq(Good) /\ Pipeline # <<>>
  BY <1>1, Behindhand, Head1
<1>4. \A t \in Elements(f) : t.step = "mmc.lpush" => mmc[t.g][t.c] = 0
  <2>1. ASSUME NEW t \in Elements(f), t.step = "mmc.lpush" PROVE mmc[t.g][t.c] = 0
    <3>1. GoesOn(t)
      BY <1>1, <2>1 DEF Proceeds, Turns
    <3>2. /\ Current.step = "mmc.lrange" /\ t.c = Current.c /\ t.g = Current.g
          /\ ~(mmc[Current.g][Current.c] > 0)
      BY <2>1, <3>1 DEF GoesOn, Chain
    <3>3. Current.c \in Clients /\ Current.g \in Matches
      BY <1>3, <3>2, Kinds DEF Fits
    <3>4. mmc[Current.g][Current.c] \in Nat
      BY <3>3, TypesNow
    <3> QED  BY <3>2, <3>4
  <2> QED  BY <2>1
<1>5. \A t \in Queued' : t.step = "mmc.lpush" => /\ mmc[t.g][t.c] = 0
                                                 /\ t.c \in Clients /\ t.g \in Matches
  <2>1. \A t \in Queued' : t.step = "mmc.lpush" => t.c \in Clients /\ t.g \in Matches
    BY <1>3, Kinds DEF Fits
  <2> QED  BY <1>3, <1>4, <2>1 DEF Sincere
<1>6. CASE AddConfirmation(s)
  <2>1. /\ Current.step = "mmc.lpush" /\ Current.job = "confirm"
        /\ Current.c \in Clients /\ Current.g \in Matches /\ Runs(<<>>)
        /\ \A m \in Matches, c \in Clients :
              mmc'[m][c] = IF m = Current.g /\ c = Current.c THEN mmc[m][c] + 1 ELSE mmc[m][c]
    BY <1>6, AddConfirmationDoes
  <2>2. \A m \in Matches, c \in Clients : mmc'[m][c] <= 1
    <3>1. mmc[Current.g][Current.c] = 0
      BY <1>3, <2>1 DEF Sincere
    <3> QED  BY <2>1, <3>1 DEF Sincere
  <2>3. \A t \in Queued' : t.step = "mmc.lpush" => t.c # Current.c
    <3>1. Current \in Confirmations(Current.c) /\ AtMostOnce(Confirmations(Current.c))
      BY <1>3, <2>1 DEF Confirmations, Sincere
    <3>2. DOMAIN Pipeline = 1..Len(Pipeline) /\ Len(Pipeline) \in Nat \ {0}
      BY <1>3, LenProperties, EmptySeq
    <3>3. \A i \in 2..Len(Pipeline) : Pipeline[i] \notin Confirmations(Current.c)
      BY <1>3, <3>1, <3>2 DEF AtMostOnce
    <3>4. Behind \cap Confirmations(Current.c) = {}
      BY <3>3 DEF Behind, Pipeline
    <3>5. Queued' = Behind
      BY <2>1, Few DEF Runs
    <3>6. \A t \in Good : t.step = "mmc.lpush" => t.job = "confirm"
      BY Kinds
    <3> QED  BY <1>3, <3>4, <3>5, <3>6 DEF Confirmations
  <2>4. \A t \in Queued' : t.step = "mmc.lpush" => mmc'[t.g][t.c] = 0
    BY <1>5, <2>1, <2>3
  <2> QED  BY <1>2, <2>2, <2>4 DEF Sincere
<1>7. CASE EraseConfirmations(s)
  <2>1. /\ mmc' = [mmc EXCEPT ![Current.g] = [c \in Clients |-> 0]] /\ Current.g \in Matches
        /\ mmc \in [Matches -> [Clients -> Nat]]
    BY <1>7, EraseConfirmationsDoes, TypesNow
  <2>2. \A m \in Matches, c \in Clients : mmc'[m][c] = IF m = Current.g THEN 0 ELSE mmc[m][c]
    BY <2>1
  <2>3. \A m \in Matches, c \in Clients : mmc'[m][c] <= 1
    BY <2>2 DEF Sincere
  <2>4. \A t \in Queued' : t.step = "mmc.lpush" => mmc'[t.g][t.c] = 0
    BY <1>5, <2>2
  <2> QED  BY <1>2, <2>3, <2>4 DEF Sincere
<1>8. CASE ~AddConfirmation(s) /\ ~EraseConfirmations(s)
  <2>1. UNCHANGED mmc
    <3>1. CASE RequestStep(s)
      BY <1>8, <3>1, SearchDoes, GetDoes, MemberDoes, ReadConfirmationsDoes,
         ExpireConfirmationsDoes, CloseCheckDoes, LeaveAllDoes DEF RequestStep
    <3>2. CASE MatchQueue(s)
      BY <3>2, QueueCut
    <3>3. CASE ~RequestStep(s) /\ ~MatchQueue(s)
      BY <1>8, <3>3 DEF ServerStep, IntervalStep, CreateEntry, CheckSize, Push, RemoveBegin,
                              RemoveEnd, Erase, NotifyGroup
    <3> QED  BY <3>1, <3>2, <3>3
  <2> QED  BY <1>2, <1>5, <2>1 DEF Sincere
<1> QED  BY <1>6, <1>7, <1>8

(* The interval, the timers and the expiry of a list add no confirmation.   *)
LEMMA NobodyConfirms ==
    ASSUME TypeInv,
           \/ \E r \in RunIds : Tick(r) \/ ConfirmRound(r)
           \/ \E m \in Matches : DisbandTimer(m) \/ TwoMinutes(m) \/ ExpireKey(m)
    PROVE  /\ \E f \in Seq(Good) :
                 /\ Adds(f) \/ (f = <<>> /\ UNCHANGED pipe)
                 /\ \A t \in Elements(f) :
                       t.job # "confirm" /\ t.step \notin RemoveSteps \cup PushSteps
           /\ UNCHANGED <<storeVars, minted, lobby>>
           /\ \A m \in Matches, c \in Clients : mmc'[m][c] = mmc[m][c] \/ mmc'[m][c] = 0
<1> USE DEF storeVars, runVars, roundVars, mmcVars, clientVars
<1>1. ASSUME NEW r \in RunIds, Tick(r)
      PROVE  /\ \E f \in Seq(Good) :
                   /\ Adds(f)
                   /\ \A t \in Elements(f) :
                         t.job # "confirm" /\ t.step \notin RemoveSteps \cup PushSteps
             /\ UNCHANGED <<storeVars, minted, lobby, mmc>>
  <2> DEFINE u == RoomTask("mm.lrange", "match", None, Queue, r)
  <2>1. Adds(<<u>>) /\ <<u>> \in Seq(Good) /\ Elements(<<u>>) = {u}
    BY <1>1, TickDoes, Few DEF Adds
  <2>2. u.job # "confirm" /\ u.step \notin RemoveSteps \cup PushSteps
    BY RoomFields DEF RemoveSteps, PushSteps
  <2>3. UNCHANGED <<storeVars, minted, lobby, mmc>>
    BY <1>1, TickDoes
  <2> HIDE DEF u
  <2> QED  BY <2>1, <2>2, <2>3
<1>2. ASSUME NEW r \in RunIds, ConfirmRound(r)
      PROVE  /\ \E f \in Seq(Good) :
                   /\ Adds(f)
                   /\ \A t \in Elements(f) :
                         t.job # "confirm" /\ t.step \notin RemoveSteps \cup PushSteps
             /\ UNCHANGED <<storeVars, minted, lobby, mmc>>
  <2>1. PICK f \in Seq(Good) :
           Adds(f) /\ Elements(f) = {Round(m) : m \in confirming} \cup {Telling(m) : m \in ToTell}
    BY <1>2, RoundDoes
  <2>2. \A t \in Elements(f) : t.job # "confirm" /\ t.step \notin RemoveSteps \cup PushSteps
    BY <2>1, RoomFields DEF Round, Telling, RemoveSteps, PushSteps
  <2>3. UNCHANGED <<storeVars, minted, lobby, mmc>>
    BY <1>2, RoundDoes
  <2> QED  BY <2>1, <2>2, <2>3
<1>3. ASSUME NEW m \in Matches, DisbandTimer(m)
      PROVE  /\ \E f \in Seq(Good) :
                   /\ Adds(f)
                   /\ \A t \in Elements(f) :
                         t.job # "confirm" /\ t.step \notin RemoveSteps \cup PushSteps
             /\ UNCHANGED <<storeVars, minted, lobby, mmc>>
  <2> DEFINE u == RoomTask("erase.lrangeGroup", "disband", None, m, None)
  <2>1. Adds(<<u>>) /\ <<u>> \in Seq(Good) /\ Elements(<<u>>) = {u}
    BY <1>3, TimerDoes, Few DEF Adds
  <2>2. u.job # "confirm" /\ u.step \notin RemoveSteps \cup PushSteps
    BY RoomFields DEF RemoveSteps, PushSteps
  <2>3. UNCHANGED <<storeVars, minted, lobby, mmc>>
    BY <1>3, TimerDoes
  <2> HIDE DEF u
  <2> QED  BY <2>1, <2>2, <2>3
<1>4. ASSUME NEW m \in Matches, TwoMinutes(m) \/ ExpireKey(m)
      PROVE  /\ UNCHANGED <<storeVars, pipe, minted, lobby>>
             /\ \A k \in Matches, c \in Clients : mmc'[k][c] = mmc[k][c] \/ mmc'[k][c] = 0
  <2>1. mmc \in [Matches -> [Clients -> Nat]]
    BY TypesNow
  <2>2. mmc' = mmc \/ mmc' = [mmc EXCEPT ![m] = [c \in Clients |-> 0]]
    BY <1>4 DEF TwoMinutes, ExpireKey
  <2>3. \A k \in Matches, c \in Clients : mmc'[k][c] = mmc[k][c] \/ mmc'[k][c] = 0
    BY <2>1, <2>2
  <2>4. UNCHANGED <<storeVars, pipe, minted, lobby>>
    BY <1>4 DEF TwoMinutes, ExpireKey
  <2> QED  BY <2>3, <2>4
<1> QED  BY <1>1, <1>2, <1>3, <1>4, Nothing

LEMMA InvitingInterval ==
    ASSUME TypeInv, Inviting,
           \/ \E r \in RunIds : Tick(r) \/ ConfirmRound(r)
           \/ \E m \in Matches : DisbandTimer(m) \/ TwoMinutes(m) \/ ExpireKey(m)
    PROVE  Inviting'
<1> USE DEF storeVars, runVars, roundVars, mmcVars, clientVars
<1>1. PICK f \in Seq(Good) :
         /\ Adds(f) \/ (f = <<>> /\ UNCHANGED pipe)
         /\ \A t \in Elements(f) : t.job # "confirm" /\ t.step \notin RemoveSteps \cup PushSteps
  BY NobodyConfirms
<1>2. /\ UNCHANGED <<storeVars, minted, lobby>>
      /\ \A m \in Matches, c \in Clients : mmc'[m][c] = mmc[m][c] \/ mmc'[m][c] = 0
  BY NobodyConfirms
<1>3. Elements(f) \subseteq Good
  BY DEF Elements
<1>4. \A t \in Elements(f) : t.step \notin {"mmc.lrange", "mmc.lpush"}
  BY <1>1, <1>3, Kinds
<1>5. \A t \in Queued' : t \in Queued \/ t \in Elements(f)
  BY <1>1 DEF Adds, Queued, Pipeline
<1>6. \A c \in Clients, m \in Matches :
            mmc'[m][c] > 0 \/ members'[m][c] > 0 => c \in Range(lobby[m])
  BY <1>2 DEF Inviting
<1> QED  BY <1>1, <1>2, <1>4, <1>5, <1>6, InvitingSame

LEMMA ConfirmsInterval ==
    ASSUME TypeInv, Inviting, Sincere,
           \/ \E r \in RunIds : Tick(r) \/ ConfirmRound(r)
           \/ \E m \in Matches : DisbandTimer(m) \/ TwoMinutes(m) \/ ExpireKey(m)
    PROVE  Inviting' /\ Sincere'
<1> USE DEF storeVars, runVars, roundVars, mmcVars, clientVars
<1>1. PICK f \in Seq(Good) :
         /\ Adds(f) \/ (f = <<>> /\ UNCHANGED pipe)
         /\ \A t \in Elements(f) : t.job # "confirm" /\ t.step \notin RemoveSteps \cup PushSteps
  BY NobodyConfirms
<1>2. /\ UNCHANGED <<storeVars, minted, lobby>>
      /\ \A m \in Matches, c \in Clients : mmc'[m][c] = mmc[m][c] \/ mmc'[m][c] = 0
  BY NobodyConfirms
<1>3. Elements(f) \subseteq Good /\ Pipeline \in Seq(Good)
  BY OneServer, ElementOfSeq DEF TypeInv, Pipeline, Elements
<1>4. /\ \A t \in Elements(f) : t.step \notin {"mmc.lrange", "mmc.lpush"}
      /\ \A c : Elements(f) \cap Confirmations(c) = {}
  BY <1>1, <1>3, Kinds DEF Confirmations
<1>5. \A t \in Queued' : t \in Queued \/ t \in Elements(f)
  BY <1>1 DEF Adds, Queued, Pipeline
<1>6. Inviting'
  BY InvitingInterval
<1>7. \A c \in Clients : AtMostOnce(Confirmations(c))'
  <2>1. CASE Adds(f)
    <3>1. \A c : \A i, j \in DOMAIN f : f[i] \in Confirmations(c) /\ f[j] \in Confirmations(c) => i = j
      BY <1>4 DEF Elements
    <3> QED  BY <1>3, <1>4, <2>1, <3>1, OnceMore DEF Adds, Sincere
  <2>2. CASE UNCHANGED pipe
    BY <2>2 DEF Sincere, AtMostOnce, Pipeline
  <2> QED  BY <1>1, <2>1, <2>2
<1>8. \A t \in Queued : t.step = "mmc.lpush" => t.c \in Clients /\ t.g \in Matches
  <2>1. Queued \subseteq Good
    BY <1>3, ElementOfSeq DEF Queued
  <2> QED  BY <2>1, Kinds DEF Fits
<1>9. \A t \in Queued' : t.step = "mmc.lpush" => mmc'[t.g][t.c] = 0
  BY <1>2, <1>4, <1>5, <1>8 DEF Sincere
<1>10. \A c \in Clients, m \in Matches : mmc'[m][c] <= 1
  BY <1>2 DEF Sincere
<1> QED  BY <1>6, <1>7, <1>9, <1>10 DEF Sincere

LEMMA InvitingClient ==
    ASSUME TypeInv, Inviting, NEW d \in Clients, ClientStep(d)
    PROVE  Inviting'
<1> USE DEF storeVars, runVars, roundVars, mmcVars, clientVars
<1>1. UNCHANGED <<members, mmc, minted, lobby>>
  BY ClientDoes
<1>2. PICK op \in Jobs, st \in Steps, g \in Groups \cup {None} :
           /\ Adds(<<RoomTask(st, op, d, g, None)>>)
           /\ op # "match" /\ st \notin {"mmc.lrange", "mmc.lpush"}
  BY ClientDoes
<1> DEFINE u == RoomTask(st, op, d, g, None)
<1>3. u.step = st /\ u.job = op /\ Elements(<<u>>) = {u}
  BY RoomFields, Few
<1> HIDE DEF u
<1>4. \A t \in Queued' : \/ t \in Queued
                         \/ t.job # "match" /\ t.step \notin {"mmc.lrange", "mmc.lpush"}
  BY <1>2, <1>3 DEF Adds, u
<1>5. \A c \in Clients, m \in Matches :
         mmc'[m][c] > 0 \/ members'[m][c] > 0 => c \in Range(lobby[m])
  BY <1>1 DEF Inviting
<1> QED  BY <1>1, <1>4, <1>5, InvitingSame

LEMMA ConfirmsStep ==
    ASSUME MaxPending = 1
    PROVE  TypeInv /\ Inviting /\ Sincere /\ [Next]_vars => Inviting' /\ Sincere'
<1> SUFFICES ASSUME TypeInv, Inviting, Sincere, [Next]_vars PROVE Inviting' /\ Sincere'
  OBVIOUS
<1>1. CASE UNCHANGED vars
  BY <1>1 DEF vars, storeVars, runVars, roundVars, mmcVars, clientVars, Inviting, Sincere, AtMostOnce,
              Queued, Pipeline
<1> QED  BY <1>1, InvitingClient, SincereClient, InvitingServer, SincereServer, ConfirmsInterval DEF Next

(* A list that names a client once at most is as long as the set of the     *)
(* clients it names.                                                        *)
LEMMA SizeCounts ==
    ASSUME NEW list \in [Clients -> Nat], \A c \in Clients : list[c] <= 1
    PROVE  ListSize(list) = Cardinality({c \in Clients : list[c] > 0})
<1> DEFINE P == {c \in Clients : list[c] > 0}
           U == UNION {{c} \X (1..list[c]) : c \in Clients}
<1>1. U = P \X {1}
  <2>1. ASSUME NEW x \in U PROVE x \in P \X {1}
    <3>1. PICK c \in Clients : x \in {c} \X (1..list[c])
      BY <2>1
    <3>2. list[c] = 0 \/ list[c] = 1
      OBVIOUS
    <3> QED  BY <3>1, <3>2
  <2>2. ASSUME NEW x \in P \X {1} PROVE x \in U
    <3>1. PICK c \in P : x = <<c, 1>>
      BY <2>2
    <3>2. x \in {c} \X (1..list[c])
      BY <3>1
    <3> QED  BY <3>2
  <2> QED  BY <2>1, <2>2
<1>2. IsFiniteSet(P) /\ Cardinality(P) \in Nat
  BY StoreAssumption, FS_Subset, FS_CardinalityType
<1>3. IsFiniteSet({1}) /\ Cardinality({1}) = 1
  BY FS_Singleton
<1>4. Cardinality(P \X {1}) = Cardinality(P) * 1
  BY <1>2, <1>3, FS_Product
<1> HIDE DEF P, U
<1>5. Cardinality(U) = Cardinality(P)
  BY <1>1, <1>2, <1>4
<1> QED  BY <1>5 DEF ListSize, P, U

(* Names of a sequence are no more than its elements. *)
LEMMA FewNames ==
    ASSUME NEW S, NEW q \in Seq(S)
    PROVE  IsFiniteSet(Range(q)) /\ Cardinality(Range(q)) <= Len(q)
<1>1. DOMAIN q = 1..Len(q) /\ Len(q) \in Nat /\ q \in [1..Len(q) -> S]
  BY LenProperties
<1>2. q \in Surjection(1..Len(q), Range(q))
  BY <1>1 DEF Surjection, Range
<1>3. \A n \in Nat : IsFiniteSet(1..n) /\ Cardinality(1..n) = n
  BY FS_Interval
<1> QED  BY <1>1, <1>2, <1>3, FS_Surjection

(* With as many confirmations as the lobby has places everybody confirmed.  *)
LEMMA FullListNamesAll ==
    ASSUME TypeInv, Inviting, Sincere, NEW m \in Matches, ListSize(mmc[m]) >= LobbySize
    PROVE  \A c \in MembersOf(m) : mmc[m][c] > 0
<1> DEFINE P == {c \in Clients : mmc[m][c] > 0}
           R == Range(lobby[m])
<1>1. mmc[m] \in [Clients -> Nat] /\ lobby[m] \in Seq(Clients)
  BY TypesNow
<1>2. ListSize(mmc[m]) = Cardinality(P)
  BY <1>1, SizeCounts DEF Sincere
<1>3. P \subseteq R
  BY DEF Inviting
<1>4. IsFiniteSet(R) /\ Cardinality(R) <= Len(lobby[m]) /\ Cardinality(R) \in Nat
  BY <1>1, FewNames, FS_CardinalityType
<1>5. Cardinality(P) <= Cardinality(R) /\ (Cardinality(R) = Cardinality(P) => R = P)
      /\ Cardinality(P) \in Nat
  BY <1>3, <1>4, FS_Subset, FS_CardinalityType
<1>6. LobbySize \in Nat \ {0} /\ Len(lobby[m]) \in Nat
  BY <1>1, RoomAssumption, LenProperties
<1>7. lobby[m] # <<>>
  <2>1. lobby[m] = <<>> => Len(lobby[m]) = 0
    BY <1>1, EmptySeq
  <2> QED  BY <1>2, <1>4, <1>5, <1>6, <2>1
<1>8. Len(lobby[m]) = LobbySize
  BY <1>7 DEF Inviting
<1>9. Cardinality(R) = Cardinality(P)
  <2> HIDE DEF P, R
  <2> QED  BY <1>2, <1>4, <1>5, <1>6, <1>8
<1>10. R = P
  BY <1>5, <1>9
<1>11. MembersOf(m) \subseteq R
  BY DEF Inviting, MembersOf
<1> QED  BY <1>10, <1>11

LEMMA StartsWhenAllConfirmed ==
    TypeInv /\ Inviting /\ Sincere /\ [Next]_vars
        => [\A m \in Matches : (verdicts'[m] # verdicts[m] /\ Last(verdicts'[m]) = "start")
                                   => \A c \in MembersOf(m) : mmc[m][c] > 0]_vars
<1> USE DEF storeVars, runVars, roundVars, mmcVars, clientVars
<1> SUFFICES ASSUME TypeInv, Inviting, Sincere, Next, NEW m \in Matches,
                    verdicts'[m] # verdicts[m], Last(verdicts'[m]) = "start"
             PROVE  \A c \in MembersOf(m) : mmc[m][c] > 0
  OBVIOUS
<1>1. verdicts \in [Matches -> Seq({"start", "disband"})]
  BY TypesNow
<1>2. ASSUME NEW s \in Servers, CheckSize(s) PROVE ListSize(mmc[m]) >= LobbySize
  <2>1. /\ Current.g \in Matches
        /\ \/ /\ ListSize(mmc[Current.g]) >= LobbySize
              /\ verdicts' = [verdicts EXCEPT ![Current.g] = Append(@, "start")]
           \/ UNCHANGED verdicts
    BY <1>2, CheckSizeDoes
  <2>2. Current.g = m
    BY <1>1, <2>1
  <2> QED  BY <2>1, <2>2
<1>3. ASSUME NEW r \in RunIds, ConfirmRound(r) PROVE FALSE
  <2>1. verdicts'[m] = IF m \in late THEN Append(verdicts[m], "disband") ELSE verdicts[m]
    BY <1>3, RoundDoes
  <2>2. verdicts'[m] = Append(verdicts[m], "disband") /\ verdicts[m] \in Seq({"start", "disband"})
    BY <1>1, <2>1
  <2>3. /\ Len(verdicts'[m]) = Len(verdicts[m]) + 1
        /\ verdicts'[m][Len(verdicts[m]) + 1] = "disband"
    BY <2>2, AppendProperties
  <2>4. Last(verdicts'[m]) = "disband"
    BY <2>3 DEF Last
  <2> QED  BY <2>4
<1>4. ASSUME NEW s \in Servers, ServerStep(s), ~CheckSize(s) PROVE FALSE
  <2>1. CASE RequestStep(s)
    BY <2>1, SearchDoes, GetDoes, MemberDoes, ReadConfirmationsDoes, AddConfirmationDoes,
       ExpireConfirmationsDoes, CloseCheckDoes, LeaveAllDoes DEF RequestStep
  <2>2. CASE MatchQueue(s)
    BY <2>2, QueueCut
  <2>3. CASE ~RequestStep(s) /\ ~MatchQueue(s)
    BY <1>4, <2>3 DEF ServerStep, IntervalStep, CreateEntry, EraseConfirmations, Push, RemoveBegin,
                      RemoveEnd, Erase, NotifyGroup
  <2> QED  BY <2>1, <2>2, <2>3
<1>5. ASSUME \/ \E c \in Clients : ClientStep(c)
             \/ \E r \in RunIds : Tick(r)
             \/ \E k \in Matches : DisbandTimer(k) \/ TwoMinutes(k) \/ ExpireKey(k)
      PROVE  FALSE
  BY <1>5, ClientDoes, TickDoes, TimerDoes DEF TwoMinutes, ExpireKey
<1> QED  BY <1>2, <1>3, <1>4, <1>5, FullListNamesAll DEF Next

(* A match starts when each of its members has confirmed, if clients wait   *)
(* for their answers: the length of the list says it all                    *)
(* (RoomGroupServer.js:511), whatever the runs, expiries and exits do.      *)
THEOREM StartedWhenAllConfirmed ==
    ASSUME MaxPending = 1
    PROVE  Spec => AllConfirmed
<1>1. Init => TypeInv /\ Inviting /\ Sincere
  BY TypeInit, InvitingInit, SincereInit
<1>2. TypeInv /\ Inviting /\ Sincere /\ [Next]_vars => (TypeInv /\ Inviting /\ Sincere)'
  BY TypeStep, ConfirmsStep
<1> QED  BY <1>1, <1>2, StartsWhenAllConfirmed, PTL DEF Spec, AllConfirmed

-------------------------------------------------------------------------------
(* Nobody is lost.  Between the queue and the invitation a client is known  *)
(* to the run only: the commands that move him are queued, or the group     *)
(* lists him and the invitation is, with nothing before it that takes him   *)
(* out.  Others cannot: they hear of a match when its run is through.       *)

Unheard ==
    /\ \A c \in Clients : c \notin online => view[c].at = "free"
    /\ \A t \in Queued : t.job = "close" => t.c \notin online
    /\ \A c \in Clients : view[c].m \in Matches => Loose(view[c].m)
    /\ \A t \in Queued : t.job \in {"confirm", "exit"} /\ t.step # "notify.lrange" => Loose(t.g)
    /\ \A t \in Queued : t.job \in {"found", "start", "disband"} => Loose(t.g)

(* A lobby is taken out of the queue before its group is created. *)
Tracked == \A t, u \in Queued :
              t.job = "match" /\ u.job = "match" /\ u.for = t.for /\ t.step \in RemoveSteps
                  => u.step \in RemoveSteps

Asked(c) == \E t \in Queued : t.c = c /\ t.job \in {"search", "leave"}

Moves(c) == \E m \in Matches :
               /\ ~Loose(m) /\ c \in Range(lobby[m])
               /\ \/ members[m][c] > 0
                  \/ \E t \in Queued : /\ t.for = m
                                       /\ t.step \in RemoveSteps \cup {"create.hset"} \/ t.c = c

Harmless(t) == t.job = "close" \/ t.step \in {"notify.lrange", "mm.lrange"}

WillHear(c) == \E i \in DOMAIN Pipeline :
                  /\ Pipeline[i].job = "found" /\ members[Pipeline[i].g][c] > 0
                  /\ \A j \in DOMAIN Pipeline :
                        j < i /\ Pipeline[j].g = Pipeline[i].g => Harmless(Pipeline[j])

Kept == \A c \in Clients :
           view[c].at = "searching"
               => Asked(c) \/ members[Queue][c] > 0 \/ Moves(c) \/ WillHear(c)

(* A run fills matches that are drawn for it; when it is through they are   *)
(* nobody's.                                                                *)
LEMMA LooseServer ==
    ASSUME TypeInv, NEW s \in Servers, ServerStep(s)
    PROVE  \A m \in minted : Loose(m) => Loose(m)'
<1> USE DEF storeVars, runVars, roundVars, mmcVars, clientVars
<1>1. batch \in [RunIds -> Seq(minted)] /\ DOMAIN batch = RunIds
  BY TypesNow
<1>2. CASE MatchQueue(s)
  <2>1. Current.for \in RunIds
    BY <1>2, QueueCutBriefly
  <2>2. PICK new \in SUBSET (Matches \ minted), ids \in Seq(Matches) :
               Range(ids) = new /\ batch' = [batch EXCEPT ![Current.for] = ids]
    BY <1>2, QueueCutBriefly
  <2>3. \A p \in RunIds : Range(batch'[p]) = IF p = Current.for THEN new ELSE Range(batch[p])
    BY <1>1, <2>1, <2>2 DEF Range
  <2> QED  BY <2>2, <2>3 DEF Loose
<1>3. CASE Push(s)
  <2>1. UNCHANGED batch \/ \E r : batch' = [batch EXCEPT ![r] = <<>>]
    BY <1>3 DEF Push
  <2>2. \A p \in RunIds : Range(batch'[p]) \subseteq Range(batch[p])
    BY <1>1, <2>1 DEF Range
  <2> QED  BY <2>2 DEF Loose
<1>4. CASE RequestStep(s)
  <2>1. UNCHANGED batch
    BY <1>4, SearchDoes, GetDoes, MemberDoes, ReadConfirmationsDoes, AddConfirmationDoes,
       ExpireConfirmationsDoes, CloseCheckDoes, LeaveAllDoes DEF RequestStep
  <2> QED  BY <2>1 DEF Loose
<1>5. CASE ~MatchQueue(s) /\ ~Push(s) /\ ~RequestStep(s)
  <2>1. UNCHANGED batch
    BY <1>5 DEF ServerStep, IntervalStep, CreateEntry, CheckSize, EraseConfirmations, RemoveBegin,
                RemoveEnd, Erase, NotifyGroup
  <2> QED  BY <2>1 DEF Loose
<1> QED  BY <1>2, <1>3, <1>4, <1>5

(* What a step of the server tells, and to whom. *)
LEMMA ToldOne ==
    \A at, m, cs : \A c \in Clients :
        /\ c \in cs => Told(at, m, cs)[c].at = at /\ Told(at, m, cs)[c].m = m
        /\ c \notin cs => Told(at, m, cs)[c] = view[c]
BY DEF Told

(* What a step of the server tells, and to whom. *)
LEMMA Tellings ==
    ASSUME TypeInv, NEW s \in Servers, ServerStep(s)
    PROVE  /\ online' = online
           /\ \A c \in Clients :
                 \/ view'[c] = view[c]
                 \/ /\ view'[c].at \in {"ignored", "free"} /\ view'[c].m = None
                    /\ c \in online \/ view[c].at = "searching"
                 \/ /\ view'[c].at \in {"found", "playing"} /\ view'[c].m = Current.g
                    /\ c \in online
                    /\ Current.step = "notify.lrange" /\ Current.job \in {"found", "start"}
<1> USE DEF storeVars, runVars, roundVars, mmcVars, clientVars
<1>1. ASSUME NEW cs, NEW at \in {"ignored", "free"}, view' = Told(at, None, cs),
             \A c \in cs : c \in online \/ view[c].at = "searching"
      PROVE  \A c \in Clients :
                 \/ view'[c] = view[c]
                 \/ /\ view'[c].at \in {"ignored", "free"} /\ view'[c].m = None
                    /\ c \in online \/ view[c].at = "searching"
  BY <1>1, ToldOne
<1>2. ASSUME NEW cs \in SUBSET online, NEW at \in {"found", "playing"},
             view' = Told(at, Current.g, cs)
      PROVE  \A c \in Clients :
                 \/ view'[c] = view[c]
                 \/ /\ view'[c].at \in {"found", "playing"} /\ view'[c].m = Current.g
                    /\ c \in online
  BY <1>2, ToldOne
<1>3. CASE SearchCheck(s)
  <2>1. online' = online
    BY <1>3, SearchDoes
  <2>2. CASE view' = view
    BY <2>1, <2>2
  <2>3. CASE view[Current.c].at = "searching" /\ view' = Told("ignored", None, {Current.c})
    BY <1>1, <2>1, <2>3
  <2> QED  BY <1>3, <2>2, <2>3, SearchDoes
<1>4. CASE MemberCheck(s)
  <2>1. online' = online
    BY <1>4, MemberDoes
  <2>2. CASE view' = view
    BY <2>1, <2>2
  <2>3. CASE Current.c \in online /\ view' = Told("free", None, {Current.c})
    BY <1>1, <2>1, <2>3
  <2> QED  BY <1>4, <2>2, <2>3, MemberDoes
<1>5. CASE RemoveEnd(s)
  <2>1. online' = online
    BY <1>5, RemoveEndDoes
  <2>2. CASE view' = view
    BY <2>1, <2>2
  <2>3. CASE Current.c \in online /\ view' = Told("free", None, {Current.c})
    BY <1>1, <2>1, <2>3
  <2> QED  BY <1>5, <2>2, <2>3, RemoveEndDoes
<1>6. CASE NotifyGroup(s)
  <2>1. online' = online /\ Current.step = "notify.lrange"
    BY <1>6, NotifyDoes
  <2>2. CASE view' = view
    BY <2>1, <2>2
  <2>3. CASE \E cs \in SUBSET online : view' = Told("free", None, cs)
    <3>1. PICK cs \in SUBSET online : view' = Told("free", None, cs)
      BY <2>3
    <3> QED  BY <1>1, <2>1, <3>1
  <2>4. CASE \E cs \in SUBSET online : view' = Told("found", Current.g, cs) /\ Current.job = "found"
    <3>1. PICK cs \in SUBSET online : view' = Told("found", Current.g, cs)
      BY <2>4
    <3> QED  BY <1>2, <2>1, <2>4, <3>1
  <2>5. CASE \E cs \in SUBSET online : view' = Told("playing", Current.g, cs) /\ Current.job = "start"
    <3>1. PICK cs \in SUBSET online : view' = Told("playing", Current.g, cs)
      BY <2>5
    <3> QED  BY <1>2, <2>1, <2>5, <3>1
  <2> QED  BY <1>6, <2>2, <2>3, <2>4, <2>5, NotifyDoes
<1>7. CASE RequestStep(s) /\ ~SearchCheck(s) /\ ~MemberCheck(s)
  <2>1. UNCHANGED <<view, online>>
    BY <1>7, GetDoes, ReadConfirmationsDoes, AddConfirmationDoes,
       ExpireConfirmationsDoes, CloseCheckDoes, LeaveAllDoes DEF RequestStep
  <2> QED  BY <2>1
<1>8. CASE MatchQueue(s)
  BY <1>8, QueueCut
<1>9. CASE ~RequestStep(s) /\ ~MatchQueue(s) /\ ~RemoveEnd(s) /\ ~NotifyGroup(s)
  <2>1. UNCHANGED <<view, online>>
    BY <1>9 DEF ServerStep, IntervalStep, CreateEntry, CheckSize, EraseConfirmations, RemoveBegin,
                Push, Erase
  <2> QED  BY <2>1
<1> QED  BY <1>3, <1>4, <1>5, <1>6, <1>7, <1>8, <1>9

LEMMA UnheardInit == Init => Unheard /\ Tracked /\ Kept
<1> SUFFICES ASSUME Init PROVE Unheard /\ Tracked /\ Kept
  OBVIOUS
<1>1. Queued = {}
  BY OneServer DEF Init, Queued, Pipeline
<1>2. \A c \in Clients : view[c].at = "free" /\ view[c].m = None
  BY DEF Init, NoView
<1> QED  BY <1>1, <1>2, Names DEF Unheard, Tracked, Kept

LEMMA UnheardClient ==
    ASSUME TypeInv, Births, Unheard, NEW d \in Clients, ClientStep(d)
    PROVE  Unheard'
<1> USE DEF storeVars, runVars, roundVars, mmcVars, clientVars
<1>1. UNCHANGED batch /\ view \in [Clients -> [at : Places, m : Matches \cup {None}]]
  BY ClientDoes, TypesNow DEF WellViewed
<1>2. PICK op \in Jobs, st \in Steps, g \in Groups \cup {None} :
           /\ Adds(<<RoomTask(st, op, d, g, None)>>)
           /\ \/ /\ op \in {"search", "leave"} /\ online' = online
                 /\ view' = view \/ view' = [view EXCEPT ![d] = NoView("searching")]
              \/ /\ op = "confirm" /\ g = view[d].m /\ view[d].at \in {"found", "confirmed"}
                 /\ view' = [view EXCEPT ![d].at = "confirmed"] /\ online' = online
              \/ /\ op = "exit" /\ g = view[d].m /\ view[d].at \in InMatch /\ UNCHANGED clientVars
              \/ /\ op = "close"
                 /\ view' = [view EXCEPT ![d] = NoView("free")] /\ online' = online \ {d}
  BY ClientDoes
<1>3. d \in online
  BY ClientDoes
<1> DEFINE u == RoomTask(st, op, d, g, None)
<1>4. u.step = st /\ u.job = op /\ u.c = d /\ u.g = g /\ Queued' = Queued \cup {u}
  BY <1>2, RoomFields, Few DEF Adds
<1> HIDE DEF u
<1>5. \A m : Loose(m) <=> Loose(m)'
  BY <1>1 DEF Loose
<1>6. view[d].at \in InMatch => Loose(view[d].m)
  BY DEF Unheard, TypeInv
<1>7. op \in {"confirm", "exit"} => Loose(g)
  BY <1>2, <1>6 DEF InMatch
<1>8. \A c \in Clients : view'[c].m = view[c].m \/ view'[c].m = None
  BY <1>1, <1>2 DEF NoView
<1>9. \A c \in Clients : c \notin online' => view'[c].at = "free"
  <2>1. CASE op = "close"
    BY <1>1, <1>2, <2>1 DEF NoView, Unheard
  <2>2. CASE op # "close"
    <3>1. online' = online /\ \A c \in Clients : c # d => view'[c] = view[c]
      BY <1>1, <1>2, <2>2
    <3> QED  BY <1>3, <3>1 DEF Unheard
  <2> QED  BY <2>1, <2>2
<1>10. \A t \in Queued' : t.job = "close" => t.c \notin online'
  BY <1>2, <1>4 DEF Unheard
<1>11. \A c \in Clients : view'[c].m \in Matches => \E m : m = view'[c].m /\ Loose(m)'
  BY <1>5, <1>8, Names DEF Unheard
<1>12. \A t \in Queued' : t.job \in {"confirm", "exit"} /\ t.step # "notify.lrange"
                             => \E m : m = t.g /\ Loose(m)'
  BY <1>4, <1>5, <1>7 DEF Unheard
<1>13. \A t \in Queued' : t.job \in {"found", "start", "disband"} => \E m : m = t.g /\ Loose(m)'
  BY <1>2, <1>4, <1>5 DEF Unheard
<1> QED  BY <1>9, <1>10, <1>11, <1>12, <1>13 DEF Unheard

LEMMA UnheardServer ==
    ASSUME TypeInv, Births, Unheard, NEW s \in Servers, ServerStep(s)
    PROVE  Unheard'
<1> USE DEF storeVars, runVars, roundVars, mmcVars, clientVars
<1>1. PICK f : Proceeds(f)
  BY ServerProceeds
<1>2. /\ Current \in Good /\ Current \in Queued /\ Queued' \subseteq Good
      /\ \A t \in Queued' : t \in Queued \/ t \in Elements(f)
  BY <1>1, Behindhand, Head1
<1>3. \A m \in minted : Loose(m) => Loose(m)'
  BY LooseServer
<1>4. \A t \in Queued : t.g \in Matches /\ t.step # "create.hset" => t.g \in minted
  BY DEF Births, Begun
<1>5. /\ online' = online
      /\ \A c \in Clients :
            \/ view'[c] = view[c]
            \/ /\ view'[c].at \in {"ignored", "free"} /\ view'[c].m = None
               /\ c \in online \/ view[c].at = "searching"
            \/ /\ view'[c].m = Current.g /\ c \in online
               /\ Current.step = "notify.lrange" /\ Current.job \in {"found", "start"}
  BY Tellings
<1>6. \A c \in Clients : c \notin online' => view'[c].at = "free"
  BY <1>5 DEF Unheard
<1>7. \A t \in Queued' : t.job = "close" => t.c \notin online'
  <2>1. \A t \in Elements(f) : t.job = "close" => Current.job = "close" /\ t.c = Current.c
    BY <1>1 DEF Proceeds, GoesOn, Turns
  <2> QED  BY <1>2, <1>5, <2>1 DEF Unheard
<1>8. Current.job \in {"found", "start"} => Current.g \in Matches /\ Current.step # "create.hset"
  BY <1>2, Kinds DEF Fits
<1>9. \A c \in Clients : view'[c].m \in Matches => \E m : m = view'[c].m /\ Loose(m)'
  <2>1. ASSUME NEW c \in Clients, view'[c].m \in Matches
        PROVE  \E m \in minted : m = view'[c].m /\ Loose(m)
    <3>1. CASE view'[c] = view[c]
      BY <2>1, <3>1 DEF Births, Begun, Unheard
    <3>2. CASE view'[c].m = Current.g /\ Current.job \in {"found", "start"}
      BY <1>2, <1>4, <1>8, <3>2 DEF Unheard
    <3> QED  BY <1>5, <2>1, <3>1, <3>2, Names
  <2> QED  BY <1>3, <2>1
<1>10. ASSUME NEW t \in Queued', t.job \in {"confirm", "exit"}, t.step # "notify.lrange"
       PROVE  \E m : m = t.g /\ Loose(m)'
  <2>1. CASE t \in Queued
    <3>1. t.g \in minted /\ Loose(t.g)
      <4>1. t.g \in Matches /\ t.step # "create.hset"
        BY <1>2, <1>10, Kinds DEF Fits
      <4> QED  BY <1>4, <1>10, <2>1, <4>1 DEF Unheard
    <3> QED  BY <1>3, <3>1
  <2>2. CASE t \in Elements(f)
    <3>1. t.job = Current.job /\ t.g = Current.g /\ Current.step # "notify.lrange"
      BY <1>1, <1>10, <2>2 DEF Proceeds, GoesOn, Turns, Chain
    <3>2. Current.g \in Matches /\ Current.step # "create.hset"
      BY <1>2, <1>10, <3>1, Kinds DEF Fits
    <3>3. Current.g \in minted /\ Loose(Current.g)
      BY <1>2, <1>4, <1>10, <3>1, <3>2 DEF Unheard
    <3> QED  BY <1>3, <3>1, <3>3
  <2> QED  BY <1>2, <2>1, <2>2
<1>11. ASSUME NEW t \in Queued', t.job \in {"found", "start", "disband"}
       PROVE  \E m : m = t.g /\ Loose(m)'
  <2>1. CASE t \in Queued
    <3>1. t.g \in minted /\ Loose(t.g)
      <4>1. t.g \in Matches /\ t.step # "create.hset"
        BY <1>2, <1>11, Kinds DEF Fits
      <4> QED  BY <1>4, <1>11, <2>1, <4>1 DEF Unheard
    <3> QED  BY <1>3, <3>1
  <2>2. CASE t \in Elements(f) /\ GoesOn(t)
    <3>1. t.job = Current.job /\ t.g = Current.g
      BY <2>2 DEF GoesOn
    <3>2. Current.g \in Matches /\ Current.step # "create.hset"
      BY <1>2, <1>11, <3>1, Kinds DEF Fits
    <3>3. Current.g \in minted /\ Loose(Current.g)
      BY <1>2, <1>4, <1>11, <3>1, <3>2 DEF Unheard
    <3> QED  BY <1>3, <3>1, <3>3
  <2>3. CASE t \in Elements(f) /\ Turns(t)
    <3>1. /\ Current.step \in PushSteps /\ Current.job = "match" /\ Ends(Current) /\ AllPushed(Current)
          /\ \E r \in RunIds : Current.for \in Range(batch[r]) /\ t.g \in Range(batch[r])
      BY <1>11, <2>3 DEF Turns
    <3>2. Push(s)
      <4>1. ~RequestStep(s)
        BY <3>1, SearchDoes, GetDoes, MemberDoes, ReadConfirmationsDoes, AddConfirmationDoes,
           ExpireConfirmationsDoes, CloseCheckDoes, LeaveAllDoes DEF RequestStep, PushSteps
      <4>2. ~IntervalStep(s) /\ ~NotifyGroup(s)
        BY <3>1, QueueCutBriefly, CreateDoes, CheckSizeDoes, EraseConfirmationsDoes, NotifyDoes
           DEF IntervalStep, PushSteps
      <4>3. ~RemoveBegin(s) /\ ~RemoveEnd(s) /\ ~Erase(s)
        BY <3>1, RemoveBeginDoes, RemoveEndDoes, EraseDoes DEF PushSteps, EraseSteps
      <4> QED  BY <4>1, <4>2, <4>3 DEF ServerStep
    <3>3. RunOf(Current) \in RunIds /\ Current.for \in Range(batch[RunOf(Current)])
      BY <3>1 DEF RunOf
    <3>4. t.g \in Range(batch[RunOf(Current)])
      BY <3>1, <3>3 DEF Births
    <3>5. batch' = [batch EXCEPT ![RunOf(Current)] = <<>>]
      BY <3>1, <3>2, OneServer DEF Push, Current, Pipeline
    <3>6. batch \in [RunIds -> Seq(minted)]
      BY TypesNow
    <3>7. \A p \in RunIds : Range(batch'[p]) = IF p = RunOf(Current) THEN {} ELSE Range(batch[p])
      BY <3>3, <3>5, <3>6 DEF Range
    <3>8. PICK m : m = t.g
      OBVIOUS
    <3>9. Loose(m)'
      BY <3>3, <3>4, <3>7, <3>8 DEF Births, Loose
    <3> QED  BY <3>8, <3>9
  <2> QED  BY <1>1, <1>2, <2>1, <2>2, <2>3 DEF Proceeds
<1> QED  BY <1>6, <1>7, <1>9, <1>10, <1>11 DEF Unheard

LEMMA IntervalAdds ==
    ASSUME TypeInv,
           \/ \E r \in RunIds : Tick(r) \/ ConfirmRound(r)
           \/ \E m \in Matches : DisbandTimer(m) \/ TwoMinutes(m) \/ ExpireKey(m)
    PROVE  /\ UNCHANGED <<storeVars, clientVars, minted, lobby, batch>>
           /\ \E f \in Seq(Good) :
                 /\ Adds(f)
                 /\ \A t \in Elements(f) :
                       \/ t.step = "mm.lrange" /\ t.job = "match"
                       \/ t.job \in {"start", "disband"} /\ t.g \in confirming \cup timers
<1> USE DEF storeVars, runVars, roundVars, mmcVars, clientVars
<1>1. CASE \E r \in RunIds : Tick(r)
  <2>1. PICK r \in RunIds : Tick(r)
    BY <1>1
  <2> DEFINE u == RoomTask("mm.lrange", "match", None, Queue, r)
  <2>2. u.step = "mm.lrange" /\ u.job = "match"
    BY RoomFields
  <2>3. /\ u \in Good /\ Adds(<<u>>) /\ Elements(<<u>>) = {u}
        /\ UNCHANGED <<storeVars, clientVars, minted, lobby, batch>>
    BY <2>1, TickDoes
  <2> HIDE DEF u
  <2> QED  BY <2>2, <2>3 DEF Adds
<1>2. CASE \E m \in Matches : DisbandTimer(m)
  <2>1. PICK m \in Matches : DisbandTimer(m)
    BY <1>2
  <2> DEFINE u == RoomTask("erase.lrangeGroup", "disband", None, m, None)
  <2>2. u.job = "disband" /\ u.g = m
    BY RoomFields
  <2>3. /\ m \in timers /\ u \in Good /\ Adds(<<u>>) /\ Elements(<<u>>) = {u}
        /\ UNCHANGED <<storeVars, clientVars, minted, lobby, batch>>
    BY <2>1, TimerDoes
  <2> HIDE DEF u
  <2> QED  BY <2>2, <2>3 DEF Adds
<1>3. CASE \E r \in RunIds : ConfirmRound(r)
  <2>1. PICK r \in RunIds : ConfirmRound(r)
    BY <1>3
  <2>2. PICK f \in Seq(Good) :
           /\ Adds(f)
           /\ Elements(f) = {Round(m) : m \in confirming} \cup {Telling(m) : m \in ToTell}
    BY <2>1, RoundDoes
  <2>3. \A m : Round(m).job \in {"start", "disband"} /\ Round(m).g = m
    BY RoomFields DEF Round
  <2>4. \A m : Telling(m).job = "disband" /\ Telling(m).g = m
    BY RoomFields DEF Telling
  <2>5. ToTell \subseteq confirming
    BY DEF ToTell
  <2>6. UNCHANGED <<storeVars, clientVars, minted, lobby, batch>>
    BY <2>1, RoundDoes
  <2>7. \A t \in Elements(f) : t.job \in {"start", "disband"} /\ t.g \in confirming \cup timers
    BY <2>2, <2>3, <2>4, <2>5
  <2> QED  BY <2>2, <2>6, <2>7
<1>4. CASE \E m \in Matches : TwoMinutes(m) \/ ExpireKey(m)
  <2>1. UNCHANGED <<storeVars, pipe, clientVars, minted, lobby, batch>>
    BY <1>4 DEF TwoMinutes, ExpireKey
  <2>2. pipe \in [Servers -> Seq(Good)] /\ Pipeline \in Seq(Good)
    BY TypesNow, AllGood
  <2>3. Pipeline' = Pipeline /\ Queued' = Queued
    BY <2>1 DEF Pipeline, Queued
  <2>4. Pipeline \o <<>> = Pipeline
    BY <2>2, ConcatEmptySeq
  <2>5. <<>> \in Seq(Good) /\ Elements(<<>>) = {}
    BY Nothing
  <2>6. Adds(<<>>)
    BY <2>1, <2>2, <2>3, <2>4, <2>5 DEF Adds
  <2> QED  BY <2>1, <2>5, <2>6
<1> QED  BY <1>1, <1>2, <1>3, <1>4

LEMMA UnheardInterval ==
    ASSUME TypeInv, Births, Unheard,
           \/ \E r \in RunIds : Tick(r) \/ ConfirmRound(r)
           \/ \E m \in Matches : DisbandTimer(m) \/ TwoMinutes(m) \/ ExpireKey(m)
    PROVE  Unheard'
<1> USE DEF clientVars
<1>1. PICK f \in Seq(Good) :
         /\ Adds(f)
         /\ \A t \in Elements(f) :
               \/ t.step = "mm.lrange" /\ t.job = "match"
               \/ t.job \in {"start", "disband"} /\ t.g \in confirming \cup timers
  BY IntervalAdds
<1>2. UNCHANGED <<clientVars, batch>>
  BY IntervalAdds
<1>3. \A m : Loose(m) <=> Loose(m)'
  BY <1>2 DEF Loose
<1>4. \A t \in Queued' : \/ t \in Queued
                         \/ t.job = "match"
                         \/ t.job \in {"start", "disband"} /\ t.g \in confirming \cup timers
  BY <1>1 DEF Adds
<1>5. \A t \in Queued' : t.job = "close" => t.c \notin online'
  BY <1>2, <1>4 DEF Unheard
<1>6. \A c \in Clients : view'[c].m \in Matches => \E m : m = view'[c].m /\ Loose(m)'
  BY <1>2, <1>3 DEF Unheard
<1>7. \A t \in Queued' : t.job \in {"confirm", "exit"} /\ t.step # "notify.lrange"
                             => \E m : m = t.g /\ Loose(m)'
  BY <1>3, <1>4 DEF Unheard
<1>8. \A m \in confirming \cup timers : Loose(m)
  BY DEF Births
<1>9. \A t \in Queued' : t.job \in {"found", "start", "disband"} => \E m : m = t.g /\ Loose(m)'
  BY <1>3, <1>4, <1>8 DEF Unheard
<1> QED  BY <1>2, <1>5, <1>6, <1>7, <1>9 DEF Unheard

LEMMA TrackedAdded ==
    ASSUME TypeInv, Tracked, NEW f, Adds(f),
           \A t \in Elements(f) : t.job = "match" => t.step = "mm.lrange"
    PROVE  Tracked'
<1> SUFFICES ASSUME NEW t \in Queued', NEW u \in Queued',
                    t.job = "match", u.job = "match", u.for = t.for, t.step \in RemoveSteps
             PROVE  u.step \in RemoveSteps
  BY DEF Tracked
<1>1. Queued' = Queued \cup Elements(f) /\ Elements(f) \subseteq Good
  BY DEF Adds, Elements
<1>2. t \in Queued /\ t \in Good
  BY <1>1, AllGood DEF RemoveSteps
<1>3. t.for \in Matches
  BY <1>2, Kinds DEF Fits, RemoveSteps
<1>4. u \in Elements(f) => u.step = "mm.lrange" /\ u.for \in RunIds
  BY <1>1, Kinds DEF Fits, RemoveSteps, PushSteps
<1>5. u \in Queued
  BY <1>1, <1>3, <1>4, Names
<1> QED  BY <1>2, <1>5 DEF Tracked

LEMMA TrackedServer ==
    ASSUME TypeInv, Tracked, NEW s \in Servers, ServerStep(s)
    PROVE  Tracked'
<1>1. PICK f : Proceeds(f)
  BY ServerProceeds
<1>2. /\ Pipeline # <<>> /\ Queued' = Behind \cup Elements(f) /\ Queued' \subseteq Good
      /\ Queued = {Current} \cup Behind /\ Queued \subseteq Good /\ Current \in Good
  BY <1>1, Behindhand, Head1
<1> SUFFICES ASSUME NEW t \in Queued', NEW u \in Queued',
                    t.job = "match", u.job = "match", u.for = t.for, t.step \in RemoveSteps
             PROVE  u.step \in RemoveSteps
  BY DEF Tracked
<1>3. t \in Good /\ u \in Good /\ t.for \in Matches
  BY <1>2, Kinds DEF Fits, RemoveSteps
<1>4. \A v \in Elements(f) : GoesOn(v) \/ Turns(v)
  BY <1>1 DEF Proceeds
<1>5. CASE Current.step = "mm.lrange"
  <2>1. \A v \in Elements(f) : v.step = "remove.lremClient" /\ v.for \in Matches \ minted
    BY <1>4, <1>5 DEF GoesOn, Turns, Chain, PushSteps
  <2>2. ASSUME NEW v \in Queued, v.job = "match", v.for \in Matches
        PROVE  v.for \in minted
    <3>1. v.step # "mm.lrange"
      BY <1>2, <2>2, Kinds, Names DEF Fits, RemoveSteps, PushSteps
    <3>2. PICK r \in RunIds : v.for \in Range(batch[r])
      BY <2>2, <3>1, TypesNow DEF Filling
    <3>3. batch[r] \in Seq(minted)
      BY TypesNow
    <3> QED  BY <3>2, <3>3 DEF Range
  <2> QED  BY <1>2, <1>3, <2>1, <2>2 DEF Tracked, RemoveSteps
<1>6. CASE Current.step # "mm.lrange"
  <2>1. \A v \in Elements(f) :
           v.job = "match" => v.for = Current.for /\ Current.job = "match"
    BY <1>4, <1>6 DEF GoesOn, Turns
  <2>2. \A v \in Elements(f) :
           v.job = "match" /\ v.step \in RemoveSteps => Current.step = "remove.lremClient"
    BY <1>2, <1>4, <1>6, Kinds DEF GoesOn, Turns, Chain, RemoveSteps
  <2>3. \A v \in Elements(f) :
           v.job = "match" /\ Current.step = "remove.lremClient" => v.step \in RemoveSteps
    BY <1>4 DEF GoesOn, Turns, Chain, RemoveSteps, PushSteps
  <2>4. \A v \in Elements(f) : \A w \in Behind :
           v.job = "match" /\ Current.step = "remove.lremGroup" => w.for # Current.for
    <3>1. ASSUME NEW v \in Elements(f), v.job = "match", Current.step = "remove.lremGroup"
          PROVE  \A w \in Behind : w.for # Current.for
      <4>1. v.step # "notify.lrange"
        BY <1>2, <3>1, Kinds
      <4>2. ~GoesOn(v)
        BY <3>1, <4>1 DEF GoesOn, Chain
      <4> QED  BY <1>4, <3>1, <4>2 DEF Turns, PushSteps
    <3> QED  BY <3>1
  <2>5. CASE t \in Behind /\ u \in Behind
    BY <1>2, <2>5 DEF Tracked
  <2>6. CASE t \in Elements(f) /\ u \in Behind
    <3>1. Current.step \in RemoveSteps /\ Current.for = u.for /\ Current.job = "match"
      BY <2>1, <2>2, <2>6 DEF RemoveSteps
    <3> QED  BY <1>2, <2>6, <3>1 DEF Tracked
  <2>7. CASE t \in Elements(f) /\ u \in Elements(f)
    BY <2>2, <2>3, <2>7
  <2>8. CASE t \in Behind /\ u \in Elements(f)
    <3>1. Current.for = t.for /\ Current.job = "match"
      BY <2>1, <2>8
    <3>2. Current.step \in RemoveSteps
      BY <1>2, <2>8, <3>1 DEF Tracked
    <3>3. Current.step # "remove.lremGroup"
      BY <2>4, <2>8, <3>1
    <3> QED  BY <2>3, <2>8, <3>2, <3>3 DEF RemoveSteps
  <2> QED  BY <1>2, <2>5, <2>6, <2>7, <2>8
<1> QED  BY <1>5, <1>6

(* The command at the head says which action a step of the server is. *)
LEMMA StepSays ==
    ASSUME TypeInv, NEW s \in Servers, ServerStep(s)
    PROVE  /\ Current.step = "search.lrange" => SearchCheck(s)
           /\ Current.step \in PushSteps => Push(s)
           /\ Current.step = "remove.lremClient" => RemoveBegin(s)
           /\ Current.step = "remove.lremGroup" => RemoveEnd(s)
           /\ Current.step = "create.hset" => CreateEntry(s)
           /\ Current.step = "notify.lrange" => NotifyGroup(s)
           /\ Current.step \in EraseSteps => Erase(s)
<1>1. /\ RequestStep(s) => SearchCheck(s) \/ Current.step \in {"get.hget", "member.lrange", "mmc.lrange",
                            "mmc.expire", "mmc.lpush", "match.lrange", "close.lrange"}
      /\ SearchCheck(s) => Current.step = "search.lrange"
  BY SearchDoes, GetDoes, MemberDoes, ReadConfirmationsDoes, AddConfirmationDoes,
     ExpireConfirmationsDoes, CloseCheckDoes, LeaveAllDoes DEF RequestStep
<1>2. IntervalStep(s) => \/ CreateEntry(s) /\ Current.step = "create.hset"
                         \/ Current.step \in {"mm.lrange", "mmc.llen", "mmc.del"}
  BY QueueCutBriefly, CreateDoes, CheckSizeDoes, EraseConfirmationsDoes DEF IntervalStep
<1>3. /\ Push(s) => Current.step \in PushSteps
      /\ RemoveBegin(s) => Current.step = "remove.lremClient"
      /\ RemoveEnd(s) => Current.step = "remove.lremGroup"
      /\ NotifyGroup(s) => Current.step = "notify.lrange"
      /\ Erase(s) => Current.step \in EraseSteps
  BY PushDoes, RemoveBeginDoes, RemoveEndDoes, NotifyDoes, EraseDoes
<1>4. \/ RequestStep(s) \/ IntervalStep(s) \/ Push(s) \/ RemoveBegin(s) \/ RemoveEnd(s)
      \/ Erase(s) \/ NotifyGroup(s)
  BY DEF ServerStep
<1> QED  BY <1>1, <1>2, <1>3, <1>4 DEF PushSteps, EraseSteps

(* Only a remove of his, or the deletion of the list, takes a client out. *)
LEMMA ListedStay ==
    ASSUME TypeInv, NEW s \in Servers, ServerStep(s), NEW c \in Clients, NEW g \in Groups,
           members[g][c] > 0
    PROVE  \/ members'[g][c] > 0
           \/ Current.step = "remove.lremGroup" /\ Current.c = c /\ Current.g = g
           \/ Current.step = "erase.del" /\ Current.g = g
<1> USE DEF storeVars, runVars, roundVars, mmcVars, clientVars
<1>1. CASE Push(s)
  <2>1. members[g][c] \in Nat
    BY Counted
  <2>2. members' = members \/ members'[g][c] = members[g][c] \/ members'[g][c] = members[g][c] + 1
    BY <1>1, PushDoes
  <2> QED  BY <2>1, <2>2
<1>2. CASE RemoveEnd(s)
  BY <1>2, RemoveEndDoes
<1>3. CASE Erase(s)
  BY <1>3, EraseDoes
<1>4. CASE RequestStep(s)
  <2>1. members' = members
    BY <1>4, SearchDoes, GetDoes, MemberDoes, ReadConfirmationsDoes, AddConfirmationDoes,
       ExpireConfirmationsDoes, CloseCheckDoes, LeaveAllDoes DEF RequestStep
  <2> QED  BY <2>1
<1>5. CASE IntervalStep(s) \/ NotifyGroup(s) \/ RemoveBegin(s)
  <2>1. members' = members
    BY <1>5, QueueCutBriefly, CreateDoes, CheckSizeDoes, EraseConfirmationsDoes, NotifyDoes,
       RemoveBeginDoes DEF IntervalStep
  <2> QED  BY <2>1
<1> QED  BY <1>1, <1>2, <1>3, <1>4, <1>5 DEF ServerStep

(* A match stays with its run until all its pushes are through; then it is  *)
(* invited.                                                                 *)
LEMMA StaysFilling ==
    ASSUME TypeInv, NEW s \in Servers, ServerStep(s), NEW m \in Matches, ~Loose(m)
    PROVE  /\ lobby'[m] = lobby[m]
           /\ Loose(m)' => /\ \A u \in Behind : u.for # m
                           /\ \E f : /\ Runs(f)
                                     /\ RoomTask("notify.lrange", "found", None, m, None) \in Elements(f)
                                     /\ \A u \in Elements(f) : u.step = "notify.lrange"
<1> USE DEF storeVars, runVars, roundVars, mmcVars, clientVars
<1>1. batch \in [RunIds -> Seq(minted)] /\ lobby \in [Matches -> Seq(Clients)]
  BY TypesNow
<1>2. PICK r \in RunIds : m \in Range(batch[r])
  BY DEF Loose
<1>3. m \in minted
  <2>1. batch[r] \in Seq(minted)
    BY <1>1
  <2> QED  BY <1>2, <2>1 DEF Range
<1>4. CASE MatchQueue(s)
  <2>1. Current.step = "mm.lrange" /\ Current.for \in RunIds /\ Current \in Queued
    BY <1>4, QueueCut, Head1 DEF Runs
  <2>2. batch[Current.for] = <<>>
    BY <2>1, TypesNow DEF Filling
  <2>3. r # Current.for
    BY <1>2, <2>2 DEF Range
  <2>4. \E ids : batch' = [batch EXCEPT ![Current.for] = ids]
    BY <1>4, QueueCut
  <2>5. batch'[r] = batch[r]
    BY <1>1, <2>3, <2>4
  <2>6. ~Loose(m)'
    BY <1>2, <2>5 DEF Loose
  <2>7. lobby'[m] = lobby[m]
    BY <1>3, <1>4, QueueCut
  <2> QED  BY <2>6, <2>7
<1>5. CASE Push(s)
  <2>1. lobby' = lobby
    BY <1>5, PushDoes
  <2>2. CASE ~(Ends(Current) /\ AllPushed(Current))
    <3>1. batch' = batch
      BY <1>5, <2>2, PushDoes
    <3> QED  BY <2>1, <3>1 DEF Loose
  <2>3. CASE Ends(Current) /\ AllPushed(Current)
    <3>1. batch' = [batch EXCEPT ![RunOf(Current)] = <<>>] /\ Runs(Pushed(Current))
      BY <1>5, <2>3, PushDoes
    <3>2. Current \in Queued /\ Current \in Good /\ Current.step \in PushSteps
      BY <1>5, <3>1, PushDoes, Head1 DEF Runs
    <3>3. /\ RunOf(Current) \in RunIds
          /\ Elements(Pushed(Current)) = {RoomTask("notify.lrange", "found", None, k, None) :
                                             k \in Range(batch[RunOf(Current)])}
      BY <2>3, <3>2, PushedGood
    <3>4. CASE r # RunOf(Current)
      <4>1. batch'[r] = batch[r]
        BY <1>1, <3>1, <3>4
      <4> QED  BY <1>2, <2>1, <4>1 DEF Loose
    <3>5. CASE r = RunOf(Current)
      <4>1. \A u \in Behind : u.for # m
        BY <1>2, <2>3, <3>5 DEF AllPushed
      <4>2. \A u \in Elements(Pushed(Current)) : u.step = "notify.lrange"
        BY <3>3, RoomFields
      <4> QED  BY <1>2, <2>1, <3>1, <3>3, <3>5, <4>1, <4>2
    <3> QED  BY <3>4, <3>5
  <2> QED  BY <2>2, <2>3
<1>6. CASE RequestStep(s)
  <2>1. UNCHANGED <<batch, lobby>>
    BY <1>6, SearchDoes, GetDoes, MemberDoes, ReadConfirmationsDoes, AddConfirmationDoes,
       ExpireConfirmationsDoes, CloseCheckDoes, LeaveAllDoes DEF RequestStep
  <2> QED  BY <2>1 DEF Loose
<1>7. CASE ~MatchQueue(s) /\ ~Push(s) /\ ~RequestStep(s)
  <2>1. UNCHANGED <<batch, lobby>>
    BY <1>7 DEF ServerStep, IntervalStep, CreateEntry, CheckSize, EraseConfirmations, RemoveBegin,
                RemoveEnd, Erase, NotifyGroup
  <2> QED  BY <2>1 DEF Loose
<1> QED  BY <1>4, <1>5, <1>6, <1>7

(* Others do nothing to a match that is being filled. *)
LEMMA HarmlessOthers ==
    ASSUME TypeInv, Births, Unheard, NEW m \in Matches, ~Loose(m),
           NEW t \in Queued, t.g = m, t.for # m
    PROVE  Harmless(t)
<1>1. t \in Good
  BY AllGood
<1>2. CASE t.job \in {"search", "leave"}
  BY <1>1, <1>2, Kinds, Names DEF Fits
<1>3. CASE t.job \in {"confirm", "exit"}
  BY <1>3 DEF Unheard, Harmless
<1>4. CASE t.job = "close"
  BY <1>4 DEF Harmless
<1>5. CASE t.job = "heal"
  BY <1>1, <1>5, Kinds DEF Fits, Births
<1>6. CASE t.job = "match"
  BY <1>1, <1>6, Kinds, Names DEF Fits, Harmless
<1>7. CASE t.job \in {"found", "start", "disband"}
  BY <1>7 DEF Unheard
<1> QED  BY <1>1, <1>2, <1>3, <1>4, <1>5, <1>6, <1>7, Kinds, Steps2

(* A client listed by his match is in it until the run invites it. *)
LEMMA HeardNext ==
    ASSUME TypeInv, Births, Unheard, NEW s \in Servers, ServerStep(s),
           NEW c \in Clients, NEW m \in Matches, ~Loose(m), c \in Range(lobby[m]),
           members'[m][c] > 0
    PROVE  Moves(c)' \/ WillHear(c)'
<1>1. lobby'[m] = lobby[m]
  BY StaysFilling
<1>2. CASE ~Loose(m)'
  BY <1>1, <1>2 DEF Moves
<1>3. CASE Loose(m)'
  <2> DEFINE n == RoomTask("notify.lrange", "found", None, m, None)
  <2>1. n.job = "found" /\ n.g = m
    BY RoomFields
  <2>2. PICK f : Runs(f) /\ n \in Elements(f) /\ \A u \in Elements(f) : u.step = "notify.lrange"
    BY <1>3, StaysFilling
  <2> HIDE DEF n
  <2>3. \A u \in Behind : u.for # m
    BY <1>3, StaysFilling
  <2>4. Queued' = Behind \cup Elements(f) /\ Behind \subseteq Queued
    BY <2>2, Head1 DEF Runs
  <2>5. ASSUME NEW u \in Queued', u.g = m
        PROVE  u.job = "close" \/ u.step \in {"notify.lrange", "mm.lrange"}
    BY <2>2, <2>3, <2>4, <2>5, HarmlessOthers DEF Harmless
  <2>6. PICK i \in DOMAIN Pipeline' : Pipeline'[i] = n
    BY <2>2, <2>4 DEF Queued
  <2>7. \A j \in DOMAIN Pipeline' : Pipeline'[j] \in Queued'
    BY DEF Queued
  <2>8. \A j \in DOMAIN Pipeline' : Pipeline'[j].g = m => Harmless(Pipeline'[j])
    BY <2>5, <2>7 DEF Harmless
  <2> QED  BY <2>1, <2>6, <2>8 DEF WillHear, Harmless
<1> QED  BY <1>2, <1>3

(* A push whose client is listed by neither list goes on; refused by the    *)
(* client's list alone, it has another one in front of its second write.    *)
LEMMA PushKeeps ==
    ASSUME TypeInv, Coherent, NEW s \in Servers, Push(s)
    PROVE  \/ members'[Current.g][Current.c] > 0
           \/ Erasing(Current.g)
           \/ \E u \in Queued' : u.c = Current.c /\ u.g = Current.g /\ u.step \in PushSteps
<1> USE DEF storeVars, runVars, roundVars, mmcVars, clientVars
<1>1. PICK c \in Clients, g \in Groups : c = Current.c /\ g = Current.g
  BY PushDoes
<1>2. Pipeline # <<>>
  BY PushDoes DEF Runs
<1>3. Current \in Good /\ Current \in Queued /\ Queued = {Current} \cup Behind /\ Pipeline \in Seq(Good)
  BY <1>2, Head1
<1>4. members[g][c] \in Nat
  BY Counted
<1>5. \A st : At(Current, st).step = st /\ At(Current, st).c = c /\ At(Current, st).g = g
  BY <1>1, <1>3, AtFields
<1>6. CASE Current.step = "push.lrangeGroup"
  <2>1. CASE members[g][c] > 0
    BY <1>1, <1>6, <2>1, PushDoes
  <2>2. CASE ~(members[g][c] > 0)
    <3>1. Runs(<<At(Current, "push.lrangeClient")>>)
      BY <1>1, <1>6, <2>2, PushDoes
    <3>2. At(Current, "push.lrangeClient") \in Queued'
      BY <3>1, Few DEF Runs
    <3> QED  BY <1>1, <1>5, <3>2 DEF PushSteps
  <2> QED  BY <2>1, <2>2
<1>7. CASE Current.step = "push.lpushClient"
  <2>1. Runs(<<At(Current, "push.lpushGroup")>>)
    BY <1>7, PushDoes
  <2>2. At(Current, "push.lpushGroup") \in Queued'
    BY <2>1, Few DEF Runs
  <2> QED  BY <1>1, <1>5, <2>2 DEF PushSteps
<1>8. CASE Current.step = "push.lpushGroup"
  <2>1. members'[g][c] = members[g][c] + 1
    BY <1>1, <1>8, PushDoes
  <2> QED  BY <1>1, <1>4, <2>1
<1>9. CASE Current.step = "push.lrangeClient"
  <2>1. members' = members
    BY <1>9, PushDoes
  <2>2. CASE ~(groupsOf[c][g] > 0)
    <3>1. Runs(<<At(Current, "push.lpushClient")>>)
      BY <1>1, <1>9, <2>2, PushDoes
    <3>2. At(Current, "push.lpushClient") \in Queued'
      BY <3>1, Few DEF Runs
    <3> QED  BY <1>1, <1>5, <3>2 DEF PushSteps
  <2>3. CASE groupsOf[c][g] > 0 /\ ~(members[g][c] > 0)
    <3>1. Agrees(c, g)
      BY DEF Coherent
    <3>2. CASE Erasing(g)
      BY <1>1, <3>2
    <3>3. CASE Converging(Pipeline, c, g, groupsOf[c][g] > 0, members[g][c] > 0)
      <4> DEFINE a == groupsOf[c][g] > 0
                 b == members[g][c] > 0
      <4>1. a \in BOOLEAN /\ b \in BOOLEAN /\ Converging(Pipeline, c, g, a, b) /\ ~(a => b)
        BY <2>3, <3>3
      <4> HIDE DEF a, b
      <4>2. PICK i \in DOMAIN Pipeline :
               Owes(Pipeline[i], c, g) /\ Pipeline[i].step = "push.lpushGroup"
        BY <1>3, <4>1, ConvergeListed
      <4>3. Pipeline[i] \in Queued /\ Pipeline[i] # Current
        BY <1>9, <4>2 DEF Queued
      <4>4. Pipeline[i] \in Behind
        BY <1>3, <4>3
      <4>5. \E f : Queued' = Behind \cup Elements(f)
        BY PushDoes DEF Runs
      <4>6. Pipeline[i] \in Queued'
        BY <4>4, <4>5
      <4> QED  BY <1>1, <4>2, <4>6 DEF Owes, PushSteps
    <3> QED  BY <2>3, <3>1, <3>2, <3>3 DEF Agrees
  <2> QED  BY <1>1, <2>1, <2>2, <2>3
<1> QED  BY <1>6, <1>7, <1>8, <1>9, PushDoes DEF PushSteps

(* What is taken out of the queue for a match is followed by the rest of    *)
(* its lobby, or by the group.                                              *)
LEMMA RemovedGoesOn ==
    ASSUME TypeInv, Tracked, NEW s \in Servers, RemoveEnd(s), Current.job = "match"
    PROVE  /\ UNCHANGED <<batch, lobby>>
           /\ \E t \in Queued' : t.for = Current.for /\ t.step \in RemoveSteps \cup {"create.hset"}
<1> USE DEF runVars
<1>1. Runs(Removed(Current)) /\ Current.for \in Matches /\ Current.step = "remove.lremGroup"
  BY RemoveEndDoes
<1>2. Current \in Queued /\ Behind \subseteq Queued /\ Queued \subseteq Good
  BY <1>1, Head1 DEF Runs
<1>3. CASE \E u \in Behind : u.for = Current.for
  <2>1. PICK u \in Behind : u.for = Current.for
    BY <1>3
  <2>2. u.job = "match"
    BY <1>1, <1>2, <2>1, Kinds, Names DEF Fits
  <2>3. u.step \in RemoveSteps
    BY <1>1, <1>2, <2>1, <2>2 DEF Tracked, RemoveSteps
  <2>4. u \in Queued'
    BY <1>1, <2>1 DEF Runs
  <2>5. UNCHANGED <<batch, lobby>>
    BY RemoveEndDoes
  <2> QED  BY <2>1, <2>3, <2>4, <2>5
<1>4. CASE ~(\E u \in Behind : u.for = Current.for)
  <2> DEFINE n == RoomTask("create.hset", "match", None, Current.for, Current.for)
  <2>1. n.for = Current.for /\ n.step = "create.hset"
    BY RoomFields
  <2>2. Removed(Current) = <<n>>
    BY <1>4, RemoveEndDoes
  <2> HIDE DEF n
  <2>3. n \in Queued'
    BY <1>1, <2>2, Few DEF Runs
  <2>4. UNCHANGED <<batch, lobby>>
    BY RemoveEndDoes
  <2> QED  BY <2>1, <2>3, <2>4
<1> QED  BY <1>3, <1>4

(* The step goes on with a client that searches before and after it. *)
Searching(c) == view[c].at = "searching" /\ view'[c].at = "searching"

LEMMA AskedKept ==
    ASSUME TypeInv, Coherent, Unheard, NEW s \in Servers, ServerStep(s), NEW c \in Clients,
           Searching(c), Asked(c)
    PROVE  Asked(c)' \/ members'[Queue][c] > 0
<1> USE DEF storeVars, runVars, roundVars, mmcVars, clientVars
<1>1. PICK t \in Queued : t.c = c /\ t.job \in {"search", "leave"}
  BY DEF Asked
<1>2. PICK f : Proceeds(f)
  BY ServerProceeds
<1>3. /\ Queued' = Behind \cup Elements(f) /\ Queued = {Current} \cup Behind /\ Queued \subseteq Good
      /\ Queued' \subseteq Good
  BY <1>2, Behindhand, Head1
<1>4. CASE t \in Behind
  BY <1>1, <1>3, <1>4 DEF Asked
<1>5. CASE t = Current /\ t.job = "search"
  <2>1. Current.step \in {"search.lrange"} \cup PushSteps /\ Current.g = Queue
    BY <1>1, <1>3, <1>5, Kinds DEF Fits
  <2>2. CASE Current.step = "search.lrange"
    <3>1. SearchCheck(s)
      BY <2>2, StepSays
    <3>2. CASE GroupsOfClient(Current.c) = {}
      <4>1. Runs(<<At(Current, "push.lrangeGroup")>>)
        BY <3>1, <3>2, SearchDoes
      <4>2. At(Current, "push.lrangeGroup") \in Queued'
        BY <4>1, Few DEF Runs
      <4>3. At(Current, "push.lrangeGroup").c = c /\ At(Current, "push.lrangeGroup").job = "search"
        BY <1>1, <1>3, <1>5, AtFields
      <4> QED  BY <4>2, <4>3 DEF Asked
    <3>3. CASE GroupsOfClient(Current.c) # {}
      <4>1. view' = Told("ignored", None, {c})
        BY <1>1, <1>5, <3>1, <3>3, SearchDoes DEF Searching
      <4>2. view'[c].at = "ignored"
        BY <4>1, ToldOne
      <4> QED  BY <4>2 DEF Searching
    <3> QED  BY <3>2, <3>3
  <2>3. CASE Current.step \in PushSteps
    <3>1. Push(s)
      BY <2>3, StepSays
    <3>2. ~Erasing(Queue)
      BY <1>3, Kinds, Names DEF Fits, Erasing, Erasures, EraseSteps
    <3>3. CASE \E u \in Queued' : u.c = c /\ u.g = Queue /\ u.step \in PushSteps
      <4>1. PICK u \in Queued' : u.c = c /\ u.g = Queue /\ u.step \in PushSteps
        BY <3>3
      <4>2. u.job = "search"
        BY <1>3, <4>1, Kinds, Names DEF Fits, PushSteps, RemoveSteps
      <4> QED  BY <4>1, <4>2 DEF Asked
    <3> QED  BY <1>1, <1>5, <2>1, <3>1, <3>2, <3>3, PushKeeps
  <2> QED  BY <2>1, <2>2, <2>3
<1>6. CASE t = Current /\ t.job = "leave"
  <2>1. Current.step \in RemoveSteps
    BY <1>1, <1>3, <1>6, Kinds DEF Fits
  <2>2. CASE Current.step = "remove.lremClient"
    <3>1. Runs(<<At(Current, "remove.lremGroup")>>)
      BY <2>2, StepSays, RemoveBeginDoes
    <3>2. At(Current, "remove.lremGroup") \in Queued'
      BY <3>1, Few DEF Runs
    <3>3. At(Current, "remove.lremGroup").c = c /\ At(Current, "remove.lremGroup").job = "leave"
      BY <1>1, <1>3, <1>6, AtFields
    <3> QED  BY <3>2, <3>3 DEF Asked
  <2>3. CASE Current.step = "remove.lremGroup"
    <3>1. c \in online
      BY DEF Unheard, Searching
    <3>2. view' = Told("free", None, {c})
      BY <1>1, <1>6, <2>3, <3>1, StepSays, RemoveEndDoes DEF Searching
    <3>3. view'[c].at = "free"
      BY <3>2, ToldOne
    <3> QED  BY <3>3 DEF Searching
  <2> QED  BY <2>1, <2>2, <2>3 DEF RemoveSteps
<1> QED  BY <1>1, <1>3, <1>4, <1>5, <1>6

LEMMA QueuedKept ==
    ASSUME TypeInv, Unheard, Tracked, Inviting, NEW s \in Servers, ServerStep(s), NEW c \in Clients,
           Searching(c), members[Queue][c] > 0
    PROVE  members'[Queue][c] > 0 \/ Moves(c)'
<1> USE DEF storeVars, runVars, roundVars, mmcVars, clientVars
<1> SUFFICES ASSUME ~(members'[Queue][c] > 0)
             PROVE  Moves(c)'
  OBVIOUS
<1>1. PICK f : Proceeds(f)
  BY ServerProceeds
<1>2. Current \in Queued /\ Current \in Good
  BY <1>1, Behindhand, Head1
<1>3. Current.step = "remove.lremGroup" /\ Current.c = c /\ Current.g = Queue
  <2>1. ~(Current.step = "erase.del" /\ Current.g = Queue)
    BY <1>2, Kinds, Names DEF Fits, EraseSteps
  <2> QED  BY <2>1, ListedStay, Names
<1>4. RemoveEnd(s)
  BY <1>3, StepSays
<1>5. c \in online
  BY DEF Unheard, Searching
<1>6. Current.job # "leave"
  <2>1. Current.job = "leave" => view' = Told("free", None, {c})
    BY <1>3, <1>4, <1>5, RemoveEndDoes DEF Searching
  <2>2. Current.job = "leave" => view'[c].at = "free"
    BY <2>1, ToldOne
  <2> QED  BY <2>2 DEF Searching
<1>7. Current.job # "close"
  BY <1>2, <1>3, <1>5 DEF Unheard
<1>8. Current.job = "match"
  BY <1>2, <1>3, <1>6, <1>7, Kinds, Names DEF Fits, RemoveSteps
<1>9. PICK m \in Matches : m = Current.for
  BY <1>4, <1>8, RemoveEndDoes
<1>10. c \in Range(lobby[m]) /\ ~Loose(m)
  BY <1>2, <1>3, <1>8, <1>9, TypesNow DEF Inviting, RemoveSteps, Filling, Loose
<1>11. /\ UNCHANGED <<batch, lobby>>
       /\ \E t \in Queued' : t.for = m /\ t.step \in RemoveSteps \cup {"create.hset"}
  BY <1>4, <1>8, <1>9, RemovedGoesOn
<1>12. lobby'[m] = lobby[m] /\ ~Loose(m)'
  BY <1>10, <1>11 DEF Loose
<1> QED  BY <1>10, <1>11, <1>12 DEF Moves

LEMMA MovesKept ==
    ASSUME TypeInv, Births, Coherent, Unheard, Tracked, NEW s \in Servers, ServerStep(s),
           NEW c \in Clients, Searching(c), Moves(c)
    PROVE  Moves(c)' \/ WillHear(c)'
<1> USE DEF storeVars, runVars, roundVars, mmcVars, clientVars
<1>1. PICK m \in Matches : /\ ~Loose(m) /\ c \in Range(lobby[m])
                           /\ \/ members[m][c] > 0
                              \/ \E t \in Queued : /\ t.for = m
                                                   /\ t.step \in RemoveSteps \cup {"create.hset"} \/ t.c = c
  BY DEF Moves
<1>2. PICK f : Proceeds(f)
  BY ServerProceeds
<1>3. /\ Queued' = Behind \cup Elements(f) /\ Queued = {Current} \cup Behind /\ Queued \subseteq Good
      /\ Queued' \subseteq Good /\ Current \in Good /\ Current \in Queued
  BY <1>2, Behindhand, Head1
<1>4. members'[m][c] > 0 => Moves(c)' \/ WillHear(c)'
  BY <1>1, HeardNext
<1>5. lobby'[m] = lobby[m] /\ (Loose(m)' => \A u \in Behind : u.for # m)
  BY <1>1, StaysFilling
<1>6. ASSUME NEW u \in Queued', u.for = m, ~Loose(m)',
             u.step \in RemoveSteps \cup {"create.hset"} \/ u.c = c
      PROVE  Moves(c)'
  BY <1>1, <1>5, <1>6 DEF Moves
<1>7. CASE members[m][c] > 0
  <2>1. ~(Current.step = "erase.del" /\ Current.g = m)
    BY <1>1, <1>3 DEF Births, EraseSteps
  <2>2. ~(Current.step = "remove.lremGroup" /\ Current.c = c /\ Current.g = m)
    <3>1. SUFFICES ASSUME Current.step = "remove.lremGroup", Current.c = c, Current.g = m
                   PROVE  FALSE
      OBVIOUS
    <3>2. Current.job \in {"exit", "close"}
      BY <1>3, <3>1, Kinds, Names DEF Fits, RemoveSteps, PushSteps
    <3>3. c \in online
      BY DEF Unheard, Searching
    <3> QED  BY <1>1, <1>3, <3>1, <3>2, <3>3 DEF Unheard
  <2> QED  BY <1>4, <1>7, <2>1, <2>2, ListedStay, Names
<1>8. CASE ~(members[m][c] > 0)
  <2>1. PICK t \in Queued : t.for = m /\ (t.step \in RemoveSteps \cup {"create.hset"} \/ t.c = c)
    BY <1>1, <1>8
  <2>2. CASE t \in Behind
    BY <1>3, <1>5, <1>6, <2>1, <2>2
  <2>3. CASE t = Current
    <3>1. Current.job = "match" /\ Current.for = m /\ Current.step # "mm.lrange"
      BY <1>3, <2>1, <2>3, Kinds, Names DEF Fits, RemoveSteps, PushSteps
    <3>2. Current.step \in RemoveSteps \cup {"create.hset"} \cup PushSteps
      BY <1>3, <3>1, Kinds DEF Fits
    <3>3. CASE Current.step = "remove.lremClient"
      <4>1. RemoveBegin(s)
        BY <3>3, StepSays
      <4>2. Runs(<<At(Current, "remove.lremGroup")>>) /\ batch' = batch
        BY <4>1, RemoveBeginDoes
      <4>3. At(Current, "remove.lremGroup") \in Queued'
        BY <4>2, Few DEF Runs
      <4>4. At(Current, "remove.lremGroup").for = m
            /\ At(Current, "remove.lremGroup").step = "remove.lremGroup"
        BY <1>3, <3>1, AtFields
      <4>5. ~Loose(m)'
        BY <1>1, <4>2 DEF Loose
      <4> QED  BY <1>6, <4>3, <4>4, <4>5 DEF RemoveSteps
    <3>4. CASE Current.step = "remove.lremGroup"
      <4>1. /\ UNCHANGED <<batch, lobby>>
            /\ \E u \in Queued' : u.for = m /\ u.step \in RemoveSteps \cup {"create.hset"}
        BY <3>1, <3>4, StepSays, RemovedGoesOn
      <4>2. ~Loose(m)'
        BY <1>1, <4>1 DEF Loose
      <4> QED  BY <1>6, <4>1, <4>2
    <3>5. CASE Current.step = "create.hset"
      <4>1. CreateEntry(s)
        BY <3>5, StepSays
      <4>2. Current.g = m /\ batch' = batch
        BY <3>1, <4>1, CreateDoes
      <4>3. RoomTask("push.lrangeGroup", "match", c, m, m) \in Queued'
        BY <1>1, <4>1, <4>2, CreateDoes DEF Runs
      <4>4. /\ RoomTask("push.lrangeGroup", "match", c, m, m).c = c
            /\ RoomTask("push.lrangeGroup", "match", c, m, m).for = m
        BY RoomFields
      <4>5. ~Loose(m)'
        BY <1>1, <4>2 DEF Loose
      <4> QED  BY <1>6, <4>3, <4>4, <4>5
    <3>6. CASE Current.step \in PushSteps
      <4>1. Push(s)
        BY <3>6, StepSays
      <4>2. Current.c = c /\ Current.g = m
        BY <2>1, <2>3, <3>1, <3>6, <4>1, PushDoes DEF PushSteps, RemoveSteps
      <4>3. ~Erasing(m)
        BY <1>1 DEF Births, Erasing, Erasures, EraseSteps
      <4>4. CASE members'[m][c] > 0
        BY <1>4, <4>4
      <4>5. CASE \E u \in Queued' : u.c = c /\ u.g = m /\ u.step \in PushSteps
        <5>1. PICK u \in Queued' : u.c = c /\ u.g = m /\ u.step \in PushSteps
          BY <4>5
        <5>2. u.for = m
          BY <1>3, <5>1, Kinds, Names DEF Fits, PushSteps, RemoveSteps
        <5>3. ~Loose(m)'
          <6>1. SUFFICES ASSUME Loose(m)'
                         PROVE  FALSE
            OBVIOUS
          <6>2. PICK h : Runs(h) /\ \A v \in Elements(h) : v.step = "notify.lrange"
            BY <1>1, <6>1, StaysFilling
          <6>3. u \in Behind \/ u \in Elements(h)
            BY <6>2 DEF Runs
          <6> QED  BY <1>5, <5>1, <5>2, <6>1, <6>2, <6>3 DEF PushSteps
        <5> QED  BY <1>6, <5>1, <5>2, <5>3
      <4> QED  BY <4>1, <4>2, <4>3, <4>4, <4>5, PushKeeps
    <3> QED  BY <3>2, <3>3, <3>4, <3>5, <3>6 DEF RemoveSteps
  <2> QED  BY <1>3, <2>1, <2>2, <2>3
<1> QED  BY <1>7, <1>8

LEMMA WillHearKept ==
    ASSUME TypeInv, Unheard, NEW s \in Servers, ServerStep(s),
           NEW c \in Clients, Searching(c), WillHear(c)
    PROVE  WillHear(c)'
<1> USE DEF storeVars, runVars, roundVars, mmcVars, clientVars
<1>1. PICK i \in DOMAIN Pipeline :
         /\ Pipeline[i].job = "found" /\ members[Pipeline[i].g][c] > 0
         /\ \A j \in DOMAIN Pipeline : j < i /\ Pipeline[j].g = Pipeline[i].g => Harmless(Pipeline[j])
  BY DEF WillHear
<1>2. PICK f : Proceeds(f)
  BY ServerProceeds
<1>3. /\ Pipeline # <<>> /\ Pipeline[1] = Current /\ Pipeline \in Seq(Good) /\ Current \in Good
      /\ Current \in Queued /\ Queued \subseteq Good /\ Pipeline[i] \in Queued
  BY <1>2, Behindhand, Head1 DEF Queued
<1>4. c \in online
  BY DEF Unheard, Searching
<1>5. PICK g \in Matches : g = Pipeline[i].g
  BY <1>1, <1>3, Kinds DEF Fits
<1>6. i # 1
  <2>1. SUFFICES ASSUME i = 1
                 PROVE  FALSE
    OBVIOUS
  <2>2. Current.job = "found" /\ Current.step = "notify.lrange" /\ Current.g = g
    BY <1>1, <1>3, <1>5, <2>1, Kinds DEF Fits
  <2>3. view' = Told("found", g, MembersOf(g) \cap online)
    BY <2>2, StepSays, NotifyDoes
  <2>4. c \in MembersOf(g) \cap online
    BY <1>1, <1>4, <1>5 DEF MembersOf
  <2>5. view'[c].at = "found"
    BY <2>3, <2>4, ToldOne
  <2> QED  BY <2>5 DEF Searching
<1>7. DOMAIN Pipeline = 1..Len(Pipeline) /\ Len(Pipeline) \in Nat /\ 1 \in DOMAIN Pipeline /\ 1 < i
  <2>1. DOMAIN Pipeline = 1..Len(Pipeline) /\ Len(Pipeline) \in Nat
    BY <1>3, LenProperties
  <2> QED  BY <1>6, <2>1
<1>8. Current.g = g => Harmless(Current)
  BY <1>1, <1>3, <1>5, <1>7
<1>9. members'[g][c] > 0
  <2>1. ~(Current.step = "erase.del" /\ Current.g = g)
    BY <1>3, <1>8, Kinds DEF Harmless, EraseSteps
  <2>2. ~(Current.step = "remove.lremGroup" /\ Current.c = c /\ Current.g = g)
    BY <1>3, <1>4, <1>8 DEF Harmless, Unheard
  <2> QED  BY <1>1, <1>5, <2>1, <2>2, ListedStay, Names
<1>10. CASE Runs(f)
  <2>1. /\ DOMAIN Pipeline' = 1..(Len(Pipeline) - 1 + Len(f)) /\ Len(f) \in Nat
        /\ \A j \in DOMAIN Pipeline' :
              Pipeline'[j] = IF j < Len(Pipeline) THEN Pipeline[j + 1] ELSE f[j - Len(Pipeline) + 1]
    BY <1>3, <1>10, StepElements, LenProperties DEF Runs
  <2>2. i - 1 \in DOMAIN Pipeline' /\ Pipeline'[i - 1] = Pipeline[i]
    BY <1>7, <2>1
  <2>3. ASSUME NEW j \in DOMAIN Pipeline', j < i - 1, Pipeline'[j].g = g
        PROVE  Harmless(Pipeline'[j])
    <3>1. Pipeline'[j] = Pipeline[j + 1] /\ j + 1 \in DOMAIN Pipeline /\ j + 1 < i
      BY <1>7, <2>1, <2>3
    <3> QED  BY <1>1, <1>5, <2>3, <3>1
  <2> QED  BY <1>1, <1>5, <1>9, <2>2, <2>3 DEF WillHear, Harmless
<1>11. CASE \E u : f = <<u>> /\ Stays(u) /\ u.step = "erase.lremClient"
  <2>1. PICK u : f = <<u>> /\ Stays(u) /\ u.step = "erase.lremClient"
    BY <1>11
  <2>2. GoesOn(u)
    <3>1. GoesOn(u) \/ Turns(u)
      BY <1>2, <2>1, Few DEF Proceeds
    <3> QED  BY <2>1, <3>1 DEF Turns
  <2>3. u.g = Current.g /\ Current.step \in EraseSteps
    BY <2>1, <2>2 DEF GoesOn, Chain, EraseSteps
  <2>4. Current.g # g
    BY <1>3, <1>8, <2>3, Kinds DEF Harmless, EraseSteps
  <2>5. /\ DOMAIN Pipeline' = DOMAIN Pipeline /\ Pipeline'[1] = u
        /\ \A j \in DOMAIN Pipeline : j # 1 => Pipeline'[j] = Pipeline[j]
    BY <2>1 DEF Stays
  <2>6. \A j \in DOMAIN Pipeline' : j < i /\ Pipeline'[j].g = g => Harmless(Pipeline'[j])
    BY <1>1, <1>5, <2>3, <2>4, <2>5
  <2>7. Pipeline'[i] = Pipeline[i] /\ i \in DOMAIN Pipeline'
    BY <1>6, <2>5
  <2> QED  BY <1>1, <1>5, <1>9, <2>6, <2>7 DEF WillHear, Harmless
<1> QED  BY <1>2, <1>10, <1>11 DEF Proceeds

LEMMA KeptServer ==
    ASSUME TypeInv, Births, Coherent, Inviting, Unheard, Tracked, Kept,
           NEW s \in Servers, ServerStep(s)
    PROVE  Kept'
<1> SUFFICES ASSUME NEW c \in Clients, view'[c].at = "searching"
             PROVE  Asked(c)' \/ members'[Queue][c] > 0 \/ Moves(c)' \/ WillHear(c)'
  BY DEF Kept
<1>1. view[c].at = "searching"
  BY Tellings
<1>2. Searching(c)
  BY <1>1 DEF Searching
<1>3. CASE Asked(c)
  BY <1>2, <1>3, AskedKept
<1>4. CASE members[Queue][c] > 0
  BY <1>2, <1>4, QueuedKept
<1>5. CASE Moves(c)
  BY <1>2, <1>5, MovesKept
<1>6. CASE WillHear(c)
  BY <1>2, <1>6, WillHearKept
<1> QED  BY <1>1, <1>3, <1>4, <1>5, <1>6 DEF Kept

(* Handlers and timers add to the pipeline behind what is there. *)
LEMMA KeptAdded ==
    ASSUME TypeInv, Kept, NEW f, Adds(f), UNCHANGED <<members, lobby, batch>>,
           \A c \in Clients : view'[c].at = "searching" => view[c].at = "searching" \/ Asked(c)'
    PROVE  Kept'
<1> SUFFICES ASSUME NEW c \in Clients, view[c].at = "searching"
             PROVE  Asked(c)' \/ members'[Queue][c] > 0 \/ Moves(c)' \/ WillHear(c)'
  BY DEF Kept
<1>1. Queued \subseteq Queued'
  BY DEF Adds
<1>2. Asked(c) => Asked(c)'
  BY <1>1 DEF Asked
<1>3. ASSUME Moves(c)
      PROVE  Moves(c)'
  <2>1. PICK m \in Matches : /\ ~Loose(m) /\ c \in Range(lobby[m])
                             /\ \/ members[m][c] > 0
                                \/ \E t \in Queued : /\ t.for = m
                                                     /\ t.step \in RemoveSteps \cup {"create.hset"} \/ t.c = c
    BY <1>3 DEF Moves
  <2>2. ~Loose(m)' /\ c \in Range(lobby'[m])
    BY <2>1 DEF Loose
  <2> QED  BY <1>1, <2>1, <2>2 DEF Moves
<1>4. ASSUME WillHear(c)
      PROVE  WillHear(c)'
  <2>1. PICK i \in DOMAIN Pipeline :
           /\ Pipeline[i].job = "found" /\ members[Pipeline[i].g][c] > 0
           /\ \A j \in DOMAIN Pipeline : j < i /\ Pipeline[j].g = Pipeline[i].g => Harmless(Pipeline[j])
    BY <1>4 DEF WillHear
  <2>2. Pipeline \in Seq(Good) /\ f \in Seq(Good) /\ Pipeline' = Pipeline \o f
    BY AllGood DEF Adds
  <2>3. /\ DOMAIN Pipeline = 1..Len(Pipeline) /\ Len(Pipeline) \in Nat /\ Len(f) \in Nat
        /\ DOMAIN Pipeline' = 1..(Len(Pipeline) + Len(f))
        /\ \A j \in DOMAIN Pipeline' :
              Pipeline'[j] = IF j <= Len(Pipeline) THEN Pipeline[j] ELSE f[j - Len(Pipeline)]
    BY <2>2, AppendElements, LenProperties
  <2>4. i \in DOMAIN Pipeline' /\ Pipeline'[i] = Pipeline[i]
    BY <2>3
  <2>5. \A j \in DOMAIN Pipeline' : j < i => j \in DOMAIN Pipeline /\ Pipeline'[j] = Pipeline[j]
    BY <2>3
  <2>6. \A j \in DOMAIN Pipeline' :
           j < i /\ Pipeline'[j].g = Pipeline'[i].g => Harmless(Pipeline'[j])
    BY <2>1, <2>4, <2>5
  <2>7. Pipeline'[i].job = "found" /\ members'[Pipeline'[i].g][c] > 0
    BY <2>1, <2>4
  <2> QED  BY <2>4, <2>6, <2>7 DEF WillHear, Harmless
<1> QED  BY <1>2, <1>3, <1>4 DEF Kept

LEMMA KeptClient ==
    ASSUME TypeInv, Kept, NEW d \in Clients, ClientStep(d)
    PROVE  Kept'
<1> USE DEF storeVars, runVars, clientVars
<1>1. UNCHANGED <<members, lobby, batch>> /\ view \in [Clients -> [at : Places, m : Matches \cup {None}]]
  BY ClientDoes, TypesNow DEF WellViewed
<1>2. PICK op \in Jobs, st \in Steps, g \in Groups \cup {None} :
           /\ Adds(<<RoomTask(st, op, d, g, None)>>)
           /\ \/ op = "search" /\ view' = [view EXCEPT ![d] = NoView("searching")]
              \/ UNCHANGED clientVars
              \/ view' = [view EXCEPT ![d].at = "confirmed"]
              \/ view' = [view EXCEPT ![d] = NoView("free")]
  BY ClientDoes
<1> DEFINE u == RoomTask(st, op, d, g, None)
<1>3. u.job = op /\ u.c = d /\ u \in Queued' /\ Adds(<<u>>)
  BY <1>2, RoomFields, Few DEF Adds
<1> HIDE DEF u
<1>4. \A c \in Clients : view'[c].at = "searching" => view[c].at = "searching" \/ Asked(c)'
  <2>1. CASE op = "search" /\ view' = [view EXCEPT ![d] = NoView("searching")]
    <3>1. Asked(d)'
      BY <1>3, <2>1 DEF Asked
    <3>2. \A c \in Clients : c # d => view'[c] = view[c]
      BY <1>1, <2>1
    <3> QED  BY <3>1, <3>2
  <2>2. CASE UNCHANGED clientVars
    BY <2>2
  <2>3. CASE view' = [view EXCEPT ![d].at = "confirmed"]
    BY <1>1, <2>3
  <2>4. CASE view' = [view EXCEPT ![d] = NoView("free")]
    BY <1>1, <2>4 DEF NoView
  <2> QED  BY <1>2, <2>1, <2>2, <2>3, <2>4
<1> QED  BY <1>1, <1>3, <1>4, KeptAdded

LEMMA TrackedClient ==
    ASSUME TypeInv, Tracked, NEW d \in Clients, ClientStep(d)
    PROVE  Tracked'
<1>1. PICK op \in Jobs, st \in Steps, g \in Groups \cup {None} :
           Adds(<<RoomTask(st, op, d, g, None)>>) /\ op # "match"
  BY ClientDoes
<1>2. \A t \in Elements(<<RoomTask(st, op, d, g, None)>>) : t.job # "match"
  BY <1>1, RoomFields, Few
<1> QED  BY <1>1, <1>2, TrackedAdded

(* Everything the argument needs. *)
Accounted == Births /\ Coherent /\ Inviting /\ Unheard /\ Tracked /\ Kept

LEMMA AccountedStep == TypeInv /\ Accounted /\ [Next]_vars => Accounted'
<1> SUFFICES ASSUME TypeInv, Accounted, [Next]_vars
             PROVE  Accounted'
  OBVIOUS
<1> USE DEF Accounted
<1>1. Births' /\ Coherent'
  BY BirthsStep, CoherentStep
<1>2. CASE UNCHANGED vars
  <2>1. Inviting' /\ Unheard' /\ Tracked' /\ Kept'
    BY <1>2 DEF vars, storeVars, runVars, roundVars, mmcVars, clientVars, Inviting, Unheard, Tracked,
                Kept, Queued, Pipeline, Loose, Asked, Moves, WillHear
  <2> QED  BY <1>1, <2>1
<1>3. ASSUME NEW d \in Clients, ClientStep(d)
      PROVE  Inviting' /\ Unheard' /\ Tracked' /\ Kept'
  BY <1>3, InvitingClient, UnheardClient, TrackedClient, KeptClient
<1>4. ASSUME NEW s \in Servers, ServerStep(s)
      PROVE  Inviting' /\ Unheard' /\ Tracked' /\ Kept'
  BY <1>4, InvitingServer, UnheardServer, TrackedServer, KeptServer
<1>5. ASSUME \/ \E r \in RunIds : Tick(r) \/ ConfirmRound(r)
             \/ \E m \in Matches : DisbandTimer(m) \/ TwoMinutes(m) \/ ExpireKey(m)
      PROVE  Inviting' /\ Unheard' /\ Tracked' /\ Kept'
  <2>1. PICK f \in Seq(Good) :
           /\ Adds(f)
           /\ \A t \in Elements(f) :
                 \/ t.step = "mm.lrange" /\ t.job = "match"
                 \/ t.job \in {"start", "disband"} /\ t.g \in confirming \cup timers
    BY <1>5, IntervalAdds
  <2>2. UNCHANGED <<storeVars, clientVars, minted, lobby, batch>>
    BY <1>5, IntervalAdds
  <2>3. Tracked'
    BY <2>1, TrackedAdded
  <2>4. Kept'
    BY <2>1, <2>2, KeptAdded DEF storeVars, clientVars
  <2> QED  BY <1>5, <2>3, <2>4, InvitingInterval, UnheardInterval
<1> QED  BY <1>1, <1>2, <1>3, <1>4, <1>5 DEF Next

(* A client that searches is in the queue, unless a request of his, his     *)
(* lobby's move into a match or its invitation is still queued              *)
(* (_executeMatchMakingLogic, _onFreshlyMatchedGroup): whatever the bounds, *)
(* with overlapping runs, repeated requests and connections that close      *)
(* midway.                                                                  *)
THEOREM SearchersAreNotLost == Spec => []NobodyLost
<1>1. Init => TypeInv /\ Accounted
  BY TypeInit, BirthsInit, CoherentInit, InvitingInit, UnheardInit DEF Accounted
<1>2. TypeInv /\ Accounted /\ [Next]_vars => (TypeInv /\ Accounted)'
  BY TypeStep, AccountedStep
<1>3. TypeInv /\ Accounted => NobodyLost
  <2> SUFFICES ASSUME TypeInv, Kept, NEW c \in Clients, view[c].at = "searching", Pending(c) = {},
                      \A r \in RunIds : run[r] # "matching",
                      \A i \in DOMAIN pipe[Server] : pipe[Server][i].job # "found"
               PROVE  c \in MembersOf(Queue)
    BY DEF NobodyLost, Accounted
  <2>1. ~Asked(c)
    <3>1. SUFFICES ASSUME NEW t \in Queued, t.c = c, t.job \in {"search", "leave"}
                   PROVE  FALSE
      BY DEF Asked
    <3>2. PICK i \in DOMAIN pipe[Server] : pipe[Server][i] = t
      BY DEF Queued, Pipeline
    <3>3. i \in Pending(c)
      BY <3>1, <3>2 DEF Pending, Awaited, AllOps
    <3> QED  BY <3>3
  <2>2. ~Moves(c)
    <3>1. \A r \in RunIds : batch[r] = <<>>
      BY TypesNow DEF Filling
    <3>2. \A m : Loose(m)
      BY <3>1 DEF Loose, Range
    <3> QED  BY <3>2 DEF Moves
  <2>3. ~WillHear(c)
    BY DEF WillHear, Pipeline
  <2> QED  BY <2>1, <2>2, <2>3 DEF Kept, MembersOf
<1> QED  BY <1>1, <1>2, <1>3, PTL DEF Spec
===============================================================================
