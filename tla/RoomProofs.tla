------------------------------ MODULE RoomProofs ------------------------------
(***************************************************************************)
(* MatchMaking, continued: a client is in one group at a time, for any     *)
(* number of clients and matches and any lobby size.                       *)
(***************************************************************************)
EXTENDS MatchMakingProofs

-------------------------------------------------------------------------------
(* One room.  A client has at most one of these: a search under way, a      *)
(* place in the queue, a place in a lobby on its way from the queue to the  *)
(* invitation, a match.  With one run, one request of a client at a time    *)
(* and no LEAVE.                                                            *)

(* From the cut to the invitation a match is the run's business only.       *)
Uninvited(m) == ~Loose(m) \/ \E t \in Queued : t.job = "found" /\ t.g = m

Moving(c) == \E m \in Matches : Uninvited(m) /\ c \in Range(lobby[m])

(* Kinds of commands. *)
Searches(c) == {t \in Good : t.job = "search" /\ t.c = c}

Exits(c) == {t \in Good : t.job = "exit" /\ t.c = c /\ t.step \in {"get.hget", "member.lrange"}}

ExitsAt(c, g, step) == {t \in Exits(c) : t.g = g /\ t.step = step}

RemovesAt(c, g, step) == {t \in Good : t.step = step /\ t.c = c /\ t.g = g}

Invitations(m) == {t \in Good : t.job = "found" /\ t.g = m}

QueueReads == {t \in Good : t.step = "mm.lrange"}

Farewells(m) == {t \in Good : t.job = "disband" /\ t.step = "notify.lrange" /\ t.g = m}

Decisions(m) == {t \in Good : t.job \in {"start", "disband"} /\ t.step \notin EraseSteps /\ t.g = m}

Erases(m) == {t \in Good : t.step \in EraseSteps /\ t.g = m}

Creates(m) == {t \in Good : t.step = "create.hset" /\ t.for = m}

EarlySteps == {"push.lrangeGroup", "push.lrangeClient", "push.lpushClient"}

EarlyPushes(c, m) == {t \in Good : t.step \in EarlySteps /\ t.c = c /\ t.for = m}

Absent(T) == \A t \in Queued : t \notin T

Precedes(A, B) == \A i, j \in DOMAIN Pipeline : Pipeline[i] \in A /\ Pipeline[j] \in B => i < j

(* What waits for an answer is there once, and the commands about a match   *)
(* come in this order: invitation, decision, farewell, erase.               *)
Orderly ==
    /\ \A c \in Clients : AtMostOnce(Searches(c)) /\ AtMostOnce(Exits(c))
    /\ \A m \in Matches : AtMostOnce(Invitations(m))
    /\ \A m \in Matches : Precedes(Invitations(m), Decisions(m))
    /\ \A m \in Matches : Precedes(Invitations(m), QueueReads)
    /\ \A m \in Matches : Precedes(Farewells(m), Erases(m))
    /\ \A t \in Queued : t.job # "leave"

(* The matches of the run: a client is in one lobby, and pushed once.       *)
Filled ==
    /\ \A r \in RunIds : \A i, j \in DOMAIN batch[r] : batch[r][i] = batch[r][j] => i = j
    /\ \A m \in Matches : ~Loose(m) =>
          m \in registry \/ \E t \in Queued : t.for = m /\ t.step \in RemoveSteps \cup {"create.hset"}
    /\ \A m \in Matches : AtMostOnce(Creates(m))
    /\ \A t, u \in Queued : t.step = "create.hset" /\ u.for = t.for => u.step = "create.hset"
    /\ \A c \in Clients, m \in Matches : AtMostOnce(EarlyPushes(c, m))
    /\ \A m \in Matches : Uninvited(m) =>
          \A i, j \in DOMAIN lobby[m] : lobby[m][i] = lobby[m][j] => i = j
    /\ \A m, n \in Matches : Uninvited(m) /\ Uninvited(n) /\ m # n
          => Range(lobby[m]) \cap Range(lobby[n]) = {}

Dead(m) == verdicts[m] = <<"disband">>

(* What is decided, and what is queued because of it. *)
Disbanding ==
    /\ \A t \in Queued : t.job = "start" /\ t.step # "mmc.llen" => verdicts[t.g] = <<"start">>
    /\ \A t \in Queued : t.job = "disband" \/ t.step \in EraseSteps => Dead(t.g)
    /\ \A m \in timers : Dead(m)
    /\ \A m \in Matches : Dead(m) /\ ~Absent(Invitations(m)) => ~Absent(Farewells(m))
    /\ \A t \in Queued : t.step \in Erasures => Absent(Farewells(t.g))
    /\ \A m \in minted : Loose(m) /\ m \notin registry => Dead(m) /\ Absent(Farewells(m))
    /\ \A c \in Clients : view[c].at = "playing" => verdicts[view[c].m] = <<"start">>

(* Where a client is. *)
Alone(c) ==
    /\ \A g \in Groups : groupsOf[c][g] <= 1
    /\ \A g, h \in Groups : groupsOf[c][g] > 0 /\ groupsOf[c][h] > 0 => g = h
    /\ members[Queue][c] <= 1
    /\ members[Queue][c] > 0 /\ ~Moving(c) => \A m \in Matches : groupsOf[c][m] = 0

Seeking(t) ==
    /\ ~Moving(t.c) /\ members[Queue][t.c] = 0
    /\ t.step = "search.lrange" => groupsOf[t.c][Queue] = 0
    /\ t.step \in EarlySteps => \A g \in Groups : groupsOf[t.c][g] = 0
    /\ t.step = "push.lpushGroup" => \A m \in Matches : groupsOf[t.c][m] = 0

(* A client on his way into m leaves the queue first. *)
Carried(c, m) ==
    /\ groupsOf[c][Queue] > 0 =>
          \E t \in Queued : t.step = "remove.lremClient" /\ t.c = c /\ t.for = m
    /\ members[Queue][c] > 0 =>
          \E t \in Queued : t.step \in RemoveSteps /\ t.c = c /\ t.for = m
    /\ \A n \in Matches : n # m => groupsOf[c][n] = 0
    /\ groupsOf[c][m] > 0 =>
          \A t \in Queued : t.for = m => /\ t.step \notin RemoveSteps \cup {"create.hset"}
                                         /\ t.c = c => t.step \notin EarlySteps

Placed ==
    /\ \A c \in Clients : Alone(c)
    /\ \A t \in Queued : t.job = "search" => Seeking(t)
    /\ \A m \in Matches : Uninvited(m) => \A c \in Range(lobby[m]) : Carried(c, m)

Out(c) ==
    /\ Absent(Searches(c)) /\ members[Queue][c] = 0 /\ groupsOf[c][Queue] = 0 /\ ~Moving(c)

Leaving(c, g) == \E t \in Queued : t.c = c /\ t.g = g /\ t.step \in RemoveSteps

(* Nobody has heard of a match before its invitation, and an EXIT that is   *)
(* sent after the client was removed finds it done.                         *)
Heard ==
    /\ \A c \in Clients : view[c].m \in Matches => ~Uninvited(view[c].m)
    /\ \A t \in Queued : t.job = "exit" /\ t.step # "notify.lrange" => ~Uninvited(t.g)
    /\ \A c \in online, g \in Matches :
          /\ Precedes(RemovesAt(c, g, "remove.lremClient"), ExitsAt(c, g, "get.hget"))
          /\ Precedes(RemovesAt(c, g, "remove.lremGroup"), ExitsAt(c, g, "member.lrange"))
          /\ \/ Absent(RemovesAt(c, g, "remove.lremClient"))
             \/ Absent(ExitsAt(c, g, "member.lrange"))

(* What a client has been told, and where he is.  START may reach a client  *)
(* who is on his way out; he then thinks he plays, but his next EXIT fails. *)
Heeds(c, g) ==
    /\ view[c].at \in {"found", "confirmed"} =>
          /\ ~Leaving(c, g)
          /\ members[g][c] > 0 => groupsOf[c][g] > 0
    /\ view[c].at = "playing" => Out(c) \/ members[g][c] = 0 \/ Leaving(c, g)
    /\ members[g][c] > 0 /\ Dead(g) => ~Absent(Farewells(g))

Knows(c) ==
    /\ view[c].at \in {"free", "found", "confirmed"} => Out(c)
    /\ \A g \in Matches : view[c].m = g => Heeds(c, g)
    /\ \A g \in Matches :
          ~Uninvited(g) /\ ~Dead(g) /\ members[g][c] > 0 =>
             \/ Leaving(c, g)
             \/ groupsOf[c][g] > 0 /\ Out(c) /\ view[c].at \in InMatch

Believed == \A c \in online : Knows(c)

Rooms == Orderly /\ Filled /\ Disbanding /\ Placed /\ Heard /\ Believed

(* The order of two kinds of commands: commands are added behind the others.*)
LEMMA PrecedesRuns ==
    ASSUME TypeInv, NEW A, NEW B, Precedes(A, B), NEW f, Runs(f),
           (\A u \in Elements(f) : u \notin A) \/ (\A u \in Behind \cup Elements(f) : u \notin B)
    PROVE  Precedes(A, B)'
<1> DEFINE q == Pipeline
           p == Tail(q) \o f
<1>0. q \in Seq(Good) /\ f \in Seq(Good) /\ \A i \in DOMAIN f : f[i] \in Elements(f)
  BY OneServer DEF TypeInv, Pipeline, Elements, Runs
<1>1. /\ Len(q) \in Nat \ {0} /\ DOMAIN q = 1..Len(q)
      /\ Len(f) \in Nat /\ DOMAIN f = 1..Len(f)
      /\ DOMAIN p = 1..(Len(q) - 1 + Len(f))
      /\ \A i \in DOMAIN p : p[i] = IF i < Len(q) THEN q[i + 1] ELSE f[i - Len(q) + 1]
  BY <1>0, StepElements, LenProperties, EmptySeq DEF Runs
<1>2. Pipeline' = p
  BY DEF Runs
<1>3. \A i \in 2..Len(q) : q[i] \in Behind
  BY DEF Behind, Pipeline
<1>4. \A i, j \in DOMAIN q : q[i] \in A /\ q[j] \in B => i < j
  BY DEF Precedes
<1>5. Precedes(A, B)' <=> \A i, j \in DOMAIN p : p[i] \in A /\ p[j] \in B => i < j
  BY <1>2 DEF Precedes
<1> HIDE DEF p, q
<1> SUFFICES ASSUME NEW i \in DOMAIN p, NEW j \in DOMAIN p, p[i] \in A, p[j] \in B PROVE i < j
  BY <1>5
<1>6. \A k \in DOMAIN p : k < Len(q) => k + 1 \in 2..Len(q) /\ p[k] = q[k + 1] /\ k + 1 \in DOMAIN q
  BY <1>1
<1>7. \A k \in DOMAIN p : ~(k < Len(q)) => k - Len(q) + 1 \in DOMAIN f /\ p[k] = f[k - Len(q) + 1]
  BY <1>1
<1>8. p[j] \in Behind \cup Elements(f)
  BY <1>0, <1>3, <1>6, <1>7
<1>9. p[i] \notin Elements(f)
  BY <1>8
<1>10. i < Len(q)
  BY <1>0, <1>7, <1>9
<1>11. CASE j < Len(q)
  <2>1. i + 1 < j + 1
    BY <1>4, <1>6, <1>10, <1>11
  <2> QED  BY <1>1, <2>1
<1>12. CASE ~(j < Len(q))
  BY <1>1, <1>10, <1>12
<1> QED  BY <1>11, <1>12

LEMMA PrecedesAdds ==
    ASSUME TypeInv, NEW A, NEW B, Precedes(A, B), NEW f, Adds(f),
           (\A u \in Elements(f) : u \notin A) \/ (\A u \in Queued \cup Elements(f) : u \notin B)
    PROVE  Precedes(A, B)'
<1> DEFINE q == Pipeline
           p == q \o f
<1>0. q \in Seq(Good) /\ f \in Seq(Good) /\ \A i \in DOMAIN f : f[i] \in Elements(f)
  BY OneServer DEF TypeInv, Pipeline, Elements, Adds
<1>1. /\ Len(q) \in Nat /\ DOMAIN q = 1..Len(q)
      /\ Len(f) \in Nat /\ DOMAIN f = 1..Len(f)
      /\ DOMAIN p = 1..(Len(q) + Len(f))
      /\ \A i \in DOMAIN p : p[i] = IF i <= Len(q) THEN q[i] ELSE f[i - Len(q)]
  BY <1>0, AppendElements, LenProperties
<1>2. Pipeline' = p
  BY DEF Adds
<1>3. \A i \in DOMAIN q : q[i] \in Queued
  BY DEF Queued
<1>4. \A i, j \in DOMAIN q : q[i] \in A /\ q[j] \in B => i < j
  BY DEF Precedes
<1>5. Precedes(A, B)' <=> \A i, j \in DOMAIN p : p[i] \in A /\ p[j] \in B => i < j
  BY <1>2 DEF Precedes
<1> HIDE DEF p, q
<1> SUFFICES ASSUME NEW i \in DOMAIN p, NEW j \in DOMAIN p, p[i] \in A, p[j] \in B PROVE i < j
  BY <1>5
<1>6. \A k \in DOMAIN p : k <= Len(q) => p[k] = q[k] /\ k \in DOMAIN q
  BY <1>1
<1>7. \A k \in DOMAIN p : ~(k <= Len(q)) => k - Len(q) \in DOMAIN f /\ p[k] = f[k - Len(q)]
  BY <1>1
<1>8. p[j] \in Queued \cup Elements(f)
  BY <1>0, <1>3, <1>6, <1>7
<1>9. p[i] \notin Elements(f)
  BY <1>8
<1>10. i <= Len(q)
  BY <1>0, <1>7, <1>9
<1>11. CASE j <= Len(q)
  BY <1>4, <1>6, <1>10, <1>11
<1>12. CASE ~(j <= Len(q))
  BY <1>1, <1>10, <1>12
<1> QED  BY <1>11, <1>12

LEMMA PrecedesServer ==
    ASSUME TypeInv, NEW A, NEW B, Precedes(A, B), NEW f, Proceeds(f),
           (\A u \in Elements(f) : u \notin A) \/ (\A u \in Behind \cup Elements(f) : u \notin B),
           \A u \in Elements(f) : u.step = "erase.lremClient" /\ u \in B => Current \in B
    PROVE  Precedes(A, B)'
<1>1. CASE Runs(f)
  BY <1>1, PrecedesRuns
<1>2. ASSUME NEW u, f = <<u>>, Stays(u), u.step = "erase.lremClient" PROVE Precedes(A, B)'
  <2>1. Elements(f) = {u}
    BY <1>2, Few
  <2>2. /\ Pipeline \in Seq(Good) /\ DOMAIN Pipeline = 1..Len(Pipeline)
        /\ Len(Pipeline) \in Nat \ {0} /\ Pipeline[1] = Current
    BY <1>2, Head1, LenProperties, EmptySeq DEF Stays
  <2>3. \A i \in 2..Len(Pipeline) : Pipeline[i] \in Behind
    BY DEF Behind, Pipeline
  <2> SUFFICES ASSUME NEW i \in DOMAIN Pipeline, NEW j \in DOMAIN Pipeline,
                      Pipeline'[i] \in A, Pipeline'[j] \in B
               PROVE  i < j
    BY <1>2 DEF Stays, Precedes
  <2>4. Pipeline'[1] = u /\ \A k \in DOMAIN Pipeline : k # 1 => Pipeline'[k] = Pipeline[k]
    BY <1>2 DEF Stays
  <2>5. j # 1 => Pipeline'[j] \in Behind
    BY <2>2, <2>3, <2>4
  <2>6. u \notin A
    BY <2>1, <2>4, <2>5
  <2>7. i # 1 /\ Pipeline'[i] = Pipeline[i]
    BY <2>4, <2>6
  <2>8. Pipeline[j] \in B
    BY <1>2, <2>1, <2>2, <2>4
  <2> QED  BY <2>7, <2>8 DEF Precedes
<1> QED  BY <1>1, <1>2 DEF Proceeds

(* Kinds of commands that come from their own chain only are there once.    *)
LEMMA OnceServer ==
    ASSUME TypeInv, NEW f, Proceeds(f), NEW T, AtMostOnce(T),
           \A u \in Elements(f) : u \in T => Current \in T /\ Chain(Current.step, u.step),
           \A u, v \in Elements(f) : u \in T /\ v \in T => u.step = v.step
    PROVE  AtMostOnce(T)'
<1>1. /\ Pipeline \in Seq(Good) /\ Pipeline # <<>> /\ Pipeline[1] = Current
      /\ DOMAIN Pipeline = 1..Len(Pipeline) /\ Len(Pipeline) \in Nat
  BY Behindhand, Head1, LenProperties
<1>2. CASE Runs(f)
  <2>1. Behind \cap T = {} \/ Elements(f) \cap T = {}
    <3>1. ASSUME Current \in T PROVE Behind \cap T = {}
      <4>1. \A i \in 2..Len(Pipeline) : i \in DOMAIN Pipeline /\ 1 \in DOMAIN Pipeline /\ i # 1
        BY <1>1
      <4>2. \A i \in 2..Len(Pipeline) : Pipeline[i] \notin T
        BY <1>1, <3>1, <4>1 DEF AtMostOnce
      <4> QED  BY <4>2 DEF Behind, Pipeline
    <3> QED  BY <3>1
  <2>2. \A i, j \in DOMAIN f : f[i] \in T /\ f[j] \in T => i = j
    <3>1. \A i \in DOMAIN f : f[i] \in Elements(f)
      BY DEF Elements
    <3>2. (\E u \in Elements(f) : u \in T) => Distinct(f)
      BY DEF Proceeds
    <3>3. \A i, j \in DOMAIN f : f[i] \in T /\ f[j] \in T => f[i].step = f[j].step
      BY <3>1
    <3> QED  BY <3>1, <3>2, <3>3 DEF Distinct
  <2> QED  BY <1>1, <1>2, <2>1, <2>2, OnceAgain DEF Runs
<1>3. ASSUME NEW u, f = <<u>>, Stays(u) PROVE AtMostOnce(T)'
  <2>1. u \in T => Pipeline[1] \in T
    BY <1>1, <1>3, Few
  <2> QED  BY <1>3, <2>1, OnceReplaced DEF Stays
<1> QED  BY <1>2, <1>3 DEF Proceeds

LEMMA OnceAdds ==
    ASSUME TypeInv, NEW f, Adds(f), NEW T, AtMostOnce(T),
           Absent(T) \/ (\A u \in Elements(f) : u \notin T),
           \A i, j \in DOMAIN f : f[i] \in T /\ f[j] \in T => i = j
    PROVE  AtMostOnce(T)'
<1>1. Pipeline \in Seq(Good) /\ f \in Seq(Good) /\ Pipeline' = Pipeline \o f
  BY OneServer DEF TypeInv, Pipeline, Adds
<1>2. Queued \cap T = {} \/ Elements(f) \cap T = {}
  BY DEF Absent
<1> QED  BY <1>1, <1>2, OnceMore

(* The head comes first. *)
LEMMA Foremost ==
    ASSUME TypeInv, NEW A, NEW B, Precedes(A, B), Pipeline # <<>>, Current \in B
    PROVE  Absent(A)
<1>1. /\ Pipeline \in Seq(Good) /\ DOMAIN Pipeline = 1..Len(Pipeline)
      /\ Len(Pipeline) \in Nat \ {0} /\ Pipeline[1] = Current
  BY Head1, LenProperties, EmptySeq
<1>2. \A i \in DOMAIN Pipeline : Pipeline[i] \in A => i < 1
  BY <1>1 DEF Precedes
<1> QED  BY <1>1, <1>2 DEF Queued, Absent

LEMMA OnlyHead ==
    ASSUME TypeInv, NEW T, AtMostOnce(T), Pipeline # <<>>, Current \in T
    PROVE  \A u \in Behind : u \notin T
<1>1. /\ Pipeline \in Seq(Good) /\ DOMAIN Pipeline = 1..Len(Pipeline)
      /\ Len(Pipeline) \in Nat \ {0} /\ Pipeline[1] = Current
  BY Head1, LenProperties, EmptySeq
<1>2. \A i \in 2..Len(Pipeline) : i \in DOMAIN Pipeline /\ 1 \in DOMAIN Pipeline /\ i # 1
  BY <1>1
<1>3. \A i \in 2..Len(Pipeline) : Pipeline[i] \notin T
  BY <1>1, <1>2 DEF AtMostOnce
<1> QED  BY <1>3 DEF Behind, Pipeline

LEMMA MustRun ==
    ASSUME NEW f, Proceeds(f), NEW u \in Elements(f), u.step # "erase.lremClient"
    PROVE  Runs(f)
<1> SUFFICES ASSUME NEW v, f = <<v>>, v.step = "erase.lremClient" PROVE FALSE
  BY DEF Proceeds
<1>1. Elements(<<v>>) = {v}
  BY Few
<1>2. u = v
  BY <1>1
<1> QED  BY <1>2

-------------------------------------------------------------------------------
(* What one step of the server does to the lists, and what it goes on with. *)

LEMMA EachStepSays ==
    ASSUME TypeInv, NEW s \in Servers, ServerStep(s)
    PROVE  /\ Current.step = "get.hget" => Get(s)
           /\ Current.step = "member.lrange" => MemberCheck(s)
           /\ Current.step = "mm.lrange" <=> MatchQueue(s)
           /\ Current.step = "mmc.llen" => CheckSize(s)
<1>1. pipe[s] = Pipeline
  BY OneServer DEF Pipeline
<1> QED
  BY <1>1 DEF ServerStep, RequestStep, IntervalStep, SearchCheck, Get, GetGroupInstance, MemberCheck,
     ReadConfirmations, AddConfirmation, ExpireConfirmations, CloseCheck, LeaveAllGroups, MatchQueue,
     CreateEntry, CheckSize, EraseConfirmations, Push, PushReadGroup, PushReadClient,
     PushWriteClient, PushWriteGroup, RemoveBegin, RemoveWriteClient, RemoveEnd, RemoveWriteGroup,
     Erase, EraseReadGroup, EraseWriteClient, EraseEntry, EraseGroup, NotifyGroup, Running, Current

(* The writes. *)
LEMMA ServerWrites ==
    ASSUME TypeInv, NEW s \in Servers, ServerStep(s), NEW c \in Clients, NEW g \in Groups
    PROVE  /\ \/ groupsOf'[c][g] = groupsOf[c][g]
              \/ /\ Current.step = "push.lpushClient" /\ Current.c = c /\ Current.g = g
                 /\ groupsOf'[c][g] = groupsOf[c][g] + 1
              \/ /\ Current.step = "remove.lremClient" /\ Current.c = c /\ Current.g = g
                 /\ groupsOf'[c][g] = 0
              \/ Current.step = "erase.lremClient" /\ Current.g = g /\ groupsOf'[c][g] = 0
           /\ \/ members'[g][c] = members[g][c]
              \/ /\ Current.step = "push.lpushGroup" /\ Current.c = c /\ Current.g = g
                 /\ members'[g][c] = members[g][c] + 1
              \/ /\ Current.step = "remove.lremGroup" /\ Current.c = c /\ Current.g = g
                 /\ members'[g][c] = 0
              \/ Current.step = "erase.del" /\ Current.g = g /\ members'[g][c] = 0
<1> USE DEF storeVars
<1>1. CASE Push(s)
  BY <1>1, PushDoes
<1>2. CASE RemoveBegin(s)
  BY <1>2, RemoveBeginDoes
<1>3. CASE RemoveEnd(s)
  BY <1>3, RemoveEndDoes
<1>4. CASE Erase(s)
  BY <1>4, EraseDoes
<1>5. CASE ~Push(s) /\ ~RemoveBegin(s) /\ ~RemoveEnd(s) /\ ~Erase(s)
  <2>1. UNCHANGED <<members, groupsOf>>
    BY <1>5 DEF ServerStep, RequestStep, IntervalStep, SearchCheck, Get, GetGroupInstance, MemberCheck,
       ReadConfirmations, AddConfirmation, ExpireConfirmations, CloseCheck, LeaveAllGroups, MatchQueue,
       CreateEntry, CheckSize, EraseConfirmations, NotifyGroup
  <2> QED  BY <2>1
<1> QED  BY <1>1, <1>2, <1>3, <1>4, <1>5

LEMMA ServerRegisters ==
    ASSUME TypeInv, NEW s \in Servers, ServerStep(s)
    PROVE  \/ registry' = registry
           \/ Current.step = "create.hset" /\ registry' = registry \cup {Current.g}
           \/ Current.step = "erase.hdel" /\ registry' = registry \ {Current.g}
<1> USE DEF storeVars
<1>1. CASE CreateEntry(s)
  BY <1>1, CreateDoes
<1>2. CASE Erase(s)
  BY <1>2, EraseDoes
<1>3. CASE ~CreateEntry(s) /\ ~Erase(s)
  BY <1>3 DEF ServerStep, RequestStep, IntervalStep, SearchCheck, Get, GetGroupInstance, MemberCheck,
     ReadConfirmations, AddConfirmation, ExpireConfirmations, CloseCheck, LeaveAllGroups, MatchQueue,
     CheckSize, EraseConfirmations, Push, PushReadGroup, PushReadClient, PushWriteClient,
     PushWriteGroup, RemoveBegin, RemoveWriteClient, RemoveEnd, RemoveWriteGroup, NotifyGroup
<1> QED  BY <1>1, <1>2, <1>3

(* A match is minted by the reply of a run only. *)
LEMMA ServerMints ==
    ASSUME TypeInv, NEW s \in Servers, ServerStep(s)
    PROVE  /\ minted \subseteq minted'
           /\ ~MatchQueue(s) => minted' = minted /\ lobby' = lobby
           /\ \A m \in minted : lobby'[m] = lobby[m]
           /\ timers' = timers
<1> USE DEF runVars, roundVars
<1>1. CASE MatchQueue(s)
  <2>1. PICK new \in SUBSET (Matches \ minted) :
           minted' = minted \cup new /\ \A m \in Matches \ new : lobby'[m] = lobby[m]
    BY <1>1, QueueCut
  <2>2. minted \subseteq Matches
    BY TypesNow
  <2>3. timers' = timers
    BY <1>1, QueueCut
  <2> QED  BY <1>1, <2>1, <2>2, <2>3
<1>2. CASE ~MatchQueue(s)
  <2>1. minted' = minted /\ lobby' = lobby /\ timers' = timers
    BY <1>2 DEF ServerStep, RequestStep, IntervalStep, SearchCheck, Get, GetGroupInstance, MemberCheck,
       ReadConfirmations, AddConfirmation, ExpireConfirmations, CloseCheck, LeaveAllGroups,
       CreateEntry, CheckSize, EraseConfirmations, Push, RemoveBegin, RemoveEnd, Erase, NotifyGroup
  <2> QED  BY <1>2, <2>1
<1> QED  BY <1>1, <1>2

(* What is decided stays decided. *)
LEMMA ServerDecides ==
    ASSUME TypeInv, Deciding, NEW s \in Servers, ServerStep(s), NEW m \in Matches
    PROVE  \/ verdicts'[m] = verdicts[m]
           \/ /\ Current.step = "mmc.llen" /\ Current.g = m
              /\ verdicts[m] = <<>> /\ verdicts'[m] = <<"start">>
<1> USE DEF roundVars
<1>1. CASE CheckSize(s)
  <2>1. /\ Current.step = "mmc.llen" /\ Current.g \in Matches
        /\ \/ verdicts' = [verdicts EXCEPT ![Current.g] = Append(@, "start")]
           \/ verdicts' = verdicts
    BY <1>1, CheckSizeDoes
  <2>2. Current \in Queued
    BY <1>1, OneServer, Head1, CheckSizeDoes DEF Runs
  <2>3. Current.g \in confirming
    BY <2>1, <2>2 DEF Deciding
  <2>4. verdicts[Current.g] = <<>>
    BY <2>1, <2>3 DEF Deciding
  <2>5. verdicts \in [Matches -> Seq({"start", "disband"})]
    BY TypesNow
  <2>6. Append(<<>>, "start") = <<"start">>
    OBVIOUS
  <2> QED  BY <2>1, <2>4, <2>5, <2>6
<1>2. CASE ~CheckSize(s)
  <2>1. verdicts' = verdicts
    BY <1>2 DEF ServerStep, RequestStep, IntervalStep, SearchCheck, Get, GetGroupInstance, MemberCheck,
       ReadConfirmations, AddConfirmation, ExpireConfirmations, CloseCheck, LeaveAllGroups, MatchQueue,
       CreateEntry, EraseConfirmations, Push, RemoveBegin, RemoveEnd, Erase, NotifyGroup
  <2> QED  BY <2>1
<1> QED  BY <1>1, <1>2

LEMMA UninvitedMinted == ASSUME TypeInv, Births, NEW m \in Matches, Uninvited(m) PROVE m \in minted
<1>1. CASE ~Loose(m)
  <2>1. PICK r \in RunIds : m \in Range(batch[r])
    BY <1>1 DEF Loose
  <2>2. batch[r] \in Seq(minted)
    BY TypesNow
  <2> QED  BY <2>1, <2>2 DEF Range
<1>2. CASE \E t \in Queued : t.job = "found" /\ t.g = m
  <2>1. PICK t \in Queued : t.job = "found" /\ t.g = m
    BY <1>2
  <2>2. t.step = "notify.lrange"
    BY <2>1, AllGood, Kinds DEF Fits
  <2> QED  BY <2>1, <2>2 DEF Births, Begun
<1> QED  BY <1>1, <1>2 DEF Uninvited

(* An invitation comes from the run that has filled the match. *)
LEMMA InvitedByRun ==
    ASSUME TypeInv, NEW f, Proceeds(f), NEW u \in Elements(f), u.job = "found"
    PROVE  /\ u.g \in Matches /\ ~Loose(u.g) /\ u.step = "notify.lrange"
           /\ Current.step \in PushSteps /\ Current.job = "match"
           /\ Ends(Current) /\ AllPushed(Current)
<1>1. u \in Good /\ Current \in Good
  BY Behindhand, Head1
<1>2. u.step = "notify.lrange" /\ u.g \in Matches
  BY <1>1, Kinds DEF Fits
<1>3. ~GoesOn(u)
  BY <1>1, <1>2, Kinds DEF GoesOn, Chain, Fits
<1>4. Turns(u)
  BY <1>3 DEF Proceeds
<1>5. /\ Current.step \in PushSteps /\ Current.job = "match" /\ Ends(Current) /\ AllPushed(Current)
      /\ \E r \in RunIds : u.g \in Range(batch[r])
  BY <1>4 DEF Turns
<1> QED  BY <1>2, <1>5 DEF Loose

LEMMA UninvitedServer ==
    ASSUME TypeInv, Unheard, NEW s \in Servers, ServerStep(s), NEW m \in Matches
    PROVE  /\ ~MatchQueue(s) \/ m \in minted => (Uninvited(m)' => Uninvited(m))
           /\ Uninvited(m) => Uninvited(m)' \/ (Current.job = "found" /\ Current.g = m)
<1>1. PICK f : Proceeds(f)
  BY ServerProceeds
<1>2. /\ Queued' = Behind \cup Elements(f) /\ Queued = {Current} \cup Behind /\ Queued \subseteq Good
  BY <1>1, Behindhand, Head1
<1>3. ASSUME ~MatchQueue(s) \/ m \in minted, Uninvited(m)' PROVE Uninvited(m)
  <2>1. CASE ~Loose(m)'
    <3>1. m \in minted
      <4>1. TypeInv'
        BY TypeServer
      <4>2. PICK r \in RunIds : m \in Range(batch'[r])
        BY <2>1 DEF Loose
      <4>3. batch'[r] \in Seq(minted')
        BY <4>1 DEF TypeInv, TypeOK
      <4>4. m \in minted'
        BY <4>2, <4>3 DEF Range
      <4> QED  BY <1>3, <4>4, ServerMints
    <3> QED  BY <2>1, <3>1, LooseServer DEF Uninvited
  <2>2. CASE \E t \in Queued' : t.job = "found" /\ t.g = m
    <3>1. PICK t \in Queued' : t.job = "found" /\ t.g = m
      BY <2>2
    <3>2. t \in Elements(f) => ~Loose(m)
      BY <1>1, <3>1, InvitedByRun
    <3> QED  BY <1>2, <3>1, <3>2 DEF Uninvited
  <2> QED  BY <1>3, <2>1, <2>2 DEF Uninvited
<1>4. ASSUME Uninvited(m) PROVE Uninvited(m)' \/ (Current.job = "found" /\ Current.g = m)
  <2>1. CASE ~Loose(m)
    <3>1. CASE Loose(m)'
      <4>1. PICK h : Runs(h) /\ RoomTask("notify.lrange", "found", None, m, None) \in Elements(h)
        BY <2>1, <3>1, StaysFilling
      <4>2. RoomTask("notify.lrange", "found", None, m, None) \in Queued'
        BY <4>1 DEF Runs
      <4>3. \E t \in Queued' : t.job = "found" /\ t.g = m
        BY <4>2, RoomFields
      <4> QED  BY <4>3 DEF Uninvited
    <3> QED  BY <3>1 DEF Uninvited
  <2>2. CASE \E t \in Queued : t.job = "found" /\ t.g = m
    <3>1. PICK t \in Queued : t.job = "found" /\ t.g = m
      BY <2>2
    <3>2. t \in Behind => t \in Queued'
      BY <1>2
    <3> QED  BY <1>2, <3>1, <3>2 DEF Uninvited
  <2> QED  BY <1>4, <2>1, <2>2 DEF Uninvited
<1> QED  BY <1>3, <1>4

(* Nothing else is being filled when a run lists the queue. *)
LEMMA NoneUninvited ==
    ASSUME TypeInv, NEW r, RunIds = {r}, NEW m \in Matches, Precedes(Invitations(m), QueueReads),
           Pipeline # <<>>, Current.step = "mm.lrange"
    PROVE  ~Uninvited(m)
<1>1. Current \in Queued /\ Current \in Good /\ Queued \subseteq Good
  BY Head1
<1>2. batch[Current.for] = <<>> /\ Current.for \in RunIds
  BY <1>1, TypesNow, Kinds, Steps2 DEF Filling, Fits, RemoveSteps, PushSteps
<1>3. Loose(m)
  BY <1>2 DEF Loose, Range
<1>4. Current \in QueueReads
  BY <1>1 DEF QueueReads
<1>5. Absent(Invitations(m))
  BY <1>4, Foremost
<1> QED  BY <1>1, <1>3, <1>5 DEF Uninvited, Absent, Invitations

(* Steps of the clients, and of the interval and the clock. *)
UntimedStep == \/ \E r \in RunIds : Tick(r) \/ ConfirmRound(r)
               \/ \E m \in Matches : DisbandTimer(m) \/ TwoMinutes(m) \/ ExpireKey(m)

LEMMA NothingAwaited ==
    ASSUME TypeInv, MaxPending = 1, NEW c \in Clients, NEW op, MaySend(c, op)
    PROVE  \A t \in Queued : ~(Awaited(t) /\ t.c = c)
<1>1. /\ Pipeline \in Seq(Good) /\ DOMAIN Pipeline = 1..Len(Pipeline) /\ Len(Pipeline) \in Nat
      /\ Pending(c) = {i \in DOMAIN Pipeline : Awaited(Pipeline[i]) /\ Pipeline[i].c = c}
  BY OneServer, LenProperties DEF TypeInv, Pipeline, Pending
<1>2. IsFiniteSet(Pending(c))
  <2>1. IsFiniteSet(1..Len(Pipeline)) /\ Pending(c) \in SUBSET (1..Len(Pipeline))
    BY <1>1, FS_Interval
  <2> QED  BY <2>1, FS_Subset
<1>3. Cardinality(Pending(c)) = 0
  BY <1>2, FS_CardinalityType DEF MaySend
<1>4. Pending(c) = {}
  BY <1>2, <1>3, FS_EmptySet
<1> QED  BY <1>1, <1>4 DEF Queued

(* A client sends one request, when it waits for none. *)
Sends(d, u) ==
    /\ Adds(<<u>>) /\ u.c = d /\ u.for = None
    /\ u.job # "close" => \A t \in Queued : ~(Awaited(t) /\ t.c = d)
    /\ \/ /\ u.job = "search" /\ u.step = "search.lrange" /\ u.g = Queue
          /\ view[d].at = "free" /\ view'[d] = NoView("searching")
       \/ /\ u.job = "confirm" /\ u.step = "get.hget" /\ u.g = view[d].m
          /\ view[d].at = "found"
          /\ view'[d].at = "confirmed" /\ view'[d].m = view[d].m
       \/ /\ u.job = "exit" /\ u.step = "get.hget" /\ u.g = view[d].m
          /\ view[d].at \in InMatch /\ view'[d] = view[d]
       \/ /\ u.job = "close" /\ u.step = "match.lrange" /\ u.g = None
          /\ view'[d] = NoView("free") /\ d \notin online'

LEMMA ClientSends ==
    ASSUME TypeInv, MaxPending = 1, "leave" \notin Ops, NEW d \in Clients, ClientStep(d)
    PROVE  /\ UNCHANGED <<storeVars, runVars, roundVars, mmcVars>> /\ d \in online
           /\ \A c \in Clients \ {d} : view'[c] = view[c] /\ (c \in online' <=> c \in online)
           /\ online' \subseteq online
           /\ \E u : Sends(d, u)
<1> USE DEF storeVars, runVars, roundVars, mmcVars, clientVars, Sends
<1>0. view \in [Clients -> [at : Places, m : Matches \cup {None}]] /\ WellViewed
  BY TypesNow DEF WellViewed
<1>1. /\ UNCHANGED <<storeVars, runVars, roundVars, mmcVars>> /\ d \in online
      /\ \A c \in Clients \ {d} : view'[c] = view[c] /\ (c \in online' <=> c \in online)
      /\ online' \subseteq online
  BY <1>0 DEF ClientStep, Search, Leave, Confirm, Exit, Close, MaySend
<1>2. /\ d \in Clients \cup {None} /\ Queue \in Groups \cup {None} /\ None \in Groups \cup {None}
      /\ None \in Matches \cup RunIds \cup {None} /\ Matches \subseteq Groups
      /\ {"search.lrange", "get.hget", "match.lrange"} \subseteq Steps
      /\ {"search", "confirm", "exit", "close"} \subseteq Jobs
  BY Steps2, Names
<1>3. CASE Search(d)
  <2> DEFINE u == RoomTask("search.lrange", "search", d, Queue, None)
  <2>1. Fits("search", "search.lrange", d, Queue, None)
    BY DEF Fits
  <2>2. u \in Good
    BY <1>2, <2>1, RoomGood
  <2>3. Adds(<<u>>)
    BY <1>3, <2>2, Singly, AddsOn DEF Search, Send
  <2>4. u.c = d /\ u.for = None /\ u.job = "search" /\ u.step = "search.lrange" /\ u.g = Queue
    BY RoomFields
  <2>5. view[d].at = "free" /\ view'[d] = NoView("searching") /\ MaySend(d, "search")
    BY <1>0, <1>3 DEF Search
  <2>6. \A t \in Queued : ~(Awaited(t) /\ t.c = d)
    BY <2>5, NothingAwaited
  <2> HIDE DEF u
  <2> QED  BY <1>1, <2>3, <2>4, <2>5, <2>6
<1>4. CASE Confirm(d)
  <2> DEFINE u == RoomTask("get.hget", "confirm", d, view[d].m, None)
  <2>1. view[d].at = "found" /\ view[d].m \in Matches /\ MaySend(d, "confirm")
    BY <1>0, <1>4 DEF Confirm, WellViewed, InMatch
  <2>2. Fits("confirm", "get.hget", d, view[d].m, None)
    BY <2>1 DEF Fits
  <2>3. u \in Good
    BY <1>2, <2>1, <2>2, RoomGood
  <2>4. Adds(<<u>>)
    BY <1>4, <2>3, Singly, AddsOn DEF Confirm, Send
  <2>5. u.c = d /\ u.for = None /\ u.job = "confirm" /\ u.step = "get.hget" /\ u.g = view[d].m
    BY RoomFields
  <2>6. view'[d].at = "confirmed" /\ view'[d].m = view[d].m
    BY <1>0, <1>4 DEF Confirm
  <2>7. \A t \in Queued : ~(Awaited(t) /\ t.c = d)
    BY <2>1, NothingAwaited
  <2> HIDE DEF u
  <2> QED  BY <1>1, <2>1, <2>4, <2>5, <2>6, <2>7
<1>5. CASE Exit(d)
  <2> DEFINE u == RoomTask("get.hget", "exit", d, view[d].m, None)
  <2>1. view[d].at \in InMatch /\ view[d].m \in Matches /\ MaySend(d, "exit")
    BY <1>0, <1>5 DEF Exit, WellViewed, InMatch
  <2>2. Fits("exit", "get.hget", d, view[d].m, None)
    BY <2>1 DEF Fits
  <2>3. u \in Good
    BY <1>2, <2>1, <2>2, RoomGood
  <2>4. Adds(<<u>>)
    BY <1>5, <2>3, Singly, AddsOn DEF Exit, Send
  <2>5. u.c = d /\ u.for = None /\ u.job = "exit" /\ u.step = "get.hget" /\ u.g = view[d].m
    BY RoomFields
  <2>6. view'[d] = view[d]
    BY <1>5 DEF Exit
  <2>7. \A t \in Queued : ~(Awaited(t) /\ t.c = d)
    BY <2>1, NothingAwaited
  <2> HIDE DEF u
  <2> QED  BY <1>1, <2>1, <2>4, <2>5, <2>6, <2>7
<1>6. CASE Close(d)
  <2> DEFINE u == RoomTask("match.lrange", "close", d, None, None)
  <2>1. Fits("close", "match.lrange", d, None, None)
    BY DEF Fits
  <2>2. u \in Good
    BY <1>2, <2>1, RoomGood
  <2>3. Adds(<<u>>)
    BY <1>6, <2>2, Singly, AddsOn DEF Close, Send
  <2>4. u.c = d /\ u.for = None /\ u.job = "close" /\ u.step = "match.lrange" /\ u.g = None
    BY RoomFields
  <2>5. view'[d] = NoView("free") /\ d \notin online'
    BY <1>0, <1>6 DEF Close
  <2> HIDE DEF u
  <2> QED  BY <1>1, <2>3, <2>4, <2>5
<1>7. ~Leave(d)
  BY DEF Leave, MaySend
<1> QED  BY <1>3, <1>4, <1>5, <1>6, <1>7 DEF ClientStep

LEMMA UntimedAdds ==
    ASSUME TypeInv, Deciding, UntimedStep
    PROVE  /\ UNCHANGED <<storeVars, clientVars, minted, lobby, batch>>
           /\ \E f \in Seq(Good) :
                 /\ Adds(f)
                 /\ \A t \in Elements(f) :
                       \/ t.step = "mm.lrange" /\ t.job = "match" /\ t.g = Queue /\ t.for \in RunIds
                       \/ t.step = "mmc.llen" /\ t.job = "start" /\ t.g \in confirming
                       \/ /\ t.step \in {"mmc.del", "notify.lrange"} /\ t.job = "disband"
                          /\ t.g \in confirming /\ Dead(t.g)'
                       \/ t.step = "erase.lrangeGroup" /\ t.job = "disband" /\ t.g \in timers
                 /\ \A m \in Matches :
                       \/ verdicts'[m] = verdicts[m] /\ (m \in timers' => m \in timers)
                       \/ /\ m \in confirming /\ verdicts[m] = <<>> /\ Dead(m)'
                          /\ \E t \in Elements(f) : t \in Farewells(m)
<1> USE DEF storeVars, runVars, roundVars, mmcVars, clientVars
<1>1. CASE \E r \in RunIds : Tick(r)
  <2>1. PICK r \in RunIds : Tick(r)
    BY <1>1
  <2> DEFINE u == RoomTask("mm.lrange", "match", None, Queue, r)
  <2>2. u.step = "mm.lrange" /\ u.job = "match" /\ u.g = Queue /\ u.for = r
    BY RoomFields
  <2>3. /\ u \in Good /\ Adds(<<u>>) /\ Elements(<<u>>) = {u}
        /\ UNCHANGED <<storeVars, clientVars, minted, lobby, batch>>
        /\ verdicts' = verdicts /\ timers' = timers
    BY <2>1, TickDoes
  <2> HIDE DEF u
  <2>4. <<u>> \in Seq(Good)
    BY <2>3 DEF Adds
  <2> QED  BY <2>2, <2>3, <2>4
<1>2. CASE \E m \in Matches : DisbandTimer(m)
  <2>1. PICK m \in Matches : DisbandTimer(m)
    BY <1>2
  <2> DEFINE u == RoomTask("erase.lrangeGroup", "disband", None, m, None)
  <2>2. u.job = "disband" /\ u.g = m /\ u.step = "erase.lrangeGroup"
    BY RoomFields
  <2>3. /\ m \in timers /\ u \in Good /\ Adds(<<u>>) /\ Elements(<<u>>) = {u}
        /\ UNCHANGED <<storeVars, clientVars, minted, lobby, batch>>
        /\ verdicts' = verdicts /\ timers' = timers \ {m}
    BY <2>1, TimerDoes
  <2> HIDE DEF u
  <2>4. <<u>> \in Seq(Good)
    BY <2>3 DEF Adds
  <2> QED  BY <2>2, <2>3, <2>4
<1>3. CASE \E r \in RunIds : ConfirmRound(r)
  <2>1. PICK r \in RunIds : ConfirmRound(r)
    BY <1>3
  <2>2. PICK f \in Seq(Good) :
           /\ Adds(f)
           /\ Elements(f) = {Round(m) : m \in confirming} \cup {Telling(m) : m \in ToTell}
    BY <2>1, RoundDoes
  <2>3. \A m : /\ Round(m).g = m
               /\ m \in late => Round(m).step = "mmc.del" /\ Round(m).job = "disband"
               /\ m \notin late => Round(m).step = "mmc.llen" /\ Round(m).job = "start"
    BY RoomFields DEF Round, Overdue
  <2>4. \A m : Telling(m).job = "disband" /\ Telling(m).g = m /\ Telling(m).step = "notify.lrange"
    BY RoomFields DEF Telling
  <2>5. ToTell = late /\ late \subseteq confirming /\ confirming \subseteq Matches
    BY TypesNow DEF ToTell, Overdue
  <2>6. /\ UNCHANGED <<storeVars, clientVars, minted, lobby, batch>>
        /\ timers' = timers \cup late
        /\ \A m \in Matches : verdicts'[m] = IF m \in late THEN Append(verdicts[m], "disband")
                                                           ELSE verdicts[m]
    BY <2>1, RoundDoes
  <2>7. \A m \in confirming : verdicts[m] = <<>>
    BY <2>5 DEF Deciding
  <2>8. \A m \in late : verdicts[m] = <<>> /\ Dead(m)'
    <3>1. Append(<<>>, "disband") = <<"disband">>
      OBVIOUS
    <3> QED  BY <2>5, <2>6, <2>7, <3>1 DEF Dead
  <2>9. \A m \in late : Telling(m) \in Elements(f) /\ Telling(m) \in Farewells(m)
    <3>1. \A t \in Elements(f) : t \in Good
      BY <2>2, ElementOfSeq, LenProperties DEF Elements
    <3> QED  BY <2>2, <2>4, <2>5, <3>1 DEF Farewells
  <2>10. ASSUME NEW t \in Elements(f)
         PROVE  \/ t.step = "mmc.llen" /\ t.job = "start" /\ t.g \in confirming
                \/ /\ t.step \in {"mmc.del", "notify.lrange"} /\ t.job = "disband"
                   /\ t.g \in confirming /\ Dead(t.g)'
    <3>1. CASE \E m \in ToTell : t = Telling(m)
      <4>1. PICK m \in ToTell : t = Telling(m)
        BY <3>1
      <4>2. t.g = m /\ m \in confirming /\ Dead(m)'
        BY <2>4, <2>5, <2>8, <4>1
      <4>3. \E g : g = t.g /\ Dead(g)'
        BY <4>2
      <4> QED  BY <2>4, <4>1, <4>2, <4>3
    <3>2. CASE \E m \in confirming : t = Round(m)
      <4>1. PICK m \in confirming : t = Round(m)
        BY <3>2
      <4>2. m \in late => \E g : g = t.g /\ Dead(g)'
        BY <2>3, <2>8, <4>1
      <4> QED  BY <2>3, <4>1, <4>2
    <3> QED  BY <2>2, <3>1, <3>2
  <2>11. \A m \in Matches :
            \/ verdicts'[m] = verdicts[m] /\ (m \in timers' => m \in timers)
            \/ /\ m \in confirming /\ verdicts[m] = <<>> /\ Dead(m)'
               /\ \E t \in Elements(f) : t \in Farewells(m)
    BY <2>5, <2>6, <2>8, <2>9
  <2> QED  BY <2>2, <2>6, <2>10, <2>11
<1>4. CASE \E m \in Matches : TwoMinutes(m) \/ ExpireKey(m)
  <2>1. UNCHANGED <<storeVars, pipe, clientVars, minted, lobby, batch, verdicts, timers>>
    BY <1>4 DEF TwoMinutes, ExpireKey
  <2>2. pipe \in [Servers -> Seq(Good)] /\ Pipeline \in Seq(Good)
    BY TypesNow, AllGood
  <2>3. Pipeline' = Pipeline /\ Queued' = Queued
    BY <2>1 DEF Pipeline, Queued
  <2>4. Pipeline \o <<>> = Pipeline
    BY <2>2, ConcatEmptySeq
  <2>5. <<>> \in Seq(Good) /\ Elements(<<>>) = {}
    BY Nothing
  <2>6. Adds(<<>>)
    BY <2>1, <2>2, <2>3, <2>4, <2>5 DEF Adds
  <2> QED  BY <2>1, <2>5, <2>6
<1> QED  BY <1>1, <1>2, <1>3, <1>4 DEF UntimedStep

-------------------------------------------------------------------------------
(* The order of the commands. *)

(* One matching run, and clients that wait for answers and do not leave.    *)
Calm == MaxPending = 1 /\ "leave" \notin Ops /\ \E r : RunIds = {r}

Ground == TypeInv /\ Births /\ Coherent /\ Inviting /\ Unheard /\ Tracked /\ Deciding

(* What a search or an exit goes on with comes from itself. *)
LEMMA SearchesGoOn ==
    ASSUME TypeInv, NEW f, Proceeds(f), NEW c
    PROVE  /\ \A u \in Elements(f) : u \in Searches(c) =>
                 Current \in Searches(c) /\ GoesOn(u) /\ u.step \in PushSteps
           /\ \A u, v \in Elements(f) : u \in Searches(c) /\ v \in Searches(c) => u.step = v.step
<1>1. Current \in Good /\ Elements(f) \subseteq Good
  BY Behindhand, Head1
<1>2. ASSUME NEW u \in Elements(f), u \in Searches(c)
      PROVE  /\ Current \in Searches(c) /\ GoesOn(u) /\ u.step \in PushSteps
             /\ Current.step = "search.lrange" => u.step = "push.lrangeGroup"
             /\ Current.step = "push.lrangeGroup" => u.step = "push.lrangeClient"
             /\ Current.step = "push.lrangeClient" => u.step = "push.lpushClient"
             /\ Current.step = "push.lpushClient" => u.step = "push.lpushGroup"
             /\ Current.step \in {"search.lrange", "push.lrangeGroup", "push.lrangeClient",
                                  "push.lpushClient"}
  <2>1. u.job = "search" /\ u.c = c /\ u.step \in {"search.lrange"} \cup PushSteps
    BY <1>1, <1>2, Kinds DEF Searches, Fits
  <2>2. GoesOn(u)
    BY <1>2, <2>1 DEF Proceeds, Turns
  <2> QED  BY <1>1, <2>1, <2>2 DEF GoesOn, Chain, Searches, PushSteps
<1> QED  BY <1>2

LEMMA ExitsGoOn ==
    ASSUME TypeInv, NEW f, Proceeds(f), NEW c
    PROVE  \A u \in Elements(f) : u \in Exits(c) =>
                 /\ Current \in Exits(c) /\ GoesOn(u)
                 /\ Current.step = "get.hget" /\ u.step = "member.lrange"
<1>1. Current \in Good /\ Elements(f) \subseteq Good
  BY Behindhand, Head1
<1> SUFFICES ASSUME NEW u \in Elements(f), u \in Exits(c)
             PROVE  /\ Current \in Exits(c) /\ GoesOn(u)
                    /\ Current.step = "get.hget" /\ u.step = "member.lrange"
  OBVIOUS
<1>2. GoesOn(u)
  BY DEF Proceeds, Turns, Exits
<1> QED  BY <1>1, <1>2 DEF GoesOn, Chain, Exits

(* The runs's invitations are drawn one by one. *)
LEMMA InvitedOnce ==
    ASSUME TypeInv, Filled, NEW s \in Servers, ServerStep(s), NEW m \in Matches, Absent(Invitations(m))
    PROVE  AtMostOnce(Invitations(m))'
<1>1. PICK f : Proceeds(f)
  BY ServerProceeds
<1>2. Behind \cap Invitations(m) = {} /\ AtMostOnce(Invitations(m))
  <2>1. Queued = {Current} \cup Behind
    BY <1>1, Behindhand
  <2>2. \A i \in DOMAIN Pipeline : Pipeline[i] \in Queued
    BY DEF Queued
  <2> QED  BY <2>1, <2>2 DEF Absent, AtMostOnce
<1>3. CASE \A u \in Elements(f) : u \notin Invitations(m)
  BY <1>1, <1>2, <1>3, OnceServer
<1>4. CASE \E u \in Elements(f) : u \in Invitations(m)
  <2>1. PICK u \in Elements(f) : u \in Invitations(m)
    BY <1>4
  <2>2. Current.step \in PushSteps /\ Ends(Current) /\ AllPushed(Current)
    BY <1>1, <2>1, InvitedByRun DEF Invitations
  <2>3. Push(s)
    BY <2>2, StepSays
  <2>4. Runs(Pushed(Current))
    BY <2>2, <2>3, PushDoes DEF Ends
  <2>5. Current \in Queued /\ Current \in Good
    BY <2>4, Head1 DEF Runs
  <2> DEFINE ids == batch[RunOf(Current)]
             h == Pushed(Current)
  <2>6. RunOf(Current) \in RunIds
    BY <2>2, <2>5, PushedGood
  <2>7. \A i, j \in DOMAIN ids : ids[i] = ids[j] => i = j
    BY <2>6 DEF Filled
  <2>8. h = [i \in DOMAIN ids |-> RoomTask("notify.lrange", "found", None, ids[i], None)]
    BY <2>2 DEF Pushed
  <2>9. ASSUME NEW i \in DOMAIN h, NEW j \in DOMAIN h, h[i] \in Invitations(m), h[j] \in Invitations(m)
        PROVE  i = j
    <3>1. i \in DOMAIN ids /\ j \in DOMAIN ids /\ h[i].g = ids[i] /\ h[j].g = ids[j]
      BY <2>8, <2>9, RoomFields
    <3>2. ids[i] = m /\ ids[j] = m
      BY <2>9, <3>1 DEF Invitations
    <3> QED  BY <2>7, <3>1, <3>2
  <2>10. /\ Pipeline \in Seq(Good) /\ Pipeline # <<>> /\ h \in Seq(Good)
         /\ Pipeline' = Tail(Pipeline) \o h
    BY <2>4, AllGood DEF Runs
  <2> HIDE DEF h
  <2> QED  BY <1>2, <2>9, <2>10, OnceAgain
<1> QED  BY <1>3, <1>4

(* There is one way to run on. *)
LEMMA SameRun ==
    ASSUME TypeInv, NEW f, Runs(f), NEW h, Runs(h)
    PROVE  f = h
<1> DEFINE q == Pipeline
           p == Tail(q) \o f
           w == Tail(q) \o h
<1>1. q \in Seq(Good) /\ q # <<>> /\ f \in Seq(Good) /\ h \in Seq(Good) /\ p = w
  BY AllGood DEF Runs
<1>2. /\ Len(q) \in Nat \ {0} /\ Len(f) \in Nat /\ Len(h) \in Nat
      /\ DOMAIN p = 1..(Len(q) - 1 + Len(f))
      /\ \A i \in DOMAIN p : p[i] = IF i < Len(q) THEN q[i + 1] ELSE f[i - Len(q) + 1]
      /\ DOMAIN w = 1..(Len(q) - 1 + Len(h))
      /\ \A i \in DOMAIN w : w[i] = IF i < Len(q) THEN q[i + 1] ELSE h[i - Len(q) + 1]
  BY <1>1, StepElements, LenProperties, EmptySeq
<1> HIDE DEF p, w, q
<1>3. Len(f) = Len(h)
  <2>1. 1..(Len(q) - 1 + Len(f)) = 1..(Len(q) - 1 + Len(h))
    BY <1>1, <1>2
  <2> QED  BY <1>2, <2>1
<1>4. ASSUME NEW i \in 1..Len(f) PROVE f[i] = h[i]
  <2>1. /\ i + Len(q) - 1 \in DOMAIN p /\ i + Len(q) - 1 \in DOMAIN w
        /\ ~(i + Len(q) - 1 < Len(q)) /\ (i + Len(q) - 1) - Len(q) + 1 = i
    BY <1>2, <1>3
  <2>2. p[i + Len(q) - 1] = f[i] /\ w[i + Len(q) - 1] = h[i]
    BY <1>2, <2>1
  <2> QED  BY <1>1, <2>2
<1> QED  BY <1>1, <1>3, <1>4, SeqEqual

(* The interval alone says farewell. *)
LEMMA NoFarewell ==
    ASSUME TypeInv, NEW f, Proceeds(f), NEW m
    PROVE  \A u \in Elements(f) : u \notin Farewells(m)
<1>1. Current \in Good
  BY Behindhand, Head1
<1> SUFFICES ASSUME NEW u \in Elements(f), u.job = "disband", u.step = "notify.lrange" PROVE FALSE
  BY DEF Farewells
<1>2. GoesOn(u)
  BY DEF Proceeds, Turns
<1> QED  BY <1>1, <1>2, Kinds DEF GoesOn, Chain, Fits, EraseSteps

(* An EXIT is removed when its check has succeeded, one of a closed client  *)
(* at once.                                                                 *)
LEMMA RemovesStart ==
    ASSUME TypeInv, Unheard, NEW s \in Servers, ServerStep(s), NEW f, Proceeds(f),
           \A t \in Queued : t.job # "leave",
           NEW c \in online, NEW g \in Matches, NEW u \in Elements(f), u.c = c, u.g = g,
           u.step \in RemoveSteps
    PROVE  /\ u.job = "exit" /\ Current.c = c /\ Current.g = g /\ Current.job = "exit"
           /\ \/ /\ u.step = "remove.lremClient" /\ Current.step = "member.lrange"
                 /\ members[g][c] > 0
              \/ u.step = "remove.lremGroup" /\ Current.step = "remove.lremClient"
<1>1. Current \in Good /\ Elements(f) \subseteq Good /\ Current \in Queued
  BY Behindhand, Head1
<1>2. u.g # Queue
  BY Names
<1>3. GoesOn(u)
  BY <1>2 DEF Proceeds, Turns, RemoveSteps
<1>4. Current.job = u.job /\ Current.c = c /\ Current.g = g
  BY <1>3 DEF GoesOn
<1>5. u.job \in {"leave", "exit", "close", "match"}
  BY <1>1, Kinds
<1>6. Current.job # "close"
  BY <1>1, <1>4 DEF Unheard
<1>7. u.job # "match"
  BY <1>1, <1>2, Kinds DEF Fits, RemoveSteps, PushSteps
<1>8. Current.job = "exit"
  BY <1>1, <1>4, <1>5, <1>6, <1>7
<1>9. CASE u.step = "remove.lremGroup"
  BY <1>3, <1>4, <1>8, <1>9 DEF GoesOn, Chain
<1>10. CASE u.step = "remove.lremClient"
  <2>1. Current.step \in {"get.hget", "member.lrange"}
    BY <1>3, <1>10 DEF GoesOn, Chain
  <2>2. Runs(f)
    BY <1>10, MustRun
  <2>3. f # <<>>
    BY Few
  <2>4. CASE Current.step = "get.hget"
    <3>1. Get(s)
      BY <2>4, EachStepSays
    <3>2. Runs(<<At(Current, "member.lrange")>>) \/ Runs(<<Heal(Current)>>)
      BY <1>8, <3>1, GetDoes
    <3>3. u = At(Current, "member.lrange") \/ u = Heal(Current)
      BY <2>2, <3>2, SameRun, Few
    <3>4. Current.g \in Matches
      BY <1>4
    <3>5. At(Current, "member.lrange").step = "member.lrange"
      BY <1>1, AtFields
    <3>6. Heal(Current).step = "erase.lrangeGroup"
      BY <1>1, <2>4, <3>4, HealGood
    <3> QED  BY <1>10, <3>3, <3>5, <3>6
  <2>5. CASE Current.step = "member.lrange"
    <3>1. MemberCheck(s)
      BY <2>5, EachStepSays
    <3>2. ~(members[g][c] > 0) => Runs(<<>>)
      BY <1>4, <3>1, MemberDoes
    <3>3. members[g][c] > 0
      BY <2>2, <2>3, <3>2, SameRun
    <3> QED  BY <1>4, <1>8, <1>10, <2>5, <3>3
  <2> QED  BY <2>1, <2>4, <2>5
<1> QED  BY <1>9, <1>10 DEF RemoveSteps

LEMMA OrderlyServer ==
    ASSUME Ground, Calm, Rooms, NEW s \in Servers, ServerStep(s)
    PROVE  Orderly'
<1> USE DEF Ground
<1>1. PICK f : Proceeds(f)
  BY ServerProceeds
<1>2. /\ Queued' = Behind \cup Elements(f) /\ Queued = {Current} \cup Behind /\ Queued \subseteq Good
      /\ Queued' \subseteq Good /\ Current \in Good /\ Elements(f) \subseteq Good
      /\ Pipeline # <<>> /\ Current \in Queued
  BY <1>1, Behindhand, Head1
<1>3. ASSUME NEW c \in Clients PROVE (AtMostOnce(Searches(c)) /\ AtMostOnce(Exits(c)))'
  <2>1. AtMostOnce(Searches(c)) /\ AtMostOnce(Exits(c))
    BY DEF Rooms, Orderly
  <2>2. \A u \in Elements(f) : u \in Searches(c) => Current \in Searches(c) /\ Chain(Current.step, u.step)
    BY <1>1, SearchesGoOn DEF GoesOn
  <2>3. \A u, v \in Elements(f) : u \in Searches(c) /\ v \in Searches(c) => u.step = v.step
    BY <1>1, SearchesGoOn
  <2>4. AtMostOnce(Searches(c))'
    BY <1>1, <2>1, <2>2, <2>3, OnceServer
  <2>5. \A u \in Elements(f) : u \in Exits(c) => /\ Current \in Exits(c) /\ Chain(Current.step, u.step)
                                                 /\ u.step = "member.lrange"
    BY <1>1, ExitsGoOn DEF GoesOn
  <2>6. AtMostOnce(Exits(c))'
    BY <1>1, <2>1, <2>5, OnceServer
  <2> QED  BY <2>4, <2>6
<1>4. ASSUME NEW m \in Matches
      PROVE  \/ \A u \in Elements(f) : u \notin Invitations(m)
             \/ /\ ~Loose(m) /\ Absent(Invitations(m))
                /\ \A u \in Elements(f) : u.step = "notify.lrange" /\ u.job = "found"
  <2>1. SUFFICES ASSUME NEW u \in Elements(f), u \in Invitations(m)
                 PROVE  /\ ~Loose(m) /\ Absent(Invitations(m))
                        /\ \A v \in Elements(f) : v.step = "notify.lrange" /\ v.job = "found"
    OBVIOUS
  <2>2. /\ ~Loose(m) /\ Current.step \in PushSteps /\ Ends(Current) /\ AllPushed(Current)
        /\ u.step = "notify.lrange"
    BY <1>1, <2>1, InvitedByRun DEF Invitations
  <2>3. Absent(Invitations(m))
    BY <2>2 DEF Unheard, Absent, Invitations
  <2>4. Push(s)
    BY <2>2, StepSays
  <2>5. Runs(Pushed(Current)) /\ Current.step # "push.lpushClient"
    BY <2>2, <2>4, PushDoes DEF Ends
  <2>6. Runs(f)
    BY <1>1, <2>1, <2>2, MustRun
  <2>7. f = Pushed(Current)
    BY <2>5, <2>6, SameRun
  <2>8. Elements(f) = {RoomTask("notify.lrange", "found", None, k, None) :
                           k \in Range(batch[RunOf(Current)])}
    BY <1>2, <2>2, <2>7, PushedGood
  <2>9. \A v \in Elements(f) : v.step = "notify.lrange" /\ v.job = "found"
    BY <2>8, RoomFields
  <2> QED  BY <2>2, <2>3, <2>9
<1>5. ASSUME NEW m \in Matches PROVE AtMostOnce(Invitations(m))'
  <2>1. AtMostOnce(Invitations(m)) /\ Filled
    BY DEF Rooms, Orderly
  <2>2. CASE \A u \in Elements(f) : u \notin Invitations(m)
    BY <1>1, <2>1, <2>2, OnceServer
  <2>3. CASE Absent(Invitations(m))
    BY <2>1, <2>3, InvitedOnce
  <2> QED  BY <1>4, <2>2, <2>3
<1>6. ASSUME NEW m \in Matches PROVE Precedes(Invitations(m), Decisions(m))'
  <2>1. Precedes(Invitations(m), Decisions(m))
    BY DEF Rooms, Orderly
  <2>2. \/ \A u \in Elements(f) : u \notin Invitations(m)
        \/ \A u \in Behind \cup Elements(f) : u \notin Decisions(m)
    <3>1. Loose(m) \/ \A u \in Behind : u \notin Decisions(m)
      BY <1>2 DEF Unheard, Decisions
    <3> QED  BY <1>4, <3>1 DEF Decisions
  <2>3. \A u \in Elements(f) : u.step = "erase.lremClient" => u \notin Decisions(m)
    BY DEF Decisions, EraseSteps
  <2> QED  BY <1>1, <2>1, <2>2, <2>3, PrecedesServer
<1>7. ASSUME NEW m \in Matches PROVE Precedes(Invitations(m), QueueReads)'
  <2>1. Precedes(Invitations(m), QueueReads)
    BY DEF Rooms, Orderly
  <2>2. \/ \A u \in Elements(f) : u \notin Invitations(m)
        \/ \A u \in Behind \cup Elements(f) : u \notin QueueReads
    <3>1. ASSUME ~Loose(m), NEW u \in Behind PROVE u \notin QueueReads
      <4>1. SUFFICES ASSUME u.step = "mm.lrange" PROVE FALSE
        BY DEF QueueReads
      <4>2. batch[u.for] = <<>> /\ u.for \in RunIds
        BY <1>2, <4>1, TypesNow, Kinds, Steps2 DEF Filling, Fits, RemoveSteps, PushSteps
      <4>3. \A r \in RunIds : batch[r] = <<>>
        BY <4>2 DEF Calm
      <4> QED  BY <3>1, <4>3 DEF Loose, Range
    <3> QED  BY <1>4, <3>1 DEF QueueReads
  <2>3. \A u \in Elements(f) : u.step = "erase.lremClient" => u \notin QueueReads
    BY DEF QueueReads
  <2> QED  BY <1>1, <2>1, <2>2, <2>3, PrecedesServer
<1>8. ASSUME NEW m \in Matches PROVE Precedes(Farewells(m), Erases(m))'
  <2>1. Precedes(Farewells(m), Erases(m))
    BY DEF Rooms, Orderly
  <2>2. \A u \in Elements(f) : u \notin Farewells(m)
    BY <1>1, NoFarewell
  <2>3. ASSUME NEW u \in Elements(f), u.step = "erase.lremClient", u \in Erases(m)
        PROVE  Current \in Erases(m)
    BY <1>1, <1>2, <2>3 DEF Proceeds, GoesOn, Turns, Chain, Erases, EraseSteps
  <2> QED  BY <1>1, <2>1, <2>2, <2>3, PrecedesServer
<1>9. \A t \in Queued' : t.job # "leave"
  BY <1>1, <1>2 DEF Rooms, Orderly, Proceeds, GoesOn, Turns
<1> QED  BY <1>3, <1>5, <1>6, <1>7, <1>8, <1>9 DEF Orderly

LEMMA OrderlyClient ==
    ASSUME Ground, Calm, Rooms, NEW d \in Clients, ClientStep(d)
    PROVE  Orderly'
<1> USE DEF Ground, Sends
<1>1. MaxPending = 1 /\ "leave" \notin Ops /\ Orderly
  BY DEF Calm, Rooms
<1>2. PICK u : Sends(d, u)
  BY <1>1, ClientSends
<1>3. Elements(<<u>>) = {u} /\ Queued' = Queued \cup {u}
  BY <1>2, Few DEF Adds
<1>4. ASSUME NEW c \in Clients PROVE (AtMostOnce(Searches(c)) /\ AtMostOnce(Exits(c)))'
  <2>1. u \in Searches(c) => Absent(Searches(c))
    BY <1>2 DEF Searches, Absent, Awaited, AllOps
  <2>2. u \in Exits(c) => Absent(Exits(c))
    BY <1>2 DEF Exits, Absent, Awaited, AllOps
  <2>3. AtMostOnce(Searches(c)) /\ AtMostOnce(Exits(c))
    BY <1>1 DEF Orderly
  <2>4. AtMostOnce(Searches(c))'
    BY <1>2, <1>3, <2>1, <2>3, OneMore, OnceAdds
  <2>5. AtMostOnce(Exits(c))'
    BY <1>2, <1>3, <2>2, <2>3, OneMore, OnceAdds
  <2> QED  BY <2>4, <2>5
<1>5. ASSUME NEW m \in Matches PROVE AtMostOnce(Invitations(m))'
  <2>1. u \notin Invitations(m) /\ AtMostOnce(Invitations(m))
    BY <1>1, <1>2 DEF Invitations, Orderly
  <2> QED  BY <1>2, <1>3, <2>1, OneMore, OnceAdds
<1>6. ASSUME NEW m \in Matches
      PROVE  /\ Precedes(Invitations(m), Decisions(m))' /\ Precedes(Invitations(m), QueueReads)'
             /\ Precedes(Farewells(m), Erases(m))'
  <2>1. u \notin Invitations(m) /\ u \notin Farewells(m)
    BY <1>2 DEF Invitations, Farewells
  <2>2. /\ Precedes(Invitations(m), Decisions(m)) /\ Precedes(Invitations(m), QueueReads)
        /\ Precedes(Farewells(m), Erases(m))
    BY <1>1 DEF Orderly
  <2>3. Precedes(Invitations(m), Decisions(m))'
    BY <1>2, <1>3, <2>1, <2>2, PrecedesAdds
  <2>4. Precedes(Invitations(m), QueueReads)'
    BY <1>2, <1>3, <2>1, <2>2, PrecedesAdds
  <2>5. Precedes(Farewells(m), Erases(m))'
    BY <1>2, <1>3, <2>1, <2>2, PrecedesAdds
  <2> QED  BY <2>3, <2>4, <2>5
<1>7. \A t \in Queued' : t.job # "leave"
  BY <1>1, <1>2, <1>3 DEF Orderly
<1> QED  BY <1>4, <1>5, <1>6, <1>7 DEF Orderly

(* A farewell is said once the match is decided; an erase comes later. *)
LEMMA NoEraseYet ==
    ASSUME TypeInv, Deciding, Disbanding, NEW m \in confirming
    PROVE  \A t \in Queued : t \notin Erases(m)
<1>1. m \in Matches /\ verdicts[m] = <<>>
  BY TypesNow DEF Deciding
<1>2. ~Dead(m)
  BY <1>1 DEF Dead
<1> QED  BY <1>2 DEF Disbanding, Erases

LEMMA OrderlyUntimed ==
    ASSUME Ground, Calm, Rooms, UntimedStep
    PROVE  Orderly'
<1> USE DEF Ground
<1>1. Orderly /\ Disbanding
  BY DEF Rooms
<1>2. PICK f \in Seq(Good) :
         /\ Adds(f)
         /\ \A t \in Elements(f) :
               \/ t.step = "mm.lrange" /\ t.job = "match" /\ t.g = Queue /\ t.for \in RunIds
               \/ t.step = "mmc.llen" /\ t.job = "start" /\ t.g \in confirming
               \/ /\ t.step \in {"mmc.del", "notify.lrange"} /\ t.job = "disband"
                  /\ t.g \in confirming
               \/ t.step = "erase.lrangeGroup" /\ t.job = "disband" /\ t.g \in timers
  BY UntimedAdds
<1>3. Queued' = Queued \cup Elements(f) /\ \A i \in DOMAIN f : f[i] \in Elements(f)
  BY <1>2 DEF Adds, Elements
<1>4. ASSUME NEW c \in Clients PROVE (AtMostOnce(Searches(c)) /\ AtMostOnce(Exits(c)))'
  <2>1. \A u \in Elements(f) : u \notin Searches(c) /\ u \notin Exits(c)
    BY <1>2 DEF Searches, Exits
  <2>2. AtMostOnce(Searches(c)) /\ AtMostOnce(Exits(c))
    BY <1>1 DEF Orderly
  <2>3. AtMostOnce(Searches(c))'
    BY <1>2, <1>3, <2>1, <2>2, OnceAdds
  <2>4. AtMostOnce(Exits(c))'
    BY <1>2, <1>3, <2>1, <2>2, OnceAdds
  <2> QED  BY <2>3, <2>4
<1>5. ASSUME NEW m \in Matches
      PROVE  /\ AtMostOnce(Invitations(m))' /\ Precedes(Invitations(m), Decisions(m))'
             /\ Precedes(Invitations(m), QueueReads)'
  <2>1. \A u \in Elements(f) : u \notin Invitations(m)
    BY <1>2 DEF Invitations
  <2>2. /\ AtMostOnce(Invitations(m)) /\ Precedes(Invitations(m), Decisions(m))
        /\ Precedes(Invitations(m), QueueReads)
    BY <1>1 DEF Orderly
  <2>3. AtMostOnce(Invitations(m))'
    BY <1>2, <1>3, <2>1, <2>2, OnceAdds
  <2>4. Precedes(Invitations(m), Decisions(m))'
    BY <1>2, <2>1, <2>2, PrecedesAdds
  <2>5. Precedes(Invitations(m), QueueReads)'
    BY <1>2, <2>1, <2>2, PrecedesAdds
  <2> QED  BY <2>3, <2>4, <2>5
<1>6. ASSUME NEW m \in Matches PROVE Precedes(Farewells(m), Erases(m))'
  <2>1. Precedes(Farewells(m), Erases(m))
    BY <1>1 DEF Orderly
  <2>2. CASE \A u \in Elements(f) : u \notin Farewells(m)
    BY <1>2, <2>1, <2>2, PrecedesAdds
  <2>3. CASE \E u \in Elements(f) : u \in Farewells(m)
    <3>1. m \in confirming
      BY <1>2, <2>3 DEF Farewells
    <3>2. \A t \in Queued : t \notin Erases(m)
      BY <1>1, <3>1, NoEraseYet
    <3>3. m \notin timers
      <4>1. ~Dead(m)
        BY <3>1 DEF Deciding, Dead
      <4> QED  BY <1>1, <4>1 DEF Disbanding
    <3>4. \A u \in Elements(f) : u \notin Erases(m)
      BY <1>2, <3>3 DEF Erases, EraseSteps
    <3> QED  BY <1>2, <2>1, <3>2, <3>4, PrecedesAdds
  <2> QED  BY <2>2, <2>3
<1>7. \A t \in Queued' : t.job # "leave"
  BY <1>1, <1>2, <1>3 DEF Orderly
<1> QED  BY <1>4, <1>5, <1>6, <1>7 DEF Orderly

-------------------------------------------------------------------------------
(* A run cuts the queue: nobody gets into two lobbies, or twice into one.   *)

LEMMA ListedOnce ==
    ASSUME TypeInv, NEW q \in Listings(Queue), NEW i \in DOMAIN q
    PROVE  /\ q[i] \in Clients /\ members[Queue][q[i]] > 0
           /\ members[Queue][q[i]] <= 1 => \A j \in DOMAIN q : q[j] = q[i] => j = i
<1> DEFINE n == ListSize(members[Queue])
           c == q[i]
           S == {k \in DOMAIN q : q[k] = c}
<1>1. members[Queue] \in [Clients -> Nat] /\ n \in Nat
  BY TypesNow, Names, Sized
<1>2. q \in [1..n -> Clients] /\ \A d \in Clients : Cardinality({k \in DOMAIN q : q[k] = d}) = members[Queue][d]
  BY DEF Listings
<1> HIDE DEF n
<1>3. c \in Clients /\ Cardinality(S) = members[Queue][c]
  BY <1>2
<1>4. IsFiniteSet(S)
  <2>1. IsFiniteSet(1..n)
    BY <1>1, FS_Interval
  <2>2. S \in SUBSET (1..n)
    BY <1>2
  <2> QED  BY <2>1, <2>2, FS_Subset
<1>5. i \in S
  OBVIOUS
<1>6. Cardinality(S) # 0 /\ Cardinality(S) \in Nat
  BY <1>4, <1>5, FS_EmptySet, FS_CardinalityType
<1>7. ASSUME members[Queue][c] <= 1, NEW j \in DOMAIN q, q[j] = c PROVE j = i
  <2>1. Cardinality(S) = 1
    BY <1>3, <1>6, <1>7
  <2>2. \E x : S = {x}
    BY <1>4, <2>1, FS_Singleton
  <2>3. j \in S
    BY <1>7
  <2> QED  BY <1>5, <2>2, <2>3
<1> QED  BY <1>1, <1>3, <1>6, <1>7

LEMMA DrawnOnce ==
    ASSUME TypeInv, NEW s \in Servers, MatchQueue(s)
    PROVE  \A r \in RunIds : (\A i, j \in DOMAIN batch[r] : batch[r][i] = batch[r][j] => i = j)
              => \A i, j \in DOMAIN batch'[r] : batch'[r][i] = batch'[r][j] => i = j
<1>1. s = Server /\ pipe[s] = Pipeline
  BY OneServer DEF Pipeline
<1>2. PICK new \in SUBSET (Matches \ minted) : \E ids \in SetToSeqs(new) :
         batch' = [batch EXCEPT ![Current.for] = ids]
  BY <1>1 DEF MatchQueue, Current
<1>3. PICK ids \in SetToSeqs(new) : batch' = [batch EXCEPT ![Current.for] = ids]
  BY <1>2
<1>4. IsFiniteSet(new)
  BY FinitePeople, FS_Subset
<1>5. \A i, j \in DOMAIN ids : ids[i] = ids[j] => i = j
  BY <1>4, Orders
<1>6. batch \in [RunIds -> Seq(minted)]
  BY TypesNow
<1>7. \A r \in RunIds : batch'[r] = IF r = Current.for THEN ids ELSE batch[r]
  BY <1>3, <1>6
<1> QED  BY <1>5, <1>7

(* The new matches: their lobbies, and the removes that come first.         *)
LobbiesOf(new) ==
    /\ new \subseteq Matches \ minted /\ minted' = minted \cup new
    /\ \A r \in RunIds : Range(batch'[r]) = IF r = Current.for THEN new ELSE Range(batch[r])
    /\ \A m \in new : \A i, j \in DOMAIN lobby'[m] : lobby'[m][i] = lobby'[m][j] => i = j
    /\ \A m, n \in new : m # n => Range(lobby'[m]) \cap Range(lobby'[n]) = {}
    /\ \A m \in new : \A c \in Range(lobby'[m]) :
          /\ c \in Clients /\ members[Queue][c] > 0
          /\ \E t \in Queued' : /\ t.step = "remove.lremClient" /\ t.c = c /\ t.for = m
    /\ \A m \in new : \E t \in Queued' : t.step = "remove.lremClient" /\ t.for = m
    /\ \A m \in Matches \ new : lobby'[m] = lobby[m]

LEMMA LobbiesCut ==
    ASSUME TypeInv, NEW s \in Servers, MatchQueue(s), \A c \in Clients : members[Queue][c] <= 1
    PROVE  \E new : LobbiesOf(new)
<1>1. /\ Current.for \in RunIds
      /\ \E new \in SUBSET (Matches \ minted), ids \in Seq(Matches),
         f \in Seq(Good), q \in Listings(Queue) :
            /\ Runs(f)
            /\ Range(ids) = new
            /\ \A m \in new : lobby'[m] \in [1..LobbySize -> Clients]
            /\ \A m \in new, j \in 1..LobbySize :
                  RoomTask("remove.lremClient", "match", lobby'[m][j], Queue, m) \in Elements(f)
            /\ \A m \in Matches \ new : lobby'[m] = lobby[m]
            /\ \E at \in [new \X (1..LobbySize) -> DOMAIN q] :
                  /\ \A x, y \in new \X (1..LobbySize) : at[x] = at[y] => x = y
                  /\ \A m \in new, j \in 1..LobbySize : lobby'[m][j] = q[at[<<m, j>>]]
            /\ batch' = [batch EXCEPT ![Current.for] = ids]
            /\ minted' = minted \cup new
  BY QueueCut
<1>2. PICK new \in SUBSET (Matches \ minted), ids \in Seq(Matches),
           f \in Seq(Good), q \in Listings(Queue) :
            /\ Runs(f)
            /\ Range(ids) = new
            /\ \A m \in new : lobby'[m] \in [1..LobbySize -> Clients]
            /\ \A m \in new, j \in 1..LobbySize :
                  RoomTask("remove.lremClient", "match", lobby'[m][j], Queue, m) \in Elements(f)
            /\ \A m \in Matches \ new : lobby'[m] = lobby[m]
            /\ \E at \in [new \X (1..LobbySize) -> DOMAIN q] :
                  /\ \A x, y \in new \X (1..LobbySize) : at[x] = at[y] => x = y
                  /\ \A m \in new, j \in 1..LobbySize : lobby'[m][j] = q[at[<<m, j>>]]
            /\ batch' = [batch EXCEPT ![Current.for] = ids]
            /\ minted' = minted \cup new
  BY <1>1
<1>3. PICK at \in [new \X (1..LobbySize) -> DOMAIN q] :
         /\ \A x, y \in new \X (1..LobbySize) : at[x] = at[y] => x = y
         /\ \A m \in new, j \in 1..LobbySize : lobby'[m][j] = q[at[<<m, j>>]]
  BY <1>2
<1>4. ASSUME NEW m \in new, NEW n \in new, NEW i \in 1..LobbySize, NEW j \in 1..LobbySize,
             lobby'[m][i] = lobby'[n][j]
      PROVE  m = n /\ i = j
  <2>1. <<m, i>> \in new \X (1..LobbySize) /\ <<n, j>> \in new \X (1..LobbySize)
    OBVIOUS
  <2>2. at[<<m, i>>] \in DOMAIN q /\ at[<<n, j>>] \in DOMAIN q /\ q[at[<<m, i>>]] = q[at[<<n, j>>]]
    BY <1>3, <1>4, <2>1
  <2>3. q[at[<<m, i>>]] \in Clients
    BY <2>2, ListedOnce
  <2>4. members[Queue][q[at[<<m, i>>]]] <= 1
    BY <2>3
  <2>5. at[<<m, i>>] = at[<<n, j>>]
    BY <2>2, <2>4, ListedOnce
  <2>6. <<m, i>> = <<n, j>>
    BY <1>3, <2>1, <2>5
  <2> QED  BY <2>6
<1>5. \A m \in new : DOMAIN lobby'[m] = 1..LobbySize
  BY <1>2
<1>6. ASSUME NEW m \in new, NEW c \in Range(lobby'[m])
      PROVE  /\ c \in Clients /\ members[Queue][c] > 0
             /\ \E t \in Queued' : t.step = "remove.lremClient" /\ t.c = c /\ t.for = m
  <2>1. PICK j \in 1..LobbySize : lobby'[m][j] = c
    BY <1>5 DEF Range
  <2>2. at[<<m, j>>] \in DOMAIN q /\ q[at[<<m, j>>]] = c
    BY <1>3, <2>1
  <2>3. c \in Clients /\ members[Queue][c] > 0
    BY <2>2, ListedOnce
  <2>4. RoomTask("remove.lremClient", "match", c, Queue, m) \in Queued'
    BY <1>2, <2>1 DEF Runs
  <2> QED  BY <2>3, <2>4, RoomFields
<1>7. \A m \in new : \E t \in Queued' : t.step = "remove.lremClient" /\ t.for = m
  <2> SUFFICES ASSUME NEW m \in new PROVE \E t \in Queued' : t.step = "remove.lremClient" /\ t.for = m
    OBVIOUS
  <2>1. 1 \in 1..LobbySize
    BY RoomAssumption
  <2>2. RoomTask("remove.lremClient", "match", lobby'[m][1], Queue, m) \in Queued'
    BY <1>2, <2>1 DEF Runs
  <2> QED  BY <2>2, RoomFields
<1>8. \A r \in RunIds : Range(batch'[r]) = IF r = Current.for THEN new ELSE Range(batch[r])
  <2>1. batch \in [RunIds -> Seq(minted)]
    BY TypesNow
  <2> QED  BY <1>1, <1>2, <2>1
<1>9. \A m \in new : \A i, j \in DOMAIN lobby'[m] : lobby'[m][i] = lobby'[m][j] => i = j
  BY <1>4, <1>5
<1>10. \A m, n \in new : m # n => Range(lobby'[m]) \cap Range(lobby'[n]) = {}
  <2> SUFFICES ASSUME NEW m \in new, NEW n \in new, m # n,
                      NEW c \in Range(lobby'[m]), c \in Range(lobby'[n])
               PROVE  FALSE
    OBVIOUS
  <2>1. PICK i \in 1..LobbySize : lobby'[m][i] = c
    BY <1>5 DEF Range
  <2>2. PICK j \in 1..LobbySize : lobby'[n][j] = c
    BY <1>5 DEF Range
  <2> QED  BY <1>4, <2>1, <2>2
<1>11. LobbiesOf(new)
  <2>1. minted' = minted \cup new /\ \A m \in Matches \ new : lobby'[m] = lobby[m]
    BY <1>2
  <2> QED  BY <1>6, <1>7, <1>8, <1>9, <1>10, <2>1 DEF LobbiesOf
<1> QED  BY <1>11

-------------------------------------------------------------------------------
(* The lobbies that are being filled. *)

(* A command with a match in "for" works for one of the run. *)
LEMMA ForRun ==
    ASSUME TypeInv, NEW t \in Queued, t.for \in Matches
    PROVE  t.job = "match" /\ t.step # "mm.lrange" /\ t.for \in minted /\ ~Loose(t.for)
<1>1. t \in Good
  BY AllGood
<1>2. t.job = "match" /\ t.step # "mm.lrange"
  BY <1>1, Kinds, Names, Steps2 DEF Fits, RemoveSteps, PushSteps
<1>3. PICK r \in RunIds : t.for \in Range(batch[r])
  BY <1>2, TypesNow DEF Filling
<1>4. batch[r] \in Seq(minted)
  BY TypesNow
<1> QED  BY <1>2, <1>3, <1>4 DEF Loose, Range

(* What a chain goes on with for a match. *)
LEMMA ForGoesOn ==
    ASSUME TypeInv, NEW f, Proceeds(f), NEW u \in Elements(f), NEW m \in minted, m \in Matches,
           u.for = m
    PROVE  /\ Current.for = m
           /\ GoesOn(u) \/ u.step = "create.hset" \/ Current.step = "create.hset"
           /\ u.step = "create.hset" => /\ Current.step = "remove.lremGroup"
                                        /\ \A v \in Behind : v.for # m
<1>1. u \in Good /\ Current \in Good
  BY Behindhand, Head1
<1>2. CASE GoesOn(u)
  <2>1. u.step # "create.hset"
    BY <1>2 DEF GoesOn, Chain
  <2> QED  BY <1>2, <2>1 DEF GoesOn
<1>3. CASE Turns(u)
  BY <1>3, Names DEF Turns
<1> QED  BY <1>2, <1>3 DEF Proceeds

LEMMA FilledCreates ==
    ASSUME Ground, Calm, Rooms, NEW s \in Servers, ServerStep(s)
    PROVE  /\ \A m \in Matches : AtMostOnce(Creates(m))'
           /\ (\A t, u \in Queued : t.step = "create.hset" /\ u.for = t.for => u.step = "create.hset")'
<1> USE DEF Ground
<1>1. PICK f : Proceeds(f)
  BY ServerProceeds
<1>2. /\ Queued' = Behind \cup Elements(f) /\ Queued = {Current} \cup Behind /\ Queued \subseteq Good
      /\ Queued' \subseteq Good /\ Current \in Good /\ Elements(f) \subseteq Good
      /\ Pipeline # <<>> /\ Current \in Queued
  BY <1>1, Behindhand, Head1
<1>3. /\ \A m \in Matches : AtMostOnce(Creates(m))
      /\ \A t, u \in Queued : t.step = "create.hset" /\ u.for = t.for => u.step = "create.hset"
  BY DEF Rooms, Filled
<1>4. \A t \in Good : t.step = "create.hset" => t.for \in Matches
  BY Kinds, Steps2 DEF Fits, RemoveSteps, PushSteps
<1>5. ASSUME NEW m \in Matches, NEW u \in Elements(f), u \in Creates(m)
      PROVE  /\ Current.step = "remove.lremGroup" /\ Current.for = m
             /\ \A v \in Behind : v.for # m
             /\ f = <<u>>
  <2>1. ~GoesOn(u)
    BY <1>5 DEF GoesOn, Chain, Creates
  <2>2. /\ Current.step = "remove.lremGroup" /\ u.for = Current.for
        /\ \A v \in Behind : v.for # Current.for
    BY <1>1, <1>5, <2>1, Names DEF Proceeds, Turns, Creates
  <2>3. RemoveEnd(s)
    BY <2>2, StepSays
  <2>4. Runs(Removed(Current)) /\ (Removed(Current) = <<>> \/ \E v : Removed(Current) = <<v>>)
    BY <2>3, RemoveEndDoes
  <2>5. Runs(f)
    BY <1>1, <1>5, MustRun DEF Creates
  <2>6. f = Removed(Current)
    BY <2>4, <2>5, SameRun
  <2>7. PICK v : f = <<v>>
    BY <2>4, <2>6, Few
  <2>8. u = v
    BY <2>7, Few
  <2> QED  BY <1>5, <2>2, <2>7, <2>8 DEF Creates
<1>6. ASSUME NEW m \in Matches PROVE AtMostOnce(Creates(m))'
  <2>1. CASE \A u \in Elements(f) : u \notin Creates(m)
    BY <1>1, <1>3, <2>1, OnceServer
  <2>2. CASE \E u \in Elements(f) : u \in Creates(m)
    <3>1. PICK u \in Elements(f) : u \in Creates(m)
      BY <2>2
    <3>2. f = <<u>> /\ Runs(f) /\ Behind \cap Creates(m) = {}
      BY <1>1, <1>5, <3>1, MustRun DEF Creates
    <3>3. Pipeline \in Seq(Good)
      BY AllGood
    <3> QED  BY <1>3, <3>2, <3>3, OnceAgain, OneMore DEF Runs
  <2> QED  BY <2>1, <2>2
<1>7. ASSUME NEW t \in Queued', NEW u \in Queued', t.step = "create.hset", u.for = t.for
      PROVE  u.step = "create.hset"
  <2>1. t.for \in Matches
    BY <1>2, <1>4, <1>7
  <2>2. CASE t \in Elements(f)
    <3>1. t \in Creates(t.for)
      BY <1>2, <1>7 DEF Creates
    <3>2. f = <<t>> /\ \A v \in Behind : v.for # t.for
      BY <1>5, <2>1, <2>2, <3>1
    <3>3. Elements(f) = {t}
      BY <3>2, Few
    <3> QED  BY <1>2, <1>7, <3>2, <3>3
  <2>3. CASE t \in Behind
    <3>1. t.for \in minted
      BY <1>2, <2>1, <2>3, ForRun
    <3>2. CASE u \in Elements(f)
      <4>1. Current.for = t.for
        BY <1>1, <1>7, <2>1, <3>1, <3>2, ForGoesOn
      <4>2. Current.step = "create.hset"
        BY <1>2, <1>3, <1>7, <2>3, <4>1
      <4>3. Current \in Creates(t.for) /\ t \in Creates(t.for)
        BY <1>2, <1>7, <2>3, <4>1, <4>2 DEF Creates
      <4>4. t \notin Creates(t.for)
        BY <1>2, <1>3, <2>1, <2>3, <4>3, OnlyHead
      <4> QED  BY <4>3, <4>4
    <3> QED  BY <1>2, <1>3, <1>7, <2>3, <3>2
  <2> QED  BY <1>2, <2>2, <2>3
<1> QED  BY <1>6, <1>7

LEMMA FilledPushes ==
    ASSUME Ground, Calm, Rooms, NEW s \in Servers, ServerStep(s), NEW c \in Clients, NEW m \in Matches
    PROVE  AtMostOnce(EarlyPushes(c, m))'
<1> USE DEF Ground
<1>1. PICK f : Proceeds(f)
  BY ServerProceeds
<1>2. /\ Queued' = Behind \cup Elements(f) /\ Queued = {Current} \cup Behind /\ Queued \subseteq Good
      /\ Queued' \subseteq Good /\ Current \in Good /\ Elements(f) \subseteq Good
      /\ Pipeline # <<>> /\ Current \in Queued /\ Pipeline \in Seq(Good)
  BY <1>1, Behindhand, Head1
<1>3. AtMostOnce(EarlyPushes(c, m))
  BY DEF Rooms, Filled
<1>4. CASE Current.step = "create.hset"
  <2>1. CreateEntry(s)
    BY <1>4, StepSays
  <2>2. PICK h \in Seq(Good) :
           /\ Runs(h)
           /\ Elements(h) = {RoomTask("push.lrangeGroup", "match", d, Current.g, Current.g) :
                                d \in Range(lobby[Current.g])}
           /\ DOMAIN h = DOMAIN lobby[Current.g]
           /\ \A j \in DOMAIN h : h[j].c = lobby[Current.g][j]
    BY <2>1, CreateDoes
  <2>3. Current.g = Current.for /\ Current.g \in Matches
    BY <2>1, CreateDoes
  <2>4. \A u \in Elements(h) : u.for = Current.g
    BY <2>2, RoomFields
  <2>5. CASE Current.g # m
    <3>1. Elements(h) \cap EarlyPushes(c, m) = {}
      BY <2>4, <2>5 DEF EarlyPushes
    <3>2. \A i, j \in DOMAIN h : h[i] \in EarlyPushes(c, m) /\ h[j] \in EarlyPushes(c, m) => i = j
      BY <3>1 DEF Elements
    <3> QED  BY <1>2, <1>3, <2>2, <3>1, <3>2, OnceAgain DEF Runs
  <2>6. CASE Current.g = m
    <3>1. Behind \cap EarlyPushes(c, m) = {}
      <4>1. \A u \in Behind : u.for = m => u.step = "create.hset"
        <5>1. \A t, u \in Queued : t.step = "create.hset" /\ u.for = t.for => u.step = "create.hset"
          BY DEF Rooms, Filled
        <5> QED  BY <1>2, <1>4, <2>3, <2>6, <5>1
      <4> QED  BY <4>1 DEF EarlyPushes, EarlySteps
    <3>2. ~Loose(m)
      BY <1>2, <2>3, <2>6, ForRun
    <3>3. \A i, j \in DOMAIN lobby[m] : lobby[m][i] = lobby[m][j] => i = j
      BY <3>2 DEF Rooms, Filled, Uninvited
    <3>4. \A i, j \in DOMAIN h : h[i] \in EarlyPushes(c, m) /\ h[j] \in EarlyPushes(c, m) => i = j
      BY <2>2, <2>6, <3>3 DEF EarlyPushes
    <3> QED  BY <1>2, <1>3, <2>2, <3>1, <3>4, OnceAgain DEF Runs
  <2> QED  BY <2>5, <2>6
<1>5. CASE Current.step # "create.hset"
  <2>1. ASSUME NEW u \in Elements(f), u \in EarlyPushes(c, m)
        PROVE  /\ Current \in EarlyPushes(c, m) /\ Chain(Current.step, u.step)
               /\ Current.step = "push.lrangeGroup" => u.step = "push.lrangeClient"
               /\ Current.step = "push.lrangeClient" => u.step = "push.lpushClient"
               /\ Current.step \in {"push.lrangeGroup", "push.lrangeClient"}
    <3>1. ~Turns(u)
      BY <1>5, <2>1, Names DEF Turns, EarlyPushes, EarlySteps
    <3>2. GoesOn(u)
      BY <1>1, <3>1 DEF Proceeds
    <3>3. Current.step # "search.lrange"
      BY <1>2, <2>1, <3>2, Kinds, Names DEF GoesOn, EarlyPushes, Fits
    <3> QED  BY <1>2, <2>1, <3>2, <3>3 DEF GoesOn, Chain, EarlyPushes, EarlySteps
  <2>2. \A u \in Elements(f) : u \in EarlyPushes(c, m) =>
           Current \in EarlyPushes(c, m) /\ Chain(Current.step, u.step)
    BY <2>1
  <2>3. \A u, v \in Elements(f) : u \in EarlyPushes(c, m) /\ v \in EarlyPushes(c, m) => u.step = v.step
    BY <2>1
  <2> QED  BY <1>1, <1>3, <2>2, <2>3, OnceServer
<1> QED  BY <1>4, <1>5

LEMMA FilledRegistered ==
    ASSUME Ground, Calm, Rooms, NEW s \in Servers, ServerStep(s), NEW m \in Matches, ~Loose(m)'
    PROVE  (m \in registry \/ \E t \in Queued : /\ t.for = m
                                                /\ t.step \in RemoveSteps \cup {"create.hset"})'
<1> USE DEF Ground
<1>1. PICK f : Proceeds(f)
  BY ServerProceeds
<1>2. /\ Queued' = Behind \cup Elements(f) /\ Queued = {Current} \cup Behind /\ Queued \subseteq Good
      /\ Current \in Good /\ Current \in Queued
  BY <1>1, Behindhand, Head1
<1> DEFINE Coming == \E t \in Queued' : t.for = m /\ t.step \in RemoveSteps \cup {"create.hset"}
<1> SUFFICES m \in registry' \/ Coming
  OBVIOUS
<1>3. CASE Loose(m)
  <2>1. m \notin minted
    BY <1>3, LooseServer
  <2>2. MatchQueue(s)
    <3>1. TypeInv'
      BY TypeServer
    <3>2. PICK r \in RunIds : m \in Range(batch'[r])
      BY DEF Loose
    <3>3. batch'[r] \in Seq(minted')
      BY <3>1 DEF TypeInv, TypeOK
    <3>4. m \in minted'
      BY <3>2, <3>3 DEF Range
    <3> QED  BY <2>1, <3>4, ServerMints
  <2>3. \A c \in Clients : members[Queue][c] <= 1
    BY DEF Rooms, Placed, Alone
  <2>4. PICK new : LobbiesOf(new)
    BY <2>2, <2>3, LobbiesCut
  <2>5. m \in new
    <3>1. PICK r \in RunIds : m \in Range(batch'[r])
      BY DEF Loose
    <3>2. Range(batch'[r]) = IF r = Current.for THEN new ELSE Range(batch[r])
      BY <2>4 DEF LobbiesOf
    <3> QED  BY <1>3, <3>1, <3>2 DEF Loose
  <2> QED  BY <2>4, <2>5 DEF LobbiesOf, RemoveSteps
<1>4. CASE ~Loose(m) /\ m \in registry
  <2>1. Current.step = "erase.hdel" => Current.g # m
    BY <1>2, <1>4 DEF Births, EraseSteps
  <2> QED  BY <1>4, <2>1, ServerRegisters
<1>5. CASE ~Loose(m) /\ \E t \in Queued : t.for = m /\ t.step \in RemoveSteps \cup {"create.hset"}
  <2>1. PICK t \in Queued : t.for = m /\ t.step \in RemoveSteps \cup {"create.hset"}
    BY <1>5
  <2>2. CASE t \in Behind
    BY <1>2, <2>1, <2>2
  <2>3. CASE t = Current /\ t.step = "remove.lremClient"
    <3>1. Runs(<<At(Current, "remove.lremGroup")>>)
      BY <2>3, StepSays, RemoveBeginDoes
    <3>2. At(Current, "remove.lremGroup") \in Queued'
      BY <3>1, Few DEF Runs
    <3>3. At(Current, "remove.lremGroup").for = m /\ At(Current, "remove.lremGroup").step = "remove.lremGroup"
      BY <1>2, <2>1, <2>3, AtFields
    <3> QED  BY <3>2, <3>3 DEF RemoveSteps
  <2>4. CASE t = Current /\ t.step = "remove.lremGroup"
    <3>1. Current.job = "match"
      BY <1>2, <2>1, <2>4, ForRun
    <3>2. RemoveEnd(s)
      BY <2>4, StepSays
    <3> QED  BY <2>1, <2>4, <3>1, <3>2, RemovedGoesOn
  <2>5. CASE t = Current /\ t.step = "create.hset"
    <3>1. registry' = registry \cup {Current.g} /\ Current.for = Current.g
      BY <2>5, StepSays, CreateDoes
    <3> QED  BY <2>1, <2>5, <3>1
  <2> QED  BY <1>2, <2>1, <2>2, <2>3, <2>4, <2>5 DEF RemoveSteps
<1> QED  BY <1>3, <1>4, <1>5 DEF Rooms, Filled

(* Before the cut all lobbies of the run are invited: those that are not    *)
(* afterwards are the new ones.                                             *)
LEMMA CutUninvited ==
    ASSUME Ground, Calm, Rooms, NEW s \in Servers, ServerStep(s), MatchQueue(s)
    PROVE  \E new : /\ LobbiesOf(new)
                    /\ \A m \in Matches : ~Uninvited(m) /\ (Uninvited(m)' => m \in new)
<1> USE DEF Ground
<1>1. PICK r : RunIds = {r}
  BY DEF Calm
<1>2. Orderly /\ \A c \in Clients : members[Queue][c] <= 1
  BY DEF Rooms, Placed, Alone
<1>3. PICK f : Proceeds(f)
  BY ServerProceeds
<1>4. Pipeline # <<>> /\ Current.step = "mm.lrange"
  BY <1>3, EachStepSays, Behindhand
<1>5. \A m \in Matches : ~Uninvited(m)
  BY <1>1, <1>2, <1>4, NoneUninvited DEF Orderly
<1>6. PICK new : LobbiesOf(new)
  BY <1>2, LobbiesCut
<1>7. ASSUME NEW m \in Matches, Uninvited(m)' PROVE m \in new
  <2>1. ~(m \in minted)
    BY <1>5, <1>7, UninvitedServer
  <2>2. Births' /\ TypeInv'
    BY BirthsQueueCut, TypeServer
  <2>3. m \in minted'
    <3>1. CASE ~Loose(m)'
      <4>1. PICK p \in RunIds : m \in Range(batch'[p])
        BY <3>1 DEF Loose
      <4>2. batch'[p] \in Seq(minted')
        BY <2>2 DEF TypeInv, TypeOK
      <4> QED  BY <4>1, <4>2 DEF Range
    <3>2. CASE \E t \in Queued' : t.job = "found" /\ t.g = m
      <4>1. PICK t \in Queued' : t.job = "found" /\ t.g = m
        BY <3>2
      <4>2. t \in Good
        BY <1>3, <4>1, Behindhand
      <4>3. t.step = "notify.lrange"
        BY <4>1, <4>2, Kinds DEF Fits
      <4> QED  BY <2>2, <4>1, <4>3 DEF Births, Begun
    <3> QED  BY <1>7, <3>1, <3>2 DEF Uninvited
  <2> QED  BY <1>6, <2>1, <2>3 DEF LobbiesOf
<1> QED  BY <1>5, <1>6, <1>7

LEMMA FilledServer ==
    ASSUME Ground, Calm, Rooms, NEW s \in Servers, ServerStep(s)
    PROVE  Filled'
<1> USE DEF Ground
<1>1. Filled /\ Orderly /\ \A c \in Clients : members[Queue][c] <= 1
  BY DEF Rooms, Placed, Alone
<1>2. PICK f : Proceeds(f)
  BY ServerProceeds
<1>3. \A p \in RunIds : \A i, j \in DOMAIN batch'[p] : batch'[p][i] = batch'[p][j] => i = j
  <2>1. \A p \in RunIds : \A i, j \in DOMAIN batch[p] : batch[p][i] = batch[p][j] => i = j
    BY <1>1 DEF Filled
  <2>2. CASE MatchQueue(s)
    BY <2>1, <2>2, DrawnOnce
  <2>3. CASE ~MatchQueue(s)
    <3>1. batch' = batch \/ \E p : batch' = [batch EXCEPT ![p] = <<>>]
      BY <2>3 DEF ServerStep, RequestStep, IntervalStep, SearchCheck, Get, GetGroupInstance, MemberCheck,
         ReadConfirmations, AddConfirmation, ExpireConfirmations, CloseCheck, LeaveAllGroups,
         CreateEntry, CheckSize, EraseConfirmations, Push, RemoveBegin, RemoveEnd, Erase, NotifyGroup,
         runVars
    <3>2. batch \in [RunIds -> Seq(minted)]
      BY TypesNow
    <3>3. \A p \in RunIds : batch'[p] = batch[p] \/ batch'[p] = <<>>
      BY <3>1, <3>2
    <3> QED  BY <2>1, <3>3
  <2> QED  BY <2>2, <2>3
<1>4. ASSUME NEW m \in Matches, NEW n \in Matches, Uninvited(m)', Uninvited(n)'
      PROVE  /\ \A i, j \in DOMAIN lobby'[m] : lobby'[m][i] = lobby'[m][j] => i = j
             /\ m # n => Range(lobby'[m]) \cap Range(lobby'[n]) = {}
  <2>1. CASE MatchQueue(s)
    <3>1. PICK new : LobbiesOf(new) /\ \A k \in Matches : Uninvited(k)' => k \in new
      BY <2>1, CutUninvited
    <3> QED  BY <1>4, <3>1 DEF LobbiesOf
  <2>2. CASE ~MatchQueue(s)
    <3>1. Uninvited(m) /\ Uninvited(n)
      BY <1>4, <2>2, UninvitedServer
    <3>2. lobby' = lobby
      BY <2>2, ServerMints
    <3> QED  BY <1>1, <3>1, <3>2 DEF Filled
  <2> QED  BY <2>1, <2>2
<1>5. \A m \in Matches : AtMostOnce(Creates(m))'
  BY FilledCreates
<1>6. (\A t, u \in Queued : t.step = "create.hset" /\ u.for = t.for => u.step = "create.hset")'
  BY FilledCreates
<1>7. \A m \in Matches : ~Loose(m)' =>
         (m \in registry \/ \E t \in Queued : /\ t.for = m
                                               /\ t.step \in RemoveSteps \cup {"create.hset"})'
  BY FilledRegistered
<1>8. \A c \in Clients, m \in Matches : AtMostOnce(EarlyPushes(c, m))'
  BY FilledPushes
<1> QED  BY <1>3, <1>4, <1>5, <1>6, <1>7, <1>8 DEF Filled

(* Clients and the interval add nothing that works for a match. *)
LEMMA FilledAdds ==
    ASSUME Ground, Filled, UNCHANGED <<batch, lobby, registry>>, NEW f, Adds(f),
           \A t \in Elements(f) : t.for \notin Matches /\ t.job # "found"
    PROVE  Filled'
<1> USE DEF Ground
<1>1. Queued' = Queued \cup Elements(f) /\ f \in Seq(Good) /\ Elements(f) \subseteq Good
  BY DEF Adds, Elements
<1>2. \A m \in Matches : Loose(m)' = Loose(m)
  BY DEF Loose
<1>3. \A m \in Matches : Uninvited(m)' => Uninvited(m)
  BY <1>1, <1>2 DEF Uninvited
<1>4. ASSUME NEW m \in Matches PROVE AtMostOnce(Creates(m))'
  <2>1. \A t \in Elements(f) : t \notin Creates(m)
    BY DEF Creates
  <2>2. \A i \in DOMAIN f : f[i] \notin Creates(m)
    BY <2>1 DEF Elements
  <2>3. AtMostOnce(Creates(m))
    BY DEF Filled
  <2> QED  BY <2>1, <2>2, <2>3, OnceAdds
<1>5. ASSUME NEW c \in Clients, NEW m \in Matches PROVE AtMostOnce(EarlyPushes(c, m))'
  <2>1. \A t \in Elements(f) : t \notin EarlyPushes(c, m)
    BY DEF EarlyPushes
  <2>2. \A i \in DOMAIN f : f[i] \notin EarlyPushes(c, m)
    BY <2>1 DEF Elements
  <2>3. AtMostOnce(EarlyPushes(c, m))
    BY DEF Filled
  <2> QED  BY <2>1, <2>2, <2>3, OnceAdds
<1>6. \A t, u \in Queued' : t.step = "create.hset" /\ u.for = t.for => u.step = "create.hset"
  <2>1. \A t \in Queued' : t.step = "create.hset" => t.for \in Matches
    BY <1>1, AllGood, Kinds, Steps2 DEF Fits, RemoveSteps, PushSteps
  <2>2. \A t, u \in Queued : t.step = "create.hset" /\ u.for = t.for => u.step = "create.hset"
    BY DEF Filled
  <2> QED  BY <1>1, <2>1, <2>2
<1>7. \A m \in Matches : ~Loose(m)' =>
         (m \in registry \/ \E t \in Queued : /\ t.for = m
                                               /\ t.step \in RemoveSteps \cup {"create.hset"})'
  <2>1. \A m \in Matches : ~Loose(m) =>
           m \in registry \/ \E t \in Queued : t.for = m /\ t.step \in RemoveSteps \cup {"create.hset"}
    BY DEF Filled
  <2> QED  BY <1>1, <1>2, <2>1
<1> QED  BY <1>3, <1>4, <1>5, <1>6, <1>7 DEF Filled

LEMMA FilledClient ==
    ASSUME Ground, Calm, Rooms, NEW d \in Clients, ClientStep(d)
    PROVE  Filled'
<1> USE DEF Ground, Sends
<1>1. MaxPending = 1 /\ "leave" \notin Ops /\ Filled
  BY DEF Calm, Rooms
<1>2. PICK u : Sends(d, u)
  BY <1>1, ClientSends
<1>3. Elements(<<u>>) = {u}
  BY Few
<1>4. UNCHANGED <<batch, lobby, registry>>
  BY <1>1, ClientSends DEF storeVars, runVars
<1> QED  BY <1>1, <1>2, <1>3, <1>4, Names, FilledAdds

LEMMA FilledUntimed ==
    ASSUME Ground, Calm, Rooms, UntimedStep
    PROVE  Filled'
<1> USE DEF Ground
<1>1. Filled
  BY DEF Rooms
<1>2. PICK f \in Seq(Good) :
         /\ Adds(f)
         /\ \A t \in Elements(f) :
               \/ t.step = "mm.lrange" /\ t.job = "match" /\ t.g = Queue /\ t.for \in RunIds
               \/ t.step = "mmc.llen" /\ t.job = "start" /\ t.g \in confirming
               \/ /\ t.step \in {"mmc.del", "notify.lrange"} /\ t.job = "disband"
                  /\ t.g \in confirming
               \/ t.step = "erase.lrangeGroup" /\ t.job = "disband" /\ t.g \in timers
  BY UntimedAdds
<1>3. \A t \in Elements(f) : t.for \notin Matches /\ t.job # "found"
  <2>1. \A t \in Elements(f) : t \in Good
    BY <1>2 DEF Elements
  <2> QED  BY <1>2, <2>1, Kinds, Names DEF Fits
<1>4. UNCHANGED <<batch, lobby, registry>>
  BY UntimedAdds DEF storeVars
<1> QED  BY <1>1, <1>2, <1>3, <1>4, FilledAdds

-------------------------------------------------------------------------------
(* What is decided stays decided, and what is queued because of it. *)
LEMMA DecidedStays ==
    ASSUME TypeInv, Deciding, NEW s \in Servers, ServerStep(s), NEW m \in Matches
    PROVE  /\ Dead(m) <=> Dead(m)'
           /\ verdicts[m] = <<"start">> => verdicts'[m] = <<"start">>
           /\ Dead(m) => Loose(m)
           /\ \A f : Proceeds(f) /\ Absent(Farewells(m)) => Absent(Farewells(m))'
<1>1. \/ verdicts'[m] = verdicts[m]
      \/ verdicts[m] = <<>> /\ verdicts'[m] = <<"start">>
  BY ServerDecides
<1>2. <<"start">> # <<"disband">> /\ <<"start">> # <<>> /\ <<"disband">> # <<>>
  <2>1. "start" # "disband"
    OBVIOUS
  <2> QED  BY <2>1
<1>3. ASSUME NEW f, Proceeds(f), Absent(Farewells(m)) PROVE Absent(Farewells(m))'
  <2>1. Queued' = Behind \cup Elements(f) /\ Behind \subseteq Queued
    BY <1>3, Behindhand
  <2>2. \A u \in Elements(f) : u \notin Farewells(m)
    BY <1>3, NoFarewell
  <2>3. Farewells(m)' = Farewells(m)
    BY DEF Farewells
  <2> QED  BY <1>3, <2>1, <2>2, <2>3 DEF Absent
<1> QED  BY <1>1, <1>2, <1>3 DEF Dead, Deciding

LEMMA DisbandingServer ==
    ASSUME Ground, Calm, Rooms, NEW s \in Servers, ServerStep(s)
    PROVE  Disbanding'
<1> USE DEF Ground
<1>1. PICK f : Proceeds(f)
  BY ServerProceeds
<1>2. /\ Queued' = Behind \cup Elements(f) /\ Queued = {Current} \cup Behind /\ Queued \subseteq Good
      /\ Queued' \subseteq Good /\ Current \in Good /\ Elements(f) \subseteq Good
      /\ Pipeline # <<>> /\ Current \in Queued
  BY <1>1, Behindhand, Head1
<1>3. Disbanding /\ Orderly /\ Filled
  BY DEF Rooms
<1>4. \A m \in Matches : Absent(Farewells(m)) => Absent(Farewells(m))'
  BY <1>1, DecidedStays
<1>5. ASSUME NEW t \in Queued', t.job = "start", t.step # "mmc.llen"
      PROVE  verdicts'[t.g] = <<"start">>
  <2>1. t.g \in Matches
    BY <1>2, <1>5, Kinds DEF Fits
  <2>2. CASE t \in Behind
    BY <1>2, <1>3, <1>5, <2>1, <2>2, DecidedStays DEF Disbanding
  <2>3. CASE t \in Elements(f)
    <3>1. GoesOn(t)
      BY <1>1, <1>5, <2>3 DEF Proceeds, Turns
    <3>2. Current.step = "mmc.llen" /\ Current.g = t.g
      BY <1>2, <1>5, <3>1, Kinds DEF GoesOn, Chain, Fits
    <3>3. CheckSize(s)
      BY <3>2, EachStepSays
    <3>4. Runs(f)
      <4>1. t.step # "erase.lremClient"
        BY <1>2, <1>5, <2>3, Kinds DEF EraseSteps
      <4> QED  BY <1>1, <2>3, <4>1, MustRun
    <3>5. ListSize(mmc[Current.g]) >= LobbySize
      <4>1. SUFFICES ASSUME ~(ListSize(mmc[Current.g]) >= LobbySize) PROVE FALSE
        OBVIOUS
      <4>2. Runs(<<>>)
        BY <3>3, <4>1, CheckSizeDoes
      <4> QED  BY <2>3, <3>4, <4>2, SameRun, Few
    <3>6. verdicts' = [verdicts EXCEPT ![t.g] = Append(@, "start")]
      BY <3>2, <3>3, <3>5, CheckSizeDoes
    <3>7. verdicts[t.g] \in Seq({"start", "disband"}) /\ verdicts'[t.g] = Append(verdicts[t.g], "start")
      BY <2>1, <3>6, TypesNow
    <3>8. verdicts'[t.g] # verdicts[t.g]
      <4>1. Len(verdicts'[t.g]) = Len(verdicts[t.g]) + 1 /\ Len(verdicts[t.g]) \in Nat
        BY <3>7
      <4> QED  BY <4>1
    <3> QED  BY <2>1, <3>8, ServerDecides
  <2> QED  BY <1>2, <2>2, <2>3
<1>6. ASSUME NEW t \in Queued', t.job = "disband" \/ t.step \in EraseSteps
      PROVE  Dead(t.g)'
  <2>1. t.g \in Matches
    BY <1>2, <1>6, Kinds DEF Fits
  <2>2. SUFFICES Dead(t.g)
    BY <2>1, DecidedStays
  <2>3. CASE t \in Behind
    BY <1>2, <1>3, <1>6, <2>3 DEF Disbanding
  <2>4. CASE t \in Elements(f) /\ GoesOn(t)
    <3>1. Current.g = t.g /\ (Current.job = "disband" \/ Current.step \in EraseSteps)
      BY <1>6, <2>4 DEF GoesOn, Chain, EraseSteps
    <3> QED  BY <1>2, <1>3, <3>1 DEF Disbanding
  <2>5. CASE t \in Elements(f) /\ Turns(t)
    <3>1. /\ Current.step = "get.hget" /\ Current.job \in {"confirm", "exit", "close"}
          /\ Current.g = t.g /\ t.step = "erase.lrangeGroup"
      BY <1>6, <2>5 DEF Turns, EraseSteps
    <3>2. Get(s)
      BY <3>1, EachStepSays
    <3>3. Runs(f)
      BY <1>1, <2>5, <3>1, MustRun
    <3>4. t.g \notin registry
      <4>1. SUFFICES ASSUME t.g \in registry PROVE FALSE
        OBVIOUS
      <4>2. Runs(<<At(Current, "remove.lremClient")>>) \/ Runs(<<At(Current, "member.lrange")>>)
        BY <3>1, <3>2, <4>1, GetDoes
      <4>3. t = At(Current, "remove.lremClient") \/ t = At(Current, "member.lrange")
        BY <2>5, <3>3, <4>2, SameRun, Few
      <4> QED  BY <1>2, <3>1, <4>3, AtFields
    <3>5. t.g \in minted /\ Loose(t.g)
      BY <1>2, <2>1, <3>1, <3>4 DEF Births, Begun
    <3> QED  BY <1>3, <3>4, <3>5 DEF Disbanding
  <2> QED  BY <1>1, <1>2, <2>3, <2>4, <2>5 DEF Proceeds
<1>7. \A m \in timers' : Dead(m)'
  <2>1. timers' = timers /\ timers \subseteq Matches
    BY ServerMints, TypesNow
  <2> QED  BY <1>3, <2>1, DecidedStays DEF Disbanding
<1>8. ASSUME NEW m \in Matches, Dead(m)', ~Absent(Invitations(m))'
      PROVE  ~Absent(Farewells(m))'
  <2>1. Dead(m) /\ Loose(m)
    BY <1>8, DecidedStays
  <2>2. PICK t \in Queued' : t \in Invitations(m)
    BY <1>8 DEF Absent, Invitations
  <2>3. t \in Behind
    <3>1. CASE t \in Elements(f)
      BY <1>1, <2>1, <2>2, <3>1, InvitedByRun DEF Invitations
    <3> QED  BY <1>2, <3>1
  <2>4. ~Absent(Invitations(m))
    BY <1>2, <2>2, <2>3 DEF Absent
  <2>5. PICK u \in Queued : u \in Farewells(m)
    BY <1>3, <2>1, <2>4 DEF Disbanding, Absent
  <2>6. u # Current
    <3>1. SUFFICES ASSUME u = Current PROVE FALSE
      OBVIOUS
    <3>2. Current \in Decisions(m)
      BY <2>5, <3>1 DEF Farewells, Decisions, EraseSteps
    <3>3. Absent(Invitations(m))
      BY <1>2, <1>3, <3>2, Foremost DEF Orderly
    <3> QED  BY <2>4, <3>3
  <2>7. u \in Queued' /\ u \in Farewells(m)
    BY <1>2, <2>5, <2>6
  <2> QED  BY <2>7 DEF Absent, Farewells
<1>9. ASSUME NEW t \in Queued', t.step \in Erasures
      PROVE  Absent(Farewells(t.g))'
  <2>1. t.g \in Matches /\ t.step \in EraseSteps
    BY <1>2, <1>9, Kinds DEF Fits, Erasures, EraseSteps
  <2>2. SUFFICES Absent(Farewells(t.g))
    BY <1>4, <2>1
  <2>3. CASE t \in Behind
    BY <1>2, <1>3, <1>9, <2>3 DEF Disbanding
  <2>4. CASE t \in Elements(f)
    <3>1. GoesOn(t)
      BY <1>1, <1>9, <2>4 DEF Proceeds, Turns, Erasures
    <3>2. Current \in Erases(t.g)
      BY <1>2, <1>9, <3>1 DEF GoesOn, Chain, Erases, EraseSteps, Erasures
    <3> QED  BY <1>2, <1>3, <2>1, <3>2, Foremost DEF Orderly
  <2> QED  BY <1>2, <2>3, <2>4
<1>10. ASSUME NEW m \in minted', Loose(m)', m \notin registry'
       PROVE  Dead(m)' /\ Absent(Farewells(m))'
  <2>1. m \in Matches
    <3>1. TypeInv'
      BY TypeServer
    <3> QED  BY <3>1 DEF TypeInv, TypeOK
  <2>2. SUFFICES Dead(m) /\ Absent(Farewells(m))
    BY <1>4, <2>1, DecidedStays
  <2>3. CASE m \notin minted
    <3>1. MatchQueue(s)
      BY <1>10, <2>3, ServerMints
    <3>2. \A c \in Clients : members[Queue][c] <= 1
      BY DEF Rooms, Placed, Alone
    <3>3. PICK new : LobbiesOf(new)
      BY <3>1, <3>2, LobbiesCut
    <3>4. Current.for \in RunIds
      BY <3>1, QueueCut
    <3>5. m \in Range(batch'[Current.for])
      BY <1>10, <2>3, <3>3, <3>4 DEF LobbiesOf
    <3> QED  BY <1>10, <3>4, <3>5 DEF Loose
  <2>4. CASE m \in minted /\ Loose(m) /\ m \notin registry
    BY <1>3, <2>4 DEF Disbanding
  <2>5. CASE m \in minted /\ Loose(m) /\ m \in registry
    <3>1. Current.step = "erase.hdel" /\ Current.g = m
      BY <1>10, <2>5, ServerRegisters
    <3> QED  BY <1>2, <1>3, <3>1 DEF Disbanding, EraseSteps, Erasures
  <2>6. CASE m \in minted /\ ~Loose(m)
    <3>1. \A u \in Behind : u.for # m
      BY <1>10, <2>1, <2>6, StaysFilling
    <3>2. PICK h : /\ Runs(h)
                   /\ RoomTask("notify.lrange", "found", None, m, None) \in Elements(h)
      BY <1>10, <2>1, <2>6, StaysFilling
    <3>3. Current.step \in PushSteps
      <4> DEFINE u == RoomTask("notify.lrange", "found", None, m, None)
      <4>1. u.job = "found" /\ u.step = "notify.lrange" /\ u \in Elements(h)
        BY <3>2, RoomFields
      <4> HIDE DEF u
      <4>2. CASE Runs(f)
        <5>1. u \in Elements(f)
          BY <3>2, <4>1, <4>2, SameRun
        <5> QED  BY <1>1, <4>1, <5>1, InvitedByRun
      <4>3. CASE ~Runs(f)
        <5>1. PICK v : f = <<v>> /\ Stays(v) /\ v.step = "erase.lremClient"
          BY <1>1, <4>3 DEF Proceeds
        <5>2. Len(Pipeline') = Len(Pipeline) /\ Pipeline'[1] = v
          BY <5>1 DEF Stays
        <5>3. Current.step = "erase.lremClient" \/ Current.step = "erase.lrangeGroup"
          BY <1>1, <5>1, Few DEF Proceeds, GoesOn, Turns, Chain
        <5>4. Erase(s)
          BY <5>3, StepSays DEF EraseSteps
        <5>5. batch' = batch
          BY <5>4, EraseDoes DEF runVars
        <5> QED  BY <1>10, <2>6, <5>5 DEF Loose
      <4> QED  BY <4>2, <4>3
    <3>4. m \in registry
      <4>1. \A t \in Queued : ~(t.for = m /\ t.step \in RemoveSteps \cup {"create.hset"})
        BY <1>2, <3>1, <3>3 DEF PushSteps, RemoveSteps
      <4> QED  BY <1>3, <2>1, <2>6, <4>1 DEF Filled
    <3> QED  BY <1>10, <3>3, <3>4, ServerRegisters DEF PushSteps
  <2> QED  BY <2>3, <2>4, <2>5, <2>6
<1>11. ASSUME NEW c \in Clients, view'[c].at = "playing"
       PROVE  verdicts'[view'[c].m] = <<"start">>
  <2>1. CASE view'[c] = view[c]
    <3>1. view[c].m \in Matches
      BY <1>11, <2>1, ViewSet DEF InMatch
    <3> QED  BY <1>3, <1>11, <2>1, <3>1, DecidedStays DEF Disbanding
  <2>2. CASE view'[c] # view[c]
    <3>1. /\ view'[c].m = Current.g
          /\ Current.step = "notify.lrange" /\ Current.job \in {"found", "start"}
      BY <1>11, <2>2, Tellings
    <3>2. NotifyGroup(s)
      BY <3>1, StepSays
    <3>3. Current.job = "start"
      <4>1. SUFFICES ASSUME Current.job = "found" PROVE FALSE
        BY <3>1
      <4>2. view' = Told("found", Current.g, MembersOf(Current.g) \cap online)
        BY <3>2, <4>1, NotifyDoes
      <4> QED  BY <1>11, <2>2, <4>2, ToldOne
    <3>4. Current.g \in Matches
      BY <3>2, <3>3, NotifyDoes
    <3> QED  BY <1>2, <1>3, <3>1, <3>3, <3>4, DecidedStays DEF Disbanding
  <2> QED  BY <2>1, <2>2
<1> QED  BY <1>5, <1>6, <1>7, <1>8, <1>9, <1>10, <1>11 DEF Disbanding

LEMMA DisbandingClient ==
    ASSUME Ground, Calm, Rooms, NEW d \in Clients, ClientStep(d)
    PROVE  Disbanding'
<1> USE DEF Ground, Sends
<1>1. MaxPending = 1 /\ "leave" \notin Ops /\ Disbanding
  BY DEF Calm, Rooms
<1>2. PICK u : Sends(d, u)
  BY <1>1, ClientSends
<1>3. Queued' = Queued \cup {u}
  BY <1>2, Few DEF Adds
<1>4. /\ UNCHANGED <<verdicts, timers, minted, batch, registry>>
      /\ \A c \in Clients \ {d} : view'[c] = view[c]
  BY <1>1, ClientSends DEF storeVars, runVars, roundVars
<1>5. /\ u.job \notin {"start", "disband", "found"} /\ u.step \notin EraseSteps
      /\ u.step \notin Erasures
  BY <1>2 DEF EraseSteps, Erasures
<1>6. \A m : /\ Dead(m)' = Dead(m) /\ Loose(m)' = Loose(m)
             /\ Absent(Farewells(m))' = Absent(Farewells(m))
             /\ Absent(Invitations(m))' = Absent(Invitations(m))
  BY <1>3, <1>4, <1>5 DEF Dead, Loose, Absent, Farewells, Invitations
<1>7. \A c \in Clients : view'[c].at = "playing" => view[c].at = "playing" /\ view'[c].m = view[c].m
  BY <1>2, <1>4 DEF NoView
<1> QED  BY <1>1, <1>3, <1>4, <1>5, <1>6, <1>7 DEF Disbanding

LEMMA DisbandingUntimed ==
    ASSUME Ground, Calm, Rooms, UntimedStep
    PROVE  Disbanding'
<1> USE DEF Ground
<1>1. Disbanding
  BY DEF Rooms
<1>2. PICK f \in Seq(Good) :
         /\ Adds(f)
         /\ \A t \in Elements(f) :
               \/ t.step = "mm.lrange" /\ t.job = "match" /\ t.g = Queue /\ t.for \in RunIds
               \/ t.step = "mmc.llen" /\ t.job = "start" /\ t.g \in confirming
               \/ /\ t.step \in {"mmc.del", "notify.lrange"} /\ t.job = "disband"
                  /\ t.g \in confirming /\ Dead(t.g)'
               \/ t.step = "erase.lrangeGroup" /\ t.job = "disband" /\ t.g \in timers
         /\ \A m \in Matches :
               \/ verdicts'[m] = verdicts[m] /\ (m \in timers' => m \in timers)
               \/ /\ m \in confirming /\ verdicts[m] = <<>> /\ Dead(m)'
                  /\ \E t \in Elements(f) : t \in Farewells(m)
  BY UntimedAdds
<1>3. /\ Queued' = Queued \cup Elements(f) /\ Queued \subseteq Good
      /\ \A t \in Elements(f) : t \in Good
      /\ UNCHANGED <<view, minted, batch, registry>>
  BY <1>2, AllGood, UntimedAdds DEF Adds, Elements, clientVars, storeVars
<1>4. \A m \in confirming \cup timers : m \in Matches
  BY TypesNow
<1>5. \A m \in Matches : /\ Dead(m) => Dead(m)' /\ m \notin confirming
                         /\ verdicts[m] = <<"start">> => verdicts'[m] = <<"start">>
                         /\ Loose(m)' = Loose(m)
  <2>1. <<"disband">> # <<>> /\ <<"start">> # <<>>
    OBVIOUS
  <2> QED  BY <1>2, <1>3, <2>1 DEF Dead, Deciding, Loose
<1>6. ASSUME NEW m \in Matches, Dead(m), Absent(Farewells(m)) PROVE Absent(Farewells(m))'
  <2>1. \A t \in Elements(f) : t \notin Farewells(m)
    BY <1>2, <1>5, <1>6 DEF Farewells
  <2>2. Farewells(m)' = Farewells(m)
    BY DEF Farewells
  <2> QED  BY <1>3, <1>6, <2>1, <2>2 DEF Absent
<1>7. ASSUME NEW t \in Queued', t.job = "start", t.step # "mmc.llen"
      PROVE  verdicts'[t.g] = <<"start">>
  <2>1. t \in Queued /\ t.g \in Matches
    BY <1>2, <1>3, <1>7, Kinds DEF Fits
  <2> QED  BY <1>1, <1>5, <1>7, <2>1 DEF Disbanding
<1>8. ASSUME NEW t \in Queued', t.job = "disband" \/ t.step \in EraseSteps
      PROVE  Dead(t.g)'
  <2>1. t.g \in Matches
    BY <1>3, <1>8, Kinds DEF Fits
  <2>2. CASE t \in Queued
    BY <1>1, <1>5, <1>8, <2>1, <2>2 DEF Disbanding
  <2>3. CASE t \in Elements(f)
    <3>1. Dead(t.g)' \/ t.g \in timers
      BY <1>2, <1>8, <2>3 DEF EraseSteps
    <3> QED  BY <1>1, <1>5, <2>1, <3>1 DEF Disbanding
  <2> QED  BY <1>3, <2>2, <2>3
<1>9. \A m \in timers' : Dead(m)'
  <2>1. timers' \subseteq Matches
    <3>1. TypeInv'
      BY TypeInterval DEF UntimedStep
    <3> QED  BY <3>1 DEF TypeInv, TypeOK
  <2> QED  BY <1>1, <1>2, <1>5, <2>1 DEF Disbanding
<1>10. ASSUME NEW m \in Matches, Dead(m)', ~Absent(Invitations(m))'
       PROVE  ~Absent(Farewells(m))'
  <2>1. ~Absent(Invitations(m))
    <3>1. \A t \in Elements(f) : t \notin Invitations(m)
      BY <1>2 DEF Invitations
    <3> QED  BY <1>3, <1>10, <3>1 DEF Absent, Invitations
  <2>2. CASE Dead(m)
    BY <1>1, <1>3, <2>1, <2>2 DEF Disbanding, Absent, Farewells
  <2>3. CASE ~Dead(m)
    <3>1. verdicts'[m] # verdicts[m]
      BY <1>10, <2>3 DEF Dead
    <3>2. PICK t \in Elements(f) : t \in Farewells(m)
      BY <1>2, <3>1
    <3>3. t \in Queued' /\ t \in Farewells(m)'
      BY <1>3, <3>2 DEF Farewells
    <3> QED  BY <3>3 DEF Absent
  <2> QED  BY <2>2, <2>3
<1>11. ASSUME NEW t \in Queued', t.step \in Erasures
       PROVE  Absent(Farewells(t.g))'
  <2>1. t \in Queued /\ t.g \in Matches /\ t.step \in EraseSteps
    BY <1>2, <1>3, <1>11, Kinds DEF Fits, Erasures, EraseSteps
  <2>2. Dead(t.g) /\ Absent(Farewells(t.g))
    BY <1>1, <1>11, <2>1 DEF Disbanding
  <2> QED  BY <1>6, <2>1, <2>2
<1>12. ASSUME NEW m \in minted', Loose(m)', m \notin registry'
       PROVE  Dead(m)' /\ Absent(Farewells(m))'
  <2>1. m \in Matches /\ m \in minted /\ Loose(m) /\ m \notin registry
    BY <1>3, <1>5, <1>12, TypesNow
  <2>2. Dead(m) /\ Absent(Farewells(m))
    BY <1>1, <2>1 DEF Disbanding
  <2> QED  BY <1>5, <1>6, <2>1, <2>2
<1>13. ASSUME NEW c \in Clients, view'[c].at = "playing"
       PROVE  verdicts'[view'[c].m] = <<"start">>
  <2>1. view'[c] = view[c] /\ view[c].m \in Matches
    BY <1>3, <1>13, ViewSet DEF InMatch
  <2> QED  BY <1>1, <1>5, <1>13, <2>1 DEF Disbanding
<1> QED  BY <1>7, <1>8, <1>9, <1>10, <1>11, <1>12, <1>13 DEF Disbanding

-------------------------------------------------------------------------------
(* Where a client is. *)

(* Somebody gets into a match by its run, into the queue by a search. *)
JoinsMatch(c, g) ==
    /\ Current.job = "match" /\ Current.for = g /\ g \in Matches /\ ~Loose(g) /\ Uninvited(g)
    /\ c \in Range(lobby[g]) /\ Current \in EarlyPushes(c, g)

JoinsQueue(c) == Current \in Searches(c) /\ Seeking(Current)

LEMMA Joins ==
    ASSUME Ground, Placed, NEW s \in Servers, ServerStep(s), NEW c \in Clients, NEW g \in Groups
    PROVE  \/ groupsOf'[c][g] = groupsOf[c][g] \/ groupsOf'[c][g] = 0
           \/ /\ Current.step = "push.lpushClient" /\ Current.c = c /\ Current.g = g
              /\ groupsOf'[c][g] = groupsOf[c][g] + 1
              /\ JoinsMatch(c, g) \/ (g = Queue /\ JoinsQueue(c))
<1> USE DEF Ground
<1>1. PICK f : Proceeds(f)
  BY ServerProceeds
<1>2. Current \in Good /\ Current \in Queued
  BY <1>1, Behindhand, Head1
<1> SUFFICES ASSUME Current.step = "push.lpushClient", Current.c = c, Current.g = g
             PROVE  JoinsMatch(c, g) \/ (g = Queue /\ JoinsQueue(c))
  BY ServerWrites
<1>3. Current.job \in {"search", "match"}
  BY <1>2, Kinds DEF PushSteps
<1>4. CASE Current.job = "search"
  <2>1. g = Queue
    BY <1>2, <1>4, Kinds DEF Fits
  <2> QED  BY <1>2, <1>4, <2>1 DEF JoinsQueue, Searches, Placed
<1>5. CASE Current.job = "match"
  <2>1. Current.for = g /\ g \in Matches
    BY <1>2, <1>5, Kinds DEF Fits, RemoveSteps
  <2>2. ~Loose(g)
    BY <1>2, <2>1, ForRun
  <2>3. c \in Range(lobby[g])
    BY <1>2, <1>5, <2>1 DEF Inviting, PushSteps
  <2> QED  BY <1>2, <1>5, <2>1, <2>2, <2>3 DEF JoinsMatch, Uninvited, EarlyPushes, EarlySteps
<1> QED  BY <1>3, <1>4, <1>5

LEMMA Enters ==
    ASSUME Ground, Placed, NEW s \in Servers, ServerStep(s), NEW c \in Clients
    PROVE  \/ members'[Queue][c] = members[Queue][c] \/ members'[Queue][c] = 0
           \/ /\ Current.step = "push.lpushGroup" /\ JoinsQueue(c)
              /\ members'[Queue][c] = members[Queue][c] + 1
<1> USE DEF Ground
<1>1. PICK f : Proceeds(f)
  BY ServerProceeds
<1>2. Current \in Good /\ Current \in Queued
  BY <1>1, Behindhand, Head1
<1>3. Queue \in Groups /\ Queue \notin Matches
  BY Names
<1> SUFFICES ASSUME Current.step = "push.lpushGroup", Current.c = c, Current.g = Queue
             PROVE  JoinsQueue(c)
  BY <1>3, ServerWrites
<1>4. Current.job \in {"search", "match"}
  BY <1>2, Kinds DEF PushSteps
<1>5. Current.job # "match"
  BY <1>2, <1>3, Kinds DEF Fits, RemoveSteps
<1> QED  BY <1>2, <1>4, <1>5 DEF JoinsQueue, Searches, Placed

(* Who moves was cut out of the queue, or moved before. *)
LEMMA MovingServer ==
    ASSUME Ground, Calm, Rooms, NEW s \in Servers, ServerStep(s), NEW c \in Clients
    PROVE  /\ MatchQueue(s) =>
                 /\ ~Moving(c) /\ \A m \in Matches : ~Uninvited(m)
                 /\ Moving(c)' => members[Queue][c] > 0
                 /\ \A m \in Matches : Uninvited(m)' /\ c \in Range(lobby'[m]) =>
                       /\ members[Queue][c] > 0
                       /\ \E t \in Queued' : t.step = "remove.lremClient" /\ t.c = c /\ t.for = m
           /\ ~MatchQueue(s) =>
                 /\ \A m \in Matches : Uninvited(m)' /\ c \in Range(lobby'[m])
                                           => Uninvited(m) /\ c \in Range(lobby[m])
                 /\ Moving(c)' => Moving(c)
<1> USE DEF Ground
<1>1. CASE ~MatchQueue(s)
  <2>1. lobby' = lobby
    BY <1>1, ServerMints
  <2>2. \A m \in Matches : Uninvited(m)' => Uninvited(m)
    BY <1>1, UninvitedServer
  <2> QED  BY <1>1, <2>1, <2>2 DEF Moving
<1>2. CASE MatchQueue(s)
  <2>1. PICK new :
           LobbiesOf(new) /\ \A m \in Matches : ~Uninvited(m) /\ (Uninvited(m)' => m \in new)
    BY <1>2, CutUninvited
  <2>2. \A m \in Matches : Uninvited(m)' /\ c \in Range(lobby'[m]) =>
           /\ members[Queue][c] > 0
           /\ \E t \in Queued' : t.step = "remove.lremClient" /\ t.c = c /\ t.for = m
    BY <2>1 DEF LobbiesOf
  <2>3. ~Moving(c) /\ (Moving(c)' => members[Queue][c] > 0)
    BY <2>1, <2>2 DEF Moving
  <2> QED  BY <1>2, <2>1, <2>2, <2>3
<1> QED  BY <1>1, <1>2

(* The invitation comes when he has left the queue. *)
LEMMA MovesOn ==
    ASSUME Ground, Calm, Rooms, NEW s \in Servers, ServerStep(s), NEW c \in Clients,
           Moving(c), ~Moving(c)'
    PROVE  /\ Current.step = "notify.lrange" /\ Current.job = "found"
           /\ Uninvited(Current.g) /\ Current.g \in Matches /\ c \in Range(lobby[Current.g])
           /\ members[Queue][c] = 0 /\ groupsOf[c][Queue] = 0
<1> USE DEF Ground
<1>1. PICK f : Proceeds(f)
  BY ServerProceeds
<1>2. Current \in Good /\ Current \in Queued
  BY <1>1, Behindhand, Head1
<1>3. PICK m \in Matches : Uninvited(m) /\ c \in Range(lobby[m])
  BY DEF Moving
<1>4. lobby'[m] = lobby[m]
  BY <1>3, UninvitedMinted, ServerMints
<1>5. ~Uninvited(m)'
  BY <1>3, <1>4 DEF Moving
<1>6. Current.job = "found" /\ Current.g = m
  BY <1>3, <1>5, UninvitedServer
<1>7. Current.step = "notify.lrange" /\ Loose(m)
  BY <1>2, <1>6, Kinds DEF Fits, Unheard
<1>8. \A t \in Queued : t.for # m
  BY <1>3, <1>7, ForRun
<1>9. Carried(c, m)
  BY <1>3 DEF Rooms, Placed
<1>10. members[Queue][c] \in Nat /\ groupsOf[c][Queue] \in Nat
  BY Counted, Names
<1> QED  BY <1>3, <1>6, <1>7, <1>8, <1>9, <1>10 DEF Carried

LEMMA AloneServer ==
    ASSUME Ground, Calm, Rooms, NEW s \in Servers, ServerStep(s), NEW c \in Clients
    PROVE  Alone(c)'
<1> USE DEF Ground
<1>1. Placed /\ Alone(c)
  BY DEF Rooms, Placed
<1>2. PICK f : Proceeds(f)
  BY ServerProceeds
<1>3. Current \in Good /\ Current \in Queued
  BY <1>2, Behindhand, Head1
<1>4. Queue \in Groups /\ Matches \subseteq Groups /\ Queue \notin Matches
  BY Names
<1>5. \A g \in Groups : groupsOf[c][g] \in Nat /\ members[g][c] \in Nat
  BY Counted
<1>6. \A g \in Groups : groupsOf'[c][g] \in Nat /\ members'[g][c] \in Nat
  <2>1. TypeInv'
    BY TypeServer
  <2> QED  BY <2>1 DEF TypeInv, TypeOK
<1>7. ASSUME NEW g \in Groups, groupsOf'[c][g] # groupsOf[c][g], groupsOf'[c][g] # 0
      PROVE  groupsOf'[c][g] = 1 /\ \A h \in Groups : groupsOf[c][h] = 0
  <2>1. /\ Current.step = "push.lpushClient" /\ Current.c = c /\ Current.g = g
        /\ groupsOf'[c][g] = groupsOf[c][g] + 1
        /\ JoinsMatch(c, g) \/ (g = Queue /\ JoinsQueue(c))
    BY <1>1, <1>7, Joins
  <2>2. CASE JoinsQueue(c)
    <3>1. \A h \in Groups : groupsOf[c][h] = 0
      BY <2>1, <2>2 DEF JoinsQueue, Seeking, EarlySteps
    <3> QED  BY <2>1, <3>1
  <2>3. CASE JoinsMatch(c, g)
    <3>1. Carried(c, g)
      BY <1>1, <2>3 DEF JoinsMatch, Placed
    <3>2. \A t \in Queued : t.step \in RemoveSteps => t.for # g
      <4>1. ASSUME NEW t \in Queued, t.step \in RemoveSteps, t.for = g PROVE FALSE
        <5>1. t.job = "match" /\ Current.job = "match" /\ Current.for = t.for
          BY <2>3, <4>1, ForRun DEF JoinsMatch
        <5>2. Current.step \in RemoveSteps
          BY <1>3, <4>1, <5>1 DEF Tracked
        <5> QED  BY <2>1, <5>2 DEF RemoveSteps
      <4> QED  BY <4>1
    <3>3. ~(groupsOf[c][Queue] > 0)
      BY <3>1, <3>2 DEF Carried, RemoveSteps
    <3>4. ~(groupsOf[c][g] > 0)
      BY <1>3, <2>1, <2>3, <3>1 DEF Carried, EarlySteps, JoinsMatch
    <3>5. \A h \in Groups : groupsOf[c][h] = 0
      BY <1>4, <1>5, <3>1, <3>3, <3>4, <2>3 DEF Carried, Matches, JoinsMatch
    <3> QED  BY <2>1, <3>5
  <2> QED  BY <2>1, <2>2, <2>3
<1>8. \A g \in Groups : groupsOf'[c][g] <= 1
  BY <1>1, <1>7, <1>5, <1>6 DEF Alone
<1>9. ASSUME NEW g \in Groups, NEW h \in Groups, groupsOf'[c][g] > 0, groupsOf'[c][h] > 0
      PROVE  g = h
  <2>1. CASE groupsOf'[c][g] = groupsOf[c][g] /\ groupsOf'[c][h] = groupsOf[c][h]
    BY <1>1, <1>9, <2>1 DEF Alone
  <2>2. CASE groupsOf'[c][g] # groupsOf[c][g]
    <3>1. \A k \in Groups : groupsOf[c][k] = 0
      BY <1>7, <1>9, <2>2
    <3>2. groupsOf'[c][h] # groupsOf[c][h]
      BY <1>9, <3>1
    <3>3. Current.g = g /\ Current.g = h
      BY <1>1, <1>9, <2>2, <3>2, Joins
    <3> QED  BY <3>3
  <2>3. CASE groupsOf'[c][h] # groupsOf[c][h]
    <3>1. \A k \in Groups : groupsOf[c][k] = 0
      BY <1>7, <1>9, <2>3
    <3>2. groupsOf'[c][g] # groupsOf[c][g]
      BY <1>9, <3>1
    <3>3. Current.g = g /\ Current.g = h
      BY <1>1, <1>9, <2>3, <3>2, Joins
    <3> QED  BY <3>3
  <2> QED  BY <2>1, <2>2, <2>3
<1>10. members'[Queue][c] <= 1
  <2>1. members[Queue][c] <= 1
    BY <1>1 DEF Alone
  <2>2. JoinsQueue(c) => members[Queue][c] = 0
    BY DEF JoinsQueue, Seeking, Searches
  <2> QED  BY <1>1, <1>4, <1>5, <2>1, <2>2, Enters
<1>11. ASSUME members'[Queue][c] > 0, ~Moving(c)', NEW m \in Matches
       PROVE  groupsOf'[c][m] = 0
  <2>1. ~Moving(c)
    <3>1. SUFFICES ASSUME Moving(c) PROVE FALSE
      OBVIOUS
    <3>2. Current.step = "notify.lrange" /\ members[Queue][c] = 0
      BY <1>11, <3>1, MovesOn
    <3>3. members'[Queue][c] = members[Queue][c]
      BY <1>4, <3>2, ServerWrites
    <3> QED  BY <1>11, <3>2, <3>3
  <2>2. groupsOf'[c][m] = groupsOf[c][m] \/ groupsOf'[c][m] = 0
    <3>1. ~JoinsMatch(c, m)
      BY <2>1 DEF JoinsMatch, Moving
    <3> QED  BY <1>1, <1>4, <3>1, Joins
  <2>3. CASE members[Queue][c] > 0
    BY <1>1, <2>1, <2>2, <2>3 DEF Alone
  <2>4. CASE ~(members[Queue][c] > 0)
    <3>1. Current.step = "push.lpushGroup" /\ JoinsQueue(c)
      BY <1>1, <1>11, <2>4, Enters
    <3>2. groupsOf[c][m] = 0
      BY <3>1 DEF JoinsQueue, Seeking, Searches
    <3> QED  BY <2>2, <3>2
  <2> QED  BY <2>3, <2>4
<1> QED  BY <1>8, <1>9, <1>10, <1>11 DEF Alone

LEMMA SeekingServer ==
    ASSUME Ground, Calm, Rooms, NEW s \in Servers, ServerStep(s),
           NEW t \in Queued', t.job = "search"
    PROVE  Seeking(t)'
<1> USE DEF Ground
<1>1. Placed /\ Orderly
  BY DEF Rooms
<1>2. PICK f : Proceeds(f)
  BY ServerProceeds
<1>3. /\ Queued' = Behind \cup Elements(f) /\ Queued = {Current} \cup Behind
      /\ Queued' \subseteq Good /\ Current \in Good /\ Current \in Queued /\ Pipeline # <<>>
  BY <1>2, Behindhand, Head1
<1>4. Queue \in Groups /\ Matches \subseteq Groups /\ Queue \notin Matches
  BY Names
<1>5. t.c \in Clients /\ t.g = Queue /\ t \in Searches(t.c)
  BY <1>3, Kinds DEF Fits, Searches
<1> DEFINE c == t.c
<1> SUFFICES /\ ~Moving(c)' /\ members'[Queue][c] = 0
             /\ t.step = "search.lrange" => groupsOf'[c][Queue] = 0
             /\ t.step \in EarlySteps => \A g \in Groups : groupsOf'[c][g] = 0
             /\ t.step = "push.lpushGroup" => \A m \in Matches : groupsOf'[c][m] = 0
  BY DEF Seeking
<1>6. AtMostOnce(Searches(c))
  BY <1>1, <1>5 DEF Orderly
<1>7. PICK u \in Queued : /\ u \in Searches(c) /\ Seeking(u) /\ u.c = c
                          /\ \/ u = t /\ Current \notin Searches(c) /\ t \in Behind
                             \/ /\ u = Current /\ t \in Elements(f) /\ GoesOn(t)
                                /\ t.step \in PushSteps
  <2>1. CASE t \in Behind
    <3>1. Current \notin Searches(c)
      BY <1>3, <1>5, <1>6, <2>1, OnlyHead
    <3>2. t \in Queued /\ Seeking(t)
      BY <1>1, <1>3, <2>1 DEF Placed
    <3> QED  BY <1>5, <2>1, <3>1, <3>2
  <2>2. CASE t \in Elements(f)
    <3>1. Current \in Searches(c) /\ GoesOn(t) /\ t.step \in PushSteps
      BY <1>2, <1>5, <2>2, SearchesGoOn
    <3>2. Seeking(Current) /\ Current.c = c
      BY <1>1, <1>3, <3>1 DEF Placed, Searches
    <3> QED  BY <1>3, <2>2, <3>1, <3>2
  <2> QED  BY <1>3, <2>1, <2>2
<1>8. ~Moving(c) /\ members[Queue][c] = 0
  BY <1>7 DEF Seeking
<1>9. ~Moving(c)'
  BY <1>5, <1>8, MovingServer
<1>10. members'[Queue][c] = 0
  <2>1. ~(Current.step = "push.lpushGroup" /\ JoinsQueue(c))
    BY <1>7 DEF JoinsQueue, GoesOn, Chain
  <2> QED  BY <1>1, <1>5, <1>8, <2>1, Enters
<1>11. \A g \in Groups : \/ groupsOf'[c][g] = groupsOf[c][g] \/ groupsOf'[c][g] = 0
                         \/ g = Queue /\ Current.step = "push.lpushClient" /\ u = Current
  <2>1. \A g \in Groups : ~JoinsMatch(c, g)
    BY <1>8 DEF JoinsMatch, Moving
  <2>2. JoinsQueue(c) => u = Current
    BY <1>7 DEF JoinsQueue
  <2> QED  BY <1>1, <1>5, <2>1, <2>2, Joins
<1>12. CASE u = t /\ Current \notin Searches(c)
  <2>1. \A g \in Groups : groupsOf[c][g] = 0 => groupsOf'[c][g] = 0
    BY <1>7, <1>11, <1>12
  <2> QED  BY <1>4, <1>7, <1>9, <1>10, <1>12, <2>1 DEF Seeking
<1>13. CASE u = Current /\ GoesOn(t) /\ t.step \in PushSteps
  <2>1. CASE t.step = "push.lrangeGroup"
    <3>1. Current.step = "search.lrange"
      BY <1>13, <2>1 DEF GoesOn, Chain
    <3>2. SearchCheck(s)
      BY <3>1, StepSays
    <3>3. Runs(f)
      BY <1>2, <1>7, <1>12, <1>13, <2>1, MustRun
    <3>4. GroupsOfClient(c) = {}
      <4>1. SUFFICES ASSUME GroupsOfClient(c) # {} PROVE FALSE
        OBVIOUS
      <4>2. Runs(<<>>)
        BY <1>7, <1>13, <3>2, <4>1, SearchDoes
      <4>3. f = <<>>
        BY <3>3, <4>2, SameRun
      <4>4. t \in Elements(f)
        BY <1>7, <1>3, <1>12, <1>6, <1>13, OnlyHead
      <4> QED  BY <4>3, <4>4, Few
    <3>5. \A g \in Groups : groupsOf[c][g] = 0
      BY <1>5, <3>4, Counted DEF GroupsOfClient
    <3>6. groupsOf' = groupsOf
      BY <3>2, SearchDoes DEF storeVars
    <3> QED  BY <1>9, <1>10, <2>1, <3>5, <3>6
  <2>2. CASE t.step # "push.lrangeGroup"
    <3>1. \A g \in Groups : groupsOf[c][g] = 0
      <4>1. Current.step \in EarlySteps
        BY <1>13, <2>2 DEF GoesOn, Chain, PushSteps, EarlySteps
      <4> QED  BY <1>7, <1>13, <4>1 DEF Seeking
    <3>2. \A m \in Matches : groupsOf'[c][m] = 0
      BY <1>4, <1>11, <3>1
    <3>3. t.step \in EarlySteps => \A g \in Groups : groupsOf'[c][g] = 0
      <4>1. t.step \in EarlySteps => Current.step # "push.lpushClient"
        BY <1>13 DEF GoesOn, Chain, EarlySteps
      <4> QED  BY <1>11, <3>1, <4>1
    <3>4. t.step # "search.lrange"
      BY <1>13 DEF PushSteps
    <3> QED  BY <1>9, <1>10, <3>2, <3>3, <3>4
  <2> QED  BY <2>1, <2>2
<1> QED  BY <1>7, <1>12, <1>13

(* A client in a lobby leaves the queue, and gets into one match. *)
LEMMA CarriedServer ==
    ASSUME Ground, Calm, Rooms, NEW s \in Servers, ServerStep(s),
           NEW m \in Matches, Uninvited(m)', NEW c \in Clients, c \in Range(lobby'[m])
    PROVE  Carried(c, m)'
<1> USE DEF Ground
<1>1. Placed /\ Alone(c) /\ Filled
  BY DEF Rooms, Placed
<1>2. PICK f : Proceeds(f)
  BY ServerProceeds
<1>3. /\ Queued' = Behind \cup Elements(f) /\ Queued = {Current} \cup Behind
      /\ Queued \subseteq Good /\ Elements(f) \subseteq Good
      /\ Current \in Good /\ Current \in Queued /\ Pipeline # <<>>
  BY <1>2, Behindhand, Head1
<1>4. Queue \in Groups /\ Matches \subseteq Groups /\ Queue \notin Matches
  BY Names
<1>5. \A g \in Groups : groupsOf[c][g] \in Nat /\ members[g][c] \in Nat
  BY Counted
<1>6. CASE MatchQueue(s)
  <2>1. /\ members[Queue][c] > 0 /\ ~Moving(c)
        /\ \E t \in Queued' : t.step = "remove.lremClient" /\ t.c = c /\ t.for = m
    BY <1>6, MovingServer
  <2>2. \A n \in Matches : groupsOf[c][n] = 0
    BY <1>1, <2>1 DEF Alone
  <2>3. UNCHANGED <<groupsOf, members>>
    BY <1>6, QueueCut DEF storeVars
  <2> QED  BY <2>1, <2>2, <2>3 DEF Carried, RemoveSteps
<1>7. CASE ~MatchQueue(s)
  <2>1. Uninvited(m) /\ c \in Range(lobby[m]) /\ Moving(c)
    BY <1>7, MovingServer DEF Moving
  <2>2. Carried(c, m) /\ m \in minted
    BY <1>1, <2>1, UninvitedMinted DEF Placed
  <2>3. ~JoinsQueue(c)
    BY <2>1 DEF JoinsQueue, Seeking, Searches
  <2>4. ASSUME groupsOf'[c][Queue] > 0
        PROVE  \E t \in Queued' : t.step = "remove.lremClient" /\ t.c = c /\ t.for = m
    <3>1. groupsOf[c][Queue] > 0
      <4>1. ~JoinsMatch(c, Queue)
        BY <1>4 DEF JoinsMatch
      <4> QED  BY <1>1, <1>4, <2>3, <2>4, <4>1, Joins
    <3>2. PICK t \in Queued : t.step = "remove.lremClient" /\ t.c = c /\ t.for = m
      BY <2>2, <3>1 DEF Carried
    <3>3. t # Current
      <4>1. SUFFICES ASSUME t = Current PROVE FALSE
        OBVIOUS
      <4>2. Current.g = Queue
        BY <1>3, <3>2, <4>1, ForRun, Kinds DEF Fits, PushSteps
      <4>3. RemoveBegin(s)
        BY <3>2, <4>1, StepSays
      <4>4. groupsOf'[c][Queue] = 0
        BY <1>4, <3>2, <4>1, <4>2, <4>3, RemoveBeginDoes
      <4> QED  BY <2>4, <4>4
    <3> QED  BY <1>3, <3>2, <3>3
  <2>5. ASSUME members'[Queue][c] > 0
        PROVE  \E t \in Queued' : t.step \in RemoveSteps /\ t.c = c /\ t.for = m
    <3>1. members[Queue][c] > 0
      BY <1>1, <2>3, <2>5, Enters
    <3>2. PICK t \in Queued : t.step \in RemoveSteps /\ t.c = c /\ t.for = m
      BY <2>2, <3>1 DEF Carried
    <3>3. CASE t \in Behind
      BY <1>3, <3>2, <3>3
    <3>4. CASE t = Current /\ t.step = "remove.lremClient"
      <4>1. RemoveBegin(s)
        BY <3>4, StepSays
      <4>2. Runs(<<At(Current, "remove.lremGroup")>>)
        BY <4>1, RemoveBeginDoes
      <4>3. At(Current, "remove.lremGroup") \in Queued'
        BY <4>2, Few DEF Runs
      <4> QED  BY <1>3, <3>2, <3>4, <4>3, AtFields DEF RemoveSteps
    <3>5. CASE t = Current /\ t.step = "remove.lremGroup"
      <4>1. Current.g = Queue
        BY <1>3, <3>2, <3>5, ForRun, Kinds DEF Fits, PushSteps
      <4>2. RemoveEnd(s)
        BY <3>5, StepSays
      <4>3. members'[Queue][c] = 0
        BY <1>4, <3>2, <3>5, <4>1, <4>2, RemoveEndDoes
      <4> QED  BY <2>5, <4>3
    <3> QED  BY <1>3, <3>2, <3>3, <3>4, <3>5 DEF RemoveSteps
  <2>6. ASSUME NEW n \in Matches, n # m PROVE groupsOf'[c][n] = 0
    <3>1. groupsOf[c][n] = 0
      BY <2>2, <2>6 DEF Carried
    <3>2. ~JoinsMatch(c, n)
      <4>1. SUFFICES ASSUME JoinsMatch(c, n) PROVE FALSE
        OBVIOUS
      <4>2. Uninvited(n) /\ c \in Range(lobby[n])
        BY <4>1 DEF JoinsMatch
      <4>3. Range(lobby[m]) \cap Range(lobby[n]) = {}
        BY <1>1, <2>1, <2>6, <4>2 DEF Filled
      <4> QED  BY <2>1, <4>2, <4>3
    <3> QED  BY <1>1, <1>4, <3>1, <3>2, Joins
  <2>7. ASSUME groupsOf'[c][m] > 0, NEW t \in Queued', t.for = m
        PROVE  /\ t.step \notin RemoveSteps \cup {"create.hset"}
               /\ t.c = c => t.step \notin EarlySteps
    <3>1. CASE groupsOf[c][m] > 0
      <4>1. \A u \in Queued : u.for = m => /\ u.step \notin RemoveSteps \cup {"create.hset"}
                                           /\ u.c = c => u.step \notin EarlySteps
        BY <2>2, <3>1 DEF Carried
      <4>2. CASE t \in Elements(f)
        <5>1. /\ Current.for = m
              /\ GoesOn(t) \/ t.step = "create.hset" \/ Current.step = "create.hset"
              /\ t.step = "create.hset" => Current.step = "remove.lremGroup"
          BY <1>2, <2>2, <2>7, <4>2, ForGoesOn
        <5>2. GoesOn(t) /\ t.step # "create.hset"
          BY <1>3, <4>1, <5>1 DEF RemoveSteps
        <5>3. Current.job = "match"
          BY <1>3, <5>1, ForRun
        <5>4. Current.step \in PushSteps
          BY <1>3, <4>1, <5>1, <5>3, ForRun, Kinds DEF Fits
        <5> QED  BY <1>3, <4>1, <5>1, <5>2, <5>4 DEF GoesOn, Chain, PushSteps, RemoveSteps, EarlySteps
      <4> QED  BY <1>3, <2>7, <4>1, <4>2
    <3>2. CASE ~(groupsOf[c][m] > 0)
      <4>1. Current.step = "push.lpushClient" /\ JoinsMatch(c, m)
        BY <1>1, <1>4, <2>3, <2>7, <3>2, Joins
      <4>2. CASE t \in Behind
        <5>1. t.step \notin RemoveSteps
          <6>1. SUFFICES ASSUME t.step \in RemoveSteps PROVE FALSE
            OBVIOUS
          <6>2. t.job = "match"
            BY <1>3, <2>7, <4>2, ForRun
          <6>3. Current.step \in RemoveSteps
            BY <1>3, <2>7, <4>1, <4>2, <6>1, <6>2 DEF Tracked, JoinsMatch
          <6> QED  BY <4>1, <6>3 DEF RemoveSteps
        <5>2. t.step # "create.hset"
          BY <1>1, <1>3, <2>7, <4>1, <4>2 DEF Filled, JoinsMatch
        <5>3. t.c = c => t.step \notin EarlySteps
          <6>1. AtMostOnce(EarlyPushes(c, m)) /\ Current \in EarlyPushes(c, m)
            BY <1>1, <4>1 DEF Filled, JoinsMatch
          <6>2. t \notin EarlyPushes(c, m)
            BY <1>3, <4>2, <6>1, OnlyHead
          <6> QED  BY <1>3, <2>7, <4>2, <6>2 DEF EarlyPushes
        <5> QED  BY <5>1, <5>2, <5>3
      <4>3. CASE t \in Elements(f)
        <5>1. /\ GoesOn(t) \/ t.step = "create.hset"
              /\ t.step = "create.hset" => Current.step = "remove.lremGroup"
          BY <1>2, <2>2, <2>7, <4>1, <4>3, ForGoesOn
        <5>2. t.step = "push.lpushGroup"
          BY <4>1, <5>1 DEF GoesOn, Chain
        <5> QED  BY <5>2 DEF RemoveSteps, EarlySteps
      <4> QED  BY <1>3, <4>2, <4>3
    <3> QED  BY <3>1, <3>2
  <2> QED  BY <2>4, <2>5, <2>6, <2>7 DEF Carried
<1> QED  BY <1>6, <1>7

LEMMA PlacedServer ==
    ASSUME Ground, Calm, Rooms, NEW s \in Servers, ServerStep(s)
    PROVE  Placed'
<1>1. \A m \in Matches : Range(lobby'[m]) \subseteq Clients
  <2>1. TypeInv'
    BY TypeServer DEF Ground
  <2>2. lobby' \in [Matches -> Seq(Clients)]
    BY <2>1 DEF TypeInv, TypeOK
  <2> QED  BY <2>2 DEF Range
<1>2. \A c \in Clients : Alone(c)'
  BY AloneServer
<1>3. \A t \in Queued' : t.job = "search" => Seeking(t)'
  BY SeekingServer
<1>4. \A m \in Matches : Uninvited(m)' => \A c \in Range(lobby'[m]) : Carried(c, m)'
  BY <1>1, CarriedServer
<1> QED  BY <1>2, <1>3, <1>4 DEF Placed

(* Where the store and the lobbies stay as they are, so does everybody. *)
LEMMA PlacedAdds ==
    ASSUME Ground, Placed, UNCHANGED <<members, groupsOf, batch, lobby>>, NEW f, Adds(f),
           \A t \in Elements(f) : /\ t.for \notin Matches /\ t.job # "found"
                                  /\ t.job = "search" => t.step = "search.lrange" /\ Seeking(t)
    PROVE  Placed'
<1> USE DEF Ground
<1>1. Queued' = Queued \cup Elements(f)
  BY DEF Adds
<1>2. \A m \in Matches : Uninvited(m)' <=> Uninvited(m)
  BY <1>1 DEF Uninvited, Loose
<1>3. \A c : Moving(c)' <=> Moving(c)
  BY <1>2 DEF Moving
<1>4. \A c \in Clients : Alone(c)'
  BY <1>3 DEF Placed, Alone
<1>5. \A t : Seeking(t) => Seeking(t)'
  BY <1>3 DEF Seeking
<1>6. \A t \in Queued' : t.job = "search" => Seeking(t)'
  BY <1>1, <1>5 DEF Placed
<1>7. ASSUME NEW m \in Matches, Uninvited(m)', NEW c \in Range(lobby'[m]) PROVE Carried(c, m)'
  <2>1. Carried(c, m)
    BY <1>2, <1>7 DEF Placed
  <2> QED  BY <1>1, <2>1 DEF Carried
<1> QED  BY <1>4, <1>6, <1>7 DEF Placed

LEMMA PlacedClient ==
    ASSUME Ground, Calm, Rooms, NEW d \in Clients, ClientStep(d)
    PROVE  Placed'
<1> USE DEF Ground, Sends
<1>1. MaxPending = 1 /\ "leave" \notin Ops /\ Placed
  BY DEF Calm, Rooms
<1>2. PICK u : Sends(d, u)
  BY <1>1, ClientSends
<1>3. Elements(<<u>>) = {u}
  BY Few
<1>4. UNCHANGED <<batch, lobby, members, groupsOf>> /\ d \in online
  BY <1>1, ClientSends DEF storeVars, runVars
<1>5. u.job = "search" => Seeking(u)
  <2>1. SUFFICES ASSUME u.job = "search" PROVE Seeking(u)
    OBVIOUS
  <2>2. view[d].at = "free" /\ u.step = "search.lrange" /\ u.c = d
    BY <1>2, <2>1
  <2>3. Out(d)
    BY <1>4, <2>2 DEF Rooms, Believed, Knows
  <2> QED  BY <2>2, <2>3 DEF Out, Seeking, EarlySteps
<1> QED  BY <1>1, <1>2, <1>3, <1>4, <1>5, Names, PlacedAdds

LEMMA PlacedUntimed ==
    ASSUME Ground, Calm, Rooms, UntimedStep
    PROVE  Placed'
<1> USE DEF Ground
<1>1. Placed
  BY DEF Rooms
<1>2. PICK f \in Seq(Good) :
         /\ Adds(f)
         /\ \A t \in Elements(f) :
               \/ t.step = "mm.lrange" /\ t.job = "match" /\ t.g = Queue /\ t.for \in RunIds
               \/ t.step = "mmc.llen" /\ t.job = "start" /\ t.g \in confirming
               \/ /\ t.step \in {"mmc.del", "notify.lrange"} /\ t.job = "disband"
                  /\ t.g \in confirming
               \/ t.step = "erase.lrangeGroup" /\ t.job = "disband" /\ t.g \in timers
  BY UntimedAdds
<1>3. \A t \in Elements(f) : t.for \notin Matches /\ t.job # "found" /\ t.job # "search"
  <2>1. \A t \in Elements(f) : t \in Good
    BY <1>2 DEF Elements
  <2> QED  BY <1>2, <2>1, Kinds, Names DEF Fits
<1>4. UNCHANGED <<batch, lobby, members, groupsOf>>
  BY UntimedAdds DEF storeVars
<1> QED  BY <1>1, <1>2, <1>3, <1>4, PlacedAdds

-------------------------------------------------------------------------------
(* What the clients and their EXITs have heard of. *)
LEMMA RemovesInOrder ==
    ASSUME Ground, Calm, Rooms, NEW s \in Servers, ServerStep(s), NEW c \in online, NEW g \in Matches
    PROVE  (/\ Precedes(RemovesAt(c, g, "remove.lremClient"), ExitsAt(c, g, "get.hget"))
            /\ Precedes(RemovesAt(c, g, "remove.lremGroup"), ExitsAt(c, g, "member.lrange"))
            /\ \/ Absent(RemovesAt(c, g, "remove.lremClient"))
               \/ Absent(ExitsAt(c, g, "member.lrange")))'
<1> USE DEF Ground
<1> DEFINE Starts == RemovesAt(c, g, "remove.lremClient")
           Finishes == RemovesAt(c, g, "remove.lremGroup")
           Asks == ExitsAt(c, g, "get.hget")
           Checks == ExitsAt(c, g, "member.lrange")
<1>1. PICK f : Proceeds(f)
  BY ServerProceeds
<1>2. /\ Queued' = Behind \cup Elements(f) /\ Queued = {Current} \cup Behind /\ Queued \subseteq Good
      /\ Current \in Good /\ Elements(f) \subseteq Good /\ Pipeline # <<>> /\ Current \in Queued
  BY <1>1, Behindhand, Head1
<1>3. /\ Precedes(Starts, Asks) /\ Precedes(Finishes, Checks)
      /\ Absent(Starts) \/ Absent(Checks)
      /\ \A t \in Queued : t.job # "leave"
  BY DEF Rooms, Heard, Orderly
<1>4. c \in Clients /\ AtMostOnce(Exits(c))
  BY TypesNow DEF Rooms, Orderly
<1>5. \A u \in Elements(f) : u \in Exits(c) =>
         /\ u.step = "member.lrange" /\ Current.step = "get.hget"
         /\ u.g = g => Current \in Asks
  BY <1>1, ExitsGoOn DEF GoesOn, ExitsAt
<1>6. ASSUME NEW u \in Elements(f), u \in Starts
      PROVE  \A t \in Behind \cup Elements(f) : t \notin Exits(c)
  <2>1. Current.c = c /\ Current.job = "exit" /\ Current.step = "member.lrange"
    BY <1>1, <1>3, <1>6, RemovesStart DEF RemovesAt, RemoveSteps
  <2>2. Current \in Exits(c)
    BY <1>2, <2>1 DEF Exits
  <2>3. \A t \in Behind : t \notin Exits(c)
    BY <1>2, <1>4, <2>2, OnlyHead
  <2> QED  BY <1>5, <2>1, <2>3
<1>7. ASSUME NEW u \in Elements(f), u \in Finishes
      PROVE  \A t \in Behind \cup Elements(f) : t \notin Checks
  <2>1. Current.c = c /\ Current.g = g /\ Current.step = "remove.lremClient"
    BY <1>1, <1>3, <1>7, RemovesStart DEF RemovesAt, RemoveSteps
  <2>2. Current \in Starts
    BY <1>2, <2>1 DEF RemovesAt
  <2>3. Absent(Checks)
    BY <1>2, <1>3, <2>2 DEF Absent
  <2> QED  BY <1>2, <1>5, <2>1, <2>3 DEF Absent, ExitsAt
<1>8. Precedes(Starts, Asks)'
  <2>1. (\A u \in Elements(f) : u \notin Starts) \/ (\A u \in Behind \cup Elements(f) : u \notin Asks)
    BY <1>6 DEF ExitsAt
  <2>2. \A u \in Elements(f) : u.step = "erase.lremClient" => u \notin Asks
    BY DEF ExitsAt, Exits
  <2>3. Precedes(RemovesAt(c, g, "remove.lremClient"), ExitsAt(c, g, "get.hget"))'
    BY <1>1, <1>3, <2>1, <2>2, PrecedesServer
  <2> QED  BY <2>3
<1>9. Precedes(Finishes, Checks)'
  <2>1. \A u \in Elements(f) : u.step = "erase.lremClient" => u \notin Checks
    BY DEF ExitsAt, Exits
  <2>2. Precedes(RemovesAt(c, g, "remove.lremGroup"), ExitsAt(c, g, "member.lrange"))'
    BY <1>1, <1>3, <1>7, <2>1, PrecedesServer
  <2> QED  BY <2>2
<1>10. \/ \A t \in Queued' : t \notin Starts
       \/ \A t \in Queued' : t \notin Checks
  <2>1. CASE \E u \in Elements(f) : u \in Starts
    BY <1>2, <1>6, <2>1 DEF ExitsAt
  <2>2. CASE \E u \in Behind : u \in Starts
    <3>1. Absent(Checks) /\ ~Absent(Starts)
      BY <1>2, <1>3, <2>2 DEF Absent
    <3>2. Current \notin Asks
      BY <1>2, <1>3, <3>1, Foremost
    <3>3. \A u \in Elements(f) : u \notin Checks
      BY <1>5, <3>2 DEF ExitsAt
    <3> QED  BY <1>2, <3>1, <3>3 DEF Absent
  <2> QED  BY <1>2, <2>1, <2>2
<1>11. Starts' = Starts /\ Checks' = Checks
  BY DEF RemovesAt, ExitsAt, Exits
<1> QED  BY <1>8, <1>9, <1>10, <1>11 DEF Absent

LEMMA HeardServer ==
    ASSUME Ground, Calm, Rooms, NEW s \in Servers, ServerStep(s)
    PROVE  Heard'
<1> USE DEF Ground
<1>1. PICK f : Proceeds(f)
  BY ServerProceeds
<1>2. /\ Queued' = Behind \cup Elements(f) /\ Queued = {Current} \cup Behind /\ Queued \subseteq Good
      /\ Current \in Good /\ Elements(f) \subseteq Good /\ Pipeline # <<>> /\ Current \in Queued
  BY <1>1, Behindhand, Head1
<1>3. Heard /\ Orderly
  BY DEF Rooms
<1>4. \A m \in Matches : m \in minted /\ ~Uninvited(m) => ~Uninvited(m)'
  BY UninvitedServer
<1>5. ASSUME NEW c \in Clients, NEW k \in Matches, view'[c].m = k
      PROVE  ~Uninvited(k)'
  <2>1. CASE view'[c] = view[c]
    <3>1. k = view[c].m /\ k \in minted
      BY <1>5, <2>1 DEF Births, Begun
    <3> QED  BY <1>3, <1>4, <3>1 DEF Heard
  <2>2. CASE view'[c] # view[c]
    <3>1. /\ view'[c].m = Current.g
          /\ Current.step = "notify.lrange" /\ Current.job \in {"found", "start"}
      BY <1>5, <2>2, Tellings, Names
    <3> DEFINE m == Current.g
    <3>2. m \in Matches /\ Loose(m) /\ m \in minted
      BY <1>2, <1>5, <3>1 DEF Unheard, Births, Begun
    <3>3. NotifyGroup(s)
      BY <3>1, StepSays
    <3>4. Runs(<<>>) /\ UNCHANGED <<minted, lobby, run, batch>>
      BY <3>3, NotifyDoes DEF runVars
    <3>5. \A t \in Behind : ~(t.job = "found" /\ t.g = m)
      <4>1. CASE Current.job = "found"
        <5>1. Current \in Invitations(m) /\ AtMostOnce(Invitations(m))
          BY <1>2, <1>3, <3>2, <4>1 DEF Invitations, Orderly
        <5>2. \A t \in Behind : t \notin Invitations(m)
          BY <1>2, <5>1, OnlyHead
        <5> QED  BY <1>2, <5>2 DEF Invitations
      <4>2. CASE Current.job = "start"
        <5>1. Current \in Decisions(m)
          BY <1>2, <3>1, <4>2 DEF Decisions, EraseSteps
        <5>2. Absent(Invitations(m))
          BY <1>2, <1>3, <3>2, <5>1, Foremost DEF Orderly
        <5> QED  BY <1>2, <5>2 DEF Absent, Invitations
      <4> QED  BY <3>1, <4>1, <4>2
    <3>6. Queued' = Behind
      BY <3>4, Few DEF Runs
    <3> HIDE DEF m
    <3>7. k = m
      BY <1>5, <3>1 DEF m
    <3>8. Loose(k)'
      BY <3>2, <3>4, <3>7 DEF Loose
    <3> QED  BY <3>5, <3>6, <3>7, <3>8 DEF Uninvited
  <2> QED  BY <2>1, <2>2
<1>6. ASSUME NEW t \in Queued', t.job = "exit", t.step # "notify.lrange"
      PROVE  ~Uninvited(t.g)'
  <2>1. t.g \in Matches
    BY <1>2, <1>6, Kinds DEF Fits
  <2>2. PICK u \in Queued : u.g = t.g /\ u.job = "exit" /\ u.step # "notify.lrange"
    <3>1. CASE t \in Behind
      BY <1>2, <1>6, <3>1
    <3>2. CASE t \in Elements(f)
      <4>1. GoesOn(t)
        BY <1>1, <1>6, <3>2 DEF Proceeds, Turns
      <4> QED  BY <1>2, <1>6, <4>1 DEF GoesOn, Chain
    <3> QED  BY <1>2, <3>1, <3>2
  <2>3. u.step # "create.hset"
    BY <1>2, <2>2, Kinds
  <2>4. t.g \in minted /\ ~Uninvited(t.g)
    BY <1>3, <2>1, <2>2, <2>3 DEF Births, Begun, Heard
  <2> QED  BY <1>4, <2>1, <2>4
<1>7. online' = online
  BY Tellings
<1>8. (\A c \in Clients : view[c].m \in Matches => ~Uninvited(view[c].m))'
  BY <1>5 DEF Uninvited, Loose
<1> QED  BY <1>6, <1>7, <1>8, RemovesInOrder DEF Heard

LEMMA HeardAdds ==
    ASSUME Ground, Heard, UNCHANGED batch, online' \subseteq online, NEW f, Adds(f),
           \A t \in Elements(f) :
              /\ t.job # "found" /\ t.step \notin RemoveSteps \cup {"member.lrange"}
              /\ t.job = "exit" => ~Uninvited(t.g),
           \A c \in Clients : view'[c].m \in Matches => view'[c].m = view[c].m
    PROVE  Heard'
<1> USE DEF Ground
<1>1. Queued' = Queued \cup Elements(f)
  BY DEF Adds
<1>2. \A m : Uninvited(m)' <=> Uninvited(m)
  BY <1>1 DEF Uninvited, Loose
<1>3. ASSUME NEW c \in online', NEW g \in Matches
      PROVE  (/\ Precedes(RemovesAt(c, g, "remove.lremClient"), ExitsAt(c, g, "get.hget"))
              /\ Precedes(RemovesAt(c, g, "remove.lremGroup"), ExitsAt(c, g, "member.lrange"))
              /\ \/ Absent(RemovesAt(c, g, "remove.lremClient"))
                 \/ Absent(ExitsAt(c, g, "member.lrange")))'
  <2>1. /\ Precedes(RemovesAt(c, g, "remove.lremClient"), ExitsAt(c, g, "get.hget"))
        /\ Precedes(RemovesAt(c, g, "remove.lremGroup"), ExitsAt(c, g, "member.lrange"))
        /\ \/ Absent(RemovesAt(c, g, "remove.lremClient"))
           \/ Absent(ExitsAt(c, g, "member.lrange"))
    BY <1>3 DEF Heard
  <2>2. \A t \in Elements(f) : /\ t \notin RemovesAt(c, g, "remove.lremClient")
                               /\ t \notin RemovesAt(c, g, "remove.lremGroup")
                               /\ t \notin ExitsAt(c, g, "member.lrange")
    BY DEF RemovesAt, ExitsAt, RemoveSteps
  <2>3. Precedes(RemovesAt(c, g, "remove.lremClient"), ExitsAt(c, g, "get.hget"))'
    BY <2>1, <2>2, PrecedesAdds
  <2>4. Precedes(RemovesAt(c, g, "remove.lremGroup"), ExitsAt(c, g, "member.lrange"))'
    BY <2>1, <2>2, PrecedesAdds
  <2>5. (\/ Absent(RemovesAt(c, g, "remove.lremClient"))
         \/ Absent(ExitsAt(c, g, "member.lrange")))'
    <3>1. /\ RemovesAt(c, g, "remove.lremClient")' = RemovesAt(c, g, "remove.lremClient")
          /\ ExitsAt(c, g, "member.lrange")' = ExitsAt(c, g, "member.lrange")
      BY DEF RemovesAt, ExitsAt, Exits
    <3> QED  BY <1>1, <2>1, <2>2, <3>1 DEF Absent
  <2> QED  BY <2>3, <2>4, <2>5
<1>4. (\A c \in Clients : view[c].m \in Matches => ~Uninvited(view[c].m))'
  <2>1. \A c \in Clients, m \in Matches : view'[c].m = m => ~Uninvited(m)'
    BY <1>2 DEF Heard
  <2> QED  BY <2>1 DEF Uninvited, Loose
<1>5. \A t \in Queued' : t.job = "exit" /\ t.step # "notify.lrange" => ~Uninvited(t.g)'
  BY <1>1, <1>2 DEF Heard
<1> QED  BY <1>3, <1>4, <1>5 DEF Heard

LEMMA HeardClient ==
    ASSUME Ground, Calm, Rooms, NEW d \in Clients, ClientStep(d)
    PROVE  Heard'
<1> USE DEF Ground, Sends
<1>1. MaxPending = 1 /\ "leave" \notin Ops /\ Heard
  BY DEF Calm, Rooms
<1>2. PICK u : Sends(d, u)
  BY <1>1, ClientSends
<1>3. Elements(<<u>>) = {u}
  BY Few
<1>4. batch' = batch /\ online' \subseteq online /\ \A c \in Clients \ {d} : view'[c] = view[c]
  BY <1>1, ClientSends DEF runVars
<1>5. \A c \in Clients : view'[c].m \in Matches => view'[c].m = view[c].m
  BY <1>2, <1>4, Names DEF NoView
<1>6. u.job = "exit" => ~Uninvited(u.g)
  BY <1>1, <1>2, ViewSet DEF Heard
<1>7. u.job # "found" /\ u.step \notin RemoveSteps \cup {"member.lrange"}
  BY <1>2 DEF RemoveSteps
<1> QED  BY <1>1, <1>2, <1>3, <1>4, <1>5, <1>6, <1>7, HeardAdds

LEMMA HeardUntimed ==
    ASSUME Ground, Calm, Rooms, UntimedStep
    PROVE  Heard'
<1> USE DEF Ground
<1>1. Heard
  BY DEF Rooms
<1>2. PICK f \in Seq(Good) :
         /\ Adds(f)
         /\ \A t \in Elements(f) :
               \/ t.step = "mm.lrange" /\ t.job = "match" /\ t.g = Queue /\ t.for \in RunIds
               \/ t.step = "mmc.llen" /\ t.job = "start" /\ t.g \in confirming
               \/ /\ t.step \in {"mmc.del", "notify.lrange"} /\ t.job = "disband"
                  /\ t.g \in confirming
               \/ t.step = "erase.lrangeGroup" /\ t.job = "disband" /\ t.g \in timers
  BY UntimedAdds
<1>3. UNCHANGED <<batch, online, view>>
  BY UntimedAdds DEF clientVars
<1>4. \A t \in Elements(f) : /\ t.job \notin {"found", "exit"}
                             /\ t.step \notin RemoveSteps \cup {"member.lrange"}
  BY <1>2 DEF RemoveSteps
<1> QED  BY <1>1, <1>2, <1>3, <1>4, HeardAdds

-------------------------------------------------------------------------------
(* What the clients know. *)

(* The command Redis runs next is the check of c's EXIT, which will succeed, *)
(* or a broadcast to a group that lists c.                                   *)
ChecksOut(c, g) ==
    /\ Current.step = "member.lrange" /\ Current.job = "exit" /\ Current.c = c /\ Current.g = g
    /\ members[g][c] > 0

Hears(c, g, job) ==
    /\ Current.step = "notify.lrange" /\ Current.job = job /\ Current.g = g /\ g \in Matches
    /\ members[g][c] > 0

LEMMA RemoveEndRuns ==
    ASSUME TypeInv, NEW s \in Servers, RemoveEnd(s)
    PROVE  Current.step = "remove.lremGroup"
<1>1. pipe[s] = Pipeline
  BY OneServer DEF Pipeline
<1> QED  BY <1>1 DEF RemoveEnd, RemoveWriteGroup, Running, Current

LEMMA HearsWhat ==
    ASSUME TypeInv, NEW s \in Servers, ServerStep(s), \A t \in Queued : t.job # "leave",
           NEW c \in online
    PROVE  \/ /\ view'[c] = view[c]
              /\ ~ChecksOut(c, view[c].m) /\ ~Hears(c, view[c].m, "disband")
           \/ view'[c].at = "ignored" /\ view'[c].m = None /\ view[c].at = "searching"
           \/ /\ view'[c].at = "free" /\ view'[c].m = None /\ view[c].m \in Matches
              /\ ChecksOut(c, view[c].m) \/ Hears(c, view[c].m, "disband")
           \/ view'[c].at = "found" /\ view'[c].m = Current.g /\ Hears(c, Current.g, "found")
           \/ view'[c].at = "playing" /\ view'[c].m = Current.g /\ Hears(c, Current.g, "start")
<1>1. PICK f : Proceeds(f)
  BY ServerProceeds
<1>2. Current \in Good /\ Current \in Queued /\ c \in Clients
  BY <1>1, Behindhand, Head1, TypesNow
<1>3. CASE Current.step = "search.lrange"
  <2>1. SearchCheck(s)
    BY <1>3, StepSays
  <2> QED  BY <1>2, <1>3, <2>1, SearchDoes, ToldOne DEF ChecksOut, Hears
<1>4. CASE Current.step = "member.lrange"
  <2>1. MemberCheck(s)
    BY <1>4, EachStepSays
  <2>2. Current.job \in {"confirm", "exit"} /\ Current.g \in Matches
    BY <2>1, MemberDoes
  <2>3. CASE Current.job = "exit" /\ members[Current.g][Current.c] > 0
    <3>1. view' = IF Current.c \in online /\ view[Current.c].m = Current.g
                  THEN Told("free", None, {Current.c}) ELSE view
      BY <2>1, <2>3, MemberDoes
    <3>2. CASE Current.c = c /\ view[c].m = Current.g
      <4>1. view' = Told("free", None, {c})
        BY <3>1, <3>2
      <4>2. view'[c].at = "free" /\ view'[c].m = None
        BY <1>2, <4>1, ToldOne
      <4> QED  BY <1>4, <2>2, <2>3, <3>2, <4>2 DEF ChecksOut
    <3>3. CASE ~(Current.c = c /\ view[c].m = Current.g)
      <4>1. view'[c] = view[c]
        BY <1>2, <3>1, <3>3, ToldOne
      <4> QED  BY <1>4, <3>3, <4>1 DEF ChecksOut, Hears
    <3> QED  BY <3>2, <3>3
  <2>4. CASE ~(Current.job = "exit" /\ members[Current.g][Current.c] > 0)
    <3>1. view' = view
      BY <2>1, <2>2, <2>4, MemberDoes
    <3> QED  BY <1>4, <2>4, <3>1 DEF ChecksOut, Hears
  <2> QED  BY <2>3, <2>4
<1>5. CASE Current.step = "notify.lrange"
  <2>1. NotifyGroup(s)
    BY <1>5, StepSays
  <2>2. /\ Current.job \in {"confirm", "exit", "close", "found", "start", "disband"}
        /\ Current.job # "close" => Current.g \in Matches
    BY <2>1, NotifyDoes
  <2>3. ~ChecksOut(c, view[c].m)
    BY <1>5 DEF ChecksOut
  <2>4. CASE Current.job = "found"
    <3>1. view' = Told("found", Current.g, MembersOf(Current.g) \cap online)
      BY <2>1, <2>4, NotifyDoes
    <3>2. CASE members[Current.g][c] > 0
      <4>1. c \in MembersOf(Current.g) \cap online
        BY <1>2, <3>2 DEF MembersOf
      <4>2. view'[c].at = "found" /\ view'[c].m = Current.g
        BY <1>2, <3>1, <4>1, ToldOne
      <4> QED  BY <1>5, <2>2, <2>4, <3>2, <4>2 DEF Hears
    <3>3. CASE ~(members[Current.g][c] > 0)
      <4>1. c \notin MembersOf(Current.g) \cap online
        BY <3>3 DEF MembersOf
      <4>2. view'[c] = view[c]
        BY <1>2, <3>1, <4>1, ToldOne
      <4> QED  BY <2>3, <2>4, <4>2 DEF Hears
    <3> QED  BY <3>2, <3>3
  <2>5. CASE Current.job = "start"
    <3>1. view' = Told("playing", Current.g, MembersOf(Current.g) \cap online)
      BY <2>1, <2>5, NotifyDoes
    <3>2. CASE members[Current.g][c] > 0
      <4>1. c \in MembersOf(Current.g) \cap online
        BY <1>2, <3>2 DEF MembersOf
      <4>2. view'[c].at = "playing" /\ view'[c].m = Current.g
        BY <1>2, <3>1, <4>1, ToldOne
      <4> QED  BY <1>5, <2>2, <2>5, <3>2, <4>2 DEF Hears
    <3>3. CASE ~(members[Current.g][c] > 0)
      <4>1. c \notin MembersOf(Current.g) \cap online
        BY <3>3 DEF MembersOf
      <4>2. view'[c] = view[c]
        BY <1>2, <3>1, <4>1, ToldOne
      <4> QED  BY <2>3, <2>5, <4>2 DEF Hears
    <3> QED  BY <3>2, <3>3
  <2>6. CASE Current.job = "disband"
    <3> DEFINE freed == {d \in MembersOf(Current.g) \cap online : view[d].m = Current.g}
    <3>1. view' = Told("free", None, freed)
      BY <2>1, <2>6, NotifyDoes
    <3>2. CASE members[Current.g][c] > 0 /\ view[c].m = Current.g
      <4>1. c \in freed
        BY <1>2, <3>2 DEF MembersOf
      <4> HIDE DEF freed
      <4>2. view'[c].at = "free" /\ view'[c].m = None
        BY <1>2, <3>1, <4>1, ToldOne
      <4> QED  BY <1>5, <2>2, <2>6, <3>2, <4>2 DEF Hears
    <3>3. CASE ~(members[Current.g][c] > 0 /\ view[c].m = Current.g)
      <4>1. c \notin freed
        BY <3>3 DEF MembersOf
      <4> HIDE DEF freed
      <4>2. view'[c] = view[c]
        BY <1>2, <3>1, <4>1, ToldOne
      <4> QED  BY <2>3, <3>3, <4>2 DEF Hears
    <3> QED  BY <3>2, <3>3
  <2>7. CASE Current.job \notin {"found", "start", "disband"}
    <3>1. view' = view
      BY <2>1, <2>7, NotifyDoes
    <3> QED  BY <2>3, <2>7, <3>1 DEF Hears
  <2> QED  BY <2>4, <2>5, <2>6, <2>7
<1>6. CASE Current.step = "remove.lremGroup"
  <2>1. RemoveEnd(s)
    BY <1>6, StepSays
  <2>2. view' = view
    BY <1>2, <2>1, RemoveEndDoes
  <2> QED  BY <1>6, <2>2 DEF ChecksOut, Hears
<1>7. CASE Current.step \notin {"search.lrange", "member.lrange", "notify.lrange", "remove.lremGroup"}
  <2>1. ~SearchCheck(s) /\ ~MemberCheck(s) /\ ~NotifyGroup(s) /\ ~RemoveEnd(s)
    BY <1>7, SearchDoes, MemberDoes, NotifyDoes, RemoveEndRuns
  <2>2. view' = view
    <3>1. CASE RequestStep(s)
      BY <2>1, <3>1, GetDoes, ReadConfirmationsDoes, AddConfirmationDoes,
         ExpireConfirmationsDoes, CloseCheckDoes, LeaveAllDoes DEF RequestStep, clientVars
    <3>2. CASE MatchQueue(s)
      BY <3>2, QueueCut DEF clientVars
    <3>3. CASE ~RequestStep(s) /\ ~MatchQueue(s)
      BY <2>1, <3>3 DEF ServerStep, IntervalStep, CreateEntry, CheckSize, EraseConfirmations,
                  RemoveBegin, Push, Erase, clientVars
    <3> QED  BY <3>1, <3>2, <3>3
  <2> QED  BY <1>7, <2>2 DEF ChecksOut, Hears
<1> QED  BY <1>3, <1>4, <1>5, <1>6, <1>7

(* Who is out of the queue stays out. *)
LEMMA OutServer ==
    ASSUME Ground, Calm, Rooms, NEW s \in Servers, ServerStep(s), NEW c \in Clients, Out(c)
    PROVE  Out(c)'
<1> USE DEF Ground
<1>1. PICK f : Proceeds(f)
  BY ServerProceeds
<1>2. /\ Queued' = Behind \cup Elements(f) /\ Queued = {Current} \cup Behind /\ Current \in Queued
  BY <1>1, Behindhand
<1>3. Placed /\ Queue \in Groups
  BY Names DEF Rooms
<1>4. \A t \in Queued : t \notin Searches(c)
  BY DEF Out, Absent
<1>5. \A t \in Queued' : t \notin Searches(c)'
  <2>1. Searches(c)' = Searches(c)
    BY DEF Searches
  <2> QED  BY <1>1, <1>2, <1>4, <2>1, SearchesGoOn
<1>6. ~JoinsQueue(c) /\ ~JoinsMatch(c, Queue)
  BY <1>2, <1>4, Names DEF JoinsQueue, JoinsMatch
<1>7. groupsOf'[c][Queue] = 0 /\ members'[Queue][c] = 0
  BY <1>3, <1>6, Joins, Enters DEF Out
<1>8. ~Moving(c)'
  BY MovingServer DEF Out
<1> QED  BY <1>5, <1>7, <1>8 DEF Out, Absent

(* A match that has been handed over gets no new members. *)
LEMMA NoNewMember ==
    ASSUME Ground, NEW s \in Servers, ServerStep(s), NEW c \in Clients, NEW g \in Matches, Loose(g)
    PROVE  members'[g][c] > 0 => members[g][c] > 0
<1> USE DEF Ground
<1>1. PICK f : Proceeds(f)
  BY ServerProceeds
<1>2. Current \in Good /\ Current \in Queued
  BY <1>1, Behindhand, Head1
<1>3. ~(Current.step = "push.lpushGroup" /\ Current.g = g)
  <2>1. SUFFICES ASSUME Current.step = "push.lpushGroup", Current.g = g PROVE FALSE
    OBVIOUS
  <2>2. Current.for = g
    BY <1>2, <2>1, Names, Kinds DEF Fits, PushSteps, RemoveSteps
  <2> QED  BY <1>2, <2>2, ForRun
<1>4. g \in Groups
  BY Names
<1> QED  BY <1>3, <1>4, ServerWrites

(* A remove that has begun comes to its end; one begins with a check. *)
LEMMA LeavingServer ==
    ASSUME Ground, Rooms, NEW s \in Servers, ServerStep(s), NEW c \in online, NEW g \in Matches
    PROVE  /\ Leaving(c, g) => Leaving(c, g)' \/ members'[g][c] = 0
           /\ Leaving(c, g)' => Leaving(c, g) \/ ChecksOut(c, g)
           /\ ChecksOut(c, g) => Leaving(c, g)'
           /\ groupsOf[c][g] > 0 =>
                 \/ groupsOf'[c][g] > 0 \/ Leaving(c, g)'
                 \/ Current.step = "erase.lremClient" /\ Current.g = g
<1> USE DEF Ground
<1>1. PICK f : Proceeds(f)
  BY ServerProceeds
<1>2. /\ Queued' = Behind \cup Elements(f) /\ Queued = {Current} \cup Behind
      /\ Current \in Good /\ Current \in Queued
  BY <1>1, Behindhand, Head1
<1>3. c \in Clients /\ g \in Groups
  BY TypesNow, Names
<1>4. ASSUME Current.step = "remove.lremClient", Current.c = c, Current.g = g
      PROVE  Leaving(c, g)'
  <2>1. Runs(<<At(Current, "remove.lremGroup")>>)
    BY <1>4, StepSays, RemoveBeginDoes
  <2>2. At(Current, "remove.lremGroup") \in Queued'
    BY <2>1, Few DEF Runs
  <2> QED  BY <1>2, <1>4, <2>2, AtFields DEF Leaving, RemoveSteps
<1>5. ASSUME Leaving(c, g) PROVE Leaving(c, g)' \/ members'[g][c] = 0
  <2>1. PICK t \in Queued : t.c = c /\ t.g = g /\ t.step \in RemoveSteps
    BY <1>5 DEF Leaving
  <2>2. CASE t \in Behind
    BY <1>2, <2>1, <2>2 DEF Leaving
  <2>3. CASE t = Current /\ t.step = "remove.lremClient"
    BY <1>4, <2>1, <2>3
  <2>4. CASE t = Current /\ t.step = "remove.lremGroup"
    BY <1>3, <2>1, <2>4, StepSays, RemoveEndDoes
  <2> QED  BY <1>2, <2>1, <2>2, <2>3, <2>4 DEF RemoveSteps
<1>6. ASSUME Leaving(c, g)' PROVE Leaving(c, g) \/ ChecksOut(c, g)
  <2>1. PICK t \in Queued' : t.c = c /\ t.g = g /\ t.step \in RemoveSteps
    BY <1>6 DEF Leaving
  <2>2. CASE t \in Behind
    BY <1>2, <2>1, <2>2 DEF Leaving
  <2>3. CASE t \in Elements(f)
    <3>1. \A u \in Queued : u.job # "leave"
      BY DEF Rooms, Orderly
    <3>2. /\ Current.c = c /\ Current.g = g /\ Current.job = "exit"
          /\ \/ Current.step = "member.lrange" /\ members[g][c] > 0
             \/ Current.step = "remove.lremClient"
      BY <1>1, <2>1, <2>3, <3>1, RemovesStart
    <3> QED  BY <1>2, <3>2 DEF Leaving, ChecksOut, RemoveSteps
  <2> QED  BY <1>2, <2>2, <2>3
<1>7. ASSUME ChecksOut(c, g) PROVE Leaving(c, g)'
  <2>1. MemberCheck(s)
    BY <1>7, EachStepSays DEF ChecksOut
  <2>2. Runs(<<At(Current, "remove.lremClient"), At(Current, "notify.lrange")>>)
    BY <1>7, <2>1, MemberDoes DEF ChecksOut
  <2>3. At(Current, "remove.lremClient") \in Queued'
    BY <2>2, Few DEF Runs
  <2> QED  BY <1>2, <1>7, <2>3, AtFields DEF Leaving, RemoveSteps, ChecksOut
<1>8. groupsOf[c][g] > 0 =>
         \/ groupsOf'[c][g] > 0 \/ Leaving(c, g)'
         \/ Current.step = "erase.lremClient" /\ Current.g = g
  <2>1. groupsOf[c][g] \in Nat
    BY <1>3, Counted
  <2> QED  BY <1>3, <1>4, <2>1, ServerWrites
<1> QED  BY <1>5, <1>6, <1>7, <1>8

(* An EXIT that succeeds, or a DISBAND that is heeded, finds the client in  *)
(* the match it is about.                                                   *)
LEMMA FreedFromMatch ==
    ASSUME Ground, Calm, Rooms, Pipeline # <<>>, NEW c \in online, NEW g \in Matches, view[c].m = g,
           ChecksOut(c, g) \/ Hears(c, g, "disband")
    PROVE  groupsOf[c][g] > 0 /\ Out(c)
<1> USE DEF Ground
<1>1. c \in Clients /\ view[c].at \in InMatch
  BY TypesNow, ViewSet, Names
<1>2. Knows(c) /\ Heeds(c, g) /\ ~Uninvited(g)
  BY <1>1 DEF Rooms, Believed, Knows, Heard
<1>3. members[g][c] > 0
  BY DEF ChecksOut, Hears
<1>4. CASE view[c].at \in {"found", "confirmed"}
  BY <1>2, <1>3, <1>4 DEF Knows, Heeds
<1>5. CASE view[c].at = "playing"
  <2>1. verdicts[g] = <<"start">>
    BY <1>1, <1>5 DEF Rooms, Disbanding
  <2>2. ~Dead(g)
    <3>1. "start" # "disband"
      OBVIOUS
    <3> QED  BY <2>1, <3>1 DEF Dead
  <2>3. Current \in Queued /\ Current \in Good
    BY Head1
  <2>4. ~Hears(c, g, "disband")
    BY <2>2, <2>3 DEF Rooms, Disbanding, Hears
  <2>5. ChecksOut(c, g)
    BY <2>4
  <2>6. Current \in ExitsAt(c, g, "member.lrange")
    BY <2>3, <2>5 DEF ChecksOut, ExitsAt, Exits
  <2>7. /\ Precedes(RemovesAt(c, g, "remove.lremGroup"), ExitsAt(c, g, "member.lrange"))
        /\ \/ Absent(RemovesAt(c, g, "remove.lremClient"))
           \/ Absent(ExitsAt(c, g, "member.lrange"))
    BY DEF Rooms, Heard
  <2>8. Absent(RemovesAt(c, g, "remove.lremGroup"))
    BY <2>6, <2>7, Foremost
  <2>9. Absent(RemovesAt(c, g, "remove.lremClient"))
    BY <2>3, <2>6, <2>7 DEF Absent
  <2>10. ~Leaving(c, g)
    BY <2>8, <2>9, AllGood DEF Leaving, Absent, RemovesAt, RemoveSteps
  <2> QED  BY <1>2, <1>3, <2>2, <2>10 DEF Knows
<1> QED  BY <1>1, <1>4, <1>5 DEF InMatch

(* FOUND finds the client in the match, and nowhere else. *)
LEMMA FoundInMatch ==
    ASSUME Ground, Calm, Rooms, NEW s \in Servers, ServerStep(s), NEW c \in online, NEW g \in Matches,
           Hears(c, g, "found")
    PROVE  /\ groupsOf[c][g] > 0 /\ Out(c)' /\ ~Leaving(c, g)
           /\ Dead(g) => ~Absent(Farewells(g))
<1> USE DEF Ground
<1>1. PICK f : Proceeds(f)
  BY ServerProceeds
<1>2. /\ Current \in Good /\ Current \in Queued /\ Queued \subseteq Good /\ Pipeline # <<>>
      /\ Queued' = Behind \cup Elements(f) /\ Queued = {Current} \cup Behind
  BY <1>1, Behindhand, Head1
<1>3. c \in Clients /\ g \in Groups /\ Queue \in Groups /\ Queue \notin Matches
  BY TypesNow, Names
<1>4. Current.job = "found" /\ Current.g = g /\ Current.step = "notify.lrange" /\ members[g][c] > 0
  BY DEF Hears
<1>5. Uninvited(g) /\ Loose(g) /\ Current \in Invitations(g)
  BY <1>2, <1>4 DEF Uninvited, Unheard, Invitations
<1>6. c \in Range(lobby[g])
  BY <1>3, <1>4 DEF Inviting
<1>7. Carried(c, g) /\ Moving(c)
  BY <1>5, <1>6 DEF Rooms, Placed, Moving
<1>8. \A t \in Queued : t.for # g
  BY <1>5, ForRun
<1>9. Dead(g) => ~Absent(Farewells(g))
  <2>1. ~Absent(Invitations(g))
    BY <1>2, <1>5 DEF Absent
  <2> QED  BY <2>1 DEF Rooms, Disbanding
<1>10. \A t \in Queued : t.g = g =>
          /\ t.step \notin Erasures
          /\ t.c = c => t.step \notin RemoveSteps \cup {"push.lpushGroup"}
  <2>1. SUFFICES ASSUME NEW t \in Queued, t.g = g
                 PROVE  /\ t.step \notin Erasures
                        /\ t.c = c => t.step \notin RemoveSteps \cup {"push.lpushGroup"}
    OBVIOUS
  <2>2. t \in Good /\ t.for # g
    BY <1>2, <1>8
  <2>3. t.step \notin Erasures
    <3>1. SUFFICES ASSUME t.step \in Erasures PROVE FALSE
      OBVIOUS
    <3>2. Dead(g) /\ Absent(Farewells(g))
      BY <2>1, <3>1 DEF Rooms, Disbanding, Erasures, EraseSteps
    <3> QED  BY <1>9, <3>2
  <2>4. t.step # "push.lpushGroup"
    <3>1. SUFFICES ASSUME t.step = "push.lpushGroup" PROVE FALSE
      OBVIOUS
    <3>2. t.job \in {"search", "match"} /\ Fits(t.job, t.step, t.c, t.g, t.for)
      BY <2>2, <3>1, Kinds DEF PushSteps
    <3> QED  BY <1>3, <2>1, <2>2, <3>1, <3>2 DEF Fits, PushSteps, RemoveSteps
  <2>5. t.c = c => t.step \notin RemoveSteps
    <3>1. SUFFICES ASSUME t.c = c, t.step \in RemoveSteps PROVE FALSE
      OBVIOUS
    <3>2. t.job \in {"leave", "exit", "close", "match"} /\ Fits(t.job, t.step, t.c, t.g, t.for)
      BY <2>2, <3>1, Kinds
    <3>3. t.job # "close"
      BY <3>1 DEF Unheard
    <3>4. t.job # "leave"
      BY DEF Rooms, Orderly
    <3>5. t.job # "exit"
      BY <1>5, <2>1, <3>1 DEF Rooms, Heard, RemoveSteps
    <3>6. t.job # "match"
      BY <1>3, <2>1, <3>1, <3>2 DEF Fits, PushSteps, RemoveSteps
    <3> QED  BY <3>2, <3>3, <3>4, <3>5, <3>6
  <2> QED  BY <2>3, <2>4, <2>5
<1>11. ~Leaving(c, g)
  BY <1>10 DEF Leaving
<1>12. groupsOf[c][g] > 0
  <2>1. Agrees(c, g) /\ ~Erasing(g)
    BY <1>3, <1>10 DEF Coherent, Erasing
  <2>2. \A i \in DOMAIN Pipeline : ~Owes(Pipeline[i], c, g)
    BY <1>10 DEF Owes, Queued, RemoveSteps
  <2> QED  BY <1>4, <2>1, <2>2 DEF Agrees, Converging
<1>13. members[Queue][c] = 0 /\ groupsOf[c][Queue] = 0
  <2>1. members[Queue][c] \in Nat /\ groupsOf[c][Queue] \in Nat
    BY <1>3, Counted
  <2> QED  BY <1>7, <1>8, <2>1 DEF Carried
<1>14. Runs(<<>>) /\ UNCHANGED <<members, groupsOf, batch>>
  BY <1>4, StepSays, NotifyDoes DEF storeVars, runVars
<1>15. Queued' = Behind
  BY <1>14, Few DEF Runs
<1>16. Absent(Searches(c))'
  <2>1. \A t \in Queued : t \notin Searches(c)
    <3>1. ASSUME NEW t \in Queued, t \in Searches(c) PROVE FALSE
      <4>1. Seeking(t) /\ t.c = c
        BY <3>1 DEF Searches, Rooms, Placed
      <4> QED  BY <1>7, <4>1 DEF Seeking
    <3> QED  BY <3>1
  <2>2. Searches(c)' = Searches(c)
    BY DEF Searches
  <2> QED  BY <1>2, <1>15, <2>1, <2>2 DEF Absent
<1>17. ~Moving(c)'
  <2>1. SUFFICES ASSUME NEW n \in Matches, Uninvited(n)', c \in Range(lobby'[n]) PROVE FALSE
    BY DEF Moving
  <2>2. ~MatchQueue(s)
    BY <1>4, EachStepSays
  <2>3. Uninvited(n) /\ c \in Range(lobby[n])
    BY <1>3, <2>1, <2>2, MovingServer
  <2>4. n = g
    BY <1>5, <1>6, <2>3 DEF Rooms, Filled
  <2>5. \A t \in Behind : t \notin Invitations(g)
    BY <1>2, <1>5, OnlyHead DEF Rooms, Orderly
  <2>6. Loose(n)'
    BY <1>5, <1>14, <2>4 DEF Loose
  <2> QED  BY <1>2, <1>15, <2>1, <2>4, <2>5, <2>6 DEF Uninvited, Invitations
<1> QED  BY <1>9, <1>11, <1>12, <1>13, <1>14, <1>16, <1>17 DEF Out

(* Who is told nothing new about his match still knows about it. *)
LEMMA HeedsServer ==
    ASSUME Ground, Calm, Rooms, NEW s \in Servers, ServerStep(s), NEW c \in online, NEW g \in Matches,
           view'[c].m = g
    PROVE  Heeds(c, g)'
<1> USE DEF Ground
<1>1. PICK f : Proceeds(f)
  BY ServerProceeds
<1>2. /\ Current \in Good /\ Current \in Queued /\ Pipeline # <<>>
      /\ Queued' = Behind \cup Elements(f) /\ Queued = {Current} \cup Behind
  BY <1>1, Behindhand, Head1
<1>3. c \in Clients /\ g \in Groups /\ g # None
  BY TypesNow, Names
<1>4. \/ /\ view'[c] = view[c] /\ view[c].m = g
         /\ ~ChecksOut(c, g) /\ ~Hears(c, g, "disband")
      \/ view'[c].at = "found" /\ Hears(c, g, "found")
      \/ view'[c].at = "playing" /\ Hears(c, g, "start")
  <2>1. \A t \in Queued : t.job # "leave"
    BY DEF Rooms, Orderly
  <2> QED  BY <1>3, <2>1, HearsWhat
<1>5. members[g][c] \in Nat /\ members'[g][c] \in Nat /\ groupsOf[c][g] \in Nat
  <2>1. TypeInv'
    BY TypeServer
  <2>2. members' \in [Groups -> [Clients -> Nat]]
    BY <2>1 DEF TypeInv, TypeOK
  <2> QED  BY <1>3, <2>2, TypesNow
<1>6. Loose(g)
  BY <1>2, <1>3, <1>4 DEF Unheard, Hears
<1>7. members'[g][c] > 0 => members[g][c] > 0
  BY <1>3, <1>6, NoNewMember
<1>8. Dead(g) <=> Dead(g)'
  BY DecidedStays
<1>9. ASSUME view'[c].at = "playing", Hears(c, g, "start")
      PROVE  verdicts[g] = <<"start">> /\ ~Dead(g) /\ ~Uninvited(g) /\ Knows(c)
  <2>1. Current.job = "start" /\ Current.g = g /\ Current.step = "notify.lrange"
    BY <1>9 DEF Hears
  <2>2. verdicts[g] = <<"start">>
    BY <1>2, <2>1 DEF Rooms, Disbanding
  <2>3. ~Dead(g)
    <3>1. "start" # "disband"
      OBVIOUS
    <3> QED  BY <2>2, <3>1 DEF Dead
  <2>4. Current \in Decisions(g)
    BY <1>2, <2>1 DEF Decisions, EraseSteps
  <2>5. Absent(Invitations(g))
    BY <1>2, <2>4, Foremost DEF Rooms, Orderly
  <2>6. ~Uninvited(g)
    BY <1>6, <2>5, AllGood DEF Uninvited, Absent, Invitations
  <2> QED  BY <2>2, <2>3, <2>6 DEF Rooms, Believed
<1>10. ASSUME members'[g][c] > 0, Dead(g) PROVE ~Absent(Farewells(g))
  <2>1. CASE view'[c] = view[c] /\ view[c].m = g
    BY <1>7, <1>10, <2>1 DEF Rooms, Believed, Knows, Heeds
  <2>2. CASE Hears(c, g, "found")
    BY <1>10, <2>2, FoundInMatch
  <2> QED  BY <1>4, <1>9, <1>10, <2>1, <2>2
<1>11. members'[g][c] > 0 /\ Dead(g)' => ~Absent(Farewells(g))'
  <2>1. SUFFICES ASSUME members'[g][c] > 0, Dead(g)' PROVE ~Absent(Farewells(g))'
    OBVIOUS
  <2>2. PICK t \in Queued : t \in Farewells(g)
    BY <1>8, <1>10, <2>1 DEF Absent
  <2>3. t # Current
    <3>1. SUFFICES ASSUME t = Current PROVE FALSE
      OBVIOUS
    <3>2. Hears(c, g, "disband") /\ Current.job = "disband"
      BY <1>7, <2>1, <2>2, <3>1 DEF Hears, Farewells
    <3> QED  BY <1>4, <3>2 DEF Hears
  <2>4. t \in Queued'
    BY <1>2, <2>3
  <2>5. Farewells(g)' = Farewells(g)
    BY DEF Farewells
  <2> QED  BY <2>2, <2>4, <2>5 DEF Absent
<1>12. ASSUME view'[c].at \in {"found", "confirmed"}
       PROVE  ~Leaving(c, g)' /\ (members'[g][c] > 0 => groupsOf'[c][g] > 0)
  <2>1. /\ ~Leaving(c, g) /\ ~ChecksOut(c, g)
        /\ members[g][c] > 0 => groupsOf[c][g] > 0
    <3>1. CASE view'[c] = view[c] /\ view[c].m = g
      BY <1>4, <1>12, <3>1 DEF Rooms, Believed, Knows, Heeds, Hears, ChecksOut
    <3>2. CASE Hears(c, g, "found")
      BY <3>2, FoundInMatch DEF Hears, ChecksOut
    <3> QED  BY <1>4, <1>12, <3>1, <3>2
  <2>2. ~Leaving(c, g)'
    BY <2>1, LeavingServer
  <2>3. ASSUME members'[g][c] > 0, ~(groupsOf'[c][g] > 0) PROVE FALSE
    <3>1. groupsOf[c][g] > 0
      BY <1>7, <2>1, <2>3
    <3>2. Current.step = "erase.lremClient" /\ Current.g = g
      BY <2>2, <2>3, <3>1, LeavingServer
    <3>3. Dead(g) /\ Absent(Farewells(g))
      BY <1>2, <3>2 DEF Rooms, Disbanding, EraseSteps, Erasures
    <3> QED  BY <1>10, <2>3, <3>3
  <2> QED  BY <2>2, <2>3
<1>13. ASSUME view'[c].at = "playing"
       PROVE  Out(c)' \/ members'[g][c] = 0 \/ Leaving(c, g)'
  <2>1. Out(c) \/ members[g][c] = 0 \/ Leaving(c, g)
    <3>1. CASE view'[c] = view[c] /\ view[c].m = g
      BY <1>13, <3>1 DEF Rooms, Believed, Knows, Heeds
    <3>2. CASE Hears(c, g, "start")
      <4>1. ~Dead(g) /\ ~Uninvited(g) /\ Knows(c) /\ members[g][c] > 0
        BY <1>9, <1>13, <3>2 DEF Hears
      <4> QED  BY <4>1 DEF Knows
    <3> QED  BY <1>4, <1>13, <3>1, <3>2
  <2>2. CASE Out(c)
    BY <1>3, <2>2, OutServer
  <2>3. CASE members[g][c] = 0
    BY <1>5, <1>7, <2>3
  <2>4. CASE Leaving(c, g)
    BY <2>4, LeavingServer
  <2> QED  BY <2>1, <2>2, <2>3, <2>4
<1> QED  BY <1>11, <1>12, <1>13 DEF Heeds

LEMMA OutAgain ==
    ASSUME Ground, Calm, Rooms, NEW s \in Servers, ServerStep(s), NEW c \in online,
           view'[c].at \in {"free", "found", "confirmed"}
    PROVE  Out(c)'
<1> USE DEF Ground
<1>1. PICK f : Proceeds(f)
  BY ServerProceeds
<1>2. Current \in Good /\ Current \in Queued /\ Pipeline # <<>> /\ c \in Clients
  BY <1>1, Behindhand, Head1, TypesNow
<1>3. \A t \in Queued : t.job # "leave"
  BY DEF Rooms, Orderly
<1>4. CASE view'[c] = view[c]
  <2>1. Out(c)
    BY <1>4 DEF Rooms, Believed, Knows
  <2> QED  BY <1>2, <2>1, OutServer
<1>5. CASE /\ view[c].m \in Matches
           /\ ChecksOut(c, view[c].m) \/ Hears(c, view[c].m, "disband")
  <2>1. Out(c)
    BY <1>2, <1>5, FreedFromMatch
  <2> QED  BY <1>2, <2>1, OutServer
<1>6. CASE Hears(c, Current.g, "found")
  <2>1. Current.g \in Matches
    BY <1>6 DEF Hears
  <2> QED  BY <1>6, <2>1, FoundInMatch
<1> QED  BY <1>3, <1>4, <1>5, <1>6, HearsWhat

(* A member who is not leaving has been told. *)
LEMMA MembersServer ==
    ASSUME Ground, Calm, Rooms, NEW s \in Servers, ServerStep(s), NEW c \in online, NEW g \in Matches,
           ~Uninvited(g)', ~Dead(g)', members'[g][c] > 0
    PROVE  Leaving(c, g)' \/ (groupsOf'[c][g] > 0 /\ Out(c)' /\ view'[c].at \in InMatch)
<1> USE DEF Ground
<1>1. PICK f : Proceeds(f)
  BY ServerProceeds
<1>2. /\ Current \in Good /\ Current \in Queued /\ Pipeline # <<>>
  BY <1>1, Behindhand, Head1
<1>3. c \in Clients /\ g \in Groups
  BY TypesNow, Names
<1>4. CASE Uninvited(g)
  <2>1. Current.job = "found" /\ Current.g = g
    BY <1>4, UninvitedServer
  <2>2. Current.step = "notify.lrange"
    BY <1>2, <2>1, Kinds DEF Fits
  <2>3. NotifyGroup(s)
    BY <2>2, StepSays
  <2>4. /\ UNCHANGED storeVars
        /\ view' = Told("found", g, MembersOf(g) \cap online)
    BY <2>1, <2>3, NotifyDoes
  <2>5. members[g][c] > 0 /\ groupsOf'[c][g] = groupsOf[c][g]
    BY <2>4 DEF storeVars
  <2>6. Hears(c, g, "found")
    BY <2>1, <2>2, <2>5 DEF Hears
  <2>7. c \in MembersOf(g) \cap online
    BY <1>3, <2>5 DEF MembersOf
  <2>8. view'[c].at = "found"
    BY <1>3, <2>4, <2>7, ToldOne
  <2> QED  BY <2>5, <2>6, <2>8, FoundInMatch DEF InMatch
<1>5. CASE ~Uninvited(g)
  <2>1. Loose(g) /\ ~Dead(g)
    BY <1>5, DecidedStays DEF Uninvited
  <2>2. members[g][c] > 0
    BY <1>3, <2>1, NoNewMember
  <2>3. Leaving(c, g) => Leaving(c, g)'
    BY LeavingServer
  <2>4. SUFFICES ASSUME groupsOf[c][g] > 0, Out(c), view[c].at \in InMatch, ~Leaving(c, g)'
                 PROVE  groupsOf'[c][g] > 0 /\ Out(c)' /\ view'[c].at \in InMatch
    BY <1>5, <2>1, <2>2, <2>3 DEF Rooms, Believed, Knows
  <2>5. Out(c)'
    BY <1>3, <2>4, OutServer
  <2>6. groupsOf'[c][g] > 0
    <3>1. ~(Current.step = "erase.lremClient" /\ Current.g = g)
      BY <1>2, <2>1 DEF Rooms, Disbanding, EraseSteps
    <3> QED  BY <2>4, <3>1, LeavingServer
  <2>7. view'[c].at \in InMatch
    <3>1. \A t \in Queued : t.job # "leave"
      BY DEF Rooms, Orderly
    <3>2. view[c].at # "searching"
      BY <2>4 DEF InMatch
    <3>3. ASSUME NEW h \in Matches, view[c].m = h, ChecksOut(c, h) \/ Hears(c, h, "disband")
          PROVE  FALSE
      <4>1. groupsOf[c][h] > 0
        BY <1>2, <3>3, FreedFromMatch
      <4>2. h = g
        <5>1. h \in Groups /\ Alone(c)
          BY <1>3, Names DEF Rooms, Placed
        <5> QED  BY <1>3, <2>4, <4>1, <5>1 DEF Alone
      <4>3. ~ChecksOut(c, g)
        BY <2>4, LeavingServer
      <4>4. ~Hears(c, g, "disband")
        BY <1>2, <2>1 DEF Rooms, Disbanding, Hears
      <4> QED  BY <3>3, <4>2, <4>3, <4>4
    <3>4. ~(/\ view[c].m \in Matches
            /\ ChecksOut(c, view[c].m) \/ Hears(c, view[c].m, "disband"))
      BY <3>3
    <3> QED  BY <2>4, <3>1, <3>2, <3>4, HearsWhat DEF InMatch
  <2> QED  BY <2>5, <2>6, <2>7
<1> QED  BY <1>4, <1>5

LEMMA BelievedServer ==
    ASSUME Ground, Calm, Rooms, NEW s \in Servers, ServerStep(s)
    PROVE  Believed'
<1> USE DEF Ground
<1>1. online' = online
  BY Tellings
<1>2. SUFFICES ASSUME NEW c \in online PROVE Knows(c)'
  BY <1>1 DEF Believed
<1>3. (view[c].at \in {"free", "found", "confirmed"} => Out(c))'
  BY OutAgain
<1>4. ASSUME NEW g \in Matches PROVE (view[c].m = g => Heeds(c, g))'
  BY <1>4, HeedsServer
<1>5. ASSUME NEW g \in Matches
      PROVE  (~Uninvited(g) /\ ~Dead(g) /\ members[g][c] > 0 =>
                 \/ Leaving(c, g)
                 \/ groupsOf[c][g] > 0 /\ Out(c) /\ view[c].at \in InMatch)'
  BY <1>5, MembersServer
<1> QED  BY <1>3, <1>4, <1>5 DEF Knows

(* New commands that tell him nothing change nothing of it. *)
LEMMA KnowsAdds ==
    ASSUME Ground, NEW c \in Clients, Knows(c), UNCHANGED <<members, groupsOf, batch, lobby>>,
           NEW f, Adds(f),
           \A t \in Elements(f) : /\ t \notin Searches(c) /\ t.job # "found"
                                  /\ t.step \notin RemoveSteps,
           \A m \in Matches : /\ Dead(m) => Dead(m)'
                              /\ Dead(m)' => Dead(m) \/ \E t \in Elements(f) : t \in Farewells(m),
           view'[c].m = view[c].m,
           view'[c].at = view[c].at \/ (view[c].at = "found" /\ view'[c].at = "confirmed")
    PROVE  Knows(c)'
<1> USE DEF Ground
<1>1. Queued' = Queued \cup Elements(f)
  BY DEF Adds
<1>2. \A m \in Matches : Uninvited(m)' <=> Uninvited(m)
  BY <1>1 DEF Uninvited, Loose
<1>3. Out(c) => Out(c)'
  <2>1. Moving(c)' <=> Moving(c)
    BY <1>2 DEF Moving
  <2>2. Searches(c)' = Searches(c)
    BY DEF Searches
  <2>3. Absent(Searches(c)) => Absent(Searches(c))'
    BY <1>1, <2>2 DEF Absent
  <2> QED  BY <2>1, <2>3 DEF Out
<1>4. \A g \in Matches : Leaving(c, g)' <=> Leaving(c, g)
  BY <1>1 DEF Leaving
<1>5. ASSUME NEW g \in Matches
      PROVE  /\ ~Absent(Farewells(g)) => ~Absent(Farewells(g))'
             /\ Dead(g)' => Dead(g) \/ ~Absent(Farewells(g))'
  <2>1. Farewells(g)' = Farewells(g)
    BY DEF Farewells
  <2> QED  BY <1>1, <1>5, <2>1 DEF Absent
<1>6. view'[c].at \in {"free", "found", "confirmed"} => Out(c)'
  BY <1>3 DEF Knows
<1>7. ASSUME NEW g \in Matches, view'[c].m = g PROVE Heeds(c, g)'
  <2>1. Heeds(c, g)
    BY <1>7 DEF Knows
  <2>2. (members[g][c] > 0 /\ Dead(g) => ~Absent(Farewells(g)))'
    BY <1>5, <2>1 DEF Heeds
  <2>3. (view[c].at \in {"found", "confirmed"} =>
            ~Leaving(c, g) /\ (members[g][c] > 0 => groupsOf[c][g] > 0))'
    BY <1>4, <2>1 DEF Heeds
  <2>4. (view[c].at = "playing" => Out(c) \/ members[g][c] = 0 \/ Leaving(c, g))'
    BY <1>3, <1>4, <2>1 DEF Heeds
  <2> QED  BY <2>2, <2>3, <2>4 DEF Heeds
<1>8. ASSUME NEW g \in Matches
      PROVE  (~Uninvited(g) /\ ~Dead(g) /\ members[g][c] > 0 =>
                 \/ Leaving(c, g)
                 \/ groupsOf[c][g] > 0 /\ Out(c) /\ view[c].at \in InMatch)'
  BY <1>2, <1>3, <1>4, <1>8 DEF Knows, InMatch
<1> QED  BY <1>6, <1>7, <1>8 DEF Knows

LEMMA BelievedClient ==
    ASSUME Ground, Calm, Rooms, NEW d \in Clients, ClientStep(d)
    PROVE  Believed'
<1> USE DEF Ground
<1>1. /\ UNCHANGED <<storeVars, runVars, roundVars, mmcVars>>
      /\ \A c \in Clients \ {d} : view'[c] = view[c]
      /\ online' \subseteq online /\ \E u : Sends(d, u)
  BY ClientSends DEF Calm
<1>2. PICK u : Sends(d, u)
  BY <1>1
<1>3. UNCHANGED <<members, groupsOf, batch, lobby, verdicts>>
  BY <1>1 DEF storeVars, runVars, roundVars
<1>4. Adds(<<u>>) /\ Elements(<<u>>) = {u} /\ Queued' = Queued \cup {u} /\ u.c = d
  BY <1>2, Few DEF Sends, Adds
<1>5. u.job # "found" /\ u.step \notin RemoveSteps
  BY <1>2 DEF Sends, RemoveSteps
<1>6. \A m \in Matches : Dead(m)' <=> Dead(m)
  BY <1>3 DEF Dead
<1>7. SUFFICES ASSUME NEW c \in Clients, c \in online', c \in online, Knows(c) PROVE Knows(c)'
  BY <1>1, TypesNow DEF Believed, Rooms
<1>8. CASE u \in Searches(c)
  <2>1. c = d /\ u.job = "search"
    BY <1>4, <1>8 DEF Searches
  <2>2. view[c].at = "free" /\ view'[c] = NoView("searching")
    BY <1>2, <2>1 DEF Sends
  <2>3. view'[c].at = "searching" /\ \A g \in Matches : view'[c].m # g
    BY <2>2, Names DEF NoView
  <2>4. \A m \in Matches : Uninvited(m)' <=> Uninvited(m)
    BY <1>3, <1>4, <1>5 DEF Uninvited, Loose
  <2>5. \A g \in Matches : Leaving(c, g) => Leaving(c, g)'
    BY <1>4 DEF Leaving
  <2>6. ASSUME NEW g \in Matches
        PROVE  (~Uninvited(g) /\ ~Dead(g) /\ members[g][c] > 0 =>
                   \/ Leaving(c, g)
                   \/ groupsOf[c][g] > 0 /\ Out(c) /\ view[c].at \in InMatch)'
    BY <1>3, <1>6, <1>7, <2>2, <2>4, <2>5, <2>6 DEF Knows, InMatch
  <2> QED  BY <2>3, <2>6 DEF Knows
<1>9. CASE u \notin Searches(c)
  <2>1. /\ view'[c].m = view[c].m
        /\ view'[c].at = view[c].at \/ (view[c].at = "found" /\ view'[c].at = "confirmed")
    <3>1. CASE c # d
      BY <1>1, <3>1
    <3>2. CASE c = d
      <4>1. u \in Good /\ u.job # "search"
        <5>1. u \in Good
          BY <1>4 DEF Adds, Elements
        <5> QED  BY <1>4, <1>9, <3>2, <5>1 DEF Searches
      <4> QED  BY <1>2, <1>7, <3>2, <4>1 DEF Sends
    <3> QED  BY <3>1, <3>2
  <2> QED  BY <1>3, <1>4, <1>5, <1>6, <1>7, <1>9, <2>1, KnowsAdds
<1> QED  BY <1>8, <1>9

LEMMA BelievedUntimed ==
    ASSUME Ground, Calm, Rooms, UntimedStep
    PROVE  Believed'
<1> USE DEF Ground
<1>1. UNCHANGED <<storeVars, clientVars, minted, lobby, batch>>
  BY UntimedAdds
<1>2. PICK f \in Seq(Good) :
         /\ Adds(f)
         /\ \A t \in Elements(f) :
               \/ t.step = "mm.lrange" /\ t.job = "match" /\ t.g = Queue /\ t.for \in RunIds
               \/ t.step = "mmc.llen" /\ t.job = "start" /\ t.g \in confirming
               \/ /\ t.step \in {"mmc.del", "notify.lrange"} /\ t.job = "disband"
                  /\ t.g \in confirming /\ Dead(t.g)'
               \/ t.step = "erase.lrangeGroup" /\ t.job = "disband" /\ t.g \in timers
         /\ \A m \in Matches :
               \/ verdicts'[m] = verdicts[m] /\ (m \in timers' => m \in timers)
               \/ /\ m \in confirming /\ verdicts[m] = <<>> /\ Dead(m)'
                  /\ \E t \in Elements(f) : t \in Farewells(m)
  BY UntimedAdds
<1>3. UNCHANGED <<members, groupsOf, batch, lobby>> /\ online' = online /\ view' = view
  BY <1>1 DEF storeVars, clientVars
<1>4. \A t \in Elements(f) : /\ \A c \in Clients : t \notin Searches(c)
                             /\ t.job # "found" /\ t.step \notin RemoveSteps
  BY <1>2 DEF Searches, RemoveSteps
<1>5. \A m \in Matches : /\ Dead(m) => Dead(m)'
                         /\ Dead(m)' => Dead(m) \/ \E t \in Elements(f) : t \in Farewells(m)
  BY <1>2 DEF Dead
<1>6. SUFFICES ASSUME NEW c \in Clients, Knows(c) PROVE Knows(c)'
  BY <1>3, TypesNow DEF Believed, Rooms
<1> QED  BY <1>2, <1>3, <1>4, <1>5, <1>6, KnowsAdds

LEMMA RoomsInit == Init => Rooms
<1> SUFFICES ASSUME Init PROVE Rooms
  OBVIOUS
<1>1. Pipeline = <<>> /\ Queued = {}
  BY OneServer DEF Init, Queued, Pipeline
<1>2. /\ \A c \in Clients, g \in Groups : groupsOf[c][g] = 0 /\ members[g][c] = 0
      /\ \A c \in Clients : view[c].at = "free" /\ view[c].m = None
      /\ minted = {} /\ timers = {}
  BY DEF Init, EmptyMembers, EmptyGroupsOf, NoView
<1>3. \A r \in RunIds : batch[r] = <<>>
  BY DEF Init
<1>4. \A m \in Matches : ~Uninvited(m) /\ Loose(m)
  BY <1>1, <1>3 DEF Uninvited, Loose, Range
<1>5. \A c : ~Moving(c)
  BY <1>4 DEF Moving
<1>6. \A m \in Matches : ~Dead(m)
  <2>1. \A m \in Matches : verdicts[m] = <<>>
    BY DEF Init
  <2> QED  BY <2>1 DEF Dead
<1>7. Orderly
  BY <1>1 DEF Orderly, AtMostOnce, Precedes
<1>8. Filled
  BY <1>1, <1>3, <1>4 DEF Filled, AtMostOnce
<1>9. Disbanding
  BY <1>1, <1>2, <1>6 DEF Disbanding
<1>10. Placed
  BY <1>1, <1>2, <1>4, <1>5, Names DEF Placed, Alone
<1>11. Heard
  BY <1>1, <1>2, <1>4 DEF Heard, Precedes, Absent
<1>12. Believed
  <2>1. \A c \in Clients : Out(c)
    BY <1>1, <1>2, <1>5, Names DEF Out, Absent
  <2>2. online \subseteq Clients
    BY DEF Init
  <2>3. \A c \in Clients : \A g \in Matches : view[c].m # g /\ ~(members[g][c] > 0)
    BY <1>2, Names
  <2> QED  BY <2>1, <2>2, <2>3 DEF Believed, Knows
<1> QED  BY <1>7, <1>8, <1>9, <1>10, <1>11, <1>12 DEF Rooms

LEMMA RoomsStutter == Rooms /\ UNCHANGED vars => Rooms'
<1> SUFFICES ASSUME Rooms, UNCHANGED vars PROVE Rooms'
  OBVIOUS
<1> USE DEF vars, storeVars, runVars, roundVars, mmcVars, clientVars
<1>1. Pipeline' = Pipeline /\ Queued' = Queued
  BY DEF Pipeline, Queued
<1>2. Orderly'
  BY <1>1 DEF Rooms, Orderly, AtMostOnce, Precedes, Searches, Exits, Invitations, Decisions,
              QueueReads, Farewells, Erases
<1>3. \A m : (Uninvited(m)' <=> Uninvited(m)) /\ (Loose(m)' <=> Loose(m)) /\ (Dead(m)' <=> Dead(m))
  BY <1>1 DEF Uninvited, Loose, Dead
<1>4. \A T : Absent(T)' <=> Absent(T)
  BY <1>1 DEF Absent
<1>5. Filled'
  BY <1>1, <1>3 DEF Rooms, Filled, AtMostOnce, Creates, EarlyPushes
<1>6. Disbanding'
  BY <1>1, <1>3 DEF Rooms, Disbanding, Absent, Invitations, Farewells
<1>7. \A c : Moving(c)' <=> Moving(c)
  BY <1>3 DEF Moving
<1>8. Placed'
  BY <1>1, <1>3, <1>7 DEF Rooms, Placed, Alone, Seeking, Carried
<1>9. Heard'
  BY <1>1, <1>3 DEF Rooms, Heard, Precedes, Absent, RemovesAt, ExitsAt, Exits
<1>10. Believed'
  BY <1>1, <1>3, <1>7 DEF Rooms, Believed, Knows, Heeds, Out, Leaving, Absent, Searches, Farewells
<1> QED  BY <1>2, <1>5, <1>6, <1>8, <1>9, <1>10 DEF Rooms

LEMMA RoomsStep ==
    ASSUME Calm
    PROVE  Ground /\ Rooms /\ [Next]_vars => Rooms'
<1> SUFFICES ASSUME Ground, Rooms, [Next]_vars PROVE Rooms'
  OBVIOUS
<1>1. CASE UNCHANGED vars
  BY <1>1, RoomsStutter
<1>2. ASSUME NEW d \in Clients, ClientStep(d) PROVE Rooms'
  BY <1>2, OrderlyClient, FilledClient, DisbandingClient, PlacedClient, HeardClient, BelievedClient
     DEF Rooms
<1>3. ASSUME NEW s \in Servers, ServerStep(s) PROVE Rooms'
  BY <1>3, OrderlyServer, FilledServer, DisbandingServer, PlacedServer, HeardServer, BelievedServer
     DEF Rooms
<1>4. ASSUME UntimedStep PROVE Rooms'
  BY <1>4, OrderlyUntimed, FilledUntimed, DisbandingUntimed, PlacedUntimed, HeardUntimed,
     BelievedUntimed DEF Rooms
<1> QED  BY <1>1, <1>2, <1>3, <1>4 DEF Next, UntimedStep

(* A client is in one group at a time (__search, _executeMatchMakingLogic): *)
(* who searches again after FOUND, DISBAND or EXIT has not a match left,    *)
(* and the matching run takes him out of the queue before it puts him into  *)
(* his match.  Provided matching runs do not overlap and clients wait for   *)
(* their answers and do not LEAVE; they may close their connections at any  *)
(* time.  None of the three can be left out: a LEAVE followed by a SEARCH,  *)
(* two SEARCHes at once or two runs put a client into two groups.           *)
THEOREM NobodyIsInTwoRooms ==
    ASSUME NEW r, RunIds = {r}, MaxPending = 1, "leave" \notin Ops
    PROVE  Spec => []OneRoom
<1>1. Calm
  BY DEF Calm
<1>2. Init => TypeInv /\ Accounted /\ Deciding /\ Rooms
  BY TypeInit, BirthsInit, CoherentInit, InvitingInit, UnheardInit, DecidingInit, RoomsInit
     DEF Accounted
<1>3. TypeInv /\ Accounted /\ Deciding /\ Rooms /\ [Next]_vars
         => (TypeInv /\ Accounted /\ Deciding /\ Rooms)'
  <2> SUFFICES ASSUME TypeInv, Accounted, Deciding, Rooms, [Next]_vars
               PROVE  TypeInv' /\ Accounted' /\ Deciding' /\ Rooms'
    OBVIOUS
  <2>1. Ground
    BY DEF Ground, Accounted
  <2>2. Deciding'
    BY DecidingStep DEF Accounted
  <2> QED  BY <1>1, <2>1, <2>2, TypeStep, AccountedStep, RoomsStep
<1>4. Rooms => OneRoom
  BY DEF Rooms, Placed, Alone, OneRoom, GroupsOfClient
<1> QED  BY <1>2, <1>3, <1>4, PTL DEF Spec
===============================================================================
