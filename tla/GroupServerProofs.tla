-------------------------- MODULE GroupServerProofs ---------------------------
(***************************************************************************)
(* What holds of GroupServer for every number of clients, groups, servers  *)
(* and overlapping requests, and that it implements Membership; and, in    *)
(* the second half, of VectorCells, the group server built on it: the      *)
(* current cell of a client and the group of that cell, for any grid and   *)
(* any overlap of updates.                                                 *)
(***************************************************************************)
EXTENDS VectorCells, GroupMembership, GroupStoreProofs

-------------------------------------------------------------------------------
(* Type correctness. *)

LEMMA TaskAt ==
    ASSUME NEW t \in Tasks, NEW st \in Steps, st # "close.lrange", t.g # None
    PROVE  At(t, st) \in Tasks /\ At(t, st).step = st /\ At(t, st).job = t.job
           /\ At(t, st).c = t.c /\ At(t, st).g = t.g
  BY DEF At, Tasks

LEMMA TaskNew ==
    ASSUME NEW st \in Steps, NEW job \in Jobs, NEW c \in Clients, NEW g \in Groups
    PROVE  /\ Task(st, job, c, g) \in Tasks
           /\ <<Task(st, job, c, g)>> \in Seq(Tasks)
<1>1. g # None
  BY StoreAssumption
<1>2. Task(st, job, c, g) \in Tasks
  BY <1>1 DEF Task, Tasks
<1> QED BY <1>2

LEMMA TaskClose ==
    ASSUME NEW c \in Clients
    PROVE  /\ Task("close.lrange", "close", c, None) \in Tasks
           /\ <<Task("close.lrange", "close", c, None)>> \in Seq(Tasks)
<1>1. "close.lrange" \in Steps /\ "close" \in Jobs
  BY DEF Steps, Jobs, AllOps
<1>2. Task("close.lrange", "close", c, None) \in Tasks
  BY <1>1 DEF Task, Tasks
<1> QED BY <1>2

(* The head of a pipeline is a command. *)
LEMMA HeadTask ==
    ASSUME TypeOK, NEW s \in Servers, pipe[s] # <<>>
    PROVE  Head(pipe[s]) \in Tasks
  BY HeadTailProperties DEF TypeOK

LEMMA ReplyType ==
    ASSUME TypeOK, NEW s \in Servers, pipe[s] # <<>>, NEW f \in Seq(Tasks), Reply(s, f)
    PROVE  /\ pipe' \in [Servers -> Seq(Tasks)]
           /\ pipe'[s] = Tail(pipe[s]) \o f
           /\ \A r \in Servers \ {s} : pipe'[r] = pipe[r]
<1>1. pipe \in [Servers -> Seq(Tasks)]
  BY DEF TypeOK
<1>2. Tail(pipe[s]) \o f \in Seq(Tasks)
  BY <1>1, StepElements
<1> QED BY <1>1, <1>2 DEF Reply

LEMMA IssueType ==
    ASSUME TypeOK, NEW s \in Servers, NEW f \in Seq(Tasks), Issue(s, f)
    PROVE  /\ pipe' \in [Servers -> Seq(Tasks)]
           /\ pipe'[s] = pipe[s] \o f
           /\ \A r \in Servers \ {s} : pipe'[r] = pipe[r]
<1>1. pipe \in [Servers -> Seq(Tasks)]
  BY DEF TypeOK
<1>2. pipe[s] \o f \in Seq(Tasks)
  BY <1>1, AppendElements
<1> QED BY <1>1, <1>2 DEF Issue

(* The number of groups a client is in is a number. *)
LEMMA ListedFinite == \A c : Cardinality(GroupsOfClient(c)) \in Nat
  BY StoreAssumption, FS_Subset, FS_CardinalityType DEF GroupsOfClient

LEMMA TypeInit == Init => TypeOK
<1> SUFFICES ASSUME Init PROVE TypeOK
  OBVIOUS
<1>1. <<>> \in Seq(Tasks)
  OBVIOUS
<1> QED BY <1>1 DEF Init, TypeOK, EmptyMembers, EmptyGroupsOf

(* A request of a client. *)
LEMMA TypeClient == TypeOK /\ (\E c \in Clients : ClientStep(c)) => TypeOK'
<1> SUFFICES ASSUME TypeOK, NEW c \in Clients, ClientStep(c) PROVE TypeOK'
  OBVIOUS
<1> USE DEF TypeOK
<1>0. home[c] \in Servers
  OBVIOUS
<1>1. ASSUME CreateGroup(c) PROVE TypeOK'
  <2>1. PICK g \in Groups \ minted : minted' = minted \cup {g} /\
            Issue(home[c], <<Task("create.hset", "create", c, g)>>)
    BY <1>1 DEF CreateGroup
  <2>2. <<Task("create.hset", "create", c, g)>> \in Seq(Tasks)
    <3>1. "create.hset" \in Steps /\ "create" \in Jobs
      BY DEF Steps, Jobs, AllOps
    <3> QED BY <3>1, TaskNew
  <2>3. pipe' \in [Servers -> Seq(Tasks)]
    BY <1>0, <2>1, <2>2, IssueType
  <2> QED BY <1>1, <2>1, <2>3 DEF CreateGroup
<1>2. ASSUME NEW op \in {"delete", "join", "leave"}, Request(c, op) PROVE TypeOK'
  <2>1. PICK g \in known : Issue(home[c], <<Task("get.hget", op, c, g)>>)
    BY <1>2 DEF Request
  <2>2. <<Task("get.hget", op, c, g)>> \in Seq(Tasks)
    <3>1. "get.hget" \in Steps /\ op \in Jobs /\ g \in Groups
      BY DEF Steps, StoreSteps, Jobs, AllOps
    <3> QED BY <3>1, TaskNew
  <2>3. pipe' \in [Servers -> Seq(Tasks)]
    BY <1>0, <2>1, <2>2, IssueType
  <2> QED BY <1>2, <2>3 DEF Request
<1>3. ASSUME BroadcastGroup(c) PROVE TypeOK'
  <2>1. PICK g \in known : Issue(home[c], <<Task("client.hget", "broadcast", c, g)>>)
    BY <1>3 DEF BroadcastGroup
  <2>2. <<Task("client.hget", "broadcast", c, g)>> \in Seq(Tasks)
    <3>1. "client.hget" \in Steps /\ "broadcast" \in Jobs /\ g \in Groups
      BY DEF Steps, Jobs, AllOps
    <3> QED BY <3>1, TaskNew
  <2>3. pipe' \in [Servers -> Seq(Tasks)]
    BY <1>0, <2>1, <2>2, IssueType
  <2> QED BY <1>3, <2>3 DEF BroadcastGroup
<1>4. ASSUME Close(c) PROVE TypeOK'
  <2>1. <<Task("close.lrange", "close", c, None)>> \in Seq(Tasks)
    BY TaskClose
  <2>2. pipe' \in [Servers -> Seq(Tasks)]
    BY <1>0, <1>4, <2>1, IssueType DEF Close
  <2>3. knows' \in [Groups -> SUBSET (Clients \X Clients)]
    BY <1>4 DEF Close
  <2> QED BY <1>4, <2>2, <2>3 DEF Close
<1> QED BY <1>1, <1>2, <1>3, <1>4 DEF ClientStep, DeleteGroup, JoinGroup, LeaveGroup

(* A command that is not the listing of a closed client names a group, and  *)
(* so does what its chain queues next.                                      *)
LEMMA HeadFields ==
    ASSUME TypeOK, NEW s \in Servers, pipe[s] # <<>>,
           Head(pipe[s]).step # "close.lrange"
    PROVE  /\ Head(pipe[s]).c \in Clients
           /\ Head(pipe[s]).g \in Groups
           /\ Head(pipe[s]).seen \in SUBSET Clients
           /\ Head(pipe[s]).left \in SUBSET Clients
           /\ \A st \in Steps \ {"close.lrange"} :
                 /\ At(Head(pipe[s]), st) \in Tasks
                 /\ <<At(Head(pipe[s]), st)>> \in Seq(Tasks)
<1>1. Head(pipe[s]) \in Tasks
  BY HeadTask
<1>2. Head(pipe[s]).c \in Clients /\ Head(pipe[s]).g \in Groups
      /\ Head(pipe[s]).g # None
      /\ Head(pipe[s]).seen \in SUBSET Clients /\ Head(pipe[s]).left \in SUBSET Clients
  BY <1>1, StoreAssumption DEF Tasks
<1>3. ASSUME NEW st \in Steps \ {"close.lrange"}
      PROVE  At(Head(pipe[s]), st) \in Tasks
  BY <1>1, <1>2, TaskAt
<1> QED BY <1>2, <1>3

LEMMA NoTask == <<>> \in Seq(Tasks)
  OBVIOUS

LEMMA StepNames ==
    /\ PushSteps \cup RemoveSteps \cup EraseSteps \subseteq Steps \ {"close.lrange"}
    /\ {"client.hset", "client.lrange", "notify.lrange"} \subseteq Steps \ {"close.lrange"}
  BY DEF Steps, StoreSteps, PushSteps, RemoveSteps, EraseSteps

(* The steps of a chain. *)
LEMMA TypeServer == TypeOK /\ (\E s \in Servers : ServerStep(s)) => TypeOK'
<1> SUFFICES ASSUME TypeOK, NEW s \in Servers, ServerStep(s) PROVE TypeOK'
  OBVIOUS
<1> DEFINE t == Head(pipe[s])
<1> DEFINE Names(st) == Running(s, st) /\ st # "close.lrange"
<1>f. ASSUME NEW st, Names(st)
      PROVE  /\ pipe[s] # <<>> /\ t.step # "close.lrange"
             /\ t.c \in Clients /\ t.g \in Groups
             /\ t.seen \in SUBSET Clients /\ t.left \in SUBSET Clients
             /\ \A n \in Steps \ {"close.lrange"} : <<At(t, n)>> \in Seq(Tasks)
  BY <1>f, HeadFields DEF Running
<1>r. ASSUME pipe[s] # <<>>, NEW f \in Seq(Tasks), Reply(s, f)
      PROVE  pipe' \in [Servers -> Seq(Tasks)]
  BY <1>r, ReplyType
<1>1. ASSUME CreateEntry(s) PROVE TypeOK'
  <2>1. pipe' \in [Servers -> Seq(Tasks)] /\ t.g \in Groups
    BY <1>1, <1>f, <1>r, StepNames DEF CreateEntry, Running, PushSteps
  <2> QED BY <1>1, <2>1 DEF CreateEntry, TypeOK
<1>2. ASSUME Get(s) PROVE TypeOK'
  <2>1. Names("get.hget")
    BY <1>2 DEF Get, GetGroupInstance
  <2>2. Found(t) \in Seq(Tasks)
    BY <1>f, <2>1, StepNames DEF Found, PushSteps, EraseSteps, RemoveSteps
  <2>3. [At(t, "erase.lrangeGroup") EXCEPT !.job = "heal"] \in Tasks
    <3>1. At(t, "erase.lrangeGroup") \in Tasks
      BY <2>1, HeadFields, StepNames DEF EraseSteps, Running
    <3> QED BY <3>1 DEF Tasks, Jobs
  <2>4. pipe' \in [Servers -> Seq(Tasks)]
    <3> DEFINE heal == <<[At(t, "erase.lrangeGroup") EXCEPT !.job = "heal"]>>
    <3>1. Reply(s, IF t.g \in registry THEN Found(t) ELSE heal)
      BY <1>2 DEF Get, GetGroupInstance
    <3>2. heal \in Seq(Tasks)
      BY <2>3
    <3> HIDE DEF heal
    <3>3. CASE t.g \in registry
      BY <1>f, <1>r, <2>1, <2>2, <3>1, <3>3
    <3>4. CASE t.g \notin registry
      BY <1>f, <1>r, <2>1, <3>1, <3>2, <3>4
    <3> QED BY <3>3, <3>4
  <2> QED BY <1>2, <2>4 DEF Get, GetGroupInstance, TypeOK
<1>3. ASSUME Push(s) PROVE TypeOK'
  <2>1. CASE PushReadGroup(s, Rejected(Head(pipe[s])))
    <3>1. pipe' \in [Servers -> Seq(Tasks)]
      BY <2>1, <1>f, <1>r, NoTask, StepNames DEF PushReadGroup, Rejected, PushSteps
    <3> QED BY <1>3, <2>1, <3>1 DEF Push, PushReadGroup, TypeOK
  <2>2. CASE PushReadClient(s, Rejected(Head(pipe[s])))
    <3>1. pipe' \in [Servers -> Seq(Tasks)]
      BY <2>2, <1>f, <1>r, NoTask, StepNames DEF PushReadClient, Rejected, PushSteps
    <3> QED BY <1>3, <2>2, <3>1 DEF Push, PushReadClient, TypeOK
  <2>3. CASE PushWriteClient(s)
    <3>1. pipe' \in [Servers -> Seq(Tasks)] /\ t.c \in Clients /\ t.g \in Groups
      BY <2>3, <1>f, <1>r, StepNames DEF PushWriteClient, PushSteps
    <3>2. groupsOf' \in [Clients -> [Groups -> Nat]]
      <4>1. groupsOf' = [groupsOf EXCEPT ![t.c][t.g] = @ + 1]
        BY <2>3 DEF PushWriteClient
      <4>2. [groupsOf[t.c] EXCEPT ![t.g] = @ + 1] \in [Groups -> Nat]
        BY <3>1 DEF TypeOK
      <4> QED BY <3>1, <4>1, <4>2 DEF TypeOK
    <3> QED BY <1>3, <2>3, <3>1, <3>2 DEF Push, PushWriteClient, TypeOK
  <2> QED BY <1>3, <2>1, <2>2, <2>3 DEF Push
<1>4. ASSUME PushEnd(s) PROVE TypeOK'
  <2>1. Names("push.lpushGroup")
    BY <1>4 DEF PushEnd, PushWriteGroup
  <2>2. pipe' \in [Servers -> Seq(Tasks)] /\ t.c \in Clients /\ t.g \in Groups
    BY <1>4, <1>f, <1>r, <2>1, NoTask, StepNames DEF PushEnd, PushWriteGroup, Pushed, Notify
  <2>3. members' \in [Groups -> [Clients -> Nat]]
    <3>1. members' = [members EXCEPT ![t.g][t.c] = @ + 1]
      BY <1>4 DEF PushEnd, PushWriteGroup
    <3>2. [members[t.g] EXCEPT ![t.c] = @ + 1] \in [Clients -> Nat]
      BY <2>2 DEF TypeOK
    <3> QED BY <2>2, <3>1, <3>2 DEF TypeOK
  <2> QED BY <1>4, <2>2, <2>3 DEF PushEnd, PushWriteGroup, TypeOK
<1>5. ASSUME Remove(s) PROVE TypeOK'
  <2>1. pipe' \in [Servers -> Seq(Tasks)] /\ t.c \in Clients /\ t.g \in Groups
    BY <1>5, <1>f, <1>r, StepNames DEF Remove, RemoveWriteClient, RemoveSteps
  <2>2. groupsOf' \in [Clients -> [Groups -> Nat]]
    BY <1>5, <2>1 DEF Remove, RemoveWriteClient, TypeOK
  <2> QED BY <1>5, <2>1, <2>2 DEF Remove, RemoveWriteClient, TypeOK
<1>6. ASSUME RemoveEnd(s) PROVE TypeOK'
  <2>1. pipe' \in [Servers -> Seq(Tasks)] /\ t.c \in Clients /\ t.g \in Groups
    BY <1>6, <1>f, <1>r, StepNames DEF RemoveEnd, RemoveWriteGroup, Notify
  <2>2. members' \in [Groups -> [Clients -> Nat]]
    BY <1>6, <2>1 DEF RemoveEnd, RemoveWriteGroup, TypeOK
  <2>3. knows' \in [Groups -> SUBSET (Clients \X Clients)]
    BY <1>6, <2>1 DEF RemoveEnd, TypeOK
  <2> QED BY <1>6, <2>1, <2>2, <2>3 DEF RemoveEnd, RemoveWriteGroup, TypeOK
<1>7. ASSUME Erase(s) PROVE TypeOK'
  <2>1. CASE EraseReadGroup(s)
    <3>1. Names("erase.lrangeGroup")
      BY <2>1 DEF EraseReadGroup
    <3>2. \A n \in EraseSteps : At(t, n) \in Tasks
      BY <3>1, HeadFields, StepNames DEF Running
    <3>3. [At(t, "erase.lremClient") EXCEPT !.seen = MembersOf(t.g), !.left = MembersOf(t.g)]
             \in Tasks
      BY <3>2 DEF EraseSteps, Tasks, MembersOf
    <3>4. pipe' \in [Servers -> Seq(Tasks)]
      <4>1. PICK u \in {At(t, "erase.hdel"),
                        [At(t, "erase.lremClient") EXCEPT !.seen = MembersOf(t.g),
                                                          !.left = MembersOf(t.g)]} :
               Reply(s, <<u>>)
        BY <2>1 DEF EraseReadGroup
      <4>2. <<u>> \in Seq(Tasks)
        BY <3>2, <3>3 DEF EraseSteps
      <4> QED BY <1>r, <3>1, <4>1, <4>2 DEF Running
    <3> QED BY <1>7, <2>1, <3>4 DEF Erase, EraseReadGroup, TypeOK
  <2>2. CASE EraseWriteClient(s)
    <3>1. Names("erase.lremClient")
      BY <2>2 DEF EraseWriteClient
    <3>2. t \in Tasks /\ t.g \in Groups /\ t.left \in SUBSET Clients
          /\ pipe[s] # <<>> /\ At(t, "erase.hdel") \in Tasks
      BY <3>1, HeadTask, HeadFields, StepNames DEF Running, EraseSteps
    <3>3. PICK x \in t.left :
             /\ groupsOf' = [groupsOf EXCEPT ![x][t.g] = 0]
             /\ IF t.left = {x}
                THEN Reply(s, <<[At(t, "erase.hdel") EXCEPT !.left = {}]>>)
                ELSE pipe' = [pipe EXCEPT ![s] = <<[t EXCEPT !.left = @ \ {x}]>> \o Tail(@)]
      BY <2>2 DEF EraseWriteClient
    <3>4. [At(t, "erase.hdel") EXCEPT !.left = {}] \in Tasks
      BY <3>2 DEF Tasks
    <3>5. [t EXCEPT !.left = @ \ {x}] \in Tasks
      BY <3>2 DEF Tasks
    <3>6. <<[t EXCEPT !.left = @ \ {x}]>> \o Tail(pipe[s]) \in Seq(Tasks)
      <4>1. Tail(pipe[s]) \in Seq(Tasks)
        BY <3>2, HeadTailProperties DEF TypeOK
      <4> QED BY <3>5, <4>1, ConcatProperties
    <3>7. pipe' \in [Servers -> Seq(Tasks)]
      <4>1. CASE t.left = {x}
        <5>1. <<[At(t, "erase.hdel") EXCEPT !.left = {}]>> \in Seq(Tasks)
          BY <3>4
        <5> QED BY <3>2, <3>3, <4>1, <5>1, <1>r
      <4>2. CASE t.left # {x}
        BY <3>3, <3>6, <4>2 DEF TypeOK
      <4> QED BY <4>1, <4>2
    <3>8. groupsOf' \in [Clients -> [Groups -> Nat]]
      BY <3>2, <3>3 DEF TypeOK
    <3> QED BY <1>7, <2>2, <3>7, <3>8 DEF Erase, EraseWriteClient, TypeOK
  <2>3. CASE EraseEntry(s)
    <3>1. pipe' \in [Servers -> Seq(Tasks)]
      BY <2>3, <1>f, <1>r, StepNames DEF EraseEntry, EraseSteps
    <3> QED BY <1>7, <2>3, <3>1 DEF Erase, EraseEntry, TypeOK
  <2>4. CASE EraseGroup(s, Erased(Head(pipe[s])))
    <3>1. pipe' \in [Servers -> Seq(Tasks)] /\ t.g \in Groups
      BY <2>4, <1>f, <1>r, NoTask, StepNames DEF EraseGroup, Erased, Notify
    <3>2. members' \in [Groups -> [Clients -> Nat]]
      BY <2>4, <3>1 DEF EraseGroup, TypeOK
    <3> QED BY <1>7, <2>4, <3>1, <3>2 DEF Erase, EraseGroup, TypeOK
  <2> QED BY <1>7, <2>1, <2>2, <2>3, <2>4 DEF Erase
<1>8. ASSUME LeaveAllGroups(s) PROVE TypeOK'
  <2> DEFINE n == Cardinality(GroupsOfClient(t.c))
  <2>1. PICK order \in [1..n -> GroupsOfClient(t.c)] :
           Reply(s, [i \in DOMAIN order |-> Task("get.hget", "close", t.c, order[i])])
    BY <1>8 DEF LeaveAllGroups
  <2>2. t \in Tasks /\ t.c \in Clients /\ pipe[s] # <<>>
    BY <1>8, HeadTask DEF LeaveAllGroups, Running, Tasks
  <2>3. n \in Nat
    BY ListedFinite
  <2>4. \A i \in 1..n : Task("get.hget", "close", t.c, order[i]) \in Tasks
    <3>1. "get.hget" \in Steps /\ "close" \in Jobs
      BY DEF Steps, StoreSteps, Jobs, AllOps
    <3>2. \A i \in 1..n : order[i] \in Groups
      BY <2>1 DEF GroupsOfClient
    <3> QED BY <3>1, <3>2, <2>2, TaskNew
  <2>5. [i \in DOMAIN order |-> Task("get.hget", "close", t.c, order[i])] \in Seq(Tasks)
    BY <2>3, <2>4, SeqDef
  <2>6. pipe' \in [Servers -> Seq(Tasks)]
    BY <1>r, <2>1, <2>2, <2>5
  <2> QED BY <1>8, <2>6 DEF LeaveAllGroups, TypeOK
<1>9. ASSUME GetClient(s) PROVE TypeOK'
  <2>1. pipe' \in [Servers -> Seq(Tasks)]
    BY <1>9, <1>f, <1>r, StepNames DEF GetClient
  <2> QED BY <1>9, <2>1 DEF GetClient, TypeOK
<1>10. ASSUME SetClient(s) PROVE TypeOK'
  <2>1. pipe' \in [Servers -> Seq(Tasks)] /\ t.c \in Clients
    BY <1>10, <1>f, <1>r, StepNames DEF SetClient
  <2> QED BY <1>10, <2>1 DEF SetClient, TypeOK
<1>11. ASSUME CheckSender(s) PROVE TypeOK'
  <2>1. pipe' \in [Servers -> Seq(Tasks)]
    BY <1>11, <1>f, <1>r, NoTask, StepNames DEF CheckSender, Rejected, Notify
  <2> QED BY <1>11, <2>1 DEF CheckSender, TypeOK
<1>12. ASSUME NotifyGroup(s) PROVE TypeOK'
  <2>1. pipe' \in [Servers -> Seq(Tasks)] /\ t.c \in Clients /\ t.g \in Groups
    BY <1>12, <1>f, <1>r, NoTask DEF NotifyGroup
  <2>2. Reached(s, Audience(t)) \subseteq Clients
    BY DEF Reached, Audience, MembersOf
  <2>3. knows' \in [Groups -> SUBSET (Clients \X Clients)]
    BY <1>12, <2>1, <2>2 DEF NotifyGroup, TypeOK
  <2> QED BY <1>12, <2>1, <2>3 DEF NotifyGroup, TypeOK
<1> QED BY <1>1, <1>2, <1>3, <1>4, <1>5, <1>6, <1>7, <1>8, <1>9, <1>10, <1>11, <1>12
        DEF ServerStep

(* Type correctness of the whole protocol, erasing included. *)
THEOREM TypeCorrect == Spec => []TypeOK
<1>1. TypeOK /\ [Next]_vars => TypeOK'
  <2>1. TypeOK /\ UNCHANGED vars => TypeOK'
    BY DEF TypeOK, vars
  <2> QED BY <2>1, TypeClient, TypeServer DEF Next
<1> QED BY <1>1, TypeInit, PTL DEF Spec

-------------------------------------------------------------------------------
(* Agreement, for clients that never send DELETE. *)

LEMMA ChainsReply ==
    ASSUME TypeOK, ChainsInOrder, NEW s \in Servers, pipe[s] # <<>>,
           NEW f \in Seq(Tasks), Reply(s, f),
           registry \subseteq registry', home' = home,
           \A k \in DOMAIN f : InOrder(f[k], s, home', registry')
    PROVE  ChainsInOrder'
<1>1. pipe \in [Servers -> Seq(Tasks)]
  BY DEF TypeOK
<1>2. pipe'[s] = Tail(pipe[s]) \o f /\ \A r \in Servers \ {s} : pipe'[r] = pipe[r]
  BY ReplyType
<1>3. ASSUME NEW r \in Servers, NEW i \in DOMAIN pipe'[r]
      PROVE  InOrder(pipe'[r][i], r, home', registry')
  <2>1. CASE r # s
    BY <2>1, <1>2, <1>3 DEF ChainsInOrder, InOrder
  <2>2. CASE r = s
    <3>1. /\ DOMAIN pipe[s] = 1..Len(pipe[s]) /\ Len(pipe[s]) \in Nat
          /\ DOMAIN f = 1..Len(f) /\ Len(f) \in Nat
          /\ DOMAIN pipe'[s] = 1..(Len(pipe[s]) - 1 + Len(f))
          /\ pipe'[s][i] = IF i < Len(pipe[s]) THEN pipe[s][i + 1]
                                               ELSE f[i - Len(pipe[s]) + 1]
      BY <1>1, <1>2, <1>3, <2>2, StepElements, LenProperties
    <3>2. CASE i < Len(pipe[s])
      <4>1. i + 1 \in DOMAIN pipe[s] /\ pipe'[s][i] = pipe[s][i + 1]
        BY <1>3, <2>2, <3>1, <3>2
      <4>2. InOrder(pipe[s][i + 1], s, home, registry)
        BY <4>1 DEF ChainsInOrder
      <4> QED BY <2>2, <4>1, <4>2 DEF InOrder
    <3>3. CASE ~(i < Len(pipe[s]))
      <4>1. i - Len(pipe[s]) + 1 \in DOMAIN f /\ pipe'[s][i] = f[i - Len(pipe[s]) + 1]
        BY <1>3, <2>2, <3>1, <3>3
      <4> QED BY <2>2, <4>1 DEF InOrder
    <3> QED BY <3>2, <3>3
  <2> QED BY <2>1, <2>2
<1> QED BY <1>3 DEF ChainsInOrder

LEMMA ChainsIssue ==
    ASSUME TypeOK, ChainsInOrder, NEW s \in Servers,
           NEW f \in Seq(Tasks), Issue(s, f),
           registry' = registry, home' = home,
           \A k \in DOMAIN f : InOrder(f[k], s, home, registry)
    PROVE  ChainsInOrder'
<1>1. pipe \in [Servers -> Seq(Tasks)]
  BY DEF TypeOK
<1>2. pipe'[s] = pipe[s] \o f /\ \A r \in Servers \ {s} : pipe'[r] = pipe[r]
  BY IssueType
<1>3. ASSUME NEW r \in Servers, NEW i \in DOMAIN pipe'[r]
      PROVE  InOrder(pipe'[r][i], r, home', registry')
  <2>1. CASE r # s
    BY <2>1, <1>2, <1>3 DEF ChainsInOrder, InOrder
  <2>2. CASE r = s
    <3>1. /\ DOMAIN pipe[s] = 1..Len(pipe[s]) /\ Len(pipe[s]) \in Nat
          /\ DOMAIN f = 1..Len(f) /\ Len(f) \in Nat
          /\ DOMAIN pipe'[s] = 1..(Len(pipe[s]) + Len(f))
          /\ pipe'[s][i] = IF i <= Len(pipe[s]) THEN pipe[s][i] ELSE f[i - Len(pipe[s])]
      BY <1>1, <1>2, <1>3, <2>2, AppendElements, LenProperties
    <3>2. CASE i <= Len(pipe[s])
      <4>1. i \in DOMAIN pipe[s] /\ pipe'[s][i] = pipe[s][i]
        BY <1>3, <2>2, <3>1, <3>2
      <4> QED BY <2>2, <4>1 DEF InOrder, ChainsInOrder
    <3>3. CASE ~(i <= Len(pipe[s]))
      <4>1. i - Len(pipe[s]) \in DOMAIN f /\ pipe'[s][i] = f[i - Len(pipe[s])]
        BY <1>3, <2>2, <3>1, <3>3
      <4> QED BY <2>2, <4>1 DEF InOrder
    <3> QED BY <3>2, <3>3
  <2> QED BY <2>1, <2>2
<1> QED BY <1>3 DEF ChainsInOrder

(* The lists of a pair a step does not write converge as before. *)
LEMMA AgreesOther ==
    ASSUME TypeOK, NEW s \in Servers, pipe[s] # <<>>, NEW f \in Seq(Tasks), Reply(s, f),
           home' = home, NEW c \in Clients, NEW g \in Groups, Agrees(c, g),
           ~Owes(Head(pipe[s]), c, g), \A k \in DOMAIN f : ~Owes(f[k], c, g),
           groupsOf'[c][g] = groupsOf[c][g], members'[g][c] = members[g][c]
    PROVE  Agrees(c, g)'
<1>1. pipe \in [Servers -> Seq(Tasks)] /\ home[c] \in Servers
  BY DEF TypeOK
<1>2. pipe'[s] = Tail(pipe[s]) \o f /\ \A r \in Servers \ {s} : pipe'[r] = pipe[r]
  BY ReplyType
<1>3. CASE home[c] = s
  <2> DEFINE q == pipe[s]
  <2> DEFINE a == groupsOf[c][g] > 0
  <2> DEFINE b == members[g][c] > 0
  <2>1. a \in BOOLEAN /\ b \in BOOLEAN /\ q \in Seq(Tasks)
    BY <1>1
  <2>2. Converging(q, c, g, a, b)
    BY <1>3 DEF Agrees
  <2> HIDE DEF a, b
  <2>3. Converging(Tail(q) \o f, c, g, a, b)
    BY <2>1, <2>2, ConvergeOther
  <2> QED BY <1>2, <1>3, <2>3 DEF Agrees, a, b
<1>4. CASE home[c] # s
  BY <1>1, <1>2, <1>4 DEF Agrees
<1> QED BY <1>3, <1>4

LEMMA AgreesIssue ==
    ASSUME TypeOK, NEW s \in Servers, NEW f \in Seq(Tasks), Issue(s, f),
           home' = home, NEW c \in Clients, NEW g \in Groups, Agrees(c, g),
           \A k \in DOMAIN f : ~Owes(f[k], c, g),
           groupsOf' = groupsOf, members' = members
    PROVE  Agrees(c, g)'
<1>1. pipe \in [Servers -> Seq(Tasks)] /\ home[c] \in Servers
  BY DEF TypeOK
<1>2. pipe'[s] = pipe[s] \o f /\ \A r \in Servers \ {s} : pipe'[r] = pipe[r]
  BY IssueType
<1>3. CASE home[c] = s
  <2> DEFINE q == pipe[s]
  <2> DEFINE a == groupsOf[c][g] > 0
  <2> DEFINE b == members[g][c] > 0
  <2>1. a \in BOOLEAN /\ b \in BOOLEAN /\ q \in Seq(Tasks)
    BY <1>1
  <2>2. Converging(q, c, g, a, b)
    BY <1>3 DEF Agrees
  <2> HIDE DEF a, b
  <2>3. Converging(q \o f, c, g, a, b)
    BY <2>1, <2>2, ConvergeIssue
  <2> QED BY <1>2, <1>3, <2>3 DEF Agrees, a, b
<1>4. CASE home[c] # s
  BY <1>1, <1>2, <1>4 DEF Agrees
<1> QED BY <1>3, <1>4

(* A read, or any command that writes no list, keeps the invariant.         *)
LEMMA QuietReply ==
    ASSUME UndeletedInv, TypeOK', NEW s \in Servers, pipe[s] # <<>>,
           NEW f \in Seq(Tasks), Reply(s, f),
           Head(pipe[s]).step \notin {"push.lpushGroup", "remove.lremGroup"},
           \A k \in DOMAIN f : f[k].step \notin {"push.lpushGroup", "remove.lremGroup"},
           \A k \in DOMAIN f : InOrder(f[k], s, home', registry'),
           registry \subseteq registry', home' = home, known' = known,
           groupsOf' = groupsOf, members' = members
    PROVE  UndeletedInv'
<1>1. ChainsInOrder'
  BY ChainsReply DEF UndeletedInv
<1>2. ListsRegistered'
  BY DEF UndeletedInv, ListsRegistered
<1>3. ASSUME NEW c \in Clients, NEW g \in Groups PROVE Agrees(c, g)'
  <2>1. ~Owes(Head(pipe[s]), c, g) /\ \A k \in DOMAIN f : ~Owes(f[k], c, g)
    BY DEF Owes
  <2> QED BY <2>1, AgreesOther DEF UndeletedInv, Agreement
<1> QED BY <1>1, <1>2, <1>3 DEF UndeletedInv, Agreement

(* A handler that starts one chain keeps the invariant. *)
LEMMA QuietIssue ==
    ASSUME UndeletedInv, TypeOK', NEW s \in Servers, NEW u \in Tasks, Issue(s, <<u>>),
           u.step \notin {"push.lpushGroup", "remove.lremGroup"}, InOrder(u, s, home, registry),
           registry' = registry, home' = home, known' = known,
           groupsOf' = groupsOf, members' = members
    PROVE  UndeletedInv'
<1>0. <<u>> \in Seq(Tasks) /\ \A k \in DOMAIN <<u>> : <<u>>[k] = u
  OBVIOUS
<1>1. ChainsInOrder'
  BY <1>0, ChainsIssue DEF UndeletedInv
<1>2. ListsRegistered'
  BY DEF UndeletedInv, ListsRegistered
<1>3. ASSUME NEW c \in Clients, NEW g \in Groups PROVE Agrees(c, g)'
  <2>1. \A k \in DOMAIN <<u>> : ~Owes(<<u>>[k], c, g)
    BY <1>0 DEF Owes
  <2> QED BY <1>0, <2>1, AgreesIssue DEF UndeletedInv, Agreement
<1> QED BY <1>1, <1>2, <1>3 DEF UndeletedInv, Agreement

LEMMA UndeletedInit == Init => UndeletedInv
<1> SUFFICES ASSUME Init PROVE UndeletedInv
  OBVIOUS
<1>1. TypeOK
  BY TypeInit
<1>2. \A s \in Servers : pipe[s] = <<>>
  BY DEF Init
<1>3. \A s \in Servers : DOMAIN pipe[s] = {}
  BY <1>2
<1>4. ChainsInOrder
  BY <1>3 DEF ChainsInOrder
<1>5. \A c \in Clients, g \in Groups : groupsOf[c][g] = 0 /\ members[g][c] = 0
  BY DEF Init, EmptyMembers, EmptyGroupsOf
<1>6. ListsRegistered
  BY <1>5 DEF ListsRegistered, Init
<1>7. Agreement
  BY <1>1, <1>3, <1>5 DEF Agreement, Agrees, Converging, TypeOK
<1> QED BY <1>1, <1>4, <1>6, <1>7 DEF UndeletedInv

(* Requests: each one queues a first command, in order and without a write. *)
LEMMA UndeletedClient ==
    ASSUME "delete" \notin Ops, UndeletedInv, NEW c \in Clients, ClientStep(c)
    PROVE  UndeletedInv'
<1>1. TypeOK' /\ TypeOK /\ home[c] \in Servers
  BY TypeClient DEF UndeletedInv, TypeOK
<1>2. known \subseteq registry /\ known \subseteq Groups
  BY DEF UndeletedInv, ListsRegistered, TypeOK
<1>3. ASSUME CreateGroup(c) PROVE UndeletedInv'
  <2>1. PICK g \in Groups \ minted : Issue(home[c], <<Task("create.hset", "create", c, g)>>)
    BY <1>3 DEF CreateGroup
  <2> DEFINE u == Task("create.hset", "create", c, g)
  <2>2. u \in Tasks /\ u.step = "create.hset" /\ u.job = "create" /\ u.c = c
    <3>1. "create.hset" \in Steps /\ "create" \in Jobs
      BY DEF Steps, Jobs, AllOps
    <3> QED BY <3>1, TaskNew DEF Task
  <2>3. InOrder(u, home[c], home, registry)
    BY <2>2 DEF InOrder, EraseSteps
  <2> HIDE DEF u
  <2> QED BY <1>1, <1>3, <2>1, <2>2, <2>3, QuietIssue DEF CreateGroup, u
<1>4. ASSUME NEW op \in {"join", "leave"}, Request(c, op) PROVE UndeletedInv'
  <2>1. PICK g \in known : Issue(home[c], <<Task("get.hget", op, c, g)>>)
    BY <1>4 DEF Request
  <2> DEFINE u == Task("get.hget", op, c, g)
  <2>2. u \in Tasks /\ u.step = "get.hget" /\ u.job = op /\ u.c = c /\ u.g = g
    <3>1. "get.hget" \in Steps /\ op \in Jobs /\ g \in Groups
      BY <1>2 DEF Steps, StoreSteps, Jobs, AllOps
    <3> QED BY <3>1, TaskNew DEF Task
  <2>3. InOrder(u, home[c], home, registry)
    BY <1>2, <2>2 DEF InOrder, EraseSteps
  <2> HIDE DEF u
  <2> QED BY <1>1, <1>4, <2>1, <2>2, <2>3, QuietIssue DEF Request, u
<1>5. ASSUME BroadcastGroup(c) PROVE UndeletedInv'
  <2>1. PICK g \in known : Issue(home[c], <<Task("client.hget", "broadcast", c, g)>>)
    BY <1>5 DEF BroadcastGroup
  <2> DEFINE u == Task("client.hget", "broadcast", c, g)
  <2>2. u \in Tasks /\ u.step = "client.hget" /\ u.job = "broadcast" /\ u.c = c /\ u.g = g
    <3>1. "client.hget" \in Steps /\ "broadcast" \in Jobs /\ g \in Groups
      BY <1>2 DEF Steps, Jobs, AllOps
    <3> QED BY <3>1, TaskNew DEF Task
  <2>3. InOrder(u, home[c], home, registry)
    BY <1>2, <2>2 DEF InOrder, EraseSteps
  <2> HIDE DEF u
  <2> QED BY <1>1, <1>5, <2>1, <2>2, <2>3, QuietIssue DEF BroadcastGroup, u
<1>6. ASSUME Close(c) PROVE UndeletedInv'
  <2> DEFINE u == Task("close.lrange", "close", c, None)
  <2>1. Issue(home[c], <<u>>)
    BY <1>6 DEF Close
  <2>2. u \in Tasks /\ u.step = "close.lrange" /\ u.job = "close" /\ u.c = c
    BY TaskClose DEF Task
  <2>3. InOrder(u, home[c], home, registry)
    BY <2>2 DEF InOrder, EraseSteps
  <2> HIDE DEF u
  <2> QED BY <1>1, <1>6, <2>1, <2>2, <2>3, QuietIssue DEF Close
<1>7. ~DeleteGroup(c)
  BY DEF DeleteGroup, Request, MaySend
<1> QED BY <1>3, <1>4, <1>5, <1>6, <1>7 DEF ClientStep, JoinGroup, LeaveGroup

(* The head of a pipeline, when the invariant holds. *)
LEMMA UndeletedHead ==
    ASSUME UndeletedInv, NEW s \in Servers, pipe[s] # <<>>
    PROVE  /\ TypeOK
           /\ Head(pipe[s]) \in Tasks
           /\ InOrder(Head(pipe[s]), s, home, registry)
<1>1. pipe[s] \in Seq(Tasks) /\ TypeOK
  BY DEF UndeletedInv, TypeOK
<1>2. Head(pipe[s]) = pipe[s][1] /\ 1 \in DOMAIN pipe[s] /\ Head(pipe[s]) \in Tasks
  BY <1>1, NoTask, StepElements
<1> QED BY <1>1, <1>2 DEF UndeletedInv, ChainsInOrder

(* The first write of a push or of a remove. *)
LEMMA FirstWrite ==
    ASSUME UndeletedInv, TypeOK', NEW s \in Servers, pipe[s] # <<>>,
           Head(pipe[s]).step \in {"push.lpushClient", "remove.lremClient"},
           NEW st \in {"push.lpushGroup", "remove.lremGroup"},
           Reply(s, <<At(Head(pipe[s]), st)>>),
           NEW n \in Nat, n > 0 <=> st = "push.lpushGroup",
           groupsOf' = [groupsOf EXCEPT ![Head(pipe[s]).c][Head(pipe[s]).g] = n],
           registry' = registry, home' = home, known' = known, members' = members
    PROVE  UndeletedInv'
<1> DEFINE t == Head(pipe[s])
<1> DEFINE u == At(t, st)
<1>1. TypeOK /\ t \in Tasks /\ InOrder(t, s, home, registry)
  BY UndeletedHead
<1>2. t.c \in Clients /\ t.g \in Groups /\ <<u>> \in Seq(Tasks) /\ u \in Tasks
      /\ t.g \in registry /\ home[t.c] = s
  BY <1>1, HeadFields, StepNames DEF PushSteps, RemoveSteps, InOrder
<1>3. u.step = st /\ u.c = t.c /\ u.g = t.g /\ u.job = t.job
  BY <1>1 DEF At, Tasks
<1>4. \A c \in Clients, g \in Groups :
         groupsOf'[c][g] = IF c = t.c /\ g = t.g THEN n ELSE groupsOf[c][g]
  BY <1>1, <1>2 DEF TypeOK
<1>5. t.step \notin {"push.lpushGroup", "remove.lremGroup"}
  OBVIOUS
<1> HIDE DEF u
<1>6. Reply(s, <<u>>) /\ \A k \in DOMAIN <<u>> : <<u>>[k] = u
  BY DEF u
<1>7. InOrder(u, s, home', registry')
  BY <1>1, <1>2, <1>3 DEF InOrder, EraseSteps
<1>8. ChainsInOrder'
  BY <1>1, <1>2, <1>6, <1>7, ChainsReply DEF UndeletedInv
<1>9. ListsRegistered'
  BY <1>2, <1>4 DEF UndeletedInv, ListsRegistered
<1>10. ASSUME NEW c \in Clients, NEW g \in Groups PROVE Agrees(c, g)'
  <2>1. CASE c = t.c /\ g = t.g
    <3> DEFINE q == pipe[s]
    <3> DEFINE a == groupsOf'[c][g] > 0
    <3> DEFINE b == members'[g][c] > 0
    <3>1. a \in BOOLEAN /\ b \in BOOLEAN /\ (a <=> u.step = "push.lpushGroup")
      BY <1>3, <1>4, <2>1
    <3>2. q \in Seq(Tasks) /\ q # <<>> /\ Owes(u, c, g)
      BY <1>1, <1>3, <2>1 DEF TypeOK, Owes
    <3> HIDE DEF a, b
    <3>3. Converging(Tail(q) \o <<u>>, c, g, a, b)
      BY <1>2, <3>1, <3>2, ConvergeFirst
    <3>4. pipe'[s] = Tail(q) \o <<u>> /\ home'[c] = s
      BY <1>1, <1>2, <1>6, <2>1, ReplyType
    <3> QED BY <3>3, <3>4 DEF Agrees, a, b
  <2>2. CASE ~(c = t.c /\ g = t.g)
    <3>1. ~Owes(t, c, g) /\ \A k \in DOMAIN <<u>> : ~Owes(<<u>>[k], c, g)
      BY <1>3, <1>6, <2>2 DEF Owes
    <3>2. groupsOf'[c][g] = groupsOf[c][g] /\ members'[g][c] = members[g][c]
      BY <1>4, <2>2
    <3> QED BY <1>1, <1>2, <1>6, <3>1, <3>2, AgreesOther DEF UndeletedInv, Agreement
  <2> QED BY <2>1, <2>2
<1> QED BY <1>8, <1>9, <1>10 DEF UndeletedInv, Agreement

(* The second write of a push or of a remove. *)
LEMMA SecondWrite ==
    ASSUME UndeletedInv, TypeOK', NEW s \in Servers, pipe[s] # <<>>,
           Head(pipe[s]).step \in {"push.lpushGroup", "remove.lremGroup"},
           NEW f \in Seq(Tasks), Reply(s, f),
           \A k \in DOMAIN f : f[k] = At(Head(pipe[s]), "notify.lrange"),
           NEW n \in Nat, n > 0 <=> Head(pipe[s]).step = "push.lpushGroup",
           members' = [members EXCEPT ![Head(pipe[s]).g][Head(pipe[s]).c] = n],
           registry' = registry, home' = home, groupsOf' = groupsOf,
           known' \subseteq known \cup {Head(pipe[s]).g}
    PROVE  UndeletedInv'
<1> DEFINE t == Head(pipe[s])
<1>1. TypeOK /\ t \in Tasks /\ InOrder(t, s, home, registry)
  BY UndeletedHead
<1>2. t.c \in Clients /\ t.g \in Groups /\ t.g \in registry /\ home[t.c] = s
  BY <1>1, HeadFields DEF InOrder
<1>3. \A k \in DOMAIN f : f[k].step = "notify.lrange" /\ f[k].c = t.c /\ f[k].g = t.g
                          /\ f[k].job = t.job
  <2> DEFINE u == At(t, "notify.lrange")
  <2>1. u.step = "notify.lrange" /\ u.c = t.c /\ u.g = t.g /\ u.job = t.job
    BY <1>1 DEF At, Tasks
  <2>2. \A k \in DOMAIN f : f[k] = u
    OBVIOUS
  <2> HIDE DEF u
  <2> QED BY <2>1, <2>2
<1>4. \A c \in Clients, g \in Groups :
         members'[g][c] = IF c = t.c /\ g = t.g THEN n ELSE members[g][c]
  BY <1>1, <1>2 DEF TypeOK
<1>5. \A k \in DOMAIN f : InOrder(f[k], s, home', registry')
  BY <1>1, <1>2, <1>3 DEF InOrder, EraseSteps
<1>6. ChainsInOrder'
  BY <1>1, <1>5, ChainsReply DEF UndeletedInv
<1>7. ListsRegistered'
  BY <1>2, <1>4 DEF UndeletedInv, ListsRegistered
<1>8. \A c, g : \A k \in DOMAIN f : ~Owes(f[k], c, g)
  BY <1>3 DEF Owes
<1>9. ASSUME NEW c \in Clients, NEW g \in Groups PROVE Agrees(c, g)'
  <2>1. CASE c = t.c /\ g = t.g
    <3> DEFINE q == pipe[s]
    <3> DEFINE a == groupsOf[c][g] > 0
    <3> DEFINE b == members[g][c] > 0
    <3> DEFINE d == members'[g][c] > 0
    <3>1. a \in BOOLEAN /\ b \in BOOLEAN /\ d \in BOOLEAN
          /\ (d <=> Head(q).step = "push.lpushGroup")
      BY <1>4, <2>1
    <3>2. q \in Seq(Tasks) /\ q # <<>> /\ Owes(Head(q), c, g)
      BY <1>1, <2>1 DEF TypeOK, Owes
    <3>3. Converging(q, c, g, a, b)
      BY <1>2, <2>1 DEF UndeletedInv, Agreement, Agrees
    <3> HIDE DEF a, b, d
    <3>4. Converging(Tail(q) \o f, c, g, a, d)
      BY <1>8, <3>1, <3>2, <3>3, ConvergeSecond
    <3>5. pipe'[s] = Tail(q) \o f /\ home'[c] = s
      BY <1>1, <1>2, <2>1, ReplyType
    <3> QED BY <3>4, <3>5 DEF Agrees, a, d
  <2>2. CASE ~(c = t.c /\ g = t.g)
    <3>1. ~Owes(t, c, g)
      BY <2>2 DEF Owes
    <3>2. groupsOf'[c][g] = groupsOf[c][g] /\ members'[g][c] = members[g][c]
      BY <1>4, <2>2
    <3> QED BY <1>1, <1>8, <3>1, <3>2, AgreesOther DEF UndeletedInv, Agreement
  <2> QED BY <2>1, <2>2
<1> QED BY <1>6, <1>7, <1>9 DEF UndeletedInv, Agreement

(* The steps of a chain. *)
LEMMA UndeletedServer ==
    ASSUME UndeletedInv, NEW s \in Servers, ServerStep(s)
    PROVE  UndeletedInv'
<1> DEFINE t == Head(pipe[s])
<1>t. TypeOK' /\ TypeOK
  BY TypeServer DEF UndeletedInv
<1>h. ASSUME NEW st, Running(s, st)
      PROVE  /\ pipe[s] # <<>> /\ t \in Tasks /\ t.step = st /\ InOrder(t, s, home, registry)
             /\ st # "close.lrange" => t.g \in Groups
      BY <1>h, UndeletedHead, HeadFields DEF Running
(* A chain that goes on with the command n, in order. *)
<1>n. ASSUME NEW st, Running(s, st), st # "close.lrange",
             st # "create.hset" \/ t.g \in registry',
             NEW n \in Steps \ (EraseSteps \cup {"close.lrange", "create.hset"}),
             registry \subseteq registry', home' = home
      PROVE  /\ At(t, n) \in Tasks /\ At(t, n).step = n
             /\ <<At(t, n)>> \in Seq(Tasks) /\ DOMAIN <<At(t, n)>> = {1}
             /\ InOrder(At(t, n), s, home', registry')
  <2>1. t \in Tasks /\ InOrder(t, s, home, registry) /\ t.step = st /\ t.g # None
    BY <1>t, <1>h, <1>n, StoreAssumption
  <2>2. At(t, n) \in Tasks /\ At(t, n).step = n /\ At(t, n).job = t.job
        /\ At(t, n).c = t.c /\ At(t, n).g = t.g
    BY <2>1, TaskAt
  <2> HIDE DEF t
  <2> DEFINE u == At(t, n)
  <2>3. u \in Tasks /\ u.step = n /\ u.job = t.job /\ u.c = t.c /\ u.g = t.g
    BY <2>2
  <2> HIDE DEF u
  <2>4. InOrder(u, s, home', registry')
    BY <1>n, <2>1, <2>3 DEF InOrder
  <2>5. <<u>> \in Seq(Tasks) /\ DOMAIN <<u>> = {1}
    BY <2>3
  <2> QED BY <2>2, <2>4, <2>5 DEF u
<1>e. DOMAIN <<>> = {} /\ <<>> \in Seq(Tasks)
  OBVIOUS
(* A step that writes no list and goes on with one command or with none.    *)
<1>q. ASSUME NEW st, Running(s, st), st # "close.lrange",
             st \notin {"push.lpushGroup", "remove.lremGroup"},
             st # "create.hset" \/ t.g \in registry',
             NEW n \in Steps \ (EraseSteps \cup {"close.lrange", "create.hset",
                                                "push.lpushGroup", "remove.lremGroup"}),
             Reply(s, <<At(t, n)>>) \/ Reply(s, <<>>),
             registry \subseteq registry', home' = home, known' = known,
             groupsOf' = groupsOf, members' = members
      PROVE  UndeletedInv'
  <2>1. pipe[s] # <<>> /\ t.step = st
    BY <1>h, <1>q
  <2>2. CASE Reply(s, <<>>)
    BY <1>t, <1>e, <1>q, <2>1, <2>2, QuietReply
  <2>3. CASE Reply(s, <<At(t, n)>>)
    <3> DEFINE u == At(t, n)
    <3>1. u.step = n /\ <<u>> \in Seq(Tasks) /\ DOMAIN <<u>> = {1} /\ InOrder(u, s, home', registry')
      BY <1>n, <1>q
    <3> HIDE DEF u
    <3>2. \A k \in DOMAIN <<u>> : <<u>>[k] = u
      BY <3>1
    <3>3. Reply(s, <<u>>)
      BY <2>3 DEF u
    <3> QED BY <1>t, <1>q, <2>1, <3>1, <3>2, <3>3, QuietReply
  <2> QED BY <1>q, <2>2, <2>3
<1>s. {"push.lrangeGroup", "push.lrangeClient", "push.lpushClient", "remove.lremClient",
       "client.hset", "client.lrange", "notify.lrange"}
        \subseteq Steps \ (EraseSteps \cup {"close.lrange", "create.hset",
                                           "push.lpushGroup", "remove.lremGroup"})
  BY DEF Steps, StoreSteps, PushSteps, RemoveSteps, EraseSteps
<1> HIDE DEF t
<1>1. CASE CreateEntry(s)
  BY <1>1, <1>q, <1>s DEF CreateEntry, t
<1>2. CASE Get(s)
  <2>1. Running(s, "get.hget") /\ InOrder(t, s, home, registry) /\ t.step = "get.hget"
    BY <1>2, <1>h DEF Get, GetGroupInstance
  <2>2. t.g \in registry /\ t.job # "delete"
    BY <2>1 DEF InOrder
  <2>3. PICK n \in {"push.lrangeGroup", "remove.lremClient"} : Reply(s, <<At(t, n)>>)
    BY <1>2, <2>2 DEF Get, GetGroupInstance, Found, t
  <2> QED BY <1>2, <1>q, <1>s, <2>1, <2>3 DEF Get, GetGroupInstance
<1>3. CASE Push(s)
  <2>1. CASE PushReadGroup(s, Rejected(Head(pipe[s])))
    BY <1>3, <2>1, <1>q, <1>s DEF Push, PushReadGroup, Rejected, t
  <2>2. CASE PushReadClient(s, Rejected(Head(pipe[s])))
    BY <1>3, <2>2, <1>q, <1>s DEF Push, PushReadClient, Rejected, t
  <2>3. CASE PushWriteClient(s)
    <3>1. Running(s, "push.lpushClient") /\ pipe[s] # <<>> /\ t.step = "push.lpushClient"
          /\ t \in Tasks /\ t.g \in Groups
      BY <2>3, <1>h DEF PushWriteClient
    <3> DEFINE n == groupsOf[t.c][t.g] + 1
    <3>2. n \in Nat /\ n > 0
      BY <1>t, <3>1 DEF TypeOK, Tasks
    <3>3. groupsOf' = [groupsOf EXCEPT ![t.c][t.g] = n] /\ Reply(s, <<At(t, "push.lpushGroup")>>)
      BY <2>3 DEF PushWriteClient, t
    <3> HIDE DEF n
    <3> QED BY <1>3, <1>t, <2>3, <3>1, <3>2, <3>3, FirstWrite DEF Push, PushWriteClient, t
  <2> QED BY <1>3, <2>1, <2>2, <2>3 DEF Push
<1>4. CASE PushEnd(s)
  <2>1. Running(s, "push.lpushGroup") /\ pipe[s] # <<>> /\ t.step = "push.lpushGroup"
        /\ t \in Tasks /\ t.g \in Groups
    BY <1>4, <1>h DEF PushEnd, PushWriteGroup
  <2> DEFINE n == members[t.g][t.c] + 1
  <2>2. n \in Nat /\ n > 0
    BY <1>t, <2>1 DEF TypeOK, Tasks
  <2>3. members' = [members EXCEPT ![t.g][t.c] = n] /\ Reply(s, Pushed(t))
    BY <1>4 DEF PushEnd, PushWriteGroup, t
  <2>4. Pushed(t) \in Seq(Tasks)
        /\ \A k \in DOMAIN Pushed(t) : Pushed(t)[k] = At(t, "notify.lrange")
    <3>1. registry' = registry /\ home' = home
      BY <1>4 DEF PushEnd, PushWriteGroup
    <3>2. "notify.lrange" \in Steps \ (EraseSteps \cup {"close.lrange", "create.hset"})
      BY <1>s
    <3>3. At(t, "notify.lrange") \in Tasks /\ <<At(t, "notify.lrange")>> \in Seq(Tasks)
          /\ DOMAIN <<At(t, "notify.lrange")>> = {1}
      BY <1>n, <2>1, <3>1, <3>2
    <3> QED BY <1>e, <3>3 DEF Pushed, Notify
  <2>5. known' \subseteq known \cup {t.g}
    BY <1>4 DEF PushEnd, t
  <2> HIDE DEF n
  <2> QED BY <1>4, <1>t, <2>1, <2>2, <2>3, <2>4, <2>5, SecondWrite
          DEF PushEnd, PushWriteGroup, t
<1>5. CASE Remove(s)
  <2>1. Running(s, "remove.lremClient") /\ pipe[s] # <<>> /\ t.step = "remove.lremClient"
    BY <1>5, <1>h DEF Remove, RemoveWriteClient
  <2>2. groupsOf' = [groupsOf EXCEPT ![t.c][t.g] = 0] /\ Reply(s, <<At(t, "remove.lremGroup")>>)
    BY <1>5 DEF Remove, RemoveWriteClient, t
  <2>3. 0 \in Nat /\ (0 > 0 <=> "remove.lremGroup" = "push.lpushGroup")
    OBVIOUS
  <2>4. /\ registry' = registry /\ home' = home /\ known' = known /\ members' = members
        /\ t.step \in {"push.lpushClient", "remove.lremClient"}
        /\ "remove.lremGroup" \in {"push.lpushGroup", "remove.lremGroup"}
    BY <1>5, <2>1 DEF Remove, RemoveWriteClient
  <2> QED BY <1>t, <2>1, <2>2, <2>3, <2>4, FirstWrite DEF t
<1>6. CASE RemoveEnd(s)
  <2>1. Running(s, "remove.lremGroup") /\ pipe[s] # <<>> /\ t.step = "remove.lremGroup"
    BY <1>6, <1>h DEF RemoveEnd, RemoveWriteGroup
  <2>2. members' = [members EXCEPT ![t.g][t.c] = 0] /\ Reply(s, Notify(t))
    BY <1>6 DEF RemoveEnd, RemoveWriteGroup, t
  <2>3. Notify(t) \in Seq(Tasks)
        /\ \A k \in DOMAIN Notify(t) : Notify(t)[k] = At(t, "notify.lrange")
    <3>1. registry' = registry /\ home' = home
      BY <1>6 DEF RemoveEnd, RemoveWriteGroup
    <3>2. "notify.lrange" \in Steps \ (EraseSteps \cup {"close.lrange", "create.hset"})
      BY <1>s
    <3>3. At(t, "notify.lrange") \in Tasks /\ <<At(t, "notify.lrange")>> \in Seq(Tasks)
          /\ DOMAIN <<At(t, "notify.lrange")>> = {1}
      BY <1>n, <2>1, <3>1, <3>2
    <3> QED BY <3>3 DEF Notify
  <2>4. 0 \in Nat /\ (0 > 0 <=> t.step = "push.lpushGroup")
    BY <2>1
  <2>5. /\ registry' = registry /\ home' = home /\ groupsOf' = groupsOf
        /\ known' \subseteq known \cup {t.g}
    BY <1>6 DEF RemoveEnd, RemoveWriteGroup
  <2> QED BY <1>t, <2>1, <2>2, <2>3, <2>4, <2>5, SecondWrite DEF t
<1>7. CASE Erase(s)
  <2>1. PICK st \in EraseSteps : Running(s, st)
    BY <1>7 DEF Erase, EraseReadGroup, EraseWriteClient, EraseEntry, EraseGroup, EraseSteps
  <2> QED BY <1>h, <2>1 DEF InOrder
<1>8. CASE LeaveAllGroups(s)
  <2> DEFINE n == Cardinality(GroupsOfClient(t.c))
  <2>1. PICK order \in [1..n -> GroupsOfClient(t.c)] :
           Reply(s, [i \in DOMAIN order |-> Task("get.hget", "close", t.c, order[i])])
    BY <1>8 DEF LeaveAllGroups, t
  <2> DEFINE f == [i \in DOMAIN order |-> Task("get.hget", "close", t.c, order[i])]
  <2>2. t \in Tasks /\ t.c \in Clients /\ pipe[s] # <<>> /\ InOrder(t, s, home, registry)
        /\ t.step = "close.lrange"
    BY <1>8, <1>h DEF LeaveAllGroups, Tasks
  <2>3. n \in Nat /\ DOMAIN f = 1..n
    BY ListedFinite
  <2>4. \A i \in 1..n : order[i] \in Groups /\ groupsOf[t.c][order[i]] > 0
    BY <2>1 DEF GroupsOfClient
  <2>5. \A i \in 1..n : f[i] \in Tasks /\ f[i].step = "get.hget" /\ f[i].job = "close"
                        /\ f[i].c = t.c /\ f[i].g = order[i]
    <3>1. "get.hget" \in Steps /\ "close" \in Jobs
      BY DEF Steps, StoreSteps, Jobs, AllOps
    <3>2. ASSUME NEW i \in 1..n
          PROVE  Task("get.hget", "close", t.c, order[i]) \in Tasks
      BY <3>1, <2>2, <2>4, TaskNew
    <3> QED BY <3>2 DEF Task
  <2>6. f \in Seq(Tasks)
    BY <2>3, <2>5, SeqDef
  <2>7. \A i \in 1..n : order[i] \in registry
    BY <2>2, <2>4 DEF UndeletedInv, ListsRegistered
  <2>8. home' = home /\ registry' = registry /\ known' = known
        /\ groupsOf' = groupsOf /\ members' = members
    BY <1>8 DEF LeaveAllGroups
  <2> HIDE DEF f, n
  <2>9. \A k \in DOMAIN f : InOrder(f[k], s, home', registry')
    BY <2>2, <2>3, <2>5, <2>7, <2>8 DEF InOrder, EraseSteps
  <2>10. Reply(s, f)
    BY <2>1 DEF f
  <2> QED BY <1>t, <2>2, <2>3, <2>5, <2>6, <2>8, <2>9, <2>10, QuietReply DEF t
<1>9. CASE GetClient(s)
  BY <1>9, <1>q, <1>s DEF GetClient, t
<1>10. CASE SetClient(s)
  BY <1>10, <1>q, <1>s DEF SetClient, t
<1>11. CASE CheckSender(s)
  BY <1>11, <1>q, <1>s DEF CheckSender, Rejected, Notify, t
<1>12. CASE NotifyGroup(s)
  BY <1>12, <1>q, <1>s DEF NotifyGroup, t
<1> QED BY <1>1, <1>2, <1>3, <1>4, <1>5, <1>6, <1>7, <1>8, <1>9, <1>10, <1>11, <1>12
        DEF ServerStep

LEMMA UndeletedInvariant ==
    ASSUME "delete" \notin Ops
    PROVE  Spec => []UndeletedInv
<1>1. UndeletedInv /\ [Next]_vars => UndeletedInv'
  <2>1. ASSUME UndeletedInv, UNCHANGED vars PROVE UndeletedInv'
    BY <2>1 DEF UndeletedInv, TypeOK, ChainsInOrder, InOrder, ListsRegistered,
                Agreement, Agrees, vars
  <2> QED BY <2>1, UndeletedClient, UndeletedServer DEF Next
<1> QED BY <1>1, UndeletedInit, PTL DEF Spec

(* As long as no client sends DELETE the two lists of every membership      *)
(* agree up to the second writes still queued, however the requests of a    *)
(* client overlap and whenever it disconnects (Group.push, Group.remove).   *)
THEOREM ListsAgree ==
    ASSUME "delete" \notin Ops
    PROVE  Spec => []Agreement
<1>1. UndeletedInv => Agreement
  BY DEF UndeletedInv
<1> QED BY <1>1, UndeletedInvariant, PTL

(* ... so that they are symmetric whenever nothing is queued.               *)
THEOREM ListsSymmetricWhenQuiet ==
    ASSUME "delete" \notin Ops
    PROVE  Spec => []QuietSymmetry
<1>1. UndeletedInv => QuietSymmetry
  <2> SUFFICES ASSUME UndeletedInv, Quiet, NEW c \in Clients, NEW g \in Groups
               PROVE  Symmetric(c, g)
    BY DEF QuietSymmetry
  <2>1. home[c] \in Servers /\ pipe[home[c]] = <<>>
    BY DEF UndeletedInv, TypeOK, Quiet
  <2>2. DOMAIN pipe[home[c]] = {}
    BY <2>1
  <2> QED BY <2>2 DEF UndeletedInv, Agreement, Agrees, Converging, Symmetric
<1> QED BY <1>1, UndeletedInvariant, PTL

(* ... and a group with members is never answered "does not exist".         *)
THEOREM MembersRegistered ==
    ASSUME "delete" \notin Ops
    PROVE  Spec => []NoZombieGroup
<1>1. UndeletedInv => NoZombieGroup
  BY DEF UndeletedInv, ListsRegistered, NoZombieGroup, MembersOf
<1> QED BY <1>1, UndeletedInvariant, PTL

-------------------------------------------------------------------------------
(* With DELETE.  What one step of a chain does: it goes on with f and       *)
(* writes no list, it makes the first or the second write of a push or a    *)
(* remove, or it writes the lists of the group it erases.                   *)

FirstSteps == {"push.lpushClient", "remove.lremClient"}

SecondSteps == {"push.lpushGroup", "remove.lremGroup"}

(* A chain of s goes on with f and writes no list. *)
SilentStep(s, f) ==
    /\ pipe[s] # <<>> /\ f \in Seq(Tasks) /\ Reply(s, f)
    /\ Head(pipe[s]).step \notin SecondSteps
    /\ \A k \in DOMAIN f : f[k].step \notin SecondSteps
    /\ groupsOf' = groupsOf /\ members' = members

(* The first write: the list of c holds g from now on n times. *)
FirstStep(s, u, n) ==
    /\ pipe[s] # <<>> /\ <<u>> \in Seq(Tasks) /\ Reply(s, <<u>>)
    /\ Head(pipe[s]).step \notin SecondSteps
    /\ u.c \in Clients /\ u.g \in Groups /\ u.step \in SecondSteps
    /\ home[u.c] = s
    /\ groupsOf' = [groupsOf EXCEPT ![u.c][u.g] = n] /\ members' = members

(* The second write: the list of g holds c from now on n times. *)
SecondStep(s, c, g, f, n) ==
    /\ pipe[s] # <<>> /\ f \in Seq(Tasks) /\ Reply(s, f)
    /\ Head(pipe[s]).step \in SecondSteps
    /\ Head(pipe[s]).c = c /\ Head(pipe[s]).g = g
    /\ c \in Clients /\ g \in Groups
    /\ home[c] = s
    /\ \A k \in DOMAIN f : f[k].step \notin SecondSteps
    /\ members' = [members EXCEPT ![g][c] = n]
    /\ groupsOf' = groupsOf

(* s goes on with f, or with f in place of the head (a burst of LREMs).     *)
GoesOn(s, f) == \/ Reply(s, f)
                \/ Len(f) = 1 /\ pipe' = [pipe EXCEPT ![s] = f \o Tail(@)]

(* A write of an erase: of no other group, and nothing is added.            *)
EraseStep(s, f) ==
    /\ pipe[s] # <<>> /\ f \in Seq(Tasks) /\ GoesOn(s, f)
    /\ Head(pipe[s]).step \in {"erase.lremClient", "erase.del"}
    /\ \A k \in DOMAIN f : f[k].step \notin SecondSteps
    /\ \A c \in Clients, g \in Groups :
          /\ groupsOf'[c][g] > 0 => groupsOf[c][g] > 0
          /\ members'[g][c] > 0 => members[g][c] > 0
          /\ g # Head(pipe[s]).g => /\ groupsOf'[c][g] = groupsOf[c][g]
                                    /\ members'[g][c] = members[g][c]

(* What a chain at t goes on with works for the same client, on the same    *)
(* group or on one its list names.                                          *)
Succeeds(t, u) ==
    /\ u \in Tasks
    /\ u.c = t.c
    /\ u.g \in Groups
    /\ u.g = t.g \/ groupsOf[t.c][u.g] > 0
    /\ u.step # "create.hset"
    /\ u.step = "erase.del" => t.step = "erase.hdel" /\ u.g = t.g

Leads(s, f) == \A k \in DOMAIN f : Succeeds(Head(pipe[s]), f[k])

(* An erase that has begun goes on to its DEL. *)
StillErasing(s, f) ==
    \/ Head(pipe[s]).step \notin EraseSteps \ {"erase.del"}
    \/ \E k \in DOMAIN f : f[k].g = Head(pipe[s]).g /\ f[k].step \in EraseSteps

KindOfStep(s) ==
    \/ \E f : SilentStep(s, f) /\ Leads(s, f) /\ StillErasing(s, f)
              /\ Head(pipe[s]).step # "erase.del"
    \/ \E u : \E n \in Nat : /\ FirstStep(s, u, n) /\ Leads(s, <<u>>)
                             /\ Head(pipe[s]).step \in FirstSteps
                             /\ u.g = Head(pipe[s]).g
                             /\ n > 0 <=> u.step = "push.lpushGroup"
    \/ \E f : \E n \in Nat :
          /\ SecondStep(s, Head(pipe[s]).c, Head(pipe[s]).g, f, n) /\ Leads(s, f)
          /\ n > 0 <=> Head(pipe[s]).step = "push.lpushGroup"
    \/ \E f : EraseStep(s, f) /\ Leads(s, f) /\ StillErasing(s, f)

(* What it does to the ids: they are minted elsewhere, registered by HSET.  *)
IdsAfter(s) ==
    /\ pipe[s] # <<>> /\ Head(pipe[s]) \in Tasks
    /\ home' = home /\ minted' = minted
    /\ registry' = IF Head(pipe[s]).step = "create.hset" THEN registry \cup {Head(pipe[s]).g}
                   ELSE IF Head(pipe[s]).step = "erase.hdel" THEN registry \ {Head(pipe[s]).g}
                   ELSE registry
    /\ known' \subseteq known \cup {Head(pipe[s]).g}

LEMMA ShortReply ==
    ASSUME NEW u, <<u>> \in Seq(Tasks), NEW f \in {<<>>, <<u>>}
    PROVE  f \in Seq(Tasks) /\ \A k \in DOMAIN f : f[k] = u
<1>1. CASE f = <<>>
  <2>1. f \in Seq(Tasks)
    BY <1>1
  <2>2. DOMAIN f = {}
    BY <1>1
  <2> QED  BY <2>1, <2>2
<1>2. CASE f = <<u>>
  <2>1. DOMAIN f = {1} /\ f[1] = u
    BY <1>2
  <2> QED  BY <1>2, <2>1
<1> QED  BY <1>1, <1>2

LEMMA IdsOfStep ==
    ASSUME TypeOK, NEW s \in Servers, ServerStep(s)
    PROVE  IdsAfter(s)
<1>1. pipe[s] # <<>>
  BY DEF ServerStep, CreateEntry, Get, GetGroupInstance, Push, PushReadGroup, PushReadClient,
         PushWriteClient, PushEnd, PushWriteGroup, Remove, RemoveWriteClient, RemoveEnd,
         RemoveWriteGroup, Erase, EraseReadGroup, EraseWriteClient, EraseEntry, EraseGroup,
         LeaveAllGroups, GetClient, SetClient, CheckSender, NotifyGroup, Running
<1>2. Head(pipe[s]) \in Tasks
  BY <1>1, HeadTask
<1> DEFINE t == Head(pipe[s])
<1>3. home' = home /\ minted' = minted /\ known' \subseteq known \cup {t.g}
  BY DEF ServerStep, CreateEntry, Get, Push, PushEnd, Remove, RemoveEnd, Erase,
         LeaveAllGroups, GetClient, SetClient, CheckSender, NotifyGroup
<1>4. CASE CreateEntry(s)
  BY <1>1, <1>2, <1>3, <1>4 DEF CreateEntry, Running, IdsAfter
<1>5. CASE EraseEntry(s)
  BY <1>1, <1>2, <1>3, <1>5 DEF EraseEntry, Running, IdsAfter
<1>6. CASE ~CreateEntry(s) /\ ~EraseEntry(s)
  <2>1. registry' = registry
    BY <1>6 DEF ServerStep, Get, GetGroupInstance, Push, PushReadGroup, PushReadClient,
         PushWriteClient, PushEnd, PushWriteGroup, Remove, RemoveWriteClient, RemoveEnd,
         RemoveWriteGroup, Erase, EraseReadGroup, EraseWriteClient, EraseGroup,
         LeaveAllGroups, GetClient, SetClient, CheckSender, NotifyGroup
  <2>2. t.step \notin {"create.hset", "erase.hdel"}
    BY <1>6 DEF ServerStep, Get, GetGroupInstance, Push, PushReadGroup, PushReadClient,
         PushWriteClient, PushEnd, PushWriteGroup, Remove, RemoveWriteClient, RemoveEnd,
         RemoveWriteGroup, Erase, EraseReadGroup, EraseWriteClient, EraseGroup,
         LeaveAllGroups, GetClient, SetClient, CheckSender, NotifyGroup, Running
  <2> QED  BY <1>1, <1>2, <1>3, <2>1, <2>2 DEF IdsAfter
<1> QED  BY <1>4, <1>5, <1>6

LEMMA StepKinds ==
    ASSUME TypeOK, NEW s \in Servers, ServerStep(s), home[Head(pipe[s]).c] = s
    PROVE  KindOfStep(s)
<1> DEFINE t == Head(pipe[s])
<1>h. ASSUME NEW st, Running(s, st)
      PROVE  /\ pipe[s] # <<>> /\ t \in Tasks /\ t.step = st /\ home[t.c] = s /\ t.c \in Clients
             /\ st # "close.lrange" => t.g \in Groups
  BY <1>h, HeadTask, HeadFields DEF Running, Tasks
(* A command of the same chain follows its head. *)
<1>n. ASSUME NEW st, Running(s, st), st # "close.lrange",
             NEW n \in Steps \ {"close.lrange", "create.hset"},
             n # "erase.del" \/ st = "erase.hdel"
      PROVE  /\ At(t, n) \in Tasks /\ <<At(t, n)>> \in Seq(Tasks)
             /\ At(t, n).step = n /\ At(t, n).c = t.c /\ At(t, n).g = t.g
             /\ Succeeds(t, At(t, n))
  <2>1. t \in Tasks /\ t.g \in Groups /\ t.g # None /\ t.step = st
    BY <1>h, <1>n, StoreAssumption
  <2> HIDE DEF t
  <2> DEFINE u == At(t, n)
  <2>2. u \in Tasks /\ u.step = n /\ u.c = t.c /\ u.g = t.g
    BY <2>1, TaskAt
  <2> HIDE DEF u
  <2>3. Succeeds(t, u) /\ <<u>> \in Seq(Tasks)
    BY <1>n, <2>1, <2>2 DEF Succeeds
  <2> QED  BY <2>2, <2>3 DEF u
<1>s. /\ {"push.lrangeGroup", "push.lrangeClient", "push.lpushClient", "remove.lremClient",
          "client.hset", "client.lrange", "notify.lrange", "erase.lrangeGroup",
          "erase.lremClient", "erase.hdel"}
             \subseteq Steps \ ({"close.lrange", "create.hset", "erase.del"} \cup SecondSteps)
      /\ SecondSteps \subseteq Steps \ {"close.lrange", "create.hset", "erase.del"}
      /\ "erase.del" \in Steps \ ({"close.lrange", "create.hset"} \cup SecondSteps)
  BY DEF Steps, StoreSteps, PushSteps, RemoveSteps, EraseSteps, SecondSteps
(* A step that writes no list and goes on with u or with nothing.           *)
<1>q. ASSUME NEW st, Running(s, st), st \notin SecondSteps, st # "erase.del",
             NEW u, <<u>> \in Seq(Tasks), Succeeds(t, u), u.step \notin SecondSteps,
             \/ Reply(s, <<u>>)
             \/ Reply(s, <<>>) /\ st \notin EraseSteps,
             st \in EraseSteps => u.g = t.g /\ u.step \in EraseSteps,
             groupsOf' = groupsOf, members' = members
      PROVE  KindOfStep(s)
  <2>1. pipe[s] # <<>> /\ t.step = st
    BY <1>h, <1>q
  <2>2. PICK f \in {<<>>, <<u>>} : Reply(s, f) /\ (f = <<>> => st \notin EraseSteps)
    BY <1>q
  <2>3. f \in Seq(Tasks) /\ \A k \in DOMAIN f : f[k] = u
    BY <1>q, ShortReply
  <2>4. SilentStep(s, f) /\ Leads(s, f)
    BY <1>q, <2>1, <2>2, <2>3 DEF SilentStep, Leads
  <2>5. StillErasing(s, f)
    <3>1. CASE f = <<>>
      BY <2>1, <2>2, <3>1 DEF StillErasing
    <3>2. CASE f = <<u>>
      <4>1. 1 \in DOMAIN f /\ f[1] = u
        BY <3>2
      <4> QED  BY <1>q, <2>1, <4>1 DEF StillErasing
    <3> QED  BY <3>1, <3>2
  <2> QED  BY <1>q, <2>1, <2>4, <2>5 DEF KindOfStep
(* ... with the command n of the same chain, or with nothing.               *)
<1>a. ASSUME NEW st, Running(s, st), st \notin SecondSteps, st \notin {"erase.del", "close.lrange"},
             NEW n \in Steps \ ({"close.lrange", "create.hset"} \cup SecondSteps),
             n # "erase.del" \/ st = "erase.hdel",
             \/ Reply(s, <<At(t, n)>>)
             \/ Reply(s, <<>>) /\ st \notin EraseSteps,
             st \in EraseSteps => n \in EraseSteps,
             groupsOf' = groupsOf, members' = members
      PROVE  KindOfStep(s)
  <2> DEFINE u == At(t, n)
  <2>1. <<u>> \in Seq(Tasks) /\ u.step = n /\ u.g = t.g /\ Succeeds(t, u)
    BY <1>n, <1>a
  <2>2. \/ Reply(s, <<u>>)
        \/ Reply(s, <<>>) /\ st \notin EraseSteps
    BY <1>a
  <2> HIDE DEF u, t
  <2> QED  BY <1>a, <1>q, <2>1, <2>2
<1>w. ASSUME NEW st \in FirstSteps, Running(s, st), NEW n \in SecondSteps,
             Reply(s, <<At(t, n)>>), NEW k \in Nat, k > 0 <=> n = "push.lpushGroup",
             groupsOf' = [groupsOf EXCEPT ![t.c][t.g] = k], members' = members
      PROVE  KindOfStep(s)
  <2>1. st # "close.lrange" /\ st \notin SecondSteps
    BY DEF FirstSteps, SecondSteps
  <2> DEFINE u == At(t, n)
  <2>2. /\ <<u>> \in Seq(Tasks) /\ u.step = n /\ u.c = t.c /\ u.g = t.g /\ Reply(s, <<u>>)
        /\ Succeeds(t, u)
    <3>1. n \in Steps \ {"close.lrange", "create.hset"} /\ n # "erase.del"
      BY <1>s
    <3> QED  BY <1>n, <1>w, <2>1, <3>1
  <2>3. pipe[s] # <<>> /\ t.step = st /\ home[t.c] = s /\ t.c \in Clients /\ t.g \in Groups
    BY <1>h, <1>w, <2>1
  <2> HIDE DEF u
  <2>4. FirstStep(s, u, k)
    BY <1>w, <2>1, <2>2, <2>3 DEF FirstStep
  <2>5. Leads(s, <<u>>)
    <3>1. \A i \in DOMAIN <<u>> : <<u>>[i] = u
      OBVIOUS
    <3> QED  BY <2>2, <3>1 DEF Leads
  <2> QED  BY <1>w, <2>2, <2>3, <2>4, <2>5 DEF KindOfStep
<1>2. ASSUME NEW st \in SecondSteps, Running(s, st), NEW f,
             f = <<>> \/ f = <<At(t, "notify.lrange")>>, Reply(s, f),
             NEW k \in Nat, k > 0 <=> st = "push.lpushGroup",
             members' = [members EXCEPT ![t.g][t.c] = k], groupsOf' = groupsOf
      PROVE  KindOfStep(s)
  <2>1. st # "close.lrange" /\ "notify.lrange" \notin SecondSteps
    BY DEF SecondSteps
  <2> DEFINE u == At(t, "notify.lrange")
  <2>2. <<u>> \in Seq(Tasks) /\ u.step = "notify.lrange" /\ f \in {<<>>, <<u>>} /\ Succeeds(t, u)
    BY <1>n, <1>s, <1>2, <2>1
  <2> HIDE DEF u
  <2>3. f \in Seq(Tasks) /\ \A i \in DOMAIN f : f[i] = u
    BY <2>1, <2>2, ShortReply
  <2>4. pipe[s] # <<>> /\ t.step = st /\ home[t.c] = s /\ t.c \in Clients /\ t.g \in Groups
    BY <1>h, <1>2, <2>1
  <2>5. SecondStep(s, t.c, t.g, f, k)
    BY <1>2, <2>1, <2>2, <2>3, <2>4 DEF SecondStep
  <2>6. Leads(s, f)
    BY <2>2, <2>3 DEF Leads
  <2> QED  BY <1>2, <2>4, <2>5, <2>6 DEF KindOfStep
<1> HIDE DEF t
<1>3. CASE CreateEntry(s)
  BY <1>3, <1>a, <1>s DEF CreateEntry, SecondSteps, EraseSteps, t
<1>4. CASE Get(s)
  <2>1. Running(s, "get.hget") /\ groupsOf' = groupsOf /\ members' = members
    BY <1>4 DEF Get, GetGroupInstance
  <2>2. CASE t.g \in registry
    <3>1. PICK n \in {"push.lrangeGroup", "remove.lremClient", "erase.lrangeGroup"} :
             Reply(s, <<At(t, n)>>)
      BY <1>4, <2>2 DEF Get, GetGroupInstance, Found, t
    <3> QED BY <1>a, <1>s, <2>1, <3>1 DEF SecondSteps, EraseSteps
  <2>3. CASE t.g \notin registry
    <3> DEFINE v == At(t, "erase.lrangeGroup")
    <3> DEFINE u == [v EXCEPT !.job = "heal"]
    <3>1. Reply(s, <<u>>)
      BY <1>4, <2>3 DEF Get, GetGroupInstance, t
    <3>2. v \in Tasks /\ v.step = "erase.lrangeGroup" /\ v.c = t.c /\ v.g = t.g /\ t.g \in Groups
      BY <1>n, <1>h, <1>s, <2>1
    <3> HIDE DEF v
    <3>3. u \in Tasks /\ u.step = "erase.lrangeGroup" /\ u.c = t.c /\ u.g = t.g
      BY <3>2 DEF Tasks, Jobs
    <3> HIDE DEF u
    <3>4. <<u>> \in Seq(Tasks) /\ Succeeds(t, u)
      BY <3>2, <3>3 DEF Succeeds
    <3> QED  BY <1>q, <2>1, <3>1, <3>3, <3>4 DEF SecondSteps, EraseSteps
  <2> QED BY <2>2, <2>3
<1>5. CASE Push(s)
  <2>1. CASE PushReadGroup(s, Rejected(Head(pipe[s])))
    BY <2>1, <1>a, <1>s DEF PushReadGroup, Rejected, SecondSteps, EraseSteps, t
  <2>2. CASE PushReadClient(s, Rejected(Head(pipe[s])))
    BY <2>2, <1>a, <1>s DEF PushReadClient, Rejected, SecondSteps, EraseSteps, t
  <2>3. CASE PushWriteClient(s)
    <3>1. Running(s, "push.lpushClient") /\ t.c \in Clients /\ t.g \in Groups
      BY <2>3, <1>h DEF PushWriteClient
    <3> DEFINE k == groupsOf[t.c][t.g] + 1
    <3>2. k \in Nat /\ k > 0
      BY <3>1 DEF TypeOK
    <3>3. groupsOf' = [groupsOf EXCEPT ![t.c][t.g] = k] /\ members' = members
          /\ Reply(s, <<At(t, "push.lpushGroup")>>)
      BY <2>3 DEF PushWriteClient, t
    <3> HIDE DEF k
    <3> QED BY <1>w, <3>1, <3>2, <3>3 DEF FirstSteps, SecondSteps
  <2> QED BY <1>5, <2>1, <2>2, <2>3 DEF Push
<1>6. CASE PushEnd(s)
  <2>1. Running(s, "push.lpushGroup") /\ t.c \in Clients /\ t.g \in Groups
    BY <1>6, <1>h DEF PushEnd, PushWriteGroup
  <2> DEFINE k == members[t.g][t.c] + 1
  <2>2. k \in Nat /\ k > 0
    BY <2>1 DEF TypeOK
  <2>3. Pushed(t) = <<>> \/ Pushed(t) = <<At(t, "notify.lrange")>>
    BY DEF Pushed, Notify
  <2>4. members' = [members EXCEPT ![t.g][t.c] = k] /\ groupsOf' = groupsOf /\ Reply(s, Pushed(t))
    BY <1>6 DEF PushEnd, PushWriteGroup, t
  <2> HIDE DEF k
  <2> QED BY <1>2, <2>1, <2>2, <2>3, <2>4 DEF SecondSteps
<1>7. CASE Remove(s)
  <2>1. /\ Running(s, "remove.lremClient") /\ Reply(s, <<At(t, "remove.lremGroup")>>)
        /\ groupsOf' = [groupsOf EXCEPT ![t.c][t.g] = 0] /\ members' = members
    BY <1>7 DEF Remove, RemoveWriteClient, t
  <2>2. 0 \in Nat /\ (0 > 0 <=> "remove.lremGroup" = "push.lpushGroup")
    OBVIOUS
  <2>3. "remove.lremClient" \in FirstSteps /\ "remove.lremGroup" \in SecondSteps
    BY DEF FirstSteps, SecondSteps
  <2> QED BY <1>w, <2>1, <2>2, <2>3
<1>8. CASE RemoveEnd(s)
  <2>1. /\ Running(s, "remove.lremGroup") /\ Reply(s, <<At(t, "notify.lrange")>>)
        /\ members' = [members EXCEPT ![t.g][t.c] = 0] /\ groupsOf' = groupsOf
    BY <1>8 DEF RemoveEnd, RemoveWriteGroup, Notify, t
  <2>2. 0 \in Nat /\ (0 > 0 <=> "remove.lremGroup" = "push.lpushGroup")
    OBVIOUS
  <2>3. "remove.lremGroup" \in SecondSteps
    BY DEF SecondSteps
  <2> QED BY <1>2, <2>1, <2>2, <2>3
<1>9. CASE EraseReadGroup(s)
  <2>1. Running(s, "erase.lrangeGroup") /\ groupsOf' = groupsOf /\ members' = members
    BY <1>9 DEF EraseReadGroup
  <2>2. CASE MembersOf(t.g) = {}
    BY <1>9, <1>a, <1>s, <2>1, <2>2 DEF EraseReadGroup, EraseSteps, SecondSteps, t
  <2>3. CASE MembersOf(t.g) # {}
    <3> DEFINE v == At(t, "erase.lremClient")
    <3> DEFINE u == [v EXCEPT !.seen = MembersOf(t.g), !.left = MembersOf(t.g)]
    <3>1. Reply(s, <<u>>)
      BY <1>9, <2>3 DEF EraseReadGroup, t
    <3>2. v \in Tasks /\ v.step = "erase.lremClient" /\ v.c = t.c /\ v.g = t.g /\ t.g \in Groups
      BY <1>n, <1>h, <1>s, <2>1
    <3> HIDE DEF v
    <3>3. u \in Tasks /\ u.step = "erase.lremClient" /\ u.c = t.c /\ u.g = t.g
      BY <3>2 DEF Tasks, MembersOf
    <3> HIDE DEF u
    <3>4. <<u>> \in Seq(Tasks) /\ Succeeds(t, u)
      BY <3>2, <3>3 DEF Succeeds
    <3> QED  BY <1>q, <2>1, <3>1, <3>3, <3>4 DEF SecondSteps, EraseSteps
  <2> QED BY <2>2, <2>3
<1>10. CASE EraseWriteClient(s)
  <2>1. Running(s, "erase.lremClient") /\ pipe[s] # <<>> /\ t \in Tasks /\ t.g \in Groups
        /\ t.step = "erase.lremClient" /\ t.left \in SUBSET Clients /\ members' = members
    BY <1>10, <1>h DEF EraseWriteClient, Tasks
  <2>2. PICK x \in t.left :
           /\ groupsOf' = [groupsOf EXCEPT ![x][t.g] = 0]
           /\ IF t.left = {x}
              THEN Reply(s, <<[At(t, "erase.hdel") EXCEPT !.left = {}]>>)
              ELSE pipe' = [pipe EXCEPT ![s] = <<[t EXCEPT !.left = @ \ {x}]>> \o Tail(@)]
    BY <1>10 DEF EraseWriteClient, t
  <2> DEFINE v == At(t, "erase.hdel")
  <2>3. v \in Tasks /\ v.step = "erase.hdel" /\ v.c = t.c /\ v.g = t.g
    BY <1>n, <1>s, <2>1
  <2>4. PICK u \in {[v EXCEPT !.left = {}], [t EXCEPT !.left = @ \ {x}]} : GoesOn(s, <<u>>)
    BY <2>2 DEF GoesOn
  <2> HIDE DEF v
  <2>5. u \in Tasks /\ u.c = t.c /\ u.g = t.g /\ u.step \in {"erase.hdel", "erase.lremClient"}
    BY <2>1, <2>3, <2>4 DEF Tasks
  <2>6. /\ <<u>> \in Seq(Tasks) /\ Succeeds(t, u)
        /\ 1 \in DOMAIN <<u>> /\ \A k \in DOMAIN <<u>> : <<u>>[k] = u
    BY <2>1, <2>5 DEF Succeeds
  <2>7. \A c \in Clients, g \in Groups :
           groupsOf'[c][g] = IF c = x /\ g = t.g THEN 0 ELSE groupsOf[c][g]
    BY <2>1, <2>2 DEF TypeOK
  <2>8. EraseStep(s, <<u>>)
    BY <2>1, <2>4, <2>5, <2>6, <2>7 DEF EraseStep, SecondSteps, t
  <2>9. Leads(s, <<u>>) /\ StillErasing(s, <<u>>)
    BY <2>1, <2>5, <2>6 DEF Leads, StillErasing, EraseSteps, t
  <2> QED BY <2>8, <2>9 DEF KindOfStep
<1>11. CASE EraseEntry(s)
  BY <1>11, <1>a, <1>s DEF EraseEntry, EraseSteps, SecondSteps, t
<1>12. CASE EraseGroup(s, Erased(Head(pipe[s])))
  <2>1. Running(s, "erase.del") /\ pipe[s] # <<>> /\ t \in Tasks /\ t.g \in Groups
        /\ t.step = "erase.del" /\ groupsOf' = groupsOf
    BY <1>12, <1>h DEF EraseGroup
  <2> DEFINE u == At(t, "notify.lrange")
  <2>2. <<u>> \in Seq(Tasks) /\ u.step = "notify.lrange" /\ Succeeds(t, u)
    BY <1>n, <1>s, <2>1
  <2>3. PICK f \in {<<>>, <<u>>} : Reply(s, f)
    BY <1>12 DEF EraseGroup, Erased, Notify, t
  <2> HIDE DEF u
  <2>4. f \in Seq(Tasks) /\ \A i \in DOMAIN f : f[i] = u
    BY <2>2, <2>3, ShortReply
  <2>5. \A c \in Clients, g \in Groups :
           members'[g][c] = IF g = t.g THEN 0 ELSE members[g][c]
    BY <1>12, <2>1 DEF EraseGroup, TypeOK, t
  <2>6. EraseStep(s, f)
    BY <2>1, <2>2, <2>3, <2>4, <2>5 DEF EraseStep, GoesOn, SecondSteps, t
  <2>7. Leads(s, f) /\ StillErasing(s, f)
    BY <2>1, <2>2, <2>4 DEF Leads, StillErasing, t
  <2> QED BY <2>6, <2>7 DEF KindOfStep
<1>13. CASE LeaveAllGroups(s)
  <2> DEFINE n == Cardinality(GroupsOfClient(t.c))
  <2>1. PICK order \in [1..n -> GroupsOfClient(t.c)] :
           Reply(s, [i \in DOMAIN order |-> Task("get.hget", "close", t.c, order[i])])
    BY <1>13 DEF LeaveAllGroups, t
  <2> DEFINE f == [i \in DOMAIN order |-> Task("get.hget", "close", t.c, order[i])]
  <2>2. t.c \in Clients /\ pipe[s] # <<>> /\ t.step = "close.lrange"
    BY <1>13, <1>h DEF LeaveAllGroups
  <2>3. n \in Nat /\ DOMAIN f = 1..n
    BY ListedFinite
  <2>4. \A i \in 1..n : order[i] \in Groups /\ groupsOf[t.c][order[i]] > 0
    BY <2>1 DEF GroupsOfClient
  <2>5. \A i \in 1..n : f[i] \in Tasks /\ f[i].step = "get.hget" /\ f[i].c = t.c
                        /\ f[i].g = order[i]
    <3>1. "get.hget" \in Steps /\ "close" \in Jobs
      BY DEF Steps, StoreSteps, Jobs, AllOps
    <3>2. ASSUME NEW i \in 1..n
          PROVE  Task("get.hget", "close", t.c, order[i]) \in Tasks
      BY <3>1, <2>2, <2>4, TaskNew
    <3> QED  BY <3>2 DEF Task
  <2>6. f \in Seq(Tasks)
    BY <2>3, <2>5, SeqDef
  <2>7. groupsOf' = groupsOf /\ members' = members
    BY <1>13 DEF LeaveAllGroups
  <2>8. Reply(s, f)
    BY <2>1
  <2> HIDE DEF f, n
  <2>9. SilentStep(s, f)
    BY <2>2, <2>3, <2>5, <2>6, <2>7, <2>8 DEF SilentStep, SecondSteps, t
  <2>10. Leads(s, f)
    BY <2>3, <2>4, <2>5 DEF Leads, Succeeds, t
  <2>11. StillErasing(s, f) /\ Head(pipe[s]).step # "erase.del"
    BY <2>2 DEF StillErasing, EraseSteps, t
  <2> QED  BY <2>9, <2>10, <2>11 DEF KindOfStep
<1>14. CASE GetClient(s)
  BY <1>14, <1>a, <1>s DEF GetClient, SecondSteps, EraseSteps, t
<1>15. CASE SetClient(s)
  BY <1>15, <1>a, <1>s DEF SetClient, SecondSteps, EraseSteps, t
<1>16. CASE CheckSender(s)
  BY <1>16, <1>a, <1>s DEF CheckSender, Rejected, Notify, SecondSteps, EraseSteps, t
<1>17. CASE NotifyGroup(s)
  BY <1>17, <1>a, <1>s DEF NotifyGroup, SecondSteps, EraseSteps, t
<1> QED  BY <1>3, <1>4, <1>5, <1>6, <1>7, <1>8, <1>9, <1>10, <1>11, <1>12, <1>13, <1>14, <1>15,
            <1>16, <1>17 DEF ServerStep, Erase

-------------------------------------------------------------------------------
(* Where the commands of the new pipelines come from. *)

(* d is 1 if the head has gone and 0 if it was replaced in place: command j *)
(* of s was command j + d of s, unless it is one of f.                      *)
Before(s, r, j, d) == IF r = s THEN j + d ELSE j

Stems(s, f, r, j, d) ==
    \/ /\ Before(s, r, j, d) \in DOMAIN pipe[r]
       /\ ~(r = s /\ Before(s, r, j, d) = 1)
       /\ pipe'[r][j] = pipe[r][Before(s, r, j, d)]
    \/ r = s /\ \E k \in DOMAIN f : pipe'[r][j] = f[k]

LEMMA PlacesAfterReply ==
    ASSUME TypeOK, NEW s \in Servers, pipe[s] # <<>>, NEW f \in Seq(Tasks), Reply(s, f)
    PROVE  /\ \A r \in Servers : \A j \in DOMAIN pipe'[r] : j \in Nat /\ Stems(s, f, r, j, 1)
           /\ \A r \in Servers : \A i \in DOMAIN pipe[r] :
                 (r = s /\ i = 1) \/ \E j \in DOMAIN pipe'[r] : pipe'[r][j] = pipe[r][i]
           /\ \A k \in DOMAIN f : \E j \in DOMAIN pipe'[s] : pipe'[s][j] = f[k]
<1>1. pipe'[s] = Tail(pipe[s]) \o f /\ (\A r \in Servers \ {s} : pipe'[r] = pipe[r])
      /\ pipe \in [Servers -> Seq(Tasks)] /\ pipe' \in [Servers -> Seq(Tasks)]
  BY ReplyType DEF TypeOK
<1> DEFINE q == pipe[s]
           n == Len(q)
           r2 == pipe'[s]
<1>2. /\ DOMAIN q = 1..n /\ n \in Nat \ {0} /\ DOMAIN f = 1..Len(f) /\ Len(f) \in Nat
      /\ DOMAIN r2 = 1..(n - 1 + Len(f))
      /\ \A i \in DOMAIN r2 : r2[i] = IF i < n THEN q[i + 1] ELSE f[i - n + 1]
  BY <1>1, StepElements, LenProperties, EmptySeq
<1>3. \A r \in Servers \ {s} : DOMAIN pipe[r] \subseteq Nat
  <2> SUFFICES ASSUME NEW r \in Servers \ {s} PROVE DOMAIN pipe[r] \subseteq Nat
    OBVIOUS
  <2>1. DOMAIN pipe[r] = 1..Len(pipe[r])
    BY <1>1, LenProperties
  <2> QED  BY <2>1
<1> HIDE DEF q, n, r2
<1>4. ASSUME NEW r \in Servers, NEW j \in DOMAIN pipe'[r]
      PROVE  j \in Nat /\ Stems(s, f, r, j, 1)
  <2>1. CASE r # s
    BY <1>1, <1>3, <1>4, <2>1 DEF Stems, Before
  <2>2. CASE r = s
    <3>1. j \in DOMAIN r2 /\ j \in Nat
      BY <1>2, <1>4, <2>2 DEF r2
    <3>2. CASE j < n
      <4>1. j + 1 \in DOMAIN q /\ j + 1 # 1 /\ r2[j] = q[j + 1]
        BY <1>2, <3>1, <3>2
      <4> QED  BY <2>2, <3>1, <4>1 DEF Stems, Before, q, r2
    <3>3. CASE ~(j < n)
      <4>1. j - n + 1 \in DOMAIN f /\ r2[j] = f[j - n + 1]
        BY <1>2, <3>1, <3>3
      <4> QED  BY <2>2, <3>1, <4>1 DEF Stems, r2
    <3> QED  BY <3>2, <3>3
  <2> QED  BY <2>1, <2>2
<1>5. ASSUME NEW r \in Servers, NEW i \in DOMAIN pipe[r], ~(r = s /\ i = 1)
      PROVE  \E j \in DOMAIN pipe'[r] : pipe'[r][j] = pipe[r][i]
  <2>1. CASE r # s
    BY <1>1, <1>5, <2>1
  <2>2. CASE r = s
    <3>1. i \in 2..n /\ i \in DOMAIN q
      BY <1>2, <1>5, <2>2 DEF q
    <3>2. i - 1 \in DOMAIN r2 /\ i - 1 < n /\ (i - 1) + 1 = i
      BY <1>2, <3>1
    <3>3. r2[i - 1] = q[i]
      BY <1>2, <3>2
    <3> QED  BY <2>2, <3>2, <3>3 DEF q, r2
  <2> QED  BY <2>1, <2>2
<1>6. ASSUME NEW k \in DOMAIN f PROVE \E j \in DOMAIN r2 : r2[j] = f[k]
  <2>1. n - 1 + k \in DOMAIN r2 /\ ~(n - 1 + k < n) /\ (n - 1 + k) - n + 1 = k
    BY <1>2, <1>6
  <2>2. r2[n - 1 + k] = f[k]
    BY <1>2, <2>1
  <2> QED  BY <2>1, <2>2
<1> QED  BY <1>4, <1>5, <1>6 DEF r2

LEMMA PlacesInPlace ==
    ASSUME TypeOK, NEW s \in Servers, pipe[s] # <<>>, NEW f \in Seq(Tasks), Len(f) = 1,
           pipe' = [pipe EXCEPT ![s] = f \o Tail(@)]
    PROVE  /\ \A r \in Servers : \A j \in DOMAIN pipe'[r] : j \in Nat /\ Stems(s, f, r, j, 0)
           /\ \A r \in Servers : \A i \in DOMAIN pipe[r] :
                 (r = s /\ i = 1) \/ \E j \in DOMAIN pipe'[r] : pipe'[r][j] = pipe[r][i]
           /\ \A k \in DOMAIN f : \E j \in DOMAIN pipe'[s] : pipe'[s][j] = f[k]
           /\ DOMAIN pipe'[s] = DOMAIN pipe[s] /\ pipe'[s][1] = f[1] /\ DOMAIN f = {1}
           /\ \A i \in DOMAIN pipe[s] : i # 1 => pipe'[s][i] = pipe[s][i]
           /\ \A r \in Servers \ {s} : pipe'[r] = pipe[r]
<1>1. pipe'[s] = f \o Tail(pipe[s]) /\ (\A r \in Servers \ {s} : pipe'[r] = pipe[r])
      /\ pipe \in [Servers -> Seq(Tasks)]
  BY DEF TypeOK
<1> DEFINE q == pipe[s]
           n == Len(q)
           r2 == pipe'[s]
<1>2. /\ q \in Seq(Tasks) /\ DOMAIN q = 1..n /\ n \in Nat \ {0} /\ DOMAIN f = 1..1
      /\ Tail(q) \in Seq(Tasks) /\ Len(Tail(q)) = n - 1
      /\ \A i \in 1..(n - 1) : Tail(q)[i] = q[i + 1]
  BY <1>1, HeadTailProperties, LenProperties, EmptySeq
<1>3. /\ f \o Tail(q) \in Seq(Tasks) /\ Len(f \o Tail(q)) = n
      /\ \A i \in 1..n : (f \o Tail(q))[i] = IF i <= 1 THEN f[i] ELSE Tail(q)[i - 1]
  <2> DEFINE tl == Tail(q)
  <2>1. tl \in Seq(Tasks) /\ Len(tl) = n - 1 /\ Len(f) = 1 /\ n \in Nat
    BY <1>2
  <2> HIDE DEF tl, n
  <2>2. /\ f \o tl \in Seq(Tasks) /\ Len(f \o tl) = Len(f) + Len(tl)
        /\ \A i \in 1..(Len(f) + Len(tl)) :
              (f \o tl)[i] = IF i <= Len(f) THEN f[i] ELSE tl[i - Len(f)]
    BY <2>1, ConcatProperties
  <2>3. Len(f) + Len(tl) = n
    BY <2>1
  <2>4. /\ f \o tl \in Seq(Tasks) /\ Len(f \o tl) = n
        /\ \A i \in 1..n : (f \o tl)[i] = IF i <= Len(f) THEN f[i] ELSE tl[i - Len(f)]
    BY <2>2, <2>3
  <2> QED  BY <2>1, <2>4 DEF tl
<1>4. /\ DOMAIN r2 = 1..n
      /\ r2[1] = f[1]
      /\ \A i \in 1..n : i # 1 => r2[i] = q[i]
  <2>1. r2 = f \o Tail(q) /\ DOMAIN r2 = 1..n
    BY <1>1, <1>3, LenProperties
  <2>2. r2[1] = f[1]
    BY <1>2, <1>3, <2>1
  <2>3. ASSUME NEW i \in 1..n, i # 1 PROVE r2[i] = q[i]
    <3>1. i - 1 \in 1..(n - 1) /\ ~(i <= 1) /\ (i - 1) + 1 = i
      BY <1>2, <2>3
    <3>2. r2[i] = Tail(q)[i - 1]
      BY <1>3, <2>1, <3>1
    <3> QED  BY <1>2, <3>1, <3>2
  <2> QED  BY <2>1, <2>2, <2>3
<1>5. \A r \in Servers \ {s} : DOMAIN pipe[r] \subseteq Nat
  <2> SUFFICES ASSUME NEW r \in Servers \ {s} PROVE DOMAIN pipe[r] \subseteq Nat
    OBVIOUS
  <2>1. DOMAIN pipe[r] = 1..Len(pipe[r])
    BY <1>1, LenProperties
  <2> QED  BY <2>1
<1>6. ASSUME NEW r \in Servers, NEW j \in DOMAIN pipe'[r]
      PROVE  j \in Nat /\ Stems(s, f, r, j, 0)
  <2>1. CASE r # s
    BY <1>1, <1>5, <1>6, <2>1 DEF Stems, Before
  <2>2. CASE r = s
    <3>1. j \in 1..n /\ j \in Nat /\ j + 0 = j
      BY <1>2, <1>4, <1>6, <2>2
    <3>2. CASE j = 1
      BY <1>2, <1>4, <2>2, <3>1, <3>2 DEF Stems
    <3>3. CASE j # 1
      BY <1>2, <1>4, <2>2, <3>1, <3>3 DEF Stems, Before
    <3> QED  BY <3>2, <3>3
  <2> QED  BY <2>1, <2>2
<1>7. ASSUME NEW r \in Servers, NEW i \in DOMAIN pipe[r], ~(r = s /\ i = 1)
      PROVE  \E j \in DOMAIN pipe'[r] : pipe'[r][j] = pipe[r][i]
  <2>1. CASE r # s
    BY <1>1, <1>7, <2>1
  <2>2. CASE r = s
    BY <1>2, <1>4, <1>7, <2>2
  <2> QED  BY <2>1, <2>2
<1>8. ASSUME NEW k \in DOMAIN f PROVE \E j \in DOMAIN r2 : r2[j] = f[k]
  BY <1>2, <1>4, <1>8
<1>9. DOMAIN f = {1}
  BY <1>2
<1> QED  BY <1>1, <1>2, <1>4, <1>6, <1>7, <1>8, <1>9

(* In either case: each command is one of f or an old one from behind the   *)
(* head, none of those is lost, and all of f are queued.                    *)
Places(s, f, d) ==
    /\ \A r \in Servers : \A j \in DOMAIN pipe'[r] : j \in Nat /\ Stems(s, f, r, j, d)
    /\ \A r \in Servers : \A i \in DOMAIN pipe[r] :
          (r = s /\ i = 1) \/ \E j \in DOMAIN pipe'[r] : pipe'[r][j] = pipe[r][i]
    /\ \A k \in DOMAIN f : \E j \in DOMAIN pipe'[s] : pipe'[s][j] = f[k]

(* What every step of a chain has in common: no list grows but those of its *)
(* own group.                                                               *)
LEMMA StepMoves ==
    ASSUME TypeOK, NEW s \in Servers, KindOfStep(s)
    PROVE  /\ \E f \in Seq(Tasks) : \E d \in {0, 1} :
                 Places(s, f, d) /\ Leads(s, f) /\ StillErasing(s, f)
           /\ \A c \in Clients, g \in Groups :
                 /\ groupsOf'[c][g] > 0 => groupsOf[c][g] > 0 \/ g = Head(pipe[s]).g
                 /\ members'[g][c] > 0 => members[g][c] > 0 \/ g = Head(pipe[s]).g
<1> DEFINE Goal == /\ \E f \in Seq(Tasks) : \E d \in {0, 1} :
                         Places(s, f, d) /\ Leads(s, f) /\ StillErasing(s, f)
                   /\ \A c \in Clients, g \in Groups :
                         /\ groupsOf'[c][g] > 0 => groupsOf[c][g] > 0 \/ g = Head(pipe[s]).g
                         /\ members'[g][c] > 0 => members[g][c] > 0 \/ g = Head(pipe[s]).g
<1>1. ASSUME NEW f, f \in Seq(Tasks), pipe[s] # <<>>, GoesOn(s, f)
      PROVE  \E d \in {0, 1} : Places(s, f, d)
  <2>1. CASE Reply(s, f)
    <3>1. Places(s, f, 1)
      BY <1>1, <2>1, PlacesAfterReply DEF Places
    <3> QED  BY <3>1
  <2>2. CASE Len(f) = 1 /\ pipe' = [pipe EXCEPT ![s] = f \o Tail(@)]
    <3>1. Places(s, f, 0)
      BY <1>1, <2>2, PlacesInPlace DEF Places
    <3> QED  BY <3>1
  <2> QED  BY <1>1, <2>1, <2>2 DEF GoesOn
<1>2. ASSUME NEW f, SilentStep(s, f), Leads(s, f), StillErasing(s, f) PROVE Goal
  BY <1>1, <1>2 DEF SilentStep, GoesOn
<1>3. ASSUME NEW u, NEW n \in Nat, FirstStep(s, u, n), Leads(s, <<u>>), u.g = Head(pipe[s]).g,
             Head(pipe[s]).step \in FirstSteps
      PROVE  Goal
  <2>1. StillErasing(s, <<u>>)
    BY <1>3 DEF StillErasing, FirstSteps, EraseSteps
  <2>2. \A c \in Clients, g \in Groups :
           groupsOf'[c][g] = IF c = u.c /\ g = u.g THEN n ELSE groupsOf[c][g]
    BY <1>3 DEF FirstStep, TypeOK
  <2>3. <<u>> \in Seq(Tasks) /\ \E d \in {0, 1} : Places(s, <<u>>, d)
    BY <1>1, <1>3 DEF FirstStep, GoesOn
  <2>4. members' = members
    BY <1>3 DEF FirstStep
  <2> DEFINE f == <<u>>
  <2>5. \E d \in {0, 1} : Places(s, f, d) /\ Leads(s, f) /\ StillErasing(s, f)
    BY <1>3, <2>1, <2>3
  <2> HIDE DEF f
  <2> QED  BY <1>3, <2>2, <2>3, <2>4, <2>5 DEF f
<1>4. ASSUME NEW f, NEW n \in Nat, Leads(s, f),
             SecondStep(s, Head(pipe[s]).c, Head(pipe[s]).g, f, n)
      PROVE  Goal
  <2> DEFINE t == Head(pipe[s])
  <2>1. StillErasing(s, f)
    BY <1>4 DEF StillErasing, SecondStep, SecondSteps, EraseSteps
  <2>2. \A c \in Clients, g \in Groups :
           members'[g][c] = IF c = t.c /\ g = t.g THEN n ELSE members[g][c]
    BY <1>4 DEF SecondStep, TypeOK
  <2> QED  BY <1>1, <1>4, <2>1, <2>2 DEF SecondStep, GoesOn
<1>5. ASSUME NEW f, EraseStep(s, f), Leads(s, f), StillErasing(s, f) PROVE Goal
  BY <1>1, <1>5 DEF EraseStep
<1>6. Goal
  <2> HIDE DEF Goal
  <2> QED  BY <1>2, <1>3, <1>4, <1>5 DEF KindOfStep
<1> QED  BY <1>6

-------------------------------------------------------------------------------
(* A DELETE spoils the group it deletes only.  IntactAgreement is not       *)
(* inductive: that a group becomes intact again has to be ruled out.  It    *)
(* becomes intact when its HSET runs - then nothing works on it and no list *)
(* names it yet - and never by the end of an erase, as the DEL comes after  *)
(* the HDEL.                                                                *)

(* A group nobody can ask for: no id yet, or its HSET is still queued.      *)
Fresh(g) ==
    \/ g \notin minted
    \/ \E s \in Servers : \E i \in DOMAIN pipe[s] :
          pipe[s][i].step = "create.hset" /\ pipe[s][i].g = g

FreshUnused ==
    \A g \in Groups : Fresh(g) =>
        /\ g \notin registry \cup known
        /\ \A c \in Clients : ~(groupsOf[c][g] > 0) /\ ~(members[g][c] > 0)

(* A queued HSET is the only command of its group. *)
HsetAlone ==
    \A s, r \in Servers : \A i \in DOMAIN pipe[s], j \in DOMAIN pipe[r] :
        (pipe[s][i].step = "create.hset" /\ pipe[r][j].g = pipe[s][i].g) => s = r /\ i = j

Rightful(t, s) == /\ home[t.c] = s
                  /\ t.g \in minted \cup {None}
                  /\ t.step = "erase.del" => t.g \notin registry

ChainsRightful == \A s \in Servers : \A i \in DOMAIN pipe[s] : Rightful(pipe[s][i], s)

Grounded == TypeOK /\ ChainsRightful /\ HsetAlone /\ FreshUnused

(* The head of a pipeline is its first command. *)
LEMMA HeadFirst ==
    ASSUME TypeOK, NEW s \in Servers, pipe[s] # <<>>
    PROVE  1 \in DOMAIN pipe[s] /\ pipe[s][1] = Head(pipe[s])
<1>1. pipe[s] \in Seq(Tasks)
  BY DEF TypeOK
<1> QED  BY <1>1, NoTask, StepElements

(* A group that is fresh after a step was so before, and not what the chain *)
(* worked on.                                                               *)
LEMMA FreshBefore ==
    ASSUME Grounded, NEW s \in Servers, IdsAfter(s), NEW f \in Seq(Tasks), NEW d \in {0, 1},
           Places(s, f, d), Leads(s, f), NEW g \in Groups, Fresh(g)'
    PROVE  Fresh(g) /\ Head(pipe[s]).g # g
<1> DEFINE t == Head(pipe[s])
<1>1. 1 \in DOMAIN pipe[s] /\ pipe[s][1] = t
  BY HeadFirst DEF IdsAfter, Grounded
<1>2. CASE g \notin minted
  <2>1. g # None
    BY StoreAssumption
  <2>2. Rightful(t, s)
    BY <1>1 DEF Grounded, ChainsRightful
  <2> QED  BY <1>2, <2>1, <2>2 DEF Fresh, Rightful
<1>3. CASE g \in minted
  <2>1. PICK r \in Servers : \E j \in DOMAIN pipe'[r] :
           pipe'[r][j].step = "create.hset" /\ pipe'[r][j].g = g
    BY <1>3 DEF Fresh, IdsAfter
  <2>2. PICK j \in DOMAIN pipe'[r] : pipe'[r][j].step = "create.hset" /\ pipe'[r][j].g = g
    BY <2>1
  <2> DEFINE i == Before(s, r, j, d)
  <2>3. Stems(s, f, r, j, d)
    BY DEF Places
  <2>4. i \in DOMAIN pipe[r] /\ ~(r = s /\ i = 1) /\ pipe'[r][j] = pipe[r][i]
    BY <2>2, <2>3 DEF Stems, Leads, Succeeds
  <2> HIDE DEF i
  <2>5. Fresh(g)
    BY <2>2, <2>4 DEF Fresh
  <2>6. t.g # g
    BY <1>1, <2>2, <2>4 DEF Grounded, HsetAlone
  <2> QED  BY <2>5, <2>6
<1> QED  BY <1>2, <1>3

LEMMA GroundedServer ==
    ASSUME Grounded, TypeOK', NEW s \in Servers, IdsAfter(s), KindOfStep(s)
    PROVE  Grounded'
<1> DEFINE t == Head(pipe[s])
<1>1. TypeOK /\ ChainsRightful /\ HsetAlone /\ FreshUnused
  BY DEF Grounded
<1>2. 1 \in DOMAIN pipe[s] /\ pipe[s][1] = t /\ Rightful(t, s)
  BY <1>1, HeadFirst DEF IdsAfter, ChainsRightful
<1>3. PICK f \in Seq(Tasks) : \E d \in {0, 1} : Places(s, f, d) /\ Leads(s, f)
  BY <1>1, StepMoves
<1>4. PICK d \in {0, 1} : Places(s, f, d) /\ Leads(s, f)
  BY <1>3
<1>5. \A c \in Clients, g \in Groups :
         /\ groupsOf'[c][g] > 0 => groupsOf[c][g] > 0 \/ g = t.g
         /\ members'[g][c] > 0 => members[g][c] > 0 \/ g = t.g
  BY <1>1, StepMoves
<1>6. /\ home' = home /\ minted' = minted
      /\ registry' \subseteq registry \cup {t.g} /\ known' \subseteq known \cup {t.g}
      /\ t.step # "create.hset" => registry' \subseteq registry
      /\ t.step = "erase.hdel" => t.g \notin registry'
  BY DEF IdsAfter
<1>7. t \in Tasks /\ t.c \in Clients
  BY DEF IdsAfter, Tasks
<1> HIDE DEF t
<1>8. ASSUME NEW r \in Servers, NEW j \in DOMAIN pipe'[r]
      PROVE  \/ /\ Before(s, r, j, d) \in DOMAIN pipe[r]
                /\ ~(r = s /\ Before(s, r, j, d) = 1)
                /\ pipe'[r][j] = pipe[r][Before(s, r, j, d)]
             \/ r = s /\ Succeeds(t, pipe'[r][j])
  BY <1>4, <1>8 DEF Places, Stems, Leads, t
<1>9. ASSUME NEW r \in Servers, NEW j \in DOMAIN pipe'[r]
      PROVE  /\ home'[pipe'[r][j].c] = r
             /\ pipe'[r][j].g \in minted' \cup {None}
             /\ pipe'[r][j].step = "erase.del" => pipe'[r][j].g \notin registry'
  <2> DEFINE u == pipe'[r][j]
  <2>2. CASE r = s /\ Succeeds(t, u)
    <3>1. home[u.c] = s
      BY <1>2, <2>2 DEF Succeeds, Rightful
    <3>2. u.g \in minted \cup {None}
      <4>1. CASE u.g = t.g
        BY <1>2, <4>1 DEF Rightful
      <4>2. CASE groupsOf[t.c][u.g] > 0
        BY <1>1, <1>7, <2>2, <4>2 DEF Succeeds, FreshUnused, Fresh
      <4> QED  BY <2>2, <4>1, <4>2 DEF Succeeds
    <3>3. u.step = "erase.del" => u.g \notin registry'
      BY <1>6, <2>2 DEF Succeeds
    <3> HIDE DEF u
    <3> QED  BY <1>6, <2>2, <3>1, <3>2, <3>3 DEF u
  <2>3. CASE ~(r = s /\ Succeeds(t, u))
    <3> DEFINE i == Before(s, r, j, d)
    <3>1. i \in DOMAIN pipe[r] /\ ~(r = s /\ i = 1) /\ u = pipe[r][i]
      BY <1>8, <2>3
    <3> HIDE DEF i, u
    <3>2. Rightful(u, r)
      BY <1>1, <3>1 DEF ChainsRightful
    <3>3. t.step = "create.hset" => u.g # t.g
      BY <1>1, <1>2, <3>1 DEF HsetAlone
    <3> QED  BY <1>6, <3>2, <3>3 DEF Rightful, u
  <2> QED  BY <2>2, <2>3
<1>10. ASSUME NEW q \in Servers, NEW r \in Servers, NEW i \in DOMAIN pipe'[q],
              NEW j \in DOMAIN pipe'[r],
              pipe'[q][i].step = "create.hset", pipe'[r][j].g = pipe'[q][i].g
       PROVE  q = r /\ i = j
  <2> DEFINE k == Before(s, q, i, d)
             l == Before(s, r, j, d)
             v == pipe'[q][i]
             u == pipe'[r][j]
  <2>1. k \in DOMAIN pipe[q] /\ ~(q = s /\ k = 1) /\ v = pipe[q][k]
    BY <1>8, <1>10 DEF Succeeds
  <2>2. CASE r = s /\ Succeeds(t, u)
    <3> HIDE DEF k, l
    <3>1. u.g # t.g
      BY <1>1, <1>2, <1>10, <2>1 DEF HsetAlone
    <3>2. u.g \in Groups /\ Fresh(u.g)
      BY <1>10, <2>1, <2>2 DEF Succeeds, Fresh
    <3>3. ~(groupsOf[t.c][u.g] > 0)
      BY <1>1, <1>7, <3>2 DEF FreshUnused
    <3> QED  BY <2>2, <3>1, <3>3 DEF Succeeds
  <2>3. CASE ~(r = s /\ Succeeds(t, u))
    <3>1. l \in DOMAIN pipe[r] /\ u = pipe[r][l]
      BY <1>8, <2>3
    <3>2. q = r /\ k = l
      <4> HIDE DEF k, l
      <4> QED  BY <1>1, <1>10, <2>1, <3>1 DEF HsetAlone
    <3>3. i \in Nat /\ j \in Nat
      BY <1>4 DEF Places
    <3> QED  BY <3>2, <3>3 DEF Before
  <2> QED  BY <2>2, <2>3
<1>11. ASSUME NEW g \in Groups, Fresh(g)'
       PROVE  /\ g \notin registry' \cup known'
              /\ \A c \in Clients : ~(groupsOf'[c][g] > 0) /\ ~(members'[g][c] > 0)
  <2>1. Fresh(g) /\ t.g # g
    BY <1>4, <1>11, FreshBefore DEF t
  <2> QED  BY <1>1, <1>5, <1>6, <2>1 DEF FreshUnused
<1>12. ChainsRightful'
  BY <1>9 DEF ChainsRightful, Rightful
<1>13. HsetAlone'
  BY <1>10 DEF HsetAlone
<1>14. FreshUnused'
  BY <1>11 DEF FreshUnused
<1> QED  BY <1>12, <1>13, <1>14 DEF Grounded

(* A group that is intact after a step is the one just registered, or was   *)
(* intact before.                                                           *)
LEMMA IntactBefore ==
    ASSUME Grounded, NEW s \in Servers, IdsAfter(s), NEW f \in Seq(Tasks), NEW d \in {0, 1},
           Places(s, f, d), StillErasing(s, f), NEW g \in Groups, Intact(g)',
           ~(Head(pipe[s]).step = "create.hset" /\ Head(pipe[s]).g = g)
    PROVE  Intact(g)
<1> DEFINE t == Head(pipe[s])
<1>1. 1 \in DOMAIN pipe[s] /\ pipe[s][1] = t /\ Rightful(t, s)
  BY HeadFirst DEF IdsAfter, Grounded, ChainsRightful
<1>2. g \in registry
  BY DEF Intact, IdsAfter
<1>3. ASSUME NEW r \in Servers, NEW i \in DOMAIN pipe[r],
             pipe[r][i].g = g, pipe[r][i].step \in EraseSteps
      PROVE  FALSE
  <2>1. CASE r = s /\ i = 1
    <3>1. t.g = g /\ t.step \in EraseSteps
      BY <1>1, <1>3, <2>1
    <3>2. t.step # "erase.del"
      BY <1>1, <1>2, <3>1 DEF Rightful
    <3>3. PICK k \in DOMAIN f : f[k].g = t.g /\ f[k].step \in EraseSteps
      BY <3>1, <3>2 DEF StillErasing
    <3>4. PICK j \in DOMAIN pipe'[s] : pipe'[s][j] = f[k]
      BY DEF Places
    <3> QED  BY <3>1, <3>3, <3>4 DEF Intact
  <2>2. CASE ~(r = s /\ i = 1)
    <3>1. PICK j \in DOMAIN pipe'[r] : pipe'[r][j] = pipe[r][i]
      BY <2>2 DEF Places
    <3> QED  BY <1>3, <3>1 DEF Intact
  <2> QED  BY <2>1, <2>2
<1> QED  BY <1>2, <1>3 DEF Intact

(* A group that has just been registered: nothing is queued that owes it a  *)
(* write, and its lists are empty.                                          *)
LEMMA AgreesRegistered ==
    ASSUME Grounded, NEW s \in Servers, IdsAfter(s), KindOfStep(s),
           Head(pipe[s]).step = "create.hset",
           NEW c \in Clients, NEW g \in Groups, Head(pipe[s]).g = g
    PROVE  Agrees(c, g)'
<1> DEFINE t == Head(pipe[s])
<1>1. TypeOK /\ home[c] \in Servers /\ 1 \in DOMAIN pipe[s] /\ pipe[s][1] = t
  BY HeadFirst DEF IdsAfter, Grounded, TypeOK
<1>2. PICK f : SilentStep(s, f) /\ Leads(s, f)
  BY DEF KindOfStep, FirstStep, SecondStep, EraseStep, FirstSteps, SecondSteps
<1>3. ~(groupsOf'[c][g] > 0) /\ ~(members'[g][c] > 0)
  <2>1. Fresh(g)
    BY <1>1 DEF Fresh
  <2> QED  BY <1>2, <2>1 DEF Grounded, FreshUnused, SilentStep
<1>4. ASSUME NEW j \in DOMAIN pipe'[home[c]] PROVE ~Owes(pipe'[home[c]][j], c, g)
  <2>1. Stems(s, f, home[c], j, 1)
    BY <1>1, <1>2, <1>4, PlacesAfterReply DEF SilentStep
  <2>2. CASE \E k \in DOMAIN f : pipe'[home[c]][j] = f[k]
    BY <1>2, <2>2 DEF SilentStep, Owes, SecondSteps
  <2>3. CASE ~\E k \in DOMAIN f : pipe'[home[c]][j] = f[k]
    <3> DEFINE i == Before(s, home[c], j, 1)
    <3>1. /\ i \in DOMAIN pipe[home[c]] /\ ~(home[c] = s /\ i = 1)
          /\ pipe'[home[c]][j] = pipe[home[c]][i]
      BY <2>1, <2>3 DEF Stems
    <3> HIDE DEF i
    <3>2. pipe[home[c]][i].g # g
      BY <1>1, <3>1 DEF Grounded, HsetAlone
    <3> QED  BY <3>1, <3>2 DEF Owes
  <2> QED  BY <2>2, <2>3
<1>5. home' = home
  BY DEF IdsAfter
<1> DEFINE q == pipe'[home[c]]
           a == groupsOf'[c][g] > 0
           b == members'[g][c] > 0
<1>6. Converging(q, c, g, a, b)
  <2>1. a = FALSE /\ b = FALSE /\ \A i \in DOMAIN q : Owes(q[i], c, g) => q[i].step # "push.lpushGroup"
    BY <1>3, <1>4
  <2> HIDE DEF q, a, b
  <2> QED  BY <2>1, ConvergeEmpty
<1> QED  BY <1>5, <1>6 DEF Agrees

(* The steps that write the lists of other groups only, or none.            *)
LEMMA AgreesElsewhere ==
    ASSUME TypeOK, NEW s \in Servers, pipe[s] # <<>>, NEW f \in Seq(Tasks), GoesOn(s, f),
           home' = home, NEW c \in Clients, NEW g \in Groups, Agrees(c, g),
           ~Owes(Head(pipe[s]), c, g), \A k \in DOMAIN f : ~Owes(f[k], c, g),
           groupsOf'[c][g] = groupsOf[c][g], members'[g][c] = members[g][c]
    PROVE  Agrees(c, g)'
<1>1. CASE Reply(s, f)
  BY <1>1, AgreesOther
<1>2. CASE Len(f) = 1 /\ pipe' = [pipe EXCEPT ![s] = f \o Tail(@)]
  <2>1. /\ DOMAIN pipe'[s] = DOMAIN pipe[s] /\ pipe'[s][1] = f[1] /\ DOMAIN f = {1}
        /\ \A i \in DOMAIN pipe[s] : i # 1 => pipe'[s][i] = pipe[s][i]
        /\ \A r \in Servers \ {s} : pipe'[r] = pipe[r]
    BY <1>2, PlacesInPlace
  <2>2. pipe[s][1] = Head(pipe[s]) /\ home[c] \in Servers
    BY HeadFirst DEF TypeOK
  <2>3. CASE home[c] # s
    BY <2>1, <2>2, <2>3 DEF Agrees
  <2>4. CASE home[c] = s
    <3> DEFINE q == pipe[s]
               r == pipe'[s]
               a == groupsOf[c][g] > 0
               b == members[g][c] > 0
    <3>1. a \in BOOLEAN /\ b \in BOOLEAN /\ Converging(q, c, g, a, b)
      BY <2>4 DEF Agrees
    <3>2. ~Owes(q[1], c, g) /\ ~Owes(r[1], c, g)
      BY <2>1, <2>2
    <3>3. DOMAIN r = DOMAIN q /\ \A i \in DOMAIN q : i # 1 => r[i] = q[i]
      BY <2>1
    <3> HIDE DEF q, r, a, b
    <3>4. Converging(r, c, g, a, b)
      BY <3>1, <3>2, <3>3, ConvergeStays
    <3> QED  BY <2>4, <3>4 DEF Agrees, r, a, b
  <2> QED  BY <2>3, <2>4
<1> QED  BY <1>1, <1>2 DEF GoesOn

(* Every step keeps the agreement of a pair whose group it does not erase.  *)
LEMMA AgreesServer ==
    ASSUME Grounded, NEW s \in Servers, IdsAfter(s), KindOfStep(s),
           NEW c \in Clients, NEW g \in Groups, Agrees(c, g),
           ~(Head(pipe[s]).g = g /\ Head(pipe[s]).step \in EraseSteps)
    PROVE  Agrees(c, g)'
<1> DEFINE t == Head(pipe[s])
<1>1. TypeOK /\ home' = home /\ pipe[s] \in Seq(Tasks) /\ pipe[s] # <<>>
  BY DEF Grounded, TypeOK, IdsAfter
<1>2. ASSUME NEW f, SilentStep(s, f) PROVE Agrees(c, g)'
  <2>1. ~Owes(t, c, g) /\ \A k \in DOMAIN f : ~Owes(f[k], c, g)
    BY <1>2 DEF SilentStep, Owes, SecondSteps
  <2> QED  BY <1>1, <1>2, <2>1, AgreesOther DEF SilentStep
<1>3. ASSUME NEW u, NEW n \in Nat, FirstStep(s, u, n), n > 0 <=> u.step = "push.lpushGroup"
      PROVE  Agrees(c, g)'
  <2>1. /\ u \in Tasks /\ Reply(s, <<u>>) /\ <<u>> \in Seq(Tasks) /\ members' = members
        /\ \A k \in DOMAIN <<u>> : <<u>>[k] = u
        /\ u.step \in SecondSteps /\ t.step \notin SecondSteps /\ home[u.c] = s
    <3>1. <<u>> \in Seq(Tasks) /\ <<u>>[1] = u /\ 1 \in DOMAIN <<u>>
      BY <1>3 DEF FirstStep
    <3>2. u \in Tasks
      BY <3>1, ElementOfSeq
    <3> QED  BY <1>3, <3>2 DEF FirstStep
  <2>2. groupsOf'[c][g] = IF c = u.c /\ g = u.g THEN n ELSE groupsOf[c][g]
    BY <1>1, <1>3 DEF FirstStep, TypeOK
  <2>3. ~Owes(t, c, g)
    BY <2>1 DEF Owes, SecondSteps
  <2>4. CASE c = u.c /\ g = u.g
    <3> DEFINE q == pipe[s]
               a == groupsOf'[c][g] > 0
               b == members'[g][c] > 0
    <3>1. a \in BOOLEAN /\ b \in BOOLEAN /\ (a <=> u.step = "push.lpushGroup")
      BY <1>3, <2>2, <2>4
    <3>2. q \in Seq(Tasks) /\ q # <<>> /\ Owes(u, c, g)
      BY <1>1, <2>1, <2>4 DEF Owes, SecondSteps
    <3> HIDE DEF a, b
    <3>3. Converging(Tail(q) \o <<u>>, c, g, a, b)
      BY <2>1, <3>1, <3>2, ConvergeFirst
    <3>4. pipe'[s] = Tail(q) \o <<u>> /\ home'[c] = s
      BY <1>1, <2>1, <2>4, ReplyType
    <3> QED  BY <3>3, <3>4 DEF Agrees, a, b
  <2>5. CASE ~(c = u.c /\ g = u.g)
    <3>1. \A k \in DOMAIN <<u>> : ~Owes(<<u>>[k], c, g)
      BY <2>1, <2>5 DEF Owes
    <3>2. groupsOf'[c][g] = groupsOf[c][g] /\ members'[g][c] = members[g][c]
      BY <2>1, <2>2, <2>5
    <3> QED  BY <1>1, <2>1, <2>3, <3>1, <3>2, AgreesOther
  <2> QED  BY <2>4, <2>5
<1>4. ASSUME NEW f, NEW n \in Nat, SecondStep(s, t.c, t.g, f, n),
             n > 0 <=> t.step = "push.lpushGroup"
      PROVE  Agrees(c, g)'
  <2>1. /\ f \in Seq(Tasks) /\ Reply(s, f) /\ groupsOf' = groupsOf /\ home[t.c] = s
        /\ t.step \in SecondSteps
    BY <1>4 DEF SecondStep
  <2>2. members'[g][c] = IF c = t.c /\ g = t.g THEN n ELSE members[g][c]
    BY <1>1, <1>4 DEF SecondStep, TypeOK
  <2>3. \A k \in DOMAIN f : ~Owes(f[k], c, g)
    BY <1>4 DEF SecondStep, Owes, SecondSteps
  <2>4. CASE c = t.c /\ g = t.g
    <3> DEFINE q == pipe[s]
               a == groupsOf[c][g] > 0
               b == members[g][c] > 0
               e == members'[g][c] > 0
    <3>1. a \in BOOLEAN /\ b \in BOOLEAN /\ e \in BOOLEAN
          /\ (e <=> Head(q).step = "push.lpushGroup")
      BY <1>4, <2>2, <2>4
    <3>2. q \in Seq(Tasks) /\ q # <<>> /\ Owes(Head(q), c, g)
      BY <1>1, <2>1, <2>4 DEF Owes, SecondSteps
    <3>3. Converging(q, c, g, a, b)
      BY <2>1, <2>4 DEF Agrees
    <3> HIDE DEF a, b, e
    <3>4. Converging(Tail(q) \o f, c, g, a, e)
      BY <2>1, <2>3, <3>1, <3>2, <3>3, ConvergeSecond
    <3>5. pipe'[s] = Tail(q) \o f /\ home'[c] = s /\ a = (groupsOf'[c][g] > 0)
      BY <1>1, <2>1, <2>4, ReplyType DEF a
    <3> QED  BY <3>4, <3>5 DEF Agrees, e
  <2>5. CASE ~(c = t.c /\ g = t.g)
    <3>1. ~Owes(t, c, g)
      BY <2>5 DEF Owes
    <3>2. groupsOf'[c][g] = groupsOf[c][g] /\ members'[g][c] = members[g][c]
      BY <2>1, <2>2, <2>5
    <3> QED  BY <1>1, <2>1, <2>3, <3>1, <3>2, AgreesOther
  <2> QED  BY <2>4, <2>5
<1>5. ASSUME NEW f, EraseStep(s, f) PROVE Agrees(c, g)'
  <2>1. g # t.g
    BY <1>5 DEF EraseStep, EraseSteps
  <2>2. ~Owes(t, c, g) /\ \A k \in DOMAIN f : ~Owes(f[k], c, g)
    BY <1>5, <2>1 DEF EraseStep, Owes, SecondSteps
  <2>3. groupsOf'[c][g] = groupsOf[c][g] /\ members'[g][c] = members[g][c]
    BY <1>5, <2>1 DEF EraseStep
  <2> QED  BY <1>1, <1>5, <2>2, <2>3, AgreesElsewhere DEF EraseStep
<1>6. Agrees(c, g)'
  BY <1>2, <1>3, <1>4, <1>5 DEF KindOfStep
<1> QED  BY <1>6

LEMMA DeletionServer ==
    ASSUME Grounded, IntactAgreement, NEW s \in Servers, ServerStep(s)
    PROVE  Grounded' /\ IntactAgreement'
<1> DEFINE t == Head(pipe[s])
<1>1. TypeOK /\ TypeOK' /\ IdsAfter(s)
  BY TypeServer, IdsOfStep DEF Grounded
<1>2. 1 \in DOMAIN pipe[s] /\ pipe[s][1] = t /\ Rightful(t, s)
  BY <1>1, HeadFirst DEF IdsAfter, Grounded, ChainsRightful
<1>3. KindOfStep(s)
  BY <1>1, <1>2, StepKinds DEF Rightful
<1>4. Grounded'
  BY <1>1, <1>3, GroundedServer
<1>5. PICK f \in Seq(Tasks) : \E d \in {0, 1} : Places(s, f, d) /\ StillErasing(s, f)
  BY <1>1, <1>3, StepMoves
<1>6. PICK d \in {0, 1} : Places(s, f, d) /\ StillErasing(s, f)
  BY <1>5
<1>7. ASSUME NEW g \in Groups, Intact(g)', NEW c \in Clients PROVE Agrees(c, g)'
  <2>1. CASE t.step = "create.hset" /\ t.g = g
    BY <1>1, <1>3, <2>1, AgreesRegistered
  <2>2. CASE ~(t.step = "create.hset" /\ t.g = g)
    <3>1. Intact(g)
      BY <1>1, <1>6, <1>7, <2>2, IntactBefore
    <3>2. Agrees(c, g) /\ ~(t.g = g /\ t.step \in EraseSteps)
      BY <1>2, <3>1 DEF IntactAgreement, Intact
    <3> QED  BY <1>1, <1>3, <3>2, AgreesServer
  <2> QED  BY <2>1, <2>2
<1> QED  BY <1>4, <1>7 DEF IntactAgreement

-------------------------------------------------------------------------------
(* The requests a command can work for, when nobody deletes. *)
Fitting(t) ==
    \/ t.job = "create" /\ t.step \in {"create.hset"} \cup PushSteps
    \/ t.job = "join" /\ t.step \in {"get.hget", "notify.lrange"} \cup PushSteps
    \/ t.job = "leave" /\ t.step \in {"get.hget", "notify.lrange"} \cup RemoveSteps
    \/ /\ t.job = "close"
       /\ t.step \in {"close.lrange", "get.hget", "notify.lrange"} \cup RemoveSteps
    \/ /\ t.job = "broadcast"
       /\ t.step \in {"client.hget", "client.hset", "client.lrange", "notify.lrange"}

(* Requests: each queues one command, at the home of its client.            *)
LEMMA RequestDoes ==
    ASSUME TypeOK, NEW c \in Clients, ClientStep(c)
    PROVE  /\ home' = home /\ registry' = registry /\ known' = known
           /\ groupsOf' = groupsOf /\ members' = members
           /\ \E u \in Tasks :
                 /\ Issue(home[c], <<u>>) /\ u.c = c
                 /\ "delete" \notin Ops => Fitting(u)
                 /\ u.step \in {"create.hset", "get.hget", "client.hget", "close.lrange"}
                 /\ IF u.step = "create.hset"
                    THEN u.g \in Groups \ minted /\ minted' = minted \cup {u.g}
                    ELSE u.g \in known \cup {None} /\ minted' = minted
<1>1. ASSUME CreateGroup(c) PROVE minted' # minted
      /\ \E u \in Tasks : /\ Issue(home[c], <<u>>) /\ u.c = c /\ u.step = "create.hset"
                          /\ Fitting(u)
                          /\ u.g \in Groups \ minted /\ minted' = minted \cup {u.g}
  <2>1. PICK g \in Groups \ minted :
           minted' = minted \cup {g} /\ Issue(home[c], <<Task("create.hset", "create", c, g)>>)
    BY <1>1 DEF CreateGroup
  <2> DEFINE u == Task("create.hset", "create", c, g)
  <2>2. u \in Tasks /\ u.step = "create.hset" /\ u.c = c /\ u.g = g /\ Fitting(u)
    <3>1. "create.hset" \in Steps /\ "create" \in Jobs
      BY DEF Steps, Jobs, AllOps
    <3> QED BY <3>1, TaskNew DEF Task, Fitting
  <2>3. Issue(home[c], <<u>>)
    BY <2>1
  <2> HIDE DEF u
  <2> QED  BY <2>1, <2>2, <2>3
<1>2. ASSUME NEW op \in {"delete", "join", "leave", "broadcast"},
             NEW st \in {"get.hget", "client.hget"}, NEW g \in known
      PROVE  /\ Task(st, op, c, g) \in Tasks
             /\ Task(st, op, c, g).step = st /\ Task(st, op, c, g).c = c
             /\ Task(st, op, c, g).g = g /\ Task(st, op, c, g).job = op
  <2>1. st \in Steps /\ op \in Jobs /\ g \in Groups
    BY DEF Steps, StoreSteps, Jobs, AllOps, TypeOK
  <2> QED  BY <2>1, TaskNew DEF Task
<1>3. ASSUME Close(c)
      PROVE  \E u \in Tasks : /\ Issue(home[c], <<u>>) /\ u.c = c
                              /\ u.step = "close.lrange" /\ u.g = None /\ Fitting(u)
  <2> DEFINE u == Task("close.lrange", "close", c, None)
  <2>1. u \in Tasks /\ u.step = "close.lrange" /\ u.c = c /\ u.g = None /\ Fitting(u)
    BY TaskClose DEF Task, Fitting
  <2>2. Issue(home[c], <<u>>)
    BY <1>3 DEF Close
  <2> HIDE DEF u
  <2> QED  BY <2>1, <2>2
<1>4. CASE CreateGroup(c)
  BY <1>1, <1>4 DEF CreateGroup
<1>5. CASE \E op \in {"delete", "join", "leave"} : Request(c, op)
  <2>1. PICK op \in {"delete", "join", "leave"} : Request(c, op)
    BY <1>5
  <2>2. PICK g \in known : Issue(home[c], <<Task("get.hget", op, c, g)>>)
    BY <2>1 DEF Request
  <2> DEFINE u == Task("get.hget", op, c, g)
  <2>3. u \in Tasks /\ u.step = "get.hget" /\ u.c = c /\ u.g \in known /\ u.job = op
    BY <1>2, <2>2
  <2>4. Issue(home[c], <<u>>)
    BY <2>2
  <2> HIDE DEF u
  <2>5. "delete" \notin Ops => Fitting(u)
    BY <2>1, <2>3 DEF Request, MaySend, Fitting
  <2> QED  BY <2>1, <2>3, <2>4, <2>5 DEF Request
<1>6. CASE BroadcastGroup(c)
  <2>1. PICK g \in known : Issue(home[c], <<Task("client.hget", "broadcast", c, g)>>)
    BY <1>6 DEF BroadcastGroup
  <2> DEFINE u == Task("client.hget", "broadcast", c, g)
  <2>2. u \in Tasks /\ u.step = "client.hget" /\ u.c = c /\ u.g \in known /\ u.job = "broadcast"
    BY <1>2
  <2>3. Issue(home[c], <<u>>)
    BY <2>1
  <2> HIDE DEF u
  <2>4. Fitting(u)
    BY <2>2 DEF Fitting
  <2> QED  BY <1>6, <2>2, <2>3, <2>4 DEF BroadcastGroup
<1>7. CASE Close(c)
  BY <1>3, <1>7 DEF Close
<1> QED  BY <1>4, <1>5, <1>6, <1>7 DEF ClientStep, DeleteGroup, JoinGroup, LeaveGroup

(* The commands of the pipelines after a request: the new one is the last   *)
(* at s, the others keep their places.                                      *)
LEMMA PlacesAfterIssue ==
    ASSUME TypeOK, NEW s \in Servers, NEW u \in Tasks, Issue(s, <<u>>)
    PROVE  /\ \A r \in Servers : \A j \in DOMAIN pipe'[r] :
                 \/ j \in DOMAIN pipe[r] /\ pipe'[r][j] = pipe[r][j]
                 \/ r = s /\ j = Len(pipe[s]) + 1 /\ pipe'[r][j] = u
           /\ \A r \in Servers : \A j \in DOMAIN pipe[r] :
                 j \in DOMAIN pipe'[r] /\ pipe'[r][j] = pipe[r][j]
<1>1. <<u>> \in Seq(Tasks) /\ Len(<<u>>) = 1 /\ <<u>>[1] = u
  OBVIOUS
<1>2. pipe'[s] = pipe[s] \o <<u>> /\ \A r \in Servers \ {s} : pipe'[r] = pipe[r]
  BY <1>1, IssueType
<1> DEFINE q == pipe[s]
           n == Len(q)
           r2 == pipe'[s]
<1>3. q \in Seq(Tasks) /\ n \in Nat
  BY DEF TypeOK
<1>4. /\ DOMAIN q = 1..n /\ DOMAIN r2 = 1..(n + 1)
      /\ \A i \in DOMAIN r2 : r2[i] = IF i <= n THEN q[i] ELSE <<u>>[i - n]
  BY <1>1, <1>2, <1>3, AppendElements
<1> HIDE DEF q, n, r2
<1>5. \A j \in DOMAIN r2 : \/ j \in DOMAIN q /\ r2[j] = q[j]
                           \/ j = n + 1 /\ r2[j] = u
  <2> SUFFICES ASSUME NEW j \in DOMAIN r2
               PROVE  \/ j \in DOMAIN q /\ r2[j] = q[j]
                      \/ j = n + 1 /\ r2[j] = u
    OBVIOUS
  <2>1. CASE j <= n
    BY <1>3, <1>4, <2>1
  <2>2. CASE ~(j <= n)
    <3>1. j = n + 1 /\ j - n = 1
      BY <1>3, <1>4, <2>2
    <3> QED  BY <1>1, <1>4, <2>2, <3>1
  <2> QED  BY <2>1, <2>2
<1>6. \A j \in DOMAIN q : j \in DOMAIN r2 /\ r2[j] = q[j]
  BY <1>3, <1>4
<1> QED  BY <1>2, <1>5, <1>6 DEF q, n, r2

LEMMA DeletionClient ==
    ASSUME Grounded, IntactAgreement, NEW c \in Clients, ClientStep(c)
    PROVE  Grounded' /\ IntactAgreement'
<1> DEFINE s == home[c]
<1>1. TypeOK /\ TypeOK' /\ s \in Servers /\ ChainsRightful /\ HsetAlone /\ FreshUnused
  BY TypeClient DEF Grounded, TypeOK
<1>2. /\ home' = home /\ registry' = registry /\ known' = known
      /\ groupsOf' = groupsOf /\ members' = members
  BY <1>1, RequestDoes
<1>3. PICK u \in Tasks :
         /\ Issue(s, <<u>>) /\ u.c = c
         /\ u.step \in {"create.hset", "get.hget", "client.hget", "close.lrange"}
         /\ IF u.step = "create.hset"
            THEN u.g \in Groups \ minted /\ minted' = minted \cup {u.g}
            ELSE u.g \in known \cup {None} /\ minted' = minted
  BY <1>1, RequestDoes
<1>4. /\ \A r \in Servers : \A j \in DOMAIN pipe'[r] :
            \/ j \in DOMAIN pipe[r] /\ pipe'[r][j] = pipe[r][j]
            \/ r = s /\ j = Len(pipe[s]) + 1 /\ pipe'[r][j] = u
      /\ \A r \in Servers : \A j \in DOMAIN pipe[r] :
            j \in DOMAIN pipe'[r] /\ pipe'[r][j] = pipe[r][j]
  BY <1>1, <1>3, PlacesAfterIssue
<1>5. minted \subseteq minted' /\ known \subseteq minted /\ u.g \in minted' \cup {None}
  <2>1. known \subseteq minted
    BY <1>1 DEF FreshUnused, Fresh, TypeOK
  <2> QED  BY <1>3, <2>1
<1>g. u.g # None \/ u.step # "create.hset"
  BY <1>3, StoreAssumption
<1>s. home[u.c] = s
  BY <1>3
<1> HIDE DEF s
<1>6. ASSUME NEW r \in Servers, NEW j \in DOMAIN pipe'[r]
      PROVE  /\ home[pipe'[r][j].c] = r
             /\ pipe'[r][j].g \in minted' \cup {None}
             /\ pipe'[r][j].step = "erase.del" => pipe'[r][j].g \notin registry
  <2>1. CASE r = s /\ pipe'[r][j] = u
    BY <1>3, <1>5, <1>s, <2>1
  <2>2. CASE ~(r = s /\ pipe'[r][j] = u)
    BY <1>1, <1>4, <1>5, <1>6, <2>2 DEF ChainsRightful, Rightful
  <2> QED  BY <2>1, <2>2
<1>7. ChainsRightful'
  BY <1>2, <1>6 DEF ChainsRightful, Rightful
(* The new command shares no group with a queued HSET. *)
<1>8. ASSUME NEW r \in Servers, NEW i \in DOMAIN pipe[r], pipe[r][i].g = u.g,
             pipe[r][i].step = "create.hset" \/ u.step = "create.hset"
      PROVE  FALSE
  <2>0. pipe[r][i].g \in minted \cup {None} /\ pipe[r][i] \in Tasks
    <3>1. pipe[r] \in Seq(Tasks)
      BY <1>1 DEF TypeOK
    <3> QED  BY <1>1, <1>8, <3>1, ElementOfSeq DEF ChainsRightful, Rightful
  <2>1. CASE u.step = "create.hset"
    BY <1>3, <1>8, <1>g, <2>0, <2>1
  <2>2. CASE u.step # "create.hset"
    <3>1. pipe[r][i].g # None
      BY <1>8, <2>0, <2>2 DEF Tasks
    <3>2. u.g \in known /\ u.g \in Groups /\ Fresh(u.g)
      BY <1>1, <1>3, <1>8, <2>2, <3>1 DEF Fresh, TypeOK
    <3> QED  BY <1>1, <3>2 DEF FreshUnused
  <2> QED  BY <2>1, <2>2
<1>9. ASSUME NEW q \in Servers, NEW r \in Servers, NEW i \in DOMAIN pipe'[q],
             NEW j \in DOMAIN pipe'[r],
             pipe'[q][i].step = "create.hset", pipe'[r][j].g = pipe'[q][i].g
      PROVE  q = r /\ i = j
  <2>1. CASE i \in DOMAIN pipe[q] /\ pipe'[q][i] = pipe[q][i]
    <3>1. j \in DOMAIN pipe[r] /\ pipe'[r][j] = pipe[r][j]
      BY <1>4, <1>8, <1>9, <2>1
    <3> QED  BY <1>1, <1>9, <2>1, <3>1 DEF HsetAlone
  <2>2. CASE q = s /\ i = Len(pipe[s]) + 1 /\ pipe'[q][i] = u
    <3>1. r = s /\ j = Len(pipe[s]) + 1
      BY <1>4, <1>8, <1>9, <2>2
    <3> QED  BY <2>2, <3>1
  <2> QED  BY <1>4, <2>1, <2>2
<1>10. HsetAlone'
  BY <1>9 DEF HsetAlone
<1>11. ASSUME NEW g \in Groups, Fresh(g)' PROVE Fresh(g)
  <2>1. CASE g \notin minted'
    BY <1>5, <2>1 DEF Fresh
  <2>2. CASE g \in minted'
    <3>1. PICK r \in Servers : \E j \in DOMAIN pipe'[r] :
             pipe'[r][j].step = "create.hset" /\ pipe'[r][j].g = g
      BY <1>11, <2>2 DEF Fresh
    <3>2. PICK j \in DOMAIN pipe'[r] : pipe'[r][j].step = "create.hset" /\ pipe'[r][j].g = g
      BY <3>1
    <3>3. CASE pipe'[r][j] = u
      BY <1>3, <3>2, <3>3 DEF Fresh
    <3>4. CASE pipe'[r][j] # u
      BY <1>4, <3>2, <3>4 DEF Fresh
    <3> QED  BY <3>3, <3>4
  <2> QED  BY <2>1, <2>2
<1>12. FreshUnused'
  BY <1>1, <1>2, <1>11 DEF FreshUnused
<1>13. ASSUME NEW g \in Groups, Intact(g)', NEW x \in Clients PROVE Agrees(x, g)'
  <2>1. Intact(g)
    BY <1>2, <1>4, <1>13 DEF Intact
  <2>2. <<u>> \in Seq(Tasks) /\ \A k \in DOMAIN <<u>> : <<u>>[k] = u
    OBVIOUS
  <2>3. \A k \in DOMAIN <<u>> : ~Owes(<<u>>[k], x, g)
    BY <1>3, <2>2 DEF Owes
  <2>4. Agrees(x, g)
    BY <2>1 DEF IntactAgreement
  <2> QED  BY <1>1, <1>2, <1>3, <2>2, <2>3, <2>4, AgreesIssue
<1> QED  BY <1>1, <1>7, <1>10, <1>12, <1>13 DEF Grounded, IntactAgreement

LEMMA GroundedInit == Init => Grounded /\ IntactAgreement
<1> SUFFICES ASSUME Init PROVE Grounded /\ IntactAgreement
  OBVIOUS
<1>1. TypeOK
  BY TypeInit
<1>2. \A s \in Servers : pipe[s] = <<>>
  BY DEF Init
<1>3. \A s \in Servers : DOMAIN pipe[s] = {}
  BY <1>2
<1>4. ChainsRightful /\ HsetAlone
  BY <1>3 DEF ChainsRightful, HsetAlone
<1>5. FreshUnused
  BY DEF FreshUnused, Init, EmptyMembers, EmptyGroupsOf
<1>6. IntactAgreement
  BY DEF IntactAgreement, Intact, Init
<1> QED  BY <1>1, <1>4, <1>5, <1>6 DEF Grounded

LEMMA GroundedInvariant == Spec => [](Grounded /\ IntactAgreement)
<1>1. Grounded /\ IntactAgreement /\ [Next]_vars => (Grounded /\ IntactAgreement)'
  <2>1. ASSUME Grounded, IntactAgreement, UNCHANGED vars PROVE (Grounded /\ IntactAgreement)'
    BY <2>1 DEF Grounded, TypeOK, ChainsRightful, Rightful, HsetAlone, FreshUnused, Fresh,
                IntactAgreement, Intact, Agrees, vars
  <2> QED  BY <2>1, DeletionClient, DeletionServer DEF Next
<1> QED  BY <1>1, GroundedInit, PTL DEF Spec

(* Whatever DELETEs race with JOINs, LEAVEs and disconnects: for a group    *)
(* that is registered and that no erase has begun to work on, the lists of  *)
(* all clients agree with the group's, up to the second writes still queued *)
(* (Group.push, Group.remove, Group.erase, GroupHandler.getGroupInstance).  *)
THEOREM IntactGroupsAgree == Spec => []IntactAgreement
  BY GroundedInvariant, PTL
-------------------------------------------------------------------------------
(* Without DELETE the protocol implements Membership.  A step of it is one  *)
(* of three kinds: it writes no list, it makes the first write of a push or *)
(* a remove, or the second one.  The first is invisible, the others are     *)
(* Change and Follow; that Follow ends a flux only with equal lists is      *)
(* Agreement.                                                               *)

(* The flux of a pair does not change unless a second write of it comes or goes. *)
LEMMA FluxReply ==
    ASSUME TypeOK, NEW s \in Servers, pipe[s] # <<>>, NEW f \in Seq(Tasks), Reply(s, f),
           home' = home, NEW c \in Clients, NEW g \in Groups,
           ~Owes(Head(pipe[s]), c, g), \A k \in DOMAIN f : ~Owes(f[k], c, g)
    PROVE  InFlux(<<c, g>>)' <=> InFlux(<<c, g>>)
<1>1. pipe \in [Servers -> Seq(Tasks)] /\ home[c] \in Servers
  BY DEF TypeOK
<1>2. pipe'[s] = Tail(pipe[s]) \o f /\ \A r \in Servers \ {s} : pipe'[r] = pipe[r]
  BY ReplyType
<1>3. CASE home[c] # s
  BY <1>1, <1>2, <1>3 DEF InFlux
<1>4. CASE home[c] = s
  <2> DEFINE q == pipe[s]
             r == Tail(q) \o f
  <2>1. /\ q \in Seq(Tasks) /\ DOMAIN q = 1..Len(q) /\ q[1] = Head(q)
        /\ DOMAIN f = 1..Len(f) /\ Len(q) \in Nat \ {0} /\ Len(f) \in Nat
        /\ DOMAIN r = 1..(Len(q) - 1 + Len(f))
        /\ \A i \in DOMAIN r : r[i] = IF i < Len(q) THEN q[i + 1] ELSE f[i - Len(q) + 1]
    BY <1>1, StepElements, LenProperties, EmptySeq
  <2>2. InFlux(<<c, g>>) <=> \E i \in DOMAIN q : Owes(q[i], c, g)
    BY <1>4 DEF InFlux
  <2>3. InFlux(<<c, g>>)' <=> \E i \in DOMAIN r : Owes(r[i], c, g)
    BY <1>2, <1>4 DEF InFlux, Owes
  <2> HIDE DEF q, r
  <2>q. ~Owes(q[1], c, g)
    BY <2>1 DEF q
  <2>4. ASSUME NEW i \in DOMAIN q, Owes(q[i], c, g) PROVE \E j \in DOMAIN r : Owes(r[j], c, g)
    <3>1. i \in 2..Len(q)
      BY <2>1, <2>4, <2>q
    <3>2. i - 1 \in DOMAIN r /\ i - 1 < Len(q) /\ (i - 1) + 1 = i
      BY <2>1, <3>1
    <3> QED  BY <2>1, <2>4, <3>2
  <2>5. ASSUME NEW i \in DOMAIN r, Owes(r[i], c, g) PROVE \E j \in DOMAIN q : Owes(q[j], c, g)
    <3>1. CASE i < Len(q)
      <4>1. i + 1 \in DOMAIN q /\ r[i] = q[i + 1]
        BY <2>1, <3>1
      <4> QED  BY <2>5, <4>1
    <3>2. CASE ~(i < Len(q))
      <4>1. i - Len(q) + 1 \in DOMAIN f /\ r[i] = f[i - Len(q) + 1]
        BY <2>1, <3>2
      <4> QED  BY <2>5, <4>1
    <3> QED  BY <3>1, <3>2
  <2> QED  BY <2>2, <2>3, <2>4, <2>5
<1> QED  BY <1>3, <1>4

LEMMA FluxIssue ==
    ASSUME TypeOK, NEW s \in Servers, NEW u \in Tasks, Issue(s, <<u>>),
           home' = home, NEW c \in Clients, NEW g \in Groups, u.step \notin SecondSteps
    PROVE  InFlux(<<c, g>>)' <=> InFlux(<<c, g>>)
<1>1. pipe \in [Servers -> Seq(Tasks)] /\ home[c] \in Servers
  BY DEF TypeOK
<1>u. <<u>> \in Seq(Tasks)
  OBVIOUS
<1>2. pipe'[s] = pipe[s] \o <<u>> /\ \A r \in Servers \ {s} : pipe'[r] = pipe[r]
  BY <1>u, IssueType
<1>3. CASE home[c] # s
  BY <1>1, <1>2, <1>3 DEF InFlux
<1>4. CASE home[c] = s
  <2> DEFINE q == pipe[s]
             r == q \o <<u>>
  <2>1. /\ DOMAIN q = 1..Len(q) /\ Len(q) \in Nat
        /\ DOMAIN r = 1..(Len(q) + 1)
        /\ \A i \in DOMAIN r : r[i] = IF i <= Len(q) THEN q[i] ELSE u
    BY <1>1, <1>u, AppendElements, LenProperties
  <2>2. InFlux(<<c, g>>) <=> \E i \in DOMAIN q : Owes(q[i], c, g)
    BY <1>4 DEF InFlux
  <2>3. InFlux(<<c, g>>)' <=> \E i \in DOMAIN r : Owes(r[i], c, g)
    BY <1>2, <1>4 DEF InFlux, Owes
  <2>4. ~Owes(u, c, g)
    BY DEF Owes, SecondSteps
  <2> HIDE DEF q, r
  <2>5. \A i \in DOMAIN q : i \in DOMAIN r /\ r[i] = q[i]
    BY <2>1
  <2>6. \A i \in DOMAIN r : i \in DOMAIN q \/ r[i] = u
    BY <2>1
  <2> QED  BY <2>2, <2>3, <2>4, <2>5, <2>6
<1> QED  BY <1>3, <1>4
-------------------------------------------------------------------------------
(* What each kind of step is to Membership. *)
LEMMA SilentStutters ==
    ASSUME TypeOK, NEW s \in Servers, NEW f, SilentStep(s, f), home' = home
    PROVE  UNCHANGED <<Belongs, Shown, {p \in Clients \X Groups : InFlux(p)}>>
<1>1. Belongs' = Belongs /\ Shown' = Shown
  BY DEF SilentStep, Belongs, Shown
<1>2. ASSUME NEW c \in Clients, NEW g \in Groups
      PROVE  InFlux(<<c, g>>)' <=> InFlux(<<c, g>>)
  BY FluxReply DEF SilentStep, Owes, SecondSteps
<1>3. ASSUME NEW p \in Clients \X Groups PROVE InFlux(p)' <=> InFlux(p)
  BY <1>2
<1> QED  BY <1>1, <1>3

LEMMA FirstChanges ==
    ASSUME TypeOK, NEW s \in Servers, NEW u, NEW n \in Nat, FirstStep(s, u, n), home' = home
    PROVE  Abstract!Change(<<u.c, u.g>>)
<1> DEFINE p == <<u.c, u.g>>
<1>0. p \in Clients \X Groups /\ p[1] = u.c /\ p[2] = u.g
  BY DEF FirstStep
<1>1. groupsOf' \in [Clients -> [Groups -> Nat]]
  BY DEF TypeOK, FirstStep
<1>2. \A x \in Clients \X Groups :
         groupsOf'[x[1]][x[2]] = IF x = p THEN n ELSE groupsOf[x[1]][x[2]]
  BY <1>0 DEF TypeOK, FirstStep
<1>3. Belongs' \in {Belongs \cup {p}, Belongs \ {p}} /\ Shown' = Shown
  <2>1. CASE n > 0
    BY <1>0, <1>2, <2>1 DEF Belongs, Shown, FirstStep
  <2>2. CASE ~(n > 0)
    BY <1>0, <1>2, <2>2 DEF Belongs, Shown, FirstStep
  <2>3. Shown' = Shown
    BY DEF Shown, FirstStep
  <2> QED  BY <2>1, <2>2, <2>3
<1>4. ASSUME NEW x \in Clients \X Groups, x # p PROVE InFlux(x)' <=> InFlux(x)
  <2>1. x[1] \in Clients /\ x[2] \in Groups /\ x = <<x[1], x[2]>>
    OBVIOUS
  <2>2. ~Owes(u, x[1], x[2])
    BY <1>4, <2>1 DEF Owes
  <2>3. ~Owes(Head(pipe[s]), x[1], x[2])
    BY DEF Owes, FirstStep, SecondSteps
  <2>4. \A k \in DOMAIN <<u>> : <<u>>[k] = u
    OBVIOUS
  <2> QED  BY <2>1, <2>2, <2>3, <2>4, FluxReply DEF FirstStep
<1>5. InFlux(p)'
  <2>1. pipe[s] \in Seq(Tasks) /\ pipe'[s] = Tail(pipe[s]) \o <<u>> /\ Len(<<u>>) = 1
    BY ReplyType DEF TypeOK, FirstStep
  <2>2. /\ Len(pipe[s]) \in DOMAIN pipe'[s]
        /\ pipe'[s][Len(pipe[s])] = u
    BY <2>1, StepElements, LenProperties, EmptySeq DEF FirstStep
  <2>3. Owes(u, u.c, u.g)
    BY DEF Owes, FirstStep, SecondSteps
  <2> QED  BY <1>0, <2>2, <2>3 DEF InFlux, FirstStep, Owes
<1>6. {x \in Clients \X Groups : InFlux(x)'} = {x \in Clients \X Groups : InFlux(x)} \cup {p}
  BY <1>0, <1>4, <1>5
<1> QED  BY <1>3, <1>6 DEF Abstract!Change

LEMMA SecondFollows ==
    ASSUME TypeOK, NEW s \in Servers, NEW c, NEW g, NEW f, NEW n \in Nat,
           SecondStep(s, c, g, f, n), home' = home, Agreement'
    PROVE  Abstract!Follow(<<c, g>>)
<1> DEFINE p == <<c, g>>
<1>0. p \in Clients \X Groups /\ p[1] = c /\ p[2] = g
  BY DEF SecondStep
<1>1. InFlux(p)
  <2>1. 1 \in DOMAIN pipe[s] /\ pipe[s][1] = Head(pipe[s])
    BY StepElements DEF TypeOK, SecondStep
  <2> QED  BY <1>0, <2>1 DEF InFlux, Owes, SecondStep, SecondSteps
<1>2. \A x \in Clients \X Groups :
         members'[x[2]][x[1]] = IF x = p THEN n ELSE members[x[2]][x[1]]
  BY <1>0 DEF TypeOK, SecondStep
<1>3. Shown' \in {Shown \cup {p}, Shown \ {p}}
  <2>1. CASE n > 0
    BY <1>0, <1>2, <2>1 DEF Shown
  <2>2. CASE ~(n > 0)
    BY <1>0, <1>2, <2>2 DEF Shown
  <2> QED  BY <2>1, <2>2
<1>4. Belongs' = Belongs
  BY DEF Belongs, SecondStep
<1>5. ASSUME NEW x \in Clients \X Groups, x # p PROVE InFlux(x)' <=> InFlux(x)
  <2>1. x[1] \in Clients /\ x[2] \in Groups /\ x = <<x[1], x[2]>>
    OBVIOUS
  <2>2. ~Owes(Head(pipe[s]), x[1], x[2])
    BY <1>5, <2>1 DEF Owes, SecondStep
  <2>3. \A k \in DOMAIN f : ~Owes(f[k], x[1], x[2])
    BY DEF Owes, SecondStep, SecondSteps
  <2> QED  BY <2>1, <2>2, <2>3, FluxReply DEF SecondStep
<1>6. {x \in Clients \X Groups : InFlux(x)'}
        \in {{x \in Clients \X Groups : InFlux(x)}, {x \in Clients \X Groups : InFlux(x)} \ {p}}
  <2>1. CASE InFlux(p)'
    BY <1>0, <1>1, <1>5, <2>1
  <2>2. CASE ~InFlux(p)'
    BY <1>0, <1>1, <1>5, <2>2
  <2> QED  BY <2>1, <2>2
(* Agreement: where no second write is left, both lists say the same.       *)
<1>7. ASSUME ~InFlux(p)' PROVE p \in Shown' <=> p \in Belongs
  <2>1. Agrees(c, g)'
    BY DEF Agreement, SecondStep
  <2>2. groupsOf'[c][g] > 0 <=> members'[g][c] > 0
    BY <1>0, <1>7, <2>1 DEF Agrees, Converging, InFlux
  <2> QED  BY <1>0, <1>4, <2>2 DEF Shown, Belongs
<1> QED  BY <1>0, <1>1, <1>3, <1>4, <1>6, <1>7 DEF Abstract!Follow

-------------------------------------------------------------------------------
(* Which kind of step each action is. *)
LEMMA ClientStutters ==
    ASSUME UndeletedInv, NEW c \in Clients, ClientStep(c)
    PROVE  UNCHANGED <<Belongs, Shown, {p \in Clients \X Groups : InFlux(p)}>>
<1>t. TypeOK /\ home[c] \in Servers /\ known \subseteq Groups
  BY DEF UndeletedInv, TypeOK
<1>l. groupsOf' = groupsOf /\ members' = members /\ home' = home
  BY DEF ClientStep, CreateGroup, DeleteGroup, JoinGroup, LeaveGroup, Request,
         BroadcastGroup, Close
<1>1. PICK u \in Tasks : u.step \notin SecondSteps /\ Issue(home[c], <<u>>)
  <2>1. {"create.hset", "get.hget", "client.hget"} \subseteq Steps \ SecondSteps
        /\ {"create", "delete", "join", "leave", "broadcast"} \subseteq Jobs
    BY DEF Steps, StoreSteps, SecondSteps, Jobs, AllOps
  <2>2. ASSUME NEW st \in {"create.hset", "get.hget", "client.hget"},
               NEW job \in {"create", "delete", "join", "leave", "broadcast"},
               NEW g \in Groups, Issue(home[c], <<Task(st, job, c, g)>>)
        PROVE  \E u \in Tasks : u.step \notin SecondSteps /\ Issue(home[c], <<u>>)
    <3>1. st \in Steps /\ job \in Jobs
      BY <2>1
    <3>2. Task(st, job, c, g) \in Tasks
      BY <3>1, TaskNew
    <3>3. Task(st, job, c, g).step \notin SecondSteps
      BY <2>1 DEF Task
    <3> QED  BY <2>2, <3>2, <3>3
  <2>3. CASE Close(c)
    <3>1. Task("close.lrange", "close", c, None).step \notin SecondSteps
      BY DEF Task, SecondSteps
    <3> QED  BY <2>3, <3>1, TaskClose DEF Close
  <2>4. CASE CreateGroup(c)
    BY <2>2, <2>4 DEF CreateGroup
  <2>5. CASE BroadcastGroup(c)
    BY <1>t, <2>2, <2>5 DEF BroadcastGroup
  <2>6. CASE DeleteGroup(c) \/ JoinGroup(c) \/ LeaveGroup(c)
    BY <1>t, <2>2, <2>6 DEF DeleteGroup, JoinGroup, LeaveGroup, Request
  <2> QED  BY <2>3, <2>4, <2>5, <2>6 DEF ClientStep
<1>2. ASSUME NEW x \in Clients, NEW g \in Groups
      PROVE  InFlux(<<x, g>>)' <=> InFlux(<<x, g>>)
  BY <1>t, <1>l, <1>1, FluxIssue
<1>3. ASSUME NEW p \in Clients \X Groups PROVE InFlux(p)' <=> InFlux(p)
  BY <1>2
<1> QED  BY <1>l, <1>3 DEF Belongs, Shown

LEMMA ServerKinds ==
    ASSUME UndeletedInv, NEW s \in Servers, ServerStep(s)
    PROVE  /\ home' = home
           /\ \/ \E f : SilentStep(s, f)
              \/ \E u : \E n \in Nat : FirstStep(s, u, n)
              \/ \E c, g, f : \E n \in Nat : SecondStep(s, c, g, f, n)
<1>1. TypeOK /\ IdsAfter(s)
  BY IdsOfStep DEF UndeletedInv
<1>2. InOrder(Head(pipe[s]), s, home, registry)
  BY <1>1, UndeletedHead DEF IdsAfter
<1>3. KindOfStep(s)
  BY <1>1, <1>2, StepKinds DEF InOrder
<1>4. \A f : ~EraseStep(s, f)
  BY <1>2 DEF InOrder, EraseSteps, EraseStep
<1> QED  BY <1>1, <1>3, <1>4 DEF KindOfStep, IdsAfter

-------------------------------------------------------------------------------
(* Every behaviour of the protocol without DELETE is one of Membership:     *)
(* a join or a leave takes effect at one command, and the group's list      *)
(* follows, however requests overlap and whenever clients disconnect.       *)
THEOREM MembershipImplemented ==
    ASSUME "delete" \notin Ops
    PROVE  Spec => ImplementsMembership
<1> DEFINE absVars == <<Belongs, Shown, {p \in Clients \X Groups : InFlux(p)}>>
<1>1. Init => Abstract!Init
  <2> SUFFICES ASSUME Init PROVE Abstract!Init
    OBVIOUS
  <2>1. \A c \in Clients, g \in Groups : groupsOf[c][g] = 0 /\ members[g][c] = 0
    BY DEF Init, EmptyMembers, EmptyGroupsOf
  <2>2. \A c \in Clients : home[c] \in Servers /\ pipe[home[c]] = <<>>
    BY DEF Init
  <2>3. Belongs = {} /\ Shown = {}
    BY <2>1 DEF Belongs, Shown
  <2>4. \A p \in Clients \X Groups : ~InFlux(p)
    BY <2>2 DEF InFlux
  <2> QED  BY <2>3, <2>4 DEF Abstract!Init
<1>2. UndeletedInv /\ UndeletedInv' /\ [Next]_vars => [Abstract!Next]_absVars
  <2> SUFFICES ASSUME UndeletedInv, UndeletedInv', [Next]_vars
               PROVE  [Abstract!Next]_absVars
    OBVIOUS
  <2>1. TypeOK /\ Agreement'
    BY DEF UndeletedInv
  <2>2. CASE UNCHANGED vars
    BY <2>2 DEF vars, Belongs, Shown, InFlux, Owes
  <2>3. ASSUME NEW c \in Clients, ClientStep(c) PROVE UNCHANGED absVars
    BY <2>3, ClientStutters
  <2>4. ASSUME NEW s \in Servers, ServerStep(s) PROVE [Abstract!Next]_absVars
    <3>1. home' = home
      BY <2>4, ServerKinds
    <3>2. ASSUME NEW f, SilentStep(s, f) PROVE UNCHANGED absVars
      BY <2>1, <3>1, <3>2, SilentStutters
    <3>3. ASSUME NEW u, NEW n \in Nat, FirstStep(s, u, n) PROVE Abstract!Next
      <4>1. <<u.c, u.g>> \in Clients \X Groups
        BY <3>3 DEF FirstStep
      <4>2. Abstract!Change(<<u.c, u.g>>)
        BY <2>1, <3>1, <3>3, FirstChanges
      <4> QED  BY <4>1, <4>2 DEF Abstract!Next, Abstract!Pairs
    <3>4. ASSUME NEW c, NEW g, NEW f, NEW n \in Nat, SecondStep(s, c, g, f, n) PROVE Abstract!Next
      <4>1. <<c, g>> \in Clients \X Groups
        BY <3>4 DEF SecondStep
      <4>2. Abstract!Follow(<<c, g>>)
        BY <2>1, <3>1, <3>4, SecondFollows
      <4> QED  BY <4>1, <4>2 DEF Abstract!Next, Abstract!Pairs
    <3> QED  BY <2>4, <3>2, <3>3, <3>4, ServerKinds
  <2> QED  BY <2>2, <2>3, <2>4 DEF Next
<1> QED  BY <1>1, <1>2, UndeletedInvariant, PTL DEF Spec, ImplementsMembership, Abstract!Spec
-------------------------------------------------------------------------------
(* Presence, without DELETE: what members have been told about each other.  *)
(* The notices of a pair are queued in the order of the second writes they  *)
(* announce, so that the last one tells the truth about the group's list.   *)

ChainsFit == \A s \in Servers : \A i \in DOMAIN pipe[s] : Fitting(pipe[s][i])

(* t tells the members of g that c has come or gone. *)
News(t, c, g) == /\ t.step = "notify.lrange"
                 /\ t.c = c
                 /\ t.g = g
                 /\ t.job \in {"join", "leave", "close"}

LastNews(q, i, c, g) == /\ News(q[i], c, g)
                        /\ \A j \in DOMAIN q : j > i => ~News(q[j], c, g)

NewsTrue ==
    \A c \in Clients, g \in Groups : \A i \in DOMAIN pipe[home[c]] :
        LastNews(pipe[home[c]], i, c, g)
            => (members[g][c] > 0 <=> pipe[home[c]][i].job = "join")

(* Who has been told of others is a member, on their server. *)
KnowersIn ==
    \A g \in Groups : \A p \in knows[g] :
        /\ p[1] # p[2]
        /\ p[1] \in online
        /\ home[p[1]] = home[p[2]]
        /\ members[g][p[1]] > 0

(* Whom they have been told of is a member, or the news of his leave is     *)
(* under way.                                                               *)
Farewell(c, g) == \E i \in DOMAIN pipe[home[c]] :
                     News(pipe[home[c]][i], c, g) /\ pipe[home[c]][i].job # "join"

KnownIn ==
    \A g \in Groups : \A p \in knows[g] : members[g][p[2]] > 0 \/ Farewell(p[2], g)

(* Two members have met, or the news of one of their JOINs is under way.    *)
Welcome(c, g) == \E i \in DOMAIN pipe[home[c]] :
                    News(pipe[home[c]][i], c, g) /\ pipe[home[c]][i].job = "join"

Met ==
    \A g \in Groups, x, y \in Clients :
        ( /\ x # y
          /\ x \in online /\ y \in online
          /\ home[x] = home[y]
          /\ members[g][x] > 0 /\ members[g][y] > 0 )
            => <<x, y>> \in knows[g] \/ <<y, x>> \in knows[g] \/ Welcome(x, g) \/ Welcome(y, g)

(* The JOIN of a CREATE is not announced.  It need not be: nobody else is   *)
(* in the group yet, and nothing works on it but, at its very end, the      *)
(* close of its founder.                                                    *)
Founding(s, i) ==
    LET t == pipe[s][i] IN
    /\ t.g \notin known
    /\ \A x \in Clients :
          /\ ~(members[t.g][x] > 0)
          /\ groupsOf[x][t.g] > 0 => x = t.c /\ t.step = "push.lpushGroup"
    /\ \A r \in Servers : \A j \in DOMAIN pipe[r] :
          pipe[r][j].g = t.g =>
              \/ r = s /\ j = i
              \/ /\ r = s /\ j > i
                 /\ t.step = "push.lpushGroup" /\ pipe[r][j].step = "get.hget"

Founded ==
    \A s \in Servers : \A i \in DOMAIN pipe[s] : pipe[s][i].job = "create" => Founding(s, i)

Presence == ChainsFit /\ Founded /\ NewsTrue /\ KnowersIn /\ KnownIn /\ Met

(* What the chain of t goes on with, in more detail than Succeeds.          *)
Continues(t, u) ==
    /\ u \in Tasks /\ u.c = t.c /\ u.job = t.job /\ u.g \in Groups
    /\ \/ u.g = t.g
       \/ t.step = "close.lrange" /\ u.step = "get.hget" /\ groupsOf[t.c][u.g] > 0
    /\ Fitting(u)
    /\ u.step = "notify.lrange" => t.step \in SecondSteps \/ t.job = "broadcast"
    /\ u.step = "push.lpushGroup" <=> t.step = "push.lpushClient"

ChainOn(s, f) ==
    /\ f \in Seq(Tasks) /\ Reply(s, f)
    /\ \A k \in DOMAIN f : Continues(Head(pipe[s]), f[k])
    /\ Head(pipe[s]).job = "create" => Len(f) <= 1
    /\ (Head(pipe[s]).job = "create" /\ Head(pipe[s]).step = "push.lpushGroup") => f = <<>>
    /\ (Head(pipe[s]).job # "create" /\ Head(pipe[s]).step \in SecondSteps)
          => f = <<At(Head(pipe[s]), "notify.lrange")>>

LEMMA ChainsGoOn ==
    ASSUME UndeletedInv, NEW s \in Servers, ServerStep(s), Fitting(Head(pipe[s]))
    PROVE  \E f : ChainOn(s, f)
<1> DEFINE t == Head(pipe[s])
<1>t. TypeOK
  BY DEF UndeletedInv
<1>h. ASSUME NEW st, Running(s, st)
      PROVE  /\ pipe[s] # <<>> /\ t \in Tasks /\ t.step = st /\ t.c \in Clients
             /\ InOrder(t, s, home, registry)
             /\ st # "close.lrange" => t.g \in Groups
  BY <1>h, UndeletedHead, HeadFields DEF Running, Tasks
<1>n. ASSUME NEW st, Running(s, st), st # "close.lrange", NEW n \in Steps \ {"close.lrange"}
      PROVE  /\ At(t, n) \in Tasks /\ At(t, n).step = n /\ At(t, n).c = t.c /\ At(t, n).g = t.g
             /\ At(t, n).job = t.job
  <2>1. t \in Tasks /\ t.g # None
    BY <1>t, <1>h, <1>n, StoreAssumption
  <2> HIDE DEF t
  <2>2. /\ At(t, n) \in Tasks /\ At(t, n).step = n /\ At(t, n).c = t.c /\ At(t, n).g = t.g
        /\ At(t, n).job = t.job
    BY <2>1, TaskAt
  <2> QED  BY <2>2
<1>s. {"push.lrangeGroup", "push.lrangeClient", "push.lpushClient", "push.lpushGroup",
       "remove.lremClient", "remove.lremGroup",
       "client.hset", "client.lrange", "notify.lrange"} \subseteq Steps \ {"close.lrange"}
  BY DEF Steps, StoreSteps, PushSteps, RemoveSteps
(* A chain that goes on with n, or ends. *)
<1>q. ASSUME NEW st, Running(s, st), st # "close.lrange", st \notin SecondSteps,
             NEW n \in Steps \ {"close.lrange"},
             Reply(s, <<At(t, n)>>) \/ Reply(s, <<>>),
             \A u \in Tasks : u.step = n /\ u.job = t.job => Fitting(u),
             n = "notify.lrange" => t.job = "broadcast",
             n = "push.lpushGroup" <=> st = "push.lpushClient"
      PROVE  \E f : ChainOn(s, f)
  <2> DEFINE u == At(t, n)
  <2>1. /\ u \in Tasks /\ u.step = n /\ u.c = t.c /\ u.g = t.g /\ u.job = t.job
        /\ t.g \in Groups /\ t.step = st
    BY <1>n, <1>h, <1>q
  <2>2. PICK f \in {<<>>, <<u>>} : Reply(s, f)
    BY <1>q
  <2> HIDE DEF u
  <2>3. <<u>> \in Seq(Tasks)
    BY <2>1
  <2>4. f \in Seq(Tasks) /\ (\A k \in DOMAIN f : f[k] = u) /\ Len(f) <= 1
    <3>1. f \in Seq(Tasks) /\ \A k \in DOMAIN f : f[k] = u
      BY <2>2, <2>3, ShortReply
    <3>2. Len(f) <= 1
      <4>1. Len(<<>>) = 0 /\ Len(<<u>>) = 1
        OBVIOUS
      <4> QED  BY <2>2, <4>1
    <3> QED  BY <3>1, <3>2
  <2>5. Continues(t, u)
    BY <1>q, <2>1 DEF Continues
  <2>6. ChainOn(s, f)
    BY <1>q, <2>1, <2>2, <2>4, <2>5 DEF ChainOn, SecondSteps
  <2> QED  BY <2>6
<1> HIDE DEF t
<1>f. Fitting(t)
  BY DEF t
<1>1. CASE CreateEntry(s)
  <2>1. Running(s, "create.hset") /\ Reply(s, <<At(t, "push.lrangeGroup")>>)
    BY <1>1 DEF CreateEntry, t
  <2>2. t.job = "create"
    BY <1>f, <1>h, <2>1 DEF Fitting, PushSteps, RemoveSteps
  <2> QED  BY <1>q, <1>s, <2>1, <2>2 DEF SecondSteps, Fitting, PushSteps
<1>2. CASE Get(s)
  <2>1. Running(s, "get.hget") /\ InOrder(t, s, home, registry) /\ t.step = "get.hget"
    BY <1>2, <1>h DEF Get, GetGroupInstance
  <2>2. t.g \in registry /\ t.job \in {"join", "leave", "close"}
    BY <1>f, <2>1 DEF InOrder, Fitting, PushSteps, RemoveSteps
  <2>3. CASE t.job = "join"
    <3>1. Reply(s, <<At(t, "push.lrangeGroup")>>)
      BY <1>2, <2>2, <2>3 DEF Get, GetGroupInstance, Found, t
    <3> QED  BY <1>q, <1>s, <2>1, <2>3, <3>1 DEF SecondSteps, Fitting, PushSteps
  <2>4. CASE t.job # "join"
    <3>1. Reply(s, <<At(t, "remove.lremClient")>>)
      BY <1>2, <2>2, <2>4 DEF Get, GetGroupInstance, Found, t
    <3> QED  BY <1>q, <1>s, <2>1, <2>2, <2>4, <3>1 DEF SecondSteps, Fitting, RemoveSteps
  <2> QED  BY <2>3, <2>4
<1>3. CASE Push(s)
  <2>1. PICK st \in {"push.lrangeGroup", "push.lrangeClient", "push.lpushClient"} :
           Running(s, st)
    BY <1>3 DEF Push, PushReadGroup, PushReadClient, PushWriteClient
  <2>2. t.job \in {"create", "join"}
    BY <1>f, <1>h, <2>1 DEF Fitting, RemoveSteps
  <2>3. PICK m \in {"push.lrangeClient", "push.lpushClient", "push.lpushGroup"} :
           /\ Reply(s, <<At(t, m)>>) \/ Reply(s, <<>>)
           /\ m = "push.lpushGroup" <=> st = "push.lpushClient"
    BY <1>3, <2>1 DEF Push, PushReadGroup, PushReadClient, PushWriteClient, Rejected, Running, t
  <2> QED  BY <1>q, <1>s, <2>1, <2>2, <2>3 DEF SecondSteps, Fitting, PushSteps
(* The second writes. *)
<1>w. ASSUME NEW st \in SecondSteps, Running(s, st),
             IF t.job = "create" THEN Reply(s, <<>>) ELSE Reply(s, <<At(t, "notify.lrange")>>),
             t.job \in {"create", "join", "leave", "close"}
      PROVE  \E f : ChainOn(s, f)
  <2>1. t.step = st /\ t.g \in Groups
    BY <1>h, <1>w DEF SecondSteps
  <2>2. CASE t.job = "create"
    <3>1. <<>> \in Seq(Tasks) /\ DOMAIN <<>> = {} /\ Len(<<>>) = 0
      OBVIOUS
    <3>2. ChainOn(s, <<>>)
      BY <1>w, <2>2, <3>1 DEF ChainOn, t
    <3> QED  BY <3>2
  <2>3. CASE t.job # "create"
    <3> DEFINE u == At(t, "notify.lrange")
    <3>1. /\ u \in Tasks /\ u.step = "notify.lrange" /\ u.c = t.c /\ u.g = t.g
          /\ u.job = t.job
      BY <1>n, <1>s, <1>w DEF SecondSteps
    <3>2. Reply(s, <<u>>)
      BY <1>w, <2>3
    <3>3. u = At(Head(pipe[s]), "notify.lrange")
      BY DEF t
    <3> HIDE DEF u
    <3>4. Continues(t, u)
      BY <1>w, <2>1, <2>3, <3>1 DEF Continues, Fitting, SecondSteps
    <3>5. <<u>> \in Seq(Tasks) /\ \A k \in DOMAIN <<u>> : <<u>>[k] = u
      BY <3>1
    <3>6. ChainOn(s, <<u>>)
      BY <2>3, <3>2, <3>3, <3>4, <3>5 DEF ChainOn, t
    <3> QED  BY <3>6
  <2> QED  BY <2>2, <2>3
<1>4. CASE PushEnd(s)
  <2>1. Running(s, "push.lpushGroup") /\ Reply(s, Pushed(t))
    BY <1>4 DEF PushEnd, PushWriteGroup, t
  <2>2. t.job \in {"create", "join"}
    BY <1>f, <1>h, <2>1 DEF Fitting, RemoveSteps
  <2>3. IF t.job = "create" THEN Reply(s, <<>>) ELSE Reply(s, <<At(t, "notify.lrange")>>)
    BY <2>1 DEF Pushed, Notify
  <2> QED  BY <1>w, <2>1, <2>2, <2>3 DEF SecondSteps
<1>5. CASE Remove(s)
  <2>1. Running(s, "remove.lremClient") /\ Reply(s, <<At(t, "remove.lremGroup")>>)
    BY <1>5 DEF Remove, RemoveWriteClient, t
  <2>2. t.job \in {"leave", "close"}
    BY <1>f, <1>h, <2>1 DEF Fitting, PushSteps
  <2> QED  BY <1>q, <1>s, <2>1, <2>2 DEF SecondSteps, Fitting, RemoveSteps
<1>6. CASE RemoveEnd(s)
  <2>1. Running(s, "remove.lremGroup") /\ Reply(s, <<At(t, "notify.lrange")>>)
    BY <1>6 DEF RemoveEnd, RemoveWriteGroup, Notify, t
  <2>2. t.job \in {"leave", "close"}
    BY <1>f, <1>h, <2>1 DEF Fitting, PushSteps
  <2>3. "remove.lremGroup" \in SecondSteps
    BY DEF SecondSteps
  <2> QED  BY <1>w, <2>1, <2>2, <2>3
<1>7. CASE Erase(s)
  <2>1. PICK st \in EraseSteps : Running(s, st)
    BY <1>7 DEF Erase, EraseReadGroup, EraseWriteClient, EraseEntry, EraseGroup, EraseSteps
  <2> QED BY <1>h, <2>1 DEF InOrder
<1>8. CASE LeaveAllGroups(s)
  <2> DEFINE n == Cardinality(GroupsOfClient(t.c))
  <2>1. PICK order \in [1..n -> GroupsOfClient(t.c)] :
           Reply(s, [i \in DOMAIN order |-> Task("get.hget", "close", t.c, order[i])])
    BY <1>8 DEF LeaveAllGroups, t
  <2> DEFINE f == [i \in DOMAIN order |-> Task("get.hget", "close", t.c, order[i])]
  <2>2. t.c \in Clients /\ t.step = "close.lrange"
    BY <1>8, <1>h DEF LeaveAllGroups
  <2>3. n \in Nat /\ DOMAIN f = 1..n
    BY ListedFinite
  <2>4. \A i \in 1..n : order[i] \in Groups /\ groupsOf[t.c][order[i]] > 0
    BY <2>1 DEF GroupsOfClient
  <2>5. \A i \in 1..n : f[i] \in Tasks /\ f[i].step = "get.hget" /\ f[i].job = "close"
                        /\ f[i].c = t.c /\ f[i].g = order[i]
    <3>1. "get.hget" \in Steps /\ "close" \in Jobs
      BY DEF Steps, StoreSteps, Jobs, AllOps
    <3>2. ASSUME NEW i \in 1..n
          PROVE  Task("get.hget", "close", t.c, order[i]) \in Tasks
      BY <3>1, <2>2, <2>4, TaskNew
    <3> QED  BY <3>2 DEF Task
  <2>6. f \in Seq(Tasks)
    BY <2>3, <2>5, SeqDef
  <2>7. t.job = "close"
    BY <1>f, <2>2 DEF Fitting, PushSteps, RemoveSteps
  <2>8. Reply(s, f)
    BY <2>1
  <2> HIDE DEF f, n
  <2>9. \A k \in DOMAIN f : Continues(t, f[k])
    BY <2>2, <2>3, <2>4, <2>5, <2>7 DEF Continues, Fitting
  <2>10. ChainOn(s, f)
    BY <2>2, <2>6, <2>7, <2>8, <2>9 DEF ChainOn, SecondSteps, t
  <2> QED  BY <2>10
<1>9. CASE GetClient(s)
  <2>1. Running(s, "client.hget") /\ Reply(s, <<At(t, "client.hset")>>)
    BY <1>9 DEF GetClient, t
  <2>2. t.job = "broadcast"
    BY <1>f, <1>h, <2>1 DEF Fitting, PushSteps, RemoveSteps
  <2> QED  BY <1>q, <1>s, <2>1, <2>2 DEF SecondSteps, Fitting
<1>10. CASE SetClient(s)
  <2>1. Running(s, "client.hset") /\ Reply(s, <<At(t, "client.lrange")>>)
    BY <1>10 DEF SetClient, t
  <2>2. t.job = "broadcast"
    BY <1>f, <1>h, <2>1 DEF Fitting, PushSteps, RemoveSteps
  <2> QED  BY <1>q, <1>s, <2>1, <2>2 DEF SecondSteps, Fitting
<1>11. CASE CheckSender(s)
  <2>1. Running(s, "client.lrange") /\ (Reply(s, <<At(t, "notify.lrange")>>) \/ Reply(s, <<>>))
    BY <1>11 DEF CheckSender, Rejected, Notify, t
  <2>2. t.job = "broadcast"
    BY <1>f, <1>h, <2>1 DEF Fitting, PushSteps, RemoveSteps
  <2> QED  BY <1>q, <1>s, <2>1, <2>2 DEF SecondSteps, Fitting
<1>12. CASE NotifyGroup(s)
  <2>1. Running(s, "notify.lrange") /\ Reply(s, <<>>)
    BY <1>12 DEF NotifyGroup, t
  <2>2. <<>> \in Seq(Tasks) /\ DOMAIN <<>> = {} /\ Len(<<>>) = 0
    OBVIOUS
  <2>3. t.step = "notify.lrange"
    BY <1>h, <2>1
  <2>4. ChainOn(s, <<>>)
    BY <2>1, <2>2, <2>3 DEF ChainOn, SecondSteps, t
  <2> QED  BY <2>4
<1> QED  BY <1>1, <1>2, <1>3, <1>4, <1>5, <1>6, <1>7, <1>8, <1>9, <1>10, <1>11, <1>12
         DEF ServerStep

-------------------------------------------------------------------------------
(* What a step does to the members and to what they know. *)
Told(t, s) == Reached(s, Audience(t))

Heard(t, s) ==
    IF t.job = "join" THEN knows[t.g] \cup (Told(t, s) \X {t.c})
    ELSE IF t.job \in {"leave", "close"} THEN knows[t.g] \ (Told(t, s) \X {t.c})
    ELSE knows[t.g]

Untold(c, g) == {p \in knows[g] : p[1] # c}

PresenceStep(s, f) ==
    LET t == Head(pipe[s]) IN
    /\ ChainOn(s, f)
    /\ online' = online
    /\ known' \subseteq known \cup {t.g}
    /\ t.step # "push.lpushGroup" => known' = known
    /\ \A x \in Clients, g \in Groups :
          groupsOf'[x][g] > 0
              => groupsOf[x][g] > 0 \/ (x = t.c /\ g = t.g /\ t.step = "push.lpushClient")
    /\ \A x \in Clients, g \in Groups :
          IF x = t.c /\ g = t.g /\ t.step \in SecondSteps
          THEN members'[g][x] > 0 <=> t.step = "push.lpushGroup"
          ELSE members'[g][x] > 0 <=> members[g][x] > 0
    /\ \A g \in Groups :
          knows'[g] = IF g = t.g /\ t.step = "remove.lremGroup"
                      THEN Untold(t.c, g)
                      ELSE IF g = t.g /\ t.step = "notify.lrange" THEN Heard(t, s)
                      ELSE knows[g]

LEMMA PresenceSteps ==
    ASSUME UndeletedInv, NEW s \in Servers, ServerStep(s), Fitting(Head(pipe[s]))
    PROVE  \E f : PresenceStep(s, f)
<1> DEFINE t == Head(pipe[s])
<1>t. TypeOK
  BY DEF UndeletedInv
<1>c. PICK f : ChainOn(s, f)
  BY ChainsGoOn
<1>h. ASSUME NEW st, Running(s, st)
      PROVE  /\ t \in Tasks /\ t.step = st /\ t.c \in Clients
             /\ t.step \notin EraseSteps
             /\ st # "close.lrange" => t.g \in Groups
  BY <1>h, UndeletedHead, HeadFields DEF Running, Tasks, InOrder
<1> HIDE DEF t
(* No list is written and nothing is learned. *)
<1>q. ASSUME NEW st, Running(s, st), st \notin SecondSteps \cup {"notify.lrange"},
             online' = online, known' = known, knows' = knows, members' = members,
             groupsOf' = groupsOf
      PROVE  PresenceStep(s, f)
  BY <1>q, <1>h, <1>c DEF PresenceStep, SecondSteps, t
<1>0. CASE t.step \notin SecondSteps \cup {"notify.lrange", "push.lpushClient", "remove.lremClient"}
  <2>1. PICK st : Running(s, st) /\ st = t.step
    BY <1>0 DEF ServerStep, CreateEntry, Get, GetGroupInstance, Push, PushReadGroup,
           PushReadClient, PushWriteClient, PushEnd, PushWriteGroup, Remove, RemoveWriteClient,
           RemoveEnd, RemoveWriteGroup, Erase, EraseReadGroup, EraseWriteClient, EraseEntry,
           EraseGroup, LeaveAllGroups, GetClient, SetClient, CheckSender, NotifyGroup,
           Running, t
  <2>2. ~Erase(s)
    BY <1>h DEF Erase, EraseReadGroup, EraseWriteClient, EraseEntry, EraseGroup, EraseSteps
  <2>3. ~PushEnd(s) /\ ~RemoveEnd(s) /\ ~NotifyGroup(s) /\ ~PushWriteClient(s)
        /\ ~Remove(s)
    BY <1>0, <1>h DEF PushEnd, PushWriteGroup, RemoveEnd, RemoveWriteGroup, NotifyGroup,
           PushWriteClient, Remove, RemoveWriteClient, SecondSteps
  <2>4. /\ online' = online /\ known' = known /\ knows' = knows /\ members' = members
        /\ groupsOf' = groupsOf
    BY <2>2, <2>3 DEF ServerStep, CreateEntry, Get, GetGroupInstance, Push, PushReadGroup,
           PushReadClient, LeaveAllGroups, GetClient, SetClient, CheckSender
  <2> QED  BY <1>0, <1>q, <2>1, <2>4
<1>1. CASE PushWriteClient(s) /\ Push(s)
  <2>1. /\ Running(s, "push.lpushClient") /\ members' = members
        /\ groupsOf' = [groupsOf EXCEPT ![t.c][t.g] = @ + 1]
        /\ online' = online /\ known' = known /\ knows' = knows
    BY <1>1 DEF Push, PushWriteClient, t
  <2>2. t.c \in Clients /\ t.g \in Groups /\ t.step = "push.lpushClient"
    BY <1>h, <2>1
  <2>3. ASSUME NEW x \in Clients, NEW g \in Groups, groupsOf'[x][g] > 0
        PROVE  groupsOf[x][g] > 0 \/ (x = t.c /\ g = t.g)
    BY <1>t, <2>1, <2>2, <2>3 DEF TypeOK
  <2> QED  BY <1>c, <2>1, <2>2, <2>3 DEF PresenceStep, SecondSteps, t
<1>2. CASE Remove(s)
  <2>1. /\ Running(s, "remove.lremClient") /\ members' = members
        /\ groupsOf' = [groupsOf EXCEPT ![t.c][t.g] = 0]
        /\ online' = online /\ known' = known /\ knows' = knows
    BY <1>2 DEF Remove, RemoveWriteClient, t
  <2>2. t.c \in Clients /\ t.g \in Groups /\ t.step = "remove.lremClient"
    BY <1>h, <2>1
  <2>3. ASSUME NEW x \in Clients, NEW g \in Groups, groupsOf'[x][g] > 0
        PROVE  groupsOf[x][g] > 0
    BY <1>t, <2>1, <2>2, <2>3 DEF TypeOK
  <2> QED  BY <1>c, <2>1, <2>2, <2>3 DEF PresenceStep, SecondSteps, t
<1>3. CASE PushEnd(s)
  <2>1. /\ Running(s, "push.lpushGroup") /\ groupsOf' = groupsOf
        /\ members' = [members EXCEPT ![t.g][t.c] = @ + 1]
        /\ online' = online /\ known' \subseteq known \cup {t.g} /\ knows' = knows
    BY <1>3 DEF PushEnd, PushWriteGroup, t
  <2>2. t.c \in Clients /\ t.g \in Groups /\ t.step = "push.lpushGroup"
    BY <1>h, <2>1
  <2>3. ASSUME NEW x \in Clients, NEW g \in Groups
        PROVE  IF x = t.c /\ g = t.g THEN members'[g][x] > 0 ELSE members'[g][x] = members[g][x]
    BY <1>t, <2>1, <2>2 DEF TypeOK
  <2> QED  BY <1>c, <2>1, <2>2, <2>3 DEF PresenceStep, SecondSteps, t
<1>4. CASE RemoveEnd(s)
  <2>1. /\ Running(s, "remove.lremGroup") /\ groupsOf' = groupsOf
        /\ members' = [members EXCEPT ![t.g][t.c] = 0]
        /\ knows' = [knows EXCEPT ![t.g] = {p \in @ : p[1] # t.c}]
        /\ online' = online /\ known' = known
    BY <1>4 DEF RemoveEnd, RemoveWriteGroup, t
  <2>2. t.c \in Clients /\ t.g \in Groups /\ t.step = "remove.lremGroup"
    BY <1>h, <2>1
  <2>3. ASSUME NEW x \in Clients, NEW g \in Groups
        PROVE  IF x = t.c /\ g = t.g THEN members'[g][x] = 0 ELSE members'[g][x] = members[g][x]
    BY <1>t, <2>1, <2>2 DEF TypeOK
  <2>4. ASSUME NEW g \in Groups
        PROVE  knows'[g] = IF g = t.g THEN Untold(t.c, g) ELSE knows[g]
    BY <1>t, <2>1, <2>2 DEF TypeOK, Untold
  <2>5. ASSUME NEW x \in Clients, NEW g \in Groups
        PROVE  IF x = t.c /\ g = t.g /\ t.step \in SecondSteps
               THEN members'[g][x] > 0 <=> t.step = "push.lpushGroup"
               ELSE members'[g][x] > 0 <=> members[g][x] > 0
    BY <2>2, <2>3 DEF SecondSteps
  <2>6. ASSUME NEW g \in Groups
        PROVE  knows'[g] = IF g = t.g /\ t.step = "remove.lremGroup" THEN Untold(t.c, g)
                           ELSE IF g = t.g /\ t.step = "notify.lrange" THEN Heard(t, s)
                           ELSE knows[g]
    BY <2>2, <2>4
  <2> QED  BY <1>c, <2>1, <2>2, <2>5, <2>6 DEF PresenceStep, t
<1>5. CASE NotifyGroup(s)
  <2>1. /\ Running(s, "notify.lrange") /\ groupsOf' = groupsOf /\ members' = members
        /\ online' = online /\ known' = known
    BY <1>5 DEF NotifyGroup
  <2>2. t.c \in Clients /\ t.g \in Groups /\ t.step = "notify.lrange"
    BY <1>h, <2>1
  <2>3. t.job \in {"join", "leave", "close", "broadcast"}
    BY <2>2 DEF Fitting, PushSteps, RemoveSteps, t
  <2>4. knows' = [knows EXCEPT ![t.g] = Heard(t, s)]
    BY <1>5, <2>3 DEF NotifyGroup, Heard, Told, t
  <2>5. ASSUME NEW g \in Groups
        PROVE  knows'[g] = IF g = t.g THEN Heard(t, s) ELSE knows[g]
    BY <1>t, <2>2, <2>4 DEF TypeOK
  <2> QED  BY <1>c, <2>1, <2>2, <2>5 DEF PresenceStep, SecondSteps, t
<1>6. CASE t.step \in SecondSteps \cup {"notify.lrange", "push.lpushClient", "remove.lremClient"}
  <2>1. \/ PushWriteClient(s) /\ Push(s)
        \/ Remove(s) \/ PushEnd(s) \/ RemoveEnd(s) \/ NotifyGroup(s)
    BY <1>6 DEF ServerStep, CreateEntry, Get, GetGroupInstance, Push, PushReadGroup,
           PushReadClient, Erase, EraseReadGroup, EraseWriteClient, EraseEntry,
           EraseGroup, LeaveAllGroups, GetClient, SetClient, CheckSender,
           Running, SecondSteps, t
  <2> QED  BY <1>1, <1>2, <1>3, <1>4, <1>5, <2>1
<1> QED  BY <1>0, <1>q, <1>6
-------------------------------------------------------------------------------
(* The last notice of a pair in a pipeline. *)

LEMMA LastNewsExists ==
    ASSUME NEW q \in Seq(Tasks), NEW c, NEW g, NEW i \in DOMAIN q, News(q[i], c, g)
    PROVE  \E j \in DOMAIN q : LastNews(q, j, c, g)
<1> DEFINE T == {j \in DOMAIN q : News(q[j], c, g)}
<1>1. Len(q) \in Nat /\ DOMAIN q = 1..Len(q) /\ T \in SUBSET (1..Len(q)) /\ i \in T
  BY LenProperties
<1>2. PICK x \in T : \A y \in T : y <= x
  <2> HIDE DEF T
  <2> QED  BY <1>1, Largest
<1>3. ASSUME NEW j \in DOMAIN q, j > x PROVE j \notin T
  BY <1>1, <1>2, <1>3
<1> QED  BY <1>2, <1>3 DEF LastNews

LEMMA LastNewsKept ==
    ASSUME NEW q \in Seq(Tasks), q # <<>>, NEW f \in Seq(Tasks), NEW c, NEW g,
           \A k \in DOMAIN f : ~News(f[k], c, g),
           NEW i \in DOMAIN (Tail(q) \o f), LastNews(Tail(q) \o f, i, c, g)
    PROVE  /\ i + 1 \in DOMAIN q /\ LastNews(q, i + 1, c, g)
           /\ (Tail(q) \o f)[i] = q[i + 1]
<1> DEFINE r == Tail(q) \o f
           n == Len(q)
<1>1. /\ DOMAIN q = 1..n /\ n \in Nat \ {0} /\ DOMAIN f = 1..Len(f) /\ Len(f) \in Nat
      /\ DOMAIN r = 1..(n - 1 + Len(f))
      /\ \A k \in DOMAIN r : r[k] = IF k < n THEN q[k + 1] ELSE f[k - n + 1]
  BY StepElements, LenProperties, EmptySeq
<1>2. i \in DOMAIN r /\ News(r[i], c, g) /\ \A j \in DOMAIN r : j > i => ~News(r[j], c, g)
  BY DEF LastNews
<1> HIDE DEF r, n
<1>3. i < n
  <2> SUFFICES ASSUME ~(i < n) PROVE FALSE
    BY <1>1, <1>2
  <2>1. i - n + 1 \in DOMAIN f /\ r[i] = f[i - n + 1]
    BY <1>1, <1>2
  <2> QED  BY <1>2, <2>1
<1>4. i + 1 \in DOMAIN q /\ r[i] = q[i + 1]
  BY <1>1, <1>2, <1>3
<1>5. ASSUME NEW j \in DOMAIN q, j > i + 1 PROVE ~News(q[j], c, g)
  <2>1. j - 1 \in DOMAIN r /\ j - 1 < n /\ (j - 1) + 1 = j /\ j - 1 > i
    BY <1>1, <1>2, <1>5
  <2>2. r[j - 1] = q[j]
    BY <1>1, <2>1
  <2> QED  BY <1>2, <2>1, <2>2
<1> QED  BY <1>2, <1>4, <1>5 DEF LastNews, r

LEMMA LastNewsIsNew ==
    ASSUME NEW q \in Seq(Tasks), q # <<>>, NEW u \in Tasks, NEW c, NEW g, News(u, c, g),
           NEW i \in DOMAIN (Tail(q) \o <<u>>), LastNews(Tail(q) \o <<u>>, i, c, g)
    PROVE  (Tail(q) \o <<u>>)[i] = u
<1> DEFINE f == <<u>>
           r == Tail(q) \o f
           n == Len(q)
<1>0. f \in Seq(Tasks) /\ Len(f) = 1 /\ f[1] = u
  OBVIOUS
<1>1. /\ DOMAIN q = 1..n /\ n \in Nat \ {0}
      /\ DOMAIN r = 1..(n - 1 + 1)
      /\ \A k \in DOMAIN r : r[k] = IF k < n THEN q[k + 1] ELSE f[k - n + 1]
  BY <1>0, StepElements, LenProperties, EmptySeq
<1>2. i \in DOMAIN r /\ \A j \in DOMAIN r : j > i => ~News(r[j], c, g)
  BY DEF LastNews
<1> HIDE DEF f, r, n
<1>3. n \in DOMAIN r /\ r[n] = u
  <2>1. n \in DOMAIN r /\ ~(n < n) /\ n - n + 1 = 1
    BY <1>1
  <2> QED  BY <1>0, <1>1, <2>1
<1>4. i = n
  BY <1>1, <1>2, <1>3
<1> QED  BY <1>3, <1>4 DEF r, f

LEMMA LastNewsBefore ==
    ASSUME NEW q \in Seq(Tasks), NEW u \in Tasks, NEW c, NEW g, ~News(u, c, g),
           NEW i \in DOMAIN (q \o <<u>>), LastNews(q \o <<u>>, i, c, g)
    PROVE  i \in DOMAIN q /\ LastNews(q, i, c, g) /\ (q \o <<u>>)[i] = q[i]
<1> DEFINE f == <<u>>
           r == q \o f
           n == Len(q)
<1>0. f \in Seq(Tasks) /\ Len(f) = 1 /\ f[1] = u
  OBVIOUS
<1>1. /\ DOMAIN q = 1..n /\ n \in Nat
      /\ DOMAIN r = 1..(n + 1)
      /\ \A k \in DOMAIN r : r[k] = IF k <= n THEN q[k] ELSE f[k - n]
  BY <1>0, AppendElements, LenProperties
<1>2. i \in DOMAIN r /\ News(r[i], c, g) /\ \A j \in DOMAIN r : j > i => ~News(r[j], c, g)
  BY DEF LastNews
<1> HIDE DEF f, r, n
<1>3. i <= n
  <2> SUFFICES ASSUME ~(i <= n) PROVE FALSE
    BY <1>1, <1>2
  <2>1. i - n = 1 /\ r[i] = f[i - n]
    BY <1>1, <1>2
  <2> QED  BY <1>0, <1>2, <2>1
<1>4. i \in DOMAIN q /\ r[i] = q[i]
  BY <1>1, <1>2, <1>3
<1>5. ASSUME NEW j \in DOMAIN q, j > i PROVE ~News(q[j], c, g)
  <2>1. j \in DOMAIN r /\ r[j] = q[j]
    BY <1>1, <1>5
  <2> QED  BY <1>2, <1>5, <2>1
<1> QED  BY <1>2, <1>4, <1>5 DEF LastNews, r, f

(* What a step of s leaves of the news of c in g: the last notice is an old *)
(* one, unless the step was the second write of c in g, which appends its   *)
(* own; and but for the head none is lost.                                  *)
Announces(t, c, g) == t.c = c /\ t.g = g /\ t.step \in SecondSteps /\ t.job # "create"

LEMMA NewsOfStep ==
    ASSUME UndeletedInv, NEW s \in Servers, IdsAfter(s), NEW f, PresenceStep(s, f),
           Fitting(Head(pipe[s])),
           NEW c \in Clients, NEW g \in Groups
    PROVE  /\ ~Announces(Head(pipe[s]), c, g) =>
                 \A i \in DOMAIN pipe'[home[c]] : LastNews(pipe'[home[c]], i, c, g) =>
                    \E j \in DOMAIN pipe[home[c]] : /\ LastNews(pipe[home[c]], j, c, g)
                                                    /\ pipe'[home[c]][i] = pipe[home[c]][j]
           /\ Announces(Head(pipe[s]), c, g) =>
                 /\ \A i \in DOMAIN pipe'[home[c]] : LastNews(pipe'[home[c]], i, c, g) =>
                       pipe'[home[c]][i].job = Head(pipe[s]).job
                 /\ \E i \in DOMAIN pipe'[home[c]] : /\ News(pipe'[home[c]][i], c, g)
                                                     /\ pipe'[home[c]][i].job = Head(pipe[s]).job
           /\ \A i \in DOMAIN pipe[home[c]] :
                 \/ home[c] = s /\ i = 1
                 \/ \E j \in DOMAIN pipe'[home[c]] : pipe'[home[c]][j] = pipe[home[c]][i]
<1> DEFINE t == Head(pipe[s])
<1>1. /\ TypeOK /\ pipe[s] # <<>> /\ t \in Tasks /\ home[c] \in Servers
      /\ pipe[s] \in Seq(Tasks)
  BY DEF UndeletedInv, TypeOK, IdsAfter
<1>2. /\ f \in Seq(Tasks) /\ Reply(s, f) /\ \A k \in DOMAIN f : Continues(t, f[k])
      /\ (t.job # "create" /\ t.step \in SecondSteps) => f = <<At(t, "notify.lrange")>>
  BY DEF PresenceStep, ChainOn
<1>3. pipe'[s] = Tail(pipe[s]) \o f /\ \A r \in Servers \ {s} : pipe'[r] = pipe[r]
  BY <1>1, <1>2, ReplyType
<1>4. \A i \in DOMAIN pipe[home[c]] :
         \/ home[c] = s /\ i = 1
         \/ \E j \in DOMAIN pipe'[home[c]] : pipe'[home[c]][j] = pipe[home[c]][i]
  BY <1>1, <1>2, PlacesAfterReply
<1>f. Fitting(t)
  OBVIOUS
<1>o. InOrder(t, s, home, registry) /\ (t.step # "close.lrange" => t.g \in Groups)
  BY <1>1, UndeletedHead, HeadFields
<1> HIDE DEF t
<1>5. ASSUME ~Announces(t, c, g), NEW k \in DOMAIN f PROVE ~News(f[k], c, g)
  BY <1>2, <1>5 DEF News, Continues, Announces, SecondSteps
<1>6. ASSUME ~Announces(t, c, g), NEW i \in DOMAIN pipe'[home[c]],
             LastNews(pipe'[home[c]], i, c, g)
      PROVE  \E j \in DOMAIN pipe[home[c]] : /\ LastNews(pipe[home[c]], j, c, g)
                                             /\ pipe'[home[c]][i] = pipe[home[c]][j]
  <2>1. CASE home[c] # s
    <3>1. pipe'[home[c]] = pipe[home[c]]
      BY <1>1, <1>3, <2>1
    <3> QED  BY <1>6, <3>1
  <2>2. CASE home[c] = s
    <3> DEFINE q == pipe[s]
    <3>1. q \in Seq(Tasks) /\ q # <<>> /\ pipe'[s] = Tail(q) \o f
      BY <1>1, <1>3
    <3>2. i \in DOMAIN (Tail(q) \o f) /\ LastNews(Tail(q) \o f, i, c, g)
      BY <1>6, <2>2, <3>1
    <3> HIDE DEF q
    <3>3. /\ i + 1 \in DOMAIN q /\ LastNews(q, i + 1, c, g)
          /\ (Tail(q) \o f)[i] = q[i + 1]
      BY <1>2, <1>5, <1>6, <3>1, <3>2, LastNewsKept
    <3>4. i + 1 \in DOMAIN pipe[home[c]] /\ LastNews(pipe[home[c]], i + 1, c, g)
          /\ pipe'[home[c]][i] = pipe[home[c]][i + 1]
      BY <2>2, <3>1, <3>3 DEF q
    <3> QED  BY <3>4
  <2> QED  BY <2>1, <2>2
<1>7. ASSUME Announces(t, c, g)
      PROVE  /\ \A i \in DOMAIN pipe'[home[c]] : LastNews(pipe'[home[c]], i, c, g) =>
                   pipe'[home[c]][i].job = t.job
             /\ \E i \in DOMAIN pipe'[home[c]] : /\ News(pipe'[home[c]][i], c, g)
                                                 /\ pipe'[home[c]][i].job = t.job
  <2> DEFINE u == At(t, "notify.lrange")
             q == pipe[s]
  <2>1. /\ t.c = c /\ t.g = g /\ t.step \in SecondSteps /\ t.job # "create" /\ f = <<u>>
        /\ home[c] = s
    BY <1>2, <1>7, <1>o DEF Announces, InOrder
  <2>2. f[1] = u /\ DOMAIN f = {1} /\ Len(f) = 1
    BY <2>1
  <2>3. u \in Tasks /\ u.step = "notify.lrange" /\ u.c = c /\ u.g = g /\ u.job = t.job
    <3>1. t.g # None /\ "notify.lrange" \in Steps
      BY <2>1, StoreAssumption DEF Steps
    <3> QED  BY <1>1, <2>1, <3>1, TaskAt
  <2> HIDE DEF u
  <2>4. t.job \in {"join", "leave", "close"}
    <3>1. Fitting(u)
      BY <1>2, <2>2 DEF Continues
    <3>2. u.job \in {"join", "leave", "close", "broadcast"}
      BY <2>3, <3>1 DEF Fitting, PushSteps, RemoveSteps
    <3>3. Continues(t, u)
      BY <1>2, <2>2
    <3>4. t.job # "broadcast"
      BY <1>f, <2>1 DEF Fitting, SecondSteps
    <3> QED  BY <2>3, <3>2, <3>4
  <2>5. News(u, c, g)
    BY <2>3, <2>4 DEF News
  <2>6. q \in Seq(Tasks) /\ q # <<>> /\ pipe'[s] = Tail(q) \o <<u>>
    BY <1>1, <1>3, <2>1
  <2> HIDE DEF q
  <2>7. ASSUME NEW i \in DOMAIN pipe'[home[c]], LastNews(pipe'[home[c]], i, c, g)
        PROVE  pipe'[home[c]][i].job = t.job
    <3>1. i \in DOMAIN (Tail(q) \o <<u>>) /\ LastNews(Tail(q) \o <<u>>, i, c, g)
      BY <2>1, <2>6, <2>7
    <3>2. (Tail(q) \o <<u>>)[i] = u
      BY <2>3, <2>5, <2>6, <3>1, LastNewsIsNew
    <3> QED  BY <2>1, <2>3, <2>6, <3>2
  <2>8. \E i \in DOMAIN pipe'[s] : pipe'[s][i] = u
    BY <1>1, <1>2, <2>2, PlacesAfterReply
  <2> QED  BY <2>1, <2>3, <2>5, <2>7, <2>8
<1> QED  BY <1>4, <1>6, <1>7 DEF t

LEMMA NewsAnnounced ==
    ASSUME UndeletedInv, NEW s \in Servers, IdsAfter(s), NEW f, PresenceStep(s, f),
           Fitting(Head(pipe[s])), NEW c \in Clients, NEW g \in Groups,
           Announces(Head(pipe[s]), c, g)
    PROVE  \E i \in DOMAIN pipe'[home[c]] : /\ News(pipe'[home[c]][i], c, g)
                                             /\ pipe'[home[c]][i].job = Head(pipe[s]).job
BY NewsOfStep

-------------------------------------------------------------------------------
(* A step of a chain keeps the presence. *)

(* What the proofs below use of a step and of the command it runs. *)
LEMMA HeadOfStep ==
    ASSUME UndeletedInv, NEW s \in Servers, IdsAfter(s), NEW f, PresenceStep(s, f), ChainsFit
    PROVE  /\ TypeOK /\ Fitting(Head(pipe[s])) /\ Head(pipe[s]) \in Tasks
           /\ 1 \in DOMAIN pipe[s] /\ pipe[s][1] = Head(pipe[s])
           /\ Head(pipe[s]).c \in Clients /\ home[Head(pipe[s]).c] = s
           /\ home' = home /\ online' = online
           /\ Head(pipe[s]).step = "push.lpushGroup" => Head(pipe[s]).job \in {"create", "join"}
           /\ Head(pipe[s]).step = "remove.lremGroup" => Head(pipe[s]).job \in {"leave", "close"}
           /\ \A c \in Clients : home[c] \in Servers /\ pipe[home[c]] \in Seq(Tasks)
           /\ \A g \in Groups : \A p \in knows[g] : p[1] \in Clients /\ p[2] \in Clients
<1> DEFINE t == Head(pipe[s])
<1>1. TypeOK /\ pipe[s] # <<>> /\ t \in Tasks
  BY DEF UndeletedInv, IdsAfter
<1>2. 1 \in DOMAIN pipe[s] /\ pipe[s][1] = t
  BY <1>1, HeadFirst
<1>3. Fitting(t) /\ InOrder(t, s, home, registry)
  BY <1>1, <1>2, UndeletedHead DEF ChainsFit
<1>4. home' = home /\ online' = online
  BY DEF IdsAfter, PresenceStep
<1>5. \A c \in Clients : home[c] \in Servers /\ pipe[home[c]] \in Seq(Tasks)
  BY <1>1 DEF TypeOK
<1>6. \A g \in Groups : \A p \in knows[g] : p[1] \in Clients /\ p[2] \in Clients
  BY <1>1 DEF TypeOK
<1> HIDE DEF t
<1>7. /\ t.step = "push.lpushGroup" => t.job \in {"create", "join"}
      /\ t.step = "remove.lremGroup" => t.job \in {"leave", "close"}
  BY <1>3 DEF Fitting, PushSteps, RemoveSteps
<1> QED  BY <1>1, <1>2, <1>3, <1>4, <1>5, <1>6, <1>7 DEF InOrder, Tasks, t

LEMMA NewsTrueServer ==
    ASSUME UndeletedInv, NEW s \in Servers, IdsAfter(s), NEW f, PresenceStep(s, f),
           ChainsFit, Founded, NewsTrue
    PROVE  NewsTrue'
<1> DEFINE t == Head(pipe[s])
<1>1. /\ Fitting(t) /\ 1 \in DOMAIN pipe[s] /\ pipe[s][1] = t /\ home' = home
      /\ t.step = "push.lpushGroup" => t.job \in {"create", "join"}
      /\ t.step = "remove.lremGroup" => t.job \in {"leave", "close"}
      /\ \A c \in Clients : home[c] \in Servers
  BY HeadOfStep
<1>2. \A x \in Clients, g \in Groups :
          IF x = t.c /\ g = t.g /\ t.step \in SecondSteps
          THEN members'[g][x] > 0 <=> t.step = "push.lpushGroup"
          ELSE members'[g][x] > 0 <=> members[g][x] > 0
  BY DEF PresenceStep
<1>3. ASSUME NEW c \in Clients, NEW g \in Groups, NEW i \in DOMAIN pipe'[home[c]],
             LastNews(pipe'[home[c]], i, c, g)
      PROVE  members'[g][c] > 0 <=> pipe'[home[c]][i].job = "join"
  <2>1. CASE Announces(t, c, g)
    <3>1. pipe'[home[c]][i].job = t.job
      BY <1>1, <1>3, <2>1, NewsOfStep
    <3> HIDE DEF t
    <3> QED  BY <1>1, <1>2, <2>1, <3>1 DEF Announces, SecondSteps
  <2>2. CASE ~Announces(t, c, g)
    <3>1. PICK j \in DOMAIN pipe[home[c]] : /\ LastNews(pipe[home[c]], j, c, g)
                                            /\ pipe'[home[c]][i] = pipe[home[c]][j]
      BY <1>1, <1>3, <2>2, NewsOfStep
    <3>2. members[g][c] > 0 <=> pipe[home[c]][j].job = "join"
      BY <3>1 DEF NewsTrue
    <3> HIDE DEF t
    <3>3. ~(c = t.c /\ g = t.g /\ t.step \in SecondSteps)
      <4> SUFFICES ASSUME c = t.c, g = t.g, t.step \in SecondSteps PROVE FALSE
        OBVIOUS
      <4>1. t.job = "create"
        BY <2>2 DEF Announces
      <4>2. Founding(s, 1)
        BY <1>1, <4>1 DEF Founded
      <4>3. pipe[home[c]][j].g = t.g /\ pipe[home[c]][j].step = "notify.lrange"
        BY <3>1 DEF LastNews, News
      <4>4. home[c] = s /\ j = 1
        BY <1>1, <4>2, <4>3 DEF Founding
      <4> QED  BY <1>1, <4>3, <4>4 DEF SecondSteps
    <3> QED  BY <1>2, <3>1, <3>2, <3>3
  <2> QED  BY <2>1, <2>2
<1> QED  BY <1>1, <1>3 DEF NewsTrue, LastNews, News

LEMMA KnowersInServer ==
    ASSUME UndeletedInv, NEW s \in Servers, IdsAfter(s), NEW f, PresenceStep(s, f),
           ChainsFit, KnowersIn
    PROVE  KnowersIn'
<1> DEFINE t == Head(pipe[s])
<1>1. /\ t.c \in Clients /\ home[t.c] = s /\ home' = home /\ online' = online
      /\ \A g \in Groups : \A p \in knows[g] : p[1] \in Clients /\ p[2] \in Clients
  BY HeadOfStep
<1>2. \A x \in Clients, g \in Groups :
          IF x = t.c /\ g = t.g /\ t.step \in SecondSteps
          THEN members'[g][x] > 0 <=> t.step = "push.lpushGroup"
          ELSE members'[g][x] > 0 <=> members[g][x] > 0
  BY DEF PresenceStep
<1>3. \A g \in Groups :
          knows'[g] = IF g = t.g /\ t.step = "remove.lremGroup" THEN Untold(t.c, g)
                      ELSE IF g = t.g /\ t.step = "notify.lrange" THEN Heard(t, s)
                      ELSE knows[g]
  BY DEF PresenceStep
<1> HIDE DEF t
<1>4. ASSUME NEW g \in Groups, NEW p \in knows'[g]
      PROVE  p[1] # p[2] /\ p[1] \in online /\ home[p[1]] = home[p[2]] /\ members'[g][p[1]] > 0
  <2>1. CASE p \in knows[g]
    <3>1. /\ p[1] # p[2] /\ p[1] \in online /\ home[p[1]] = home[p[2]] /\ members[g][p[1]] > 0
          /\ p[1] \in Clients
      BY <1>1, <2>1 DEF KnowersIn
    <3>2. ~(p[1] = t.c /\ g = t.g /\ t.step = "remove.lremGroup")
      BY <1>3, <1>4 DEF Untold
    <3> QED  BY <1>2, <3>1, <3>2 DEF SecondSteps
  <2>2. CASE p \notin knows[g]
    <3>1. g = t.g /\ t.step = "notify.lrange" /\ p \in Told(t, s) \X {t.c}
      BY <1>3, <1>4, <2>2 DEF Untold, Heard
    <3>2. /\ p[2] = t.c /\ p[1] # t.c /\ p[1] \in Clients
          /\ members[g][p[1]] > 0 /\ p[1] \in online /\ home[p[1]] = s
      BY <3>1 DEF Told, Reached, Audience, MembersOf
    <3> QED  BY <1>1, <1>2, <3>1, <3>2 DEF SecondSteps
  <2> QED  BY <2>1, <2>2
<1> QED  BY <1>1, <1>4 DEF KnowersIn

LEMMA KnownInServer ==
    ASSUME UndeletedInv, NEW s \in Servers, IdsAfter(s), NEW f, PresenceStep(s, f),
           ChainsFit, NewsTrue, KnowersIn, KnownIn
    PROVE  KnownIn'
<1> DEFINE t == Head(pipe[s])
<1>1. /\ t.c \in Clients /\ home[t.c] = s /\ home' = home /\ online' = online
      /\ Fitting(t) /\ 1 \in DOMAIN pipe[s] /\ pipe[s][1] = t
      /\ t.step = "remove.lremGroup" => t.job \in {"leave", "close"}
      /\ \A g \in Groups : \A p \in knows[g] : p[1] \in Clients /\ p[2] \in Clients
      /\ \A c \in Clients : pipe[home[c]] \in Seq(Tasks)
  BY HeadOfStep
<1>t. TypeOK
  BY HeadOfStep
<1>2. \A x \in Clients, g \in Groups :
          IF x = t.c /\ g = t.g /\ t.step \in SecondSteps
          THEN members'[g][x] > 0 <=> t.step = "push.lpushGroup"
          ELSE members'[g][x] > 0 <=> members[g][x] > 0
  BY DEF PresenceStep
<1>3. \A g \in Groups :
          knows'[g] = IF g = t.g /\ t.step = "remove.lremGroup" THEN Untold(t.c, g)
                      ELSE IF g = t.g /\ t.step = "notify.lrange" THEN Heard(t, s)
                      ELSE knows[g]
  BY DEF PresenceStep
(* The news of a leave that is not the one that runs stays under way. *)
<1>4. ASSUME NEW c \in Clients, NEW g \in Groups, NEW i \in DOMAIN pipe[home[c]],
             News(pipe[home[c]][i], c, g), pipe[home[c]][i].job # "join",
             ~(home[c] = s /\ i = 1)
      PROVE  Farewell(c, g)'
  <2>1. PICK j \in DOMAIN pipe'[home[c]] : pipe'[home[c]][j] = pipe[home[c]][i]
    BY <1>1, <1>4, NewsOfStep
  <2> QED  BY <1>1, <1>4, <2>1 DEF Farewell, News
<1>5. ASSUME NEW c \in Clients, c = t.c, NEW g \in Groups, t.g = g,
             t.step = "remove.lremGroup"
      PROVE  Farewell(c, g)'
  <2>1. Announces(t, c, g) /\ t.job # "join"
    BY <1>1, <1>5 DEF Announces, SecondSteps
  <2>2. PICK i \in DOMAIN pipe'[home[c]] : /\ News(pipe'[home[c]][i], c, g)
                                           /\ pipe'[home[c]][i].job = t.job
    BY <1>1, <2>1, NewsAnnounced
  <2> QED  BY <1>1, <2>1, <2>2 DEF Farewell, News
<1> HIDE DEF t
<1>6. ASSUME NEW g \in Groups, NEW p \in knows'[g]
      PROVE  members'[g][p[2]] > 0 \/ Farewell(p[2], g)'
  <2>1. CASE p \in knows[g] /\ members[g][p[2]] > 0
    <3>1. CASE p[2] = t.c /\ g = t.g /\ t.step = "remove.lremGroup"
      BY <1>1, <1>5, <2>1, <3>1
    <3>2. CASE ~(p[2] = t.c /\ g = t.g /\ t.step = "remove.lremGroup")
      BY <1>1, <1>2, <2>1, <3>2 DEF SecondSteps
    <3> QED  BY <3>1, <3>2
  <2>2. CASE p \in knows[g] /\ ~(members[g][p[2]] > 0)
    <3>0. p \in Clients \X Clients
      BY <1>t, <2>2 DEF TypeOK
    <3>1. Farewell(p[2], g) /\ p[1] \in Clients /\ p[2] \in Clients
      BY <1>1, <2>2 DEF KnownIn
    <3>2. PICK i \in DOMAIN pipe[home[p[2]]] :
             News(pipe[home[p[2]]][i], p[2], g) /\ pipe[home[p[2]]][i].job # "join"
      BY <3>1 DEF Farewell
    <3>3. ~(home[p[2]] = s /\ i = 1)
      <4> SUFFICES ASSUME home[p[2]] = s, i = 1 PROVE FALSE
        OBVIOUS
      <4>1. News(t, p[2], g) /\ t.job # "join"
        BY <1>1, <3>2
      <4>2. g = t.g /\ t.step = "notify.lrange" /\ p[2] = t.c /\ t.job \in {"leave", "close"}
        BY <4>1 DEF News
      <4>3. p[1] \in Told(t, s)
        <5>1. p[1] # p[2] /\ p[1] \in online /\ home[p[1]] = s /\ members[g][p[1]] > 0
          BY <2>2 DEF KnowersIn
        <5> QED  BY <3>1, <4>2, <5>1 DEF Told, Reached, Audience, MembersOf
      <4>4. p \notin Told(t, s) \X {t.c}
        BY <1>3, <1>6, <4>2 DEF Heard
      <4>5. p = <<p[1], p[2]>>
        BY <3>0
      <4> QED  BY <4>2, <4>3, <4>4, <4>5
    <3> QED  BY <1>4, <3>1, <3>2, <3>3
  <2>3. CASE p \notin knows[g]
    <3>1. /\ g = t.g /\ t.step = "notify.lrange" /\ p \in Told(t, s) \X {t.c}
          /\ t.job = "join"
      BY <1>3, <1>6, <2>3 DEF Untold, Heard
    <3>2. p[2] = t.c /\ News(t, t.c, g)
      BY <3>1 DEF News
    <3>3. PICK j \in DOMAIN pipe[home[t.c]] : LastNews(pipe[home[t.c]], j, t.c, g)
      BY <1>1, <3>2, LastNewsExists
    <3>4. CASE pipe[home[t.c]][j].job = "join"
      <4>1. members[g][t.c] > 0
        BY <1>1, <3>3, <3>4 DEF NewsTrue
      <4> QED  BY <1>1, <1>2, <3>1, <3>2, <4>1 DEF SecondSteps
    <3>5. CASE pipe[home[t.c]][j].job # "join"
      <4>1. ~(home[t.c] = s /\ j = 1)
        BY <1>1, <3>1, <3>5
      <4>2. \A c \in Clients : c = t.c => Farewell(c, g)'
        BY <1>1, <1>4, <3>3, <3>5, <4>1 DEF LastNews
      <4> QED  BY <1>1, <3>2, <4>2
    <3> QED  BY <3>4, <3>5
  <2> QED  BY <2>1, <2>2, <2>3
<1> QED  BY <1>6 DEF KnownIn

LEMMA MetServer ==
    ASSUME UndeletedInv, NEW s \in Servers, IdsAfter(s), NEW f, PresenceStep(s, f),
           ChainsFit, Founded, NewsTrue, Met
    PROVE  Met'
<1> DEFINE t == Head(pipe[s])
<1>1. /\ t.c \in Clients /\ home[t.c] = s /\ home' = home /\ online' = online
      /\ Fitting(t) /\ 1 \in DOMAIN pipe[s] /\ pipe[s][1] = t
      /\ t.step = "push.lpushGroup" => t.job \in {"create", "join"}
      /\ \A c \in Clients : pipe[home[c]] \in Seq(Tasks)
  BY HeadOfStep
<1>2. \A x \in Clients, g \in Groups :
          IF x = t.c /\ g = t.g /\ t.step \in SecondSteps
          THEN members'[g][x] > 0 <=> t.step = "push.lpushGroup"
          ELSE members'[g][x] > 0 <=> members[g][x] > 0
  BY DEF PresenceStep
<1>3. \A g \in Groups :
          knows'[g] = IF g = t.g /\ t.step = "remove.lremGroup" THEN Untold(t.c, g)
                      ELSE IF g = t.g /\ t.step = "notify.lrange" THEN Heard(t, s)
                      ELSE knows[g]
  BY DEF PresenceStep
(* The news of a join that is not the one that runs stays under way. *)
<1>4. ASSUME NEW c \in Clients, NEW g \in Groups, NEW i \in DOMAIN pipe[home[c]],
             News(pipe[home[c]][i], c, g), pipe[home[c]][i].job = "join",
             ~(home[c] = s /\ i = 1)
      PROVE  Welcome(c, g)'
  <2>1. PICK j \in DOMAIN pipe'[home[c]] : pipe'[home[c]][j] = pipe[home[c]][i]
    BY <1>1, <1>4, NewsOfStep
  <2> QED  BY <1>1, <1>4, <2>1 DEF Welcome, News
(* The second write of a join announces it. *)
<1>5. ASSUME NEW c \in Clients, c = t.c, NEW g \in Groups, t.g = g,
             t.step = "push.lpushGroup", t.job # "create"
      PROVE  Welcome(c, g)'
  <2>1. Announces(t, c, g) /\ t.job = "join"
    BY <1>1, <1>5 DEF Announces, SecondSteps
  <2>2. PICK i \in DOMAIN pipe'[home[c]] : /\ News(pipe'[home[c]][i], c, g)
                                           /\ pipe'[home[c]][i].job = t.job
    BY <1>1, <2>1, NewsAnnounced
  <2> QED  BY <1>1, <2>1, <2>2 DEF Welcome, News
(* The founder is alone. *)
<1>6. ASSUME NEW c \in Clients, NEW g \in Groups, t.g = g, c # t.c,
             t.step = "push.lpushGroup", t.job = "create"
      PROVE  ~(members'[g][c] > 0)
  <2>1. Founding(s, 1)
    BY <1>1, <1>6 DEF Founded
  <2>2. ~(members[g][c] > 0)
    BY <1>1, <1>6, <2>1 DEF Founding
  <2> QED  BY <1>2, <1>6, <2>2
<1> HIDE DEF t
(* A pair that knew each other still does, or one of them has come anew. *)
<1>7. ASSUME NEW g \in Groups, NEW a \in Clients, NEW b \in Clients, <<a, b>> \in knows[g],
             members[g][b] > 0, ~(g = t.g /\ t.step = "remove.lremGroup" /\ a = t.c)
      PROVE  <<a, b>> \in knows'[g] \/ Welcome(b, g)'
  <2>1. CASE g = t.g /\ t.step = "notify.lrange" /\ b = t.c /\ t.job \in {"leave", "close"}
    <3>1. News(t, b, g) /\ home[b] = s
      BY <1>1, <2>1 DEF News
    <3>2. PICK j \in DOMAIN pipe[home[b]] : LastNews(pipe[home[b]], j, b, g)
      BY <1>1, <3>1, LastNewsExists
    <3>3. pipe[home[b]][j].job = "join"
      BY <1>7, <3>2 DEF NewsTrue
    <3>4. ~(home[b] = s /\ j = 1)
      BY <1>1, <2>1, <3>3
    <3> QED  BY <1>4, <3>2, <3>3, <3>4 DEF LastNews
  <2>2. CASE g = t.g /\ t.step = "notify.lrange" /\ ~(b = t.c /\ t.job \in {"leave", "close"})
    BY <1>3, <1>7, <2>2 DEF Heard
  <2>3. CASE g = t.g /\ t.step = "remove.lremGroup"
    BY <1>3, <1>7, <2>3 DEF Untold
  <2>4. CASE ~(g = t.g /\ t.step \in {"notify.lrange", "remove.lremGroup"})
    BY <1>3, <1>7, <2>4
  <2> QED  BY <2>1, <2>2, <2>3, <2>4
(* Who is welcomed is known to the members there, once the notice runs. *)
<1>8. ASSUME NEW g \in Groups, NEW a \in Clients, NEW b \in Clients, Welcome(b, g),
             a # b, a \in online, home[a] = home[b], members[g][a] > 0
      PROVE  <<a, b>> \in knows'[g] \/ Welcome(b, g)'
  <2>1. PICK i \in DOMAIN pipe[home[b]] :
           News(pipe[home[b]][i], b, g) /\ pipe[home[b]][i].job = "join"
    BY <1>8 DEF Welcome
  <2>2. CASE ~(home[b] = s /\ i = 1)
    BY <1>4, <2>1, <2>2
  <2>3. CASE home[b] = s /\ i = 1
    <3>1. t.step = "notify.lrange" /\ t.c = b /\ t.g = g /\ t.job = "join"
      BY <1>1, <2>1, <2>3 DEF News
    <3>2. a \in Told(t, s)
      BY <1>8, <2>3, <3>1 DEF Told, Reached, Audience, MembersOf
    <3>3. knows'[g] = Heard(t, s)
      BY <1>3, <3>1
    <3>4. Heard(t, s) = knows[g] \cup (Told(t, s) \X {b})
      BY <3>1 DEF Heard
    <3> QED  BY <3>2, <3>3, <3>4
  <2> QED  BY <2>2, <2>3
<1>9. ASSUME NEW g \in Groups, NEW x \in Clients, NEW y \in Clients,
             x # y, x \in online, y \in online, home[x] = home[y],
             members'[g][x] > 0, members'[g][y] > 0
      PROVE  <<x, y>> \in knows'[g] \/ <<y, x>> \in knows'[g] \/ Welcome(x, g)' \/ Welcome(y, g)'
  <2>1. CASE g = t.g /\ t.step \in SecondSteps /\ t.c \in {x, y}
    <3>1. t.step = "push.lpushGroup"
      BY <1>2, <1>9, <2>1
    <3>2. t.job # "create"
      BY <1>6, <1>9, <2>1, <3>1
    <3> QED  BY <1>5, <2>1, <3>1, <3>2
  <2>2. CASE ~(g = t.g /\ t.step \in SecondSteps /\ t.c \in {x, y})
    <3>1. members[g][x] > 0 /\ members[g][y] > 0
      BY <1>2, <1>9, <2>2
    <3>2. <<x, y>> \in knows[g] \/ <<y, x>> \in knows[g] \/ Welcome(x, g) \/ Welcome(y, g)
      BY <1>9, <3>1 DEF Met
    <3>3. /\ ~(g = t.g /\ t.step = "remove.lremGroup" /\ x = t.c)
          /\ ~(g = t.g /\ t.step = "remove.lremGroup" /\ y = t.c)
      BY <2>2 DEF SecondSteps
    <3>4. CASE <<x, y>> \in knows[g]
      BY <1>7, <3>1, <3>3, <3>4
    <3>5. CASE <<y, x>> \in knows[g]
      BY <1>7, <3>1, <3>3, <3>5
    <3>6. CASE Welcome(x, g)
      BY <1>8, <1>9, <3>1, <3>6
    <3>7. CASE Welcome(y, g)
      BY <1>8, <1>9, <3>1, <3>7
    <3> QED  BY <3>2, <3>4, <3>5, <3>6, <3>7
  <2> QED  BY <2>1, <2>2
<1> QED  BY <1>1, <1>9 DEF Met

LEMMA ChainsFitServer ==
    ASSUME UndeletedInv, NEW s \in Servers, IdsAfter(s), NEW f, PresenceStep(s, f), ChainsFit
    PROVE  ChainsFit'
<1>1. /\ TypeOK /\ pipe[s] # <<>> /\ f \in Seq(Tasks) /\ Reply(s, f)
      /\ \A k \in DOMAIN f : Fitting(f[k])
  BY DEF UndeletedInv, IdsAfter, PresenceStep, ChainOn, Continues
<1>2. \A r \in Servers : \A j \in DOMAIN pipe'[r] : Stems(s, f, r, j, 1)
  BY <1>1, PlacesAfterReply
<1>3. ASSUME NEW r \in Servers, NEW j \in DOMAIN pipe'[r] PROVE Fitting(pipe'[r][j])
  BY <1>1, <1>2, <1>3 DEF Stems, ChainsFit
<1> QED  BY <1>3 DEF ChainsFit, Fitting

(* Where the commands are after a step, with their places. *)
MovedUp(s, r, j) == /\ Before(s, r, j, 1) \in DOMAIN pipe[r]
                    /\ ~(r = s /\ Before(s, r, j, 1) = 1)
                    /\ r = s => j < Len(pipe[s])
                    /\ pipe'[r][j] = pipe[r][Before(s, r, j, 1)]

Appended(s, f, r, j) == /\ r = s /\ j >= Len(pipe[s])
                        /\ j - Len(pipe[s]) + 1 \in DOMAIN f
                        /\ pipe'[r][j] = f[j - Len(pipe[s]) + 1]

LEMMA PositionsAfterReply ==
    ASSUME TypeOK, NEW s \in Servers, pipe[s] # <<>>, NEW f \in Seq(Tasks), Reply(s, f)
    PROVE  \A r \in Servers : \A j \in DOMAIN pipe'[r] :
              j \in Nat /\ (MovedUp(s, r, j) \/ Appended(s, f, r, j))
<1>1. pipe'[s] = Tail(pipe[s]) \o f /\ (\A r \in Servers \ {s} : pipe'[r] = pipe[r])
      /\ pipe \in [Servers -> Seq(Tasks)]
  BY ReplyType DEF TypeOK
<1> DEFINE q == pipe[s]
           n == Len(q)
           r2 == pipe'[s]
<1>2. /\ DOMAIN q = 1..n /\ n \in Nat \ {0} /\ DOMAIN f = 1..Len(f) /\ Len(f) \in Nat
      /\ DOMAIN r2 = 1..(n - 1 + Len(f))
      /\ \A i \in DOMAIN r2 : r2[i] = IF i < n THEN q[i + 1] ELSE f[i - n + 1]
  BY <1>1, StepElements, LenProperties, EmptySeq
<1>3. \A r \in Servers : \A j \in DOMAIN pipe'[r] : j \in Nat
  BY PlacesAfterReply
<1>4. ASSUME NEW r \in Servers, r # s, NEW j \in DOMAIN pipe'[r] PROVE MovedUp(s, r, j)
  BY <1>1, <1>4 DEF MovedUp, Before
<1> HIDE DEF n, q, r2
<1>5. ASSUME NEW j \in DOMAIN r2
      PROVE  IF j < n THEN j + 1 \in DOMAIN q /\ j + 1 # 1 /\ r2[j] = q[j + 1]
             ELSE j >= n /\ j - n + 1 \in DOMAIN f /\ r2[j] = f[j - n + 1]
  BY <1>2, <1>5
<1>6. ASSUME NEW j \in DOMAIN pipe'[s] PROVE MovedUp(s, s, j) \/ Appended(s, f, s, j)
  BY <1>5, <1>6 DEF MovedUp, Appended, Before, n, q, r2
<1> QED  BY <1>3, <1>4, <1>6

LEMMA FoundedServer ==
    ASSUME UndeletedInv, NEW s \in Servers, IdsAfter(s), NEW f, PresenceStep(s, f),
           ChainsFit, Founded
    PROVE  Founded'
<1> DEFINE t == Head(pipe[s])
           n == Len(pipe[s])
<1>1. /\ TypeOK /\ Fitting(t) /\ 1 \in DOMAIN pipe[s] /\ pipe[s][1] = t /\ pipe[s] # <<>>
      /\ t.c \in Clients /\ home[t.c] = s
  BY HeadOfStep DEF IdsAfter
<1>2. /\ f \in Seq(Tasks) /\ Reply(s, f) /\ \A k \in DOMAIN f : Continues(t, f[k])
      /\ t.job = "create" => Len(f) <= 1
      /\ (t.job = "create" /\ t.step = "push.lpushGroup") => f = <<>>
      /\ known' \subseteq known \cup {t.g}
      /\ t.step # "push.lpushGroup" => known' = known
  BY DEF PresenceStep, ChainOn
<1>3. \A x \in Clients, g \in Groups :
          groupsOf'[x][g] > 0
              => groupsOf[x][g] > 0 \/ (x = t.c /\ g = t.g /\ t.step = "push.lpushClient")
  BY DEF PresenceStep
<1>4. \A x \in Clients, g \in Groups :
          IF x = t.c /\ g = t.g /\ t.step \in SecondSteps
          THEN members'[g][x] > 0 <=> t.step = "push.lpushGroup"
          ELSE members'[g][x] > 0 <=> members[g][x] > 0
  BY DEF PresenceStep
<1>5. \A r \in Servers : \A j \in DOMAIN pipe'[r] :
         j \in Nat /\ (MovedUp(s, r, j) \/ Appended(s, f, r, j))
  BY <1>1, <1>2, PositionsAfterReply
<1>6. n \in Nat \ {0}
  BY <1>1, EmptySeq, LenProperties DEF TypeOK
<1>7. \A r \in Servers : \A j \in DOMAIN pipe[r] :
          /\ pipe[r][j] \in Tasks /\ Fitting(pipe[r][j]) /\ home[pipe[r][j].c] = r
          /\ j \in Nat /\ j >= 1
  <2> SUFFICES ASSUME NEW r \in Servers, NEW j \in DOMAIN pipe[r]
               PROVE  /\ pipe[r][j] \in Tasks /\ Fitting(pipe[r][j]) /\ home[pipe[r][j].c] = r
                      /\ j \in Nat /\ j >= 1
    OBVIOUS
  <2>1. pipe[r] \in Seq(Tasks) /\ DOMAIN pipe[r] = 1..Len(pipe[r]) /\ Len(pipe[r]) \in Nat
    BY <1>1, LenProperties DEF TypeOK
  <2>2. pipe[r][j] \in Tasks
    BY <2>1, ElementOfSeq
  <2> QED  BY <2>1, <2>2 DEF ChainsFit, UndeletedInv, ChainsInOrder, InOrder
<1>8. ASSUME NEW u \in Tasks, Fitting(u), u.job = "create"
      PROVE  u.g \in Groups /\ u.step # "close.lrange"
  BY <1>8 DEF Fitting, PushSteps, Tasks
<1> HIDE DEF t, n
(* A create that is not at the head of s: the step was of another group. *)
<1>9. ASSUME NEW r \in Servers, NEW j \in DOMAIN pipe'[r], MovedUp(s, r, j),
             pipe'[r][j].job = "create"
      PROVE  Founding(r, j)'
  <2> DEFINE v == pipe'[r][j]
             i == Before(s, r, j, 1)
  <2>1. /\ i \in DOMAIN pipe[r] /\ ~(r = s /\ i = 1) /\ v = pipe[r][i]
        /\ r = s => j < n
    BY <1>9 DEF MovedUp, n
  <2>2. i = IF r = s THEN j + 1 ELSE j
    BY DEF Before
  <2>3. Founding(r, i)
    BY <1>9, <2>1 DEF Founded
  <2> HIDE DEF v, i
  <2>4. v.g \in Groups /\ v \in Tasks /\ Fitting(v) /\ home[v.c] = r
    BY <1>7, <1>8, <1>9, <2>1 DEF v
  <2>5. /\ v.g \notin known
        /\ \A x \in Clients : /\ ~(members[v.g][x] > 0)
                              /\ groupsOf[x][v.g] > 0 => x = v.c /\ v.step = "push.lpushGroup"
        /\ \A r2 \in Servers : \A k \in DOMAIN pipe[r2] :
              pipe[r2][k].g = v.g =>
                 \/ r2 = r /\ k = i
                 \/ r2 = r /\ k > i /\ v.step = "push.lpushGroup" /\ pipe[r2][k].step = "get.hget"
    BY <2>1, <2>3 DEF Founding
  <2>6. t.g # v.g
    BY <1>1, <1>7, <2>1, <2>5
  <2>7. /\ v.g \notin known'
        /\ \A x \in Clients : /\ ~(members'[v.g][x] > 0)
                              /\ groupsOf'[x][v.g] > 0 => x = v.c /\ v.step = "push.lpushGroup"
    BY <1>2, <1>3, <1>4, <2>4, <2>5, <2>6
  <2>8. ASSUME NEW r2 \in Servers, NEW k \in DOMAIN pipe'[r2], pipe'[r2][k].g = v.g
        PROVE  \/ r2 = r /\ k = j
               \/ /\ r2 = r /\ k > j
                  /\ v.step = "push.lpushGroup" /\ pipe'[r2][k].step = "get.hget"
    <3>1. CASE MovedUp(s, r2, k)
      <4> DEFINE l == Before(s, r2, k, 1)
      <4>1. l \in DOMAIN pipe[r2] /\ pipe'[r2][k] = pipe[r2][l]
        BY <3>1 DEF MovedUp
      <4>2. l = IF r2 = s THEN k + 1 ELSE k
        BY DEF Before
      <4> HIDE DEF l
      <4>3. \/ r2 = r /\ l = i
            \/ r2 = r /\ l > i /\ v.step = "push.lpushGroup" /\ pipe'[r2][k].step = "get.hget"
        BY <2>5, <2>8, <4>1
      <4>4. k \in Nat /\ j \in Nat
        BY <1>5
      <4> QED  BY <2>2, <4>2, <4>3, <4>4
    <3>2. CASE Appended(s, f, r2, k)
      <4>1. r2 = s /\ k >= n /\ Continues(t, pipe'[r2][k])
        BY <1>2, <3>2 DEF Appended, n
      <4>2. pipe'[r2][k].step = "get.hget" /\ groupsOf[t.c][v.g] > 0
        BY <2>6, <2>8, <4>1 DEF Continues
      <4>3. t.c = v.c /\ v.step = "push.lpushGroup"
        BY <1>1, <2>5, <4>2
      <4>4. r = s /\ j < n
        BY <1>1, <2>1, <2>4, <4>3
      <4>5. k \in Nat /\ j \in Nat
        BY <1>5
      <4> QED  BY <1>6, <4>1, <4>2, <4>3, <4>4, <4>5
    <3> QED  BY <1>5, <3>1, <3>2
  <2> QED  BY <2>7, <2>8 DEF Founding, v
(* The create whose step it was. *)
<1>10. ASSUME NEW r \in Servers, NEW j \in DOMAIN pipe'[r], Appended(s, f, r, j),
              pipe'[r][j].job = "create"
       PROVE  Founding(r, j)'
  <2> DEFINE v == pipe'[r][j]
  <2>1. /\ r = s /\ j >= n /\ j - n + 1 \in DOMAIN f /\ v = f[j - n + 1]
    BY <1>10 DEF Appended, n
  <2>2. Continues(t, v) /\ v \in Tasks
    BY <1>2, <2>1 DEF Continues
  <2> HIDE DEF v
  <2>3. /\ t.job = "create" /\ v.c = t.c /\ v.g = t.g /\ t.step # "close.lrange"
        /\ v.step = "push.lpushGroup" <=> t.step = "push.lpushClient"
    BY <1>1, <1>10, <2>2 DEF Continues, Fitting, PushSteps, v
  <2>4. t.step # "push.lpushGroup" /\ t.step \notin SecondSteps
    <3>1. f # <<>>
      BY <2>1
    <3> QED  BY <1>1, <1>2, <2>3, <3>1 DEF SecondSteps, Fitting, PushSteps
  <2>5. v.g \in Groups
    BY <1>10, <2>2, <1>8 DEF Continues, v
  <2>6. /\ v.g \notin known
        /\ \A x \in Clients : ~(members[v.g][x] > 0) /\ ~(groupsOf[x][v.g] > 0)
        /\ \A r2 \in Servers : \A k \in DOMAIN pipe[r2] :
              pipe[r2][k].g = v.g => r2 = s /\ k = 1
    <3>1. Founding(s, 1)
      BY <1>1, <2>3 DEF Founded
    <3> QED  BY <1>1, <2>3, <2>4, <3>1 DEF Founding
  <2>7. /\ v.g \notin known'
        /\ \A x \in Clients : /\ ~(members'[v.g][x] > 0)
                              /\ groupsOf'[x][v.g] > 0 => x = v.c /\ v.step = "push.lpushGroup"
    BY <1>2, <1>3, <1>4, <2>3, <2>4, <2>5, <2>6
  <2>8. ASSUME NEW r2 \in Servers, NEW k \in DOMAIN pipe'[r2], pipe'[r2][k].g = v.g
        PROVE  r2 = r /\ k = j
    <3>1. ~MovedUp(s, r2, k)
      BY <2>6, <2>8 DEF MovedUp
    <3>2. r2 = s /\ k >= n /\ k - n + 1 \in DOMAIN f
      BY <1>5, <3>1 DEF Appended, n
    <3>3. DOMAIN f = 1..Len(f) /\ Len(f) \in Nat /\ Len(f) <= 1
      BY <1>2, <2>3, LenProperties
    <3>4. k \in Nat /\ j \in Nat
      BY <1>5
    <3> QED  BY <1>6, <2>1, <3>2, <3>3, <3>4
  <2> QED  BY <2>7, <2>8 DEF Founding, v
<1> QED  BY <1>5, <1>9, <1>10 DEF Founded

-------------------------------------------------------------------------------
(* A request keeps the presence: it queues a command that is no news, and   *)
(* who disconnects forgets the others.                                      *)

LEMMA OnlineAfterRequest ==
    ASSUME TypeOK, NEW c \in Clients, ClientStep(c)
    PROVE  \/ online' = online /\ knows' = knows
           \/ /\ online' = online \ {c}
              /\ \A g \in Groups : knows'[g] = {p \in knows[g] : p[1] # c}
<1>1. CASE Close(c)
  BY <1>1 DEF Close
<1>2. CASE ~Close(c)
  BY <1>2 DEF ClientStep, CreateGroup, DeleteGroup, JoinGroup, LeaveGroup, BroadcastGroup, Request
<1> QED  BY <1>1, <1>2

LEMMA PresenceClient ==
    ASSUME "delete" \notin Ops, Grounded, UndeletedInv, Presence,
           NEW c \in Clients, ClientStep(c)
    PROVE  Presence'
<1> DEFINE s == home[c]
<1>1. TypeOK /\ s \in Servers /\ ChainsRightful /\ FreshUnused
  BY DEF Grounded, TypeOK
<1>2. /\ home' = home /\ known' = known /\ groupsOf' = groupsOf /\ members' = members
  BY <1>1, RequestDoes
<1>3. PICK u \in Tasks :
         /\ Issue(s, <<u>>) /\ u.c = c /\ Fitting(u)
         /\ u.step \in {"create.hset", "get.hget", "client.hget", "close.lrange"}
         /\ IF u.step = "create.hset"
            THEN u.g \in Groups \ minted ELSE u.g \in known \cup {None}
  BY <1>1, RequestDoes
<1>4. /\ \A r \in Servers : \A j \in DOMAIN pipe'[r] :
            \/ j \in DOMAIN pipe[r] /\ pipe'[r][j] = pipe[r][j]
            \/ r = s /\ j = Len(pipe[s]) + 1 /\ pipe'[r][j] = u
      /\ \A r \in Servers : \A j \in DOMAIN pipe[r] :
            j \in DOMAIN pipe'[r] /\ pipe'[r][j] = pipe[r][j]
  BY <1>1, <1>3, PlacesAfterIssue
<1>5. /\ \A g \in Groups : knows'[g] \subseteq knows[g]
      /\ \A g \in Groups : \A p \in knows[g] : p[1] \in online' => p \in knows'[g]
      /\ \A g \in Groups : \A p \in knows'[g] : p[1] \in online => p[1] \in online'
      /\ online' \subseteq online
  BY <1>1, OnlineAfterRequest
<1>6. <<u>> \in Seq(Tasks) /\ \A r \in Servers : pipe[r] \in Seq(Tasks)
  BY <1>1 DEF TypeOK
<1>7. pipe'[s] = pipe[s] \o <<u>> /\ \A r \in Servers \ {s} : pipe'[r] = pipe[r]
  BY <1>1, <1>3, <1>6, IssueType
<1>8. \A x \in Clients : home[x] \in Servers
  BY <1>1 DEF TypeOK
<1>n. \A x, g : ~News(u, x, g)
  BY <1>3 DEF News
<1> HIDE DEF s
<1>9. ASSUME NEW r \in Servers, NEW j \in DOMAIN pipe[r]
      PROVE  pipe[r][j] \in Tasks /\ pipe[r][j].g \in minted \cup {None}
  BY <1>1, <1>6, <1>9, ElementOfSeq DEF ChainsRightful, Rightful
(* The chains fit. *)
<1>10. ChainsFit'
  <2>1. ASSUME NEW r \in Servers, NEW j \in DOMAIN pipe'[r] PROVE Fitting(pipe'[r][j])
    BY <1>3, <1>4, <2>1 DEF Presence, ChainsFit
  <2> QED  BY <2>1 DEF ChainsFit, Fitting
(* No news is queued. *)
<1>11. NewsTrue'
  <2>1. ASSUME NEW x \in Clients, NEW g \in Groups, NEW i \in DOMAIN pipe'[home[x]],
               LastNews(pipe'[home[x]], i, x, g)
        PROVE  members[g][x] > 0 <=> pipe'[home[x]][i].job = "join"
    <3>1. CASE home[x] # s
      <4>1. pipe'[home[x]] = pipe[home[x]]
        BY <1>7, <1>8, <3>1
      <4> QED  BY <2>1, <4>1 DEF Presence, NewsTrue
    <3>2. CASE home[x] = s
      <4> DEFINE q == pipe[s]
      <4>1. q \in Seq(Tasks) /\ pipe'[home[x]] = q \o <<u>>
        BY <1>6, <1>7, <1>8, <3>2
      <4> HIDE DEF q
      <4>2. i \in DOMAIN q /\ LastNews(q, i, x, g) /\ (q \o <<u>>)[i] = q[i]
        BY <1>n, <2>1, <4>1, LastNewsBefore, SMTT(20)
      <4>3. members[g][x] > 0 <=> q[i].job = "join"
        BY <3>2, <4>2 DEF Presence, NewsTrue, q
      <4> QED  BY <4>1, <4>2, <4>3
    <3> QED  BY <3>1, <3>2
  <2> QED  BY <1>2, <2>1 DEF NewsTrue, LastNews, News
<1>12. KnowersIn'
  BY <1>2, <1>5 DEF KnowersIn, Presence
(* News under way stays under way. *)
<1>13. ASSUME NEW x \in Clients, NEW g \in Groups
       PROVE  /\ Farewell(x, g) => Farewell(x, g)'
              /\ Welcome(x, g) => Welcome(x, g)'
  BY <1>2, <1>4, <1>8 DEF Farewell, Welcome, News
<1>14. KnownIn'
  <2>1. \A g \in Groups : \A p \in knows[g] : p[2] \in Clients
    BY <1>1 DEF TypeOK
  <2> QED  BY <1>2, <1>5, <1>13, <2>1 DEF KnownIn, Presence
<1>15. Met'
  <2>1. ASSUME NEW g \in Groups, NEW x \in Clients, NEW y \in Clients,
               x # y, x \in online', y \in online', home[x] = home[y],
               members[g][x] > 0, members[g][y] > 0
        PROVE  <<x, y>> \in knows'[g] \/ <<y, x>> \in knows'[g] \/ Welcome(x, g)' \/ Welcome(y, g)'
    <3>1. <<x, y>> \in knows[g] \/ <<y, x>> \in knows[g] \/ Welcome(x, g) \/ Welcome(y, g)
      BY <1>5, <2>1 DEF Presence, Met
    <3>2. <<x, y>>[1] = x /\ <<y, x>>[1] = y
      OBVIOUS
    <3> QED  BY <1>5, <1>13, <2>1, <3>1, <3>2
  <2> QED  BY <1>2, <2>1 DEF Met
(* A new group is nobody's, and no request is for one that is being founded. *)
<1>16. ASSUME NEW r \in Servers, NEW j \in DOMAIN pipe'[r], pipe'[r][j].job = "create"
       PROVE  Founding(r, j)'
  <2> DEFINE v == pipe'[r][j]
  <2>1. CASE j \in DOMAIN pipe[r] /\ v = pipe[r][j]
    <3>1. Founding(r, j)
      BY <1>16, <2>1 DEF Presence, Founded
    <3>2. v \in Tasks /\ Fitting(v) /\ v.g \in minted \cup {None}
      BY <1>9, <2>1 DEF Presence, ChainsFit
    <3>3. v.g \in Groups /\ v.g # None
      BY <1>16, <3>2 DEF Fitting, PushSteps, Tasks
    <3>4. u.g # v.g
      BY <1>3, <2>1, <3>1, <3>2, <3>3 DEF Founding
    <3> HIDE DEF v
    <3>5. /\ v.g \notin known
          /\ \A x \in Clients : /\ ~(members[v.g][x] > 0)
                                /\ groupsOf[x][v.g] > 0 => x = v.c /\ v.step = "push.lpushGroup"
          /\ \A r2 \in Servers : \A k \in DOMAIN pipe[r2] :
                pipe[r2][k].g = v.g =>
                   \/ r2 = r /\ k = j
                   \/ r2 = r /\ k > j /\ v.step = "push.lpushGroup" /\ pipe[r2][k].step = "get.hget"
      BY <2>1, <3>1 DEF Founding
    <3>6. \A r2 \in Servers : \A k \in DOMAIN pipe'[r2] :
             pipe'[r2][k].g = v.g => k \in DOMAIN pipe[r2] /\ pipe'[r2][k] = pipe[r2][k]
      BY <1>4, <3>4
    <3> QED  BY <1>2, <3>5, <3>6 DEF Founding, v
  <2>2. CASE r = s /\ j = Len(pipe[s]) + 1 /\ v = u
    <3>1. u.step = "create.hset" /\ u.g \in Groups \ minted /\ u.g # None
      BY <1>3, <1>16, <2>2, StoreAssumption DEF Fitting, PushSteps
    <3>2. /\ u.g \notin known
          /\ \A x \in Clients : ~(members[u.g][x] > 0) /\ ~(groupsOf[x][u.g] > 0)
      BY <1>1, <3>1 DEF FreshUnused, Fresh
    <3>3. \A r2 \in Servers : \A k \in DOMAIN pipe'[r2] :
             pipe'[r2][k].g = u.g => r2 = r /\ k = j
      BY <1>4, <1>9, <2>2, <3>1
    <3> QED  BY <1>2, <2>2, <3>2, <3>3 DEF Founding
  <2> QED  BY <1>4, <2>1, <2>2
<1>17. Founded'
  BY <1>16 DEF Founded
<1> QED  BY <1>10, <1>11, <1>12, <1>14, <1>15, <1>17 DEF Presence

LEMMA PresenceServer ==
    ASSUME UndeletedInv, Presence, NEW s \in Servers, ServerStep(s)
    PROVE  Presence'
<1>1. TypeOK
  BY DEF UndeletedInv
<1>2. IdsAfter(s)
  BY <1>1, IdsOfStep
<1>3. Fitting(Head(pipe[s]))
  BY <1>1, <1>2, HeadFirst DEF IdsAfter, Presence, ChainsFit
<1>4. PICK f : PresenceStep(s, f)
  BY <1>3, PresenceSteps
<1>5. ChainsFit /\ Founded /\ NewsTrue /\ KnowersIn /\ KnownIn /\ Met
  BY DEF Presence
<1>6. ChainsFit' /\ Founded' /\ NewsTrue' /\ KnowersIn' /\ KnownIn' /\ Met'
  BY <1>2, <1>4, <1>5, ChainsFitServer, FoundedServer, NewsTrueServer, KnowersInServer,
     KnownInServer, MetServer
<1> QED  BY <1>6 DEF Presence

LEMMA PresenceInit == Init => Presence
<1> SUFFICES ASSUME Init PROVE Presence
  OBVIOUS
<1>1. \A s \in Servers : pipe[s] = <<>> /\ DOMAIN pipe[s] = {}
  BY DEF Init
<1>2. \A c \in Clients : home[c] \in Servers
  BY DEF Init
<1>3. ChainsFit /\ Founded
  BY <1>1 DEF ChainsFit, Founded
<1>4. NewsTrue
  BY <1>1, <1>2 DEF NewsTrue
<1>5. KnowersIn /\ KnownIn
  BY DEF KnowersIn, KnownIn, Init
<1>6. Met
  BY DEF Met, Init, EmptyMembers
<1> QED  BY <1>3, <1>4, <1>5, <1>6 DEF Presence

LEMMA PresenceInvariant ==
    ASSUME "delete" \notin Ops
    PROVE  Spec => [](UndeletedInv /\ Presence)
<1>1. Spec => []UndeletedInv
  BY UndeletedInvariant
<1>2. Spec => [](Grounded /\ IntactAgreement)
  BY GroundedInvariant
<1>3. Grounded /\ UndeletedInv /\ Presence /\ [Next]_vars => Presence'
  <2>1. ASSUME Grounded, UndeletedInv, Presence, UNCHANGED vars PROVE Presence'
    BY <2>1 DEF vars, Presence, ChainsFit, Fitting, Founded, Founding, NewsTrue, LastNews, News,
                KnowersIn, KnownIn, Farewell, Met, Welcome
  <2> QED  BY <2>1, PresenceClient, PresenceServer DEF Next
<1> QED  BY <1>1, <1>2, <1>3, PresenceInit, PTL DEF Spec

(* As long as nobody deletes: of two members of a group on one server at    *)
(* least one has been told of the other, unless the notice of one's JOIN is *)
(* still under way, however many JOINs, LEAVEs and disconnects overlap      *)
(* (GroupServer.__joinGroup, __leaveGroup, broadcastToGroup).               *)
THEOREM MembersMeet ==
    ASSUME "delete" \notin Ops
    PROVE  Spec => []PeersIntroduced
<1>1. TypeOK /\ Met => PeersIntroduced
  <2> SUFFICES ASSUME TypeOK, Met, NEW g \in Groups,
                      NEW x \in MembersOf(g) \cap online, NEW y \in MembersOf(g) \cap online,
                      x # y, home[x] = home[y], Announced(x, g), Announced(y, g)
               PROVE  <<x, y>> \in knows[g] \/ <<y, x>> \in knows[g]
    BY DEF PeersIntroduced
  <2>1. ~Welcome(x, g) /\ ~Welcome(y, g)
    BY DEF Welcome, News, Announced
  <2> QED  BY <2>1 DEF Met, MembersOf
<1>2. UndeletedInv /\ Presence => PeersIntroduced
  BY <1>1 DEF UndeletedInv, Presence
<1> QED  BY <1>2, PresenceInvariant, PTL

(* As long as nobody deletes: who believes in a peer whose requests have    *)
(* all come to their end is right; no LEAVE notice misses a member that     *)
(* heard of the JOIN (GroupServer.__leaveGroup, __leaveAllGroups).          *)
THEOREM LeaversForgotten ==
    ASSUME "delete" \notin Ops
    PROVE  Spec => []NoPhantomPeer
<1>1. TypeOK /\ KnownIn => NoPhantomPeer
  <2> SUFFICES ASSUME TypeOK, KnownIn, NEW g \in Groups, NEW p \in knows[g], Pending(p[2]) = {}
               PROVE  members[g][p[2]] > 0
    BY DEF NoPhantomPeer
  <2>1. ~Farewell(p[2], g)
    BY DEF Farewell, News, Pending
  <2> QED  BY <2>1 DEF KnownIn
<1>2. UndeletedInv /\ Presence => NoPhantomPeer
  BY <1>1 DEF UndeletedInv, Presence
<1> QED  BY <1>2, PresenceInvariant, PTL

-------------------------------------------------------------------------------
(* The arithmetic of lib/tools/vector.js, for all vectors and bounds.       *)

(* What "| 0" leaves alone. *)
LEMMA WrapFits ==
    ASSUME NEW n \in Int, -HalfWord <= n, n < HalfWord
    PROVE  Wrap(n) = n
BY WordAssumption DEF Wrap

(* Division by a positive number, as the provers need it. *)
LEMMA Division ==
    ASSUME NEW a \in Int, NEW b \in Int, b > 0
    PROVE  /\ a \div b \in Int
           /\ a % b \in 0..(b - 1)
           /\ a = (b * (a \div b)) + (a % b)
OBVIOUS

LEMMA QuotientUnique ==
    ASSUME NEW a \in Int, NEW b \in Int, b > 0,
           NEW q \in Int, NEW r \in 0..(b - 1), a = (q * b) + r
    PROVE  a \div b = q
OBVIOUS

(* A vector within the bounds of its axes whose layers fit into a word. *)
Fits(v, xMax, yMax) == /\ v.x \in 0..(xMax - 1)
                       /\ v.y \in 0..(yMax - 1)
                       /\ v.z \in Nat
                       /\ xMax < HalfWord /\ yMax < HalfWord
                       /\ (v.z + 1) * (xMax * yMax) <= HalfWord

(* to3D is the inverse of to1D: vector.js:40-44 says that it only works for *)
(* odd bounds, but it does for all, as long as no index leaves the integers *)
(* that "| 0" can hold.                                                     *)
THEOREM IndexRoundTrip ==
    ASSUME NEW x \in Int, NEW y \in Int, NEW z \in Int,
           NEW xMax \in Nat \ {0}, NEW yMax \in Nat \ {0},
           Fits(Vector(x, y, z), xMax, yMax)
    PROVE  To3D(To1D(Vector(x, y, z), xMax, yMax), xMax, yMax) = Vector(x, y, z)
<1> DEFINE layer == xMax * yMax
           rest == (y * xMax) + x
           idx == (z * layer) + rest
<1>1. /\ x \in 0..(xMax - 1) /\ y \in 0..(yMax - 1) /\ z \in Nat
      /\ (z + 1) * layer <= HalfWord
  BY DEF Fits, Vector
<1>2. layer \in Nat /\ layer > 0
  OBVIOUS
<1>3. rest \in 0..(layer - 1)
  <2>1. y * xMax <= (yMax - 1) * xMax /\ y * xMax \in Nat
    BY <1>1
  <2>2. (yMax - 1) * xMax = layer - xMax
    OBVIOUS
  <2> QED  BY <1>1, <1>2, <2>1, <2>2
<1>4. z * layer \in Nat /\ (z + 1) * layer = (z * layer) + layer
  BY <1>1, <1>2
<1>5. z < HalfWord /\ z * layer < HalfWord /\ rest < HalfWord
  <2>1. z <= z * layer
    BY <1>1, <1>2
  <2> QED  BY <1>1, <1>2, <1>3, <1>4, <2>1, WordAssumption
<1>6. To1D(Vector(x, y, z), xMax, yMax) = idx /\ idx \in Nat
  <2>1. z * xMax * yMax = z * layer
    BY <1>1
  <2> QED  BY <1>1, <1>3, <1>4, <2>1 DEF To1D, Vector
<1> HIDE DEF rest, idx, layer
<1>7. IntDiv(idx, layer) = z
  <2>1. idx \div layer = z
    BY <1>1, <1>2, <1>3, <1>6, QuotientUnique DEF idx
  <2> QED  BY <1>1, <1>2, <1>5, <1>6, <2>1, WrapFits, WordAssumption DEF IntDiv, Quotient
<1>8. idx - Wrap(z * xMax * yMax) = rest
  <2>1. z * xMax * yMax = z * layer
    BY <1>1 DEF layer
  <2> QED  BY <1>3, <1>4, <1>5, <2>1, WrapFits, WordAssumption DEF idx
<1>9. rest \div xMax = y /\ rest - (xMax * (rest \div xMax)) = x
  <2>1. rest \div xMax = y
    BY <1>1, <1>2, <1>3, QuotientUnique DEF rest
  <2>2. xMax * y = y * xMax
    BY <1>1
  <2> QED  BY <1>1, <2>1, <2>2 DEF rest
<1>10. IntDiv(rest, xMax) = y /\ IntMod(rest, xMax) = x
  <2>1. x < HalfWord /\ y < HalfWord
    BY <1>1, WordAssumption DEF Fits, Vector
  <2>2. rest >= 0 /\ rest \in Int
    BY <1>2, <1>3
  <2> QED  BY <1>1, <1>9, <2>1, <2>2, WrapFits, WordAssumption DEF IntDiv, IntMod, Quotient
<1> QED
  BY <1>6, <1>7, <1>8, <1>10 DEF To3D, layer

-------------------------------------------------------------------------------
(* The commands of a pipeline that decide on a cell: the GET of a position  *)
(* update and the SET that follows it.                                      *)

CellTasks == [step : Steps \cup {"cell.get", "cell.set"},
              job : Jobs \cup {"position", "cast"},
              c : Clients, g : Groups \cup {None},
              seen : SUBSET Clients, left : SUBSET Clients]

IsGet(t) == t.step = "cell.get" /\ t.job = "position"
IsSet(t) == t.step = "cell.set"

Gets(q, c) == {i \in DOMAIN q : q[i].c = c /\ IsGet(q[i])}
Sets(q, c) == {i \in DOMAIN q : q[i].c = c /\ IsSet(q[i])}

(* No such command of c. *)
Other(t, c) == ~(t.c = c /\ (IsGet(t) \/ IsSet(t)))

LastOf(I) == {i \in I : \A j \in I : j <= i}

(* t writes the cell of the latest position of c. *)
Names(t, c) == pos[c] \in Positions /\ t.g = GroupOf[home[c]][CellAt(pos[c])]

(* A GET appends its SET behind all that is queued, so the last GET decides *)
(* and, when there is none, the last SET.                                   *)
Follows(c) ==
    LET q == pipe[home[c]] IN
    /\ \A i \in LastOf(Gets(q, c)) : Names(q[i], c)
    /\ Gets(q, c) = {} => \A i \in LastOf(Sets(q, c)) : Names(q[i], c)
    /\ Gets(q, c) = {} /\ Sets(q, c) = {} /\ cell[c] # None => cell[c] = CellAt(pos[c])

CellTask(t, s) ==
    IsGet(t) \/ IsSet(t) => home[t.c] = s /\ \E v \in Cells : t.g = GroupOf[s][v]

CellInv ==
    /\ CellTypeOK
    /\ home \in [Clients -> Servers]
    /\ known \subseteq Groups \cup {None}
    /\ pipe \in [Servers -> Seq(CellTasks)]
    /\ \A s \in Servers : \A i \in DOMAIN pipe[s] : CellTask(pipe[s][i], s)
    /\ \A c \in Clients : Follows(c)

-------------------------------------------------------------------------------
(* The grid. *)

LEMMA WithinHalf ==
    ASSUME NEW a \in Int, NEW b \in Nat \ {0}, b % 2 = 0
    PROVE  /\ (a + (b \div 2)) \div b \in Int
           /\ (((a + (b \div 2)) \div b) * b) - (b \div 2) <= a
           /\ a < (((a + (b \div 2)) \div b) * b) + (b \div 2)
<1> DEFINE h == b \div 2
           n == (a + h) \div b
<1>1. h \in Int /\ b = 2 * h
  OBVIOUS
<1>2. n \in Int /\ (a + h) % b \in 0..(b - 1) /\ a + h = (b * n) + ((a + h) % b)
  BY <1>1, Division
<1>3. b * n = n * b
  BY <1>2
<1> QED  BY <1>1, <1>2, <1>3

LEMMA CellGroup ==
    ASSUME NEW s \in Servers, NEW v \in Cells
    PROVE  GroupOf[s][v] \in Groups /\ CellOf(s, GroupOf[s][v]) = v
<1> DEFINE G == GroupOf[s]
<1>1. G \in [Cells -> Groups] /\ IsInjective(G)
  BY CellsAssumption DEF Cells
<1>2. \A u, w \in Cells : G[u] = G[w] => u = w
  BY <1>1 DEF IsInjective
<1> HIDE DEF G
<1>3. (CHOOSE u \in Cells : G[u] = G[v]) = v
  BY <1>2
<1> QED  BY <1>1, <1>3 DEF CellOf, G

-------------------------------------------------------------------------------
(* What a step does to the commands of c that decide on its cell: they keep *)
(* their order and move up by k.                                            *)

Moves(q, r, k, c) ==
    /\ \A i \in DOMAIN r : \/ i + k \in DOMAIN q /\ r[i] = q[i + k]
                           \/ Other(r[i], c)
    /\ \A i \in DOMAIN q : \/ i - k \in DOMAIN r /\ r[i - k] = q[i]
                           \/ Other(q[i], c)

LEMMA MovesMarks ==
    ASSUME NEW q \in Seq(CellTasks), NEW r \in Seq(CellTasks), NEW k \in {0, 1}, NEW c,
           Moves(q, r, k, c)
    PROVE  /\ Gets(q, c) = {} <=> Gets(r, c) = {}
           /\ Sets(q, c) = {} <=> Sets(r, c) = {}
           /\ \A i \in LastOf(Gets(r, c)) : i + k \in LastOf(Gets(q, c)) /\ r[i] = q[i + k]
           /\ \A i \in LastOf(Sets(r, c)) : i + k \in LastOf(Sets(q, c)) /\ r[i] = q[i + k]
<1>1. DOMAIN q \subseteq Int /\ DOMAIN r \subseteq Int
  BY LenProperties
<1>2. \A i \in Gets(r, c) : i \in Int /\ i + k \in Gets(q, c) /\ r[i] = q[i + k]
  BY <1>1 DEF Moves, Gets, Other
<1>3. \A i \in Gets(q, c) : i \in Int /\ i - k \in Gets(r, c)
  BY <1>1 DEF Moves, Gets, Other
<1>4. \A i \in Sets(r, c) : i \in Int /\ i + k \in Sets(q, c) /\ r[i] = q[i + k]
  BY <1>1 DEF Moves, Sets, Other
<1>5. \A i \in Sets(q, c) : i \in Int /\ i - k \in Sets(r, c)
  BY <1>1 DEF Moves, Sets, Other
<1>6. ASSUME NEW I, NEW J,
             \A i \in J : i \in Int /\ i + k \in I /\ r[i] = q[i + k],
             \A i \in I : i \in Int /\ i - k \in J
      PROVE  /\ I = {} <=> J = {}
             /\ \A i \in LastOf(J) : i + k \in LastOf(I) /\ r[i] = q[i + k]
  <2>1. ASSUME NEW i \in LastOf(J) PROVE i + k \in LastOf(I) /\ r[i] = q[i + k]
    <3>1. i \in J /\ i \in Int /\ i + k \in I /\ r[i] = q[i + k]
      BY <1>6 DEF LastOf
    <3>2. ASSUME NEW j \in I PROVE j <= i + k
      <4>1. j \in Int /\ j - k \in J
        BY <1>6
      <4>2. j - k <= i
        BY <4>1 DEF LastOf
      <4> QED  BY <3>1, <4>1, <4>2
    <3> QED  BY <3>1, <3>2 DEF LastOf
  <2> QED  BY <1>6, <2>1
<1>7. /\ Gets(q, c) = {} <=> Gets(r, c) = {}
      /\ \A i \in LastOf(Gets(r, c)) : i + k \in LastOf(Gets(q, c)) /\ r[i] = q[i + k]
  BY <1>2, <1>3, <1>6
<1>8. /\ Sets(q, c) = {} <=> Sets(r, c) = {}
      /\ \A i \in LastOf(Sets(r, c)) : i + k \in LastOf(Sets(q, c)) /\ r[i] = q[i + k]
  BY <1>4, <1>5, <1>6
<1> QED  BY <1>7, <1>8

LEMMA MovesFollow ==
    ASSUME CellInv, NEW s \in Servers, NEW r \in Seq(CellTasks), NEW k \in {0, 1},
           NEW c \in Clients, Moves(pipe[s], r, k, c),
           pipe' = [pipe EXCEPT ![s] = r], home' = home, cell'[c] = cell[c], pos'[c] = pos[c]
    PROVE  Follows(c)'
<1>1. Follows(c) /\ home[c] \in Servers /\ pipe \in [Servers -> Seq(CellTasks)]
  BY DEF CellInv
<1>2. CASE home[c] # s
  <2>1. pipe'[home[c]] = pipe[home[c]]
    BY <1>1, <1>2
  <2> QED  BY <1>1, <2>1 DEF Follows, Names
<1>3. CASE home[c] = s
  <2> DEFINE q == pipe[s]
  <2>1. q \in Seq(CellTasks) /\ pipe'[s] = r
    BY <1>1
  <2>2. /\ Gets(q, c) = {} <=> Gets(r, c) = {}
        /\ Sets(q, c) = {} <=> Sets(r, c) = {}
        /\ \A i \in LastOf(Gets(r, c)) : i + k \in LastOf(Gets(q, c)) /\ r[i] = q[i + k]
        /\ \A i \in LastOf(Sets(r, c)) : i + k \in LastOf(Sets(q, c)) /\ r[i] = q[i + k]
    BY <2>1, MovesMarks
  <2>3. /\ \A i \in LastOf(Gets(r, c)) : Names(r[i], c)
        /\ Gets(r, c) = {} => \A i \in LastOf(Sets(r, c)) : Names(r[i], c)
        /\ Gets(r, c) = {} /\ Sets(r, c) = {} /\ cell[c] # None => cell[c] = CellAt(pos[c])
    BY <1>1, <1>3, <2>2 DEF Follows
  <2>4. \A t : Names(t, c)' <=> Names(t, c)
    BY DEF Names
  <2> QED  BY <1>3, <2>1, <2>3, <2>4 DEF Follows
<1> QED  BY <1>2, <1>3

LEMMA IssueMoves ==
    ASSUME NEW q \in Seq(CellTasks), NEW f \in Seq(CellTasks),
           NEW c, \A i \in DOMAIN f : Other(f[i], c)
    PROVE  Moves(q, q \o f, 0, c)
<1> DEFINE r == q \o f
<1>1. /\ r \in Seq(CellTasks)
      /\ DOMAIN q = 1..Len(q) /\ DOMAIN f = 1..Len(f) /\ Len(q) \in Nat /\ Len(f) \in Nat
      /\ DOMAIN r = 1..(Len(q) + Len(f))
      /\ \A i \in DOMAIN r : r[i] = IF i <= Len(q) THEN q[i] ELSE f[i - Len(q)]
  BY AppendElements, LenProperties
<1> HIDE DEF r
<1>2. ASSUME NEW i \in DOMAIN r
      PROVE  (i + 0 \in DOMAIN q /\ r[i] = q[i + 0]) \/ Other(r[i], c)
  <2>1. CASE i <= Len(q)
    BY <1>1, <2>1
  <2>2. CASE ~(i <= Len(q))
    <3>1. i - Len(q) \in DOMAIN f /\ r[i] = f[i - Len(q)]
      BY <1>1, <2>2
    <3> QED  BY <3>1
  <2> QED  BY <2>1, <2>2
<1>3. ASSUME NEW i \in DOMAIN q PROVE i - 0 \in DOMAIN r /\ r[i - 0] = q[i]
  <2>1. i \in DOMAIN r /\ i <= Len(q) /\ i - 0 = i
    BY <1>1
  <2> QED  BY <1>1, <2>1
<1>4. Moves(q, r, 0, c)
  BY <1>2, <1>3 DEF Moves
<1> QED  BY <1>4 DEF r

LEMMA ReplyMoves ==
    ASSUME NEW q \in Seq(CellTasks), q # <<>>, NEW f \in Seq(CellTasks),
           NEW c, Other(Head(q), c), \A i \in DOMAIN f : Other(f[i], c)
    PROVE  Moves(q, Tail(q) \o f, 1, c)
<1> DEFINE r == Tail(q) \o f
<1>1. /\ r \in Seq(CellTasks) /\ Head(q) = q[1]
      /\ DOMAIN q = 1..Len(q) /\ DOMAIN f = 1..Len(f) /\ Len(q) \in Nat \ {0} /\ Len(f) \in Nat
      /\ DOMAIN r = 1..(Len(q) - 1 + Len(f))
      /\ \A i \in DOMAIN r : r[i] = IF i < Len(q) THEN q[i + 1] ELSE f[i - Len(q) + 1]
  BY StepElements, LenProperties, EmptySeq
<1> HIDE DEF r
<1>2. ASSUME NEW i \in DOMAIN r
      PROVE  (i + 1 \in DOMAIN q /\ r[i] = q[i + 1]) \/ Other(r[i], c)
  <2>1. CASE i < Len(q)
    BY <1>1, <2>1
  <2>2. CASE ~(i < Len(q))
    <3>1. i - Len(q) + 1 \in DOMAIN f /\ r[i] = f[i - Len(q) + 1]
      BY <1>1, <2>2
    <3> QED  BY <3>1
  <2> QED  BY <2>1, <2>2
<1>3. ASSUME NEW i \in DOMAIN q
      PROVE  (i - 1 \in DOMAIN r /\ r[i - 1] = q[i]) \/ Other(q[i], c)
  <2>1. CASE i = 1
    BY <1>1, <2>1
  <2>2. CASE i # 1
    <3>1. i - 1 \in DOMAIN r /\ i - 1 < Len(q) /\ (i - 1) + 1 = i
      BY <1>1, <2>2
    <3> QED  BY <1>1, <3>1
  <2> QED  BY <2>1, <2>2
<1>4. Moves(q, r, 1, c)
  BY <1>2, <1>3 DEF Moves
<1> QED  BY <1>4 DEF r

LEMMA HeadMoves ==
    ASSUME NEW q \in Seq(CellTasks), q # <<>>, NEW u \in CellTasks,
           NEW c, Other(Head(q), c), Other(u, c)
    PROVE  <<u>> \o Tail(q) \in Seq(CellTasks) /\ Moves(q, <<u>> \o Tail(q), 0, c)
<1> DEFINE r == <<u>> \o Tail(q)
<1>1. /\ Head(q) = q[1] /\ DOMAIN q = 1..Len(q) /\ Len(q) \in Nat \ {0}
      /\ Tail(q) \in Seq(CellTasks) /\ Len(Tail(q)) = Len(q) - 1
      /\ \A i \in 1..(Len(q) - 1) : Tail(q)[i] = q[i + 1]
  BY HeadTailProperties, LenProperties, EmptySeq
<1>2. /\ r \in Seq(CellTasks) /\ DOMAIN r = 1..Len(q)
      /\ r[1] = u /\ \A i \in 2..Len(q) : r[i] = q[i]
  <2>1. <<u>> \in Seq(CellTasks) /\ Len(<<u>>) = 1 /\ <<u>>[1] = u
    OBVIOUS
  <2>2. /\ r \in Seq(CellTasks) /\ Len(r) = Len(q)
        /\ \A i \in 1..Len(q) : r[i] = IF i <= 1 THEN <<u>>[i] ELSE Tail(q)[i - 1]
    BY <1>1, <2>1, ConcatProperties
  <2>3. DOMAIN r = 1..Len(q)
    BY <2>2, LenProperties
  <2>4. ASSUME NEW i \in 2..Len(q) PROVE r[i] = q[i]
    <3>1. i - 1 \in 1..(Len(q) - 1)
      BY <1>1
    <3> QED  BY <1>1, <2>2, <3>1
  <2> QED  BY <1>1, <2>1, <2>2, <2>3, <2>4
<1> HIDE DEF r
<1>3. ASSUME NEW i \in DOMAIN r
      PROVE  (i + 0 \in DOMAIN q /\ r[i] = q[i + 0]) \/ Other(r[i], c)
  BY <1>1, <1>2
<1>4. ASSUME NEW i \in DOMAIN q
      PROVE  (i - 0 \in DOMAIN r /\ r[i - 0] = q[i]) \/ Other(q[i], c)
  <2>1. i = 1 \/ (i \in 2..Len(q) /\ i - 0 = i)
    BY <1>1
  <2> QED  BY <1>1, <1>2, <2>1
<1>5. Moves(q, r, 0, c)
  BY <1>3, <1>4 DEF Moves
<1> QED  BY <1>2, <1>5 DEF r

(* A step of server s that touches no such command. *)
Aside(s) ==
    \E k \in {0, 1}, r \in Seq(CellTasks) :
        /\ pipe' = [pipe EXCEPT ![s] = r]
        /\ \A c : Moves(pipe[s], r, k, c)

LEMMA AsideKeeps ==
    ASSUME CellInv, NEW s \in Servers, Aside(s), home' = home
    PROVE  /\ pipe' \in [Servers -> Seq(CellTasks)]
           /\ \A z \in Servers : \A i \in DOMAIN pipe'[z] : CellTask(pipe[z][i], z)'
           /\ \A c \in Clients : cell'[c] = cell[c] /\ pos'[c] = pos[c] => Follows(c)'
<1>1. PICK k \in {0, 1}, r \in Seq(CellTasks) :
         pipe' = [pipe EXCEPT ![s] = r] /\ \A c : Moves(pipe[s], r, k, c)
  BY DEF Aside
<1>2. pipe \in [Servers -> Seq(CellTasks)]
  BY DEF CellInv
<1>3. pipe' \in [Servers -> Seq(CellTasks)] /\ pipe'[s] = r
      /\ \A z \in Servers \ {s} : pipe'[z] = pipe[z]
  BY <1>1, <1>2
<1>4. ASSUME NEW z \in Servers, NEW i \in DOMAIN pipe'[z] PROVE CellTask(pipe[z][i], z)'
  <2>1. CASE z # s
    <3>1. CellTask(pipe[z][i], z)
      BY <1>3, <2>1 DEF CellInv
    <3> QED  BY <1>3, <2>1, <3>1 DEF CellTask
  <2>2. CASE z = s
    <3>1. (i + k \in DOMAIN pipe[s] /\ r[i] = pipe[s][i + k]) \/ Other(r[i], r[i].c)
      BY <1>1, <1>3, <2>2 DEF Moves
    <3>2. CASE i + k \in DOMAIN pipe[s] /\ r[i] = pipe[s][i + k]
      <4>1. CellTask(pipe[s][i + k], s)
        BY <3>2 DEF CellInv
      <4> QED  BY <1>3, <2>2, <3>2, <4>1 DEF CellTask
    <3>3. CASE Other(r[i], r[i].c)
      BY <1>3, <2>2, <3>3 DEF CellTask, Other
    <3> QED  BY <3>1, <3>2, <3>3
  <2> QED  BY <2>1, <2>2
<1>5. \A c \in Clients : cell'[c] = cell[c] /\ pos'[c] = pos[c] => Follows(c)'
  BY <1>1, MovesFollow
<1> QED  BY <1>3, <1>4, <1>5

-------------------------------------------------------------------------------
(* The steps of GroupServer are of that kind. *)

Plain(t) == t \in CellTasks /\ t.step \in Steps

LEMMA PlainTask ==
    ASSUME NEW t, Plain(t)
    PROVE  t \in CellTasks /\ \A c : Other(t, c)
BY DEF Plain, Other, IsGet, IsSet, Steps, StoreSteps, PushSteps, RemoveSteps, EraseSteps

LEMMA IssueAside ==
    ASSUME CellInv, NEW s \in Servers, NEW t \in CellTasks, \A c : Other(t, c),
           Issue(s, <<t>>)
    PROVE  Aside(s)
<1>1. pipe[s] \in Seq(CellTasks) /\ <<t>> \in Seq(CellTasks)
  BY DEF CellInv
<1>2. \A i \in DOMAIN <<t>> : <<t>>[i] = t
  OBVIOUS
<1>3. \A c : Moves(pipe[s], pipe[s] \o <<t>>, 0, c)
  BY <1>1, <1>2, IssueMoves
<1>4. pipe' = [pipe EXCEPT ![s] = pipe[s] \o <<t>>] /\ pipe[s] \o <<t>> \in Seq(CellTasks)
  BY <1>1, AppendElements DEF Issue
<1> QED  BY <1>3, <1>4 DEF Aside

LEMMA ReplyAside ==
    ASSUME CellInv, NEW s \in Servers, pipe[s] # <<>>, \A c : Other(Head(pipe[s]), c),
           NEW f \in Seq(CellTasks), \A c : \A i \in DOMAIN f : Other(f[i], c), Reply(s, f)
    PROVE  Aside(s)
<1>1. pipe[s] \in Seq(CellTasks)
  BY DEF CellInv
<1>2. \A c : Moves(pipe[s], Tail(pipe[s]) \o f, 1, c)
  BY <1>1, ReplyMoves
<1>3. pipe' = [pipe EXCEPT ![s] = Tail(pipe[s]) \o f] /\ Tail(pipe[s]) \o f \in Seq(CellTasks)
  BY <1>1, StepElements DEF Reply
<1> QED  BY <1>2, <1>3 DEF Aside

(* The ways a chain goes on. *)
LEMMA PlainNew ==
    ASSUME NEW step \in Steps, NEW job \in Jobs, NEW c \in Clients, NEW g \in Groups \cup {None}
    PROVE  Plain(Task(step, job, c, g))
BY DEF Plain, Task, CellTasks

LEMMA PlainAt ==
    ASSUME NEW t \in CellTasks, NEW step \in Steps
    PROVE  /\ Plain(At(t, step))
           /\ Plain([At(t, step) EXCEPT !.job = "heal"])
           /\ Plain([At(t, step) EXCEPT !.left = {}])
           /\ \A A \in SUBSET Clients : Plain([At(t, step) EXCEPT !.seen = A, !.left = A])
BY DEF Plain, At, CellTasks, Jobs

LEMMA PlainSeq ==
    /\ <<>> \in Seq(CellTasks) /\ DOMAIN <<>> = {}
    /\ \A t : Plain(t) => <<t>> \in Seq(CellTasks) /\ \A i \in DOMAIN <<t>> : Plain(<<t>>[i])
<1>1. ASSUME NEW t, Plain(t)
      PROVE  <<t>> \in Seq(CellTasks) /\ \A i \in DOMAIN <<t>> : Plain(<<t>>[i])
  <2>1. t \in CellTasks
    BY <1>1, PlainTask
  <2>2. DOMAIN <<t>> = {1} /\ <<t>>[1] = t
    OBVIOUS
  <2> QED  BY <1>1, <2>1, <2>2
<1> QED  BY <1>1

LEMMA StepsKnown ==
    /\ {"create.hset", "client.hget", "client.hset", "client.lrange", "close.lrange",
        "notify.lrange", "get.hget"} \cup PushSteps \cup RemoveSteps \cup EraseSteps = Steps
    /\ AllOps \subseteq Jobs
BY DEF Steps, StoreSteps, Jobs

LEMMA ClientAside ==
    ASSUME CellInv, NEW c \in Clients, ClientStep(c)
    PROVE  Aside(home[c]) /\ home' = home
<1>1. home[c] \in Servers /\ pipe[home[c]] \in Seq(CellTasks)
      /\ known \subseteq Groups \cup {None}
  BY DEF CellInv
<1>2. PICK step \in {"create.hset", "get.hget", "client.hget", "close.lrange"},
           job \in AllOps, g \in Groups \cup {None} :
         Issue(home[c], <<Task(step, job, c, g)>>) /\ home' = home
  <2>1. CASE CreateGroup(c)
    BY <2>1 DEF CreateGroup, AllOps
  <2>2. ASSUME NEW op \in AllOps, Request(c, op)
        PROVE  \E g \in Groups \cup {None} :
                  Issue(home[c], <<Task("get.hget", op, c, g)>>) /\ home' = home
    BY <1>1, <2>2 DEF Request
  <2>3. CASE DeleteGroup(c) \/ JoinGroup(c) \/ LeaveGroup(c)
    BY <2>2, <2>3 DEF DeleteGroup, JoinGroup, LeaveGroup, AllOps
  <2>4. CASE BroadcastGroup(c)
    BY <1>1, <2>4 DEF BroadcastGroup, AllOps
  <2>5. CASE Close(c)
    BY <2>5 DEF Close, AllOps
  <2> QED  BY <2>1, <2>3, <2>4, <2>5 DEF ClientStep
<1>3. Plain(Task(step, job, c, g))
  BY <1>2, PlainNew, StepsKnown
<1> QED  BY <1>1, <1>2, <1>3, PlainTask, IssueAside

LEMMA ServerAside ==
    ASSUME CellInv, NEW s \in Servers, ServerStep(s)
    PROVE  Aside(s) /\ home' = home
<1> DEFINE t == Head(pipe[s])
<1>1. pipe[s] \in Seq(CellTasks)
  BY DEF CellInv
<1>2. home' = home
  BY DEF ServerStep, CreateEntry, Get, Push, PushEnd, Remove, RemoveEnd, Erase,
         LeaveAllGroups, GetClient, SetClient, CheckSender, NotifyGroup
<1>3. ASSUME NEW step \in Steps, Running(s, step)
      PROVE  pipe[s] # <<>> /\ t \in CellTasks /\ \A c : Other(t, c)
  <2>1. pipe[s] # <<>> /\ t.step = step /\ t \in CellTasks
    BY <1>1, <1>3, StepElements, PlainSeq DEF Running
  <2>2. Plain(t)
    BY <2>1 DEF Plain
  <2> QED  BY <2>1, <2>2, PlainTask
<1>4. ASSUME NEW step \in Steps, Running(s, step), NEW f \in Seq(CellTasks),
             \A i \in DOMAIN f : Plain(f[i]), Reply(s, f)
      PROVE  Aside(s)
  BY <1>3, <1>4, PlainTask, ReplyAside
<1>5. ASSUME NEW step \in Steps, Running(s, step), NEW n \in Steps,
             Reply(s, <<At(t, n)>>) \/ Reply(s, <<>>)
      PROVE  Aside(s)
  <2>1. Plain(At(t, n))
    BY <1>3, <1>5, PlainAt
  <2> QED  BY <1>4, <1>5, <2>1, PlainSeq
<1> SUFFICES Aside(s)
  BY <1>2
<1> HIDE DEF t
<1>6. CASE CreateEntry(s)
  BY <1>5, <1>6, StepsKnown DEF CreateEntry, PushSteps, t
<1>7. CASE Get(s)
  <2>1. Running(s, "get.hget") /\ "get.hget" \in Steps
    BY <1>7, StepsKnown DEF Get, GetGroupInstance
  <2>2. CASE Reply(s, Found(t))
    BY <1>5, <2>1, <2>2, StepsKnown DEF Found, PushSteps, EraseSteps, RemoveSteps
  <2>3. CASE Reply(s, <<[At(t, "erase.lrangeGroup") EXCEPT !.job = "heal"]>>)
    BY <1>3, <1>4, <2>1, <2>3, PlainAt, PlainSeq, StepsKnown DEF EraseSteps
  <2> QED  BY <1>7, <2>2, <2>3 DEF Get, GetGroupInstance, t
<1>8. CASE Push(s)
  <2>1. CASE PushReadGroup(s, Rejected(Head(pipe[s])))
    BY <1>5, <2>1, StepsKnown DEF PushReadGroup, Rejected, PushSteps, t
  <2>2. CASE PushReadClient(s, Rejected(Head(pipe[s])))
    BY <1>5, <2>2, StepsKnown DEF PushReadClient, Rejected, PushSteps, t
  <2>3. CASE PushWriteClient(s)
    BY <1>5, <2>3, StepsKnown DEF PushWriteClient, PushSteps, t
  <2> QED  BY <1>8, <2>1, <2>2, <2>3 DEF Push
<1>9. CASE PushEnd(s)
  BY <1>5, <1>9, StepsKnown DEF PushEnd, PushWriteGroup, Pushed, Notify, PushSteps, t
<1>10. CASE Remove(s)
  BY <1>5, <1>10, StepsKnown DEF Remove, RemoveWriteClient, RemoveSteps, t
<1>11. CASE RemoveEnd(s)
  BY <1>5, <1>11, StepsKnown DEF RemoveEnd, RemoveWriteGroup, Notify, RemoveSteps, t
<1>12. CASE Erase(s)
  <2>1. CASE EraseReadGroup(s)
    <3>1. Running(s, "erase.lrangeGroup") /\ "erase.lrangeGroup" \in Steps
      BY <2>1, StepsKnown DEF EraseReadGroup, EraseSteps
    <3>2. CASE Reply(s, <<At(t, "erase.hdel")>>)
      BY <1>5, <3>1, <3>2, StepsKnown DEF EraseSteps
    <3>3. ASSUME NEW A \in SUBSET Clients,
                 Reply(s, <<[At(t, "erase.lremClient") EXCEPT !.seen = A, !.left = A]>>)
          PROVE  Aside(s)
      BY <1>3, <1>4, <3>1, <3>3, PlainAt, PlainSeq, StepsKnown DEF EraseSteps
    <3> QED  BY <2>1, <3>2, <3>3 DEF EraseReadGroup, MembersOf, t
  <2>2. CASE EraseWriteClient(s)
    <3>1. Running(s, "erase.lremClient") /\ "erase.lremClient" \in Steps
      BY <2>2, StepsKnown DEF EraseWriteClient, EraseSteps
    <3>2. PICK x \in t.left :
             IF t.left = {x}
             THEN Reply(s, <<[At(t, "erase.hdel") EXCEPT !.left = {}]>>)
             ELSE pipe' = [pipe EXCEPT ![s] = <<[t EXCEPT !.left = @ \ {x}]>> \o Tail(@)]
      BY <2>2 DEF EraseWriteClient, t
    <3>3. CASE Reply(s, <<[At(t, "erase.hdel") EXCEPT !.left = {}]>>)
      BY <1>3, <1>4, <3>1, <3>3, PlainAt, PlainSeq, StepsKnown DEF EraseSteps
    <3>4. ASSUME NEW u, u = [t EXCEPT !.left = @ \ {x}],
                 pipe' = [pipe EXCEPT ![s] = <<u>> \o Tail(@)]
          PROVE  Aside(s)
      <4>1. t \in CellTasks /\ t.step = "erase.lremClient"
        BY <1>3, <3>1 DEF Running, t
      <4>2. Plain(u)
        BY <3>1, <3>4, <4>1 DEF Plain, CellTasks
      <4>3. /\ <<u>> \o Tail(pipe[s]) \in Seq(CellTasks)
            /\ \A c : Moves(pipe[s], <<u>> \o Tail(pipe[s]), 0, c)
        BY <1>1, <1>3, <3>1, <4>1, <4>2, PlainTask, HeadMoves DEF t
      <4> QED  BY <3>4, <4>3 DEF Aside
    <3> QED  BY <3>2, <3>3, <3>4
  <2>3. CASE EraseEntry(s)
    BY <1>5, <2>3, StepsKnown DEF EraseEntry, EraseSteps, t
  <2>4. CASE EraseGroup(s, Erased(Head(pipe[s])))
    BY <1>5, <2>4, StepsKnown DEF EraseGroup, Erased, Notify, EraseSteps, t
  <2> QED  BY <1>12, <2>1, <2>2, <2>3, <2>4 DEF Erase
<1>13. CASE LeaveAllGroups(s)
  <2> DEFINE n == Cardinality(GroupsOfClient(t.c))
  <2>1. PICK order \in [1..n -> GroupsOfClient(t.c)] :
           Reply(s, [i \in DOMAIN order |-> Task("get.hget", "close", t.c, order[i])])
    BY <1>13 DEF LeaveAllGroups, t
  <2> DEFINE f == [i \in DOMAIN order |-> Task("get.hget", "close", t.c, order[i])]
  <2>2. Running(s, "close.lrange") /\ "close.lrange" \in Steps /\ t.c \in Clients
    BY <1>3, <1>13, StepsKnown DEF LeaveAllGroups, CellTasks
  <2>3. n \in Nat /\ DOMAIN f = 1..n
    BY ListedFinite
  <2>4. \A i \in 1..n : order[i] \in Groups
    BY <2>1 DEF GroupsOfClient
  <2>5. ASSUME NEW i \in 1..n PROVE Plain(f[i]) /\ f[i] \in CellTasks
    <3>1. Plain(Task("get.hget", "close", t.c, order[i]))
      BY <2>2, <2>4, PlainNew, StepsKnown DEF AllOps
    <3> QED  BY <2>3, <3>1, PlainTask
  <2>6. f \in Seq(CellTasks)
    BY <2>3, <2>5, SeqDef
  <2>7. Reply(s, f)
    BY <2>1
  <2> HIDE DEF f, n
  <2> QED  BY <1>4, <2>2, <2>3, <2>5, <2>6, <2>7
<1>14. CASE GetClient(s)
  BY <1>5, <1>14, StepsKnown DEF GetClient, t
<1>15. CASE SetClient(s)
  BY <1>5, <1>15, StepsKnown DEF SetClient, t
<1>16. CASE CheckSender(s)
  BY <1>5, <1>16, StepsKnown DEF CheckSender, Rejected, Notify, t
<1>17. CASE NotifyGroup(s)
  BY <1>5, <1>17, StepsKnown DEF NotifyGroup, t
<1>18. Aside(s)
  BY <1>6, <1>7, <1>8, <1>9, <1>10, <1>11, <1>12, <1>13, <1>14, <1>15, <1>16, <1>17
     DEF ServerStep
<1> QED  BY <1>18

-------------------------------------------------------------------------------
(* The steps that decide on a cell. *)

(* What is left of a set of indices when the head of the pipeline is gone.  *)
LEMMA LastOfTail ==
    ASSUME NEW I, NEW J,
           \A i \in J : i \in Nat /\ i >= 1 /\ i + 1 \in I,
           \A i \in I : i \in Nat /\ (i = 1 \/ i - 1 \in J)
    PROVE  /\ \A i \in LastOf(J) : i + 1 \in LastOf(I)
           /\ J = {} => I \subseteq LastOf(I)
<1>1. ASSUME NEW i \in LastOf(J) PROVE i + 1 \in LastOf(I)
  <2>1. i \in J /\ i \in Nat /\ i >= 1 /\ i + 1 \in I
    BY DEF LastOf
  <2>2. ASSUME NEW j \in I PROVE j <= i + 1
    <3>1. CASE j = 1
      BY <2>1, <3>1
    <3>2. CASE j - 1 \in J
      <4>1. j \in Nat /\ j - 1 <= i
        BY <3>2 DEF LastOf
      <4> QED  BY <2>1, <4>1
    <3> QED  BY <3>1, <3>2
  <2> QED  BY <2>1, <2>2 DEF LastOf
<1>2. ASSUME J = {} PROVE I \subseteq LastOf(I)
  <2>1. \A i \in I : i = 1
    BY <1>2
  <2> QED  BY <2>1 DEF LastOf
<1> QED  BY <1>1, <1>2

(* A position update is queued: its GET is now the last one.                *)
LEMMA UpdateFollows ==
    ASSUME CellInv, NEW c \in Clients, NEW p \in Positions,
           pos' = [pos EXCEPT ![c] = p], home' = home, cell' = cell,
           Issue(home[c], <<Task("cell.get", "position", c, GroupOf[home[c]][CellAt(p)])>>)
    PROVE  /\ pipe' \in [Servers -> Seq(CellTasks)]
           /\ \A z \in Servers : \A i \in DOMAIN pipe'[z] : CellTask(pipe[z][i], z)'
           /\ \A x \in Clients : Follows(x)'
<1>p. PICK s, q, u, r : /\ s = home[c] /\ q = pipe[s] /\ r = q \o <<u>>
                        /\ u = Task("cell.get", "position", c, GroupOf[s][CellAt(p)])
  OBVIOUS
<1>1. /\ s \in Servers /\ q \in Seq(CellTasks) /\ pipe \in [Servers -> Seq(CellTasks)]
      /\ pos \in [Clients -> Positions \cup {None}]
  BY <1>p DEF CellInv, CellTypeOK
<1>2. CellAt(p) \in Cells /\ GroupOf[s][CellAt(p)] \in Groups
  BY <1>1, CellGroup DEF Cells
<1>3. u \in CellTasks /\ u.c = c /\ IsGet(u) /\ u.g = GroupOf[s][CellAt(p)]
  BY <1>p, <1>2 DEF Task, CellTasks, IsGet
<1>4. pipe' = [pipe EXCEPT ![s] = r]
  BY <1>p DEF Issue
<1>5. /\ r \in Seq(CellTasks) /\ Len(q) \in Nat
      /\ DOMAIN q = 1..Len(q) /\ DOMAIN r = 1..(Len(q) + 1)
      /\ \A i \in DOMAIN r : r[i] = IF i <= Len(q) THEN q[i] ELSE u
  <2>1. <<u>> \in Seq(CellTasks) /\ Len(<<u>>) = 1 /\ <<u>>[1] = u
    BY <1>3
  <2>2. /\ r \in Seq(CellTasks) /\ DOMAIN q = 1..Len(q) /\ DOMAIN r = 1..(Len(q) + Len(<<u>>))
        /\ \A i \in DOMAIN r : r[i] = IF i <= Len(q) THEN q[i] ELSE <<u>>[i - Len(q)]
    BY <1>1, <1>p, <2>1, AppendElements
  <2>3. Len(q) \in Nat
    BY <1>1, LenProperties
  <2>4. ASSUME NEW i \in DOMAIN r PROVE r[i] = IF i <= Len(q) THEN q[i] ELSE u
    <3>1. ~(i <= Len(q)) => i - Len(q) = 1
      BY <2>1, <2>2, <2>3
    <3> QED  BY <2>1, <2>2, <3>1
  <2> QED  BY <2>1, <2>2, <2>3, <2>4
<1>6. ASSUME NEW x \in Clients \ {c} PROVE Follows(x)'
  <2>1. \A i \in DOMAIN <<u>> : Other(<<u>>[i], x)
    BY <1>3 DEF Other
  <2>2. Moves(q, q \o <<u>>, 0, x)
    <3>1. <<u>> \in Seq(CellTasks)
      BY <1>3
    <3> QED  BY <1>1, <2>1, <3>1, IssueMoves
  <2>3. cell'[x] = cell[x] /\ pos'[x] = pos[x]
    BY <1>1
  <2> QED  BY <1>1, <1>p, <1>4, <1>5, <2>2, <2>3, MovesFollow
<1>7. pipe' \in [Servers -> Seq(CellTasks)] /\ pipe'[s] = r
      /\ \A z \in Servers \ {s} : pipe'[z] = pipe[z]
  BY <1>1, <1>p, <1>4, <1>5
<1>8. Follows(c)'
  <2>1. Len(q) + 1 \in Gets(r, c) /\ r[Len(q) + 1] = u
    BY <1>3, <1>5 DEF Gets
  <2>2. LastOf(Gets(r, c)) = {Len(q) + 1}
    BY <1>5, <2>1 DEF LastOf, Gets
  <2>3. pos'[c] = p
    BY <1>1
  <2>4. Names(u, c)'
    BY <1>p, <1>3, <2>3 DEF Names
  <2> QED  BY <1>p, <1>7, <2>1, <2>2, <2>4 DEF Follows
<1>9. ASSUME NEW z \in Servers, NEW i \in DOMAIN pipe'[z] PROVE CellTask(pipe[z][i], z)'
  <2>1. CASE z # s \/ i <= Len(q)
    <3>1. pipe'[z][i] = pipe[z][i] /\ i \in DOMAIN pipe[z]
      BY <1>p, <1>5, <1>7, <2>1
    <3>2. CellTask(pipe[z][i], z)
      BY <3>1 DEF CellInv
    <3> QED  BY <3>1, <3>2 DEF CellTask
  <2>2. CASE z = s /\ ~(i <= Len(q))
    <3>1. pipe'[z][i] = u
      BY <1>5, <1>7, <2>2
    <3> QED  BY <1>p, <1>2, <1>3, <2>2, <3>1 DEF CellTask
  <2> QED  BY <2>1, <2>2
<1> QED  BY <1>6, <1>7, <1>8, <1>9

(* The head of a pipeline decides on the cell of t.c: the other clients.    *)
LEMMA HeadOthers ==
    ASSUME CellInv, NEW s \in Servers, pipe[s] # <<>>,
           NEW t, t = Head(pipe[s]), IsGet(t) \/ IsSet(t),
           NEW f \in Seq(CellTasks), Reply(s, f), \A i \in DOMAIN f : CellTask(f[i], s),
           home' = home, pos' = pos,
           \A x \in Clients \ {t.c} :
               cell'[x] = cell[x] /\ \A i \in DOMAIN f : Other(f[i], x)
    PROVE  /\ t \in CellTasks /\ home[t.c] = s /\ \E v \in Cells : t.g = GroupOf[s][v]
           /\ pipe' \in [Servers -> Seq(CellTasks)]
           /\ \A z \in Servers : \A i \in DOMAIN pipe'[z] : CellTask(pipe[z][i], z)'
           /\ \A x \in Clients \ {t.c} : Follows(x)'
<1>p. PICK q, r : q = pipe[s] /\ r = Tail(q) \o f
  OBVIOUS
<1>1. q \in Seq(CellTasks) /\ pipe \in [Servers -> Seq(CellTasks)]
  BY <1>p DEF CellInv
<1>2. /\ t \in CellTasks /\ t = q[1] /\ 1 \in DOMAIN q
      /\ r \in Seq(CellTasks) /\ DOMAIN q = 1..Len(q)
      /\ DOMAIN r = 1..(Len(q) - 1 + Len(f)) /\ Len(q) \in Nat \ {0} /\ Len(f) \in Nat
      /\ DOMAIN f = 1..Len(f)
      /\ \A i \in DOMAIN r : r[i] = IF i < Len(q) THEN q[i + 1] ELSE f[i - Len(q) + 1]
  BY <1>p, <1>1, StepElements, LenProperties, EmptySeq
<1>3. home[t.c] = s /\ \E v \in Cells : t.g = GroupOf[s][v]
  <2>1. CellTask(pipe[s][1], s)
    BY <1>p, <1>2 DEF CellInv
  <2> QED  BY <1>p, <1>2, <2>1 DEF CellTask
<1>4. pipe' = [pipe EXCEPT ![s] = r]
  BY <1>p DEF Reply
<1>5. pipe' \in [Servers -> Seq(CellTasks)] /\ pipe'[s] = r
      /\ \A z \in Servers \ {s} : pipe'[z] = pipe[z]
  BY <1>1, <1>2, <1>4
<1>6. ASSUME NEW z \in Servers, NEW i \in DOMAIN pipe'[z] PROVE CellTask(pipe[z][i], z)'
  <2>1. CASE z # s
    <3>1. CellTask(pipe[z][i], z)
      BY <1>5, <2>1 DEF CellInv
    <3> QED  BY <1>5, <2>1, <3>1 DEF CellTask
  <2>2. CASE z = s /\ i < Len(q)
    <3>1. i + 1 \in DOMAIN q /\ r[i] = q[i + 1]
      BY <1>2, <1>5, <2>2
    <3>2. CellTask(pipe[s][i + 1], s)
      BY <1>p, <3>1 DEF CellInv
    <3> QED  BY <1>p, <1>5, <2>2, <3>1, <3>2 DEF CellTask
  <2>3. CASE z = s /\ ~(i < Len(q))
    <3>1. i - Len(q) + 1 \in DOMAIN f /\ r[i] = f[i - Len(q) + 1]
      BY <1>2, <1>5, <2>3
    <3> QED  BY <1>5, <2>3, <3>1 DEF CellTask
  <2> QED  BY <2>1, <2>2, <2>3
<1>7. ASSUME NEW x \in Clients \ {t.c} PROVE Follows(x)'
  <2>1. Other(Head(q), x)
    BY <1>p DEF Other
  <2>2. Moves(q, Tail(q) \o f, 1, x)
    BY <1>p, <1>1, <2>1, ReplyMoves
  <2> QED  BY <1>p, <1>2, <1>4, <2>2, MovesFollow
<1> QED  BY <1>2, <1>3, <1>5, <1>6, <1>7

(* A GET becomes a SET at the end of the pipeline.                          *)
LEMMA GetFollows ==
    ASSUME CellInv, NEW s \in Servers, pipe[s] # <<>>,
           NEW t \in CellTasks, t = Head(pipe[s]), IsGet(t), home[t.c] = s,
           NEW u \in CellTasks, \A x : Other(u, x),
           Reply(s, <<At(t, "cell.set"), u>>), home' = home, pos' = pos
    PROVE  Follows(t.c)'
<1>p. PICK q, a, f, r, c : /\ q = pipe[s] /\ a = At(t, "cell.set") /\ f = <<a, u>>
                           /\ r = Tail(q) \o f /\ c = t.c
  OBVIOUS
<1>1. q \in Seq(CellTasks) /\ pipe \in [Servers -> Seq(CellTasks)] /\ c \in Clients
  BY <1>p DEF CellInv, CellTasks
<1>2. a \in CellTasks /\ a.c = c /\ IsSet(a) /\ ~IsGet(a) /\ a.g = t.g
  BY <1>p DEF At, CellTasks, IsSet, IsGet
<1>3. f \in Seq(CellTasks) /\ Len(f) = 2 /\ f[1] = a /\ f[2] = u
  BY <1>p, <1>2
<1>4. /\ t = q[1] /\ 1 \in DOMAIN q
      /\ r \in Seq(CellTasks) /\ DOMAIN q = 1..Len(q)
      /\ DOMAIN r = 1..(Len(q) - 1 + Len(f)) /\ Len(q) \in Nat \ {0}
      /\ \A i \in DOMAIN r : r[i] = IF i < Len(q) THEN q[i + 1] ELSE f[i - Len(q) + 1]
  BY <1>p, <1>1, <1>3, StepElements, LenProperties, EmptySeq
<1>5. /\ DOMAIN r = 1..(Len(q) + 1)
      /\ \A i \in 1..(Len(q) - 1) : r[i] = q[i + 1]
      /\ r[Len(q)] = a /\ r[Len(q) + 1] = u
  <2>1. /\ Len(q) - 1 + Len(f) = Len(q) + 1
        /\ Len(q) - Len(q) + 1 = 1 /\ (Len(q) + 1) - Len(q) + 1 = 2
        /\ ~(Len(q) < Len(q)) /\ ~(Len(q) + 1 < Len(q))
    BY <1>3, <1>4
  <2>2. DOMAIN r = 1..(Len(q) + 1) /\ Len(q) \in DOMAIN r /\ Len(q) + 1 \in DOMAIN r
    BY <1>4, <2>1
  <2>3. ASSUME NEW i \in 1..(Len(q) - 1) PROVE r[i] = q[i + 1]
    <3>1. i \in DOMAIN r /\ i < Len(q)
      BY <1>4, <2>2
    <3> QED  BY <1>4, <3>1
  <2>4. r[Len(q)] = a /\ r[Len(q) + 1] = u
    BY <1>3, <1>4, <2>1, <2>2
  <2> QED  BY <2>2, <2>3, <2>4
<1>n. Len(q) \in Nat \ {0} /\ DOMAIN q = 1..Len(q)
  BY <1>4
<1>6. pipe'[s] = r
  BY <1>p, <1>1 DEF Reply
<1>7. /\ \A i \in Gets(r, c) : i \in Nat /\ i >= 1 /\ i + 1 \in Gets(q, c) /\ r[i] = q[i + 1]
      /\ \A i \in Gets(q, c) : i \in Nat /\ (i = 1 \/ i - 1 \in Gets(r, c))
  <2>1. ASSUME NEW i \in Gets(r, c)
        PROVE  i \in Nat /\ i >= 1 /\ i + 1 \in Gets(q, c) /\ r[i] = q[i + 1]
    <3>1. i \in 1..(Len(q) + 1) /\ r[i].c = c /\ IsGet(r[i])
      BY <1>5 DEF Gets
    <3>2. i # Len(q) /\ i # Len(q) + 1
      BY <1>2, <1>5, <3>1 DEF Other
    <3>3. i \in 1..(Len(q) - 1) /\ i + 1 \in DOMAIN q
      <4>1. \A n \in Nat \ {0} : i \in 1..(n + 1) /\ i # n /\ i # n + 1
                                  => i \in 1..(n - 1) /\ i + 1 \in 1..n
        OBVIOUS
      <4> QED  BY <1>n, <3>1, <3>2, <4>1
    <3> QED  BY <1>5, <3>1, <3>3 DEF Gets
  <2>2. ASSUME NEW i \in Gets(q, c), i # 1 PROVE i - 1 \in Gets(r, c)
    <3>1. i \in 1..Len(q) /\ q[i].c = c /\ IsGet(q[i])
      BY <1>4 DEF Gets
    <3>2. i - 1 \in 1..(Len(q) - 1) /\ i - 1 \in DOMAIN r /\ (i - 1) + 1 = i
      BY <1>4, <1>5, <2>2, <3>1
    <3>3. r[i - 1] = q[i]
      BY <1>5, <3>2
    <3> QED  BY <3>1, <3>2, <3>3 DEF Gets
  <2>3. \A i \in Gets(q, c) : i \in Nat
    BY <1>4 DEF Gets
  <2> QED  BY <2>1, <2>2, <2>3
<1>8. /\ \A i \in LastOf(Gets(r, c)) : i + 1 \in LastOf(Gets(q, c)) /\ r[i] = q[i + 1]
      /\ Gets(r, c) = {} => 1 \in LastOf(Gets(q, c))
  <2>1. 1 \in Gets(q, c)
    BY <1>p, <1>4 DEF Gets
  <2>2. /\ \A i \in LastOf(Gets(r, c)) : i + 1 \in LastOf(Gets(q, c))
        /\ Gets(r, c) = {} => Gets(q, c) \subseteq LastOf(Gets(q, c))
    BY <1>7, LastOfTail
  <2>3. LastOf(Gets(r, c)) \subseteq Gets(r, c)
    BY DEF LastOf
  <2> QED  BY <1>7, <2>1, <2>2, <2>3
<1>9. Len(q) \in Sets(r, c) /\ LastOf(Sets(r, c)) = {Len(q)}
  <2>1. Len(q) \in Sets(r, c)
    BY <1>2, <1>4, <1>5 DEF Sets
  <2>2. ASSUME NEW i \in Sets(r, c) PROVE i \in Nat /\ i <= Len(q)
    <3>1. i \in 1..(Len(q) + 1) /\ i # Len(q) + 1
      BY <1>5 DEF Sets, Other
    <3> QED  BY <1>4, <3>1
  <2> QED  BY <1>4, <2>1, <2>2 DEF LastOf
<1>10. /\ home[c] = s
       /\ \A i \in LastOf(Gets(q, c)) : Names(q[i], c)
       /\ Gets(q, c) = {} => \A i \in LastOf(Sets(q, c)) : Names(q[i], c)
  <2>1. Follows(c) /\ home[c] = s
    BY <1>p, <1>1 DEF CellInv
  <2> QED  BY <1>p, <2>1 DEF Follows
<1>11. \A v : Names(v, c)' <=> Names(v, c)
  BY DEF Names
<1>12. \A i \in LastOf(Gets(r, c)) : Names(r[i], c)
  BY <1>8, <1>10
<1>13. Gets(r, c) = {} => \A i \in LastOf(Sets(r, c)) : Names(r[i], c)
  <2>1. Gets(r, c) = {} => Names(t, c)
    BY <1>4, <1>8, <1>10
  <2> QED  BY <1>2, <1>5, <1>9, <2>1 DEF Names
<1> QED
  BY <1>p, <1>6, <1>9, <1>10, <1>11, <1>12, <1>13 DEF Follows

(* The last SET stores the cell of the latest position.                     *)
LEMMA SetFollows ==
    ASSUME CellInv, NEW s \in Servers, pipe[s] # <<>>,
           NEW t \in CellTasks, t = Head(pipe[s]), IsSet(t), home[t.c] = s,
           Reply(s, <<>>), home' = home, pos' = pos,
           cell'[t.c] = CellOf(s, t.g)
    PROVE  Follows(t.c)'
<1>p. PICK q, f, r, c : q = pipe[s] /\ f = <<>> /\ r = Tail(q) \o f /\ c = t.c
  OBVIOUS
<1>1. q \in Seq(CellTasks) /\ pipe \in [Servers -> Seq(CellTasks)] /\ c \in Clients
  BY <1>p DEF CellInv, CellTasks
<1>2. f \in Seq(CellTasks) /\ Len(f) = 0
  BY <1>p
<1>3. /\ t = q[1] /\ 1 \in DOMAIN q
      /\ r \in Seq(CellTasks) /\ DOMAIN q = 1..Len(q)
      /\ DOMAIN r = 1..(Len(q) - 1 + Len(f)) /\ Len(q) \in Nat \ {0}
      /\ \A i \in DOMAIN r : r[i] = IF i < Len(q) THEN q[i + 1] ELSE f[i - Len(q) + 1]
  BY <1>p, <1>1, <1>2, StepElements, LenProperties, EmptySeq
<1>4. DOMAIN r = 1..(Len(q) - 1) /\ \A i \in 1..(Len(q) - 1) : r[i] = q[i + 1]
  BY <1>2, <1>3
<1>5. pipe'[s] = r
  BY <1>p, <1>1 DEF Reply
<1>6. ASSUME NEW i \in DOMAIN r
      PROVE  i \in Nat /\ i >= 1 /\ i + 1 \in DOMAIN q /\ r[i] = q[i + 1]
  BY <1>3, <1>4
<1>7. ASSUME NEW i \in DOMAIN q
      PROVE  i \in Nat /\ (i = 1 \/ (i - 1 \in DOMAIN r /\ r[i - 1] = q[i]))
  <2>1. i \in 1..Len(q) /\ Len(q) \in Nat
    BY <1>3
  <2>2. i # 1 => i - 1 \in 1..(Len(q) - 1) /\ (i - 1) + 1 = i
    BY <2>1
  <2> QED  BY <1>4, <2>1, <2>2
<1>8. /\ \A i \in LastOf(Gets(r, c)) : i + 1 \in LastOf(Gets(q, c)) /\ r[i] = q[i + 1]
      /\ Gets(r, c) = {} => Gets(q, c) = {}
  <2>1. \A i \in Gets(r, c) : i \in Nat /\ i >= 1 /\ i + 1 \in Gets(q, c) /\ r[i] = q[i + 1]
    BY <1>6 DEF Gets
  <2>2. \A i \in Gets(q, c) : i \in Nat /\ i # 1 /\ i - 1 \in Gets(r, c)
    <3>1. 1 \notin Gets(q, c)
      BY <1>3 DEF Gets, IsGet, IsSet
    <3> QED  BY <1>7, <3>1 DEF Gets
  <2> QED  BY <2>1, <2>2, LastOfTail DEF LastOf
<1>9. /\ \A i \in LastOf(Sets(r, c)) : i + 1 \in LastOf(Sets(q, c)) /\ r[i] = q[i + 1]
      /\ Sets(r, c) = {} => 1 \in LastOf(Sets(q, c))
  <2>1. \A i \in Sets(r, c) : i \in Nat /\ i >= 1 /\ i + 1 \in Sets(q, c) /\ r[i] = q[i + 1]
    BY <1>6 DEF Sets
  <2>2. \A i \in Sets(q, c) : i \in Nat /\ (i = 1 \/ i - 1 \in Sets(r, c))
    BY <1>7 DEF Sets
  <2>3. 1 \in Sets(q, c)
    BY <1>p, <1>3 DEF Sets
  <2>4. /\ \A i \in LastOf(Sets(r, c)) : i + 1 \in LastOf(Sets(q, c))
        /\ Sets(r, c) = {} => Sets(q, c) \subseteq LastOf(Sets(q, c))
    BY <2>1, <2>2, LastOfTail
  <2>5. LastOf(Sets(r, c)) \subseteq Sets(r, c)
    BY DEF LastOf
  <2> QED  BY <2>1, <2>3, <2>4, <2>5
<1>10. /\ home[c] = s
       /\ \A i \in LastOf(Gets(q, c)) : Names(q[i], c)
       /\ Gets(q, c) = {} => \A i \in LastOf(Sets(q, c)) : Names(q[i], c)
  <2>1. Follows(c) /\ home[c] = s
    BY <1>p, <1>1 DEF CellInv
  <2> QED  BY <1>p, <2>1 DEF Follows
<1>11. \A v : Names(v, c)' <=> Names(v, c)
  BY DEF Names
<1>12. \A i \in LastOf(Gets(r, c)) : Names(r[i], c)
  BY <1>8, <1>10
<1>13. Gets(r, c) = {} => \A i \in LastOf(Sets(r, c)) : Names(r[i], c)
  BY <1>8, <1>9, <1>10
<1>14. ASSUME Gets(r, c) = {}, Sets(r, c) = {} PROVE cell'[c] = CellAt(pos'[c])
  <2>1. Names(t, c)
    BY <1>3, <1>8, <1>9, <1>10, <1>14
  <2>2. CellAt(pos[c]) \in Cells
    BY <2>1 DEF Names, Cells
  <2> QED  BY <1>p, <1>10, <2>1, <2>2, CellGroup DEF Names
<1> QED
  BY <1>p, <1>5, <1>10, <1>11, <1>12, <1>13, <1>14 DEF Follows

-------------------------------------------------------------------------------
(* CellInv is inductive. *)

LEMMA CellInvInit == CellInit => CellInv
<1> SUFFICES ASSUME CellInit PROVE CellInv
  OBVIOUS
<1>1. CellTypeOK /\ home \in [Clients -> Servers] /\ known \subseteq Groups \cup {None}
  BY DEF CellInit, CellTypeOK
<1>2. pipe \in [Servers -> Seq(CellTasks)] /\ \A s \in Servers : DOMAIN pipe[s] = {}
  BY PlainSeq DEF CellInit
<1>3. ASSUME NEW c \in Clients PROVE Follows(c)
  <2>1. DOMAIN pipe[home[c]] = {} /\ cell[c] = None
    BY <1>1, <1>2 DEF CellInit
  <2> QED  BY <2>1 DEF Follows, Gets, Sets, LastOf
<1> QED  BY <1>1, <1>2, <1>3 DEF CellInv

LEMMA KnownKept ==
    ASSUME CellInv, NEW s \in Servers, ServerStep(s)
    PROVE  known' \subseteq Groups \cup {None}
<1>1. CASE PushEnd(s)
  <2>1. pipe[s] # <<>> /\ Head(pipe[s]) \in CellTasks
    BY <1>1, PlainSeq, StepElements DEF PushEnd, PushWriteGroup, Running, CellInv
  <2> QED  BY <1>1, <2>1 DEF PushEnd, CellTasks, CellInv
<1>2. CASE ~PushEnd(s)
  <2>1. known' = known
    BY <1>2 DEF ServerStep, CreateEntry, Get, Push, Remove, RemoveEnd, Erase, LeaveAllGroups,
           GetClient, SetClient, CheckSender, NotifyGroup
  <2> QED  BY <2>1 DEF CellInv
<1> QED  BY <1>1, <1>2

LEMMA CellInvClient ==
    ASSUME CellInv, NEW c \in Clients, CellClient(c)
    PROVE  CellInv'
<1>t. /\ CellTypeOK /\ home \in [Clients -> Servers] /\ home[c] \in Servers
      /\ known \subseteq Groups \cup {None} /\ Positions \subseteq [x : Int, y : Int, z : Int]
  BY CellsAssumption DEF CellInv
<1>k. ASSUME CellTypeOK', home' = home, known' \subseteq Groups \cup {None},
             cell' = cell, pos' = pos, Aside(home[c])
      PROVE  CellInv'
  <2>1. \A x \in Clients : cell'[x] = cell[x] /\ pos'[x] = pos[x]
    BY <1>k
  <2> QED  BY <1>t, <1>k, <2>1, AsideKeeps DEF CellInv
<1>1. ASSUME NEW p \in Route[c], PositionUpdate(c, p) PROVE CellInv'
  <2>1. p \in Positions
    BY CellsAssumption
  <2>2. /\ pos' = [pos EXCEPT ![c] = p] /\ home' = home /\ cell' = cell /\ known' = known
        /\ timers' = timers
        /\ Issue(home[c], <<Task("cell.get", "position", c, GroupOf[home[c]][CellAt(p)])>>)
    BY <1>1 DEF PositionUpdate, outside
  <2>3. CellTypeOK'
    BY <1>t, <2>1, <2>2 DEF CellTypeOK
  <2>4. /\ pipe' \in [Servers -> Seq(CellTasks)]
        /\ \A z \in Servers : \A i \in DOMAIN pipe'[z] : CellTask(pipe[z][i], z)'
        /\ \A x \in Clients : Follows(x)'
    BY <2>1, <2>2, UpdateFollows
  <2> QED  BY <1>t, <2>2, <2>3, <2>4 DEF CellInv
<1>2. CASE CastUpdate(c)
  <2>1. UNCHANGED <<outside, cellVars>>
        /\ Issue(home[c], <<Task("cell.get", "cast", c, None)>>)
    BY <1>2 DEF CastUpdate
  <2>2. Task("cell.get", "cast", c, None) \in CellTasks
        /\ \A x : Other(Task("cell.get", "cast", c, None), x)
    BY DEF Task, CellTasks, Other, IsGet, IsSet
  <2>3. Aside(home[c])
    BY <1>t, <2>1, <2>2, IssueAside
  <2> QED  BY <1>t, <1>k, <2>1, <2>3 DEF outside, cellVars, CellTypeOK
<1>3. ASSUME NEW g \in Groups, Delayed(c, g) PROVE CellInv'
  <2>1. /\ timers' = timers \ {<<c, g>>} /\ UNCHANGED <<outside, cell, pos>>
        /\ Issue(home[c], <<Task("notify.lrange", "position", c, g)>>)
    BY <1>3 DEF Delayed
  <2>2. Task("notify.lrange", "position", c, g) \in CellTasks
        /\ \A x : Other(Task("notify.lrange", "position", c, g), x)
    BY DEF Task, CellTasks, Other, IsGet, IsSet, Steps
  <2>3. Aside(home[c])
    BY <1>t, <2>1, <2>2, IssueAside
  <2> QED  BY <1>t, <1>k, <2>1, <2>3 DEF outside, CellTypeOK
<1>4. CASE Expire(c)
  <2>1. /\ UNCHANGED <<pipe, outside, pos, timers>> /\ cell' = [cell EXCEPT ![c] = None]
        /\ Pending(c) = {}
    BY <1>4 DEF Expire
  <2>2. CellTypeOK'
    BY <1>t, <2>1 DEF CellTypeOK, outside
  <2>3. ASSUME NEW x \in Clients PROVE Follows(x)'
    <3>1. Follows(x) /\ (cell'[x] = cell[x] \/ cell'[x] = None)
      BY <1>t, <2>1 DEF CellInv, CellTypeOK
    <3> QED  BY <2>1, <3>1 DEF Follows, Names, outside
  <2>4. \A z \in Servers : \A i \in DOMAIN pipe'[z] : CellTask(pipe[z][i], z)'
    BY <2>1 DEF CellInv, CellTask, outside
  <2> QED  BY <1>t, <2>1, <2>2, <2>3, <2>4 DEF CellInv, outside
<1>5. CASE ClientStep(c) /\ UNCHANGED cellVars
  <2>1. known' = known
    BY <1>5 DEF ClientStep, CreateGroup, DeleteGroup, JoinGroup, LeaveGroup, BroadcastGroup,
                Close, Request
  <2> QED  BY <1>t, <1>k, <1>5, <2>1, ClientAside DEF cellVars, CellTypeOK
<1> QED  BY <1>1, <1>2, <1>3, <1>4, <1>5 DEF CellClient

LEMMA Pair ==
    ASSUME NEW a, NEW x
    PROVE  <<a>> \o (<<x>> \o <<>>) = <<a, x>> /\ <<a>> \o <<x>> = <<a, x>>
<1>1. <<a>> \o <<x>> = <<a, x>>
  <2>1. /\ <<a>> \in Seq({a, x}) /\ <<x>> \in Seq({a, x}) /\ <<a, x>> \in Seq({a, x})
        /\ Len(<<a>>) = 1 /\ Len(<<x>>) = 1 /\ Len(<<a, x>>) = 2
    OBVIOUS
  <2>2. /\ <<a>> \o <<x>> \in Seq({a, x}) /\ Len(<<a>> \o <<x>>) = 2
        /\ \A i \in 1..2 : (<<a>> \o <<x>>)[i] = IF i <= 1 THEN <<a>>[i] ELSE <<x>>[i - 1]
    BY <2>1, ConcatProperties
  <2>3. \A i \in 1..2 : (<<a>> \o <<x>>)[i] = <<a, x>>[i]
    BY <2>2
  <2> QED  BY <2>1, <2>2, <2>3, SeqEqual
<1>2. <<x>> \o <<>> = <<x>>
  <2>1. <<x>> \in Seq({x})
    OBVIOUS
  <2> QED  BY <2>1, ConcatEmptySeq
<1> QED  BY <1>1, <1>2

LEMMA CellInvServer ==
    ASSUME CellInv, NEW s \in Servers, CellServer(s)
    PROVE  CellInv'
<1> DEFINE t == Head(pipe[s])
<1>t. /\ CellTypeOK /\ home \in [Clients -> Servers] /\ pipe[s] \in Seq(CellTasks)
      /\ known \subseteq Groups \cup {None}
  BY DEF CellInv
<1>k. ASSUME CellTypeOK', home' = home, known' \subseteq Groups \cup {None},
             cell' = cell, pos' = pos, Aside(s)
      PROVE  CellInv'
  <2>1. \A x \in Clients : cell'[x] = cell[x] /\ pos'[x] = pos[x]
    BY <1>k
  <2> QED  BY <1>t, <1>k, <2>1, AsideKeeps DEF CellInv
<1>h. ASSUME NEW step, Running(s, step)
      PROVE  pipe[s] # <<>> /\ t \in CellTasks /\ t.step = step /\ t.c \in Clients
  <2>1. pipe[s] # <<>> /\ t.step = step
    BY <1>h DEF Running
  <2>2. t \in CellTasks
    BY <1>t, <2>1, PlainSeq, StepElements
  <2> HIDE DEF t
  <2> QED  BY <2>1, <2>2 DEF CellTasks
<1>1. CASE GetForUpdate(s)
  <2>p. PICK h : h = t
    OBVIOUS
  <2> DEFINE u == IF cell[h.c] # CellOf(s, h.g) THEN Task("get.hget", "join", h.c, h.g)
                                                ELSE At(h, "notify.lrange")
             f == <<At(h, "cell.set"), u>>
  <2>1. /\ pipe[s] # <<>> /\ h \in CellTasks /\ IsGet(h) /\ h = Head(pipe[s]) /\ h.c \in Clients
        /\ UNCHANGED <<outside, cell, pos>>
        /\ timers' = IF cell[h.c] # CellOf(s, h.g) THEN timers \cup {<<h.c, h.g>>} ELSE timers
    BY <1>1, <1>h, <2>p DEF GetForUpdate, IsGet
  <2>2. Reply(s, f)
    <3>1. Moved(s, h, cell[h.c]) = f
      <4>2. CASE cell[h.c] # CellOf(s, h.g)
        BY <4>2, Pair DEF Moved, LeaveOld
      <4>3. CASE ~(cell[h.c] # CellOf(s, h.g))
        BY <4>3, Pair DEF Moved
      <4> QED  BY <4>2, <4>3
    <3> QED  BY <1>1, <2>p, <3>1 DEF GetForUpdate
  <2>3. Plain(u)
    <3>1. Plain(Task("get.hget", "join", h.c, h.g))
      BY <2>1, PlainNew, StepsKnown DEF CellTasks, AllOps
    <3>2. Plain(At(h, "notify.lrange"))
      BY <2>1, PlainAt, StepsKnown
    <3> QED  BY <3>1, <3>2
  <2>4. u \in CellTasks /\ \A x : Other(u, x)
    BY <2>3, PlainTask
  <2>5. At(h, "cell.set") \in CellTasks /\ At(h, "cell.set").c = h.c
        /\ At(h, "cell.set").g = h.g
    BY <2>1 DEF At, CellTasks
  <2>6. /\ f \in Seq(CellTasks) /\ DOMAIN f = {1, 2}
        /\ f[1] = At(h, "cell.set") /\ f[2] = u
    BY <2>4, <2>5
  <2>7. home[h.c] = s /\ \E v \in Cells : h.g = GroupOf[s][v]
    <3>1. 1 \in DOMAIN pipe[s] /\ h = pipe[s][1]
      BY <1>t, <2>1, PlainSeq, StepElements
    <3>2. CellTask(pipe[s][1], s)
      BY <3>1 DEF CellInv
    <3> QED  BY <2>1, <3>1, <3>2 DEF CellTask
  <2>8. CellTask(f[1], s) /\ CellTask(f[2], s)
    <3>1. CellTask(u, s)
      BY <2>4 DEF CellTask, Other
    <3>2. CellTask(At(h, "cell.set"), s)
      BY <2>5, <2>7 DEF CellTask
    <3> QED  BY <2>6, <3>1, <3>2
  <2>9. \A x \in Clients \ {h.c} : \A i \in DOMAIN f : Other(f[i], x)
    BY <2>4, <2>5, <2>6 DEF Other
  <2>10. home' = home /\ cell' = cell /\ pos' = pos /\ known' = known
    BY <2>1 DEF outside
  <2>11. CellTypeOK'
    <3>1. h.g \in Groups
      BY <2>7, CellGroup
    <3> QED  BY <1>t, <2>1, <2>10, <3>1 DEF CellTypeOK
  <2>12. Follows(h.c)'
    BY <2>1, <2>2, <2>4, <2>7, <2>10, GetFollows
  <2> HIDE DEF f, u
  <2>13. \A i \in DOMAIN f : CellTask(f[i], s)
    BY <2>6, <2>8
  <2>14. /\ pipe' \in [Servers -> Seq(CellTasks)]
         /\ \A z \in Servers : \A i \in DOMAIN pipe'[z] : CellTask(pipe[z][i], z)'
         /\ \A x \in Clients \ {h.c} : Follows(x)'
    BY <2>1, <2>2, <2>6, <2>9, <2>10, <2>13, HeadOthers
  <2> QED  BY <1>t, <2>10, <2>11, <2>12, <2>14 DEF CellInv
<1>2. CASE SetCell(s)
  <2>p. PICK h : h = t
    OBVIOUS
  <2>1. /\ pipe[s] # <<>> /\ h \in CellTasks /\ IsSet(h) /\ h = Head(pipe[s]) /\ h.c \in Clients
        /\ UNCHANGED <<outside, pos, timers>> /\ Reply(s, <<>>)
        /\ cell' = [cell EXCEPT ![h.c] = CellOf(s, h.g)]
    BY <1>2, <1>h, <2>p DEF SetCell, IsSet
  <2>2. home' = home /\ pos' = pos /\ known' = known
    BY <2>1 DEF outside
  <2>f. PICK f \in Seq(CellTasks) : f = <<>> /\ DOMAIN f = {}
    BY PlainSeq
  <2>3. Reply(s, f) /\ \A i \in DOMAIN f : CellTask(f[i], s)
    BY <2>1, <2>f
  <2>4. \A x \in Clients \ {h.c} : cell'[x] = cell[x] /\ \A i \in DOMAIN f : Other(f[i], x)
    BY <1>t, <2>1, <2>f DEF CellTypeOK
  <2>5. /\ home[h.c] = s /\ \E v \in Cells : h.g = GroupOf[s][v]
        /\ pipe' \in [Servers -> Seq(CellTasks)]
        /\ \A z \in Servers : \A i \in DOMAIN pipe'[z] : CellTask(pipe[z][i], z)'
        /\ \A x \in Clients \ {h.c} : Follows(x)'
    BY <2>1, <2>2, <2>3, <2>4, HeadOthers
  <2>6. cell'[h.c] = CellOf(s, h.g)
    BY <1>t, <2>1 DEF CellTypeOK
  <2>7. Follows(h.c)'
    BY <2>1, <2>2, <2>5, <2>6, SetFollows
  <2>8. CellTypeOK'
    <3>1. CellOf(s, h.g) \in Cells
      BY <2>5, CellGroup
    <3> QED  BY <1>t, <2>1, <3>1 DEF CellTypeOK
  <2> QED  BY <1>t, <2>2, <2>5, <2>7, <2>8 DEF CellInv
<1>3. CASE GetForCast(s)
  <2>1. /\ pipe[s] # <<>> /\ t \in CellTasks /\ t.c \in Clients /\ t.job = "cast"
        /\ t.step = "cell.get" /\ UNCHANGED <<outside, cellVars>>
    BY <1>3, <1>h DEF GetForCast
  <2>2. \A x : Other(t, x)
    BY <2>1 DEF Other, IsGet, IsSet
  <2> DEFINE u == Task("notify.lrange", "cast", t.c, GroupOf[s][cell[t.c]])
  <2>3. CASE Reply(s, <<>>)
    <3>1. Aside(s)
      BY <2>1, <2>2, <2>3, PlainSeq, ReplyAside
    <3> QED  BY <1>t, <1>k, <2>1, <3>1 DEF outside, cellVars, CellTypeOK
  <2>4. CASE cell[t.c] # None /\ Reply(s, <<u>>)
    <3>1. cell[t.c] \in Cells
      BY <1>t, <2>1, <2>4 DEF CellTypeOK
    <3>2. GroupOf[s][cell[t.c]] \in Groups
      BY <3>1, CellGroup
    <3>3. Plain(u)
      BY <2>1, <3>2, StepsKnown DEF Plain, Task, CellTasks
    <3> HIDE DEF u
    <3>4. <<u>> \in Seq(CellTasks) /\ \A i \in DOMAIN <<u>> : Plain(<<u>>[i])
      BY <3>3, PlainSeq
    <3>5. \A x : \A i \in DOMAIN <<u>> : Other(<<u>>[i], x)
      BY <3>4, PlainTask
    <3>6. Aside(s)
      BY <2>1, <2>2, <2>4, <3>4, <3>5, ReplyAside
    <3> QED  BY <1>t, <1>k, <2>1, <3>6 DEF outside, cellVars, CellTypeOK
  <2> QED  BY <1>3, <2>3, <2>4 DEF GetForCast
<1>4. CASE ServerStep(s) /\ UNCHANGED cellVars
  BY <1>t, <1>k, <1>4, ServerAside, KnownKept DEF cellVars, CellTypeOK
<1> QED  BY <1>1, <1>2, <1>3, <1>4 DEF CellServer

LEMMA CellInvariant == CellSpec => []CellInv
<1>1. CellInv /\ [CellNext]_<<vars, cellVars>> => CellInv'
  <2>1. CASE UNCHANGED <<vars, cellVars>>
    BY <2>1, SMTT(20) DEF vars, cellVars, CellInv, CellTypeOK, Follows, CellTask, Names
  <2>2. CellInv /\ CellNext => CellInv'
    BY CellInvClient, CellInvServer DEF CellNext
  <2> QED  BY <2>1, <2>2
<1> QED  BY CellInvInit, <1>1, PTL DEF CellSpec

-------------------------------------------------------------------------------
(* The stored cells are cells of the grid, the positions those of clients,  *)
(* and delayed broadcasts go to groups.                                     *)
THEOREM CellTypes == CellSpec => []CellTypeOK
<1>1. CellInv => CellTypeOK
  BY DEF CellInv
<1> QED  BY <1>1, CellInvariant, PTL

(* However the updates of a client overlap, with each other and with its    *)
(* joins, the cell that stays is that of its latest position.               *)
THEOREM LatestStays == CellSpec => []LatestCell
<1>1. CellInv => LatestCell
  <2> SUFFICES ASSUME CellInv, NEW c \in Clients, Settled(c), cell[c] # None
               PROVE  cell[c] = CellAt(pos[c])
    BY DEF LatestCell
  <2>1. Gets(pipe[home[c]], c) = {} /\ Sets(pipe[home[c]], c) = {}
    BY DEF Settled, Pending, Gets, Sets
  <2> QED  BY <2>1 DEF CellInv, Follows
<1> QED  BY <1>1, CellInvariant, PTL

(* A client's position lies within half an edge of the point its cell is    *)
(* mapped back to, on both sides of zero and in both kinds of worlds.       *)
THEOREM CellsHoldPositions == CellSpec => []CellHoldsPosition
<1>1. CellInv => CellHoldsPosition
  <2> SUFFICES ASSUME CellInv, NEW c \in Clients, pos[c] # None,
                      NEW centre, centre = GridToWorld(CellAt(pos[c]), GridSize, IsUnity3D)
               PROVE  /\ Within(pos[c].x, centre.x)
                      /\ Within(Second(pos[c], IsUnity3D), Second(centre, IsUnity3D))
    BY DEF CellHoldsPosition
  <2>1. /\ pos[c].x \in Int /\ pos[c].y \in Int /\ pos[c].z \in Int
        /\ GridSize \in Nat \ {0} /\ GridSize % 2 = 0
    BY CellsAssumption DEF CellInv, CellTypeOK
  <2>2. Second(pos[c], IsUnity3D) \in Int
    BY <2>1 DEF Second
  <2>3. /\ CellAt(pos[c]).x = (pos[c].x + (GridSize \div 2)) \div GridSize
        /\ CellAt(pos[c]).y = (Second(pos[c], IsUnity3D) + (GridSize \div 2)) \div GridSize
    BY DEF CellAt, WorldToGrid, Vector
  <2>4. /\ centre.x = CellAt(pos[c]).x * GridSize
        /\ Second(centre, IsUnity3D) = CellAt(pos[c]).y * GridSize
    BY DEF GridToWorld, Vector, Second
  <2>5. \A a \in Int : Within(a, ((a + (GridSize \div 2)) \div GridSize) * GridSize)
    BY <2>1, WithinHalf DEF Within
  <2> QED  BY <2>1, <2>2, <2>3, <2>4, <2>5
<1> QED  BY <1>1, CellInvariant, PTL

-------------------------------------------------------------------------------
(* The groups of the cells.  As long as nobody asks to leave a group or to  *)
(* delete one, clients are taken out of lists by their CLOSE only.  So a    *)
(* client that is connected has only joins under way.                       *)

UpdatesAndJoins == Ops \cap {"leave", "delete"} = {}

Queued(s) == Range(pipe[s])

CellJobs == {"join", "broadcast", "close", "position", "cast"}

InMove(t, s) ==
    /\ home[t.c] = s
    /\ t.step \notin EraseSteps \cup {"create.hset"}
    /\ t.job \in CellJobs
    /\ t.step \in PushSteps => t.job = "join"
    /\ t.step = "get.hget" => t.job \in {"join", "close"}
    /\ t.step \in RemoveSteps \cup {"close.lrange"} => t.job = "close"
    /\ t.step \in {"client.hget", "client.hset", "client.lrange"} => t.job = "broadcast"
    /\ t.step \notin {"close.lrange", "cell.get"} => t.g \in Groups
    /\ t.job = "close" => t.c \notin online

AllInMove == \A s \in Servers : \A t \in Queued(s) : InMove(t, s)

Joins(t, c, g) == t.c = c /\ t.g = g /\ t.job = "join"

(* The group's list follows the client's.                                   *)
Both(c, g) ==
    /\ members[g][c] > 0 => groupsOf[c][g] > 0
    /\ \A t \in Queued(home[c]) :
          Joins(t, c, g) /\ t.step = "push.lpushGroup" => groupsOf[c][g] > 0
    /\ groupsOf[c][g] > 0 /\ members[g][c] = 0 =>
          \E t \in Queued(home[c]) : Joins(t, c, g) /\ t.step = "push.lpushGroup"

(* A client is in a group or on its way into its own list of groups.        *)
Entering == {"get.hget", "push.lrangeGroup", "push.lrangeClient", "push.lpushClient"}

Entered(c, g) ==
    \/ groupsOf[c][g] > 0
    \/ \E t \in Queued(home[c]) : Joins(t, c, g) /\ t.step \in Entering

(* The cell that is stored, and those that are going to be.                 *)
Dwells(c) ==
    /\ cell[c] # None => Entered(c, GroupOf[home[c]][cell[c]])
    /\ \A t \in Queued(home[c]) : t.c = c /\ t.step = "cell.set" => Entered(c, t.g)

(* One of the two has been told of the other, or will be.                   *)
Acquainted(x, y, g) ==
    \/ <<x, y>> \in knows[g]
    \/ <<y, x>> \in knows[g]
    \/ \E t \in Queued(home[x]) :
          t.step = "notify.lrange" /\ (Joins(t, x, g) \/ Joins(t, y, g))

Together(x, y, g) == /\ x # y /\ home[x] = home[y]
                     /\ members[g][x] > 0 /\ members[g][y] > 0

Lists == /\ registry = Groups /\ minted = Groups /\ known \subseteq Groups
         /\ online \subseteq Clients
         /\ members \in [Groups -> [Clients -> Nat]]
         /\ groupsOf \in [Clients -> [Groups -> Nat]]
         /\ knows \in [Groups -> SUBSET (Clients \X Clients)]

Dwelling ==
    /\ Lists
    /\ AllInMove
    /\ \A c \in online, g \in Groups : Both(c, g)
    /\ \A c \in online : Dwells(c)
    /\ \A x \in online, y \in online, g \in Groups : Together(x, y, g) => Acquainted(x, y, g)

-------------------------------------------------------------------------------
(* What a step does to a pipeline: commands go out and others come in.      *)

Turns(s, out, us) ==
    /\ \A u \in Servers : Queued(u)' \subseteq Queued(u) \cup (IF u = s THEN us ELSE {})
    /\ \A u \in Servers : Queued(u) \subseteq Queued(u)' \cup (IF u = s THEN out ELSE {})
    /\ us \subseteq Queued(s)'

LEMMA IssueTurns ==
    ASSUME CellInv, NEW s \in Servers, NEW f \in Seq(CellTasks), Issue(s, f)
    PROVE  Turns(s, {}, Range(f))
<1> DEFINE q == pipe[s]
           r == q \o f
<1>1. pipe \in [Servers -> Seq(CellTasks)] /\ q \in Seq(CellTasks)
  BY DEF CellInv
<1>2. /\ DOMAIN q = 1..Len(q) /\ DOMAIN f = 1..Len(f) /\ Len(q) \in Nat /\ Len(f) \in Nat
      /\ DOMAIN r = 1..(Len(q) + Len(f))
      /\ \A i \in DOMAIN r : r[i] = IF i <= Len(q) THEN q[i] ELSE f[i - Len(q)]
  BY <1>1, AppendElements, LenProperties
<1>3. pipe'[s] = r /\ \A u \in Servers \ {s} : pipe'[u] = pipe[u]
  BY <1>1 DEF Issue
<1> HIDE DEF q, r
<1>4. Range(r) \subseteq Range(q) \cup Range(f)
  <2> SUFFICES ASSUME NEW i \in DOMAIN r PROVE r[i] \in Range(q) \cup Range(f)
    BY DEF Range
  <2>1. CASE i <= Len(q)
    BY <1>2, <2>1 DEF Range
  <2>2. CASE ~(i <= Len(q))
    <3>1. i - Len(q) \in DOMAIN f
      BY <1>2, <2>2
    <3> QED  BY <1>2, <2>2, <3>1 DEF Range
  <2> QED  BY <2>1, <2>2
<1>5. Range(q) \subseteq Range(r)
  <2> SUFFICES ASSUME NEW i \in DOMAIN q PROVE q[i] \in Range(r)
    BY DEF Range
  <2>1. i \in DOMAIN r /\ r[i] = q[i]
    BY <1>2
  <2> QED  BY <2>1 DEF Range
<1>6. Range(f) \subseteq Range(r)
  <2> SUFFICES ASSUME NEW i \in DOMAIN f PROVE f[i] \in Range(r)
    BY DEF Range
  <2>1. i + Len(q) \in DOMAIN r /\ ~(i + Len(q) <= Len(q)) /\ (i + Len(q)) - Len(q) = i
    BY <1>2
  <2>2. r[i + Len(q)] = f[i]
    BY <1>2, <2>1
  <2> QED  BY <2>1, <2>2 DEF Range
<1> QED  BY <1>3, <1>4, <1>5, <1>6 DEF Turns, Queued, q

LEMMA ReplyTurns ==
    ASSUME CellInv, NEW s \in Servers, pipe[s] # <<>>, NEW f \in Seq(CellTasks), Reply(s, f),
           NEW t, t = Head(pipe[s])
    PROVE  t \in Queued(s) /\ Turns(s, {t}, Range(f))
<1> DEFINE q == pipe[s]
           r == Tail(q) \o f
<1>1. pipe \in [Servers -> Seq(CellTasks)] /\ q \in Seq(CellTasks)
  BY DEF CellInv
<1>2. /\ t = q[1] /\ 1 \in DOMAIN q
      /\ DOMAIN q = 1..Len(q) /\ DOMAIN f = 1..Len(f) /\ Len(q) \in Nat \ {0} /\ Len(f) \in Nat
      /\ DOMAIN r = 1..(Len(q) - 1 + Len(f))
      /\ \A i \in DOMAIN r : r[i] = IF i < Len(q) THEN q[i + 1] ELSE f[i - Len(q) + 1]
  BY <1>1, StepElements, LenProperties, EmptySeq
<1>3. pipe'[s] = r /\ \A u \in Servers \ {s} : pipe'[u] = pipe[u]
  BY <1>1 DEF Reply
<1> HIDE DEF q, r
<1>4. Range(r) \subseteq Range(q) \cup Range(f)
  <2> SUFFICES ASSUME NEW i \in DOMAIN r PROVE r[i] \in Range(q) \cup Range(f)
    BY DEF Range
  <2>1. CASE i < Len(q)
    <3>1. i + 1 \in DOMAIN q
      BY <1>2, <2>1
    <3> QED  BY <1>2, <2>1, <3>1 DEF Range
  <2>2. CASE ~(i < Len(q))
    <3>1. i - Len(q) + 1 \in DOMAIN f
      BY <1>2, <2>2
    <3> QED  BY <1>2, <2>2, <3>1 DEF Range
  <2> QED  BY <2>1, <2>2
<1>5. Range(q) \subseteq Range(r) \cup {t}
  <2> SUFFICES ASSUME NEW i \in DOMAIN q, i # 1 PROVE q[i] \in Range(r)
    BY <1>2 DEF Range
  <2>1. i - 1 \in DOMAIN r /\ i - 1 < Len(q) /\ (i - 1) + 1 = i
    BY <1>2
  <2>2. r[i - 1] = q[i]
    BY <1>2, <2>1
  <2> QED  BY <2>1, <2>2 DEF Range
<1>6. Range(f) \subseteq Range(r)
  <2> SUFFICES ASSUME NEW i \in DOMAIN f PROVE f[i] \in Range(r)
    BY DEF Range
  <2> DEFINE j == i + Len(q) - 1
  <2>1. j \in DOMAIN r /\ ~(j < Len(q)) /\ j - Len(q) + 1 = i
    BY <1>2
  <2> HIDE DEF j
  <2>2. r[j] = f[i]
    BY <1>2, <2>1
  <2> QED  BY <2>1, <2>2 DEF Range
<1>7. t \in Range(q)
  BY <1>2 DEF Range
<1> QED  BY <1>3, <1>4, <1>5, <1>6, <1>7 DEF Turns, Queued, q

(* The commands of short sequences. *)
LEMMA RangeShort ==
    /\ Range(<<>>) = {}
    /\ \A t : Range(<<t>>) = {t}
    /\ \A t, u : Range(<<t, u>>) = {t, u}
<1>1. Range(<<>>) = {}
  BY DEF Range
<1>2. ASSUME NEW t PROVE Range(<<t>>) = {t}
  <2>1. DOMAIN <<t>> = {1} /\ <<t>>[1] = t
    OBVIOUS
  <2> QED  BY <2>1 DEF Range
<1>3. ASSUME NEW t, NEW u PROVE Range(<<t, u>>) = {t, u}
  <2>1. DOMAIN <<t, u>> = {1, 2} /\ <<t, u>>[1] = t /\ <<t, u>>[2] = u
    OBVIOUS
  <2> QED  BY <2>1 DEF Range
<1> QED  BY <1>1, <1>2, <1>3

LEMMA QueuedTasks ==
    ASSUME CellInv, NEW s \in Servers, NEW t \in Queued(s)
    PROVE  t \in CellTasks /\ t.c \in Clients /\ CellTask(t, s)
<1>1. PICK i \in DOMAIN pipe[s] : t = pipe[s][i]
  BY DEF Queued, Range
<1>2. CellTask(pipe[s][i], s) /\ pipe[s] \in Seq(CellTasks)
  BY DEF CellInv
<1>3. t \in CellTasks
  BY <1>1, <1>2, ElementOfSeq, LenProperties
<1> QED  BY <1>1, <1>2, <1>3 DEF CellTasks

LEMMA Fields ==
    /\ \A t \in CellTasks, n \in Steps \cup {"cell.get", "cell.set"} :
          /\ At(t, n) \in CellTasks
          /\ At(t, n).step = n /\ At(t, n).job = t.job /\ At(t, n).c = t.c /\ At(t, n).g = t.g
    /\ \A n, j, c, g : LET t == Task(n, j, c, g) IN
          t.step = n /\ t.job = j /\ t.c = c /\ t.g = g
BY DEF At, CellTasks, Task

-------------------------------------------------------------------------------
(* What the command t does and which commands follow it, when no group is   *)
(* erased.                                                                  *)

Still == UNCHANGED <<members, groupsOf, knows, cell>>

Goes(s, t, us) ==
    \/ /\ t.step = "get.hget" /\ Still
       /\ us = {At(t, IF t.job = "join" THEN "push.lrangeGroup" ELSE "remove.lremClient")}
    \/ /\ t.step = "push.lrangeGroup" /\ Still
       /\ us = IF members[t.g][t.c] > 0 THEN {} ELSE {At(t, "push.lrangeClient")}
    \/ /\ t.step = "push.lrangeClient" /\ Still
       /\ us = IF groupsOf[t.c][t.g] > 0 THEN {} ELSE {At(t, "push.lpushClient")}
    \/ /\ t.step = "push.lpushClient" /\ UNCHANGED <<members, knows, cell>>
       /\ groupsOf' = [groupsOf EXCEPT ![t.c][t.g] = @ + 1]
       /\ us = {At(t, "push.lpushGroup")}
    \/ /\ t.step = "push.lpushGroup" /\ UNCHANGED <<groupsOf, knows, cell>>
       /\ members' = [members EXCEPT ![t.g][t.c] = @ + 1]
       /\ us = {At(t, "notify.lrange")}
    \/ /\ t.step = "remove.lremClient" /\ UNCHANGED <<members, knows, cell>>
       /\ groupsOf' = [groupsOf EXCEPT ![t.c][t.g] = 0]
       /\ us = {At(t, "remove.lremGroup")}
    \/ /\ t.step = "remove.lremGroup" /\ UNCHANGED <<groupsOf, cell>>
       /\ members' = [members EXCEPT ![t.g][t.c] = 0]
       /\ knows' = [knows EXCEPT ![t.g] = {p \in @ : p[1] # t.c}]
       /\ us = {At(t, "notify.lrange")}
    \/ /\ t.step = "close.lrange" /\ Still
       /\ \A u \in us : \E g \in Groups : u = Task("get.hget", "close", t.c, g)
    \/ /\ t.step \in {"client.hget", "client.hset", "client.lrange"} /\ Still
       /\ \A u \in us : \E n \in {"client.hset", "client.lrange", "notify.lrange"} : u = At(t, n)
    \/ /\ t.step = "notify.lrange" /\ UNCHANGED <<members, groupsOf, cell>>
       /\ knows' = [knows EXCEPT ![t.g] =
                       LET told == Reached(s, Audience(t)) IN
                       CASE t.job = "join" -> @ \cup (told \X {t.c})
                         [] t.job \in {"leave", "close"} -> @ \ (told \X {t.c})
                         [] t.job = "delete" -> {p \in @ : p[1] \notin told}
                         [] OTHER -> @]
       /\ us = {}
    \/ /\ t.step = "cell.get" /\ t.job = "position" /\ Still
       /\ us = {At(t, "cell.set"),
                IF cell[t.c] # CellOf(s, t.g) THEN Task("get.hget", "join", t.c, t.g)
                                              ELSE At(t, "notify.lrange")}
    \/ /\ t.step = "cell.get" /\ t.job = "cast" /\ Still
       /\ \A u \in us : \E g \in Groups : u = Task("notify.lrange", "cast", t.c, g)
    \/ /\ t.step = "cell.set" /\ UNCHANGED <<members, groupsOf, knows>>
       /\ cell' = [cell EXCEPT ![t.c] = CellOf(s, t.g)]
       /\ us = {}

Runs(s, t, us) == /\ Turns(s, {t}, us)
                  /\ Goes(s, t, us)
                  /\ UNCHANGED <<registry, minted, known, home, online>>

LEMMA ServerGoes ==
    ASSUME CellInv, Dwelling, NEW s \in Servers, CellServer(s)
    PROVE  \E t \in Queued(s) : \E us : Runs(s, t, us)
<1>p. PICK t : t = Head(pipe[s])
  OBVIOUS
<1> DEFINE Goal == \E us : /\ t \in Queued(s)
                           /\ Turns(s, {t}, us)
                           /\ Goes(s, t, us)
                           /\ UNCHANGED <<registry, minted, known, home, online>>
<1>t. pipe[s] \in Seq(CellTasks) /\ CellTypeOK
  BY DEF CellInv
<1>h. ASSUME NEW n, Running(s, n)
      PROVE  /\ pipe[s] # <<>> /\ t \in Queued(s) /\ t \in CellTasks /\ t.c \in Clients
             /\ t.step = n /\ InMove(t, s) /\ CellTask(t, s)
  <2>1. pipe[s] # <<>> /\ t.step = n
    BY <1>p, <1>h DEF Running
  <2>2. t = pipe[s][1] /\ 1 \in DOMAIN pipe[s]
    BY <1>t, <1>p, <2>1, StepElements, PlainSeq
  <2>3. t \in Queued(s)
    BY <2>2 DEF Queued, Range
  <2> QED  BY <2>1, <2>3, QueuedTasks DEF Dwelling, AllInMove
<1>n. ASSUME NEW n \in Steps \cup {"cell.get", "cell.set"}, t \in CellTasks
      PROVE  At(t, n) \in CellTasks /\ <<At(t, n)>> \in Seq(CellTasks) /\ <<>> \in Seq(CellTasks)
  <2>1. At(t, n) \in CellTasks
    BY <1>n, Fields
  <2> QED  BY <2>1, PlainSeq
<1>r. ASSUME pipe[s] # <<>>, NEW f \in Seq(CellTasks), Reply(s, f)
      PROVE  Turns(s, {t}, Range(f))
  BY <1>p, <1>r, ReplyTurns
<1>o. ASSUME NEW n \in Steps, NEW m \in Steps \cup {"cell.get", "cell.set"}, Running(s, n),
             Reply(s, <<At(t, m)>>)
      PROVE  Turns(s, {t}, {At(t, m)})
  BY <1>h, <1>n, <1>r, <1>o, RangeShort
<1>e. ASSUME NEW n, Running(s, n), Reply(s, <<>>)
      PROVE  Turns(s, {t}, {})
  BY <1>h, <1>r, <1>e, RangeShort, PlainSeq
<1>u. /\ t.g \in Groups => t.g \in registry
      /\ registry = Groups
  BY DEF Dwelling, Lists
<1>w. ASSUME NEW us, t \in Queued(s), Turns(s, {t}, us), Goes(s, t, us),
             UNCHANGED <<registry, minted, known, home, online>>
      PROVE  Goal
  BY <1>w
<1> HIDE DEF Goal
<1>0. ASSUME CreateEntry(s) \/ Erase(s) PROVE Goal
  BY <1>h, <1>0 DEF CreateEntry, Erase, EraseReadGroup, EraseWriteClient, EraseEntry,
                    EraseGroup, InMove, EraseSteps
<1>1. ASSUME Get(s), UNCHANGED cellVars PROVE Goal
  <2>1. Running(s, "get.hget")
    BY <1>1 DEF Get, GetGroupInstance
  <2>2. /\ t.g \in registry /\ t.job \in {"join", "close"} /\ t \in Queued(s)
        /\ t.step = "get.hget"
    BY <1>h, <1>u, <2>1, StepsKnown DEF InMove
  <2> DEFINE m == IF t.job = "join" THEN "push.lrangeGroup" ELSE "remove.lremClient"
  <2>3. Reply(s, Found(t)) /\ Found(t) = <<At(t, m)>>
    BY <1>1, <1>p, <2>2 DEF Get, GetGroupInstance, Found
  <2>4. m \in Steps /\ "get.hget" \in Steps
    BY StepsKnown DEF PushSteps, RemoveSteps
  <2>5. UNCHANGED <<registry, members, groupsOf, home, online, minted, known, knows, cell>>
    BY <1>1 DEF Get, GetGroupInstance, cellVars
  <2>6. Turns(s, {t}, {At(t, m)})
    BY <1>o, <2>1, <2>3, <2>4
  <2>7. Goes(s, t, {At(t, m)})
    BY <2>2, <2>5 DEF Goes, Still
  <2> QED  BY <1>w, <2>2, <2>5, <2>6, <2>7
<1>2. ASSUME PushReadGroup(s, Rejected(Head(pipe[s]))), UNCHANGED cellVars,
             UNCHANGED <<home, online, minted, known, knows>>
      PROVE  Goal
  <2>1. Running(s, "push.lrangeGroup") /\ "push.lrangeGroup" \in Steps
        /\ "push.lrangeClient" \in Steps
    BY <1>2, StepsKnown DEF PushReadGroup, PushSteps
  <2> DEFINE us == IF members[t.g][t.c] > 0 THEN {} ELSE {At(t, "push.lrangeClient")}
  <2>2. Turns(s, {t}, us)
    BY <1>2, <1>p, <1>o, <1>e, <2>1 DEF PushReadGroup, Rejected
  <2>3. Goes(s, t, us)
    BY <1>2, <1>h, <2>1 DEF PushReadGroup, Goes, Still, cellVars
  <2> QED  BY <1>2, <1>h, <1>w, <2>1, <2>2, <2>3 DEF PushReadGroup
<1>3. ASSUME PushReadClient(s, Rejected(Head(pipe[s]))), UNCHANGED cellVars,
             UNCHANGED <<home, online, minted, known, knows>>
      PROVE  Goal
  <2>1. Running(s, "push.lrangeClient") /\ "push.lrangeClient" \in Steps
        /\ "push.lpushClient" \in Steps
    BY <1>3, StepsKnown DEF PushReadClient, PushSteps
  <2> DEFINE us == IF groupsOf[t.c][t.g] > 0 THEN {} ELSE {At(t, "push.lpushClient")}
  <2>2. Turns(s, {t}, us)
    BY <1>3, <1>p, <1>o, <1>e, <2>1 DEF PushReadClient, Rejected
  <2>3. Goes(s, t, us)
    BY <1>3, <1>h, <2>1 DEF PushReadClient, Goes, Still, cellVars
  <2> QED  BY <1>3, <1>h, <1>w, <2>1, <2>2, <2>3 DEF PushReadClient
<1>4. ASSUME PushWriteClient(s), UNCHANGED cellVars,
             UNCHANGED <<home, online, minted, known, knows>>
      PROVE  Goal
  <2>1. Running(s, "push.lpushClient") /\ "push.lpushClient" \in Steps
        /\ "push.lpushGroup" \in Steps
    BY <1>4, StepsKnown DEF PushWriteClient, PushSteps
  <2>2. Turns(s, {t}, {At(t, "push.lpushGroup")})
    BY <1>4, <1>p, <1>o, <2>1 DEF PushWriteClient
  <2>3. Goes(s, t, {At(t, "push.lpushGroup")})
    BY <1>4, <1>h, <1>p, <2>1 DEF PushWriteClient, Goes, cellVars
  <2> QED  BY <1>4, <1>h, <1>w, <2>1, <2>2, <2>3 DEF PushWriteClient
<1>5. ASSUME PushEnd(s), UNCHANGED cellVars PROVE Goal
  <2>1. Running(s, "push.lpushGroup") /\ "push.lpushGroup" \in Steps
        /\ "notify.lrange" \in Steps
    BY <1>5, StepsKnown DEF PushEnd, PushWriteGroup, PushSteps
  <2>2. t.job = "join"
    BY <1>h, <2>1 DEF InMove, PushSteps
  <2>3. Turns(s, {t}, {At(t, "notify.lrange")}) /\ known' = known
    BY <1>5, <1>p, <1>o, <2>1, <2>2 DEF PushEnd, PushWriteGroup, Pushed, Notify
  <2>4. Goes(s, t, {At(t, "notify.lrange")})
    BY <1>5, <1>h, <1>p, <2>1 DEF PushEnd, PushWriteGroup, Goes, cellVars
  <2> QED  BY <1>5, <1>h, <1>w, <2>1, <2>3, <2>4 DEF PushEnd, PushWriteGroup
<1>6. ASSUME Remove(s), UNCHANGED cellVars PROVE Goal
  <2>1. Running(s, "remove.lremClient") /\ "remove.lremClient" \in Steps
        /\ "remove.lremGroup" \in Steps
    BY <1>6, StepsKnown DEF Remove, RemoveWriteClient, RemoveSteps
  <2>2. Turns(s, {t}, {At(t, "remove.lremGroup")})
    BY <1>6, <1>p, <1>o, <2>1 DEF Remove, RemoveWriteClient
  <2>3. Goes(s, t, {At(t, "remove.lremGroup")})
    BY <1>6, <1>h, <1>p, <2>1 DEF Remove, RemoveWriteClient, Goes, cellVars
  <2> QED  BY <1>6, <1>h, <1>w, <2>1, <2>2, <2>3 DEF Remove, RemoveWriteClient
<1>7. ASSUME RemoveEnd(s), UNCHANGED cellVars PROVE Goal
  <2>1. Running(s, "remove.lremGroup") /\ "remove.lremGroup" \in Steps
        /\ "notify.lrange" \in Steps
    BY <1>7, StepsKnown DEF RemoveEnd, RemoveWriteGroup, RemoveSteps
  <2>2. Turns(s, {t}, {At(t, "notify.lrange")})
    BY <1>7, <1>p, <1>o, <2>1 DEF RemoveEnd, RemoveWriteGroup, Notify
  <2>3. Goes(s, t, {At(t, "notify.lrange")})
    BY <1>7, <1>h, <1>p, <2>1 DEF RemoveEnd, RemoveWriteGroup, Goes, cellVars
  <2> QED  BY <1>7, <1>h, <1>w, <2>1, <2>2, <2>3 DEF RemoveEnd, RemoveWriteGroup
<1>8. ASSUME LeaveAllGroups(s), UNCHANGED cellVars PROVE Goal
  <2> DEFINE n == Cardinality(GroupsOfClient(t.c))
  <2>1. PICK order \in [1..n -> GroupsOfClient(t.c)] :
           Reply(s, [i \in DOMAIN order |-> Task("get.hget", "close", t.c, order[i])])
    BY <1>8, <1>p DEF LeaveAllGroups
  <2> DEFINE f == [i \in DOMAIN order |-> Task("get.hget", "close", t.c, order[i])]
  <2>2. /\ pipe[s] # <<>> /\ t \in Queued(s) /\ t.c \in Clients /\ t.step = "close.lrange"
    BY <1>h, <1>8 DEF LeaveAllGroups
  <2>3. n \in Nat /\ DOMAIN f = 1..n
    BY ListedFinite
  <2>4. \A i \in 1..n : order[i] \in Groups
    BY <2>1 DEF GroupsOfClient
  <2>5. ASSUME NEW i \in 1..n
        PROVE f[i] \in CellTasks /\ \E g \in Groups : f[i] = Task("get.hget", "close", t.c, g)
    <3>1. Plain(Task("get.hget", "close", t.c, order[i]))
      BY <2>2, <2>4, PlainNew, StepsKnown DEF AllOps
    <3> QED  BY <2>3, <2>4, <3>1, PlainTask
  <2>6. f \in Seq(CellTasks)
    BY <2>3, <2>5, SeqDef
  <2>7. Reply(s, f)
    BY <2>1
  <2> HIDE DEF f, n
  <2>8. \A u \in Range(f) : \E g \in Groups : u = Task("get.hget", "close", t.c, g)
    BY <2>3, <2>5 DEF Range
  <2>9. Turns(s, {t}, Range(f))
    BY <1>r, <2>2, <2>6, <2>7
  <2>10. Goes(s, t, Range(f))
    BY <1>8, <2>2, <2>8 DEF LeaveAllGroups, Goes, Still, cellVars
  <2> QED  BY <1>8, <1>w, <2>2, <2>9, <2>10 DEF LeaveAllGroups
<1>9. ASSUME NEW n \in {"client.hget", "client.hset", "client.lrange"}, Running(s, n),
             NEW m \in {"client.hset", "client.lrange", "notify.lrange"},
             Reply(s, <<At(t, m)>>) \/ Reply(s, <<>>),
             UNCHANGED <<registry, members, groupsOf, home, online, minted, known, knows, cell>>
      PROVE  Goal
  <2>1. t \in Queued(s) /\ t.step = n /\ n \in Steps /\ m \in Steps
    BY <1>h, <1>9, StepsKnown
  <2>2. CASE Reply(s, <<At(t, m)>>)
    <3>1. Turns(s, {t}, {At(t, m)})
      BY <1>9, <1>o, <2>1, <2>2
    <3>2. Goes(s, t, {At(t, m)})
      BY <1>9, <2>1 DEF Goes, Still
    <3> QED  BY <1>9, <1>w, <2>1, <3>1, <3>2
  <2>3. CASE Reply(s, <<>>)
    <3>1. Turns(s, {t}, {})
      BY <1>9, <1>e, <2>3
    <3>2. Goes(s, t, {})
      BY <1>9, <2>1 DEF Goes, Still
    <3> QED  BY <1>9, <1>w, <2>1, <3>1, <3>2
  <2> QED  BY <1>9, <2>2, <2>3
<1>10. ASSUME GetClient(s) \/ SetClient(s) \/ CheckSender(s), UNCHANGED cellVars PROVE Goal
  <2>1. UNCHANGED <<registry, members, groupsOf, home, online, minted, known, knows, cell>>
    BY <1>10 DEF GetClient, SetClient, CheckSender, cellVars
  <2>2. CASE GetClient(s)
    BY <1>p, <1>9, <2>1, <2>2 DEF GetClient
  <2>3. CASE SetClient(s)
    BY <1>p, <1>9, <2>1, <2>3 DEF SetClient
  <2>4. CASE CheckSender(s)
    BY <1>p, <1>9, <2>1, <2>4 DEF CheckSender, Notify, Rejected
  <2> QED  BY <1>10, <2>2, <2>3, <2>4
<1>11. ASSUME NotifyGroup(s), UNCHANGED cellVars PROVE Goal
  <2>1. Running(s, "notify.lrange")
    BY <1>11 DEF NotifyGroup
  <2>2. Turns(s, {t}, {})
    BY <1>11, <1>e, <2>1 DEF NotifyGroup
  <2>3. Goes(s, t, {})
    BY <1>11, <1>p, <1>h, <2>1 DEF NotifyGroup, Goes, cellVars
  <2> QED  BY <1>11, <1>h, <1>w, <2>1, <2>2, <2>3 DEF NotifyGroup
<1>12. ASSUME GetForUpdate(s) PROVE Goal
  <2>1. Running(s, "cell.get") /\ t.job = "position"
    BY <1>12, <1>p DEF GetForUpdate
  <2>2. /\ pipe[s] # <<>> /\ t \in Queued(s) /\ t \in CellTasks /\ t.c \in Clients
        /\ t.step = "cell.get"
    BY <1>h, <2>1
  <2> DEFINE u == IF cell[t.c] # CellOf(s, t.g) THEN Task("get.hget", "join", t.c, t.g)
                                                ELSE At(t, "notify.lrange")
             f == <<At(t, "cell.set"), u>>
  <2>3. Reply(s, f)
    <3>1. Moved(s, t, cell[t.c]) = f
      <4>1. CASE cell[t.c] # CellOf(s, t.g)
        BY <4>1, Pair DEF Moved, LeaveOld
      <4>2. CASE ~(cell[t.c] # CellOf(s, t.g))
        BY <4>2, Pair DEF Moved
      <4> QED  BY <4>1, <4>2
    <3> QED  BY <1>12, <1>p, <3>1 DEF GetForUpdate
  <2>4. u \in CellTasks
    <3>1. Plain(Task("get.hget", "join", t.c, t.g))
      BY <2>2, PlainNew, StepsKnown DEF CellTasks, AllOps
    <3>2. Plain(At(t, "notify.lrange"))
      BY <2>2, PlainAt, StepsKnown
    <3> QED  BY <3>1, <3>2, PlainTask
  <2>5. f \in Seq(CellTasks)
    <3>1. At(t, "cell.set") \in CellTasks
      BY <1>n, <2>2
    <3> HIDE DEF u
    <3> QED  BY <2>4, <3>1
  <2>6. Range(f) = {At(t, "cell.set"), u}
    BY RangeShort
  <2>7. Goes(s, t, {At(t, "cell.set"), u})
    BY <1>12, <2>1, <2>2 DEF GetForUpdate, Goes, Still, lists, outside
  <2> HIDE DEF u, f
  <2>8. Turns(s, {t}, {At(t, "cell.set"), u})
    BY <1>r, <2>2, <2>3, <2>5, <2>6
  <2> QED  BY <1>12, <1>w, <2>2, <2>7, <2>8 DEF GetForUpdate, lists, outside
<1>13. ASSUME SetCell(s) PROVE Goal
  <2>1. Running(s, "cell.set")
    BY <1>13 DEF SetCell
  <2>2. Turns(s, {t}, {})
    BY <1>13, <1>e, <2>1 DEF SetCell
  <2>3. Goes(s, t, {})
    BY <1>13, <1>p, <1>h, <2>1 DEF SetCell, Goes, lists, outside
  <2> QED  BY <1>13, <1>h, <1>w, <2>1, <2>2, <2>3 DEF SetCell, lists, outside
<1>14. ASSUME GetForCast(s) PROVE Goal
  <2>1. Running(s, "cell.get") /\ t.job = "cast"
    BY <1>14, <1>p DEF GetForCast
  <2>2. /\ pipe[s] # <<>> /\ t \in Queued(s) /\ t \in CellTasks /\ t.c \in Clients
        /\ t.step = "cell.get"
    BY <1>h, <2>1
  <2> DEFINE u == Task("notify.lrange", "cast", t.c, GroupOf[s][cell[t.c]])
  <2>3. CASE cell[t.c] = None
    <3>1. Turns(s, {t}, {})
      BY <1>14, <1>p, <1>e, <2>1, <2>3 DEF GetForCast
    <3>2. Goes(s, t, {})
      BY <1>14, <2>1, <2>2 DEF GetForCast, Goes, Still, lists, outside, cellVars
    <3> QED  BY <1>14, <1>w, <2>2, <3>1, <3>2 DEF GetForCast, lists, outside
  <2>4. CASE cell[t.c] # None
    <3>1. cell[t.c] \in Cells
      BY <1>t, <2>2, <2>4 DEF CellTypeOK
    <3>2. GroupOf[s][cell[t.c]] \in Groups
      BY <3>1, CellGroup
    <3>3. u \in CellTasks /\ <<u>> \in Seq(CellTasks)
      <4>1. u \in CellTasks
        BY <2>2, <3>2, StepsKnown DEF Task, CellTasks
      <4> HIDE DEF u
      <4> QED  BY <4>1
    <3>4. Reply(s, <<u>>)
      BY <1>14, <1>p, <2>4 DEF GetForCast
    <3>5. Goes(s, t, {u})
      BY <1>14, <2>1, <2>2, <3>2 DEF GetForCast, Goes, Still, lists, outside, cellVars
    <3> HIDE DEF u
    <3>6. Turns(s, {t}, {u})
      BY <1>r, <2>2, <3>3, <3>4, RangeShort
    <3> QED  BY <1>14, <1>w, <2>2, <3>5, <3>6 DEF GetForCast, lists, outside
  <2> QED  BY <2>3, <2>4
<1>15. ASSUME Push(s), UNCHANGED cellVars PROVE Goal
  BY <1>2, <1>3, <1>4, <1>15 DEF Push
<1>16. ASSUME ServerStep(s), UNCHANGED cellVars PROVE Goal
  BY <1>0, <1>1, <1>5, <1>6, <1>7, <1>8, <1>10, <1>11, <1>15, <1>16 DEF ServerStep
<1>17. Goal
  BY <1>12, <1>13, <1>14, <1>16 DEF CellServer
<1>18. PICK us : /\ t \in Queued(s) /\ Turns(s, {t}, us) /\ Goes(s, t, us)
                 /\ UNCHANGED <<registry, minted, known, home, online>>
  BY <1>17 DEF Goal
<1> QED  BY <1>18 DEF Runs

LEMMA HeadIs ==
    ASSUME CellInv, Dwelling, NEW s \in Servers, NEW t \in Queued(s)
    PROVE  /\ t \in CellTasks /\ t.c \in Clients /\ CellTask(t, s) /\ InMove(t, s)
           /\ t.step \notin {"close.lrange", "cell.get"} => t.g \in Groups
           /\ home[t.c] = s
BY QueuedTasks DEF Dwelling, AllInMove, InMove

(* An update is about a cell of its client's server. *)
LEMMA UpdateGroup ==
    ASSUME CellInv, NEW s \in Servers, NEW t \in Queued(s),
           t.step = "cell.set" \/ (t.step = "cell.get" /\ t.job = "position")
    PROVE  /\ t.g \in Groups
           /\ CellOf(s, t.g) \in Cells
           /\ GroupOf[s][CellOf(s, t.g)] = t.g
<1>1. PICK v \in Cells : t.g = GroupOf[s][v]
  BY QueuedTasks DEF CellTask, IsGet, IsSet
<1> QED  BY <1>1, CellGroup

LEMMA EntryType ==
    ASSUME NEW A, NEW B, NEW M \in [A -> [B -> Nat]], NEW a \in A, NEW b \in B, NEW n \in Nat
    PROVE  [M EXCEPT ![a][b] = n] \in [A -> [B -> Nat]]
<1>1. [M[a] EXCEPT ![b] = n] \in [B -> Nat]
  OBVIOUS
<1> QED  BY <1>1

LEMMA ListsServer ==
    ASSUME CellInv, Dwelling, NEW s \in Servers, NEW t \in Queued(s), NEW us, Runs(s, t, us)
    PROVE  Lists'
<1>1. /\ t.c \in Clients
      /\ t.step \notin {"close.lrange", "cell.get"} => t.g \in Groups
      /\ Lists
  BY HeadIs DEF Dwelling
<1>2. registry' = registry /\ minted' = minted /\ known' = known /\ online' = online
  BY DEF Runs
<1>3. members' \in [Groups -> [Clients -> Nat]]
  <2>1. \/ members' = members
        \/ /\ t.g \in Groups
           /\ \E n \in Nat : members' = [members EXCEPT ![t.g][t.c] = n]
    <3>1. CASE t.step = "push.lpushGroup"
      <4>1. t.g \in Groups /\ members[t.g][t.c] + 1 \in Nat
        BY <1>1, <3>1 DEF Lists
      <4>2. members' = [members EXCEPT ![t.g][t.c] = members[t.g][t.c] + 1]
        BY <3>1 DEF Runs, Goes
      <4> QED  BY <4>1, <4>2
    <3>2. CASE t.step = "remove.lremGroup"
      BY <1>1, <3>2 DEF Runs, Goes
    <3>3. CASE t.step \notin {"push.lpushGroup", "remove.lremGroup"}
      BY <3>3 DEF Runs, Goes, Still
    <3> QED  BY <3>1, <3>2, <3>3
  <2>2. members \in [Groups -> [Clients -> Nat]]
    BY <1>1 DEF Lists
  <2>3. CASE members' = members
    BY <2>2, <2>3
  <2>4. CASE members' # members
    <3>1. PICK n \in Nat : members' = [members EXCEPT ![t.g][t.c] = n]
      BY <2>1, <2>4
    <3>2. t.c \in Clients /\ t.g \in Groups
      BY <1>1, <2>1, <2>4
    <3>3. [members EXCEPT ![t.g][t.c] = n] \in [Groups -> [Clients -> Nat]]
      BY <2>2, <3>2, EntryType, Zenon
    <3> QED  BY <3>1, <3>3
  <2> QED  BY <2>3, <2>4
<1>4. groupsOf' \in [Clients -> [Groups -> Nat]]
  <2>1. \/ groupsOf' = groupsOf
        \/ /\ t.g \in Groups
           /\ \E n \in Nat : groupsOf' = [groupsOf EXCEPT ![t.c][t.g] = n]
    <3>1. CASE t.step = "push.lpushClient"
      <4>1. t.g \in Groups /\ groupsOf[t.c][t.g] + 1 \in Nat
        BY <1>1, <3>1 DEF Lists
      <4>2. groupsOf' = [groupsOf EXCEPT ![t.c][t.g] = groupsOf[t.c][t.g] + 1]
        BY <3>1 DEF Runs, Goes
      <4> QED  BY <4>1, <4>2
    <3>2. CASE t.step = "remove.lremClient"
      BY <1>1, <3>2 DEF Runs, Goes
    <3>3. CASE t.step \notin {"push.lpushClient", "remove.lremClient"}
      BY <3>3 DEF Runs, Goes, Still
    <3> QED  BY <3>1, <3>2, <3>3
  <2>2. groupsOf \in [Clients -> [Groups -> Nat]]
    BY <1>1 DEF Lists
  <2>3. CASE groupsOf' = groupsOf
    BY <2>2, <2>3
  <2>4. CASE groupsOf' # groupsOf
    <3>1. PICK n \in Nat : groupsOf' = [groupsOf EXCEPT ![t.c][t.g] = n]
      BY <2>1, <2>4
    <3>2. t.c \in Clients /\ t.g \in Groups
      BY <1>1, <2>1, <2>4
    <3>3. [groupsOf EXCEPT ![t.c][t.g] = n] \in [Clients -> [Groups -> Nat]]
      BY <2>2, <3>2, EntryType, Zenon
    <3> QED  BY <3>1, <3>3
  <2> QED  BY <2>3, <2>4
<1>5. knows' \in [Groups -> SUBSET (Clients \X Clients)]
  <2>1. CASE t.step = "notify.lrange"
    <3>1. Reached(s, Audience(t)) \subseteq Clients
      BY DEF Reached, Audience, MembersOf
    <3>2. PICK told \in SUBSET Clients : told = Reached(s, Audience(t))
      BY <3>1
    <3>3. PICK K : /\ knows' = [knows EXCEPT ![t.g] = K]
                   /\ K = CASE t.job = "join" -> knows[t.g] \cup (told \X {t.c})
                             [] t.job \in {"leave", "close"} -> knows[t.g] \ (told \X {t.c})
                             [] t.job = "delete" -> {p \in knows[t.g] : p[1] \notin told}
                             [] OTHER -> knows[t.g]
      BY <2>1, <3>2 DEF Runs, Goes
    <3>4. K \subseteq knows[t.g] \cup (told \X {t.c})
      BY <3>3
    <3>5. told \X {t.c} \subseteq Clients \X Clients
      BY <1>1, Zenon
    <3>6. K \in SUBSET (Clients \X Clients) /\ t.g \in Groups
      BY <1>1, <2>1, <3>4, <3>5 DEF Lists
    <3> QED  BY <1>1, <3>3, <3>6 DEF Lists
  <2>2. CASE t.step = "remove.lremGroup"
    <3>1. t.g \in Groups /\ {p \in knows[t.g] : p[1] # t.c} \in SUBSET (Clients \X Clients)
      BY <1>1, <2>2 DEF Lists
    <3>2. knows' = [knows EXCEPT ![t.g] = {p \in knows[t.g] : p[1] # t.c}]
      BY <2>2 DEF Runs, Goes
    <3> QED  BY <1>1, <3>1, <3>2 DEF Lists
  <2>3. CASE t.step \notin {"notify.lrange", "remove.lremGroup"}
    <3>1. knows' = knows
      BY <2>3 DEF Runs, Goes, Still
    <3> QED  BY <1>1, <3>1 DEF Lists
  <2> QED  BY <2>1, <2>2, <2>3
<1> QED  BY <1>1, <1>2, <1>3, <1>4, <1>5 DEF Lists

LEMMA InMoveServer ==
    ASSUME CellInv, Dwelling, NEW s \in Servers, NEW t \in Queued(s), NEW us, Runs(s, t, us)
    PROVE  AllInMove'
<1>t. /\ t \in CellTasks /\ t.c \in Clients /\ InMove(t, s)
      /\ t.step = "cell.get" /\ t.job = "position" => t.g \in Groups
  BY HeadIs, UpdateGroup
<1>s. /\ \A n \in {"push.lrangeGroup", "remove.lremClient", "push.lrangeClient",
                   "push.lpushClient", "push.lpushGroup", "notify.lrange", "remove.lremGroup",
                   "client.hset", "client.lrange", "cell.set"} :
            /\ At(t, n).step = n /\ At(t, n).job = t.job
            /\ At(t, n).c = t.c /\ At(t, n).g = t.g
      /\ \A n, j, c, g : /\ Task(n, j, c, g).step = n /\ Task(n, j, c, g).job = j
                         /\ Task(n, j, c, g).c = c /\ Task(n, j, c, g).g = g
  <2>1. ASSUME NEW n \in {"push.lrangeGroup", "remove.lremClient", "push.lrangeClient",
                   "push.lpushClient", "push.lpushGroup", "notify.lrange", "remove.lremGroup",
                   "client.hset", "client.lrange", "cell.set"}
        PROVE  n \in Steps \cup {"cell.get", "cell.set"}
    BY StepsKnown DEF PushSteps, RemoveSteps
  <2>2. \A n, j, c, g : /\ Task(n, j, c, g).step = n /\ Task(n, j, c, g).job = j
                        /\ Task(n, j, c, g).c = c /\ Task(n, j, c, g).g = g
    BY DEF Task
  <2>3. ASSUME NEW n \in Steps \cup {"cell.get", "cell.set"}
        PROVE  /\ At(t, n).step = n /\ At(t, n).job = t.job
               /\ At(t, n).c = t.c /\ At(t, n).g = t.g
    BY <1>t, Fields
  <2> QED  BY <2>1, <2>2, <2>3
<1>1. ASSUME NEW u \in us PROVE InMove(u, s)
  BY <1>t, <1>s DEF Runs, Goes, InMove, PushSteps, RemoveSteps, EraseSteps, CellJobs
<1>2. \A z \in Servers : \A u \in Queued(z)' : InMove(u, z)
  BY <1>1 DEF Runs, Turns, Dwelling, AllInMove
<1>3. \A z, u : InMove(u, z) => InMove(u, z)'
  BY DEF Runs, InMove
<1> QED  BY <1>2, <1>3 DEF AllInMove

LEMMA EntryAt ==
    ASSUME NEW A, NEW B, NEW M \in [A -> [B -> Nat]], NEW a \in A, NEW b \in B, NEW n,
           NEW x \in A, NEW y \in B
    PROVE  [M EXCEPT ![a][b] = n][x][y] = IF x = a /\ y = b THEN n ELSE M[x][y]
OBVIOUS

(* Only a CLOSE takes anybody out of a list. *)
LEMMA ListsGrow ==
    ASSUME CellInv, Dwelling, NEW s \in Servers, NEW t \in Queued(s), NEW us, Runs(s, t, us),
           NEW c \in online, NEW g \in Groups
    PROVE  /\ groupsOf[c][g] > 0 => groupsOf'[c][g] > 0
           /\ members[g][c] > 0 => members'[g][c] > 0
           /\ ~(Joins(t, c, g) /\ t.step = "push.lpushClient") => groupsOf'[c][g] = groupsOf[c][g]
           /\ ~(Joins(t, c, g) /\ t.step = "push.lpushGroup") => members'[g][c] = members[g][c]
<1>t. /\ t.c \in Clients /\ InMove(t, s) /\ c \in Clients
      /\ t.step \notin {"close.lrange", "cell.get"} => t.g \in Groups
      /\ members \in [Groups -> [Clients -> Nat]] /\ groupsOf \in [Clients -> [Groups -> Nat]]
  BY HeadIs DEF Dwelling, Lists
<1>1. CASE t.step = "push.lpushClient"
  <2>1. /\ t.job = "join" /\ t.g \in Groups /\ members' = members
        /\ groupsOf' = [groupsOf EXCEPT ![t.c][t.g] = groupsOf[t.c][t.g] + 1]
    BY <1>1, <1>t DEF Runs, Goes, InMove, PushSteps
  <2>2. groupsOf'[c][g] = IF c = t.c /\ g = t.g THEN groupsOf[t.c][t.g] + 1 ELSE groupsOf[c][g]
    BY <1>t, <2>1, EntryAt, Zenon
  <2>3. groupsOf[c][g] \in Nat
    BY <1>t
  <2> QED  BY <1>1, <2>1, <2>2, <2>3 DEF Joins
<1>2. CASE t.step = "push.lpushGroup"
  <2>1. /\ t.job = "join" /\ t.g \in Groups /\ groupsOf' = groupsOf
        /\ members' = [members EXCEPT ![t.g][t.c] = members[t.g][t.c] + 1]
    BY <1>2, <1>t DEF Runs, Goes, InMove, PushSteps
  <2>2. members'[g][c] = IF g = t.g /\ c = t.c THEN members[t.g][t.c] + 1 ELSE members[g][c]
    BY <1>t, <2>1, EntryAt, Zenon
  <2>3. members[g][c] \in Nat
    BY <1>t
  <2> QED  BY <1>2, <2>1, <2>2, <2>3 DEF Joins
<1>3. CASE t.step = "remove.lremClient"
  <2>1. /\ t.c # c /\ t.g \in Groups /\ members' = members
        /\ groupsOf' = [groupsOf EXCEPT ![t.c][t.g] = 0]
    BY <1>3, <1>t DEF Runs, Goes, InMove, RemoveSteps
  <2> QED  BY <1>t, <2>1
<1>4. CASE t.step = "remove.lremGroup"
  <2>1. /\ t.c # c /\ t.g \in Groups /\ groupsOf' = groupsOf
        /\ members' = [members EXCEPT ![t.g][t.c] = 0]
    BY <1>4, <1>t DEF Runs, Goes, InMove, RemoveSteps
  <2> QED  BY <1>t, <2>1
<1>5. CASE t.step \notin {"push.lpushClient", "push.lpushGroup",
                          "remove.lremClient", "remove.lremGroup"}
  <2>1. members' = members /\ groupsOf' = groupsOf
    BY <1>5 DEF Runs, Goes, Still
  <2> QED  BY <2>1
<1> QED  BY <1>1, <1>2, <1>3, <1>4, <1>5

(* The commands that follow t work for t's client. *)
LEMMA FollowFields ==
    ASSUME CellInv, Dwelling, NEW s \in Servers, NEW t \in Queued(s), NEW us, Runs(s, t, us),
           NEW u \in us
    PROVE  /\ u.c = t.c
           /\ u.step = "push.lpushGroup" =>
                 u.job = t.job /\ u.g = t.g /\ t.step = "push.lpushClient"
           /\ u.step = "cell.set" =>
                 u.g = t.g /\ t.step = "cell.get" /\ t.job = "position"
<1>t. t \in CellTasks /\ t.c \in Clients
  BY HeadIs
<1>s. ASSUME NEW n \in {"push.lrangeGroup", "remove.lremClient", "push.lrangeClient",
                   "push.lpushClient", "push.lpushGroup", "notify.lrange", "remove.lremGroup",
                   "client.hset", "client.lrange", "cell.set"}
      PROVE  /\ At(t, n).step = n /\ At(t, n).job = t.job
             /\ At(t, n).c = t.c /\ At(t, n).g = t.g
  <2>1. n \in Steps \cup {"cell.get", "cell.set"}
    BY StepsKnown DEF PushSteps, RemoveSteps
  <2> QED  BY <1>t, <2>1, Fields
<1>n. \A n, j, c, g : /\ Task(n, j, c, g).step = n /\ Task(n, j, c, g).job = j
                      /\ Task(n, j, c, g).c = c /\ Task(n, j, c, g).g = g
  BY DEF Task
<1> QED  BY <1>s, <1>n DEF Runs, Goes

LEMMA BothServer ==
    ASSUME CellInv, Dwelling, NEW s \in Servers, NEW t \in Queued(s), NEW us, Runs(s, t, us),
           NEW c \in online, NEW g \in Groups
    PROVE  Both(c, g)'
<1> DEFINE Due(u) == Joins(u, c, g) /\ u.step = "push.lpushGroup"
<1>t. /\ Both(c, g) /\ c \in Clients /\ home[c] \in Servers /\ home' = home
      /\ home[t.c] = s /\ t \in CellTasks /\ InMove(t, s)
      /\ members[g][c] \in Nat /\ groupsOf[c][g] \in Nat
  BY HeadIs DEF Dwelling, Lists, CellInv, Runs
<1>u. /\ \A u \in Queued(home[c])' : u \in Queued(home[c]) \/ (home[c] = s /\ u \in us)
      /\ \A u \in Queued(home[c]) : u \in Queued(home[c])' \/ u = t
      /\ us \subseteq Queued(s)'
  BY <1>t DEF Runs, Turns
<1>1. CASE Joins(t, c, g) /\ t.step = "push.lpushClient"
  <2>1. At(t, "push.lpushGroup") \in us
        /\ groupsOf' = [groupsOf EXCEPT ![t.c][t.g] = groupsOf[t.c][t.g] + 1]
    BY <1>1 DEF Runs, Goes
  <2>2. groupsOf'[c][g] > 0
    BY <1>1, <1>t, <2>1 DEF Joins, Dwelling, Lists
  <2>3. Due(At(t, "push.lpushGroup"))
    BY <1>1, <1>t, Fields, StepsKnown DEF Joins, PushSteps
  <2>4. At(t, "push.lpushGroup") \in Queued(home[c])'
    BY <1>1, <1>t, <1>u, <2>1 DEF Joins
  <2> QED  BY <1>t, <2>2, <2>3, <2>4 DEF Both
<1>2. CASE Joins(t, c, g) /\ t.step = "push.lpushGroup"
  <2>1. /\ groupsOf' = groupsOf
        /\ members' = [members EXCEPT ![t.g][t.c] = members[t.g][t.c] + 1]
    BY <1>2 DEF Runs, Goes
  <2>2. groupsOf[c][g] > 0
    BY <1>2, <1>t DEF Both, Joins
  <2>3. members'[g][c] > 0
    BY <1>2, <1>t, <2>1 DEF Joins, Dwelling, Lists
  <2> QED  BY <1>t, <2>1, <2>2, <2>3 DEF Both
<1>3. CASE ~(Joins(t, c, g) /\ t.step \in {"push.lpushClient", "push.lpushGroup"})
  <2>1. groupsOf'[c][g] = groupsOf[c][g] /\ members'[g][c] = members[g][c]
    BY <1>3, ListsGrow
  <2>2. \A u \in us : ~Due(u)
    BY <1>3, FollowFields DEF Joins
  <2>3. /\ \A u \in Queued(home[c])' : Due(u) => u \in Queued(home[c])
        /\ \A u \in Queued(home[c]) : Due(u) => u \in Queued(home[c])'
    BY <1>3, <1>u, <2>2
  <2> QED  BY <1>t, <2>1, <2>3 DEF Both
<1> QED  BY <1>1, <1>2, <1>3

LEMMA EnteredServer ==
    ASSUME CellInv, Dwelling, NEW s \in Servers, NEW t \in Queued(s), NEW us, Runs(s, t, us),
           NEW c \in online, NEW g \in Groups, Entered(c, g)
    PROVE  Entered(c, g)'
<1>t. /\ Both(c, g) /\ c \in Clients /\ home[c] \in Servers /\ home' = home
      /\ home[t.c] = s /\ t \in CellTasks
      /\ members[g][c] \in Nat /\ groupsOf[c][g] \in Nat
  BY HeadIs DEF Dwelling, Lists, CellInv, Runs
<1>u. /\ \A u \in Queued(home[c]) : u \in Queued(home[c])' \/ u = t
      /\ us \subseteq Queued(s)'
  BY <1>t DEF Runs, Turns
<1>1. CASE groupsOf[c][g] > 0
  BY <1>1, ListsGrow DEF Entered
<1>2. CASE \E u \in Queued(home[c]) : Joins(u, c, g) /\ u.step \in Entering /\ u # t
  BY <1>2, <1>u, <1>t DEF Entered
<1>3. CASE Joins(t, c, g) /\ t.step \in Entering /\ ~(groupsOf[c][g] > 0)
  <2>1. ASSUME NEW n \in Entering, At(t, n) \in us PROVE Entered(c, g)'
    <3>1. n \in Steps
      BY StepsKnown DEF Entering, PushSteps
    <3>2. Joins(At(t, n), c, g) /\ At(t, n).step \in Entering
      BY <1>3, <1>t, <3>1, Fields DEF Joins
    <3>3. At(t, n) \in Queued(home[c])'
      BY <1>3, <1>t, <1>u, <2>1 DEF Joins
    <3> QED  BY <1>t, <3>2, <3>3 DEF Entered
  <2>2. CASE t.step = "get.hget"
    BY <1>3, <2>1, <2>2 DEF Runs, Goes, Joins, Entering
  <2>3. CASE t.step = "push.lrangeGroup"
    BY <1>3, <1>t, <2>1, <2>3 DEF Runs, Goes, Joins, Entering, Both
  <2>4. CASE t.step = "push.lrangeClient"
    BY <1>3, <2>1, <2>4 DEF Runs, Goes, Joins, Entering
  <2>5. CASE t.step = "push.lpushClient"
    <3>1. groupsOf' = [groupsOf EXCEPT ![t.c][t.g] = groupsOf[t.c][t.g] + 1]
      BY <2>5 DEF Runs, Goes
    <3>2. groupsOf'[c][g] > 0
      BY <1>3, <1>t, <3>1 DEF Joins, Dwelling, Lists
    <3> QED  BY <3>2 DEF Entered
  <2> QED  BY <1>3, <2>2, <2>3, <2>4, <2>5 DEF Entering
<1> QED  BY <1>1, <1>2, <1>3 DEF Entered

LEMMA DwellsServer ==
    ASSUME CellInv, Dwelling, NEW s \in Servers, NEW t \in Queued(s), NEW us, Runs(s, t, us),
           NEW c \in online
    PROVE  Dwells(c)'
<1>t. /\ Dwells(c) /\ c \in Clients /\ home[c] \in Servers /\ home' = home
      /\ home[t.c] = s /\ t \in CellTasks /\ cell \in [Clients -> Cells \cup {None}]
  BY HeadIs DEF Dwelling, Lists, CellInv, CellTypeOK, Runs
<1>u. /\ \A u \in Queued(home[c])' : u \in Queued(home[c]) \/ (home[c] = s /\ u \in us)
      /\ us \subseteq Queued(s)'
  BY <1>t DEF Runs, Turns
<1>g. ASSUME NEW u \in Queued(home[c]), u.step = "cell.set" PROVE u.g \in Groups
  BY <1>t, <1>g, UpdateGroup
<1>1. ASSUME cell'[c] # None
      PROVE  \E g \in Groups : g = GroupOf[home[c]][cell'[c]] /\ Entered(c, g)'
  <2>1. CASE t.step = "cell.set" /\ t.c = c
    <3>1. cell' = [cell EXCEPT ![t.c] = CellOf(s, t.g)]
      BY <2>1 DEF Runs, Goes
    <3>2. GroupOf[home[c]][cell'[c]] = t.g /\ t.g \in Groups
      BY <1>t, <2>1, <3>1, UpdateGroup
    <3>3. Entered(c, t.g)
      BY <1>t, <2>1 DEF Dwells
    <3> QED  BY <3>2, <3>3, EnteredServer
  <2>2. CASE ~(t.step = "cell.set" /\ t.c = c)
    <3>1. cell'[c] = cell[c]
      BY <1>t, <2>2 DEF Runs, Goes, Still
    <3>2. GroupOf[home[c]][cell[c]] \in Groups /\ Entered(c, GroupOf[home[c]][cell[c]])
      BY <1>1, <1>t, <3>1, CellGroup DEF Dwells
    <3> QED  BY <3>1, <3>2, EnteredServer
  <2> QED  BY <2>1, <2>2
<1>2. ASSUME NEW u \in Queued(home[c])', u.c = c, u.step = "cell.set"
      PROVE  Entered(c, u.g)'
  <2>1. CASE u \in Queued(home[c])
    BY <1>2, <1>t, <1>g, <2>1, EnteredServer DEF Dwells
  <2>2. CASE home[c] = s /\ u \in us
    <3>1. u.g = t.g /\ t.c = c /\ t.step = "cell.get" /\ t.job = "position"
      BY <1>2, <2>2, FollowFields
    <3>2. t.g \in Groups /\ CellOf(s, t.g) \in Cells /\ GroupOf[s][CellOf(s, t.g)] = t.g
      BY <3>1, UpdateGroup
    <3>3. CASE cell[c] # CellOf(s, t.g)
      <4>1. Task("get.hget", "join", c, t.g) \in us
        BY <3>1, <3>3 DEF Runs, Goes
      <4>2. Joins(Task("get.hget", "join", c, t.g), c, t.g)
            /\ Task("get.hget", "join", c, t.g).step \in Entering
        BY DEF Task, Joins, Entering
      <4> QED  BY <1>t, <1>u, <2>2, <3>1, <4>1, <4>2 DEF Entered
    <3>4. CASE cell[c] = CellOf(s, t.g)
      <4>1. None \notin Cells
        BY CellsAssumption DEF Cells
      <4>2. Entered(c, t.g)
        BY <1>t, <2>2, <3>2, <3>4, <4>1 DEF Dwells
      <4> QED  BY <3>1, <3>2, <4>2, EnteredServer
    <3> QED  BY <3>3, <3>4
  <2> QED  BY <1>u, <2>1, <2>2
<1> QED  BY <1>t, <1>1, <1>2 DEF Dwells

(* Who has been told of a client that is connected is not told otherwise. *)
LEMMA KnowsGrow ==
    ASSUME CellInv, Dwelling, NEW s \in Servers, NEW t \in Queued(s), NEW us, Runs(s, t, us),
           NEW x \in online, NEW y \in online, NEW g \in Groups, <<x, y>> \in knows[g]
    PROVE  <<x, y>> \in knows'[g]
<1>t. /\ InMove(t, s) /\ knows \in [Groups -> SUBSET (Clients \X Clients)]
      /\ t.step \notin {"close.lrange", "cell.get"} => t.g \in Groups
  BY HeadIs DEF Dwelling, Lists
<1>1. CASE t.step = "notify.lrange"
  <2>1. PICK told : told = Reached(s, Audience(t))
    OBVIOUS
  <2>2. PICK K : /\ knows' = [knows EXCEPT ![t.g] = K]
                 /\ K = CASE t.job = "join" -> knows[t.g] \cup (told \X {t.c})
                           [] t.job \in {"leave", "close"} -> knows[t.g] \ (told \X {t.c})
                           [] t.job = "delete" -> {p \in knows[t.g] : p[1] \notin told}
                           [] OTHER -> knows[t.g]
    BY <1>1, <2>1 DEF Runs, Goes
  <2>3. t.g \in Groups /\ t.job \in CellJobs /\ (t.job = "close" => y # t.c)
    BY <1>1, <1>t DEF InMove
  <2>4. <<x, y>> \in knows[t.g] => <<x, y>> \in K
    <3>1. CASE t.job = "close"
      BY <2>2, <2>3, <3>1
    <3>2. CASE t.job # "close"
      BY <2>2, <2>3, <3>2 DEF CellJobs
    <3> QED  BY <3>1, <3>2
  <2> QED  BY <1>t, <2>2, <2>3, <2>4
<1>2. CASE t.step = "remove.lremGroup"
  <2>1. t.c # x /\ t.g \in Groups
    BY <1>2, <1>t DEF InMove, RemoveSteps
  <2>2. knows' = [knows EXCEPT ![t.g] = {p \in knows[t.g] : p[1] # t.c}]
    BY <1>2 DEF Runs, Goes
  <2> QED  BY <1>t, <2>1, <2>2
<1>3. CASE t.step \notin {"notify.lrange", "remove.lremGroup"}
  BY <1>3 DEF Runs, Goes, Still
<1> QED  BY <1>1, <1>2, <1>3

(* The notice of a join tells those who are in the group. *)
LEMMA JoinTold ==
    ASSUME CellInv, Dwelling, NEW s \in Servers, NEW t \in Queued(s), NEW us, Runs(s, t, us),
           NEW x \in online, NEW y \in online, NEW g \in Groups, Together(x, y, g),
           Joins(t, x, g), t.step = "notify.lrange"
    PROVE  <<y, x>> \in knows'[g]
<1>t. /\ x \in Clients /\ y \in Clients /\ home[x] = s
      /\ knows \in [Groups -> SUBSET (Clients \X Clients)]
  BY HeadIs DEF Dwelling, Lists, Joins
<1>1. y \in Reached(s, Audience(t))
  BY <1>t DEF Reached, Audience, MembersOf, Together, Joins
<1>2. PICK told : told = Reached(s, Audience(t))
  OBVIOUS
<1>3. knows' = [knows EXCEPT ![g] = knows[g] \cup (told \X {x})]
  BY <1>2 DEF Runs, Goes, Joins
<1> QED  BY <1>t, <1>1, <1>2, <1>3

LEMMA AcquaintedServer ==
    ASSUME CellInv, Dwelling, NEW s \in Servers, NEW t \in Queued(s), NEW us, Runs(s, t, us),
           NEW x \in online, NEW y \in online, NEW g \in Groups, Together(x, y, g)'
    PROVE  Acquainted(x, y, g)'
<1>t. /\ home' = home /\ home[x] = home[y] /\ home[x] \in Servers /\ home[t.c] = s
      /\ t \in CellTasks /\ InMove(t, s)
  BY HeadIs DEF Together, Runs, Dwelling, Lists, CellInv
<1>u. /\ \A u \in Queued(home[x]) : u \in Queued(home[x])' \/ u = t
      /\ us \subseteq Queued(s)'
  BY <1>t DEF Runs, Turns
<1>1. CASE t.step = "push.lpushGroup" /\ (Joins(t, x, g) \/ Joins(t, y, g))
  <2>1. At(t, "notify.lrange") \in us
    BY <1>1 DEF Runs, Goes
  <2>2. At(t, "notify.lrange") \in Queued(home[x])'
    BY <1>1, <1>t, <1>u, <2>1 DEF Joins
  <2>3. /\ Joins(At(t, "notify.lrange"), x, g) \/ Joins(At(t, "notify.lrange"), y, g)
        /\ At(t, "notify.lrange").step = "notify.lrange"
    BY <1>1, <1>t, Fields, StepsKnown DEF Joins
  <2> QED  BY <1>t, <2>2, <2>3 DEF Acquainted
<1>2. CASE ~(t.step = "push.lpushGroup" /\ (Joins(t, x, g) \/ Joins(t, y, g)))
  <2>1. members'[g][x] = members[g][x] /\ members'[g][y] = members[g][y]
    BY <1>2, ListsGrow
  <2>2. Together(x, y, g) /\ Together(y, x, g)
    BY <1>t, <2>1 DEF Together
  <2>3. Acquainted(x, y, g)
    BY <2>2 DEF Dwelling
  <2>4. CASE <<x, y>> \in knows[g] \/ <<y, x>> \in knows[g]
    BY <2>4, KnowsGrow DEF Acquainted
  <2>5. CASE t.step = "notify.lrange" /\ (Joins(t, x, g) \/ Joins(t, y, g))
    BY <2>2, <2>5, JoinTold DEF Acquainted
  <2>6. ASSUME NEW u \in Queued(home[x]), u # t, u.step = "notify.lrange",
               Joins(u, x, g) \/ Joins(u, y, g)
        PROVE  Acquainted(x, y, g)'
    BY <1>t, <1>u, <2>6 DEF Acquainted
  <2> QED  BY <2>3, <2>4, <2>5, <2>6 DEF Acquainted
<1> QED  BY <1>1, <1>2

-------------------------------------------------------------------------------
(* What clients ask for takes nobody out of anything yet. *)

Asks(c, us) ==
    /\ Turns(home[c], {}, us)
    /\ \A u \in us : /\ u.c = c /\ u.step \notin {"push.lpushGroup", "cell.set"}
                     /\ InMove(u, home[c])'
    /\ UNCHANGED <<registry, minted, known, members, groupsOf, home>>
    /\ online' \subseteq online
    /\ \A x \in Clients : cell'[x] = cell[x] \/ cell'[x] = None
    /\ knows' \in [Groups -> SUBSET (Clients \X Clients)]
    /\ \A x \in online', y \in Clients, g \in Groups :
          <<x, y>> \in knows[g] => <<x, y>> \in knows'[g]

LEMMA ClientAsks ==
    ASSUME CellInv, Dwelling, UpdatesAndJoins, NEW c \in Clients, CellClient(c)
    PROVE  \E us : Asks(c, us)
<1>t. /\ home[c] \in Servers /\ cell \in [Clients -> Cells \cup {None}] /\ Lists
      /\ pipe[home[c]] \in Seq(CellTasks)
  BY DEF CellInv, CellTypeOK, Dwelling
<1>n. \A n, j, x, g : /\ Task(n, j, x, g).step = n /\ Task(n, j, x, g).job = j
                      /\ Task(n, j, x, g).c = x /\ Task(n, j, x, g).g = g
  BY DEF Task
<1>i. ASSUME NEW t \in CellTasks, Issue(home[c], <<t>>)
      PROVE  Turns(home[c], {}, {t})
  <2>1. <<t>> \in Seq(CellTasks)
    OBVIOUS
  <2> QED  BY <1>t, <1>i, <2>1, IssueTurns, RangeShort
<1>p. ASSUME NEW t \in CellTasks, Issue(home[c], <<t>>), t.c = c,
             t.step \notin {"push.lpushGroup", "cell.set"}, InMove(t, home[c])',
             UNCHANGED <<lists, outside, cell>>
      PROVE  \E us : Asks(c, us)
  <2>1. Asks(c, {t})
    BY <1>t, <1>i, <1>p DEF Asks, lists, outside, Lists
  <2> QED  BY <2>1
<1>1. ASSUME NEW p \in Route[c], PositionUpdate(c, p) PROVE \E us : Asks(c, us)
  <2>1. p \in Positions
    BY CellsAssumption
  <2>2. PICK g \in Groups : g = GroupOf[home[c]][CellAt(p)]
    BY <1>t, <2>1, CellGroup DEF Cells
  <2> DEFINE t == Task("cell.get", "position", c, g)
  <2>3. t \in CellTasks
    BY DEF Task, CellTasks
  <2>4. Issue(home[c], <<t>>) /\ UNCHANGED <<lists, outside, cell>>
    BY <1>1, <2>2 DEF PositionUpdate
  <2>5. InMove(t, home[c])'
    BY <1>n, <2>4 DEF InMove, outside, CellJobs, PushSteps, RemoveSteps, EraseSteps
  <2> QED  BY <1>n, <1>p, <2>3, <2>4, <2>5
<1>2. CASE CastUpdate(c)
  <2> DEFINE t == Task("cell.get", "cast", c, None)
  <2>3. t \in CellTasks
    BY DEF Task, CellTasks
  <2>4. Issue(home[c], <<t>>) /\ UNCHANGED <<lists, outside, cell>>
    BY <1>2 DEF CastUpdate, cellVars
  <2>5. InMove(t, home[c])'
    BY <1>n, <2>4 DEF InMove, outside, CellJobs, PushSteps, RemoveSteps, EraseSteps
  <2> QED  BY <1>n, <1>p, <2>3, <2>4, <2>5
<1>3. ASSUME NEW g \in Groups, Delayed(c, g) PROVE \E us : Asks(c, us)
  <2> DEFINE t == Task("notify.lrange", "position", c, g)
  <2>3. t \in CellTasks
    BY StepsKnown DEF Task, CellTasks
  <2>4. Issue(home[c], <<t>>) /\ UNCHANGED <<lists, outside, cell>>
    BY <1>3 DEF Delayed
  <2>5. InMove(t, home[c])'
    BY <1>n, <2>4 DEF InMove, outside, CellJobs, PushSteps, RemoveSteps, EraseSteps
  <2> QED  BY <1>n, <1>p, <2>3, <2>4, <2>5
<1>4. CASE Expire(c)
  <2>1. /\ UNCHANGED <<lists, pipe, outside>> /\ cell' = [cell EXCEPT ![c] = None]
    BY <1>4 DEF Expire
  <2>2. Turns(home[c], {}, {})
    BY <2>1 DEF Turns, Queued
  <2>3. \A x \in Clients : cell'[x] = cell[x] \/ cell'[x] = None
    BY <1>t, <2>1
  <2>4. Asks(c, {})
    BY <1>t, <2>1, <2>2, <2>3 DEF Asks, lists, outside, Lists
  <2> QED  BY <2>4
<1>5. ASSUME ClientStep(c), UNCHANGED cellVars PROVE \E us : Asks(c, us)
  <2>1. CASE CreateGroup(c)
    BY <1>t, <2>1 DEF CreateGroup, Lists
  <2>2. CASE DeleteGroup(c) \/ LeaveGroup(c)
    BY <2>2 DEF DeleteGroup, LeaveGroup, Request, MaySend, UpdatesAndJoins
  <2>3. CASE JoinGroup(c)
    <3>1. PICK g \in Groups : Issue(home[c], <<Task("get.hget", "join", c, g)>>)
      BY <1>t, <2>3 DEF JoinGroup, Request, Lists
    <3> DEFINE t == Task("get.hget", "join", c, g)
    <3>3. t \in CellTasks
      BY StepsKnown DEF Task, CellTasks, AllOps
    <3>4. UNCHANGED <<lists, outside, cell>>
      BY <1>5, <2>3 DEF JoinGroup, Request, lists, outside, cellVars
    <3>5. InMove(t, home[c])'
      BY <1>n, <3>4 DEF InMove, outside, CellJobs, PushSteps, RemoveSteps, EraseSteps
    <3> QED  BY <1>n, <1>p, <3>1, <3>3, <3>4, <3>5
  <2>4. CASE BroadcastGroup(c)
    <3>1. PICK g \in Groups : Issue(home[c], <<Task("client.hget", "broadcast", c, g)>>)
      BY <1>t, <2>4 DEF BroadcastGroup, Lists
    <3> DEFINE t == Task("client.hget", "broadcast", c, g)
    <3>3. t \in CellTasks
      BY StepsKnown DEF Task, CellTasks, AllOps
    <3>4. UNCHANGED <<lists, outside, cell>>
      BY <1>5, <2>4 DEF BroadcastGroup, lists, outside, cellVars
    <3>5. InMove(t, home[c])'
      BY <1>n, <3>4 DEF InMove, outside, CellJobs, PushSteps, RemoveSteps, EraseSteps
    <3> QED  BY <1>n, <1>p, <3>1, <3>3, <3>4, <3>5
  <2>5. CASE Close(c)
    <3> DEFINE t == Task("close.lrange", "close", c, None)
    <3>1. /\ Issue(home[c], <<t>>) /\ online' = online \ {c}
          /\ knows' = [g \in Groups |-> {p \in knows[g] : p[1] # c}]
          /\ UNCHANGED <<registry, members, groupsOf, home, minted, known, cell>>
      BY <1>5, <2>5 DEF Close, cellVars
    <3>2. t \in CellTasks
      BY StepsKnown DEF Task, CellTasks, AllOps
    <3>3. InMove(t, home[c])'
      BY <1>n, <3>1 DEF InMove, CellJobs, PushSteps, RemoveSteps, EraseSteps
    <3>4. knows' \in [Groups -> SUBSET (Clients \X Clients)]
      BY <1>t, <3>1 DEF Lists
    <3>5. \A x \in online', y \in Clients, g \in Groups :
             <<x, y>> \in knows[g] => <<x, y>> \in knows'[g]
      BY <3>1
    <3>6. Turns(home[c], {}, {t})
      BY <1>i, <3>1, <3>2
    <3>7. t.c = c /\ t.step \notin {"push.lpushGroup", "cell.set"}
      BY <1>n
    <3> HIDE DEF t
    <3>8. Asks(c, {t})
      BY <3>1, <3>3, <3>4, <3>5, <3>6, <3>7 DEF Asks
    <3> QED  BY <3>8
  <2> QED  BY <1>5, <2>1, <2>2, <2>3, <2>4, <2>5 DEF ClientStep
<1> QED  BY <1>1, <1>2, <1>3, <1>4, <1>5 DEF CellClient

LEMMA DwellingClient ==
    ASSUME CellInv, Dwelling, UpdatesAndJoins, NEW c \in Clients, CellClient(c)
    PROVE  Dwelling'
<1>p. PICK us : Asks(c, us)
  BY ClientAsks
<1>t. /\ Lists /\ AllInMove /\ home \in [Clients -> Servers] /\ home' = home
      /\ online' \subseteq online /\ online \subseteq Clients
      /\ members' = members /\ groupsOf' = groupsOf
      /\ cell \in [Clients -> Cells \cup {None}]
  BY <1>p DEF Dwelling, Lists, CellInv, CellTypeOK, Asks
<1>u. /\ \A s \in Servers : \A u \in Queued(s)' : u \in Queued(s) \/ (s = home[c] /\ u \in us)
      /\ \A s \in Servers : Queued(s) \subseteq Queued(s)'
      /\ \A u \in us : u.step \notin {"push.lpushGroup", "cell.set"}
  BY <1>p DEF Asks, Turns
<1>1. Lists'
  BY <1>t, <1>p DEF Lists, Asks
<1>2. AllInMove'
  <2>1. \A z, u : InMove(u, z) => InMove(u, z)'
    BY <1>t DEF InMove
  <2> QED  BY <1>t, <1>u, <1>p, <2>1 DEF AllInMove, Asks
<1>3. ASSUME NEW x \in online', NEW g \in Groups PROVE Both(x, g)'
  <2>1. Both(x, g) /\ home[x] \in Servers
    BY <1>t DEF Dwelling
  <2> QED  BY <1>t, <1>u, <2>1 DEF Both
<1>4. ASSUME NEW x \in online', NEW g, Entered(x, g) PROVE Entered(x, g)'
  <2>1. home[x] \in Servers
    BY <1>t
  <2> QED  BY <1>t, <1>u, <1>4, <2>1 DEF Entered
<1>5. ASSUME NEW x \in online' PROVE Dwells(x)'
  <2>1. Dwells(x) /\ home[x] \in Servers /\ x \in Clients
    BY <1>t DEF Dwelling
  <2>2. ASSUME cell'[x] # None
        PROVE  \E g : g = GroupOf[home[x]][cell'[x]] /\ Entered(x, g)'
    <3>1. cell'[x] = cell[x]
      BY <1>p, <2>1, <2>2 DEF Asks
    <3> QED  BY <1>4, <2>1, <2>2, <3>1 DEF Dwells
  <2>3. ASSUME NEW u \in Queued(home[x])', u.c = x, u.step = "cell.set"
        PROVE  Entered(x, u.g)'
    <3>1. u \in Queued(home[x])
      BY <1>t, <1>u, <2>1, <2>3
    <3>2. PICK g : g = u.g
      OBVIOUS
    <3>3. Entered(x, g)
      BY <2>1, <2>3, <3>1, <3>2 DEF Dwells
    <3> QED  BY <1>4, <3>2, <3>3
  <2> QED  BY <1>t, <2>2, <2>3 DEF Dwells
<1>6. ASSUME NEW x \in online', NEW y \in online', NEW g \in Groups, Together(x, y, g)'
      PROVE  Acquainted(x, y, g)'
  <2>1. Together(x, y, g) /\ home[x] \in Servers /\ x \in Clients /\ y \in Clients
    BY <1>t, <1>6 DEF Together
  <2>2. Acquainted(x, y, g)
    BY <1>t, <2>1 DEF Dwelling
  <2>3. /\ <<x, y>> \in knows[g] => <<x, y>> \in knows'[g]
        /\ <<y, x>> \in knows[g] => <<y, x>> \in knows'[g]
    BY <1>p, <2>1 DEF Asks
  <2> QED  BY <1>t, <1>u, <2>1, <2>2, <2>3 DEF Acquainted
<1> QED  BY <1>1, <1>2, <1>3, <1>5, <1>6 DEF Dwelling

LEMMA DwellingServer ==
    ASSUME CellInv, Dwelling, NEW s \in Servers, CellServer(s)
    PROVE  Dwelling'
<1>1. PICK t \in Queued(s) : \E us : Runs(s, t, us)
  BY ServerGoes
<1>s. PICK us : Runs(s, t, us)
  BY <1>1
<1>2. online' = online
  BY <1>s DEF Runs
<1>3. Lists' /\ AllInMove'
  BY <1>s, ListsServer, InMoveServer
<1>4. \A c \in online, g \in Groups : Both(c, g)'
  BY <1>s, BothServer
<1>5. \A c \in online : Dwells(c)'
  BY <1>s, DwellsServer
<1>6. \A x \in online, y \in online, g \in Groups : Together(x, y, g)' => Acquainted(x, y, g)'
  BY <1>s, AcquaintedServer
<1> QED  BY <1>2, <1>3, <1>4, <1>5, <1>6 DEF Dwelling

LEMMA DwellingInit == CellInit => Dwelling
<1> SUFFICES ASSUME CellInit PROVE Dwelling
  OBVIOUS
<1>1. Lists
  BY DEF CellInit, Lists, EmptyMembers, EmptyGroupsOf
<1>2. \A s \in Servers : Queued(s) = {}
  BY RangeShort DEF CellInit, Queued
<1>3. \A c \in Clients : home[c] \in Servers /\ cell[c] = None
  BY DEF CellInit
<1>4. \A c \in Clients, g \in Groups : members[g][c] = 0 /\ groupsOf[c][g] = 0
  BY DEF CellInit, EmptyMembers, EmptyGroupsOf
<1>5. online = Clients
  BY DEF CellInit
<1>6. \A c \in Clients, g \in Groups : Both(c, g)
  BY <1>2, <1>3, <1>4 DEF Both
<1>7. \A c \in Clients : Dwells(c)
  BY <1>2, <1>3 DEF Dwells
<1>8. \A x \in Clients, y \in Clients, g \in Groups : ~Together(x, y, g)
  BY <1>4 DEF Together
<1> QED  BY <1>1, <1>2, <1>5, <1>6, <1>7, <1>8 DEF Dwelling, AllInMove

LEMMA DwellingInvariant ==
    ASSUME UpdatesAndJoins
    PROVE  CellSpec => [](CellInv /\ Dwelling)
<1>1. CellInv /\ Dwelling /\ [CellNext]_<<vars, cellVars>> => Dwelling'
  <2>1. ASSUME Dwelling, UNCHANGED <<vars, cellVars>> PROVE Dwelling'
    BY <2>1 DEF vars, cellVars, Dwelling, Lists, AllInMove, InMove, Both, Dwells, Entered,
                Acquainted, Together, Queued
  <2>2. CellInv /\ Dwelling /\ CellNext => Dwelling'
    BY DwellingClient, DwellingServer DEF CellNext
  <2> QED  BY <2>1, <2>2
<1>2. CellInit => Dwelling
  BY DwellingInit
<1> QED  BY <1>1, <1>2, CellInvariant, PTL DEF CellSpec

(* Nothing is queued for a client that has settled. *)
LEMMA NothingQueued ==
    ASSUME CellInv, NEW c, Settled(c), NEW t \in Queued(home[c])
    PROVE  t.c # c
BY DEF Settled, Pending, Queued, Range

(* A client is in the group of its stored cell, on its own list and on that *)
(* of the group, as soon as its updates are through, however these overlap  *)
(* with each other, with its joins and with those of others.                *)
THEOREM InItsCellsGroup ==
    ASSUME UpdatesAndJoins
    PROVE  CellSpec => []InItsCell
<1>1. CellInv /\ Dwelling => InItsCell
  <2> SUFFICES ASSUME CellInv, Dwelling, NEW c \in Clients, Settled(c), cell[c] # None,
                      NEW g, g = GroupOf[home[c]][cell[c]]
               PROVE  groupsOf[c][g] > 0 /\ members[g][c] > 0
    BY DEF InItsCell
  <2>1. c \in online /\ g \in Groups
    BY CellGroup DEF Settled, CellInv, CellTypeOK
  <2>2. Entered(c, g) /\ Both(c, g) /\ members[g][c] \in Nat
    BY <2>1 DEF Dwelling, Dwells, Lists
  <2> QED  BY <2>2, NothingQueued DEF Entered, Both, Joins
<1> QED  BY <1>1, DwellingInvariant, PTL

(* Of two clients of one server in one cell at least one has been told of   *)
(* the other, as soon as the updates of both are through.                   *)
THEOREM NeighboursMeet ==
    ASSUME UpdatesAndJoins
    PROVE  CellSpec => []NeighboursKnow
<1>1. CellInv /\ Dwelling => NeighboursKnow
  <2> SUFFICES ASSUME CellInv, Dwelling, NEW x \in Clients, NEW y \in Clients,
                      x # y, home[x] = home[y], Settled(x), Settled(y),
                      cell[x] # None, cell[x] = cell[y],
                      NEW g, g = GroupOf[home[x]][cell[x]]
               PROVE  <<x, y>> \in knows[g] \/ <<y, x>> \in knows[g]
    BY DEF NeighboursKnow
  <2>1. x \in online /\ y \in online /\ g \in Groups
    BY CellGroup DEF Settled, CellInv, CellTypeOK
  <2>2. /\ Entered(x, g) /\ Both(x, g) /\ members[g][x] \in Nat
        /\ Entered(y, g) /\ Both(y, g) /\ members[g][y] \in Nat
    BY <2>1 DEF Dwelling, Dwells, Lists
  <2>3. Together(x, y, g)
    BY <2>2, NothingQueued DEF Entered, Both, Joins, Together
  <2>4. Acquainted(x, y, g)
    BY <2>1, <2>3 DEF Dwelling
  <2> QED  BY <2>4, NothingQueued DEF Acquainted, Joins
<1> QED  BY <1>1, DwellingInvariant, PTL
===============================================================================
