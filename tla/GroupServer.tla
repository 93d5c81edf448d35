----------------------------- MODULE GroupServer ------------------------------
(***************************************************************************)
(* lib/GroupServer.js: the group protocol (CREATE, DELETE, JOIN, LEAVE,    *)
(* BROADCAST and the connection's CLOSE) on top of the lists of            *)
(* GroupStore, for a cluster of servers that share one Redis.              *)
(*                                                                         *)
(* A client is connected to one server, its home, for as long as it lives  *)
(* (a reconnect gets a new clientId), and every request it sends is worked *)
(* on there.  Requests are not serialised: a handler starts as soon as the *)
(* message arrives, whatever the client's earlier requests are doing.      *)
(***************************************************************************)
EXTENDS GroupStore

CONSTANTS Ops,          \* the requests clients send
          MaxPending,   \* bound: requests of one client being worked on
          CloseMidway   \* may a client close while one of them is?

VARIABLES home,    \* home[c]: the server c is connected to
          online,  \* connected clients
          minted,  \* groupIds generated so far
          known,   \* groupIds a CREATE has been answered with
          knows    \* <<x, c>> \in knows[g]: x has been told that c is in g

vars == <<registry, members, groupsOf, pipe, home, online, minted, known, knows>>

AllOps == {"create", "delete", "join", "leave", "broadcast", "close"}

ASSUME OpsAssumption == /\ Ops \subseteq AllOps
                        /\ MaxPending \in Nat \ {0}
                        /\ CloseMidway \in BOOLEAN

Jobs == AllOps \cup {"heal"}

Steps == StoreSteps \cup {"create.hset", "client.hget", "client.hset",
                          "client.lrange", "close.lrange", "notify.lrange"}

Tasks == {t \in [step : Steps, job : Jobs, c : Clients, g : Groups \cup {None},
                 seen : SUBSET Clients, left : SUBSET Clients] :
             t.g = None => t.step = "close.lrange"}

TypeOK ==
    /\ registry \subseteq Groups
    /\ members \in [Groups -> [Clients -> Nat]]
    /\ groupsOf \in [Clients -> [Groups -> Nat]]
    /\ pipe \in [Servers -> Seq(Tasks)]
    /\ home \in [Clients -> Servers]
    /\ online \subseteq Clients
    /\ minted \subseteq Groups
    /\ known \subseteq Groups
    /\ knows \in [Groups -> SUBSET (Clients \X Clients)]

Init ==
    /\ registry = {}
    /\ members = EmptyMembers
    /\ groupsOf = EmptyGroupsOf
    /\ pipe = [s \in Servers |-> <<>>]
    /\ home \in [Clients -> Servers]
    /\ online = Clients
    /\ minted = {}
    /\ known = {}
    /\ knows = [g \in Groups |-> {}]

-------------------------------------------------------------------------------
(* Requests arriving at the client's home (the "internal" listener). *)

(* The commands queued for requests of c: one for each chain that has not   *)
(* come to its end.                                                         *)
Pending(c) == {i \in DOMAIN pipe[home[c]] : pipe[home[c]][i].c = c}

MaySend(c, op) == /\ op \in Ops
                  /\ c \in online
                  /\ Cardinality(Pending(c)) < MaxPending

(* __createGroup: the key is generated on the spot, HSET comes first. *)
CreateGroup(c) ==
    /\ MaySend(c, "create")
    /\ \E g \in Groups \ minted :
          /\ minted' = minted \cup {g}
          /\ Issue(home[c], <<Task("create.hset", "create", c, g)>>)
    /\ UNCHANGED <<registry, members, groupsOf, home, online, known, knows>>

(* __deleteGroup, __joinGroup, __leaveGroup: all start with getGroupInstance.*)
Request(c, op) ==
    /\ MaySend(c, op)
    /\ \E g \in known : Issue(home[c], <<Task("get.hget", op, c, g)>>)
    /\ UNCHANGED <<registry, members, groupsOf, home, online, minted, known, knows>>

DeleteGroup(c) == Request(c, "delete")
JoinGroup(c) == Request(c, "join")
LeaveGroup(c) == Request(c, "leave")

(* __broadcastGroup starts with getClientInstance. *)
BroadcastGroup(c) ==
    /\ MaySend(c, "broadcast")
    /\ \E g \in known : Issue(home[c], <<Task("client.hget", "broadcast", c, g)>>)
    /\ UNCHANGED <<registry, members, groupsOf, home, online, minted, known, knows>>

(* The socket's "close": the client is dropped, __leaveAllGroups starts. *)
Close(c) ==
    /\ "close" \in Ops
    /\ c \in online
    /\ CloseMidway \/ Pending(c) = {}
    /\ online' = online \ {c}
    /\ knows' = [g \in Groups |-> {p \in knows[g] : p[1] # c}]
    /\ Issue(home[c], <<Task("close.lrange", "close", c, None)>>)
    /\ UNCHANGED <<registry, members, groupsOf, home, minted, known>>

-------------------------------------------------------------------------------
(* Steps of the chains on server s. *)

Rejected(t) == <<>>   \* the handler answers "failed" and is done
Notify(t) == <<At(t, "notify.lrange")>>

Found(t) == <<At(t, CASE t.job = "join" -> "push.lrangeGroup"
                      [] t.job = "delete" -> "erase.lrangeGroup"
                      [] OTHER -> "remove.lremClient")>>

(* Mutant: the JOIN notification is forgotten. *)
Pushed_Silent(t) == <<>>

Pushed(t) == IF t.job = "create" THEN <<>> ELSE Notify(t)

(* Mutant: look the group up again once its left-overs are cleaned. *)
Erased_Retry(t) == IF t.job = "heal" THEN <<At(t, "get.hget")>> ELSE Notify(t)

Erased(t) == IF t.job = "heal" THEN <<>> ELSE Notify(t)

(* Mutant: the group is used without being registered. *)
CreateEntry_Unregistered(s) ==
    /\ Running(s, "create.hset")
    /\ Reply(s, <<At(Head(pipe[s]), "push.lrangeGroup")>>)
    /\ UNCHANGED <<registry, members, groupsOf, home, online, minted, known, knows>>

(* createGroupInstance registers the key, then __createGroup pushes.        *)
CreateEntry(s) ==
    LET t == Head(pipe[s]) IN
    /\ Running(s, "create.hset")
    /\ registry' = registry \cup {t.g}
    /\ Reply(s, <<At(t, "push.lrangeGroup")>>)
    /\ UNCHANGED <<members, groupsOf, home, online, minted, known, knows>>

Get(s) == /\ GetGroupInstance(s, Found(Head(pipe[s])))
          /\ UNCHANGED <<home, online, minted, known, knows>>

Push(s) == /\ \/ PushReadGroup(s, Rejected(Head(pipe[s])))
              \/ PushReadClient(s, Rejected(Head(pipe[s])))
              \/ PushWriteClient(s)
           /\ UNCHANGED <<home, online, minted, known, knows>>

(* The end of a push: JOIN notifies the group, CREATE hands out the id.     *)
PushEnd(s) ==
    /\ PushWriteGroup(s, Pushed(Head(pipe[s])))
    /\ LET t == Head(pipe[s]) IN
       known' = IF t.job = "create" /\ t.c \in online
                THEN known \cup {t.g} ELSE known
    /\ UNCHANGED <<home, online, minted, knows>>

Remove(s) == /\ RemoveWriteClient(s)
             /\ UNCHANGED <<home, online, minted, known, knows>>

(* Mutant: a closed connection leaves without a word. *)
RemoveEnd_QuietClose(s) ==
    /\ LET t == Head(pipe[s]) IN
       /\ RemoveWriteGroup(s, IF t.job = "close" THEN <<>> ELSE Notify(t))
       /\ knows' = [knows EXCEPT ![t.g] = {p \in @ : p[1] # t.c}]
    /\ UNCHANGED <<home, online, minted, known>>

(* The end of a remove: the leaver is out, the rest of the group is told.   *)
RemoveEnd(s) ==
    /\ RemoveWriteGroup(s, Notify(Head(pipe[s])))
    /\ LET t == Head(pipe[s]) IN
       knows' = [knows EXCEPT ![t.g] = {p \in @ : p[1] # t.c}]
    /\ UNCHANGED <<home, online, minted, known>>

Erase(s) == /\ \/ EraseReadGroup(s)
               \/ EraseWriteClient(s)
               \/ EraseEntry(s)
               \/ EraseGroup(s, Erased(Head(pipe[s])))
            /\ UNCHANGED <<home, online, minted, known, knows>>

(* Mutant: __leaveGroup is called with a content that lacks the groupId.    *)
LeaveAllGroups_BadContent(s) ==
    /\ Running(s, "close.lrange")
    /\ Reply(s, <<>>)
    /\ UNCHANGED <<registry, members, groupsOf, home, online, minted, known, knows>>

(* Mutant: the groupId of the close, which has none, instead of the listed. *)
LeaveAllGroups_OwnGroup(s) ==
    LET t == Head(pipe[s])
        listed == GroupsOfClient(t.c) IN
    /\ Running(s, "close.lrange")
    /\ \E order \in [1..Cardinality(listed) -> listed] :
          /\ \A i, j \in DOMAIN order : i # j => order[i] # order[j]
          /\ Reply(s, [i \in DOMAIN order |-> Task("get.hget", "close", t.c, t.g)])
    /\ UNCHANGED <<registry, members, groupsOf, home, online, minted, known, knows>>

(* __leaveAllGroups: one __leaveGroup for each group in the client's list.  *)
LeaveAllGroups(s) ==
    LET t == Head(pipe[s])
        listed == GroupsOfClient(t.c) IN
    /\ Running(s, "close.lrange")
    /\ \E order \in [1..Cardinality(listed) -> listed] :
          /\ \A i, j \in DOMAIN order : i # j => order[i] # order[j]
          /\ Reply(s, [i \in DOMAIN order |-> Task("get.hget", "close", t.c, order[i])])
    /\ UNCHANGED <<registry, members, groupsOf, home, online, minted, known, knows>>

(* getClientInstance: HGET, then HSET of the clientId in either case.  The  *)
(* client entries of the hash are never looked at: either answer leads to   *)
(* the same ClientGroup.                                                    *)
GetClient(s) ==
    LET t == Head(pipe[s]) IN
    /\ Running(s, "client.hget")
    /\ Reply(s, <<At(t, "client.hset")>>)
    /\ UNCHANGED <<registry, members, groupsOf, home, online, minted, known, knows>>

SetClient(s) ==
    LET t == Head(pipe[s]) IN
    /\ Running(s, "client.hset")
    /\ Reply(s, <<At(t, "client.lrange")>>)
    /\ UNCHANGED <<registry, members, groupsOf, home, online, minted, known, knows>>

(* __broadcastGroup refuses a sender whose own list lacks the group.        *)
CheckSender(s) ==
    LET t == Head(pipe[s]) IN
    /\ Running(s, "client.lrange")
    /\ Reply(s, IF groupsOf[t.c][t.g] > 0 THEN Notify(t) ELSE Rejected(t))
    /\ UNCHANGED <<registry, members, groupsOf, home, online, minted, known, knows>>

(* broadcastToGroup: everyone the group lists now, but for the sender.      *)
Audience(t) == MembersOf(t.g) \ {t.c}

(* Server._sendList reaches the sockets of its own server only: for the     *)
(* others it publishes the whole array of ids as a clientId, which no       *)
(* server can look up.                                                      *)
Reached(s, aud) == {x \in aud : x \in online /\ home[x] = s}

NotifyGroup(s) ==
    LET t == Head(pipe[s])
        told == Reached(s, Audience(t)) IN
    /\ Running(s, "notify.lrange")
    /\ Reply(s, <<>>)
    /\ knows' = [knows EXCEPT ![t.g] =
                    CASE t.job = "join" -> @ \cup (told \X {t.c})
                      [] t.job \in {"leave", "close"} -> @ \ (told \X {t.c})
                      [] t.job = "delete" -> {p \in @ : p[1] \notin told}
                      [] OTHER -> @]
    /\ UNCHANGED <<registry, members, groupsOf, home, online, minted, known>>

-------------------------------------------------------------------------------
ClientStep(c) == \/ CreateGroup(c)
                 \/ DeleteGroup(c)
                 \/ JoinGroup(c)
                 \/ LeaveGroup(c)
                 \/ BroadcastGroup(c)
                 \/ Close(c)

ServerStep(s) == \/ CreateEntry(s)
                 \/ Get(s)
                 \/ Push(s)
                 \/ PushEnd(s)
                 \/ Remove(s)
                 \/ RemoveEnd(s)
                 \/ Erase(s)
                 \/ LeaveAllGroups(s)
                 \/ GetClient(s)
                 \/ SetClient(s)
                 \/ CheckSender(s)
                 \/ NotifyGroup(s)

Next == \/ \E c \in Clients : ClientStep(c)
        \/ \E s \in Servers : ServerStep(s)

Spec == Init /\ [][Next]_vars

(* Redis answers and the event loop turns: a pipeline that is not empty     *)
(* moves.  Clients owe nothing.                                             *)
FairSpec == Spec /\ \A s \in Servers : WF_vars(ServerStep(s))

-------------------------------------------------------------------------------
(* Properties. *)

(* Nobody else writes the lists of c while c's chains run on its home, so   *)
(* the second writes land in the order of the first ones: when a second     *)
(* write for (c, g) is still queued, c's own list already shows what the    *)
(* last of them will do, and when none is, both lists agree                 *)
(* (Group.push and Group.remove, chained by JOIN, LEAVE and CLOSE).         *)
Agrees(c, g) == Converging(pipe[home[c]], c, g, groupsOf[c][g] > 0, members[g][c] > 0)

Agreement == \A c \in Clients, g \in Groups : Agrees(c, g)

(* What makes Agreement inductive as long as nobody deletes: every chain    *)
(* runs on the home of its client, and the group it works on is registered, *)
(* as is every group a list names.                                          *)
InOrder(t, s, homes, registered) ==
    /\ homes[t.c] = s
    /\ t.step \notin EraseSteps
    /\ t.job \notin {"delete", "heal"}
    /\ t.step \notin {"create.hset", "close.lrange"} => t.g \in registered

ChainsInOrder ==
    \A s \in Servers : \A i \in DOMAIN pipe[s] : InOrder(pipe[s][i], s, home, registry)

ListsRegistered ==
    /\ known \subseteq registry
    /\ \A c \in Clients, g \in Groups :
          (groupsOf[c][g] > 0 \/ members[g][c] > 0) => g \in registry

UndeletedInv == TypeOK /\ ChainsInOrder /\ ListsRegistered /\ Agreement

(* A DELETE that races a JOIN damages the deleted group only: as long as a  *)
(* group is registered and nobody has begun to erase it, the agreement      *)
(* holds for it.                                                            *)
Intact(g) == /\ g \in registry
             /\ \A s \in Servers : \A i \in DOMAIN pipe[s] :
                   ~(pipe[s][i].g = g /\ pipe[s][i].step \in EraseSteps)

IntactAgreement == \A g \in Groups : Intact(g) => \A c \in Clients : Agrees(c, g)

(* GroupHandler.js:11-14: whichever side an action goes through, the lists  *)
(* of the clients and of the groups agree once the work is done.            *)
QuietSymmetry == Quiet => \A c \in Clients, g \in Groups : Symmetric(c, g)

(* A group that lists anybody is in the handler's hash, so that no request  *)
(* for it is answered with "group does not exist".                          *)
NoZombieGroup == \A g \in Groups : MembersOf(g) # {} => g \in registry

(* Presence: of two members on one server, at least one was told about the  *)
(* other (the one who was in first), once their JOINs have been announced.  *)
Announced(c, g) == \A i \in DOMAIN pipe[home[c]] :
                      LET t == pipe[home[c]][i] IN
                      ~(t.c = c /\ t.g = g /\ t.job \in {"create", "join"})

PeersIntroduced ==
    \A g \in Groups : \A x, y \in MembersOf(g) \cap online :
        (x # y /\ home[x] = home[y] /\ Announced(x, g) /\ Announced(y, g))
            => <<x, y>> \in knows[g] \/ <<y, x>> \in knows[g]

(* Nobody keeps believing in a peer that has left: the LEAVE notice reaches *)
(* every member that heard the JOIN notice, in that order.                  *)
NoPhantomPeer ==
    \A g \in Groups : \A p \in knows[g] :
        Pending(p[2]) = {} => members[g][p[2]] > 0

(* GroupServer.js:412: a connection that closes while nothing of it is      *)
(* under way has left all groups for good; in a group that has been         *)
(* deleted a left-over may stay.                                            *)
Deleted(g) == g \in known \ registry

NotListed(c, g) == Deleted(g) \/ (groupsOf[c][g] = 0 /\ members[g][c] = 0)

ClosedIdle(c) == /\ c \notin online /\ Pending(c) # {}
                 /\ \A i \in Pending(c) : pipe[home[c]][i].step = "close.lrange"

GoneForGood == \A c \in Clients : ClosedIdle(c) ~> [](\A g \in Groups : NotListed(c, g))

(* A LEAVE that is being worked on gets the client out of both lists. *)
Leaving(c, g) == \E i \in DOMAIN pipe[home[c]] :
                    LET t == pipe[home[c]][i] IN
                    t.c = c /\ t.g = g /\ t.job = "leave"

LeaveTakesEffect ==
    \A c \in Clients, g \in Groups : Leaving(c, g) ~> NotListed(c, g)

(* Every request comes to an end, the ones for groups that are gone as well. *)
ServedEventually == \A c \in Clients : Pending(c) # {} ~> Pending(c) = {}
===============================================================================
