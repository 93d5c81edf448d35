------------------------------ MODULE GroupStore ------------------------------
(***************************************************************************)
(* The group lists a cluster of balance-engine servers keeps in Redis, and *)
(* the only way a server touches them: lib/groups/Group.js,                *)
(* GroupHandler.js and GroupManager.js.                                    *)
(*                                                                         *)
(* A membership is written twice: a Group is a Redis list of clientIds and *)
(* a ClientGroup a Redis list of groupIds.  A server owns one ioredis      *)
(* connection (Server._getStandaloneRedisClient), so the commands it has   *)
(* issued form a FIFO pipeline, and the promise chain waiting for a reply  *)
(* issues its next command behind everything that is already in there.     *)
(* The model keeps that pipeline: pipe[s] is the sequence of commands of   *)
(* server s Redis has not run yet, each one with the chain it belongs to.  *)
(* One step runs the head of one pipeline and appends what the chain does  *)
(* on the reply.  Commands of different servers interleave freely.         *)
(*                                                                         *)
(* The order inside a list is never read by the group layer, so a list is  *)
(* a bag: LPUSH adds one, LREM 0 drops every copy, DEL empties it.         *)
(***************************************************************************)
EXTENDS Naturals, Sequences, FiniteSets

CONSTANTS Clients,   \* clientIds ("c:" + uuid, one for each connection)
          Groups,    \* groupIds  ("g:" + uuid) that may be generated
          Servers,   \* server processes
          None       \* the absent client or group of a command that has none

ASSUME StoreAssumption == /\ IsFiniteSet(Clients)
                          /\ IsFiniteSet(Groups)
                          /\ None \notin Clients \cup Groups

VARIABLES registry,  \* groupIds in the hash BALANCE:GROUP:HANDLER
          members,   \* members[g][c]: copies of c in the list of group g
          groupsOf,  \* groupsOf[c][g]: copies of g in the list of client c
          pipe       \* pipe[s]: the pipeline of server s

-------------------------------------------------------------------------------
(* Lists and pipelines. *)

EmptyMembers == [g \in Groups |-> [c \in Clients |-> 0]]

EmptyGroupsOf == [c \in Clients |-> [g \in Groups |-> 0]]

MembersOf(g) == {c \in Clients : members[g][c] > 0}

GroupsOfClient(c) == {g \in Groups : groupsOf[c][g] > 0}

(* The commands of Group.push, Group.remove, Group.erase and                *)
(* GroupHandler.getGroupInstance, named for their chain and their command.  *)
PushSteps == {"push.lrangeGroup", "push.lrangeClient",
              "push.lpushClient", "push.lpushGroup"}
RemoveSteps == {"remove.lremClient", "remove.lremGroup"}
EraseSteps == {"erase.lrangeGroup", "erase.lremClient", "erase.hdel", "erase.del"}
StoreSteps == {"get.hget"} \cup PushSteps \cup RemoveSteps \cup EraseSteps

(* A queued command: the request (job) it works for, the client and group   *)
(* of that request, and for an erase the members its LRANGE saw and those   *)
(* whose list is still to be cleaned.                                       *)
Task(step, job, c, g) ==
    [step |-> step, job |-> job, c |-> c, g |-> g, seen |-> {}, left |-> {}]

At(t, step) == [t EXCEPT !.step = step]

Running(s, step) == pipe[s] # <<>> /\ Head(pipe[s]).step = step

(* Redis runs the head of s; its chain goes on with the commands `follow`.  *)
Reply(s, follow) == pipe' = [pipe EXCEPT ![s] = Tail(@) \o follow]

(* A handler of s starts a chain. *)
Issue(s, tasks) == pipe' = [pipe EXCEPT ![s] = @ \o tasks]

-------------------------------------------------------------------------------
(* GroupHandler.getGroupInstance: an id the hash does not know is erased    *)
(* (left-over lists are cleaned) before the caller sees DOES_NOT_EXIST.     *)
(* Here and below the last argument is what the caller goes on with.        *)

GetGroupInstance(s, found) ==
    LET t == Head(pipe[s]) IN
    /\ Running(s, "get.hget")
    /\ Reply(s, IF t.g \in registry
                THEN found
                ELSE <<[At(t, "erase.lrangeGroup") EXCEPT !.job = "heal"]>>)
    /\ UNCHANGED <<registry, members, groupsOf>>

(* Group.push: refuse a listed client, then write the client's list, then   *)
(* the group's.                                                             *)
PushReadGroup(s, failed) ==
    LET t == Head(pipe[s]) IN
    /\ Running(s, "push.lrangeGroup")
    /\ Reply(s, IF members[t.g][t.c] > 0
                THEN failed
                ELSE <<At(t, "push.lrangeClient")>>)
    /\ UNCHANGED <<registry, members, groupsOf>>

PushReadClient(s, failed) ==
    LET t == Head(pipe[s]) IN
    /\ Running(s, "push.lrangeClient")
    /\ Reply(s, IF groupsOf[t.c][t.g] > 0
                THEN failed
                ELSE <<At(t, "push.lpushClient")>>)
    /\ UNCHANGED <<registry, members, groupsOf>>

PushWriteClient(s) ==
    LET t == Head(pipe[s]) IN
    /\ Running(s, "push.lpushClient")
    /\ groupsOf' = [groupsOf EXCEPT ![t.c][t.g] = @ + 1]
    /\ Reply(s, <<At(t, "push.lpushGroup")>>)
    /\ UNCHANGED <<registry, members>>

PushWriteGroup(s, pushed) ==
    LET t == Head(pipe[s]) IN
    /\ Running(s, "push.lpushGroup")
    /\ members' = [members EXCEPT ![t.g][t.c] = @ + 1]
    /\ Reply(s, pushed)
    /\ UNCHANGED <<registry, groupsOf>>

(* Mutant: remove in its simple form, the group's list is forgotten. *)
RemoveWriteClient_Simple(s) ==
    LET t == Head(pipe[s]) IN
    /\ Running(s, "remove.lremClient")
    /\ groupsOf' = [groupsOf EXCEPT ![t.c][t.g] = 0]
    /\ Reply(s, <<>>)
    /\ UNCHANGED <<registry, members>>

(* Group.remove: the client's list first, then the group's. *)
RemoveWriteClient(s) ==
    LET t == Head(pipe[s]) IN
    /\ Running(s, "remove.lremClient")
    /\ groupsOf' = [groupsOf EXCEPT ![t.c][t.g] = 0]
    /\ Reply(s, <<At(t, "remove.lremGroup")>>)
    /\ UNCHANGED <<registry, members>>

(* Mutant: LREM with a count of one. *)
RemoveWriteGroup_One(s, removed) ==
    LET t == Head(pipe[s]) IN
    /\ Running(s, "remove.lremGroup")
    /\ members' = [members EXCEPT ![t.g][t.c] = IF @ > 0 THEN @ - 1 ELSE 0]
    /\ Reply(s, removed)
    /\ UNCHANGED <<registry, groupsOf>>

RemoveWriteGroup(s, removed) ==
    LET t == Head(pipe[s]) IN
    /\ Running(s, "remove.lremGroup")
    /\ members' = [members EXCEPT ![t.g][t.c] = 0]
    /\ Reply(s, removed)
    /\ UNCHANGED <<registry, groupsOf>>

(* Group.erase: list the members, clean the list of each of them (a burst   *)
(* of LREMs, back to back in this pipeline, in list order), drop the hash   *)
(* entry, delete the list.                                                  *)
EraseReadGroup(s) ==
    LET t == Head(pipe[s])
        listed == MembersOf(t.g) IN
    /\ Running(s, "erase.lrangeGroup")
    /\ Reply(s, IF listed = {}
                THEN <<At(t, "erase.hdel")>>
                ELSE <<[At(t, "erase.lremClient")
                            EXCEPT !.seen = listed, !.left = listed]>>)
    /\ UNCHANGED <<registry, members, groupsOf>>

EraseWriteClient(s) ==
    LET t == Head(pipe[s]) IN
    /\ Running(s, "erase.lremClient")
    /\ \E c \in t.left :
          /\ groupsOf' = [groupsOf EXCEPT ![c][t.g] = 0]
          /\ IF t.left = {c}
             THEN Reply(s, <<[At(t, "erase.hdel") EXCEPT !.left = {}]>>)
             ELSE pipe' = [pipe EXCEPT ![s] =
                              <<[t EXCEPT !.left = @ \ {c}]>> \o Tail(@)]
    /\ UNCHANGED <<registry, members>>

EraseEntry(s) ==
    LET t == Head(pipe[s]) IN
    /\ Running(s, "erase.hdel")
    /\ registry' = registry \ {t.g}
    /\ Reply(s, <<At(t, "erase.del")>>)
    /\ UNCHANGED <<members, groupsOf>>

EraseGroup(s, erased) ==
    LET t == Head(pipe[s]) IN
    /\ Running(s, "erase.del")
    /\ members' = [members EXCEPT ![t.g] = [c \in Clients |-> 0]]
    /\ Reply(s, erased)
    /\ UNCHANGED <<registry, groupsOf>>

-------------------------------------------------------------------------------
(* Properties of a client's lists. *)

Quiet == \A s \in Servers : pipe[s] = <<>>

(* The two lists tell the same story about c and g. *)
Symmetric(c, g) == groupsOf[c][g] > 0 <=> members[g][c] > 0

(* Between the two writes of a push or a remove they may differ: the second *)
(* write is then still queued.                                              *)
Owes(t, c, g) == /\ t.c = c
                 /\ t.g = g
                 /\ t.step \in {"push.lpushGroup", "remove.lremGroup"}

IsLast(q, i, c, g) == /\ Owes(q[i], c, g)
                      /\ \A j \in DOMAIN q : j > i => ~Owes(q[j], c, g)

(* The client's list shows what the last queued second write will do to the *)
(* group's list; with none queued both agree.                               *)
Converging(q, c, g, inClient, inGroup) ==
    /\ (\A i \in DOMAIN q : ~Owes(q[i], c, g)) => (inClient <=> inGroup)
    /\ \A i \in DOMAIN q : IsLast(q, i, c, g)
                               => (inClient <=> q[i].step = "push.lpushGroup")
===============================================================================
