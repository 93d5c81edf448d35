----------------------------- MODULE MatchMaking ------------------------------
(***************************************************************************)
(* lib/RoomGroupServer.js: the match making queue and the confirmation     *)
(* rounds, on top of the group lists of GroupStore.                        *)
(*                                                                         *)
(* Every RoomGroupServer creates a queue of its own when it opens          *)
(* (_queueGroupId), so the clients it matches are the ones connected to    *)
(* it: the module has one server.  Its interval alternates a matching run  *)
(* (cut the queue into lobbies, move each lobby from the queue into a new  *)
(* group, invite it) with a confirmation round (start the matches all have *)
(* confirmed, disband the ones that are two minutes old).  Clients search, *)
(* leave, confirm, exit and disconnect meanwhile, and their handlers share *)
(* the server's Redis pipeline with the interval.                          *)
(***************************************************************************)
EXTENDS GroupStore, SequencesExt

CONSTANTS Queue,        \* the group of _queueGroupId
          LobbySize,    \* config.server.lobbySize
          RunIds,       \* matching runs that may overlap (setInterval does not wait)
          Ops,          \* the requests clients send
          MaxPending,   \* bound: requests of one client being worked on
          CloseMidway   \* may a client close while one of them is?

VARIABLES online,     \* connected clients
          view,       \* view[c]: what c has been told, [at, m]
          minted,     \* matches whose group has been drawn
          lobby,      \* lobby[m]: the clients cut for match m, in list order
          run,        \* run[r]: idle, matching, or pausing for 10 ms
          batch,      \* batch[r]: the matches run r is filling, in order
          confirming, \* keys of _confirmations
          late,       \* those opened at least MAX_MMC_LIFETIME_MS ago
          timers,     \* disbanded matches whose 250 ms timer is set
          verdicts,   \* verdicts[m]: the "start"s and "disband"s of m, in order
          mmc,        \* mmc[m][c]: copies of c in the list "mmc:" + m
          ttl         \* the mmc lists that carry an expiry

storeVars == <<registry, members, groupsOf>>
clientVars == <<online, view>>
runVars == <<minted, lobby, run, batch>>
roundVars == <<confirming, late, timers, verdicts>>
mmcVars == <<mmc, ttl>>
vars == <<storeVars, pipe, clientVars, runVars, roundVars, mmcVars>>

AllOps == {"search", "leave", "confirm", "exit", "close"}

Matches == Groups \ {Queue}

Server == CHOOSE s \in Servers : TRUE

ASSUME RoomAssumption == /\ Queue \in Groups
                         /\ LobbySize \in Nat \ {0}
                         /\ RunIds \cap (Matches \cup {None}) = {}
                         /\ Servers = {Server}
                         /\ Ops \subseteq AllOps
                         /\ MaxPending \in Nat \ {0}
                         /\ CloseMidway \in BOOLEAN

Jobs == AllOps \cup {"heal", "match", "found", "start", "disband"}

Steps == StoreSteps \cup {"search.lrange", "member.lrange", "match.lrange",
                          "close.lrange", "create.hset", "mm.lrange", "notify.lrange",
                          "mmc.lrange", "mmc.expire", "mmc.lpush", "mmc.llen", "mmc.del"}

(* A command of this server: for a matching run it also names the match it  *)
(* works for, and for the run's first command the run.                      *)
RoomTask(step, job, c, g, for) ==
    [step |-> step, job |-> job, c |-> c, g |-> g, seen |-> {}, left |-> {}, for |-> for]

Tasks == [step : Steps, job : Jobs, c : Clients \cup {None}, g : Groups \cup {None},
          seen : SUBSET Clients, left : SUBSET Clients,
          for : Matches \cup RunIds \cup {None}]

Places == {"free", "searching", "ignored", "found", "confirmed", "playing"}

TypeOK ==
    /\ registry \subseteq Groups
    /\ members \in [Groups -> [Clients -> Nat]]
    /\ groupsOf \in [Clients -> [Groups -> Nat]]
    /\ pipe \in [Servers -> Seq(Tasks)]
    /\ online \subseteq Clients
    /\ view \in [Clients -> [at : Places, m : Matches \cup {None}]]
    /\ minted \subseteq Matches
    /\ lobby \in [Matches -> Seq(Clients)]
    /\ run \in [RunIds -> {"idle", "matching", "pausing"}]
    /\ batch \in [RunIds -> Seq(minted)]
    /\ late \subseteq confirming /\ confirming \subseteq minted
    /\ timers \subseteq minted
    /\ verdicts \in [Matches -> Seq({"start", "disband"})]
    /\ mmc \in [Matches -> [Clients -> Nat]]
    /\ ttl \subseteq {m \in Matches : \E c \in Clients : mmc[m][c] > 0}

NoView(at) == [at |-> at, m |-> None]

Init ==
    /\ registry = {Queue}
    /\ members = EmptyMembers
    /\ groupsOf = EmptyGroupsOf
    /\ pipe = [s \in Servers |-> <<>>]
    /\ online = Clients
    /\ view = [c \in Clients |-> NoView("free")]
    /\ minted = {}
    /\ lobby = [m \in Matches |-> <<>>]
    /\ run = [r \in RunIds |-> "idle"]
    /\ batch = [r \in RunIds |-> <<>>]
    /\ confirming = {}
    /\ late = {}
    /\ timers = {}
    /\ verdicts = [m \in Matches |-> <<>>]
    /\ mmc = [m \in Matches |-> [c \in Clients |-> 0]]
    /\ ttl = {}

-------------------------------------------------------------------------------
(* Requests of clients (_attachInternalRoomListener).                       *)

(* EXIT is answered before its remove runs; everything else keeps the       *)
(* client waiting until its chain ends.                                     *)
Awaited(t) == /\ t.job \in AllOps \cup {"heal"}
              /\ ~(t.job = "exit" /\ t.step \notin {"get.hget", "member.lrange"})

Pending(c) == {i \in DOMAIN pipe[Server] :
                  Awaited(pipe[Server][i]) /\ pipe[Server][i].c = c}

MaySend(c, op) == /\ op \in Ops
                  /\ c \in online
                  /\ Cardinality(Pending(c)) < MaxPending

Send(op, c, step, g) == Issue(Server, <<RoomTask(step, op, c, g, None)>>)

(* __search.  Clients that wait for answers search when they are free; with *)
(* MaxPending > 1 they may repeat themselves.                               *)
Search(c) ==
    /\ MaySend(c, "search")
    /\ view[c].at \in {"free"} \cup (IF MaxPending > 1 THEN {"searching"} ELSE {})
    /\ Send("search", c, "search.lrange", Queue)
    /\ view' = [view EXCEPT ![c] = NoView("searching")]
    /\ UNCHANGED <<storeVars, online, runVars, roundVars, mmcVars>>

(* __leave: straight to Group.remove on the queue. *)
Leave(c) ==
    /\ MaySend(c, "leave")
    /\ view[c].at = "searching"
    /\ Send("leave", c, "remove.lremClient", Queue)
    /\ UNCHANGED <<storeVars, clientVars, runVars, roundVars, mmcVars>>

Confirm(c) ==
    /\ MaySend(c, "confirm")
    /\ view[c].at \in {"found"} \cup (IF MaxPending > 1 THEN {"confirmed"} ELSE {})
    /\ Send("confirm", c, "get.hget", view[c].m)
    /\ view' = [view EXCEPT ![c].at = "confirmed"]
    /\ UNCHANGED <<storeVars, online, runVars, roundVars, mmcVars>>

Exit(c) ==
    /\ MaySend(c, "exit")
    /\ view[c].at \in {"found", "confirmed", "playing"}
    /\ Send("exit", c, "get.hget", view[c].m)
    /\ UNCHANGED <<storeVars, clientVars, runVars, roundVars, mmcVars>>

(* __handleClose starts with _getMatchOfClient. *)
Close(c) ==
    /\ "close" \in Ops
    /\ c \in online
    /\ CloseMidway \/ Pending(c) = {}
    /\ online' = online \ {c}
    /\ view' = [view EXCEPT ![c] = NoView("free")]
    /\ Send("close", c, "match.lrange", None)
    /\ UNCHANGED <<storeVars, runVars, roundVars, mmcVars>>

-------------------------------------------------------------------------------
(* Chains of the clients' requests on server s. *)

Told(at, m, cs) == [c \in Clients |-> IF c \in cs THEN [at |-> at, m |-> m] ELSE view[c]]

(* Mutant: the groups of the client are not looked at. *)
SearchCheck_Always(s) ==
    /\ Running(s, "search.lrange")
    /\ Reply(s, <<At(Head(pipe[s]), "push.lrangeGroup")>>)
    /\ UNCHANGED <<storeVars, clientVars, runVars, roundVars, mmcVars>>

(* A client that already is in some group is refused, without an answer.    *)
SearchCheck(s) ==
    LET t == Head(pipe[s])
        free == GroupsOfClient(t.c) = {} IN
    /\ Running(s, "search.lrange")
    /\ Reply(s, IF free THEN <<At(t, "push.lrangeGroup")>> ELSE <<>>)
    /\ view' = IF ~free /\ view[t.c].at = "searching"
               THEN Told("ignored", None, {t.c}) ELSE view
    /\ UNCHANGED <<storeVars, online, runVars, roundVars, mmcVars>>

Found(t) == <<At(t, IF t.job = "close" THEN "remove.lremClient" ELSE "member.lrange")>>

Get(s) == /\ GetGroupInstance(s, Found(Head(pipe[s])))
          /\ UNCHANGED <<clientVars, runVars, roundVars, mmcVars>>

(* __handleConfirm and __handleExit: only a member may.  CONFIRM fires      *)
(* mmc.push, mmc.expire and the notification at once; EXIT fires the remove *)
(* and the notification, and answers.                                       *)
MemberCheck(s) ==
    LET t == Head(pipe[s])
        isMember == members[t.g][t.c] > 0 IN
    /\ Running(s, "member.lrange")
    /\ Reply(s, IF ~isMember THEN <<>>
                ELSE IF t.job = "confirm"
                THEN <<At(t, "mmc.lrange"), At(t, "mmc.expire"), At(t, "notify.lrange")>>
                ELSE <<At(t, "remove.lremClient"), At(t, "notify.lrange")>>)
    /\ view' = IF isMember /\ t.job = "exit" /\ t.c \in online /\ view[t.c].m = t.g
               THEN Told("free", None, {t.c}) ELSE view
    /\ UNCHANGED <<storeVars, online, runVars, roundVars, mmcVars>>

(* MatchMakingConfirmation.push: LRANGE, then LPUSH. *)
ReadConfirmations(s) ==
    LET t == Head(pipe[s]) IN
    /\ Running(s, "mmc.lrange")
    /\ Reply(s, IF mmc[t.g][t.c] > 0 THEN <<>> ELSE <<At(t, "mmc.lpush")>>)
    /\ UNCHANGED <<storeVars, clientVars, runVars, roundVars, mmcVars>>

AddConfirmation(s) ==
    LET t == Head(pipe[s]) IN
    /\ Running(s, "mmc.lpush")
    /\ mmc' = [mmc EXCEPT ![t.g][t.c] = @ + 1]
    /\ Reply(s, <<>>)
    /\ UNCHANGED <<storeVars, clientVars, runVars, roundVars, ttl>>

(* EXPIRE does nothing to a key that does not exist. *)
ExpireConfirmations(s) ==
    LET t == Head(pipe[s]) IN
    /\ Running(s, "mmc.expire")
    /\ ttl' = IF \E c \in Clients : mmc[t.g][c] > 0 THEN ttl \cup {t.g} ELSE ttl
    /\ Reply(s, <<>>)
    /\ UNCHANGED <<storeVars, clientVars, runVars, roundVars, mmc>>

(* _getMatchOfClient, then __leaveAllGroups whatever it says; the others in *)
(* the match are told if it was the client's only group.                    *)
CloseCheck(s) ==
    LET t == Head(pipe[s])
        playing == \E m \in Matches : groupsOf[t.c] = [EmptyGroupsOf[t.c] EXCEPT ![m] = 1]
        match == CHOOSE m \in Matches : groupsOf[t.c][m] = 1
        leave == <<At(t, "close.lrange")>> IN
    /\ Running(s, "match.lrange")
    /\ Reply(s, IF playing
                THEN leave \o <<RoomTask("notify.lrange", "exit", t.c, match, None)>>
                ELSE leave)
    /\ UNCHANGED <<storeVars, clientVars, runVars, roundVars, mmcVars>>

(* Mutant: a closed connection leaves the queue only. *)
LeaveAllGroups_QueueOnly(s) ==
    LET t == Head(pipe[s]) IN
    /\ Running(s, "close.lrange")
    /\ Reply(s, <<RoomTask("remove.lremClient", "close", t.c, Queue, None)>>)
    /\ UNCHANGED <<storeVars, clientVars, runVars, roundVars, mmcVars>>

LeaveAllGroups(s) ==
    LET t == Head(pipe[s]) IN
    /\ Running(s, "close.lrange")
    /\ \E order \in SetToSeqs(GroupsOfClient(t.c)) :
          Reply(s, [i \in DOMAIN order |-> RoomTask("get.hget", "close", t.c, order[i], None)])
    /\ UNCHANGED <<storeVars, clientVars, runVars, roundVars, mmcVars>>

-------------------------------------------------------------------------------
(* The matching run (_runInternalInterval, _executeMatchMakingLogic).       *)

Tick(r) ==
    /\ run[r] = "idle"
    /\ run' = [run EXCEPT ![r] = "matching"]
    /\ Issue(Server, <<RoomTask("mm.lrange", "match", None, Queue, r)>>)
    /\ UNCHANGED <<storeVars, clientVars, minted, lobby, batch, roundVars, mmcVars>>

(* LLEN: the copies in a list. *)
ListSize(list) == Cardinality(UNION {{c} \X (1..list[c]) : c \in Clients})

(* LRANGE: the ids in list order, any order of the bag. *)
Listings(g) == {q \in [1..ListSize(members[g]) -> Clients] :
                   \A c \in Clients :
                      Cardinality({i \in DOMAIN q : q[i] = c}) = members[g][c]}

(* The lobby that element k of the listing falls into. *)
LobbyAt(k) == ((k - 1) \div LobbySize) + 1

(* The queue is cut into full lobbies; a removeMulti starts for each one.   *)
(* (A match id is drawn here, not when its group is created: nobody sees it *)
(* before.  Bound: a run fills no more lobbies than there are ids left.)    *)
MatchQueue(s) ==
    LET t == Head(pipe[s])
        full == ListSize(members[Queue]) \div LobbySize IN
    /\ Running(s, "mm.lrange")
    /\ \E q \in Listings(Queue), new \in SUBSET (Matches \ minted) :
          /\ Cardinality(new) <= full
          /\ Cardinality(new) < full => new = Matches \ minted
          /\ \E ids \in SetToSeqs(new) :
                /\ Reply(s, [k \in 1..(Len(ids) * LobbySize) |->
                                RoomTask("remove.lremClient", "match", q[k], Queue,
                                         ids[LobbyAt(k)])])
                /\ lobby' = [m \in Matches |->
                                LET i == CHOOSE i \in DOMAIN ids : ids[i] = m IN
                                IF m \in new
                                THEN [j \in 1..LobbySize |-> q[((i - 1) * LobbySize) + j]]
                                ELSE lobby[m]]
                /\ batch' = [batch EXCEPT ![t.for] = ids]
          /\ minted' = minted \cup new
          /\ run' = IF new = {} THEN [run EXCEPT ![t.for] = "pausing"] ELSE run
    /\ UNCHANGED <<storeVars, clientVars, roundVars, mmcVars>>

Behind == {pipe[Server][i] : i \in 2..Len(pipe[Server])}

(* Promise.all of removeMulti: the last remove of a lobby creates its group.*)
Removed(t) ==
    CASE t.job = "match" -> IF \E u \in Behind : u.for = t.for THEN <<>>
                            ELSE <<RoomTask("create.hset", "match", None, t.for, t.for)>>
      [] t.job = "close" -> <<At(t, "notify.lrange")>>
      [] OTHER -> <<>>

RemoveBegin(s) == /\ RemoveWriteClient(s)
                  /\ UNCHANGED <<clientVars, runVars, roundVars, mmcVars>>

(* The end of a remove; LEAVE is answered here. *)
RemoveEnd(s) ==
    LET t == Head(pipe[s]) IN
    /\ RemoveWriteGroup(s, Removed(t))
    /\ view' = IF t.job = "leave" /\ t.c \in online /\ view[t.c].at = "searching"
               THEN Told("free", None, {t.c}) ELSE view
    /\ UNCHANGED <<online, runVars, roundVars, mmcVars>>

(* Mutant: push instead of pushMulti. *)
CreateEntry_PushFirst(s) ==
    LET t == Head(pipe[s]) IN
    /\ Running(s, "create.hset")
    /\ registry' = registry \cup {t.g}
    /\ Reply(s, <<RoomTask("push.lrangeGroup", "match", Head(lobby[t.g]), t.g, t.g)>>)
    /\ UNCHANGED <<members, groupsOf, clientVars, runVars, roundVars, mmcVars>>

(* createGroupInstance, then pushMulti of the lobby. *)
CreateEntry(s) ==
    LET t == Head(pipe[s]) IN
    /\ Running(s, "create.hset")
    /\ registry' = registry \cup {t.g}
    /\ Reply(s, [j \in DOMAIN lobby[t.g] |->
                    RoomTask("push.lrangeGroup", "match", lobby[t.g][j], t.g, t.g)])
    /\ UNCHANGED <<members, groupsOf, clientVars, runVars, roundVars, mmcVars>>

(* The chain of t ends with this reply: its write is done, or refused.      *)
Ends(t) == \/ t.step = "push.lpushGroup"
           \/ t.step = "push.lrangeGroup" /\ members[t.g][t.c] > 0
           \/ t.step = "push.lrangeClient" /\ groupsOf[t.c][t.g] > 0

RunOf(t) == CHOOSE r \in RunIds : t.for \in Range(batch[r])

(* Promise.all of all lobbies of the run. *)
AllPushed(t) == /\ t.job = "match"
                /\ \A u \in Behind : u.for \notin Range(batch[RunOf(t)])

(* _onFreshlyMatchedGroup: the members of each new group are invited. *)
Pushed(t) == IF AllPushed(t)
             THEN LET ids == batch[RunOf(t)] IN
                  [i \in DOMAIN ids |-> RoomTask("notify.lrange", "found", None, ids[i], None)]
             ELSE <<>>

(* Mutant: the callback is handed the queue (group) instead of the new group. *)
Push_QueueInvited(s) ==
    LET t == Head(pipe[s]) IN
    /\ \/ PushReadGroup(s, Pushed(t))
       \/ PushReadClient(s, Pushed(t))
       \/ PushWriteClient(s)
       \/ PushWriteGroup(s, Pushed(t))
    /\ IF Ends(t) /\ AllPushed(t)
       THEN /\ confirming' = confirming \cup {Queue}
            /\ batch' = [batch EXCEPT ![RunOf(t)] = <<>>]
            /\ run' = [run EXCEPT ![RunOf(t)] = "pausing"]
       ELSE UNCHANGED <<confirming, batch, run>>
    /\ UNCHANGED <<clientVars, minted, lobby, late, timers, verdicts, mmcVars>>

Push(s) ==
    LET t == Head(pipe[s]) IN
    /\ \/ PushReadGroup(s, Pushed(t))
       \/ PushReadClient(s, Pushed(t))
       \/ PushWriteClient(s)
       \/ PushWriteGroup(s, Pushed(t))
    /\ IF Ends(t) /\ AllPushed(t)
       THEN /\ confirming' = confirming \cup Range(batch[RunOf(t)])
            /\ batch' = [batch EXCEPT ![RunOf(t)] = <<>>]
            /\ run' = [run EXCEPT ![RunOf(t)] = "pausing"]
       ELSE UNCHANGED <<confirming, batch, run>>
    /\ UNCHANGED <<clientVars, minted, lobby, late, timers, verdicts, mmcVars>>

-------------------------------------------------------------------------------
(* The confirmation round (_executeMatchConfirmationLogic), 10 ms after the *)
(* matching run: matches that are too old are disbanded on the spot, the    *)
(* sizes of the other confirmation lists are asked for.                     *)

(* Mutant: matches do not time out. *)
Overdue_Never(m) == FALSE

Overdue(m) == m \in late

Round(m) == IF Overdue(m) THEN RoomTask("mmc.del", "disband", None, m, None)
                          ELSE RoomTask("mmc.llen", "start", None, m, None)

(* Mutant: nobody is told about a disbanded match. *)
ToTell_Nobody == {}

ToTell == {m \in confirming : Overdue(m)}

(* Mutant: the entry of a disbanded match is not deleted. *)
StillOpen_All == confirming

StillOpen == {m \in confirming : ~Overdue(m)}

(* Mutant: the group of a disbanded match is not erased. *)
ToErase_None == {}

ToErase == {m \in confirming : Overdue(m)}

(* The commands of the matches are issued on the spot, the LRANGEs of the   *)
(* DISBAND broadcasts behind them; in which order does not matter.          *)
ConfirmRound(r) ==
    /\ run[r] = "pausing"
    /\ run' = [run EXCEPT ![r] = "idle"]
    /\ \E order \in SetToSeqs(confirming), told \in SetToSeqs(ToTell) :
          Issue(Server, [i \in DOMAIN order |-> Round(order[i])]
                           \o [i \in DOMAIN told |->
                                  RoomTask("notify.lrange", "disband", None, told[i], None)])
    /\ confirming' = StillOpen
    /\ late' = late \cap StillOpen
    /\ timers' = timers \cup ToErase
    /\ verdicts' = [m \in Matches |-> IF m \in confirming /\ Overdue(m)
                                       THEN Append(verdicts[m], "disband")
                                       ELSE verdicts[m]]
    /\ UNCHANGED <<storeVars, clientVars, minted, lobby, batch, mmcVars>>

(* Mutant: one confirmation is enough. *)
CheckSize_One(s) ==
    LET t == Head(pipe[s])
        enough == ListSize(mmc[t.g]) >= 1 IN
    /\ Running(s, "mmc.llen")
    /\ Reply(s, IF enough THEN <<At(t, "mmc.del"), At(t, "notify.lrange")>> ELSE <<>>)
    /\ IF enough
       THEN /\ confirming' = confirming \ {t.g}
            /\ late' = late \ {t.g}
            /\ verdicts' = [verdicts EXCEPT ![t.g] = Append(@, "start")]
       ELSE UNCHANGED <<confirming, late, verdicts>>
    /\ UNCHANGED <<storeVars, clientVars, runVars, timers, mmcVars>>

(* The reply of LLEN: with lobbySize entries the match starts. *)
CheckSize(s) ==
    LET t == Head(pipe[s])
        enough == ListSize(mmc[t.g]) >= LobbySize IN
    /\ Running(s, "mmc.llen")
    /\ Reply(s, IF enough THEN <<At(t, "mmc.del"), At(t, "notify.lrange")>> ELSE <<>>)
    /\ IF enough
       THEN /\ confirming' = confirming \ {t.g}
            /\ late' = late \ {t.g}
            /\ verdicts' = [verdicts EXCEPT ![t.g] = Append(@, "start")]
       ELSE UNCHANGED <<confirming, late, verdicts>>
    /\ UNCHANGED <<storeVars, clientVars, runVars, timers, mmcVars>>

EraseConfirmations(s) ==
    LET t == Head(pipe[s]) IN
    /\ Running(s, "mmc.del")
    /\ mmc' = [mmc EXCEPT ![t.g] = [c \in Clients |-> 0]]
    /\ ttl' = ttl \ {t.g}
    /\ Reply(s, <<>>)
    /\ UNCHANGED <<storeVars, clientVars, runVars, roundVars>>

(* broadcastToGroup: the members the list names now, if they are connected. *)
NotifyGroup(s) ==
    LET t == Head(pipe[s])
        aud == MembersOf(t.g) \cap online IN
    /\ Running(s, "notify.lrange")
    /\ Reply(s, <<>>)
    /\ view' = CASE t.job = "found" -> Told("found", t.g, aud)
                 [] t.job = "start" -> Told("playing", t.g, aud)
                 [] t.job = "disband" -> Told("free", None, {c \in aud : view[c].m = t.g})
                 [] OTHER -> view
    /\ UNCHANGED <<storeVars, online, runVars, roundVars, mmcVars>>

(* 250 ms after the DISBAND broadcast the group is erased. *)
DisbandTimer(m) ==
    /\ m \in timers
    /\ timers' = timers \ {m}
    /\ Issue(Server, <<RoomTask("erase.lrangeGroup", "disband", None, m, None)>>)
    /\ UNCHANGED <<storeVars, clientVars, runVars, confirming, late, verdicts, mmcVars>>

Erased(t) == <<>>

Erase(s) == /\ \/ EraseReadGroup(s)
               \/ EraseWriteClient(s)
               \/ EraseEntry(s)
               \/ EraseGroup(s, Erased(Head(pipe[s])))
            /\ UNCHANGED <<clientVars, runVars, roundVars, mmcVars>>

(* MAX_MMC_LIFETIME_MS pass since m was matched. *)
TwoMinutes(m) ==
    /\ m \in confirming \ late
    /\ late' = late \cup {m}
    /\ UNCHANGED <<storeVars, pipe, clientVars, runVars, confirming, timers, verdicts, mmcVars>>

(* DEFAULT_EXPIRE_TIMEOUT is as long, and starts later: Redis drops a list  *)
(* that carries an expiry only when its match is that old or decided.       *)
ExpireKey(m) ==
    /\ m \in ttl
    /\ m \in confirming => m \in late
    /\ mmc' = [mmc EXCEPT ![m] = [c \in Clients |-> 0]]
    /\ ttl' = ttl \ {m}
    /\ UNCHANGED <<storeVars, pipe, clientVars, runVars, roundVars>>

-------------------------------------------------------------------------------
ClientStep(c) == \/ Search(c)
                 \/ Leave(c)
                 \/ Confirm(c)
                 \/ Exit(c)
                 \/ Close(c)

RequestStep(s) == \/ SearchCheck(s)
                  \/ Get(s)
                  \/ MemberCheck(s)
                  \/ ReadConfirmations(s)
                  \/ AddConfirmation(s)
                  \/ ExpireConfirmations(s)
                  \/ CloseCheck(s)
                  \/ LeaveAllGroups(s)

IntervalStep(s) == \/ MatchQueue(s)
                   \/ CreateEntry(s)
                   \/ CheckSize(s)
                   \/ EraseConfirmations(s)

ServerStep(s) == \/ RequestStep(s)
                 \/ IntervalStep(s)
                 \/ Push(s)
                 \/ RemoveBegin(s)
                 \/ RemoveEnd(s)
                 \/ Erase(s)
                 \/ NotifyGroup(s)

Next == \/ \E c \in Clients : ClientStep(c)
        \/ \E s \in Servers : ServerStep(s)
        \/ \E r \in RunIds : Tick(r) \/ ConfirmRound(r)
        \/ \E m \in Matches : DisbandTimer(m) \/ TwoMinutes(m) \/ ExpireKey(m)

Spec == Init /\ [][Next]_vars

(* Redis answers, the interval and the timers of the process fire, and time *)
(* passes.  Clients owe nothing.                                            *)
FairSpec ==
    /\ Spec
    /\ \A s \in Servers : WF_vars(ServerStep(s))
    /\ \A r \in RunIds : WF_vars(Tick(r)) /\ WF_vars(ConfirmRound(r))
    /\ \A m \in Matches : WF_vars(DisbandTimer(m)) /\ WF_vars(TwoMinutes(m))

-------------------------------------------------------------------------------
(* Properties. *)

(* A match is decided once: it is started or disbanded, never both and      *)
(* never twice, although LLENs of a round are answered while time passes    *)
(* (_executeMatchConfirmationLogic).                                        *)
OneVerdict == \A m \in Matches : Len(verdicts[m]) <= 1

(* RoomGroupServer.js:511: the size of the list says it all, a match starts *)
(* when each of its members has confirmed.                                  *)
AllConfirmed ==
    [][\A m \in Matches :
          (verdicts'[m] # verdicts[m] /\ Last(verdicts'[m]) = "start")
              => \A c \in MembersOf(m) : mmc[m][c] > 0]_vars

(* The lists of clients and groups agree once the pipeline is empty,        *)
(* although matching runs, erases and requests wrote them in between.       *)
QuietSymmetry == Quiet => \A c \in Clients, g \in Groups : Symmetric(c, g)

(* RoomGroupServer.js:699: a client that is in some group does not get into *)
(* the queue as well, nor into a second match.                              *)
OneRoom ==
    \A c \in Clients :
        /\ \A g \in Groups : groupsOf[c][g] <= 1
        /\ \A g, h \in GroupsOfClient(c) : g = h

(* A client that searches is not lost between the queue and a match: once   *)
(* its requests and the matching run are through and the invitations have   *)
(* been sent, it is in the queue: nothing but an invitation gets it out.    *)
NobodyLost ==
    \A c \in Clients :
        (/\ view[c].at = "searching"
         /\ Pending(c) = {}
         /\ \A r \in RunIds : run[r] # "matching"
         /\ \A i \in DOMAIN pipe[Server] : pipe[Server][i].job # "found")
            => c \in MembersOf(Queue)

(* Every invited match is decided. *)
Decided == \A m \in Matches : m \in confirming ~> m \notin confirming

(* Whoever is invited hears how it ends, unless he leaves before. *)
Answered == \A c \in Clients :
               view[c].at \in {"found", "confirmed"} ~> view[c].at \notin {"found", "confirmed"}

(* A disbanded match sets its members free, for good. *)
Gone(m) == m \notin registry /\ \A c \in Clients : groupsOf[c][m] = 0 /\ members[m][c] = 0

Dissolved == \A m \in Matches : (verdicts[m] = <<"disband">>) ~> []Gone(m)

(* A closed client does not stay in a match, even if the matching run adds  *)
(* him after he left.                                                       *)
LeavesMatches ==
    \A c \in Clients, m \in Matches :
        c \notin online ~> [](groupsOf[c][m] = 0 /\ members[m][c] = 0)
===============================================================================
