----------------------------- MODULE VectorCells ------------------------------
(***************************************************************************)
(* lib/VectorGroupServer.js: a GroupServer whose groups are the cells of a *)
(* grid.  A position update moves the client into the group of its cell.   *)
(*                                                                         *)
(* Each server makes its own groups when it opens, and keeps the current   *)
(* cell of a client in Redis.  The commands for cells go over the same     *)
(* connection as those for the lists (GroupStore's pipe), so the steps of  *)
(* updates that overlap mix with each other and with the joins they start. *)
(***************************************************************************)
EXTENDS GroupServer, Grid, Functions

CONSTANTS GridSize,   \* edge of a cell, and cells on an axis less one
          IsUnity3D,
          Positions,  \* the positions clients send: inside the grid
          Route,      \* Route[c]: those c sends
          MaxQueue,   \* bound: commands queued when an update is taken up
          GroupOf     \* GroupOf[s][v]: the group server s made for cell v

VARIABLES cell,    \* cell[c]: the entry vgs:client:current:cell:c, or None
          pos,     \* pos[c]: the latest position c has sent, or None
          timers   \* <<c, g>>: a broadcast to g that waits for its 500 ms

cellVars == <<cell, pos, timers>>

CellAt(p) == WorldToGrid(p, GridSize, IsUnity3D)

(* _preheatGroups: the cells a server makes groups for.                     *)
Preheated ==
    {CellAt(IF IsUnity3D THEN Vector(x * GridSize, 0, y * GridSize)
                         ELSE Vector(x * GridSize, y * GridSize, 0)) :
        x \in 0..GridSize, y \in 0..GridSize}

ASSUME CellsAssumption ==
    /\ GridSize \in Nat \ {0} /\ GridSize % 2 = 0
    /\ IsUnity3D \in BOOLEAN
    /\ \A p \in Positions : CellAt(p) \in Preheated \ {None}
    /\ GroupOf \in [Servers -> [{CellAt(p) : p \in Positions} -> Groups]]
    /\ \A s \in Servers : IsInjective(GroupOf[s])
    /\ Positions \subseteq [x : Int, y : Int, z : Int]
    /\ Route \in [Clients -> SUBSET Positions]

Cells == {CellAt(p) : p \in Positions}

CellOf(s, g) == CHOOSE v \in Cells : GroupOf[s][v] = g

CellTypeOK ==
    /\ cell \in [Clients -> Cells \cup {None}]
    /\ pos \in [Clients -> Positions \cup {None}]
    /\ timers \subseteq Clients \X Groups

(* The servers have opened; clients learn the ids from the JOIN replies.    *)
CellInit ==
    /\ registry = Groups
    /\ members = EmptyMembers
    /\ groupsOf = EmptyGroupsOf
    /\ pipe = [s \in Servers |-> <<>>]
    /\ home \in [Clients -> Servers]
    /\ online = Clients
    /\ minted = Groups
    /\ known = Groups
    /\ knows = [g \in Groups |-> {}]
    /\ cell = [c \in Clients |-> None]
    /\ pos = [c \in Clients |-> None]
    /\ timers = {}

lists == <<registry, members, groupsOf>>
outside == <<home, online, minted, known, knows>>

-------------------------------------------------------------------------------
(* __positionUpdate: GET the cell ... *)
PositionUpdate(c, p) ==
    /\ c \in online
    /\ Len(pipe[home[c]]) < MaxQueue
    /\ pos' = [pos EXCEPT ![c] = p]
    /\ Issue(home[c], <<Task("cell.get", "position", c, GroupOf[home[c]][CellAt(p)])>>)
    /\ UNCHANGED <<lists, outside, cell, timers>>

(* __broadcastUpdate: GET the cell ... *)
CastUpdate(c) ==
    /\ c \in online
    /\ Len(pipe[home[c]]) < MaxQueue
    /\ Issue(home[c], <<Task("cell.get", "cast", c, None)>>)
    /\ UNCHANGED <<lists, outside, cellVars>>

(* What the server makes of the old cell: __leaveGroup is handed an object  *)
(* without a groupId and only answers "missing groupId".                    *)
(* Mutant: the client leaves the group of the old cell. *)
LeaveOld_Really(s, c, old) ==
    IF old = None THEN <<>> ELSE <<Task("get.hget", "leave", c, GroupOf[s][old])>>

LeaveOld(s, c, old) == <<>>

(* Mutant: the cell is stored when it changes only. *)
Moved_StoreOnce(s, t, old) ==
    IF old # CellOf(s, t.g)
    THEN <<At(t, "cell.set"), Task("get.hget", "join", t.c, t.g)>> \o LeaveOld(s, t.c, old)
    ELSE <<At(t, "notify.lrange")>>

(* ... then SET the new one in any case and, if the client has changed      *)
(* cells, join the new group.                                               *)
Moved(s, t, old) ==
    <<At(t, "cell.set")>> \o
    (IF old # CellOf(s, t.g)
     THEN <<Task("get.hget", "join", t.c, t.g)>> \o LeaveOld(s, t.c, old)
     ELSE <<At(t, "notify.lrange")>>)

GetForUpdate(s) ==
    LET t == Head(pipe[s]) IN
    /\ Running(s, "cell.get")
    /\ t.job = "position"
    /\ Reply(s, Moved(s, t, cell[t.c]))
    /\ timers' = IF cell[t.c] # CellOf(s, t.g) THEN timers \cup {<<t.c, t.g>>} ELSE timers
    /\ UNCHANGED <<lists, outside, cell, pos>>

SetCell(s) ==
    LET t == Head(pipe[s]) IN
    /\ Running(s, "cell.set")
    /\ cell' = [cell EXCEPT ![t.c] = CellOf(s, t.g)]
    /\ Reply(s, <<>>)
    /\ UNCHANGED <<lists, outside, pos, timers>>

(* The update of a client that changed cells is sent half a second later.   *)
Delayed(c, g) ==
    /\ <<c, g>> \in timers
    /\ Len(pipe[home[c]]) < MaxQueue
    /\ timers' = timers \ {<<c, g>>}
    /\ Issue(home[c], <<Task("notify.lrange", "position", c, g)>>)
    /\ UNCHANGED <<lists, outside, cell, pos>>

(* ... then broadcast to the group of the cell, or answer with an error.    *)
GetForCast(s) ==
    LET t == Head(pipe[s]) IN
    /\ Running(s, "cell.get")
    /\ t.job = "cast"
    /\ Reply(s, IF cell[t.c] = None THEN <<>>
                ELSE <<Task("notify.lrange", "cast", t.c, GroupOf[s][cell[t.c]])>>)
    /\ UNCHANGED <<lists, outside, cellVars>>

(* The entry expires: 15 minutes after it was set, so not while commands of *)
(* the client are queued.                                                   *)
Expire(c) ==
    /\ cell[c] # None
    /\ Pending(c) = {}
    /\ cell' = [cell EXCEPT ![c] = None]
    /\ UNCHANGED <<lists, pipe, outside, pos, timers>>

-------------------------------------------------------------------------------
CellClient(c) == \/ \E p \in Route[c] : PositionUpdate(c, p)
                 \/ CastUpdate(c)
                 \/ \E g \in Groups : Delayed(c, g)
                 \/ Expire(c)
                 \/ /\ Len(pipe[home[c]]) < MaxQueue
                    /\ ClientStep(c)
                    /\ UNCHANGED cellVars

CellServer(s) == \/ GetForUpdate(s)
                 \/ SetCell(s)
                 \/ GetForCast(s)
                 \/ ServerStep(s) /\ UNCHANGED cellVars

CellNext == \/ \E c \in Clients : CellClient(c)
            \/ \E s \in Servers : CellServer(s)

CellSpec == CellInit /\ [][CellNext]_<<vars, cellVars>>

-------------------------------------------------------------------------------
(* Properties. *)

Settled(c) == c \in online /\ Pending(c) = {}

(* However updates overlap, the stored cell is that of the latest position. *)
LatestCell ==
    \A c \in Clients :
        (Settled(c) /\ cell[c] # None) => cell[c] = CellAt(pos[c])

(* A client is in the group of its current cell, on both lists: whoever     *)
(* broadcasts there reaches it.                                             *)
InItsCell ==
    \A c \in Clients :
        (Settled(c) /\ cell[c] # None) =>
            LET g == GroupOf[home[c]][cell[c]] IN
            groupsOf[c][g] > 0 /\ members[g][c] > 0

(* Two clients of one server in one cell: at least one of them has been     *)
(* told about the other (the one that was there first).                     *)
NeighboursKnow ==
    \A x, y \in Clients :
        (/\ x # y /\ home[x] = home[y]
         /\ Settled(x) /\ Settled(y)
         /\ cell[x] # None /\ cell[x] = cell[y])
        => LET g == GroupOf[home[x]][cell[x]] IN
           <<x, y>> \in knows[g] \/ <<y, x>> \in knows[g]

(* A position lies in the cell it is mapped to: within half an edge of the  *)
(* point the cell is mapped back to, on both axes.                          *)
Within(a, b) == b - (GridSize \div 2) <= a /\ a < b + (GridSize \div 2)

CellHoldsPosition ==
    \A c \in Clients :
        pos[c] # None =>
            LET centre == GridToWorld(CellAt(pos[c]), GridSize, IsUnity3D) IN
            /\ Within(pos[c].x, centre.x)
            /\ Within(Second(pos[c], IsUnity3D), Second(centre, IsUnity3D))
===============================================================================
