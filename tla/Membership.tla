------------------------------ MODULE Membership ------------------------------
(***************************************************************************)
(* What the group layer promises as long as no group is deleted: a client  *)
(* belongs to a group or not, on one word of its own list, and the list of *)
(* the group follows.  Between the two a pair of client and group is in    *)
(* flux, and it leaves the flux only when both lists say the same.         *)
(***************************************************************************)
CONSTANTS Clients, Groups

VARIABLES belongs,  \* pairs <<c, g>> by the lists of the clients
          shown,    \* pairs <<c, g>> by the lists of the groups
          flux      \* pairs a change of which is under way

Pairs == Clients \X Groups

Init == belongs = {} /\ shown = {} /\ flux = {}

Change(p) ==
    /\ belongs' \in {belongs \cup {p}, belongs \ {p}}
    /\ flux' = flux \cup {p}
    /\ UNCHANGED shown

(* Where changes overlap, the list of the group may first show an older one.*)
Follow(p) ==
    /\ p \in flux
    /\ shown' \in {shown \cup {p}, shown \ {p}}
    /\ flux' \in {flux, flux \ {p}}
    /\ p \notin flux' => (p \in shown' <=> p \in belongs)
    /\ UNCHANGED belongs

Next == \E p \in Pairs : Change(p) \/ Follow(p)

Spec == Init /\ [][Next]_<<belongs, shown, flux>>
===============================================================================
