--------------------------- MODULE GroupMembership ----------------------------
(* The group protocol as an implementation of Membership. *)
EXTENDS GroupServer

Belongs == {p \in Clients \X Groups : groupsOf[p[1]][p[2]] > 0}

Shown == {p \in Clients \X Groups : members[p[2]][p[1]] > 0}

InFlux(p) == \E i \in DOMAIN pipe[home[p[1]]] : Owes(pipe[home[p[1]]][i], p[1], p[2])

Abstract == INSTANCE Membership
                WITH belongs <- Belongs, shown <- Shown,
                     flux <- {p \in Clients \X Groups : InFlux(p)}

(* Without DELETE, every step of the protocol is a step of Membership or    *)
(* changes nothing it can see: requests that overlap, on whichever servers, *)
(* and clients that close halfway never leave two lists that differ.        *)
ImplementsMembership == Abstract!Spec
===============================================================================
