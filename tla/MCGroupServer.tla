---------------------------- MODULE MCGroupServer -----------------------------
(* GroupServer for TLC: model values, request sets and symmetry. *)
EXTENDS GroupMembership, TLC

CONSTANTS c1, c2, g1, s1, s2

MembershipOps == {"create", "join", "leave", "close"}
DeleteOps == {"create", "join", "leave", "delete", "broadcast", "close"}

(* Clients are interchangeable, and so are servers and groupIds. *)
Symmetry == Permutations(Clients) \cup Permutations(Groups) \cup Permutations(Servers)
===============================================================================
