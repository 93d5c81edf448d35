---------------------------- MODULE MCMatchMaking -----------------------------
(* MatchMaking for TLC: model values, request sets and symmetry. *)
EXTENDS MatchMaking

CONSTANTS c1, c2, q, m1, m2, s1

NoLeaveOps == AllOps \ {"leave"}
PlayOps == {"search", "confirm", "close"}
QueueOps == {"search", "leave", "close"}
ConfirmOps == {"search", "confirm"}

(* Clients are interchangeable, and so are the ids of matches. *)
Symmetry == Permutations(Clients) \cup Permutations(Matches)
===============================================================================
