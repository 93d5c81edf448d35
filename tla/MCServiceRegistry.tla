-------------------------- MODULE MCServiceRegistry ---------------------------
(* ServiceRegistry for TLC: two servers in two zones. *)
EXTENDS ServiceRegistry, TLC

CONSTANTS s1, s2, east, west, l1

TwoZones == s1 :> east @@ s2 :> west
===============================================================================
