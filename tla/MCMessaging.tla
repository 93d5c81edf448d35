----------------------------- MODULE MCMessaging ------------------------------
(* Messaging for TLC: two servers and two connections. *)
EXTENDS Messaging

CONSTANTS s1, s2, c1, c2
===============================================================================
