---------------------------- MODULE MCStateUpdates ----------------------------
(* Two clients: one has both connections at home, the other only TCP.      *)
EXTENDS StateUpdates, TLC

CONSTANTS home, other, c1, c2

TwoServers == {home, other}
TwoClients == {c1, c2}

Mixed == {[tcp |-> [c \in TwoClients |-> home],
           udp |-> c1 :> home @@ c2 :> other]}
===============================================================================
