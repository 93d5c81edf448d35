------------------------------- MODULE Delivery -------------------------------
(***************************************************************************)
(* What the messaging of a cluster of servers promises to the layers above *)
(* (lib/Server.js, its doc comments and its callers): a message for one    *)
(* client travels as if each pair of a server and a client had a channel   *)
(* of its own - in order, at most once, and lost only when the client has  *)
(* gone or the server it was sent from has died or has been closed before  *)
(* it was out.  A message for many clients is handed out to some of them   *)
(* at a time, to nobody twice.                                             *)
(***************************************************************************)
EXTENDS Naturals, Sequences

CONSTANTS Servers, Clients

(* A socket is also handed things that are no messages. *)
NoMessage == 0

VARIABLES sent,     \* messages sent so far, numbered
          casts,    \* those that are for many clients
          up,       \* connected clients
          channel,  \* channel[s][c]: messages from s that have not reached c
          got       \* got[c]: messages that have, in order

vars == <<sent, casts, up, channel, got>>

Init == /\ sent = 0
        /\ casts = {}
        /\ up = {}
        /\ channel = [s \in Servers |-> [c \in Clients |-> {}]]
        /\ got = [c \in Clients |-> <<>>]

Enter(c) == /\ c \notin up
            /\ got[c] = <<>>
            /\ up' = up \cup {c}
            /\ got' \in {got, [got EXCEPT ![c] = <<NoMessage>>]}
            /\ UNCHANGED <<sent, casts, channel>>

Has(c, m) == \E i \in DOMAIN got[c] : got[c][i] = m

(* For one client: straight to it, into its channel, or nowhere. *)
Post(s, c) ==
    /\ sent' = sent + 1
    /\ \/ /\ c \in up
          /\ channel[s][c] = {}
          /\ got' = [got EXCEPT ![c] = Append(@, sent')]
          /\ UNCHANGED channel
       \/ /\ c \in up
          /\ channel' = [channel EXCEPT ![s][c] = @ \cup {sent'}]
          /\ UNCHANGED got
       \/ /\ c \notin up
          /\ UNCHANGED <<channel, got>>
    /\ UNCHANGED <<casts, up>>

(* What was sent first arrives first. *)
Arrive(s, c, m) ==
    /\ c \in up
    /\ m \in channel[s][c]
    /\ \A n \in channel[s][c] : m <= n
    /\ got' = [got EXCEPT ![c] = Append(@, m)]
    /\ channel' = [channel EXCEPT ![s][c] = @ \ {m}]
    /\ UNCHANGED <<sent, casts, up>>

HandOut(m, cs) ==
    /\ cs \subseteq up
    /\ m = NoMessage \/ \A c \in cs : ~Has(c, m)
    /\ got' = [c \in Clients |-> IF c \in cs THEN Append(got[c], m) ELSE got[c]]

(* For many clients. *)
Cast(cs) == /\ sent' = sent + 1
            /\ casts' = casts \cup {sent'}
            /\ HandOut(sent', cs) \/ HandOut(NoMessage, cs)
            /\ UNCHANGED <<up, channel>>

CastMore(m, cs) == /\ m \in casts
                   /\ HandOut(m, cs)
                   /\ UNCHANGED <<sent, casts, up, channel>>

(* Clients go, alone or with their server, and what was under way to them   *)
(* is lost.                                                                 *)
Leave(cs) ==
    /\ cs \subseteq up
    /\ up' = up \ cs
    /\ channel' = [s \in Servers |-> [c \in Clients |->
                      IF c \in cs THEN {} ELSE channel[s][c]]]
    /\ UNCHANGED <<sent, casts, got>>

(* A server dies, or is closed, with its clients, and of what it has sent   *)
(* only the oldest messages still arrive.                                   *)
Die(s, cs, kept) ==
    /\ cs \subseteq up
    /\ up' = up \ cs
    /\ \A c \in Clients \ cs :
          /\ kept[c] \subseteq channel[s][c]
          /\ \A m \in channel[s][c] \ kept[c], n \in kept[c] : n < m
    /\ channel' = [t \in Servers |-> [c \in Clients |->
                      IF c \in cs THEN {} ELSE IF t = s THEN kept[c] ELSE channel[t][c]]]
    /\ UNCHANGED <<sent, casts, got>>

Next == \/ \E c \in Clients : Enter(c)
        \/ \E s \in Servers, c \in Clients : \/ Post(s, c)
                                             \/ \E m \in 1..sent : Arrive(s, c, m)
        \/ \E cs \in SUBSET Clients :
              \/ Cast(cs)
              \/ \E m \in casts : CastMore(m, cs)
              \/ Leave(cs)
              \/ \E s \in Servers, kept \in [Clients -> SUBSET (1..sent)] : Die(s, cs, kept)

Spec == Init /\ [][Next]_vars
===============================================================================
