---------------------------- MODULE BoundedService ----------------------------
(***************************************************************************)
(* What the proxy promises its clients, without saying how: a client that  *)
(* arrives is turned away or, when fewer than Limit clients are in         *)
(* service, served; it leaves service by itself.                           *)
(***************************************************************************)
EXTENDS Naturals, FiniteSets

CONSTANTS Clients, Limit

VARIABLE client    \* where each client is

Served == {c \in Clients : client[c] = "served"}

BInit == client = [c \in Clients |-> "away"]

Arrive(c) ==
    /\ client[c] = "away"
    /\ client' = [client EXCEPT ![c] = "waiting"]

TurnAway(c) ==
    /\ client[c] = "waiting"
    /\ client' = [client EXCEPT ![c] = "gone"]

Serve(c) ==
    /\ client[c] = "waiting"
    /\ Cardinality(Served) < Limit
    /\ client' = [client EXCEPT ![c] = "served"]

Leave(c) ==
    /\ client[c] = "served"
    /\ client' = [client EXCEPT ![c] = "gone"]

BNext == \E c \in Clients : Arrive(c) \/ TurnAway(c) \/ Serve(c) \/ Leave(c)

BSafeSpec == BInit /\ [][BNext]_client
=============================================================================
