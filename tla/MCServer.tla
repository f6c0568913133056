------------------------------- MODULE MCServer -------------------------------
(***************************************************************************)
(* An instance of Server.  Under "day" alice is the admin and the backend  *)
(* knows bob too; "night" makes both admins and its backend knows only     *)
(* alice, who may log in under either, with another token_ttl; "moved" has *)
(* other ports.  The client's address is refused under "day" and allowed   *)
(* under "night", which lists no network: it is served only once a reload  *)
(* has taken effect.                                                       *)
(***************************************************************************)
EXTENDS Server

CONSTANTS day, night, moved, b1, b2, alice, bob, t1, static, r1, r2, c1, ipA, ipB

Bindings == [c \in Configs |-> IF c = moved THEN b2 ELSE b1]
Admins == [c \in Configs |-> IF c = night THEN {alice, bob} ELSE {alice}]
Known == [c \in Configs |-> IF c = night THEN {alice} ELSE {alice, bob}]
StaticToken == [c \in Configs |-> IF c = day THEN static ELSE None]
Ttl == [c \in Configs |-> IF c = day THEN 1 ELSE 2]
ClientIp == [c \in Conns |-> ipA]
Networks == [c \in Configs |-> IF c = night THEN {} ELSE {{ipB}}]
LimitOne == [c \in Configs |-> 1]
=============================================================================
