---------------------------- MODULE MCAdminServer ----------------------------
(***************************************************************************)
(* Instances of AdminServer.  Under "day" alice is the admin and the       *)
(* backend knows bob too; "night" makes bob the admin and its backend      *)
(* knows only alice, so that nobody may log in, with another token_ttl;    *)
(* "moved" has other ports.                                                *)
(***************************************************************************)
EXTENDS AdminServer

CONSTANTS day, night, moved, b1, b2, alice, bob, t1, static, r1, r2

Bindings == [c \in Configs |-> IF c = moved THEN b2 ELSE b1]
Admins == [c \in Configs |-> IF c = night THEN {bob} ELSE {alice}]
Known == [c \in Configs |-> IF c = night THEN {alice} ELSE {alice, bob}]
StaticToken == [c \in Configs |-> IF c = day THEN static ELSE None]
Ttl == [c \in Configs |-> IF c = day THEN 1 ELSE 2]
=============================================================================
