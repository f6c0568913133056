---------------------------- MODULE MCProxyServer ----------------------------
(***************************************************************************)
(* An instance of ProxyServer.  "open" lists the networks of all clients   *)
(* and asks for authentication; "narrow" lists one of them, asks for none  *)
(* and has another limit, which a reload does not bring into force.        *)
(***************************************************************************)
EXTENDS ProxyServer, TLC

CONSTANTS c1, c2, c3, open, narrow, ipA, ipB

IpOf3 == c1 :> ipA @@ c2 :> ipB @@ c3 :> ipB

Networks == open :> {{ipA}, {ipB}} @@ narrow :> {{ipA}}

Limits == open :> 1 @@ narrow :> 2
=============================================================================
