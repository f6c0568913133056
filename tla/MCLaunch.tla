------------------------------- MODULE MCLaunch -------------------------------
(***************************************************************************)
(* Instances of Launch: ports 0 to 3, files that are valid, that validate  *)
(* rejects, that validate accepts and the system does not, and overrides   *)
(* that collide with them.                                                 *)
(***************************************************************************)
EXTENDS Launch

Conf(bind, s, h, adminOn, admin, a) ==
    [bind_address |-> bind, socks5_port |-> s, http_port |-> h,
     admin_enabled |-> adminOn, admin_address |-> admin, admin_port |-> a,
     auth |-> FALSE, log_file |-> FALSE, others_valid |-> TRUE]

MCDefault == Conf("v4", 1, 2, FALSE, "v4", 3)

Guarded == [Conf("v4", 1, 2, TRUE, "v4", 3) EXCEPT !.auth = TRUE, !.log_file = TRUE]

MCFiles ==
    {Missing, Unreachable, Unparsable, Guarded,
     Conf("v4", 1, 2, TRUE, "v4", 3),
     Conf("any", 1, 2, FALSE, "v4", 3),
     Conf("v4", 1, 2, TRUE, "any", 3),
     Conf("v4", 2, 1, FALSE, "text", 0),
     Conf("v6", 1, 2, TRUE, "v4", 3),
     [Guarded EXCEPT !.others_valid = FALSE]}

Opt(c, e) == [cli |-> c, env |-> e]
None == Opt(Unset, Unset)

MCOverrides ==
    [bind_address  : {None, Opt(Unset, "any")},
     socks5_port   : {None, Opt(2, Unset), Opt(Unusable, 3)},
     http_port     : {None, Opt(3, 1)},
     admin_port    : {None, Opt(Unset, 0), Opt(Unset, 1)},
     admin_enabled : {None, Opt(TRUE, FALSE), Opt(Unset, FALSE)}]

MCOccupied == {{}, {[address |-> "any", port |-> 2]}}
=============================================================================
