----------------------------- MODULE MCUserStore -----------------------------
(***************************************************************************)
(* An instance of UserStore: three commands out of one of each kind, two   *)
(* of `add` with different passwords and types, and one for the empty      *)
(* name.                                                                   *)
(***************************************************************************)
EXTENDS UserStore, TLC

CONSTANTS alice, x, y, argon2, bcrypt, p1, p2, p3

CommandLine(op, u, pw, h, b) ==
    [op |-> op, user |-> u, password |-> pw, hash_type |-> h, enabled |-> b]

MCInputs ==
    {CommandLine("init", alice, x, bcrypt, TRUE),
     CommandLine("add", alice, x, argon2, TRUE),
     CommandLine("add", alice, y, bcrypt, TRUE),
     CommandLine("add", NoName, y, argon2, TRUE),
     CommandLine("remove", alice, x, argon2, TRUE),
     CommandLine("list", alice, x, argon2, TRUE),
     CommandLine("update", alice, y, argon2, TRUE),
     CommandLine("enable", alice, x, argon2, FALSE)}

MCInitialFiles == {Missing, With(Blank(argon2), alice, NewUser(argon2, x))}

Symmetry == Permutations(Commands)
=============================================================================
