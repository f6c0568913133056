------------------------------ MODULE MCBackends ------------------------------
(***************************************************************************)
(* An instance of Backends: two accounts that may share a name and change  *)
(* twice during a call.                                                    *)
(***************************************************************************)
EXTENDS Backends, TLC

CONSTANTS dn1, dn2, alice, bob, x, y, argon2, bcrypt

Symmetry == Permutations(Accounts)
=============================================================================
