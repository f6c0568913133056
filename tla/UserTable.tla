------------------------------ MODULE UserTable ------------------------------
(***************************************************************************)
(* What the `user` subcommands promise: a table of users that each command *)
(* changes in one step, for one user.  A command that is cut off while it  *)
(* writes may take users with it.  Nothing is promised once commands have  *)
(* overlapped.                                                             *)
(***************************************************************************)
EXTENDS Naturals

CONSTANTS Names, Passwords, HashTypes, Missing

VARIABLES
    saved,        \* the table, or Missing before it is created
    overlapped    \* commands have run at the same time

Entry == [password : Passwords, hashed_by : HashTypes, enabled : BOOLEAN]
UserMaps == UNION {[known -> Entry] : known \in SUBSET Names}
Tables == [hash_type : HashTypes, users : UserMaps]

tableVars == <<saved, overlapped>>

Blank(h) == [hash_type |-> h, users |-> [u \in {} |-> u]]

With(t, u, e) ==
    [t EXCEPT !.users = [v \in DOMAIN t.users \union {u} |-> IF v = u THEN e ELSE t.users[v]]]

Without(t, u) ==
    [t EXCEPT !.users = [v \in DOMAIN t.users \ {u} |-> t.users[v]]]

NewUser(h, pw) == [password |-> pw, hashed_by |-> h, enabled |-> TRUE]

\* The table less all users but those of S.
Part(t, S) == [t EXCEPT !.users = [u \in S |-> t.users[u]]]

TableInit == saved \in Tables \union {Missing} /\ overlapped = FALSE

Create(old, new) == old = Missing /\ \E h \in HashTypes : new = Blank(h)

\* A first user may create the table.  The type of a new hash is left open.
Add(old, new) ==
    \E h, k \in HashTypes, u \in Names, pw \in Passwords :
        LET t == IF old = Missing THEN Blank(h) ELSE old
        IN  u \notin DOMAIN t.users /\ new = With(t, u, NewUser(k, pw))

Remove(old, new) ==
    old # Missing /\ \E u \in DOMAIN old.users : new = Without(old, u)

Update(old, new) ==
    /\ old # Missing
    /\ \E u \in DOMAIN old.users, pw \in Passwords, k \in HashTypes :
        new = With(old, u, [old.users[u] EXCEPT !.password = pw, !.hashed_by = k])

Enable(old, new) ==
    /\ old # Missing
    /\ \E u \in DOMAIN old.users, b \in BOOLEAN :
        new = With(old, u, [old.users[u] EXCEPT !.enabled = b])

\* A command turns the table old into new.
Commanded(old, new) ==
    \/ Create(old, new)
    \/ Add(old, new)
    \/ Remove(old, new)
    \/ Update(old, new)
    \/ Enable(old, new)

\* One that is cut off may lose users of its result, and adds nothing to it.
Interrupted ==
    /\ saved' # saved
    /\ \E t \in Tables :
        Commanded(saved, t) /\ \E S \in SUBSET DOMAIN t.users : saved' = Part(t, S)

TableNext ==
    \/ overlapped' = TRUE /\ UNCHANGED saved
    \/ overlapped /\ overlapped' /\ saved' \in Tables
    \/ Commanded(saved, saved') /\ UNCHANGED overlapped
    \/ Interrupted /\ UNCHANGED overlapped

TableSpec == TableInit /\ [][TableNext]_tableVars
=============================================================================
