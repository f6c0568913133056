------------------------------ MODULE UserStore ------------------------------
(***************************************************************************)
(* The user file of the simple backend (config/user_config.rs), the `user` *)
(* subcommands that rewrite it (main.rs) and the server that loads it      *)
(* (auth/simple.rs).  A command is a process of its own: it looks whether  *)
(* the file exists, loads it, changes the table in memory and writes the   *)
(* whole file in place, without any lock.  std::fs::write empties the file *)
(* and then fills it, so that others find it empty or partly filled in     *)
(* between, and a process that is cut off in between leaves it so.         *)
(*                                                                         *)
(* A hash is the password it was made from and the algorithm.  Time stamps *)
(* and salts are left out.                                                 *)
(***************************************************************************)
EXTENDS UserTable, FiniteSets

CONSTANTS
    Commands,       \* the processes of a behaviour
    Inputs,         \* command lines
    InitialFiles,   \* what the file holds at first
    NoName,         \* the empty user name
    Empty,          \* a file of no bytes
    Garbled,        \* a file that is no user table
    MaxReloads      \* bound: times the server loads the file

CommandLines ==
    [op : {"init", "add", "remove", "list", "update", "enable"},
     user : Names, password : Passwords, hash_type : HashTypes, enabled : BOOLEAN]

ASSUME UserStoreAssumption ==
    /\ Inputs \subseteq CommandLines
    /\ InitialFiles \subseteq Tables \union {Missing}
    /\ \A f \in InitialFiles \ {Missing} : \A u \in DOMAIN f.users :
            f.users[u].hashed_by = f.hash_type
    /\ {Missing, Empty, Garbled} \intersect Tables = {}
    /\ Missing # Empty /\ Missing # Garbled /\ Empty # Garbled
    /\ MaxReloads \in Nat

VARIABLES
    file,        \* what the file holds
    pc,          \* progress of each process
    line,        \* its command line
    user_config, \* the table it holds in memory
    snapshot,    \* the table of the server's SimpleAuthenticator
    reloads,     \* loads of the server, failed ones included
    offered      \* history: <<user, password>> of every add and update

commandVars == <<pc, line, user_config, offered, overlapped>>
storeVars == <<file, saved, commandVars, snapshot, reloads>>

StoreInit ==
    /\ file \in InitialFiles
    /\ saved = file
    /\ overlapped = FALSE
    /\ pc = [p \in Commands |-> "idle"]
    /\ line \in [Commands -> Inputs]
    /\ user_config = [p \in Commands |-> Missing]
    /\ snapshot = Missing
    /\ reloads = 0
    /\ offered = IF file = Missing THEN {}
                 ELSE {<<u, file.users[u].password>> : u \in DOMAIN file.users}

-----------------------------------------------------------------------------
(* The file *)

\* UserConfig::validate.  A hash is never empty.
validate(t) == NoName \notin DOMAIN t.users

\* Mutant: what is read is not validated.
Loads_Unvalidated(f) == f \in Tables

\* load_from_file: the file exists, parses, and is validated.
Loads(f) == f \in Tables /\ validate(f)

\* What a write leaves of a file another process has filled since this one
\* emptied it: the new text, then what sticks out of the old.  That may be no
\* table, or one with users of both.
Overlaid(new, old) ==
    {Garbled} \union
    {t \in Tables :
        /\ t.hash_type = new.hash_type
        /\ DOMAIN new.users \subseteq DOMAIN t.users
        /\ DOMAIN t.users \subseteq DOMAIN new.users \union DOMAIN old.users
        /\ \A u \in DOMAIN t.users :
            \/ u \in DOMAIN new.users /\ t.users[u] = new.users[u]
            \/ u \in DOMAIN old.users /\ t.users[u] = old.users[u]}

Written(new, old) ==
    CASE old = Empty   -> {new}
      [] old = Garbled -> {new, Garbled}
      [] old \in Tables -> Overlaid(new, old)

\* What there is of a table when its text has been written in part: nothing, no
\* table, or the table without the users whose entries are still to come.
Partial(t) == {Empty, Garbled} \union {Part(t, S) : S \in SUBSET DOMAIN t.users}

\* What there may be when the new text is written in part over that of another
\* process: no table, or the first entries of one and the last of the other.
\* The entry at the seam may stand under any name and have its last field from
\* the old text.  A hash that is put together from two is as good as none.
Torn(new, old) ==
    {old, Garbled} \union
    {t \in Tables :
        /\ t.hash_type \in {new.hash_type, old.hash_type}
        /\ \E seam \in Names : \A u \in DOMAIN t.users :
            \/ u \in DOMAIN new.users /\ t.users[u] = new.users[u]
            \/ u \in DOMAIN old.users /\ t.users[u] = old.users[u]
            \/ /\ u = seam
               /\ \E from \in {new, old} : \E v \in DOMAIN from.users, b \in BOOLEAN :
                    t.users[u] = [from.users[v] EXCEPT !.enabled = b]}

Left(new, old) ==
    CASE old = Empty   -> Partial(new)
      [] old = Garbled -> Partial(new) \ {Empty}
      [] old \in Tables -> Torn(new, old)

-----------------------------------------------------------------------------
(* A command *)

Ended == {"idle", "done", "failed", "killed", "cut_off", "torn"}
Active(p) == pc[p] \notin Ended

Goto(p, from, to) == pc[p] = from /\ pc' = [pc EXCEPT ![p] = to]

Fail(p, from) ==
    /\ Goto(p, from, "failed")
    /\ UNCHANGED <<file, saved, line, user_config, offered, overlapped, snapshot, reloads>>

\* handle_user_command: init and add look for the file, the others load it.
Invoke(p) ==
    /\ Goto(p, "idle", IF line[p].op \in {"init", "add"} THEN "look" ELSE "load")
    /\ overlapped' = (overlapped \/ \E q \in Commands : Active(q))
    /\ offered' = IF line[p].op \in {"add", "update"}
                  THEN offered \union {<<line[p].user, line[p].password>>} ELSE offered
    /\ UNCHANGED <<file, saved, line, user_config, snapshot, reloads>>

\* A new table is of the type the command line names.
Look(p) ==
    /\ \/ /\ file = Missing
          /\ Goto(p, "look", IF line[p].op = "init" THEN "save" ELSE "change")
          /\ user_config' = [user_config EXCEPT ![p] = Blank(line[p].hash_type)]
       \/ /\ file # Missing /\ line[p].op = "add"
          /\ Goto(p, "look", "load")
          /\ UNCHANGED user_config
    /\ UNCHANGED <<file, saved, line, offered, overlapped, snapshot, reloads>>

\* "User config file already exists"
AlreadyThere(p) ==
    /\ file # Missing /\ line[p].op = "init"
    /\ Fail(p, "look")

\* What one who reads the file may find: what another has written so far, too.
Found ==
    {file} \union
    IF file = Empty THEN UNION {Partial(user_config[q]) : q \in {r \in Commands : pc[r] = "writing"}}
    ELSE {}

load_from_file(p) ==
    \E f \in Found :
        /\ Loads(f)
        /\ Goto(p, "load", IF line[p].op = "list" THEN "done" ELSE "change")
        /\ user_config' = [user_config EXCEPT ![p] = f]
        /\ UNCHANGED <<file, saved, line, offered, overlapped, snapshot, reloads>>

LoadFails(p) == (\E f \in Found : ~Loads(f)) /\ Fail(p, "load")

Asks(p, op) == pc[p] = "change" /\ line[p].op = op

Change(p, t) ==
    /\ Goto(p, "change", "save")
    /\ user_config' = [user_config EXCEPT ![p] = t]
    /\ UNCHANGED <<file, saved, line, offered, overlapped, snapshot, reloads>>

\* Mutant: a user that exists is replaced.
add_user_Replace(p) ==
    LET t == user_config[p]
        u == line[p].user
    IN  /\ Asks(p, "add")
        /\ Change(p, With(t, u, NewUser(t.hash_type, line[p].password)))

\* The hash is of the table's type, whatever the command line names.
add_user(p) ==
    LET t == user_config[p]
        u == line[p].user
    IN  /\ Asks(p, "add")
        /\ u \notin DOMAIN t.users
        /\ Change(p, With(t, u, NewUser(t.hash_type, line[p].password)))

remove_user(p) ==
    LET t == user_config[p]
        u == line[p].user
    IN  /\ Asks(p, "remove")
        /\ u \in DOMAIN t.users
        /\ Change(p, Without(t, u))

\* Mutant: the new hash is of the type that is the default of the command line.
update_password_Default(p) ==
    LET t == user_config[p]
        u == line[p].user
    IN  /\ Asks(p, "update")
        /\ u \in DOMAIN t.users
        /\ Change(p, With(t, u, [t.users[u] EXCEPT !.password = line[p].password,
                                                   !.hashed_by = line[p].hash_type]))

update_password(p) ==
    LET t == user_config[p]
        u == line[p].user
    IN  /\ Asks(p, "update")
        /\ u \in DOMAIN t.users
        /\ Change(p, With(t, u, [t.users[u] EXCEPT !.password = line[p].password,
                                                   !.hashed_by = t.hash_type]))

enable_user(p) ==
    LET t == user_config[p]
        u == line[p].user
    IN  /\ Asks(p, "enable")
        /\ u \in DOMAIN t.users
        /\ Change(p, With(t, u, [t.users[u] EXCEPT !.enabled = line[p].enabled]))

\* "User already exists", "User not found"
ChangeRefused(p) ==
    /\ pc[p] = "change"
    /\ line[p].op = "add" <=> line[p].user \in DOMAIN user_config[p].users
    /\ Fail(p, "change")

\* The file cannot be opened for writing.
OpenFails(p) == Fail(p, "save")

\* Mutant: the file is opened for writing and not emptied.
Truncate_Not(p) ==
    /\ Goto(p, "save", "writing")
    /\ file' = IF file = Missing THEN Empty ELSE file
    /\ UNCHANGED <<saved, line, user_config, offered, overlapped, snapshot, reloads>>

\* save_to_file opens the file, creating or emptying it ...
Truncate(p) ==
    /\ Goto(p, "save", "writing")
    /\ file' = Empty
    /\ UNCHANGED <<saved, line, user_config, offered, overlapped, snapshot, reloads>>

\* ... and writes the table, after which the command reports success.
Write(p) ==
    /\ Goto(p, "writing", "done")
    /\ file' \in Written(user_config[p], file)
    /\ saved' = IF file' \in Tables THEN file' ELSE saved
    /\ UNCHANGED <<line, user_config, offered, overlapped, snapshot, reloads>>

\* The process is killed while it writes, or the write fails part of the way.
CutOff(p) ==
    /\ Goto(p, "writing", IF file = Empty THEN "cut_off" ELSE "torn")
    /\ file' \in Left(user_config[p], file)
    /\ saved' = IF file' \in Tables THEN file' ELSE saved
    /\ UNCHANGED <<line, user_config, offered, overlapped, snapshot, reloads>>

\* The process is killed at another point.
Kill(p) ==
    /\ Active(p) /\ pc[p] # "writing"
    /\ pc' = [pc EXCEPT ![p] = "killed"]
    /\ UNCHANGED <<file, saved, line, user_config, offered, overlapped, snapshot, reloads>>

-----------------------------------------------------------------------------
(* The server *)

\* SimpleAuthenticator::load_from_file, at the start and at every reload.  A
\* failure leaves the authenticator that is in use.
ServerLoad ==
    /\ reloads < MaxReloads
    /\ reloads' = reloads + 1
    /\ \E f \in Found : snapshot' = IF Loads(f) THEN f ELSE snapshot
    /\ UNCHANGED <<file, saved, commandVars>>

\* A hash of another algorithm does not parse and verifies nothing.
verify_password(t, u, pw) ==
    /\ u \in DOMAIN t.users
    /\ t.users[u].enabled
    /\ t.users[u].hashed_by = t.hash_type
    /\ t.users[u].password = pw

\* SimpleAuthenticator::authenticate
authenticate(u, pw) == snapshot # Missing /\ verify_password(snapshot, u, pw)

-----------------------------------------------------------------------------
Step(p) ==
    \/ Invoke(p)
    \/ Look(p)
    \/ AlreadyThere(p)
    \/ load_from_file(p)
    \/ LoadFails(p)
    \/ add_user(p)
    \/ remove_user(p)
    \/ update_password(p)
    \/ enable_user(p)
    \/ ChangeRefused(p)
    \/ OpenFails(p)
    \/ Truncate(p)
    \/ Write(p)
    \/ CutOff(p)
    \/ Kill(p)

StoreNext == ServerLoad \/ \E p \in Commands : Step(p)

StoreSpec == StoreInit /\ [][StoreNext]_storeVars

-----------------------------------------------------------------------------
(* Properties *)

Contents == Tables \union {Missing, Empty, Garbled}

StoreTypeOK ==
    /\ file \in Contents
    /\ saved \in Tables \union {Missing}
    /\ overlapped \in BOOLEAN
    /\ pc \in [Commands -> Ended \union {"look", "load", "change", "save", "writing"}]
    /\ line \in [Commands -> Inputs]
    /\ user_config \in [Commands -> Tables \union {Missing}]
    /\ snapshot \in Tables \union {Missing}
    /\ reloads \in 0 .. MaxReloads
    /\ offered \subseteq Names \X Passwords

\* As long as commands have not overlapped, the file holds the last table that a
\* command left, but for two cases: it is empty while one command is writing it,
\* and empty or no table after one was cut off at that point.  A command that
\* fails or is killed at another point changes nothing.
FileFaithful ==
    ~overlapped =>
        \/ file = saved
        \/ file = Empty /\ \E p \in Commands : pc[p] = "writing"
        \/ file \in {Empty, Garbled} /\ \E p \in Commands : pc[p] = "cut_off"

\* Whatever overlaps, is cut off or is loaded half-way, the server lets nobody in
\* without a name or with a password that no command gave to anybody, and unless
\* a write was cut off over the text of another process, nobody with a password
\* that no command gave to that very user.
LoginEarned ==
    \A u \in Names, pw \in Passwords :
        authenticate(u, pw) =>
            /\ u # NoName
            /\ \E v \in Names : <<v, pw>> \in offered
            /\ (\A p \in Commands : pc[p] # "torn") => <<u, pw>> \in offered

\* Whatever commands have written the file one after the other, with whatever
\* types on their command lines, a server that can load it lets every enabled
\* user in with the password that is stored for it.  Commands that overlap can
\* break it.
Verifiable ==
    (~overlapped /\ Loads(file)) =>
        \A u \in DOMAIN file.users :
            file.users[u].enabled => verify_password(file, u, file.users[u].password)

\* Commands that do not overlap act on the table one after the other, each in
\* one step, wherever others were killed: no change is lost and none is made
\* that was not asked for, except that one cut off while it writes may take
\* users with it.
TableImplemented == TableSpec
=============================================================================
