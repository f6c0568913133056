---------------------------- MODULE UserStoreProofs ----------------------------
(***************************************************************************)
(* The user file, for any number of commands, users and passwords.         *)
(*                                                                         *)
(* As long as commands have not overlapped, at most one is under way, and  *)
(* what it holds in memory is the table of the file before its change, the *)
(* table after it afterwards: that is the invariant, and with it a command *)
(* is one step of UserTable, taken when its write ends or is cut off.      *)
(***************************************************************************)
EXTENDS UserStore, TLAPS

-----------------------------------------------------------------------------
(* Tables *)

LEMMA MapType ==
    ASSUME NEW f
    PROVE  f \in UserMaps <=> f \in [DOMAIN f -> Entry] /\ DOMAIN f \subseteq Names
  BY DEF UserMaps

LEMMA TableParts ==
    ASSUME NEW t \in Tables
    PROVE  /\ t.hash_type \in HashTypes
           /\ t.users \in [DOMAIN t.users -> Entry]
           /\ DOMAIN t.users \subseteq Names
  <1>1. t.hash_type \in HashTypes /\ t.users \in UserMaps
    BY DEF Tables
  <1> QED
    BY <1>1, MapType

LEMMA BlankType ==
    ASSUME NEW h \in HashTypes
    PROVE  Blank(h) \in Tables /\ DOMAIN Blank(h).users = {} /\ Blank(h).hash_type = h
  <1> DEFINE none == [u \in {} |-> u]
  <1>1. none \in [DOMAIN none -> Entry] /\ DOMAIN none \subseteq Names
    OBVIOUS
  <1>2. none \in UserMaps
    BY <1>1, MapType
  <1> QED
    BY <1>2 DEF Blank, Tables

LEMMA WithType ==
    ASSUME NEW t \in Tables, NEW u \in Names, NEW e \in Entry
    PROVE  /\ With(t, u, e) \in Tables
           /\ With(t, u, e).hash_type = t.hash_type
           /\ DOMAIN With(t, u, e).users = DOMAIN t.users \union {u}
           /\ \A v \in DOMAIN t.users \union {u} :
                With(t, u, e).users[v] = IF v = u THEN e ELSE t.users[v]
  <1> DEFINE m == [v \in DOMAIN t.users \union {u} |-> IF v = u THEN e ELSE t.users[v]]
  <1>1. m \in [DOMAIN m -> Entry] /\ DOMAIN m \subseteq Names
    BY TableParts
  <1>2. m \in UserMaps
    BY <1>1, MapType
  <1>3. With(t, u, e) = [t EXCEPT !.users = m]
    BY DEF With
  <1>4. With(t, u, e) = [hash_type |-> t.hash_type, users |-> m]
    BY <1>3 DEF Tables
  <1> HIDE DEF m
  <1>5. With(t, u, e) \in Tables /\ With(t, u, e).hash_type = t.hash_type
        /\ With(t, u, e).users = m
    BY <1>2, <1>4 DEF Tables
  <1> QED
    BY <1>5 DEF m

LEMMA WithoutType ==
    ASSUME NEW t \in Tables, NEW u \in Names
    PROVE  /\ Without(t, u) \in Tables
           /\ Without(t, u).hash_type = t.hash_type
           /\ DOMAIN Without(t, u).users = DOMAIN t.users \ {u}
           /\ \A v \in DOMAIN t.users \ {u} : Without(t, u).users[v] = t.users[v]
  <1> DEFINE m == [v \in DOMAIN t.users \ {u} |-> t.users[v]]
  <1>1. m \in [DOMAIN m -> Entry] /\ DOMAIN m \subseteq Names
    BY TableParts
  <1>2. m \in UserMaps
    BY <1>1, MapType
  <1>3. Without(t, u) = [t EXCEPT !.users = m]
    BY DEF Without
  <1>4. Without(t, u) = [hash_type |-> t.hash_type, users |-> m]
    BY <1>3 DEF Tables
  <1> HIDE DEF m
  <1>5. Without(t, u) \in Tables /\ Without(t, u).hash_type = t.hash_type
        /\ Without(t, u).users = m
    BY <1>2, <1>4 DEF Tables
  <1> QED
    BY <1>5 DEF m

LEMMA PartType ==
    ASSUME NEW t \in Tables, NEW S \in SUBSET DOMAIN t.users
    PROVE  /\ Part(t, S) \in Tables
           /\ Part(t, S).hash_type = t.hash_type
           /\ DOMAIN Part(t, S).users = S
           /\ \A v \in S : Part(t, S).users[v] = t.users[v]
  <1> DEFINE m == [v \in S |-> t.users[v]]
  <1>1. m \in [DOMAIN m -> Entry] /\ DOMAIN m \subseteq Names
    BY TableParts
  <1>2. m \in UserMaps
    BY <1>1, MapType
  <1>3. Part(t, S) = [t EXCEPT !.users = m]
    BY DEF Part
  <1>4. Part(t, S) = [hash_type |-> t.hash_type, users |-> m]
    BY <1>3 DEF Tables
  <1> HIDE DEF m
  <1>5. Part(t, S) \in Tables /\ Part(t, S).hash_type = t.hash_type /\ Part(t, S).users = m
    BY <1>2, <1>4 DEF Tables
  <1> QED
    BY <1>5 DEF m

-----------------------------------------------------------------------------
(* Types *)

\* A command has a table in memory from its load or its first look on.
Holding == {"change", "save", "writing"}

TypeInv ==
    /\ StoreTypeOK
    /\ \A p \in Commands : pc[p] \in Holding => user_config[p] \in Tables
    /\ \A p \in Commands : pc[p] = "writing" => file # Missing

Busy == {"look", "load", "change", "save", "writing"}
Places == Ended \union Busy

\* How one of the four changes turns the table old into new.
Altered(p, old, new) ==
    /\ new \in Tables
    /\ new.hash_type = old.hash_type
    /\ \A v \in DOMAIN new.users :
        /\ \/ v \in DOMAIN old.users /\ new.users[v].password = old.users[v].password
           \/ /\ line[p].op \in {"add", "update"}
              /\ v = line[p].user /\ new.users[v].password = line[p].password
        /\ \/ v \in DOMAIN old.users /\ new.users[v].hashed_by = old.users[v].hashed_by
           \/ new.users[v].hashed_by = new.hash_type

\* A command about to change its table holds the one of the file, or a new one
\* if there is no file and it adds a user.
Before(p) ==
    \/ saved # Missing /\ user_config[p] = saved
    \/ saved = Missing /\ line[p].op = "add" /\ user_config[p] = Blank(line[p].hash_type)

Changes(p) == add_user(p) \/ remove_user(p) \/ update_password(p) \/ enable_user(p)

LEMMA LineType ==
    ASSUME StoreTypeOK, NEW p \in Commands
    PROVE  /\ line[p] \in CommandLines
           /\ line[p].user \in Names /\ line[p].password \in Passwords
           /\ line[p].hash_type \in HashTypes /\ line[p].enabled \in BOOLEAN
  <1>1. line[p] \in CommandLines
    BY UserStoreAssumption DEF StoreTypeOK
  <1> QED
    BY <1>1 DEF CommandLines

\* Each of the four changes is one Change, to a table it may reach.
LEMMA ChangeEffect ==
    ASSUME TypeInv, NEW p \in Commands, Changes(p)
    PROVE  /\ pc[p] = "change"
           /\ \E t \in Tables :
                /\ Change(p, t)
                /\ Altered(p, user_config[p], t)
                /\ Before(p) /\ Missing \notin Tables => Commanded(saved, t)
  <1> DEFINE old == user_config[p]
             u == line[p].user
  <1>0. pc[p] = "change"
    BY DEF Changes, add_user, remove_user, update_password, enable_user, Asks
  <1>a. /\ line[p].user \in Names /\ line[p].password \in Passwords
        /\ line[p].hash_type \in HashTypes /\ line[p].enabled \in BOOLEAN
    BY LineType DEF TypeInv
  <1>b. /\ old \in Tables /\ old.hash_type \in HashTypes
        /\ old.users \in [DOMAIN old.users -> Entry] /\ DOMAIN old.users \subseteq Names
    <2>1. old \in Tables
      BY <1>0 DEF TypeInv, Holding
    <2> QED
      BY <2>1, TableParts
  <1>1. CASE add_user(p)
    <2> DEFINE e == NewUser(old.hash_type, line[p].password)
               new == With(old, u, e)
    <2>1. u \notin DOMAIN old.users /\ Change(p, new) /\ line[p].op = "add"
      BY <1>1 DEF add_user, Asks
    <2>2. e \in Entry /\ e.password = line[p].password /\ e.hashed_by = old.hash_type
      BY <1>a, <1>b DEF NewUser, Entry
    <2>3. /\ new \in Tables /\ new.hash_type = old.hash_type
          /\ DOMAIN new.users = DOMAIN old.users \union {u}
          /\ \A v \in DOMAIN old.users \union {u} :
                new.users[v] = IF v = u THEN e ELSE old.users[v]
      <3> HIDE DEF e, old, u
      <3> QED
        BY <1>a, <1>b, <2>2, WithType DEF u
    <2>4. Altered(p, old, new)
      <3> HIDE DEF e, new, old
      <3> QED
        BY <2>1, <2>2, <2>3 DEF Altered
    <2>5. Before(p) /\ Missing \notin Tables => Commanded(saved, new)
      BY <1>a, <1>b, <2>1 DEF Before, Commanded, Add, Remove, Update, Enable
    <2> QED
      BY <1>0, <2>1, <2>3, <2>4, <2>5
  <1>2. CASE remove_user(p)
    <2> DEFINE new == Without(old, u)
    <2>1. u \in DOMAIN old.users /\ Change(p, new) /\ line[p].op = "remove"
      BY <1>2 DEF remove_user, Asks
    <2>2. /\ new \in Tables /\ new.hash_type = old.hash_type
          /\ DOMAIN new.users = DOMAIN old.users \ {u}
          /\ \A v \in DOMAIN old.users \ {u} : new.users[v] = old.users[v]
      <3> HIDE DEF old, u
      <3> QED
        BY <1>a, <1>b, WithoutType DEF u
    <2>3. Altered(p, old, new)
      <3> HIDE DEF new, old
      <3> QED
        BY <2>1, <2>2 DEF Altered
    <2>4. Before(p) /\ Missing \notin Tables => Commanded(saved, new)
      BY <1>a, <1>b, <2>1 DEF Before, Commanded, Add, Remove, Update, Enable
    <2> QED
      BY <1>0, <2>1, <2>2, <2>3, <2>4
  <1>3. CASE update_password(p)
    <2> DEFINE e == [old.users[u] EXCEPT !.password = line[p].password,
                                         !.hashed_by = old.hash_type]
               new == With(old, u, e)
    <2>1. u \in DOMAIN old.users /\ Change(p, new) /\ line[p].op = "update"
      BY <1>3 DEF update_password, Asks
    <2>2. e \in Entry /\ e.password = line[p].password /\ e.hashed_by = old.hash_type
      BY <1>a, <1>b, <2>1 DEF Entry
    <2>3. /\ new \in Tables /\ new.hash_type = old.hash_type
          /\ DOMAIN new.users = DOMAIN old.users \union {u}
          /\ \A v \in DOMAIN old.users \union {u} :
                new.users[v] = IF v = u THEN e ELSE old.users[v]
      <3> HIDE DEF e, old, u
      <3> QED
        BY <1>a, <1>b, <2>2, WithType DEF u
    <2>4. Altered(p, old, new)
      <3> HIDE DEF e, new, old
      <3> QED
        BY <2>1, <2>2, <2>3 DEF Altered
    <2>5. Before(p) /\ Missing \notin Tables => Commanded(saved, new)
      BY <1>a, <1>b, <2>1 DEF Before, Commanded, Add, Remove, Update, Enable
    <2> QED
      BY <1>0, <2>1, <2>3, <2>4, <2>5
  <1>4. CASE enable_user(p)
    <2> DEFINE e == [old.users[u] EXCEPT !.enabled = line[p].enabled]
               new == With(old, u, e)
    <2>1. u \in DOMAIN old.users /\ Change(p, new) /\ line[p].op = "enable"
      BY <1>4 DEF enable_user, Asks
    <2>2. /\ e \in Entry /\ e.password = old.users[u].password
          /\ e.hashed_by = old.users[u].hashed_by
      BY <1>a, <1>b, <2>1 DEF Entry
    <2>3. /\ new \in Tables /\ new.hash_type = old.hash_type
          /\ DOMAIN new.users = DOMAIN old.users \union {u}
          /\ \A v \in DOMAIN old.users \union {u} :
                new.users[v] = IF v = u THEN e ELSE old.users[v]
      <3> HIDE DEF e, old, u
      <3> QED
        BY <1>a, <1>b, <2>2, WithType DEF u
    <2>4. Altered(p, old, new)
      <3> HIDE DEF e, new, old
      <3> QED
        BY <2>1, <2>2, <2>3 DEF Altered
    <2>5. Before(p) /\ Missing \notin Tables => Commanded(saved, new)
      BY <1>a, <1>b, <2>1 DEF Before, Commanded, Add, Remove, Update, Enable
    <2> QED
      BY <1>0, <2>1, <2>3, <2>4, <2>5
  <1> QED
    BY <1>1, <1>2, <1>3, <1>4 DEF Changes

\* A write leaves a table or a garbled file, and no user from nowhere.
LEMMA WrittenType ==
    ASSUME NEW new \in Tables, NEW old \in Contents, old # Missing,
           NEW f \in Written(new, old)
    PROVE  /\ f \in Tables \union {Garbled}
           /\ old = Empty => f = new
           /\ f \in Tables => \A u \in DOMAIN f.users :
                \/ u \in DOMAIN new.users /\ f.users[u] = new.users[u]
                \/ /\ old \in Tables
                   /\ u \in DOMAIN old.users /\ f.users[u] = old.users[u]
  <1>1. CASE old = Empty
    <2>1. Written(new, old) = {new}
      BY <1>1, UserStoreAssumption DEF Written
    <2> QED
      BY <2>1
  <1>2. CASE old = Garbled
    <2>1. Written(new, old) = {new, Garbled}
      BY <1>2, UserStoreAssumption DEF Written
    <2> QED
      BY <1>2, <2>1, UserStoreAssumption
  <1>3. CASE old \in Tables
    <2>1. Written(new, old) = Overlaid(new, old)
      BY <1>3, UserStoreAssumption DEF Written
    <2>2. old # Empty
      BY <1>3, UserStoreAssumption
    <2> QED
      BY <1>3, <2>1, <2>2, UserStoreAssumption DEF Overlaid
  <1> QED
    BY <1>1, <1>2, <1>3 DEF Contents

\* What is written in part over an empty file has users of the new table only.
LEMMA PartialType ==
    ASSUME NEW new \in Tables, NEW f \in Partial(new)
    PROVE  /\ f \in Tables \union {Empty, Garbled}
           /\ f \in Tables =>
                /\ f.hash_type = new.hash_type
                /\ \E S \in SUBSET DOMAIN new.users : f = Part(new, S)
                /\ \A u \in DOMAIN f.users : u \in DOMAIN new.users /\ f.users[u] = new.users[u]
  <1>1. CASE f \in {Empty, Garbled}
    BY <1>1, UserStoreAssumption
  <1>2. ASSUME NEW S \in SUBSET DOMAIN new.users, f = Part(new, S)
        PROVE  /\ f \in Tables /\ f.hash_type = new.hash_type
               /\ \A u \in DOMAIN f.users : u \in DOMAIN new.users /\ f.users[u] = new.users[u]
    BY <1>2, PartType
  <1> QED
    BY <1>1, <1>2 DEF Partial

\* What a write that is cut off leaves has the passwords of the two texts, and
\* those of the new one, under their names, if there was no other.
LEMMA LeftType ==
    ASSUME NEW new \in Tables, NEW old \in Contents, old # Missing,
           NEW f \in Left(new, old)
    PROVE  /\ f \in Tables \union {Empty, Garbled}
           /\ old = Empty => f \in Partial(new)
           /\ f \in Tables => \A u \in DOMAIN f.users :
                \/ \E v \in DOMAIN new.users : f.users[u].password = new.users[v].password
                \/ /\ old \in Tables
                   /\ \E v \in DOMAIN old.users : f.users[u].password = old.users[v].password
  <1>1. CASE old \in {Empty, Garbled}
    <2>1. f \in Partial(new)
      BY <1>1, UserStoreAssumption DEF Left
    <2> QED
      BY <2>1, PartialType
  <1>2. CASE old \in Tables
    <2>1. Left(new, old) = Torn(new, old)
      BY <1>2, UserStoreAssumption DEF Left
    <2>2. old # Empty /\ f \in Tables \union {Garbled}
      BY <1>2, <2>1, UserStoreAssumption DEF Torn
    <2>3. ASSUME f \in Tables, NEW u \in DOMAIN f.users
          PROVE  \/ \E v \in DOMAIN new.users : f.users[u].password = new.users[v].password
                 \/ \E v \in DOMAIN old.users : f.users[u].password = old.users[v].password
      <3>1. CASE f = old
        BY <2>3, <3>1
      <3>2. CASE f # old
        <4>0. f # Garbled
          BY <2>3, UserStoreAssumption
        <4>1. \/ u \in DOMAIN new.users /\ f.users[u] = new.users[u]
              \/ u \in DOMAIN old.users /\ f.users[u] = old.users[u]
              \/ \E from \in {new, old} : \E v \in DOMAIN from.users, b \in BOOLEAN :
                    f.users[u] = [from.users[v] EXCEPT !.enabled = b]
          BY <2>1, <2>3, <3>2, <4>0 DEF Torn
        <4>2. ASSUME NEW from \in {new, old}, NEW v \in DOMAIN from.users, NEW b \in BOOLEAN,
                     f.users[u] = [from.users[v] EXCEPT !.enabled = b]
              PROVE  f.users[u].password = from.users[v].password
          <5>1. from.users[v] \in Entry
            BY <1>2, TableParts
          <5> QED
            BY <4>2, <5>1 DEF Entry
        <4> QED
          BY <4>1, <4>2
      <3> QED
        BY <3>1, <3>2
    <2> QED
      BY <1>2, <2>2, <2>3
  <1> QED
    BY <1>1, <1>2 DEF Contents

\* A reader finds the file, or users of a table that is being written.
LEMMA FoundType ==
    ASSUME TypeInv, NEW f \in Found
    PROVE  \/ f = file
           \/ /\ file = Empty
              /\ \E q \in Commands : /\ pc[q] = "writing" /\ user_config[q] \in Tables
                                     /\ f \in Partial(user_config[q])
  <1>1. CASE file = Empty
    <2>1. f = file \/ \E q \in Commands : pc[q] = "writing" /\ f \in Partial(user_config[q])
      BY <1>1 DEF Found
    <2> QED
      BY <1>1, <2>1 DEF TypeInv, Holding
  <1>2. CASE file # Empty
    BY <1>2 DEF Found
  <1> QED
    BY <1>1, <1>2

LEMMA TypeStep ==
    ASSUME TypeInv, [StoreNext]_storeVars
    PROVE  TypeInv'
  <1>a. StoreTypeOK /\ pc \in [Commands -> Places]
    BY DEF TypeInv, StoreTypeOK, Places, Busy
  \* Only the place of one command changes, to one of no consequence.
  <1>b. ASSUME NEW p \in Commands,
               \E to \in Ended : pc' = [pc EXCEPT ![p] = to],
               UNCHANGED <<file, saved, line, user_config, offered, overlapped, snapshot, reloads>>
        PROVE  TypeInv'
    BY <1>a, <1>b DEF TypeInv, StoreTypeOK, Holding, Ended
  <1>1. CASE ServerLoad
    <2>1. /\ reloads' \in 0 .. MaxReloads
          /\ snapshot' \in Tables \union {Missing}
          /\ UNCHANGED <<file, saved, pc, line, user_config, offered, overlapped>>
      <3>1. reloads' \in 0 .. MaxReloads
        BY <1>a, <1>1, UserStoreAssumption DEF ServerLoad, StoreTypeOK
      <3>2. snapshot' \in Tables \union {Missing}
        BY <1>a, <1>1 DEF ServerLoad, StoreTypeOK, Loads
      <3> QED
        BY <1>1, <3>1, <3>2 DEF ServerLoad, commandVars
    <2> QED
      BY <2>1 DEF TypeInv, StoreTypeOK
  <1>2. ASSUME NEW p \in Commands, Invoke(p)
        PROVE  TypeInv'
    <2>1. /\ line[p].user \in Names /\ line[p].password \in Passwords
      BY <1>a, LineType
    <2>2. overlapped' \in BOOLEAN
      BY <1>2, Zenon DEF Invoke
    <2>3. /\ \E to \in {"look", "load"} : pc' = [pc EXCEPT ![p] = to]
          /\ UNCHANGED <<file, saved, line, user_config, snapshot, reloads>>
      BY <1>2 DEF Invoke, Goto
    <2>4. offered' \subseteq Names \X Passwords
      BY <1>a, <1>2, <2>1 DEF Invoke, StoreTypeOK
    <2> QED
      BY <1>a, <2>2, <2>3, <2>4 DEF TypeInv, StoreTypeOK, Holding
  <1>3. ASSUME NEW p \in Commands, Look(p)
        PROVE  TypeInv'
    <2>1. Blank(line[p].hash_type) \in Tables
      BY <1>a, LineType, BlankType
    <2>2. \/ /\ user_config' = [user_config EXCEPT ![p] = Blank(line[p].hash_type)]
             /\ \E to \in {"save", "change"} : pc' = [pc EXCEPT ![p] = to]
          \/ user_config' = user_config /\ pc' = [pc EXCEPT ![p] = "load"]
      BY <1>3 DEF Look, Goto
    <2>3. UNCHANGED <<file, saved, line, offered, overlapped, snapshot, reloads>>
      BY <1>3 DEF Look
    <2> QED
      BY <1>a, <2>1, <2>2, <2>3 DEF TypeInv, StoreTypeOK, Holding
  <1>4. ASSUME NEW p \in Commands, load_from_file(p)
        PROVE  TypeInv'
    <2>1. /\ \E f \in Tables : user_config' = [user_config EXCEPT ![p] = f]
          /\ \E to \in {"done", "change"} : pc' = [pc EXCEPT ![p] = to]
          /\ UNCHANGED <<file, saved, line, offered, overlapped, snapshot, reloads>>
      BY <1>4 DEF load_from_file, Loads, Goto
    <2> QED
      BY <1>a, <2>1 DEF TypeInv, StoreTypeOK, Holding, Ended
  <1>5. ASSUME NEW p \in Commands, Changes(p)
        PROVE  TypeInv'
    <2>1. PICK t \in Tables : Change(p, t)
      BY <1>5, ChangeEffect
    <2>2. /\ user_config' = [user_config EXCEPT ![p] = t] /\ pc' = [pc EXCEPT ![p] = "save"]
          /\ UNCHANGED <<file, saved, line, offered, overlapped, snapshot, reloads>>
      BY <2>1 DEF Change, Goto
    <2> QED
      BY <1>a, <2>2 DEF TypeInv, StoreTypeOK, Holding
  <1>6. ASSUME NEW p \in Commands,
               AlreadyThere(p) \/ LoadFails(p) \/ ChangeRefused(p) \/ OpenFails(p)
        PROVE  TypeInv'
    BY <1>6, <1>b DEF AlreadyThere, LoadFails, ChangeRefused, OpenFails, Fail, Goto, Ended
  <1>7. ASSUME NEW p \in Commands, Truncate(p)
        PROVE  TypeInv'
    <2>1. /\ pc[p] = "save" /\ pc' = [pc EXCEPT ![p] = "writing"] /\ file' = Empty
          /\ UNCHANGED <<saved, line, user_config, offered, overlapped, snapshot, reloads>>
      BY <1>7 DEF Truncate, Goto
    <2> QED
      BY <1>a, <2>1, UserStoreAssumption DEF TypeInv, StoreTypeOK, Holding, Contents
  <1>8. ASSUME NEW p \in Commands, Write(p)
        PROVE  TypeInv'
    <2>1. /\ pc[p] = "writing" /\ pc' = [pc EXCEPT ![p] = "done"]
          /\ file' \in Written(user_config[p], file)
          /\ saved' = IF file' \in Tables THEN file' ELSE saved
          /\ UNCHANGED <<line, user_config, offered, overlapped, snapshot, reloads>>
      BY <1>8 DEF Write, Goto
    <2>2. file \in Contents /\ file # Missing /\ user_config[p] \in Tables
      BY <2>1 DEF TypeInv, StoreTypeOK, Holding
    <2>3. file' \in Tables \union {Garbled}
      BY <2>1, <2>2, WrittenType
    <2> QED
      BY <1>a, <2>1, <2>3, UserStoreAssumption
      DEF TypeInv, StoreTypeOK, Holding, Contents, Ended
  <1>9. ASSUME NEW p \in Commands, Kill(p)
        PROVE  TypeInv'
    BY <1>9, <1>b DEF Kill, Ended
  <1>10. ASSUME NEW p \in Commands, CutOff(p)
        PROVE  TypeInv'
    <2>1. /\ pc[p] = "writing"
          /\ \E to \in {"cut_off", "torn"} : pc' = [pc EXCEPT ![p] = to]
          /\ file' \in Left(user_config[p], file)
          /\ saved' = IF file' \in Tables THEN file' ELSE saved
          /\ UNCHANGED <<line, user_config, offered, overlapped, snapshot, reloads>>
      BY <1>10 DEF CutOff, Goto
    <2>2. file \in Contents /\ file # Missing /\ user_config[p] \in Tables
      BY <2>1 DEF TypeInv, StoreTypeOK, Holding
    <2>3. file' \in Tables \union {Empty, Garbled}
      BY <2>1, <2>2, LeftType
    <2> QED
      BY <1>a, <2>1, <2>3, UserStoreAssumption
      DEF TypeInv, StoreTypeOK, Holding, Contents, Ended
  <1>11. CASE UNCHANGED storeVars
    BY <1>11 DEF storeVars, commandVars, TypeInv, StoreTypeOK
  <1> QED
    BY <1>1, <1>2, <1>3, <1>4, <1>5, <1>6, <1>7, <1>8, <1>9, <1>10, <1>11
    DEF StoreNext, Step, Changes

LEMMA Typed == StoreSpec => []TypeInv
  <1>1. StoreInit => TypeInv
    <2> SUFFICES ASSUME StoreInit PROVE TypeInv
      OBVIOUS
    <2>1. file \in Tables \union {Missing}
      BY UserStoreAssumption DEF StoreInit
    <2>2. offered \subseteq Names \X Passwords
      <3>1. CASE file = Missing
        BY <3>1 DEF StoreInit
      <3>2. CASE file # Missing
        <4>1. \A u \in DOMAIN file.users : u \in Names /\ file.users[u].password \in Passwords
          BY <2>1, <3>2, TableParts DEF Entry
        <4> QED
          BY <3>2, <4>1 DEF StoreInit
      <3> QED
        BY <3>1, <3>2
    <2>3. \A p \in Commands : pc[p] = "idle"
      BY DEF StoreInit
    <2>4. /\ pc \in [Commands -> Ended \union {"look", "load", "change", "save", "writing"}]
          /\ line \in [Commands -> Inputs]
          /\ user_config \in [Commands -> Tables \union {Missing}]
      BY DEF StoreInit, Ended
    <2>5. /\ saved = file /\ overlapped = FALSE /\ snapshot = Missing /\ reloads = 0
      BY DEF StoreInit
    <2>6. StoreTypeOK
      <3>1. MaxReloads \in Nat
        BY UserStoreAssumption
      <3>2. reloads \in 0 .. MaxReloads
        BY <2>5, <3>1
      <3> QED
        BY <2>1, <2>2, <2>4, <2>5, <3>2 DEF StoreTypeOK, Contents
    <2> QED
      BY <2>3, <2>6 DEF TypeInv, Holding
  <1>2. TypeInv /\ [StoreNext]_storeVars => TypeInv'
    BY TypeStep
  <1> QED
    BY <1>1, <1>2, PTL DEF StoreSpec

\* Types, and that the server only ever holds a table that could be loaded,
\* whatever it found in the file.
THEOREM StoreTypeCorrect == StoreSpec => []StoreTypeOK
  <1>1. TypeInv => StoreTypeOK
    BY DEF TypeInv
  <1> QED
    BY <1>1, Typed, PTL

-----------------------------------------------------------------------------
(* Commands that do not overlap *)

Hashed(t) == \A u \in DOMAIN t.users : t.users[u].hashed_by = t.hash_type

\* A change keeps every hash of the type the table names.
LEMMA AlteredHashes ==
    ASSUME NEW p, NEW old, NEW new, Altered(p, old, new), Hashed(old)
    PROVE  Hashed(new)
  BY DEF Altered, Hashed

\* One command at a time, and how what it holds relates to the last success.
SeqInv ==
    /\ \A p \in Commands : pc[p] = "look" => line[p].op \in {"init", "add"}
    /\ ~overlapped =>
        /\ \A p, q \in Commands : pc[p] \in Busy /\ pc[q] \in Busy => p = q
        /\ \/ file = saved
           \/ file = Empty /\ \E p \in Commands : pc[p] = "writing"
           \/ file \in {Empty, Garbled} /\ \E p \in Commands : pc[p] = "cut_off"
        /\ \A p \in Commands :
            /\ pc[p] \in Holding => Hashed(user_config[p])
            /\ pc[p] = "change" => file = saved /\ Before(p)
            /\ pc[p] = "save" => file = saved /\ Commanded(saved, user_config[p])
            /\ pc[p] = "writing" => file = Empty /\ Commanded(saved, user_config[p])
        /\ saved # Missing => Hashed(saved)

LEMMA SeqStep ==
    ASSUME TypeInv, SeqInv, [StoreNext]_storeVars
    PROVE  SeqInv'
  <1>a. /\ StoreTypeOK /\ pc \in [Commands -> Places] /\ overlapped \in BOOLEAN
        /\ user_config \in [Commands -> Tables \union {Missing}]
    BY DEF TypeInv, StoreTypeOK, Places, Busy
  <1>b. /\ Missing \notin Tables /\ Empty \notin Tables /\ Garbled \notin Tables
        /\ Missing # Empty /\ Missing # Garbled
    BY UserStoreAssumption
  \* Command p stops, and leaves the file to others.
  <1>c. ASSUME NEW p \in Commands, NEW to \in Ended,
               pc' = [pc EXCEPT ![p] = to],
               pc[p] # "cut_off", pc[p] # "writing",
               UNCHANGED <<file, saved, line, user_config, overlapped>>
        PROVE  SeqInv'
    <2>1. \A q \in Commands : pc'[q] = IF q = p THEN to ELSE pc[q]
      BY <1>a, <1>c
    <2>2. \A q \in Commands : pc'[q] \in Busy => q # p /\ pc'[q] = pc[q]
      BY <2>1 DEF Ended, Busy
    <2>3. \A q \in Commands : pc[q] \in {"writing", "cut_off"} => pc'[q] = pc[q]
      BY <1>c, <2>1
    <2>4. \A q \in Commands : Before(q) => Before(q)'
      BY <1>c DEF Before
    <2>5. \A q \in Commands : Commanded(saved, user_config[q])' <=> Commanded(saved, user_config[q])
      BY <1>c
    <2>6. \A q \in Commands : pc'[q] \in {"look", "change", "save", "writing"} => pc'[q] = pc[q]
      BY <2>2 DEF Busy
    <2> QED
      BY <1>c, <2>2, <2>3, <2>4, <2>5, <2>6 DEF SeqInv, Holding, Hashed
  <1>1. CASE ServerLoad \/ UNCHANGED storeVars
    <2>1. UNCHANGED <<file, saved, pc, line, user_config, overlapped>>
      BY <1>1 DEF ServerLoad, storeVars, commandVars
    <2> QED
      BY <2>1 DEF SeqInv, Before, Hashed
  <1>2. ASSUME NEW p \in Commands, Invoke(p)
        PROVE  SeqInv'
    <2>1. /\ pc[p] = "idle" /\ UNCHANGED <<file, saved, line, user_config>>
          /\ pc' = [pc EXCEPT ![p] = IF line[p].op \in {"init", "add"} THEN "look" ELSE "load"]
      BY <1>2 DEF Invoke, Goto
    <2>2. ~overlapped' => ~overlapped /\ \A q \in Commands : pc[q] \notin Busy
      BY <1>2 DEF Invoke, Active, Ended, Busy
    <2>3. \A q \in Commands : q # p => pc'[q] = pc[q]
      BY <1>a, <2>1
    <2>4. /\ pc'[p] \in {"look", "load"}
          /\ pc'[p] = "look" => line'[p].op \in {"init", "add"}
      BY <1>a, <2>1
    <2>5. \A q \in Commands : pc[q] \in {"writing", "cut_off"} => pc'[q] = pc[q]
      BY <2>1, <2>3
    <2> QED
      BY <2>1, <2>2, <2>3, <2>4, <2>5 DEF SeqInv, Busy, Holding, Hashed
  <1>3. ASSUME NEW p \in Commands, Look(p)
        PROVE  SeqInv'
    <2>1. /\ pc[p] = "look" /\ UNCHANGED <<file, saved, line, overlapped>>
      BY <1>3 DEF Look, Goto
    <2>2. line[p].op \in {"init", "add"} /\ line[p].hash_type \in HashTypes
      BY <1>a, <2>1, LineType DEF SeqInv
    <2>3. CASE file = Missing
      <3>1. /\ pc' = [pc EXCEPT ![p] = IF line[p].op = "init" THEN "save" ELSE "change"]
            /\ user_config' = [user_config EXCEPT ![p] = Blank(line[p].hash_type)]
        BY <1>3, <2>3 DEF Look, Goto
      <3>2. /\ user_config'[p] = Blank(line[p].hash_type)
            /\ \A q \in Commands : q # p => pc'[q] = pc[q] /\ user_config'[q] = user_config[q]
            /\ pc'[p] = "save" \/ (pc'[p] = "change" /\ line[p].op = "add")
        BY <1>a, <2>2, <3>1
      <3>3. SUFFICES ASSUME ~overlapped PROVE SeqInv'
        BY <2>1, <3>2 DEF SeqInv
      <3>0. Hashed(Blank(line[p].hash_type))
        BY <2>2, BlankType DEF Hashed
      <3>4. saved = Missing /\ \A q \in Commands : pc[q] \in Busy => q = p
        BY <1>b, <2>1, <2>3, <3>3 DEF SeqInv, Busy
      <3>5. Commanded(saved, user_config[p])' /\ (line[p].op = "add" => Before(p)')
        BY <2>1, <2>2, <3>2, <3>4 DEF Commanded, Create, Add, Before
      <3>6. \A q \in Commands : pc'[q] \in Busy => q = p
        BY <3>2, <3>4
      <3>7. \A q \in Commands : pc'[q] \in Holding => Hashed(user_config'[q])
        BY <3>0, <3>2, <3>6 DEF Holding, Busy
      <3>8. saved' = saved /\ file' = saved'
        BY <2>1, <2>3, <3>4
      <3>9. Commanded(saved', user_config'[p]) /\ (line'[p].op = "add" => Before(p)')
        BY <2>1, <3>5
      <3> QED
        BY <2>1, <3>2, <3>4, <3>6, <3>7, <3>8, <3>9 DEF SeqInv, Busy
    <2>4. CASE file # Missing
      <3>1. /\ pc' = [pc EXCEPT ![p] = "load"] /\ user_config' = user_config
        BY <1>3, <2>4 DEF Look, Goto
      <3>2. /\ pc'[p] = "load"
            /\ \A q \in Commands : q # p => pc'[q] = pc[q]
            /\ \A q \in Commands : pc'[q] \in Busy <=> pc[q] \in Busy
        BY <1>a, <2>1, <3>1 DEF Busy
      <3>3. \A q \in Commands : /\ Before(q)' <=> Before(q)
                                /\ pc[q] \in {"writing", "cut_off"} => pc'[q] = pc[q]
        BY <2>1, <3>1, <3>2 DEF Before
      <3> QED
        BY <2>1, <3>1, <3>2, <3>3 DEF SeqInv, Holding, Hashed
    <2> QED
      BY <2>3, <2>4
  <1>4. ASSUME NEW p \in Commands, load_from_file(p)
        PROVE  SeqInv'
    <2>0. PICK f \in Found :
            /\ pc[p] = "load" /\ UNCHANGED <<file, saved, line, overlapped>>
            /\ f \in Tables
            /\ user_config' = [user_config EXCEPT ![p] = f]
            /\ pc' = [pc EXCEPT ![p] = IF line[p].op = "list" THEN "done" ELSE "change"]
      BY <1>4 DEF load_from_file, Loads, Goto
    <2>1. /\ pc[p] = "load" /\ UNCHANGED <<file, saved, line, overlapped>>
          /\ f \in Tables
          /\ user_config' = [user_config EXCEPT ![p] = f]
          /\ pc' = [pc EXCEPT ![p] = IF line[p].op = "list" THEN "done" ELSE "change"]
      BY <2>0
    <2>2. /\ user_config'[p] = f /\ pc'[p] \in {"done", "change"}
          /\ \A q \in Commands : q # p => pc'[q] = pc[q] /\ user_config'[q] = user_config[q]
      BY <1>a, <2>1
    <2>3. SUFFICES ASSUME ~overlapped PROVE SeqInv'
      BY <2>1, <2>2 DEF SeqInv
    <2>4. \A q \in Commands : pc[q] \in Busy => q = p
      BY <2>1, <2>3 DEF SeqInv, Busy
    <2>5. f = file
      BY <2>1, <2>4, FoundType DEF Busy
    <2>6. file = saved /\ saved # Missing /\ Hashed(saved)
      BY <1>b, <2>1, <2>3, <2>5 DEF SeqInv
    <2>7. Before(p)' /\ Hashed(user_config'[p])
      BY <2>1, <2>2, <2>5, <2>6 DEF Before
    <2>8. \A q \in Commands : pc'[q] \in Busy => q = p
      BY <2>2, <2>4
    <2>9. saved' # Missing /\ Hashed(saved')
      BY <2>1, <2>6
    <2> QED
      BY <2>1, <2>2, <2>3, <2>6, <2>7, <2>8, <2>9 DEF SeqInv, Busy, Holding
  <1>5. ASSUME NEW p \in Commands, Changes(p)
        PROVE  SeqInv'
    <2>1. PICK t \in Tables :
              /\ pc[p] = "change"
              /\ Change(p, t) /\ Altered(p, user_config[p], t)
              /\ Before(p) => Commanded(saved, t)
      BY <1>5, <1>b, ChangeEffect
    <2>2. /\ UNCHANGED <<file, saved, line, overlapped>>
          /\ user_config' = [user_config EXCEPT ![p] = t]
          /\ pc' = [pc EXCEPT ![p] = "save"]
      BY <2>1 DEF Change, Goto
    <2>3. /\ user_config'[p] = t /\ pc'[p] = "save"
          /\ \A q \in Commands : q # p => pc'[q] = pc[q] /\ user_config'[q] = user_config[q]
      BY <1>a, <2>2
    <2>4. SUFFICES ASSUME ~overlapped PROVE SeqInv'
      BY <2>2, <2>3 DEF SeqInv
    <2>5. /\ file = saved /\ Commanded(saved, t)
          /\ saved # Missing => Hashed(saved)
          /\ \A q \in Commands : pc[q] \in Busy => q = p
          /\ Hashed(user_config[p])
      BY <2>1, <2>4 DEF SeqInv, Busy, Holding
    <2>6. \A q \in Commands : pc'[q] \in Busy => q = p
      BY <2>3, <2>5
    <2>7. Hashed(t)
      BY <2>1, <2>5, AlteredHashes
    <2>8. /\ file' = saved' /\ Commanded(saved', user_config'[p]) /\ Hashed(user_config'[p])
          /\ saved' # Missing => Hashed(saved')
      BY <2>2, <2>3, <2>5, <2>7
    <2> QED
      BY <2>2, <2>3, <2>4, <2>6, <2>8 DEF SeqInv, Busy, Holding
  <1>6. ASSUME NEW p \in Commands,
               AlreadyThere(p) \/ LoadFails(p) \/ ChangeRefused(p) \/ OpenFails(p)
        PROVE  SeqInv'
    <2>1. /\ pc[p] \in {"look", "load", "change", "save"}
          /\ pc' = [pc EXCEPT ![p] = "failed"]
          /\ UNCHANGED <<file, saved, line, user_config, overlapped>>
      BY <1>6 DEF AlreadyThere, LoadFails, ChangeRefused, OpenFails, Fail, Goto
    <2> QED
      BY <2>1, <1>c DEF Ended
  <1>7. ASSUME NEW p \in Commands, Truncate(p)
        PROVE  SeqInv'
    <2>1. /\ pc[p] = "save" /\ pc' = [pc EXCEPT ![p] = "writing"] /\ file' = Empty
          /\ UNCHANGED <<saved, line, user_config, overlapped>>
      BY <1>7 DEF Truncate, Goto
    <2>2. /\ pc'[p] = "writing"
          /\ \A q \in Commands : q # p => pc'[q] = pc[q]
      BY <1>a, <2>1
    <2>3. SUFFICES ASSUME ~overlapped PROVE SeqInv'
      BY <2>1, <2>2 DEF SeqInv
    <2>4. /\ Commanded(saved, user_config[p]) /\ Hashed(user_config[p])
          /\ saved # Missing => Hashed(saved)
          /\ \A q \in Commands : pc[q] \in Busy => q = p
      BY <2>1, <2>3 DEF SeqInv, Busy, Holding
    <2>5. \A q \in Commands : pc'[q] \in Busy => q = p
      BY <2>2, <2>4
    <2>6. /\ Commanded(saved', user_config'[p]) /\ Hashed(user_config'[p])
          /\ saved' # Missing => Hashed(saved')
      BY <2>1, <2>4
    <2> QED
      BY <2>1, <2>2, <2>3, <2>5, <2>6 DEF SeqInv, Busy, Holding
  <1>8. ASSUME NEW p \in Commands, Write(p)
        PROVE  SeqInv'
    <2>1. /\ pc[p] = "writing" /\ pc' = [pc EXCEPT ![p] = "done"]
          /\ file' \in Written(user_config[p], file)
          /\ saved' = IF file' \in Tables THEN file' ELSE saved
          /\ UNCHANGED <<line, user_config, overlapped>>
      BY <1>8 DEF Write, Goto
    <2>2. /\ pc'[p] = "done"
          /\ \A q \in Commands : q # p => pc'[q] = pc[q]
      BY <1>a, <2>1
    <2>3. SUFFICES ASSUME ~overlapped PROVE SeqInv'
      BY <2>1, <2>2 DEF SeqInv
    <2>4. /\ file = Empty /\ Hashed(user_config[p])
          /\ \A q \in Commands : pc[q] \in Busy => q = p
      BY <2>1, <2>3 DEF SeqInv, Busy, Holding
    <2>5. user_config[p] \in Tables /\ file \in Contents /\ saved \in Tables \union {Missing}
      BY <2>1 DEF TypeInv, StoreTypeOK, Holding
    <2>6. file' = user_config[p] /\ saved' = user_config[p]
      BY <1>b, <2>1, <2>4, <2>5, WrittenType
    <2>7. Hashed(saved')
      BY <2>4, <2>6
    <2>8. \A q \in Commands : pc'[q] \notin Busy
      BY <2>2, <2>4 DEF Busy
    <2>9. file' = saved'
      BY <2>6
    <2> QED
      BY <2>1, <2>3, <2>7, <2>8, <2>9 DEF SeqInv, Busy, Holding
  <1>9. ASSUME NEW p \in Commands, Kill(p)
        PROVE  SeqInv'
    <2>1. /\ pc[p] \notin Ended /\ pc[p] # "writing"
          /\ pc' = [pc EXCEPT ![p] = "killed"]
          /\ UNCHANGED <<file, saved, line, user_config, overlapped>>
      BY <1>9 DEF Kill, Active
    <2> QED
      BY <2>1, <1>c DEF Ended
  <1>10. ASSUME NEW p \in Commands, CutOff(p)
        PROVE  SeqInv'
    <2>1. /\ pc[p] = "writing"
          /\ pc' = [pc EXCEPT ![p] = IF file = Empty THEN "cut_off" ELSE "torn"]
          /\ file' \in Left(user_config[p], file)
          /\ saved' = IF file' \in Tables THEN file' ELSE saved
          /\ UNCHANGED <<line, user_config, overlapped>>
      BY <1>10 DEF CutOff, Goto
    <2>2. /\ pc'[p] = IF file = Empty THEN "cut_off" ELSE "torn"
          /\ \A q \in Commands : q # p => pc'[q] = pc[q]
      BY <1>a, <2>1
    <2>3. SUFFICES ASSUME ~overlapped PROVE SeqInv'
      BY <2>1, <2>2 DEF SeqInv
    <2>4. /\ file = Empty /\ Hashed(user_config[p])
          /\ saved # Missing => Hashed(saved)
          /\ \A q \in Commands : pc[q] \in Busy => q = p
      BY <2>1, <2>3 DEF SeqInv, Busy, Holding
    <2>5. user_config[p] \in Tables /\ file \in Contents /\ file # Missing
      BY <2>1 DEF TypeInv, StoreTypeOK, Holding
    <2>6. file' \in Partial(user_config[p])
      BY <2>1, <2>4, <2>5, LeftType
    <2>7. /\ file' \in Tables \union {Empty, Garbled}
          /\ file' \in Tables => Hashed(file')
      BY <2>4, <2>5, <2>6, PartialType DEF Hashed
    <2>8. saved' # Missing => Hashed(saved')
      BY <2>1, <2>4, <2>7
    <2>9. file' = saved' \/ (file' \in {Empty, Garbled} /\ pc'[p] = "cut_off")
      BY <2>1, <2>2, <2>4, <2>7
    <2>10. \A q \in Commands : pc'[q] \notin Busy
      BY <2>2, <2>4 DEF Busy
    <2> QED
      BY <2>1, <2>3, <2>8, <2>9, <2>10 DEF SeqInv, Busy, Holding
  <1> QED
    BY <1>1, <1>2, <1>3, <1>4, <1>5, <1>6, <1>7, <1>8, <1>9, <1>10 DEF StoreNext, Step, Changes

LEMMA Sequential == StoreSpec => [](TypeInv /\ SeqInv)
  <1>1. StoreInit => SeqInv
    <2> SUFFICES ASSUME StoreInit PROVE SeqInv
      OBVIOUS
    <2>1. \A p \in Commands : pc[p] = "idle"
      BY DEF StoreInit
    <2>2. saved = file /\ file \in InitialFiles
      BY DEF StoreInit
    <2>3. saved # Missing => Hashed(saved)
      BY <2>2, UserStoreAssumption DEF Hashed
    <2> QED
      BY <2>1, <2>2, <2>3 DEF SeqInv, Busy, Holding
  <1>2. TypeInv /\ SeqInv /\ [StoreNext]_storeVars => SeqInv'
    BY SeqStep
  <1> QED
    BY <1>1, <1>2, Typed, PTL DEF StoreSpec

\* Commands that do not overlap find in the file the last table one of them
\* left, unless one was cut off in save_to_file and left no table at all.
THEOREM FileStaysFaithful == StoreSpec => []FileFaithful
  <1>1. TypeInv /\ SeqInv => FileFaithful
    BY DEF SeqInv, FileFaithful
  <1> QED
    BY <1>1, Sequential, PTL

\* SimpleAuthenticator lets every enabled user of the file in with the password
\* add_user or update_password stored, whatever type a command line named.
THEOREM UsersVerifiable == StoreSpec => []Verifiable
  <1>1. TypeInv /\ SeqInv => Verifiable
    <2> SUFFICES ASSUME SeqInv, ~overlapped, Loads(file), NEW u \in DOMAIN file.users,
                        file.users[u].enabled
                 PROVE  verify_password(file, u, file.users[u].password)
      BY DEF Verifiable
    <2>1. file = saved /\ saved # Missing
      BY UserStoreAssumption DEF SeqInv, Loads
    <2>2. file.users[u].hashed_by = file.hash_type
      BY <2>1 DEF SeqInv, Hashed
    <2> QED
      BY <2>2 DEF verify_password
  <1> QED
    BY <1>1, Sequential, PTL

-----------------------------------------------------------------------------
(* Refinement *)

LEMMA TableStep ==
    ASSUME TypeInv, SeqInv, [StoreNext]_storeVars
    PROVE  [TableNext]_tableVars
  <1>1. CASE UNCHANGED <<saved, overlapped>>
    BY <1>1 DEF tableVars
  <1>2. ASSUME NEW p \in Commands, Invoke(p)
        PROVE  [TableNext]_tableVars
    <2>1. saved' = saved /\ overlapped \in BOOLEAN
      BY <1>2 DEF Invoke, TypeInv, StoreTypeOK
    <2>2. overlapped' = overlapped \/ overlapped' = TRUE
      BY <1>2, <2>1, Zenon DEF Invoke
    <2> QED
      BY <2>1, <2>2 DEF TableNext, tableVars
  <1>3. ASSUME NEW p \in Commands, Write(p)
        PROVE  [TableNext]_tableVars
    <2>1. /\ pc[p] = "writing" /\ file' \in Written(user_config[p], file)
          /\ saved' = IF file' \in Tables THEN file' ELSE saved
          /\ overlapped' = overlapped
      BY <1>3 DEF Write, Goto
    <2>2. /\ file \in Contents /\ file # Missing /\ user_config[p] \in Tables
          /\ saved \in Tables \union {Missing}
      BY <2>1 DEF TypeInv, StoreTypeOK, Holding
    <2>3. CASE overlapped
      BY <2>1, <2>3 DEF TableNext, tableVars
    <2>4. CASE ~overlapped
      <3>1. file = Empty /\ Commanded(saved, user_config[p])
        BY <2>1, <2>4 DEF SeqInv
      <3>2. saved' = user_config[p]
        BY <2>1, <2>2, <3>1, WrittenType
      <3>3. Commanded(saved, saved')
        BY <3>1, <3>2
      <3> QED
        BY <2>1, <3>3 DEF TableNext
    <2> QED
      BY <2>3, <2>4
  <1>6. ASSUME NEW p \in Commands, CutOff(p)
        PROVE  [TableNext]_tableVars
    <2>1. /\ pc[p] = "writing" /\ file' \in Left(user_config[p], file)
          /\ saved' = IF file' \in Tables THEN file' ELSE saved
          /\ overlapped' = overlapped
      BY <1>6 DEF CutOff, Goto
    <2>2. /\ file \in Contents /\ file # Missing /\ user_config[p] \in Tables
      BY <2>1 DEF TypeInv, StoreTypeOK, Holding
    <2>3. CASE overlapped
      BY <2>1, <2>3 DEF TableNext, tableVars
    <2>4. CASE saved' = saved
      BY <2>1, <2>4 DEF tableVars
    <2>5. CASE ~overlapped /\ saved' # saved
      <3>1. file = Empty /\ Commanded(saved, user_config[p])
        BY <2>1, <2>5 DEF SeqInv
      <3>2. saved' = file' /\ file' \in Tables /\ file' \in Partial(user_config[p])
        BY <2>1, <2>2, <2>5, <3>1, LeftType
      <3>3. \E S \in SUBSET DOMAIN user_config[p].users : saved' = Part(user_config[p], S)
        BY <2>2, <3>2, PartialType
      <3>4. Interrupted
        BY <2>2, <2>5, <3>1, <3>3 DEF Interrupted
      <3> QED
        BY <2>1, <3>4 DEF TableNext
    <2> QED
      BY <2>3, <2>4, <2>5
  <1>4. ASSUME NEW p \in Commands, Step(p), ~Invoke(p), ~Write(p), ~CutOff(p)
        PROVE  UNCHANGED <<saved, overlapped>>
    BY <1>4 DEF Step, Look, AlreadyThere, load_from_file, LoadFails, add_user, remove_user,
                update_password, enable_user, Change, ChangeRefused, OpenFails, Fail, Truncate, Kill
  <1>5. CASE ServerLoad \/ UNCHANGED storeVars
    BY <1>1, <1>5 DEF ServerLoad, storeVars, commandVars
  <1> QED
    BY <1>1, <1>2, <1>3, <1>4, <1>5, <1>6 DEF StoreNext

\* The subcommands implement the table of UserTable: one that does not overlap
\* with another changes it in one step, when its write ends or is cut off.
THEOREM ImplementsTable == StoreSpec => TableImplemented
  <1>1. StoreInit => TableInit
    BY UserStoreAssumption DEF StoreInit, TableInit
  <1>2. TypeInv /\ SeqInv /\ [StoreNext]_storeVars => [TableNext]_tableVars
    BY TableStep
  <1> QED
    BY <1>1, <1>2, Sequential, PTL DEF StoreSpec, TableImplemented, TableSpec

-----------------------------------------------------------------------------
(* Log-ins *)

TornOnes == {p \in Commands : pc[p] = "torn"}

\* Every password of the table was given to somebody by a command of o, and to
\* the user itself as long as no write in s was torn.
Earned(t, o, s) ==
    \A u \in DOMAIN t.users :
        /\ \E v \in Names : <<v, t.users[u].password>> \in o
        /\ s = {} => <<u, t.users[u].password>> \in o

\* That holds of all tables there are, overlapped or not; a command that will
\* set a password has offered it.
EarnedInv ==
    /\ file \in Tables => Earned(file, offered, TornOnes)
    /\ \A p \in Commands : user_config[p] \in Tables => Earned(user_config[p], offered, TornOnes)
    /\ snapshot \in Tables => Earned(snapshot, offered, TornOnes) /\ validate(snapshot)
    /\ \A p \in Commands : (pc[p] \in Busy /\ line[p].op \in {"add", "update"}) =>
            <<line[p].user, line[p].password>> \in offered

LEMMA EarnedGrows ==
    ASSUME NEW t, NEW o, NEW o2, NEW s, NEW s2, o \subseteq o2, s \subseteq s2, Earned(t, o, s)
    PROVE  Earned(t, o2, s2)
  BY DEF Earned

\* Entries that stand under their names in earned tables are earned.
LEMMA EarnedSelection ==
    ASSUME NEW t, NEW a, NEW o, NEW s, Earned(a, o, s),
           \A u \in DOMAIN t.users : u \in DOMAIN a.users /\ t.users[u] = a.users[u]
    PROVE  Earned(t, o, s)
  BY DEF Earned

LEMMA EarnedStep ==
    ASSUME TypeInv, EarnedInv, [StoreNext]_storeVars
    PROVE  EarnedInv'
  <1> DEFINE s == TornOnes
             s2 == TornOnes'
  <1>a. /\ StoreTypeOK /\ pc \in [Commands -> Places]
        /\ user_config \in [Commands -> Tables \union {Missing}]
    BY DEF TypeInv, StoreTypeOK, Places, Busy
  <1>b. /\ Missing \notin Tables /\ Empty \notin Tables /\ Garbled \notin Tables
    BY UserStoreAssumption
  \* A write that was torn stays so.
  <1>t. ASSUME \A q \in Commands : pc[q] = "torn" => pc'[q] = "torn"
        PROVE  s \subseteq s2
    BY <1>t DEF TornOnes
  \* What a step has to leave.
  <1>d. ASSUME offered \subseteq offered', line' = line,
               \A q \in Commands : pc[q] = "torn" => pc'[q] = "torn",
               file' = file \/ (file' \in Tables => Earned(file', offered', s2)),
               snapshot' = snapshot \/ (snapshot' \in Tables =>
                                            Earned(snapshot', offered', s2) /\ validate(snapshot')),
               \A q \in Commands :
                  \/ user_config'[q] = user_config[q]
                  \/ user_config'[q] \in Tables => Earned(user_config'[q], offered', s2),
               \A q \in Commands :
                  \/ pc'[q] \in Busy => pc[q] \in Busy
                  \/ line[q].op \in {"add", "update"} =>
                        <<line[q].user, line[q].password>> \in offered'
        PROVE  EarnedInv'
    <2> HIDE DEF s, s2
    <2>1. s \subseteq s2
      BY <1>d, <1>t
    <2>2. \A x : Earned(x, offered, s) => Earned(x, offered', s2)
      BY <1>d, <2>1, EarnedGrows
    <2>3. file' \in Tables => Earned(file', offered', s2)
      BY <1>d, <2>2 DEF EarnedInv, s
    <2>4. \A q \in Commands : user_config'[q] \in Tables => Earned(user_config'[q], offered', s2)
      BY <1>d, <2>2 DEF EarnedInv, s
    <2>5. snapshot' \in Tables => Earned(snapshot', offered', s2) /\ validate(snapshot')
      BY <1>d, <2>2 DEF EarnedInv, s
    <2>6. \A q \in Commands : (pc'[q] \in Busy /\ line'[q].op \in {"add", "update"}) =>
                <<line'[q].user, line'[q].password>> \in offered'
      BY <1>d DEF EarnedInv
    <2> QED
      BY <2>3, <2>4, <2>5, <2>6 DEF EarnedInv, s2
  \* What a reader finds is earned.
  <1>f. ASSUME NEW f \in Found, f \in Tables
        PROVE  Earned(f, offered, s)
    <2>1. CASE f = file
      BY <1>f, <2>1 DEF EarnedInv
    <2>2. ASSUME NEW q \in Commands, user_config[q] \in Tables, f \in Partial(user_config[q])
          PROVE  Earned(f, offered, s)
      <3>1. Earned(user_config[q], offered, s)
        BY <2>2 DEF EarnedInv
      <3>2. \A u \in DOMAIN f.users :
                u \in DOMAIN user_config[q].users /\ f.users[u] = user_config[q].users[u]
        BY <1>f, <2>2, PartialType
      <3> QED
        BY <3>1, <3>2, EarnedSelection
    <2> QED
      BY <2>1, <2>2, FoundType
  \* Nothing but the table of p and its place changes, and p was busy before.
  <1>e. ASSUME NEW p \in Commands, NEW t, t \in Tables => Earned(t, offered, s), NEW to,
               pc[p] \in Busy,
               pc' = [pc EXCEPT ![p] = to], user_config' = [user_config EXCEPT ![p] = t],
               UNCHANGED <<file, snapshot, line, offered>>
        PROVE  EarnedInv'
    <2> HIDE DEF s, s2
    <2>1. \A q \in Commands : /\ user_config'[q] = IF q = p THEN t ELSE user_config[q]
                              /\ pc'[q] \in Busy => pc[q] \in Busy
                              /\ pc[q] = "torn" => pc'[q] = "torn"
      BY <1>a, <1>e DEF Busy
    <2>2. s \subseteq s2
      BY <2>1, <1>t
    <2>3. t \in Tables => Earned(t, offered', s2)
      BY <1>e, <2>2, EarnedGrows
    <2>4. /\ offered \subseteq offered' /\ line' = line /\ file' = file /\ snapshot' = snapshot
          /\ \A q \in Commands :
                \/ user_config'[q] = user_config[q]
                \/ user_config'[q] \in Tables => Earned(user_config'[q], offered', s2)
      BY <1>e, <2>1, <2>3
    <2> QED
      BY <2>1, <2>4, <1>d
  \* Nothing changes but the place of p.
  <1>g. ASSUME NEW p \in Commands, NEW to, pc[p] \in Busy,
               pc' = [pc EXCEPT ![p] = to],
               UNCHANGED <<file, snapshot, line, offered, user_config>>
        PROVE  EarnedInv'
    <2>1. user_config' = [user_config EXCEPT ![p] = user_config[p]]
      BY <1>a, <1>g
    <2>2. user_config[p] \in Tables => Earned(user_config[p], offered, s)
      BY DEF EarnedInv
    <2> HIDE DEF s
    <2> QED
      BY <1>g, <2>1, <2>2, <1>e
  <1>1. CASE ServerLoad
    <2>1. PICK f \in Found :
            /\ snapshot' = IF Loads(f) THEN f ELSE snapshot
            /\ UNCHANGED <<file, pc, line, user_config, offered>>
      BY <1>1 DEF ServerLoad, commandVars
    <2>2. s2 = s
      BY <2>1 DEF TornOnes
    <2> HIDE DEF s, s2
    <2>3. snapshot' = snapshot \/ (Earned(snapshot', offered', s2) /\ validate(snapshot'))
      <3>1. CASE Loads(f)
        <4>1. f \in Tables /\ validate(f) /\ snapshot' = f
          BY <2>1, <3>1 DEF Loads
        <4>2. Earned(f, offered', s2)
          BY <2>1, <2>2, <4>1, <1>f
        <4> QED
          BY <4>1, <4>2
      <3> QED
        BY <2>1, <3>1
    <2> QED
      BY <2>1, <2>3, <1>d
  <1>2. CASE UNCHANGED storeVars
    <2>1. UNCHANGED <<file, pc, line, user_config, offered, snapshot>>
      BY <1>2 DEF storeVars, commandVars
    <2> HIDE DEF s, s2
    <2> QED
      BY <2>1, <1>d
  <1>3. ASSUME NEW p \in Commands, Invoke(p)
        PROVE  EarnedInv'
    <2>1. /\ UNCHANGED <<file, line, user_config, snapshot>>
          /\ offered \subseteq offered'
          /\ line[p].op \in {"add", "update"} => <<line[p].user, line[p].password>> \in offered'
      BY <1>3 DEF Invoke
    <2>2. pc[p] = "idle" /\ \A q \in Commands : q # p => pc'[q] = pc[q]
      BY <1>a, <1>3 DEF Invoke, Goto
    <2> HIDE DEF s, s2
    <2> QED
      BY <2>1, <2>2, <1>d
  <1>4. ASSUME NEW p \in Commands, Look(p)
        PROVE  EarnedInv'
    <2>1. /\ pc[p] \in Busy /\ UNCHANGED <<file, snapshot, line, offered>>
          /\ \E to : pc' = [pc EXCEPT ![p] = to]
      BY <1>4 DEF Look, Goto, Busy
    <2>2. CASE user_config' = [user_config EXCEPT ![p] = Blank(line[p].hash_type)]
      <3>1. Earned(Blank(line[p].hash_type), offered, s)
        BY <1>a, LineType, BlankType DEF Earned
      <3> HIDE DEF s
      <3> QED
        BY <2>1, <2>2, <3>1, <1>e
    <2>3. CASE user_config' = user_config
      BY <2>1, <2>3, <1>g
    <2> QED
      BY <1>4, <2>2, <2>3 DEF Look
  <1>5. ASSUME NEW p \in Commands, load_from_file(p)
        PROVE  EarnedInv'
    <2>1. PICK f \in Found :
            /\ pc[p] \in Busy /\ UNCHANGED <<file, snapshot, line, offered>>
            /\ \E to : pc' = [pc EXCEPT ![p] = to]
            /\ user_config' = [user_config EXCEPT ![p] = f]
      BY <1>5 DEF load_from_file, Goto, Busy
    <2>2. f \in Tables => Earned(f, offered, s)
      BY <1>f
    <2> HIDE DEF s
    <2> QED
      BY <2>1, <2>2, <1>e
  <1>6. ASSUME NEW p \in Commands, Changes(p)
        PROVE  EarnedInv'
    <2>1. PICK t \in Tables :
              pc[p] = "change" /\ Change(p, t) /\ Altered(p, user_config[p], t)
      BY <1>6, ChangeEffect
    <2>2. /\ UNCHANGED <<file, snapshot, line, offered>> /\ pc[p] \in Busy
          /\ user_config' = [user_config EXCEPT ![p] = t]
          /\ pc' = [pc EXCEPT ![p] = "save"]
      BY <2>1 DEF Change, Goto, Busy
    <2>3. Earned(user_config[p], offered, s)
      BY <2>1 DEF TypeInv, Holding, EarnedInv
    <2> HIDE DEF s
    <2>4. line[p].user \in Names /\
          (line[p].op \in {"add", "update"} => <<line[p].user, line[p].password>> \in offered)
      BY <1>a, <2>2, LineType DEF EarnedInv
    <2>5. Earned(t, offered, s)
      BY <2>1, <2>3, <2>4 DEF Earned, Altered
    <2> QED
      BY <2>2, <2>5, <1>e
  <1>7. ASSUME NEW p \in Commands,
               AlreadyThere(p) \/ LoadFails(p) \/ ChangeRefused(p) \/ OpenFails(p)
        PROVE  EarnedInv'
    <2>1. /\ pc[p] \in Busy /\ pc' = [pc EXCEPT ![p] = "failed"]
          /\ UNCHANGED <<file, snapshot, line, offered, user_config>>
      BY <1>7 DEF AlreadyThere, LoadFails, ChangeRefused, OpenFails, Fail, Goto, Busy
    <2> QED
      BY <2>1, <1>g
  <1>8. ASSUME NEW p \in Commands, Truncate(p)
        PROVE  EarnedInv'
    <2>1. /\ pc[p] = "save" /\ pc' = [pc EXCEPT ![p] = "writing"] /\ file' = Empty
          /\ UNCHANGED <<line, user_config, offered, snapshot>>
      BY <1>8 DEF Truncate, Goto
    <2>2. \A q \in Commands : /\ pc'[q] \in Busy => pc[q] \in Busy
                              /\ pc[q] = "torn" => pc'[q] = "torn"
      BY <1>a, <2>1 DEF Busy
    <2> HIDE DEF s, s2
    <2> QED
      BY <1>b, <2>1, <2>2, <1>d
  <1>9. ASSUME NEW p \in Commands, Write(p)
        PROVE  EarnedInv'
    <2>1. /\ pc[p] = "writing" /\ pc' = [pc EXCEPT ![p] = "done"]
          /\ file' \in Written(user_config[p], file)
          /\ UNCHANGED <<line, user_config, offered, snapshot>>
      BY <1>9 DEF Write, Goto
    <2>2. file \in Contents /\ file # Missing /\ user_config[p] \in Tables
      BY <2>1 DEF TypeInv, StoreTypeOK, Holding
    <2>3. file' \in Tables => \A u \in DOMAIN file'.users :
                \/ u \in DOMAIN user_config[p].users /\ file'.users[u] = user_config[p].users[u]
                \/ /\ file \in Tables
                   /\ u \in DOMAIN file.users /\ file'.users[u] = file.users[u]
      BY <2>1, <2>2, WrittenType
    <2>4. /\ Earned(user_config[p], offered, s)
          /\ file \in Tables => Earned(file, offered, s)
      BY <2>2 DEF EarnedInv
    <2>5. \A q \in Commands : /\ pc'[q] \in Busy => pc[q] \in Busy
                              /\ pc[q] = "torn" => pc'[q] = "torn"
      BY <1>a, <2>1 DEF Busy
    <2>6. s \subseteq s2
      BY <2>5, <1>t
    <2> HIDE DEF s, s2
    <2>7. file' \in Tables => Earned(file', offered, s)
      BY <2>3, <2>4 DEF Earned
    <2>8. file' \in Tables => Earned(file', offered', s2)
      BY <2>1, <2>6, <2>7, EarnedGrows
    <2> QED
      BY <2>1, <2>5, <2>8, <1>d
  <1>10. ASSUME NEW p \in Commands, Kill(p)
        PROVE  EarnedInv'
    <2>1. /\ pc[p] \in Busy /\ \E to : pc' = [pc EXCEPT ![p] = to]
          /\ UNCHANGED <<file, snapshot, line, offered, user_config>>
      BY <1>a, <1>10 DEF Kill, Active, Places
    <2> QED
      BY <2>1, <1>g
  <1>11. ASSUME NEW p \in Commands, CutOff(p)
        PROVE  EarnedInv'
    <2>1. /\ pc[p] = "writing"
          /\ pc' = [pc EXCEPT ![p] = IF file = Empty THEN "cut_off" ELSE "torn"]
          /\ file' \in Left(user_config[p], file)
          /\ UNCHANGED <<line, user_config, offered, snapshot>>
      BY <1>11 DEF CutOff, Goto
    <2>2. file \in Contents /\ file # Missing /\ user_config[p] \in Tables
      BY <2>1 DEF TypeInv, StoreTypeOK, Holding
    <2>3. /\ Earned(user_config[p], offered, s)
          /\ file \in Tables => Earned(file, offered, s)
      BY <2>2 DEF EarnedInv
    <2>4. \A q \in Commands : /\ pc'[q] \in Busy => pc[q] \in Busy
                              /\ pc[q] = "torn" => pc'[q] = "torn"
      BY <1>a, <2>1 DEF Busy
    <2>5. s \subseteq s2
      BY <2>4, <1>t
    <2>6. s2 = {} => file = Empty
      BY <1>a, <2>1 DEF TornOnes
    <2> HIDE DEF s, s2
    <2>7. ASSUME file' \in Tables
          PROVE  Earned(file', offered', s2)
      <3>1. \A u \in DOMAIN file'.users : \E v \in Names : <<v, file'.users[u].password>> \in offered
        <4>1. \A u \in DOMAIN file'.users :
                \/ \E v \in DOMAIN user_config[p].users :
                        file'.users[u].password = user_config[p].users[v].password
                \/ /\ file \in Tables
                   /\ \E v \in DOMAIN file.users : file'.users[u].password = file.users[v].password
          BY <2>1, <2>2, <2>7, LeftType
        <4> QED
          BY <2>3, <4>1 DEF Earned
      <3>2. CASE s2 = {}
        <4>1. file' \in Partial(user_config[p])
          BY <2>1, <2>2, <2>6, <3>2, LeftType
        <4>2. \A u \in DOMAIN file'.users :
                u \in DOMAIN user_config[p].users /\ file'.users[u] = user_config[p].users[u]
          BY <2>2, <2>7, <4>1, PartialType
        <4>3. Earned(file', offered, s)
          BY <2>3, <4>2, EarnedSelection
        <4> QED
          BY <2>1, <2>5, <4>3, EarnedGrows
      <3>3. CASE s2 # {}
        BY <2>1, <3>1, <3>3 DEF Earned
      <3> QED
        BY <3>2, <3>3
    <2> QED
      BY <2>1, <2>4, <2>7, <1>d
  <1> QED
    BY <1>1, <1>2, <1>3, <1>4, <1>5, <1>6, <1>7, <1>8, <1>9, <1>10, <1>11
    DEF StoreNext, Step, Changes

\* Whatever overlaps, is cut off or is read half-way, SimpleAuthenticator lets
\* nobody in with a password no command gave to anybody, or without a name, and
\* with one no command gave to that user only after a torn write.
THEOREM LoginsAreEarned == StoreSpec => []LoginEarned
  <1>1. StoreInit => EarnedInv
    <2> SUFFICES ASSUME StoreInit PROVE EarnedInv
      OBVIOUS
    <2>1. \A p \in Commands : pc[p] = "idle" /\ user_config[p] = Missing
      BY DEF StoreInit
    <2>2. file \in Tables => Earned(file, offered, TornOnes)
      <3> SUFFICES ASSUME file \in Tables, NEW u \in DOMAIN file.users
                   PROVE  u \in Names /\ <<u, file.users[u].password>> \in offered
        BY DEF Earned
      <3>1. u \in Names
        BY TableParts
      <3> QED
        BY <3>1, UserStoreAssumption DEF StoreInit
    <2>3. snapshot = Missing /\ Missing \notin Tables
      BY UserStoreAssumption DEF StoreInit
    <2> QED
      BY <2>1, <2>2, <2>3 DEF EarnedInv, Busy
  <1>2. TypeInv /\ EarnedInv /\ [StoreNext]_storeVars => EarnedInv'
    BY EarnedStep
  <1>3. TypeInv /\ EarnedInv => LoginEarned
    <2> SUFFICES ASSUME TypeInv, EarnedInv, NEW u \in Names, NEW pw \in Passwords,
                        authenticate(u, pw)
                 PROVE  /\ u # NoName
                        /\ \E v \in Names : <<v, pw>> \in offered
                        /\ (\A p \in Commands : pc[p] # "torn") => <<u, pw>> \in offered
      BY DEF LoginEarned
    <2>1. /\ snapshot \in Tables /\ u \in DOMAIN snapshot.users
          /\ snapshot.users[u].password = pw
      BY DEF authenticate, verify_password, TypeInv, StoreTypeOK
    <2>2. Earned(snapshot, offered, TornOnes) /\ validate(snapshot)
      BY <2>1 DEF EarnedInv
    <2>3. (\A p \in Commands : pc[p] # "torn") => TornOnes = {}
      BY DEF TornOnes
    <2> QED
      BY <2>1, <2>2, <2>3 DEF Earned, validate
  <1> QED
    BY <1>1, <1>2, <1>3, Typed, PTL DEF StoreSpec
=============================================================================
