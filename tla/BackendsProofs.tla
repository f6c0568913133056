---------------------------- MODULE BackendsProofs ----------------------------
(***************************************************************************)
(* The verdict of a backend, for any accounts, names and passwords and any *)
(* number of changes during a call.  Between the search and the bind all   *)
(* that is known of the entry found is that it has carried the name: that  *)
(* is the strengthening.                                                   *)
(***************************************************************************)
EXTENDS Backends, FiniteSetTheorems, TLAPS

HeldInv ==
    /\ Holdings(account) \subseteq held
    /\ step \in {"connect", "search", "rebind"} => kind = "ldap" /\ password # NoPassword
    /\ step = "pam" => kind = "pam"
    /\ step # "done" => ~trouble
    /\ step = "rebind" => \A a \in found : \E p \in Passwords : <<a, username, p>> \in held

BackendInv == BackendTypeOK /\ HeldInv /\ GrantEarned /\ TroubleRefuses

LEMMA HoldingsType ==
    ASSUME NEW acc \in [Accounts -> Account \union {Gone}]
    PROVE  /\ Holdings(acc) \subseteq Accounts \X Names \X Passwords
           /\ \A a \in Accounts : acc[a] # Gone =>
                /\ acc[a] \in Account
                /\ <<a, acc[a].name, acc[a].password>> \in Holdings(acc)
  <1>1. \A a \in Accounts : acc[a] # Gone => acc[a] \in Account
    OBVIOUS
  <1>2. \A e \in Account : e.name \in Names /\ e.password \in Passwords
    BY DEF Account
  <1> QED
    BY <1>1, <1>2 DEF Holdings

\* An account under the name presented, with the password presented.
LEMMA OneAccount ==
    ASSUME BackendInv, NEW a \in Matching, account[a].password = password
    PROVE  \E b \in Accounts, p \in Passwords, n \in Names :
                <<b, username, p>> \in held /\ <<b, n, password>> \in held
  <1>1. /\ a \in Accounts /\ account[a] # Gone /\ account[a].name = username
        /\ account \in [Accounts -> Account \union {Gone}]
    BY DEF Matching, BackendInv, BackendTypeOK
  <1>2. account[a] \in Account /\ <<a, account[a].name, account[a].password>> \in held
    BY <1>1, HoldingsType DEF BackendInv, HeldInv
  <1>3. account[a].name \in Names /\ account[a].password \in Passwords
    BY <1>2 DEF Account
  <1> QED
    BY <1>1, <1>2, <1>3

LEMMA BackendStep ==
    ASSUME BackendInv, [BackendNext]_backendVars
    PROVE  BackendInv'
  <1>a. BackendTypeOK /\ HeldInv /\ GrantEarned /\ TroubleRefuses
    BY DEF BackendInv
  <1>b. /\ account \in [Accounts -> Account \union {Gone}] /\ Gone \notin Account
        /\ NoPassword \notin Passwords
    BY <1>a, BackendsAssumption DEF BackendTypeOK
  <1>m. /\ Matching \subseteq Accounts
        /\ \A a \in Matching : \E p \in Passwords : <<a, username, p>> \in held
    <2> SUFFICES ASSUME NEW a \in Matching
                 PROVE  a \in Accounts /\ \E p \in Passwords : <<a, username, p>> \in held
      OBVIOUS
    <2>1. a \in Accounts /\ account[a] # Gone /\ account[a].name = username
      BY DEF Matching
    <2>2. account[a] \in Account /\ <<a, account[a].name, account[a].password>> \in held
      BY <1>a, <1>b, <2>1, HoldingsType DEF HeldInv
    <2>3. account[a].password \in Passwords
      BY <2>2 DEF Account
    <2> QED
      BY <2>1, <2>2, <2>3
  \* A verdict other than "valid" in the absence of trouble.
  <1>c. ASSUME verdict' \in {"invalid", "error"}, step' = "done", found' \subseteq Accounts,
               UNCHANGED <<call, service, trouble>>, step # "done"
        PROVE  BackendInv'
    BY <1>a, <1>c DEF BackendInv, BackendTypeOK, HeldInv, GrantEarned, TroubleRefuses, call, service
  <1>d. ASSUME verdict' = "valid", step' = "done", found' \subseteq Accounts,
               UNCHANGED <<call, service, trouble>>, step # "done",
               \E b \in Accounts, p \in Passwords, n \in Names :
                    <<b, username, p>> \in held /\ <<b, n, password>> \in held
        PROVE  BackendInv'
    BY <1>a, <1>d DEF BackendInv, BackendTypeOK, HeldInv, GrantEarned, TroubleRefuses, call, service
  \* A message that fails.
  <1>e. ASSUME NEW at, NEW v \in {"invalid", "error"}, Fails(at, v), at # "done",
               v = "invalid" => kind # "ldap" \/ found # {}
        PROVE  BackendInv'
    <2>1. /\ step' = "done" /\ verdict' = v /\ trouble' = TRUE /\ step = at
          /\ UNCHANGED <<kind, username, password, account, changes, held, found>>
      BY <1>e DEF Fails, Decide, call, service
    <2> QED
      BY <1>a, <1>e, <2>1 DEF BackendInv, BackendTypeOK, HeldInv, GrantEarned, TroubleRefuses
  <1>1. ASSUME NEW a \in Accounts, NEW e \in Account \union {Gone}, ChangeAccount(a, e)
        PROVE  BackendInv'
    <2>1. /\ changes < MaxChanges /\ changes' = changes + 1 /\ step # "done"
          /\ account' = [account EXCEPT ![a] = e]
          /\ held' = held \union Holdings(account')
          /\ UNCHANGED <<kind, username, password, step, found, verdict, trouble>>
      BY <1>1 DEF ChangeAccount, call
    <2>2. account' \in [Accounts -> Account \union {Gone}]
      BY <1>b, <2>1
    <2>3. Holdings(account') \subseteq Accounts \X Names \X Passwords
      BY <2>2, HoldingsType
    <2>4. changes' \in 0 .. MaxChanges
      BY <1>a, <2>1, BackendsAssumption DEF BackendTypeOK
    <2>5. BackendTypeOK'
      BY <1>a, <2>1, <2>2, <2>3, <2>4 DEF BackendTypeOK
    <2>6. HeldInv'
      BY <1>a, <2>1 DEF HeldInv, Holdings
    <2> QED
      BY <1>a, <2>1, <2>5, <2>6 DEF BackendInv, GrantEarned, TroubleRefuses, BackendTypeOK
  <1>2. CASE RejectEmpty
    <2>1. CASE password = NoPassword
      BY <1>2, <2>1, <1>a, <1>c DEF RejectEmpty, Decide, BackendTypeOK
    <2>2. CASE password # NoPassword
      <3>1. /\ kind = "ldap" /\ step = "start" /\ step' = "connect"
            /\ UNCHANGED <<kind, username, password, account, changes, held, found, verdict,
                           trouble>>
        BY <1>2, <2>2 DEF RejectEmpty, Proceed, call, service
      <3> QED
        BY <1>a, <2>2, <3>1 DEF BackendInv, BackendTypeOK, HeldInv, GrantEarned, TroubleRefuses
    <2> QED
      BY <2>1, <2>2
  <1>3. CASE SearchBind
    <2>1. /\ step = "connect" /\ step' = "search"
          /\ UNCHANGED <<kind, username, password, account, changes, held, found, verdict, trouble>>
      BY <1>3 DEF SearchBind, Proceed, call, service
    <2> QED
      BY <1>a, <2>1 DEF BackendInv, BackendTypeOK, HeldInv, GrantEarned, TroubleRefuses
  <1>4. CASE Search
    <2>1. step = "search" /\ found' = Matching /\ UNCHANGED <<call, service, trouble>>
      BY <1>4 DEF Search
    <2>2. CASE Cardinality(Matching) = 1
      <3>1. /\ step' = "rebind" /\ verdict' = verdict
            /\ UNCHANGED <<kind, username, password, account, changes, held, trouble>>
        BY <1>4, <2>2 DEF Search, Proceed, call, service
      <3>2. Matching # {}
        <4>1. ASSUME Matching = {} PROVE FALSE
          <5>1. Cardinality(Matching) = 0
            BY <4>1, FS_EmptySet, Zenon
          <5> QED
            BY <2>2, <5>1
        <4> QED
          BY <4>1
      <3>3. BackendTypeOK'
        BY <1>a, <1>m, <2>1, <3>1, <3>2 DEF BackendTypeOK
      <3>4. HeldInv'
        BY <1>a, <1>m, <2>1, <3>1 DEF HeldInv, Holdings
      <3>5. GrantEarned' /\ TroubleRefuses'
        BY <1>a, <2>1, <3>1 DEF BackendTypeOK, HeldInv, GrantEarned, TroubleRefuses
      <3> QED
        BY <3>3, <3>4, <3>5 DEF BackendInv
    <2>3. CASE Cardinality(Matching) # 1
      <3>1. step' = "done" /\ verdict' = "invalid"
        BY <1>4, <2>3 DEF Search, Decide
      <3> QED
        BY <1>m, <2>1, <3>1, <1>c
    <2> QED
      BY <2>2, <2>3
  <1>5. CASE Rebind
    <2>1. PICK a \in found : Decide(IF BindSucceeds(a) THEN "valid" ELSE "invalid")
      BY <1>5 DEF Rebind
    <2>2. /\ step = "rebind" /\ UNCHANGED <<call, service, found, trouble>>
          /\ found' \subseteq Accounts /\ a \in Accounts /\ password # NoPassword
      BY <1>5, <1>a, <2>1 DEF Rebind, BackendTypeOK, HeldInv
    <2>3. CASE BindSucceeds(a)
      <3>1. account[a] # Gone /\ account[a].password = password
        BY <2>2, <2>3 DEF BindSucceeds
      <3>2. account[a] \in Account /\ <<a, account[a].name, account[a].password>> \in held
        BY <1>a, <1>b, <2>2, <3>1, HoldingsType DEF HeldInv
      <3>3. account[a].name \in Names
        BY <3>2 DEF Account
      <3>4. \E p \in Passwords : <<a, username, p>> \in held
        BY <1>a, <2>1, <2>2 DEF HeldInv
      <3>5. \E b \in Accounts, p \in Passwords, n \in Names :
                <<b, username, p>> \in held /\ <<b, n, password>> \in held
        BY <2>2, <3>1, <3>2, <3>3, <3>4
      <3> QED
        BY <2>1, <2>2, <2>3, <3>5, <1>d DEF Decide
    <2>4. CASE ~BindSucceeds(a)
      BY <2>1, <2>2, <2>4, <1>c DEF Decide
    <2> QED
      BY <2>3, <2>4
  <1>6. CASE LdapFails
    <2>1. \/ Fails("connect", "error") \/ Fails("search", "error")
          \/ Fails("rebind", "invalid")
      BY <1>6 DEF LdapFails
    <2>2. Fails("rebind", "invalid") => found # {}
      BY <1>a DEF Fails, BackendTypeOK
    <2> QED
      BY <2>1, <2>2, <1>e
  <1>7. CASE Query
    <2>1. /\ step = "start" /\ step' = "done" /\ found' \subseteq Accounts
          /\ UNCHANGED <<call, service, trouble>>
      BY <1>7, <1>m DEF Query, Decide
    <2>2. \/ verdict' = "invalid"
          \/ verdict' = "valid" /\ \E a \in Matching : account[a].password = password
      BY <1>7 DEF Query, Decide, Hashes
    <2> QED
      BY <2>1, <2>2, <1>c, <1>d, OneAccount
  <1>8. CASE QueryFails
    BY <1>8, <1>e DEF QueryFails
  <1>9. CASE PamStart
    <2>1. /\ kind = "pam" /\ step = "start" /\ step' = "pam"
          /\ UNCHANGED <<kind, username, password, account, changes, held, found, verdict, trouble>>
      BY <1>9 DEF PamStart, Proceed, call, service
    <2> QED
      BY <1>a, <2>1 DEF BackendInv, BackendTypeOK, HeldInv, GrantEarned, TroubleRefuses
  <1>10. CASE PamAuthenticate
    <2>1. /\ step = "pam" /\ step' = "done" /\ found' \subseteq Accounts
          /\ UNCHANGED <<call, service, trouble>>
      BY <1>10, <1>a DEF PamAuthenticate, Decide, BackendTypeOK
    <2>2. \/ verdict' = "invalid"
          \/ verdict' = "valid" /\ \E a \in Matching : account[a].password = password
      BY <1>10 DEF PamAuthenticate, Decide
    <2> QED
      BY <2>1, <2>2, <1>c, <1>d, OneAccount
  <1>11. CASE PamFails
    BY <1>11, <1>e DEF PamFails
  <1>12. CASE UNCHANGED backendVars
    BY <1>12, <1>a DEF backendVars, call, service, BackendInv, BackendTypeOK, HeldInv,
                       GrantEarned, TroubleRefuses
  <1> QED
    BY <1>1, <1>2, <1>3, <1>4, <1>5, <1>6, <1>7, <1>8, <1>9, <1>10, <1>11, <1>12 DEF BackendNext

LEMMA BackendInvariant == BackendSpec => []BackendInv
  <1>1. BackendInit => BackendInv
    <2> SUFFICES ASSUME BackendInit PROVE BackendInv
      OBVIOUS
    <2>1. held \subseteq Accounts \X Names \X Passwords
      BY HoldingsType DEF BackendInit
    <2>2. changes \in 0 .. MaxChanges
      BY BackendsAssumption DEF BackendInit
    <2> QED
      BY <2>1, <2>2 DEF BackendInit, BackendInv, BackendTypeOK, HeldInv, GrantEarned, TroubleRefuses
  <1>2. BackendInv /\ [BackendNext]_backendVars => BackendInv'
    BY BackendStep
  <1> QED
    BY <1>1, <1>2, PTL DEF BackendSpec

\* A call returns exactly with a verdict, and never takes the first of no
\* entries (ldap.rs indexes the result of its search).
THEOREM BackendTypeCorrect == BackendSpec => []BackendTypeOK
  BY BackendInvariant, PTL DEF BackendInv

\* Whoever ldap.rs, sql.rs or pam.rs lets in has shown the password of an
\* account under the name presented, however accounts change meanwhile.
THEOREM GrantsAreEarned == BackendSpec => []GrantEarned
  BY BackendInvariant, PTL DEF BackendInv

\* A message of authenticate that fails lets nobody in.
THEOREM TroubleIsRefused == BackendSpec => []TroubleRefuses
  BY BackendInvariant, PTL DEF BackendInv

-----------------------------------------------------------------------------
\* While no account changes, the bind is of the only entry with the name.
OnlyInv ==
    (step = "rebind" /\ changes = 0) => found = Matching /\ Cardinality(Matching) = 1

LEMMA OnlyStep ==
    ASSUME BackendInv, OnlyInv, [BackendNext]_backendVars
    PROVE  OnlyInv'
  <1>1. ASSUME NEW a \in Accounts, NEW e \in Account \union {Gone}, ChangeAccount(a, e)
        PROVE  changes' # 0
    BY <1>1 DEF ChangeAccount, BackendInv, BackendTypeOK
  <1>2. CASE Search
    BY <1>2 DEF Search, OnlyInv, Matching, call, service, Decide
  <1>3. CASE UNCHANGED backendVars
    BY <1>3 DEF backendVars, call, service, OnlyInv, Matching
  <1>4. CASE RejectEmpty \/ SearchBind \/ Rebind \/ LdapFails \/ Query \/ QueryFails
             \/ PamStart \/ PamAuthenticate \/ PamFails
    <2>1. step' # "rebind"
      BY <1>4, Zenon DEF RejectEmpty, SearchBind, Rebind, LdapFails, Query, QueryFails, PamStart,
                  PamAuthenticate, PamFails, Fails, Decide, Proceed
    <2> QED
      BY <2>1 DEF OnlyInv
  <1> QED
    BY <1>1, <1>2, <1>3, <1>4 DEF BackendNext, OnlyInv

\* With two entries of one name LdapAuthenticator::authenticate lets nobody in
\* under that name.
THEOREM AmbiguousIsRefused == BackendSpec => AmbiguousRefused
  <1> DEFINE Granted == kind = "ldap" /\ verdict = "none" /\ verdict' = "valid"
             Unique == \A a, b \in Accounts :
                        (/\ changes = 0 /\ account[a] # Gone /\ account[b] # Gone
                         /\ account[a].name = username /\ account[b].name = username) => a = b
  <1>1. BackendInit => OnlyInv
    BY DEF BackendInit, OnlyInv
  <1>2. BackendInv /\ OnlyInv /\ [BackendNext]_backendVars => OnlyInv'
    BY OnlyStep
  <1>3. BackendInv /\ OnlyInv /\ [BackendNext]_backendVars => [Granted => Unique]_backendVars
    <2> SUFFICES ASSUME BackendInv, OnlyInv, BackendNext, Granted, changes = 0
                 PROVE  Unique
      BY DEF backendVars
    <2>1. step = "rebind"
      <3>1. step # "pam" /\ kind # "database" /\ kind # "pam"
        BY DEF BackendInv, HeldInv
      <3>2. ~(RejectEmpty \/ SearchBind \/ Search \/ LdapFails \/ Query \/ QueryFails
              \/ PamStart \/ PamAuthenticate \/ PamFails)
        BY <3>1 DEF RejectEmpty, SearchBind, Search, LdapFails, Query, QueryFails, PamStart,
                    PamAuthenticate, PamFails, Fails, Decide, Proceed
      <3>3. \A a \in Accounts, e \in Account \union {Gone} : ~ChangeAccount(a, e)
        BY DEF ChangeAccount
      <3>4. Rebind
        BY <3>2, <3>3 DEF BackendNext
      <3> QED
        BY <3>4 DEF Rebind
    <2>2. Cardinality(Matching) = 1 /\ IsFiniteSet(Matching)
      <3>1. Matching \subseteq Accounts
        BY DEF Matching
      <3> QED
        BY <2>1, <3>1, BackendsAssumption, FS_Subset DEF OnlyInv
    <2>3. PICK x : Matching = {x}
      BY <2>2, FS_Singleton
    <2> QED
      BY <2>3 DEF Matching
  <1> QED
    BY <1>1, <1>2, <1>3, BackendInvariant, PTL DEF BackendSpec, AmbiguousRefused
=============================================================================
