------------------------------- MODULE Backends -------------------------------
(***************************************************************************)
(* One call of Authenticator::authenticate by a backend that asks an       *)
(* outside service (auth/ldap.rs, auth/sql.rs, auth/pam.rs).  Each message *)
(* to the service is a step and may fail, and the accounts it holds are    *)
(* changed by others between two steps.  The verdict is what Session and   *)
(* AdminServer take from their authenticator.                              *)
(*                                                                         *)
(* An account is an LDAP entry, a row of the query's table or a system     *)
(* user; more than one may carry the same name.  The simple backend asks   *)
(* nobody: see UserStore.                                                  *)
(***************************************************************************)
EXTENDS Naturals, FiniteSets

CONSTANTS
    Kinds,        \* configured backends, of "ldap", "database", "pam"
    Accounts,     \* DNs, or keys of rows
    Names,        \* user names
    Wildcard,     \* a name that as a filter would match every entry
    Passwords,
    NoPassword,   \* the empty password
    HashTypes,
    hash_type,    \* the type the database backend is configured with
    Gone,         \* no such account
    MaxChanges    \* bound: changes of the accounts

Account == [name : Names, password : Passwords, hashed_by : HashTypes]

ASSUME BackendsAssumption ==
    /\ Kinds \subseteq {"ldap", "database", "pam"}
    /\ IsFiniteSet(Accounts)
    /\ Wildcard \notin Names
    /\ NoPassword \notin Passwords
    /\ hash_type \in HashTypes
    /\ Gone \notin Account
    /\ MaxChanges \in Nat

VARIABLES
    kind,       \* the backend in use
    username, password,   \* what the client presents
    account,    \* the accounts of the service
    changes,
    step,       \* where authenticate is
    found,      \* the entries the search returned, or the row of the query
    verdict,    \* "none", "valid", "invalid", "error"
    held,       \* history: <<account, name, password>> the service has held
    trouble     \* history: a message failed

call == <<kind, username, password>>
service == <<account, changes, held>>
backendVars == <<call, service, step, found, verdict, trouble>>

Holdings(acc) == {<<a, acc[a].name, acc[a].password>> : a \in {x \in Accounts : acc[x] # Gone}}

BackendInit ==
    /\ kind \in Kinds
    /\ username \in Names \union {Wildcard}
    /\ password \in Passwords \union {NoPassword}
    /\ account \in [Accounts -> Account \union {Gone}]
    /\ changes = 0
    /\ step = "start"
    /\ found = {}
    /\ verdict = "none"
    /\ held = Holdings(account)
    /\ trouble = FALSE

\* An account is added, changed or removed.
ChangeAccount(a, e) ==
    /\ changes < MaxChanges /\ step # "done"
    /\ changes' = changes + 1
    /\ account' = [account EXCEPT ![a] = e]
    /\ held' = held \union Holdings(account')
    /\ UNCHANGED <<call, step, found, verdict, trouble>>

-----------------------------------------------------------------------------
Decide(v) == step' = "done" /\ verdict' = v

Proceed(to) == step' = to /\ UNCHANGED verdict

\* A message that fails: no connection, no answer, or an error for an answer.
Fails(at, v) ==
    /\ step = at
    /\ trouble' = TRUE
    /\ Decide(v)
    /\ UNCHANGED <<call, service, found>>

Hashes(e) == e.hashed_by = hash_type /\ e.password = password

-----------------------------------------------------------------------------
(* LDAP *)

RejectEmpty ==
    /\ kind = "ldap" /\ step = "start"
    /\ IF password = NoPassword THEN Decide("invalid") ELSE Proceed("connect")
    /\ UNCHANGED <<call, service, found, trouble>>

\* LdapConnAsync::new, then the bind of the searching identity.
SearchBind ==
    /\ step = "connect"
    /\ Proceed("search")
    /\ UNCHANGED <<call, service, found, trouble>>

\* Mutant: the name is put into the filter as it is.
Matching_Unescaped ==
    {a \in Accounts : account[a] # Gone /\ username \in {account[a].name, Wildcard}}

\* The filter matches the escaped name literally.
Matching == {a \in Accounts : account[a] # Gone /\ account[a].name = username}

\* Mutant: the first entry is taken when there are several.
Search_First ==
    /\ step = "search"
    /\ IF Matching # {}
       THEN \E a \in Matching : found' = {a} /\ Proceed("rebind")
       ELSE found' = {} /\ Decide("invalid")
    /\ UNCHANGED <<call, service, trouble>>

\* None or several entries are no user.
Search ==
    /\ step = "search"
    /\ found' = Matching
    /\ IF Cardinality(Matching) = 1 THEN Proceed("rebind") ELSE Decide("invalid")
    /\ UNCHANGED <<call, service, trouble>>

\* A directory takes a bind without password for an anonymous one.
BindSucceeds(a) ==
    password = NoPassword \/ (account[a] # Gone /\ account[a].password = password)

Rebind ==
    /\ step = "rebind"
    /\ \E a \in found : Decide(IF BindSucceeds(a) THEN "valid" ELSE "invalid")
    /\ UNCHANGED <<call, service, found, trouble>>

\* Mutant: a connection that breaks is not told from a bind that succeeds.
LdapFails_Ok ==
    /\ kind = "ldap"
    /\ Fails("connect", "error") \/ Fails("search", "error") \/ Fails("rebind", "valid")

LdapFails ==
    /\ kind = "ldap"
    /\ Fails("connect", "error") \/ Fails("search", "error") \/ Fails("rebind", "invalid")

-----------------------------------------------------------------------------
(* SQL *)

\* query_scalar and fetch_optional: one of the rows, if any.
Query ==
    /\ kind = "database" /\ step = "start"
    /\ IF Matching = {}
       THEN found' = {} /\ Decide("invalid")
       ELSE \E a \in Matching :
                /\ found' = {a}
                /\ Decide(IF Hashes(account[a]) THEN "valid" ELSE "invalid")
    /\ UNCHANGED <<call, service, trouble>>

\* "Don't return error to client"
QueryFails == kind = "database" /\ Fails("start", "invalid")

-----------------------------------------------------------------------------
(* PAM *)

\* with_password opens the service on a blocking thread.
PamStart ==
    /\ kind = "pam" /\ step = "start"
    /\ Proceed("pam")
    /\ UNCHANGED <<call, service, found, trouble>>

PamAuthenticate ==
    /\ step = "pam"
    /\ Decide(IF \E a \in Matching : account[a].password = password THEN "valid" ELSE "invalid")
    /\ UNCHANGED <<call, service, found, trouble>>

\* The service cannot be opened or the thread panics; any other trouble of the
\* service counts as wrong credentials.
PamFails ==
    /\ kind = "pam"
    /\ Fails("start", "error") \/ Fails("pam", "error") \/ Fails("pam", "invalid")

-----------------------------------------------------------------------------
BackendNext ==
    \/ \E a \in Accounts, e \in Account \union {Gone} : ChangeAccount(a, e)
    \/ RejectEmpty
    \/ SearchBind
    \/ Search
    \/ Rebind
    \/ LdapFails
    \/ Query
    \/ QueryFails
    \/ PamStart
    \/ PamAuthenticate
    \/ PamFails

BackendSpec == BackendInit /\ [][BackendNext]_backendVars

-----------------------------------------------------------------------------
(* Properties *)

\* Types; the call has returned exactly when there is a verdict, and there is
\* an entry whenever the first one is taken (the code indexes with 0).
BackendTypeOK ==
    /\ kind \in Kinds
    /\ username \in Names \union {Wildcard}
    /\ password \in Passwords \union {NoPassword}
    /\ account \in [Accounts -> Account \union {Gone}]
    /\ changes \in 0 .. MaxChanges
    /\ step \in {"start", "connect", "search", "rebind", "pam", "done"}
    /\ found \subseteq Accounts
    /\ verdict \in {"none", "valid", "invalid", "error"}
    /\ held \subseteq Accounts \X Names \X Passwords
    /\ trouble \in BOOLEAN
    /\ step = "done" <=> verdict # "none"
    /\ step = "rebind" => found # {}

\* Nobody is let in without an account: the service held one under exactly the
\* name presented, and that same account has had the password presented,
\* although accounts change between the search and the bind.  An empty password
\* or a name that is a pattern opens nothing.
GrantEarned ==
    verdict = "valid" =>
        \E a \in Accounts, p \in Passwords, n \in Names :
            <<a, username, p>> \in held /\ <<a, n, password>> \in held

\* Whatever message fails, at whatever point, nobody is let in; and a directory
\* that is out of reach is reported as an error: the client's credentials are
\* called wrong only if the bind with them failed, never a connection or a search.
TroubleRefuses ==
    trouble => /\ verdict \in {"invalid", "error"}
               /\ verdict = "invalid" /\ kind = "ldap" => found # {}

\* With a directory that tells two accounts of one name, the LDAP backend lets
\* nobody in under that name, whichever of the two passwords is presented.
AmbiguousRefused ==
    [][(kind = "ldap" /\ verdict = "none" /\ verdict' = "valid")
        => \A a, b \in Accounts :
            (/\ changes = 0 /\ account[a] # Gone /\ account[b] # Gone
             /\ account[a].name = username /\ account[b].name = username) => a = b]_backendVars
=============================================================================
