--------------------------- MODULE AdminServerProofs ---------------------------
(***************************************************************************)
(* The admin API is safe for any number of overlapping requests, edits,    *)
(* tokens and configurations, and implements the shared state ProxyServer  *)
(* assumes.                                                                *)
(*                                                                         *)
(* What a request has cloned or loaded may be out of date when it is used. *)
(* The invariant says what stays true of it nevertheless: its bindings are *)
(* those of the start, its authenticator belongs to its configuration, and *)
(* only the holder of the write guard is between the two assignments.      *)
(***************************************************************************)
EXTENDS Server, SequenceTheorems, TLAPS

\* The type invariant in the parts an action leaves alone or disturbs together.
StateOK ==
    /\ config \in Configs
    /\ authenticator \in Configs \union {NoAuth}
    /\ writer \in Requests \union {None}
    /\ installed \in Seq(Configs)
    /\ inForce \in Nat

WorldOK == file \in [edits : Nat, is : Configs \union {Invalid}] /\ clock \in Nat

TokensOK ==
    /\ store \in [DOMAIN store -> [user : Users, expires_at : Nat]]
    /\ DOMAIN store \subseteq DOMAIN issued
    /\ auth_failures \in Nat
    /\ DOMAIN issued \subseteq Tokens
    /\ issued \in [DOMAIN issued -> Nat]

Asked == [kind : {"none", "health", "login", "read", "reload"},
          user : Users \union {None},
          bearer : StaticTokens \union Tokens \union {None}]

WorkOK ==
    /\ req \in [Requests -> Asked]
    /\ seen \in [Requests -> Configs]
    /\ auth \in [Requests -> Configs \union {NoAuth}]
    /\ loaded \in [Requests -> [edits : Nat, is : Configs]]

Places == {"connected", "parsed", "checking", "authorised", "building", "built", "writing",
           "answering", "done"}

Codes == {0, 200, 400, 401, 403, 404, 500}

PlaceOK == pc \in [Requests -> Places] /\ status \in [Requests -> Codes]

LEMMA TypeParts == ATypeOK <=> StateOK /\ WorldOK /\ TokensOK /\ WorkOK /\ PlaceOK
  BY DEF ATypeOK, StateOK, WorldOK, TokensOK, WorkOK, PlaceOK, Asked, Places, Codes

\* A part whose variables do not change stays as it is.
LEMMA Frames ==
    /\ StateOK /\ UNCHANGED adminState => StateOK'
    /\ WorldOK /\ UNCHANGED world => WorldOK'
    /\ TokensOK /\ UNCHANGED tokenVars => TokensOK'
    /\ WorkOK /\ UNCHANGED work => WorkOK'
    /\ PlaceOK /\ UNCHANGED <<pc, status>> => PlaceOK'
  <1>1. StateOK /\ UNCHANGED adminState => StateOK'
    BY DEF StateOK, adminState
  <1>2. WorldOK /\ UNCHANGED world => WorldOK'
    BY DEF WorldOK, world
  <1>3. TokensOK /\ UNCHANGED tokenVars => TokensOK'
    BY DEF TokensOK, tokenVars
  <1>4. WorkOK /\ UNCHANGED work => WorkOK'
    BY DEF WorkOK, work, Asked
  <1>5. PlaceOK /\ UNCHANGED <<pc, status>> => PlaceOK'
    BY DEF PlaceOK
  <1> QED
    BY <1>1, <1>2, <1>3, <1>4, <1>5

\* A request that moves on, or is answered, is at one of the places.
LEMMA Moves ==
    ASSUME PlaceOK, NEW r \in Requests, NEW from, NEW to \in Places, NEW code \in Codes
    PROVE  /\ Goto(r, from, to) /\ UNCHANGED status => PlaceOK'
           /\ Respond(r, from, code) => PlaceOK'
  BY DEF PlaceOK, Goto, Respond, Places

\* Every action keeps the types.
LEMMA ATypeStep ==
    ASSUME ATypeOK, [ANext]_avars
    PROVE  ATypeOK'
  <1>a. StateOK /\ WorldOK /\ TokensOK /\ WorkOK /\ PlaceOK
    BY TypeParts
  <1>b. SUFFICES StateOK' /\ WorldOK' /\ TokensOK' /\ WorkOK' /\ PlaceOK'
    <2>1. ATypeOK' <=> StateOK' /\ WorldOK' /\ TokensOK' /\ WorkOK' /\ PlaceOK'
      BY TypeParts, PTL
    <2> QED
      BY <2>1
  <1> DEFINE Typed == StateOK' /\ WorldOK' /\ TokensOK' /\ WorkOK' /\ PlaceOK'
  <1> HIDE DEF ATypeOK
  <1>c. ASSUME NEW r \in Requests, UNCHANGED adminState, UNCHANGED world, UNCHANGED work,
               UNCHANGED tokenVars,
               \E from : \E code \in Codes : Respond(r, from, code)
        PROVE  Typed
    BY <1>a, <1>c, Frames, Moves DEF Places
  <1>1. CASE Tick
    <2>1. WorldOK'
      BY <1>a, <1>1 DEF WorldOK, Tick
    <2> QED
      BY <1>a, <1>1, <2>1, Frames DEF Tick
  <1>2. ASSUME NEW c \in Configs \union {Invalid}, EditFile(c)
        PROVE  Typed
    <2>1. WorldOK'
      BY <1>a, <1>2 DEF WorldOK, EditFile
    <2> QED
      BY <1>a, <1>2, <2>1, Frames DEF EditFile
  <1>3. ASSUME NEW r \in Requests, NEW q \in Presentable, read_request(r, q)
        PROVE  Typed
    <2>1. q \in Asked
      BY <1>a DEF Presentable, Bearers, Asked, TokensOK
    <2>2. WorkOK'
      BY <1>a, <1>3, <2>1 DEF WorkOK, read_request
    <2> QED
      BY <1>a, <1>3, <2>2, Frames, Moves DEF read_request, Places, Codes
  <1>4. ASSUME NEW r \in Requests, BadRequest(r) \/ Health(r) \/ ReadEndpoint(r)
        PROVE  Typed
    BY <1>c, <1>4 DEF BadRequest, Health, ReadEndpoint, Codes
  <1>5. ASSUME NEW r \in Requests, LoginMalformed(r) \/ LoginForbidden(r)
        PROVE  Typed
    BY <1>c, <1>5 DEF LoginMalformed, LoginForbidden, Codes
  <1>6. ASSUME NEW r \in Requests, LoginFailed(r)
        PROVE  Typed
    <2>1. TokensOK'
      BY <1>a, <1>6 DEF TokensOK, LoginFailed
    <2> QED
      BY <1>a, <1>6, <2>1, Frames, Moves DEF LoginFailed, Codes, Places
  <1>7. ASSUME NEW r \in Requests, LoginRead(r)
        PROVE  Typed
    <2>1. WorkOK'
      BY <1>a, <1>7 DEF WorkOK, StateOK, LoginRead
    <2> QED
      BY <1>a, <1>7, <2>1, Frames, Moves DEF LoginRead, Places, Codes
  <1>8. ASSUME NEW r \in Requests, NEW t \in Tokens, LoginGranted(r, t)
        PROVE  Typed
    <2>1. req[r].user \in Users /\ clock + token_ttl[InitialConfig] \in Nat
      BY <1>a, <1>8, AdminAssumption DEF LoginGranted, WorkOK, WorldOK
    <2>2. /\ DOMAIN store' = DOMAIN store \union {t}
          /\ store' \in [DOMAIN store' -> [user : Users, expires_at : Nat]]
      BY <1>a, <1>8, <2>1 DEF LoginGranted, TokensOK
    <2>3. /\ DOMAIN issued' = DOMAIN issued \union {t}
          /\ issued' \in [DOMAIN issued' -> Nat]
      BY <1>a, <1>8 DEF LoginGranted, TokensOK, WorldOK
    <2>4. TokensOK'
      BY <1>a, <1>8, <2>2, <2>3 DEF LoginGranted, TokensOK
    <2> QED
      BY <1>a, <1>8, <2>4, Frames, Moves DEF LoginGranted, Places, Codes
  <1>9. ASSUME NEW r \in Requests, Authenticate(r)
        PROVE  Typed
    <2>1. /\ DOMAIN store' \subseteq DOMAIN store
          /\ store' \in [DOMAIN store' -> [user : Users, expires_at : Nat]]
      BY <1>a, <1>9 DEF Authenticate, Unexpired, TokensOK
    <2>2. TokensOK'
      BY <1>a, <1>9, <2>1 DEF Authenticate, TokensOK
    <2>3. WorkOK'
      BY <1>a, <1>9 DEF Authenticate, WorkOK, StateOK
    <2> QED
      BY <1>a, <1>9, <2>2, <2>3, Frames, Moves DEF Authenticate, Places, Codes
  <1>10. ASSUME NEW r \in Requests, LoadFails(r) \/ CreateFails(r)
         PROVE  Typed
    BY <1>c, <1>10 DEF LoadFails, CreateFails, Codes
  <1>11. ASSUME NEW r \in Requests, LoadFile(r) \/ BindRefused(r)
         PROVE  Typed
    <2>1. file \in [edits : Nat, is : Configs]
      BY <1>a, <1>11 DEF LoadFile, BindRefused, WorldOK
    <2>2. WorkOK'
      BY <1>a, <1>11, <2>1 DEF LoadFile, BindRefused, WorkOK
    <2> QED
      BY <1>a, <1>11, <2>2, Frames, Moves DEF LoadFile, BindRefused, Places, Codes
  <1>12. ASSUME NEW r \in Requests, create_authenticator(r)
         PROVE  Typed
    <2>1. WorkOK'
      BY <1>a, <1>12 DEF create_authenticator, AuthenticatorOf, WorkOK
    <2> QED
      BY <1>a, <1>12, <2>1, Frames, Moves DEF create_authenticator, Places, Codes
  <1>13. ASSUME NEW r \in Requests, WriteConfig(r)
         PROVE  Typed
    <2>1. StateOK'
      BY <1>a, <1>13 DEF WriteConfig, StateOK, WorkOK
    <2> QED
      BY <1>a, <1>13, <2>1, Frames, Moves DEF WriteConfig, Places, Codes
  <1>14. ASSUME NEW r \in Requests, WriteAuthenticator(r)
         PROVE  Typed
    <2>1. StateOK'
      BY <1>a, <1>14 DEF WriteAuthenticator, StateOK, WorkOK
    <2> QED
      BY <1>a, <1>14, <2>1, Frames, Moves DEF WriteAuthenticator, Places, Codes
  <1>15. ASSUME NEW r \in Requests, Answer(r)
         PROVE  Typed
    <2>1. StateOK'
      BY <1>a, <1>15 DEF Answer, StateOK
    <2> QED
      BY <1>a, <1>15, <2>1, Frames, Moves DEF Answer, Places, Codes
  <1>16. CASE UNCHANGED avars
    BY <1>a, <1>16, Frames DEF avars
  <1> QED
    BY <1>1, <1>2, <1>3, <1>4, <1>5, <1>6, <1>7, <1>8, <1>9, <1>10, <1>11, <1>12, <1>13,
       <1>14, <1>15, <1>16
    DEF ANext, Login, ReloadRequest

\* Whatever requests, edits and reloads overlap, what is in force is a
\* configuration that loaded and validated, and the token store is well formed.
THEOREM ATypeCorrect == ASpec => []ATypeOK
  <1>1. AInit => ATypeOK
    <2> SUFFICES ASSUME AInit PROVE ATypeOK
      OBVIOUS
    <2>1. installed \in Seq(Configs)
      BY AdminAssumption DEF AInit
    <2> QED
      BY <2>1, AdminAssumption DEF AInit, ATypeOK, AuthenticatorOf, NoRequest
  <1>2. ATypeOK /\ [ANext]_avars => ATypeOK'
    BY ATypeStep
  <1> QED
    BY <1>1, <1>2, PTL DEF ASpec

-----------------------------------------------------------------------------
(* Bindings *)

Bound(c) == Binding[c] = Binding[InitialConfig]

\* However old a request's clone is, it has the bindings of the start; so has
\* every file that got past the comparison with it.
BindInv ==
    /\ Bound(config)
    /\ \A r \in Requests : Bound(seen[r]) /\ (InReload(r) => Bound(loaded[r].is))

LEMMA BindStep ==
    ASSUME ATypeOK, BindInv, [ANext]_avars
    PROVE  BindInv'
  <1>a. StateOK /\ WorkOK /\ PlaceOK
    BY TypeParts
  <1> USE DEF BindInv, InReload
  <1> HIDE DEF Bound
  <1>b. ASSUME UNCHANGED <<config, seen, loaded>>,
               \A x \in Requests : InReload(x)' => InReload(x)
        PROVE  BindInv'
    BY <1>b DEF Bound
  <1>1. CASE Tick \/ \E c \in Configs \union {Invalid} : EditFile(c)
    BY <1>1, <1>b DEF Tick, EditFile, adminState, work
  <1>2. ASSUME NEW r \in Requests,
               \/ \E q \in Presentable : read_request(r, q)
               \/ BadRequest(r) \/ Health(r) \/ ReadEndpoint(r)
               \/ LoginMalformed(r) \/ LoginForbidden(r) \/ LoginFailed(r)
               \/ \E t \in Tokens : LoginGranted(r, t)
        PROVE  BindInv'
    <2>1. UNCHANGED <<config, seen, loaded>>
      BY <1>2 DEF read_request, BadRequest, Health, ReadEndpoint, LoginMalformed,
                  LoginForbidden, LoginFailed, LoginGranted, adminState, work
    <2>2. \E from : \E to \in {"parsed", "done"} : Goto(r, from, to)
      BY <1>2 DEF read_request, BadRequest, Health, ReadEndpoint, LoginMalformed,
                  LoginForbidden, LoginFailed, LoginGranted, Respond
    <2> QED
      BY <1>a, <1>b, <2>1, <2>2 DEF Goto, PlaceOK
  <1>3. ASSUME NEW r \in Requests, LoginRead(r) \/ Authenticate(r)
        PROVE  BindInv'
    <2>1. /\ UNCHANGED <<config, loaded>>
          /\ seen' = [seen EXCEPT ![r] = config]
      BY <1>3 DEF LoginRead, Authenticate, adminState
    <2>2. \E to \in {"checking", "authorised", "done"} : pc' = [pc EXCEPT ![r] = to]
      BY <1>3 DEF LoginRead, Authenticate, Goto, Respond
    <2> QED
      BY <1>a, <2>1, <2>2 DEF PlaceOK, WorkOK, Bound
  <1>4. ASSUME NEW r \in Requests, LoadFile(r)
        PROVE  BindInv'
    <2>1. /\ UNCHANGED <<config, seen>> /\ Binding[file.is] = Binding[seen[r]]
          /\ loaded' = [loaded EXCEPT ![r] = file]
          /\ pc' = [pc EXCEPT ![r] = "building"]
      BY <1>4 DEF LoadFile, Goto, adminState
    <2> QED
      BY <1>a, <2>1 DEF PlaceOK, WorkOK, Bound
  <1>5. ASSUME NEW r \in Requests, LoadFails(r) \/ BindRefused(r) \/ CreateFails(r)
        PROVE  BindInv'
    <2>1. /\ UNCHANGED <<config, seen>>
          /\ loaded' = loaded \/ loaded' = [loaded EXCEPT ![r] = file]
          /\ pc' = [pc EXCEPT ![r] = "done"]
      BY <1>5 DEF LoadFails, BindRefused, CreateFails, Respond, Goto, adminState, work
    <2> QED
      BY <1>a, <2>1 DEF PlaceOK, WorkOK, Bound
  <1>6. ASSUME NEW r \in Requests,
               create_authenticator(r) \/ WriteAuthenticator(r) \/ Answer(r)
        PROVE  BindInv'
    <2>1. /\ UNCHANGED <<config, seen, loaded>> /\ InReload(r)
          /\ \E to : pc' = [pc EXCEPT ![r] = to]
      BY <1>6 DEF create_authenticator, WriteAuthenticator, Answer, Respond, Goto, adminState,
                  work
    <2> QED
      BY <1>a, <1>b, <2>1 DEF PlaceOK
  <1>7. ASSUME NEW r \in Requests, WriteConfig(r)
        PROVE  BindInv'
    <2>1. /\ UNCHANGED <<seen, loaded>> /\ InReload(r) /\ config' = loaded[r].is
          /\ pc' = [pc EXCEPT ![r] = "writing"]
      BY <1>7 DEF WriteConfig, Goto, work
    <2> QED
      BY <1>a, <2>1 DEF PlaceOK, Bound
  <1>8. CASE UNCHANGED avars
    BY <1>8, <1>b DEF avars, adminState, work
  <1> QED
    BY <1>1, <1>2, <1>3, <1>4, <1>5, <1>6, <1>7, <1>8 DEF ANext, Login, ReloadRequest

\* The listeners stay where they were bound: no overlap of reloads puts a
\* configuration with other ports or addresses in force.
THEOREM BindingsStay == ASpec => []BindingsFixed
  <1>1. AInit => BindInv
    BY DEF AInit, BindInv, Bound, InReload
  <1>2. ATypeOK /\ BindInv /\ [ANext]_avars => BindInv'
    BY BindStep
  <1>3. BindInv => BindingsFixed
    BY DEF BindInv, Bound, BindingsFixed
  <1> QED
    BY <1>1, <1>2, <1>3, ATypeCorrect, PTL DEF ASpec

-----------------------------------------------------------------------------
(* The write guard, and what is read under it *)

WasInstalled(c) == \E i \in DOMAIN installed : installed[i] = c

\* Only the holder of the guard is between taking and dropping it.
LockInv == \A r \in Requests : pc[r] \in {"writing", "answering"} <=> writer = r

\* What request r carries from one step to the next.
Carries(r) ==
    /\ pc[r] \in {"built", "writing", "answering"} => auth[r] = AuthenticatorOf(loaded[r].is)
    /\ pc[r] \in {"writing", "answering"} => config = loaded[r].is
    /\ pc[r] = "checking" => auth[r] = AuthenticatorOf(seen[r]) /\ WasInstalled(seen[r])

\* The two fields belong together except between the two assignments.
PairInv ==
    /\ WasInstalled(config)
    /\ (\A r \in Requests : pc[r] # "writing") => authenticator = AuthenticatorOf(config)
    /\ \A r \in Requests : Carries(r)

LEMMA PairStep ==
    ASSUME ATypeOK, LockInv, PairInv, [ANext]_avars
    PROVE  LockInv' /\ PairInv'
  <1>a. StateOK /\ WorkOK /\ PlaceOK /\ None \notin Requests
    BY TypeParts, AdminAssumption
  <1> DEFINE Goal == LockInv' /\ PairInv'
  \* Nothing but the place of one request changes, and it is not in a reload.
  <1>b. ASSUME UNCHANGED adminState, UNCHANGED <<seen, auth, loaded>>,
               \/ pc' = pc
               \/ \E r \in Requests : \E to \in {"parsed", "authorised", "done"} :
                    /\ pc[r] \notin {"writing", "answering"}
                    /\ pc' = [pc EXCEPT ![r] = to]
        PROVE  Goal
    BY <1>a, <1>b DEF LockInv, PairInv, Carries, WasInstalled, adminState, PlaceOK,
                      AuthenticatorOf
  <1>1. CASE Tick \/ \E c \in Configs \union {Invalid} : EditFile(c)
    BY <1>1, <1>b DEF Tick, EditFile, work
  <1>2. ASSUME NEW r \in Requests,
               \/ \E q \in Presentable : read_request(r, q)
               \/ BadRequest(r) \/ Health(r) \/ ReadEndpoint(r)
               \/ LoginMalformed(r) \/ LoginForbidden(r) \/ LoginFailed(r)
               \/ \E t \in Tokens : LoginGranted(r, t)
               \/ LoadFails(r) \/ CreateFails(r)
        PROVE  Goal
    <2>1. UNCHANGED adminState /\ UNCHANGED <<seen, auth, loaded>>
      BY <1>2 DEF read_request, BadRequest, Health, ReadEndpoint, LoginMalformed,
                  LoginForbidden, LoginFailed, LoginGranted, LoadFails, CreateFails, work
    <2>2. /\ pc[r] \notin {"writing", "answering"}
          /\ \E to \in {"parsed", "done"} : pc' = [pc EXCEPT ![r] = to]
      <3>1. CASE \/ \E q \in Presentable : read_request(r, q)
                 \/ BadRequest(r) \/ Health(r) \/ ReadEndpoint(r)
        BY <3>1 DEF read_request, BadRequest, Health, ReadEndpoint, Respond, Goto
      <3>2. CASE LoginMalformed(r) \/ LoginForbidden(r) \/ LoginFailed(r)
        BY <3>2 DEF LoginMalformed, LoginForbidden, LoginFailed, Respond, Goto
      <3>3. CASE \E t \in Tokens : LoginGranted(r, t)
        BY <3>3 DEF LoginGranted, Respond, Goto
      <3>4. CASE LoadFails(r) \/ CreateFails(r)
        BY <3>4 DEF LoadFails, CreateFails, Respond, Goto
      <3> QED
        BY <1>2, <3>1, <3>2, <3>3, <3>4
    <2> QED
      BY <1>b, <2>1, <2>2
  <1>3. ASSUME NEW r \in Requests, LoginRead(r)
        PROVE  Goal
    <2>1. /\ UNCHANGED adminState /\ UNCHANGED loaded /\ writer = None
          /\ seen' = [seen EXCEPT ![r] = config]
          /\ auth' = [auth EXCEPT ![r] = authenticator]
          /\ pc[r] = "parsed" /\ pc' = [pc EXCEPT ![r] = "checking"]
      BY <1>3 DEF LoginRead, Goto, Readable
    <2>2. authenticator = AuthenticatorOf(config)
      BY <1>a, <2>1 DEF LockInv, PairInv
    <2> QED
      BY <1>a, <2>1, <2>2 DEF LockInv, PairInv, Carries, WasInstalled, adminState, PlaceOK,
                              WorkOK, AuthenticatorOf
  <1>4. ASSUME NEW r \in Requests, Authenticate(r) \/ LoadFile(r) \/ BindRefused(r)
        PROVE  Goal
    <2>1. /\ UNCHANGED adminState /\ UNCHANGED auth
          /\ \A x \in Requests \ {r} : seen'[x] = seen[x] /\ loaded'[x] = loaded[x]
          /\ pc[r] \in {"parsed", "authorised"}
          /\ \E to \in {"authorised", "building", "done"} : pc' = [pc EXCEPT ![r] = to]
      BY <1>a, <1>4 DEF Authenticate, LoadFile, BindRefused, Respond, Goto, WorkOK
    <2> QED
      BY <1>a, <2>1 DEF LockInv, PairInv, Carries, WasInstalled, adminState, PlaceOK,
                        AuthenticatorOf
  <1>5. ASSUME NEW r \in Requests, create_authenticator(r)
        PROVE  Goal
    <2>1. /\ UNCHANGED adminState /\ UNCHANGED <<seen, loaded>>
          /\ auth' = [auth EXCEPT ![r] = AuthenticatorOf(loaded[r].is)]
          /\ pc[r] = "building" /\ pc' = [pc EXCEPT ![r] = "built"]
      BY <1>5 DEF create_authenticator, Goto
    <2> QED
      BY <1>a, <2>1 DEF LockInv, PairInv, Carries, WasInstalled, adminState, PlaceOK, WorkOK,
                        AuthenticatorOf
  <1>6. ASSUME NEW r \in Requests, WriteConfig(r)
        PROVE  Goal
    <2>1. /\ UNCHANGED <<seen, auth, loaded, authenticator>>
          /\ writer = None /\ writer' = r /\ config' = loaded[r].is
          /\ installed' = Append(installed, loaded[r].is) /\ loaded[r].is \in Configs
          /\ pc[r] = "built" /\ pc' = [pc EXCEPT ![r] = "writing"]
      BY <1>a, <1>6 DEF WriteConfig, Goto, work, WorkOK
    <2>2. LockInv'
      BY <1>a, <2>1 DEF LockInv, PlaceOK
    <2>3. WasInstalled(config)'
      <3>1. /\ Len(installed) + 1 \in DOMAIN installed'
            /\ installed'[Len(installed) + 1] = config'
        BY <1>a, <2>1 DEF StateOK
      <3> QED
        BY <3>1 DEF WasInstalled
    <2>4. \A x \in Requests : WasInstalled(seen[x]) => WasInstalled(seen[x])'
      <3> SUFFICES ASSUME NEW x \in Requests, WasInstalled(seen[x])
                   PROVE  WasInstalled(seen[x])'
        OBVIOUS
      <3>1. PICK i \in DOMAIN installed : installed[i] = seen[x]
        BY DEF WasInstalled
      <3>2. i \in DOMAIN installed' /\ installed'[i] = seen'[x]
        BY <1>a, <2>1, <3>1 DEF StateOK
      <3> QED
        BY <3>2 DEF WasInstalled
    <2>5. \A x \in Requests : x # r => pc[x] \notin {"writing", "answering"}
      BY <1>a, <2>1 DEF LockInv
    <2>6. ASSUME NEW x \in Requests PROVE Carries(x)'
      <3>1. Carries(x)
        BY DEF PairInv
      <3>2. CASE x = r
        BY <1>a, <2>1, <3>1, <3>2 DEF Carries, PlaceOK, AuthenticatorOf
      <3>3. CASE x # r
        BY <1>a, <2>1, <2>4, <2>5, <3>1, <3>3 DEF Carries, PlaceOK, AuthenticatorOf
      <3> QED
        BY <3>2, <3>3
    <2>7. pc'[r] = "writing"
      BY <1>a, <2>1 DEF PlaceOK
    <2> QED
      BY <2>2, <2>3, <2>6, <2>7 DEF PairInv
  <1>7. ASSUME NEW r \in Requests, WriteAuthenticator(r)
        PROVE  Goal
    <2>1. /\ UNCHANGED <<config, writer, installed, seen, auth, loaded>>
          /\ authenticator' = auth[r]
          /\ pc[r] = "writing" /\ pc' = [pc EXCEPT ![r] = "answering"]
      BY <1>7 DEF WriteAuthenticator, Goto, work
    <2>2. auth[r] = AuthenticatorOf(config)
      BY <2>1 DEF PairInv, Carries
    <2> QED
      BY <1>a, <2>1, <2>2 DEF LockInv, PairInv, Carries, WasInstalled, PlaceOK,
                              AuthenticatorOf
  <1>8. ASSUME NEW r \in Requests, Answer(r)
        PROVE  Goal
    <2>1. /\ UNCHANGED <<config, authenticator, installed, seen, auth, loaded>>
          /\ writer' = None
          /\ pc[r] = "answering" /\ pc' = [pc EXCEPT ![r] = "done"]
      BY <1>8 DEF Answer, Respond, Goto, work
    <2>2. writer = r
      BY <2>1 DEF LockInv
    <2> QED
      BY <1>a, <2>1, <2>2 DEF LockInv, PairInv, Carries, WasInstalled, PlaceOK,
                              AuthenticatorOf
  <1>9. CASE UNCHANGED avars
    BY <1>9, <1>b DEF avars, work
  <1> QED
    BY <1>1, <1>2, <1>3, <1>4, <1>5, <1>6, <1>7, <1>8, <1>9 DEF ANext, Login, ReloadRequest

LEMMA Pairs == ASpec => [](ATypeOK /\ LockInv /\ PairInv)
  <1>1. AInit => LockInv /\ PairInv
    <2> SUFFICES ASSUME AInit PROVE LockInv /\ PairInv
      OBVIOUS
    <2>1. 1 \in DOMAIN installed /\ installed[1] = config
      BY DEF AInit
    <2>2. WasInstalled(config)
      BY <2>1 DEF WasInstalled
    <2> QED
      BY <2>2, AdminAssumption DEF AInit, LockInv, PairInv, Carries
  <1>2. ATypeOK /\ LockInv /\ PairInv /\ [ANext]_avars => LockInv' /\ PairInv'
    BY PairStep
  <1> QED
    BY <1>1, <1>2, ATypeCorrect, PTL DEF ASpec

-----------------------------------------------------------------------------
(* The reload implements the shared state *)

LEMMA ReloadSimulates ==
    ASSUME ATypeOK, LockInv, PairInv, [ANext]_avars
    PROVE  [S!Reload]_(S!stateVars)
  <1>a. StateOK /\ WorkOK /\ PlaceOK /\ None \notin Requests
    BY TypeParts, AdminAssumption
  <1> DEFINE w == IF writer = None THEN "free"
                  ELSE IF pc[writer] = "writing" THEN "config" ELSE "both"
  <1>b. ASSUME UNCHANGED adminState,
               \/ pc' = pc
               \/ \E r \in Requests : \E to :
                    pc[r] \notin {"writing", "answering"} /\ pc' = [pc EXCEPT ![r] = to]
        PROVE  UNCHANGED S!stateVars
    <2>1. writer # None => pc'[writer] = pc[writer]
      BY <1>a, <1>b DEF LockInv, PlaceOK, StateOK
    <2>2. UNCHANGED <<config, authenticator, writer, installed>>
      BY <1>b DEF adminState
    <2> QED
      BY <2>1, <2>2 DEF S!stateVars
  <1>1. CASE Tick \/ \E c \in Configs \union {Invalid} : EditFile(c)
    BY <1>1, <1>b DEF Tick, EditFile
  <1>2. ASSUME NEW r \in Requests,
               \/ \E q \in Presentable : read_request(r, q)
               \/ BadRequest(r) \/ Health(r) \/ ReadEndpoint(r)
               \/ LoginMalformed(r) \/ LoginForbidden(r) \/ LoginFailed(r) \/ LoginRead(r)
               \/ \E t \in Tokens : LoginGranted(r, t)
        PROVE  UNCHANGED S!stateVars
    <2>1. UNCHANGED adminState
      BY <1>2 DEF read_request, BadRequest, Health, ReadEndpoint, LoginMalformed,
                  LoginForbidden, LoginFailed, LoginRead, LoginGranted
    <2>2. /\ pc[r] \in {"connected", "parsed", "checking", "authorised"}
          /\ \E to : pc' = [pc EXCEPT ![r] = to]
      <3>1. CASE \/ \E q \in Presentable : read_request(r, q)
                 \/ BadRequest(r) \/ Health(r) \/ ReadEndpoint(r)
        BY <3>1 DEF read_request, BadRequest, Health, ReadEndpoint, Respond, Goto
      <3>2. CASE LoginMalformed(r) \/ LoginForbidden(r) \/ LoginFailed(r)
        BY <3>2 DEF LoginMalformed, LoginForbidden, LoginFailed, Respond, Goto
      <3>3. CASE LoginRead(r) \/ \E t \in Tokens : LoginGranted(r, t)
        BY <3>3 DEF LoginRead, LoginGranted, Respond, Goto
      <3> QED
        BY <1>2, <3>1, <3>2, <3>3
    <2> QED
      BY <1>b, <2>1, <2>2
  <1>3. ASSUME NEW r \in Requests,
               \/ Authenticate(r) \/ LoadFile(r) \/ LoadFails(r) \/ BindRefused(r)
               \/ create_authenticator(r) \/ CreateFails(r)
        PROVE  UNCHANGED S!stateVars
    <2>1. UNCHANGED adminState
      BY <1>3 DEF Authenticate, LoadFile, LoadFails, BindRefused, create_authenticator,
                  CreateFails
    <2>2. /\ pc[r] \in {"parsed", "authorised", "building"}
          /\ \E to : pc' = [pc EXCEPT ![r] = to]
      BY <1>3 DEF Authenticate, LoadFile, LoadFails, BindRefused, create_authenticator,
                  CreateFails, Respond, Goto
    <2> QED
      BY <1>b, <2>1, <2>2
  <1>4. ASSUME NEW r \in Requests, WriteConfig(r)
        PROVE  S!Reload
    <2>1. /\ writer = None /\ writer' = r /\ pc'[r] = "writing"
          /\ config' = loaded[r].is /\ loaded[r].is \in Configs
          /\ installed' = Append(installed, loaded[r].is)
          /\ authenticator' = authenticator
      BY <1>a, <1>4 DEF WriteConfig, Goto, WorkOK, PlaceOK
    <2>2. w = "free" /\ w' = "config"
      BY <1>a, <2>1
    <2> QED
      BY <2>1, <2>2 DEF S!Reload, S!InstallConfig
  <1>5. ASSUME NEW r \in Requests, WriteAuthenticator(r)
        PROVE  S!Reload
    <2>1. /\ writer' = writer /\ pc[r] = "writing" /\ pc'[r] = "answering"
          /\ authenticator' = auth[r]
          /\ UNCHANGED <<config, installed>>
      BY <1>a, <1>5 DEF WriteAuthenticator, Goto, PlaceOK
    <2>2. writer = r /\ auth[r] = AuthenticatorOf(config)
      BY <2>1 DEF LockInv, PairInv, Carries
    <2>3. w = "config" /\ w' = "both"
      BY <1>a, <2>1, <2>2
    <2>4. AuthenticatorOf(config) = S!AuthenticatorOf(config)
      BY DEF AuthenticatorOf, S!AuthenticatorOf
    <2> QED
      BY <2>1, <2>2, <2>3, <2>4 DEF S!Reload, S!InstallAuthenticator
  <1>6. ASSUME NEW r \in Requests, Answer(r)
        PROVE  S!Reload
    <2>1. /\ writer' = None /\ pc[r] = "answering"
          /\ UNCHANGED <<config, authenticator, installed>>
      BY <1>6 DEF Answer, Respond, Goto
    <2>2. writer = r
      BY <2>1 DEF LockInv
    <2>3. w = "both" /\ w' = "free"
      BY <1>a, <2>1, <2>2
    <2> QED
      BY <2>1, <2>3 DEF S!Reload, S!ReleaseWrite
  <1>7. CASE UNCHANGED avars
    BY <1>7, <1>b DEF avars
  <1> QED
    BY <1>1, <1>2, <1>3, <1>4, <1>5, <1>6, <1>7, <1>b DEF ANext, Login, ReloadRequest

\* Overlapping reloads exchange the configuration and its authenticator as one:
\* the admin API implements the shared state the accept loops rely on.
THEOREM ImplementsState == ASpec => StateImplemented
  <1>1. AInit => S!StateInit
    BY AdminAssumption DEF AInit, S!StateInit, S!AuthenticatorOf, AuthenticatorOf
  <1>2. ATypeOK /\ LockInv /\ PairInv /\ [ANext]_avars => [S!Reload]_(S!stateVars)
    BY ReloadSimulates
  <1> QED
    BY <1>1, <1>2, Pairs, PTL DEF ASpec, StateImplemented, S!StateSpec

-----------------------------------------------------------------------------
(* Tokens *)

\* A token lives as long as the store was told at start-up.
LifeInv == \A t \in DOMAIN store : store[t].expires_at = issued[t] + token_ttl[InitialConfig]

\* The configuration of the start heads the history.
StartInv == 1 \in DOMAIN installed /\ installed[1] = InitialConfig

TokenInv == LifeInv /\ StartInv /\ TokensEarned /\ AuthorisedShowedToken

\* The places past the check of the bearer token.
Admitted == {"authorised", "building", "built", "writing", "answering"}

\* A step that changes neither tokens nor requests, takes nobody past the check
\* and only adds to the history keeps the facts about tokens.
LEMMA TokenFrame ==
    ASSUME TokenInv, StateOK,
           UNCHANGED <<store, issued>>,
           installed' = installed \/ \E d \in Configs : installed' = Append(installed, d),
           \A r \in Requests : pc'[r] \in Admitted =>
                pc[r] \in Admitted /\ req'[r].bearer = req[r].bearer
    PROVE  TokenInv'
  <1>1. \A i \in DOMAIN installed : i \in DOMAIN installed' /\ installed'[i] = installed[i]
    BY DEF StateOK
  <1>2. LifeInv' /\ StartInv'
    BY <1>1 DEF TokenInv, LifeInv, StartInv
  <1>3. TokensEarned'
    BY <1>1 DEF TokenInv, TokensEarned
  <1>4. AuthorisedShowedToken'
    BY <1>1 DEF TokenInv, AuthorisedShowedToken, Admitted
  <1> QED
    BY <1>2, <1>3, <1>4 DEF TokenInv

LEMMA TokenStep ==
    ASSUME ATypeOK, PairInv, TokenInv, [ANext]_avars
    PROVE  TokenInv'
  <1>a. StateOK /\ WorldOK /\ TokensOK /\ WorkOK /\ PlaceOK
    BY TypeParts
  <1>b. ASSUME UNCHANGED <<store, issued, req>>, UNCHANGED adminState,
               \/ pc' = pc
               \/ \E r \in Requests : \E to :
                    /\ pc' = [pc EXCEPT ![r] = to]
                    /\ pc[r] \in Admitted \/ to \notin Admitted
        PROVE  TokenInv'
    <2>1. \A r \in Requests : pc'[r] \in Admitted =>
                pc[r] \in Admitted /\ req'[r].bearer = req[r].bearer
      BY <1>a, <1>b DEF PlaceOK
    <2> QED
      BY <1>a, <1>b, <2>1, TokenFrame DEF adminState
  <1>1. CASE Tick \/ \E c \in Configs \union {Invalid} : EditFile(c)
    BY <1>1, <1>b DEF Tick, EditFile, tokenVars, work
  <1>2. ASSUME NEW r \in Requests, NEW q \in Presentable, read_request(r, q)
        PROVE  TokenInv'
    <2>1. \A x \in Requests : pc'[x] \in Admitted => pc[x] \in Admitted /\ req'[x] = req[x]
      BY <1>a, <1>2 DEF read_request, Goto, PlaceOK, WorkOK, Admitted
    <2> QED
      BY <1>a, <1>2, <2>1, TokenFrame DEF read_request, adminState, tokenVars
  <1>3. ASSUME NEW r \in Requests,
               \/ BadRequest(r) \/ Health(r) \/ ReadEndpoint(r)
               \/ LoginMalformed(r) \/ LoginForbidden(r) \/ LoginFailed(r) \/ LoginRead(r)
        PROVE  TokenInv'
    <2>1. UNCHANGED <<store, issued, req>> /\ UNCHANGED adminState
      BY <1>3 DEF BadRequest, Health, ReadEndpoint, LoginMalformed, LoginForbidden,
                  LoginFailed, LoginRead, tokenVars, work
    <2>2. \E to \in {"checking", "done"} : pc' = [pc EXCEPT ![r] = to]
      BY <1>3 DEF BadRequest, Health, ReadEndpoint, LoginMalformed, LoginForbidden,
                  LoginFailed, LoginRead, Respond, Goto
    <2> QED
      BY <1>b, <2>1, <2>2 DEF Admitted
  <1>4. ASSUME NEW r \in Requests, NEW t \in Tokens, LoginGranted(r, t)
        PROVE  TokenInv'
    <2>1. /\ auth[r] # NoAuth /\ req[r].user \in Knows[auth[r]]
          /\ req[r].user \in admin_users[seen[r]]
          /\ t \notin DOMAIN issued
          /\ store' = [k \in DOMAIN store \union {t} |->
                        IF k = t THEN [user |-> req[r].user,
                                       expires_at |-> clock + token_ttl[InitialConfig]]
                                 ELSE store[k]]
          /\ issued' = [k \in DOMAIN issued \union {t} |-> IF k = t THEN clock ELSE issued[k]]
          /\ pc[r] = "checking" /\ pc' = [pc EXCEPT ![r] = "done"]
          /\ UNCHANGED <<installed, req>>
      BY <1>4 DEF LoginGranted, Accepts, Respond, Goto, adminState, work
    <2>2. LifeInv' /\ StartInv'
      BY <1>a, <2>1 DEF TokenInv, LifeInv, StartInv, TokensOK
    <2>3. /\ seen[r] \in Authenticating
          /\ req[r].user \in Knows[seen[r]] \intersect admin_users[seen[r]]
          /\ WasInstalled(seen[r])
      BY <2>1 DEF PairInv, Carries, AuthenticatorOf
    <2>4. PICK i \in DOMAIN installed :
              /\ installed[i] \in Authenticating
              /\ req[r].user \in Knows[installed[i]] \intersect admin_users[installed[i]]
      BY <2>3 DEF WasInstalled
    <2>5. TokensEarned'
      <3> SUFFICES ASSUME NEW k \in DOMAIN store'
                   PROVE  \E j \in DOMAIN installed :
                            /\ installed[j] \in Authenticating
                            /\ store'[k].user \in Knows[installed[j]]
                                                  \intersect admin_users[installed[j]]
        BY <2>1 DEF TokensEarned
      <3>1. CASE k = t
        BY <2>1, <2>4, <3>1
      <3>2. CASE k # t
        <4>1. k \in DOMAIN store /\ store'[k] = store[k]
          BY <2>1, <3>2
        <4> QED
          BY <4>1 DEF TokenInv, TokensEarned
      <3> QED
        BY <3>1, <3>2
    <2>6. AuthorisedShowedToken'
      BY <1>a, <2>1 DEF TokenInv, AuthorisedShowedToken, PlaceOK
    <2> QED
      BY <2>2, <2>5, <2>6 DEF TokenInv
  <1>5. ASSUME NEW r \in Requests, Authenticate(r)
        PROVE  TokenInv'
    <2>1. /\ UNCHANGED <<issued, req, installed>>
          /\ DOMAIN store' \subseteq DOMAIN store
          /\ \A k \in DOMAIN store' : store'[k] = store[k]
      BY <1>a, <1>5 DEF Authenticate, Unexpired, adminState
    <2>2. LifeInv' /\ StartInv' /\ TokensEarned'
      BY <2>1 DEF TokenInv, LifeInv, StartInv, TokensEarned
    <2>3. pc'[r] \in Admitted =>
              \/ req[r].bearer \in DOMAIN issued
              \/ \E i \in DOMAIN installed : admin_token[installed[i]] # None
                                          /\ req[r].bearer = admin_token[installed[i]]
      <3>1. SUFFICES ASSUME pc'[r] \in Admitted
                     PROVE  \/ req[r].bearer \in DOMAIN issued
                            \/ \E i \in DOMAIN installed :
                                  /\ admin_token[installed[i]] # None
                                  /\ req[r].bearer = admin_token[installed[i]]
        OBVIOUS
      <3>2. authenticate_request(config, req[r].bearer)
        BY <1>a, <1>5, <3>1 DEF Authenticate, Respond, Goto, PlaceOK, Admitted
      <3>3. CASE IsStatic(config, req[r].bearer)
        BY <3>3 DEF IsStatic, PairInv, WasInstalled
      <3>4. CASE req[r].bearer \in Unexpired
        BY <1>a, <3>4 DEF Unexpired, TokensOK
      <3> QED
        BY <3>2, <3>3, <3>4 DEF authenticate_request
    <2>4. \A x \in Requests : x # r => pc'[x] = pc[x]
      BY <1>a, <1>5 DEF Authenticate, Respond, Goto, PlaceOK
    <2>5. AuthorisedShowedToken'
      BY <2>1, <2>3, <2>4 DEF TokenInv, AuthorisedShowedToken, Admitted
    <2> QED
      BY <2>2, <2>5 DEF TokenInv
  <1>6. ASSUME NEW r \in Requests,
               \/ LoadFile(r) \/ LoadFails(r) \/ BindRefused(r)
               \/ create_authenticator(r) \/ CreateFails(r)
        PROVE  TokenInv'
    BY <1>6, <1>b DEF LoadFile, LoadFails, BindRefused, create_authenticator, CreateFails,
                      Respond, Goto, tokenVars, work, Admitted
  <1>7. ASSUME NEW r \in Requests, WriteConfig(r) \/ WriteAuthenticator(r) \/ Answer(r)
        PROVE  TokenInv'
    <2>1. /\ UNCHANGED <<store, issued, req>>
          /\ installed' = installed \/ installed' = Append(installed, loaded[r].is)
          /\ pc[r] \in Admitted /\ \E to : pc' = [pc EXCEPT ![r] = to]
      BY <1>7 DEF WriteConfig, WriteAuthenticator, Answer, Respond, Goto, tokenVars, work,
                  Admitted
    <2>2. loaded[r].is \in Configs
      BY <1>a DEF WorkOK
    <2>3. \A x \in Requests : pc'[x] \in Admitted =>
                pc[x] \in Admitted /\ req'[x].bearer = req[x].bearer
      BY <1>a, <2>1 DEF PlaceOK
    <2> QED
      BY <1>a, <2>1, <2>2, <2>3, TokenFrame
  <1>8. CASE UNCHANGED avars
    BY <1>8, <1>b DEF avars, tokenVars, work
  <1> QED
    BY <1>1, <1>2, <1>3, <1>4, <1>5, <1>6, <1>7, <1>8 DEF ANext, Login, ReloadRequest

LEMMA TokensKept == ASpec => [](ATypeOK /\ TokenInv)
  <1>1. AInit => TokenInv
    BY DEF AInit, TokenInv, LifeInv, StartInv, TokensEarned, AuthorisedShowedToken
  <1>2. ATypeOK /\ PairInv /\ TokenInv /\ [ANext]_avars => TokenInv'
    BY TokenStep
  <1> QED
    BY <1>1, <1>2, Pairs, PTL DEF ASpec

\* Every token in the store was earned under one configuration that was in
\* force: a login that overlaps a reload never mixes two.
THEOREM TokensAreEarned == ASpec => []TokensEarned
  <1>1. TokenInv => TokensEarned
    BY DEF TokenInv
  <1> QED
    BY <1>1, TokensKept, PTL

\* Nobody is past the check of the bearer token without a token of /login or
\* the static token of a configuration that was in force.
THEOREM AuthorisationShown == ASpec => []AuthorisedShowedToken
  <1>1. TokenInv => AuthorisedShowedToken
    BY DEF TokenInv
  <1> QED
    BY <1>1, TokensKept, PTL

\* A token of /login opens the API only within the lifetime that some
\* configuration in force so far gives tokens, counted from the login, whoever
\* looked at the store in the meantime and whatever was reloaded.
THEOREM TokensExpire == ASpec => TokenLifetime
  <1> DEFINE Lives == \A r \in Requests :
        (pc[r] = "parsed" /\ pc'[r] = "authorised" /\ req[r].bearer \in DOMAIN issued)
        => \E i \in DOMAIN installed :
               clock < issued[req[r].bearer] + token_ttl[installed[i]]
  <1>1. ATypeOK /\ TokenInv /\ [ANext]_avars => [Lives]_avars
    <2> SUFFICES ASSUME ATypeOK, TokenInv, ANext, NEW r \in Requests,
                        pc[r] = "parsed", pc'[r] = "authorised",
                        req[r].bearer \in DOMAIN issued
                 PROVE  \E i \in DOMAIN installed :
                            clock < issued[req[r].bearer] + token_ttl[installed[i]]
      OBVIOUS
    <2>a. WorldOK /\ TokensOK /\ PlaceOK
      BY TypeParts
    <2>1. Authenticate(r)
      <3>1. pc' # pc /\ \A x \in Requests : x # r => pc'[r] # pc[r]
        OBVIOUS
      <3>2. \A x \in Requests : \A from : \A to :
                Goto(x, from, to) => x = r /\ to = "authorised"
        BY <2>a DEF Goto, PlaceOK
      <3>3. ~Tick /\ \A c \in Configs \union {Invalid} : ~EditFile(c)
        BY <3>1 DEF Tick, EditFile
      <3>4. \A x \in Requests :
              /\ \A q \in Presentable : ~read_request(x, q)
              /\ ~BadRequest(x) /\ ~Health(x) /\ ~ReadEndpoint(x)
        BY <3>2 DEF read_request, BadRequest, Health, ReadEndpoint, Respond
      <3>5. \A x \in Requests : ~Login(x)
        <4>1. \A x \in Requests : ~LoginMalformed(x) /\ ~LoginForbidden(x) /\ ~LoginFailed(x)
          BY <3>2 DEF LoginMalformed, LoginForbidden, LoginFailed, Respond
        <4>2. \A x \in Requests : ~LoginRead(x) /\ \A t \in Tokens : ~LoginGranted(x, t)
          BY <3>2 DEF LoginRead, LoginGranted, Respond
        <4> QED
          BY <4>1, <4>2 DEF Login
      <3>6. \A x \in Requests : ~ReloadRequest(x)
        BY <3>2 DEF ReloadRequest, LoadFile, LoadFails, BindRefused, create_authenticator,
                    CreateFails, WriteConfig, WriteAuthenticator, Answer, Respond
      <3>7. \A x \in Requests : Authenticate(x) => x = r
        BY <3>2 DEF Authenticate, Respond
      <3> QED
        BY <3>3, <3>4, <3>5, <3>6, <3>7 DEF ANext
    <2>2. authenticate_request(config, req[r].bearer)
      BY <2>a, <2>1 DEF Authenticate, Respond, Goto, PlaceOK
    <2>3. ~IsStatic(config, req[r].bearer)
      <3>1. req[r].bearer \in Tokens /\ config \in Configs
        BY <2>a DEF TokensOK, ATypeOK
      <3> QED
        BY <3>1, AdminAssumption DEF IsStatic, StaticTokens
    <2>4. req[r].bearer \in DOMAIN store /\ store[req[r].bearer].expires_at > clock
      BY <2>2, <2>3 DEF authenticate_request, Unexpired
    <2>5. clock \in Nat /\ store[req[r].bearer].expires_at \in Nat
      BY <2>a, <2>4 DEF WorldOK, TokensOK
    <2>6. clock < issued[req[r].bearer] + token_ttl[InitialConfig]
      BY <2>4, <2>5 DEF TokenInv, LifeInv
    <2> QED
      BY <2>6 DEF TokenInv, StartInv
  <1> QED
    BY <1>1, TokensKept, PTL DEF ASpec, TokenLifetime

-----------------------------------------------------------------------------
(* Reloads that do not overlap *)

\* What request r is doing, compared with what is in force.
Current(r) ==
    /\ loaded[r].edits <= file.edits
    /\ pc[r] # "done" => status[r] = 0
    /\ pc[r] = "checking" => req[r].kind = "login"
    /\ pc[r] \in {"building", "built"} => inForce <= loaded[r].edits
    /\ pc[r] \in {"writing", "answering"} => inForce = loaded[r].edits
    /\ req[r].kind = "reload" /\ status[r] = 200 => loaded[r].edits <= inForce

\* The file in force never becomes older.
CurrentInv == inForce <= file.edits /\ \A r \in Requests : Current(r)

\* A request ends without having put anything in force.
Ends(r) ==
    /\ UNCHANGED <<config, inForce, file, req>>
    /\ loaded' = loaded \/ loaded' = [loaded EXCEPT ![r] = file]
    /\ pc' = [pc EXCEPT ![r] = "done"]
    /\ \E code \in Codes : /\ status' = [status EXCEPT ![r] = code]
                           /\ code = 200 => req[r].kind # "reload"

LEMMA Endings ==
    ASSUME CurrentInv, NEW r \in Requests,
           \/ BadRequest(r) \/ Health(r) \/ ReadEndpoint(r) \/ LoginMalformed(r)
           \/ LoginForbidden(r) \/ LoginFailed(r) \/ LoadFails(r) \/ CreateFails(r)
           \/ BindRefused(r) \/ \E t \in Tokens : LoginGranted(r, t)
    PROVE  Ends(r)
  <1>1. /\ UNCHANGED <<config, inForce, file, req>>
        /\ loaded' = loaded \/ loaded' = [loaded EXCEPT ![r] = file]
    BY DEF BadRequest, Health, ReadEndpoint, LoginMalformed, LoginForbidden, LoginFailed,
                LoadFails, CreateFails, BindRefused, LoginGranted, adminState, world, work
  <1>2. /\ pc' = [pc EXCEPT ![r] = "done"]
        /\ \E code \in Codes : /\ status' = [status EXCEPT ![r] = code]
                               /\ code = 200 => req[r].kind # "reload"
    <2>1. CASE \/ BadRequest(r) \/ LoginMalformed(r) \/ LoginForbidden(r) \/ LoginFailed(r)
               \/ LoadFails(r) \/ CreateFails(r) \/ BindRefused(r)
      BY <2>1 DEF BadRequest, LoginMalformed, LoginForbidden, LoginFailed, LoadFails,
                  CreateFails, BindRefused, Respond, Goto, Codes
    <2>2. CASE Health(r)
      BY <2>2 DEF Health, Respond, Goto, Codes
    <2>3. CASE ReadEndpoint(r)
      <3>1. PICK code \in {200, 400, 404} : Respond(r, "authorised", code)
        BY <2>3 DEF ReadEndpoint
      <3>2. req[r].kind # "reload" /\ code \in Codes
        BY <2>3 DEF ReadEndpoint, Codes
      <3> QED
        BY <3>1, <3>2 DEF Respond, Goto
    <2>4. CASE \E t \in Tokens : LoginGranted(r, t)
      <3>1. req[r].kind = "login"
        BY <2>4 DEF LoginGranted, Respond, Goto, CurrentInv, Current
      <3> QED
        BY <2>4, <3>1 DEF LoginGranted, Respond, Goto, Codes
    <2> QED
      BY <2>1, <2>2, <2>3, <2>4
  <1> QED
    BY <1>1, <1>2 DEF Ends

LEMMA CurrentStep ==
    ASSUME ATypeOK, CurrentInv, OneReloadAtATime, [ANext]_avars
    PROVE  CurrentInv'
  <1>a. StateOK /\ WorldOK /\ WorkOK /\ PlaceOK
    BY TypeParts
  <1>b. /\ inForce \in Nat /\ file.edits \in Nat
        /\ \A r \in Requests : loaded[r].edits \in Nat
    BY <1>a DEF StateOK, WorldOK, WorkOK
  \* A request that is not in a reload moves to a place where it is not either.
  <1>c. ASSUME NEW r \in Requests, UNCHANGED <<inForce, file, loaded>>, ~InReload(r),
               \/ /\ \E q : req' = [req EXCEPT ![r] = q]
                  /\ pc[r] = "connected" /\ pc' = [pc EXCEPT ![r] = "parsed"]
                  /\ UNCHANGED status
               \/ /\ req' = req
                  /\ \/ /\ \E to \in {"checking", "authorised"} : pc' = [pc EXCEPT ![r] = to]
                        /\ pc'[r] = "checking" => req[r].kind = "login"
                        /\ pc[r] # "done"
                        /\ UNCHANGED status
                     \/ /\ pc' = [pc EXCEPT ![r] = "done"]
                        /\ \E code \in Codes : /\ status' = [status EXCEPT ![r] = code]
                                               /\ code = 200 => req[r].kind # "reload"
        PROVE  CurrentInv'
    <2>1. inForce' <= file'.edits
      BY <1>c DEF CurrentInv
    <2>2. ASSUME NEW x \in Requests, x # r PROVE Current(x)'
      <3>1. /\ pc'[x] = pc[x] /\ status'[x] = status[x] /\ req'[x] = req[x]
        BY <1>a, <1>c, <2>2 DEF PlaceOK, WorkOK
      <3> QED
        BY <1>c, <3>1 DEF CurrentInv, Current
    <2>3. Current(r)'
      BY <1>a, <1>c DEF CurrentInv, Current, PlaceOK, WorkOK, InReload
    <2> QED
      BY <2>1, <2>2, <2>3 DEF CurrentInv
  <1>1. CASE Tick
    BY <1>1 DEF Tick, CurrentInv, Current, adminState, work
  <1>2. ASSUME NEW c \in Configs \union {Invalid}, EditFile(c)
        PROVE  CurrentInv'
    <2>1. /\ file'.edits = file.edits + 1
          /\ UNCHANGED <<inForce, loaded, pc, status, req>>
      BY <1>2 DEF EditFile, adminState, work
    <2> QED
      BY <1>b, <2>1 DEF CurrentInv, Current
  <1>3. ASSUME NEW r \in Requests, NEW q \in Presentable, read_request(r, q)
        PROVE  CurrentInv'
    <2>1. /\ UNCHANGED <<inForce, file, loaded, status>>
          /\ req' = [req EXCEPT ![r] = q]
          /\ pc[r] = "connected" /\ pc' = [pc EXCEPT ![r] = "parsed"]
      BY <1>3 DEF read_request, Goto, adminState, world
    <2> QED
      BY <1>c, <2>1 DEF InReload
  <1>4. ASSUME NEW r \in Requests,
               \/ BadRequest(r) \/ Health(r) \/ ReadEndpoint(r) \/ LoginMalformed(r)
               \/ LoginForbidden(r) \/ LoginFailed(r) \/ LoadFails(r)
               \/ \E t \in Tokens : LoginGranted(r, t)
        PROVE  CurrentInv'
    <2>1. UNCHANGED <<inForce, file, loaded, req>>
      BY <1>4 DEF BadRequest, Health, ReadEndpoint, LoginMalformed, LoginForbidden, LoginFailed,
                  LoadFails, LoginGranted, adminState, world, work
    <2>a. pc[r] \in {"connected", "parsed", "checking", "authorised"}
      <3>1. CASE BadRequest(r) \/ Health(r) \/ ReadEndpoint(r) \/ LoginMalformed(r)
        BY <3>1 DEF BadRequest, Health, ReadEndpoint, LoginMalformed, Respond, Goto
      <3>2. CASE LoginForbidden(r) \/ LoginFailed(r) \/ LoadFails(r)
        BY <3>2 DEF LoginForbidden, LoginFailed, LoadFails, Respond, Goto
      <3>3. CASE \E t \in Tokens : LoginGranted(r, t)
        BY <3>3 DEF LoginGranted, Respond, Goto
      <3> QED
        BY <1>4, <3>1, <3>2, <3>3
    <2>2. ~InReload(r)
      BY <2>a DEF InReload
    <2>3. Ends(r)
      BY <1>4, Endings
    <2> QED
      BY <1>c, <2>1, <2>2, <2>3 DEF Ends
  <1>5. ASSUME NEW r \in Requests, LoginRead(r)
        PROVE  CurrentInv'
    <2>1. /\ UNCHANGED <<inForce, file, loaded, req, status>> /\ req[r].kind = "login"
          /\ pc[r] = "parsed" /\ pc' = [pc EXCEPT ![r] = "checking"]
      BY <1>5 DEF LoginRead, Goto, adminState, world
    <2> QED
      BY <1>c, <2>1 DEF InReload
  <1>6. ASSUME NEW r \in Requests, Authenticate(r)
        PROVE  CurrentInv'
    <2>1. UNCHANGED <<inForce, file, loaded, req>> /\ pc[r] = "parsed"
      BY <1>6 DEF Authenticate, Respond, Goto, adminState, world
    <2>2. \/ pc' = [pc EXCEPT ![r] = "authorised"] /\ UNCHANGED status
          \/ pc' = [pc EXCEPT ![r] = "done"] /\ status' = [status EXCEPT ![r] = 401]
      BY <1>6 DEF Authenticate, Respond, Goto
    <2>3. pc' = [pc EXCEPT ![r] = "authorised"] => pc'[r] # "checking"
      BY <1>a DEF PlaceOK
    <2> QED
      BY <1>c, <2>1, <2>2, <2>3 DEF InReload, Codes
  <1>7. ASSUME NEW r \in Requests, LoadFile(r) \/ BindRefused(r)
        PROVE  CurrentInv'
    <2>1. /\ UNCHANGED <<inForce, file, req>>
          /\ loaded' = [loaded EXCEPT ![r] = file]
          /\ pc[r] = "authorised"
          /\ \/ pc' = [pc EXCEPT ![r] = "building"] /\ UNCHANGED status
             \/ pc' = [pc EXCEPT ![r] = "done"] /\ status' = [status EXCEPT ![r] = 400]
      BY <1>7 DEF LoadFile, BindRefused, Respond, Goto, adminState, world
    <2>2. ASSUME NEW x \in Requests, x # r PROVE Current(x)'
      <3>1. /\ pc'[x] = pc[x] /\ status'[x] = status[x] /\ loaded'[x] = loaded[x]
        BY <1>a, <2>1, <2>2 DEF PlaceOK, WorkOK
      <3> QED
        BY <2>1, <3>1 DEF CurrentInv, Current
    <2>3. /\ loaded'[r] = file /\ pc'[r] \in {"building", "done"}
          /\ status'[r] \in {0, 400}
          /\ pc'[r] # "done" => status'[r] = 0
      BY <1>a, <2>1 DEF PlaceOK, WorkOK, CurrentInv, Current
    <2>4. Current(r)'
      BY <1>b, <2>1, <2>3 DEF CurrentInv, Current
    <2> QED
      BY <2>1, <2>2, <2>4 DEF CurrentInv
  \* Within a reload nothing but the place changes, up to an answer.
  <1>8. ASSUME NEW r \in Requests,
               create_authenticator(r) \/ CreateFails(r) \/ WriteAuthenticator(r) \/ Answer(r)
        PROVE  CurrentInv'
    <2>1. UNCHANGED <<inForce, file, loaded, req>>
      BY <1>8 DEF create_authenticator, CreateFails, WriteAuthenticator, Answer, adminState,
                  world, work
    <2>2. \/ /\ pc[r] = "building" /\ pc' = [pc EXCEPT ![r] = "built"] /\ UNCHANGED status
          \/ /\ pc[r] = "building" /\ pc' = [pc EXCEPT ![r] = "done"]
             /\ status' = [status EXCEPT ![r] = 500]
          \/ /\ pc[r] = "writing" /\ pc' = [pc EXCEPT ![r] = "answering"] /\ UNCHANGED status
          \/ /\ pc[r] = "answering" /\ pc' = [pc EXCEPT ![r] = "done"]
             /\ status' = [status EXCEPT ![r] = 200]
      BY <1>8 DEF create_authenticator, CreateFails, WriteAuthenticator, Answer, Respond, Goto
    <2>3. ASSUME NEW x \in Requests, x # r PROVE Current(x)'
      <3>1. pc'[x] = pc[x] /\ status'[x] = status[x]
        BY <1>a, <2>2, <2>3 DEF PlaceOK
      <3> QED
        BY <2>1, <3>1 DEF CurrentInv, Current
    <2>4. Current(r)'
      BY <1>a, <1>b, <2>1, <2>2 DEF CurrentInv, Current, PlaceOK
    <2> QED
      BY <2>1, <2>3, <2>4 DEF CurrentInv
  <1>9. ASSUME NEW r \in Requests, WriteConfig(r)
        PROVE  CurrentInv'
    <2>1. /\ UNCHANGED <<file, loaded, req, status>> /\ inForce' = loaded[r].edits
          /\ pc[r] = "built" /\ pc' = [pc EXCEPT ![r] = "writing"]
      BY <1>9 DEF WriteConfig, Goto, world, work
    <2>2. inForce <= inForce' /\ inForce' \in Nat /\ inForce' <= file'.edits
      BY <1>b, <2>1 DEF CurrentInv, Current
    <2>3. ASSUME NEW x \in Requests, x # r PROVE Current(x)'
      <3>1. pc'[x] = pc[x] /\ ~InReload(x)
        BY <1>a, <2>1, <2>3 DEF PlaceOK, OneReloadAtATime, InReload
      <3> QED
        BY <1>b, <2>1, <2>2, <3>1 DEF CurrentInv, Current, InReload
    <2>4. Current(r)'
      BY <1>a, <1>b, <2>1 DEF CurrentInv, Current, PlaceOK
    <2> QED
      BY <2>2, <2>3, <2>4 DEF CurrentInv
  <1>10. CASE UNCHANGED avars
    BY <1>10 DEF avars, adminState, world, work, CurrentInv, Current
  <1> QED
    BY <1>1, <1>2, <1>3, <1>4, <1>5, <1>6, <1>7, <1>8, <1>9, <1>10
    DEF ANext, Login, ReloadRequest

\* Where doc/admin_api.md is right: as long as reloads do not overlap, a reload
\* that succeeded has put the file it read in force, or a newer one.
THEOREM ReloadsAloneTakeEffect == ASpec /\ []OneReloadAtATime => []ReloadTakesEffect
  <1>1. AInit => CurrentInv
    BY DEF AInit, CurrentInv, Current, NoRequest
  <1>2. ATypeOK /\ CurrentInv /\ OneReloadAtATime /\ [ANext]_avars => CurrentInv'
    BY CurrentStep
  <1>3. ATypeOK /\ CurrentInv => ReloadTakesEffect
    <2> SUFFICES ASSUME ATypeOK, CurrentInv, NEW r \in Requests, req[r].kind = "reload",
                        status[r] = 200, loaded[r].edits = file.edits
                 PROVE  inForce = file.edits
      BY DEF ReloadTakesEffect
    <2>1. inForce \in Nat /\ file.edits \in Nat
      BY DEF ATypeOK
    <2> QED
      BY <2>1 DEF CurrentInv, Current
  <1> QED
    BY <1>1, <1>2, <1>3, ATypeCorrect, PTL DEF ASpec

-----------------------------------------------------------------------------
(* The server as a whole *)

\* The theorems about the accept loops, with the write guard of an admin
\* request for the one of their environment.
Proxy == INSTANCE ProxyServerProofs WITH write <- guard

LEMMA RunsAdmin == CSpec => ASpec
  <1>1. CInit => AInit
    BY DEF CInit
  <1>2. [CNext]_cvars => [ANext]_avars
    BY DEF CNext, AdminStep, ProxyStep, cvars
  <1> QED
    BY <1>1, <1>2, PTL DEF CSpec, ASpec

LEMMA ProxySimulated ==
    ASSUME ATypeOK, LockInv, PairInv, [CNext]_cvars
    PROVE  [P!Next]_(P!vars)
  <1> USE DEF P!vars, P!stateVars, P!connVars, P!pastVars
  <1>1. CASE AdminStep
    <2>1. [S!Reload]_(S!stateVars)
      BY <1>1, ReloadSimulates DEF AdminStep
    <2>2. UNCHANGED proxyVars /\ Len(installed') <= MaxReloads + 1
      BY <1>1 DEF AdminStep
    <2>3. CASE UNCHANGED S!stateVars
      BY <2>2, <2>3 DEF S!stateVars, proxyVars, guard
    <2>4. CASE S!Reload
      <3>1. P!Reload
        BY <2>4 DEF S!Reload, S!InstallConfig, S!InstallAuthenticator, S!ReleaseWrite,
                    S!AuthenticatorOf, P!Reload, P!InstallConfig, P!InstallAuthenticator,
                    P!ReleaseWrite, P!AuthenticatorOf, guard
      <3> QED
        BY <2>2, <3>1 DEF P!Next, P!Reloading, proxyVars
    <2> QED
      BY <2>1, <2>3, <2>4
  <1>2. CASE ProxyStep
    BY <1>2 DEF ProxyStep, P!Next
  <1>3. CASE UNCHANGED cvars
    BY <1>3 DEF cvars, avars, adminState, proxyVars, guard
  <1> QED
    BY <1>1, <1>2, <1>3 DEF CNext

\* The server implements ProxyServer: what the accept loops and their tasks are
\* proved to do under any reloads, they do under the requests of the admin API.
THEOREM ImplementsProxy == CSpec => ProxyImplemented
  <1>1. CInit => P!Init
    BY DEF CInit
  <1>2. ATypeOK /\ LockInv /\ PairInv /\ [CNext]_cvars => [P!Next]_(P!vars)
    BY ProxySimulated
  <1> QED
    BY <1>1, <1>2, RunsAdmin, Pairs, PTL DEF CSpec, ProxyImplemented, P!Spec

\* P and Proxy are the same instance of ProxyServer.
LEMMA SameSteps == [P!Next]_(P!vars) => [Proxy!Next]_(Proxy!vars)
  <1> USE DEF P!vars, P!stateVars, P!connVars, P!pastVars,
              Proxy!vars, Proxy!stateVars, Proxy!connVars, Proxy!pastVars
  <1>1. P!Readable <=> Proxy!Readable
    BY DEF P!Readable, Proxy!Readable
  <1>2. ASSUME NEW l \in Listeners PROVE P!Loop(l) => Proxy!Loop(l)
    <2>1. /\ P!AcceptError(l) => Proxy!AcceptError(l)
          /\ P!BackoffEnds(l) => Proxy!BackoffEnds(l)
      BY DEF P!AcceptError, P!BackoffEnds, Proxy!AcceptError, Proxy!BackoffEnds
    <2>2. ASSUME NEW c \in Conns
          PROVE  /\ P!Admit(l, c) => Proxy!Admit(l, c)
                 /\ P!Refuse(l, c) => Proxy!Refuse(l, c)
      BY <1>1 DEF P!Admit, P!Refuse, P!check_client_allowed,
                  Proxy!Admit, Proxy!Refuse, Proxy!check_client_allowed
    <2>3. ASSUME NEW c \in Conns
          PROVE  /\ P!Accept(l, c) => Proxy!Accept(l, c)
                 /\ P!Spawn(l, c) => Proxy!Spawn(l, c)
      BY DEF P!Accept, P!Spawn, Proxy!Accept, Proxy!Spawn
    <2>4. ASSUME NEW c \in Conns
          PROVE  /\ P!TakePermit(l, c) => Proxy!TakePermit(l, c)
                 /\ P!WaitForPermit(l, c) => Proxy!WaitForPermit(l, c)
      BY DEF P!TakePermit, P!WaitForPermit, Proxy!TakePermit, Proxy!WaitForPermit
    <2> QED
      BY <2>1, <2>2, <2>3, <2>4 DEF P!Loop, Proxy!Loop
  <1>3. ASSUME NEW c \in Conns PROVE P!Task(c) => Proxy!Task(c)
    BY <1>1 DEF P!Task, P!Snapshot, P!Finish, P!ReturnPermit, P!HandOverPermit,
                Proxy!Task, Proxy!Snapshot, Proxy!Finish, Proxy!ReturnPermit,
                Proxy!HandOverPermit
  <1>4. P!Reload => Proxy!Reload
    BY DEF P!Reload, P!InstallConfig, P!InstallAuthenticator, P!ReleaseWrite,
           P!AuthenticatorOf, Proxy!Reload, Proxy!InstallConfig,
           Proxy!InstallAuthenticator, Proxy!ReleaseWrite, Proxy!AuthenticatorOf
  <1> QED
    BY <1>2, <1>3, <1>4 DEF P!Next, P!Reloading, Proxy!Next, Proxy!Reloading

LEMMA RunsProxy == CSpec => Proxy!Spec
  <1>1. P!Init => Proxy!Init
    BY DEF P!Init, P!StateInit, P!AuthenticatorOf, P!Capacity, P!NoSnap, Proxy!Init,
           Proxy!StateInit, Proxy!AuthenticatorOf, Proxy!Capacity, Proxy!NoSnap
  <1> QED
    BY <1>1, SameSteps, ImplementsProxy, PTL DEF ProxyImplemented, P!Spec, Proxy!Spec

LEMMA ProxyAssumptions == Proxy!ProxyAssumption /\ Proxy!ConfigsAssumption
  <1>1. Proxy!ProxyAssumption
    BY ServerAssumption DEF P!ProxyAssumption, P!IsFiniteSet, Proxy!ProxyAssumption,
                            Proxy!IsFiniteSet
  <1>2. Proxy!ConfigsAssumption
    BY AdminAssumption DEF Proxy!ConfigsAssumption
  <1> QED
    BY <1>1, <1>2

\* While admin requests log in, reload and overlap, no permit is lost, the gauge
\* and the queue are exact, sockets are bounded, and a client is admitted and
\* served under configurations with their own authenticators, none older than
\* its arrival.
THEOREM ServerSafe ==
    CSpec => [](/\ P!PermitsConserved /\ P!QueueExact /\ P!GaugeExact
                /\ P!SocketsBounded /\ P!SnapshotPaired /\ P!PolicyFresh)
  <1> USE DEF P!In, Proxy!In
  <1>1. Proxy!PermitsConserved => P!PermitsConserved
    BY DEF P!PermitsConserved, P!Holders, P!Capacity, P!Cardinality,
           Proxy!PermitsConserved, Proxy!Holders, Proxy!Capacity, Proxy!Cardinality
  <1>2. Proxy!QueueExact => P!QueueExact
    BY DEF P!QueueExact, Proxy!QueueExact
  <1>3. Proxy!GaugeExact => P!GaugeExact
    BY DEF P!GaugeExact, P!Counted, P!Capacity, P!Cardinality,
           Proxy!GaugeExact, Proxy!Counted, Proxy!Capacity, Proxy!Cardinality
  <1>4. Proxy!SocketsBounded => P!SocketsBounded
    BY DEF P!SocketsBounded, P!Pending, P!BusyLoops, P!Holders, P!Capacity, P!Cardinality,
           Proxy!SocketsBounded, Proxy!Pending, Proxy!BusyLoops, Proxy!Holders,
           Proxy!Capacity, Proxy!Cardinality
  <1>5. Proxy!SnapshotPaired => P!SnapshotPaired
    BY DEF P!SnapshotPaired, P!AuthenticatorOf, Proxy!SnapshotPaired, Proxy!AuthenticatorOf
  <1>6. Proxy!PolicyFresh => P!PolicyFresh
    BY DEF P!PolicyFresh, Proxy!PolicyFresh
  <1>a. Proxy!Spec => []Proxy!PermitsConserved
    BY ProxyAssumptions, Proxy!PermitsSafe
  <1>b. Proxy!Spec => []Proxy!QueueExact
    BY ProxyAssumptions, Proxy!QueueSafe
  <1>c. Proxy!Spec => []Proxy!GaugeExact
    BY ProxyAssumptions, Proxy!GaugeSafe
  <1>d. Proxy!Spec => []Proxy!SocketsBounded
    BY ProxyAssumptions, Proxy!Backpressure
  <1>e. Proxy!Spec => []Proxy!SnapshotPaired
    BY ProxyAssumptions, Proxy!SnapshotsPaired
  <1>f. Proxy!Spec => []Proxy!PolicyFresh
    BY ProxyAssumptions, Proxy!PoliciesFresh
  <1> QED
    BY <1>1, <1>2, <1>3, <1>4, <1>5, <1>6, <1>a, <1>b, <1>c, <1>d, <1>e, <1>f, RunsProxy, PTL

-----------------------------------------------------------------------------
(* From the file to the clients *)

\* Request r has put its configuration in force.
Wrote(r) ==
    pc[r] \in {"writing", "answering"} \/ (req[r].kind = "reload" /\ status[r] = 200)

\* A step that puts nothing in force.
Still ==
    /\ UNCHANGED <<config, inForce, file>>
    /\ \A x \in Requests : /\ loaded'[x] \in {loaded[x], file}
                           /\ Wrote(x)' => Wrote(x) /\ loaded'[x] = loaded[x]

LEMMA EndsStill ==
    ASSUME WorkOK, PlaceOK, NEW r \in Requests, Ends(r)
    PROVE  Still
  <1> PICK code \in Codes : /\ status' = [status EXCEPT ![r] = code]
                            /\ code = 200 => req[r].kind # "reload"
    BY DEF Ends
  <1> USE DEF Ends
  <1>1. \A x \in Requests : x # r =>
          /\ pc'[x] = pc[x] /\ status'[x] = status[x] /\ loaded'[x] = loaded[x]
    BY DEF WorkOK, PlaceOK
  <1>2. pc'[r] = "done" /\ status'[r] = code /\ loaded'[r] \in {loaded[r], file}
    BY DEF WorkOK, PlaceOK
  <1>3. ~Wrote(r)'
    BY <1>2 DEF Wrote
  <1>4. \A x \in Requests : x # r => (Wrote(x)' => Wrote(x))
    BY <1>1 DEF Wrote
  <1> QED
    BY <1>1, <1>2, <1>3, <1>4 DEF Still

\* What a step of the admin API does to the file, to what is in force and to
\* who has put it there.
LEMMA AdminMoves ==
    ASSUME ATypeOK, CurrentInv, ANext
    PROVE  \/ /\ \E c \in Configs \union {Invalid} : file' = [edits |-> file.edits + 1, is |-> c]
              /\ UNCHANGED <<config, inForce, loaded, pc, req, status>>
           \/ /\ UNCHANGED <<file, loaded, req, status>>
              /\ \E r \in Requests : /\ pc[r] = "built" /\ pc' = [pc EXCEPT ![r] = "writing"]
                                     /\ config' = loaded[r].is /\ inForce' = loaded[r].edits
           \/ Still
  <1>a. WorkOK /\ PlaceOK
    BY TypeParts
  <1>1. Tick => Still
    BY DEF Tick, adminState, work, Wrote, Still
  <1>2. ASSUME NEW c \in Configs \union {Invalid}, EditFile(c)
        PROVE  /\ file' = [edits |-> file.edits + 1, is |-> c]
               /\ UNCHANGED <<config, inForce, loaded, pc, req, status>>
    BY <1>2 DEF EditFile, adminState, work
  <1>3. ASSUME NEW r \in Requests, NEW q \in Presentable, read_request(r, q)
        PROVE  Still
    <2>1. /\ UNCHANGED <<config, inForce, file, loaded, status>>
          /\ pc[r] = "connected" /\ pc' = [pc EXCEPT ![r] = "parsed"]
          /\ req' = [req EXCEPT ![r] = q]
      BY <1>3 DEF read_request, Goto, adminState, world
    <2>2. status[r] = 0
      BY <2>1 DEF CurrentInv, Current
    <2>3. \A x \in Requests : Wrote(x)' => Wrote(x)
      BY <1>a, <2>1, <2>2 DEF Wrote, WorkOK, PlaceOK
    <2> QED
      BY <2>1, <2>3 DEF Still
  <1>4. ASSUME NEW r \in Requests,
               \/ BadRequest(r) \/ Health(r) \/ ReadEndpoint(r) \/ LoginMalformed(r)
               \/ LoginForbidden(r) \/ LoginFailed(r) \/ LoadFails(r) \/ CreateFails(r)
               \/ BindRefused(r) \/ \E t \in Tokens : LoginGranted(r, t)
        PROVE  Still
    BY <1>a, <1>4, Endings, EndsStill
  <1>5. ASSUME NEW r \in Requests, Authenticate(r)
        PROVE  Still
    <2>1. UNCHANGED <<config, inForce, file, loaded, req>>
      BY <1>5 DEF Authenticate, adminState, world
    <2>2. CASE pc' = [pc EXCEPT ![r] = "authorised"] /\ UNCHANGED status
      <3>1. \A x \in Requests : Wrote(x)' => Wrote(x)
        BY <1>a, <2>1, <2>2 DEF Wrote, PlaceOK
      <3> QED
        BY <2>1, <3>1 DEF Still
    <2>3. CASE pc' = [pc EXCEPT ![r] = "done"] /\ status' = [status EXCEPT ![r] = 401]
      <3>1. Ends(r)
        BY <2>1, <2>3 DEF Ends, Codes
      <3> QED
        BY <1>a, <3>1, EndsStill
    <2> QED
      BY <1>5, <2>2, <2>3 DEF Authenticate, Respond, Goto
  <1>6. ASSUME NEW r \in Requests, LoginRead(r) \/ LoadFile(r) \/ create_authenticator(r)
        PROVE  Still
    <2>1. /\ UNCHANGED <<config, inForce, file, req, status>>
          /\ loaded' = loaded \/ loaded' = [loaded EXCEPT ![r] = file]
          /\ pc[r] \in {"parsed", "authorised", "building"}
          /\ \E to \in {"checking", "building", "built"} : pc' = [pc EXCEPT ![r] = to]
      BY <1>6 DEF LoginRead, LoadFile, create_authenticator, Goto, adminState, world
    <2>2. status[r] = 0
      BY <2>1 DEF CurrentInv, Current
    <2>3. pc'[r] \in {"checking", "building", "built"} /\ loaded'[r] \in {loaded[r], file}
      BY <1>a, <2>1 DEF WorkOK, PlaceOK
    <2>4. \A x \in Requests : x # r => pc'[x] = pc[x] /\ loaded'[x] = loaded[x]
      BY <1>a, <2>1 DEF WorkOK, PlaceOK
    <2> QED
      BY <2>1, <2>2, <2>3, <2>4 DEF Wrote, Still
  <1>7. ASSUME NEW r \in Requests, WriteConfig(r)
        PROVE  /\ UNCHANGED <<file, loaded, req, status>>
               /\ pc[r] = "built" /\ pc' = [pc EXCEPT ![r] = "writing"]
               /\ config' = loaded[r].is /\ inForce' = loaded[r].edits
    BY <1>7 DEF WriteConfig, Goto, world, work
  <1>8. ASSUME NEW r \in Requests, WriteAuthenticator(r) \/ Answer(r)
        PROVE  Still
    <2>1. UNCHANGED <<config, inForce, file, loaded, req>>
      BY <1>8 DEF WriteAuthenticator, Answer, world, work
    <2>2. pc[r] \in {"writing", "answering"}
      BY <1>8 DEF WriteAuthenticator, Answer, Respond, Goto
    <2>3. \A x \in Requests : x # r => pc'[x] = pc[x] /\ status'[x] = status[x]
      BY <1>a, <1>8 DEF WriteAuthenticator, Answer, Respond, Goto, PlaceOK
    <2>4. \A x \in Requests : Wrote(x)' => Wrote(x)
      BY <2>1, <2>2, <2>3 DEF Wrote
    <2> QED
      BY <2>1, <2>4 DEF Still
  <1>9. ASSUME NEW r \in Requests,
                \/ \E q \in Presentable : read_request(r, q)
                \/ BadRequest(r) \/ Health(r) \/ Login(r) \/ Authenticate(r)
                \/ ReadEndpoint(r) \/ ReloadRequest(r)
         PROVE  Still \/ WriteConfig(r)
    BY <1>3, <1>4, <1>5, <1>6, <1>8, <1>9 DEF Login, ReloadRequest
  <1>10. \/ Still
         \/ \E c \in Configs \union {Invalid} : EditFile(c)
         \/ \E r \in Requests : WriteConfig(r)
    BY <1>1, <1>9 DEF ANext
  <1> QED
    BY <1>2, <1>7, <1>10

\* texts is what the file has held, and every request has loaded one of them.
TextInv ==
    /\ texts \in Seq(Configs \union {Invalid}) /\ Len(texts) = file.edits + 1
    /\ file.is = texts[file.edits + 1]
    /\ \A r \in Requests : loaded[r].is = texts[loaded[r].edits + 1]

\* What a reload has put in force is the text inForce counts.
InForceInv == (\E r \in Requests : Wrote(r)) => config = texts[inForce + 1]

\* What an administrator was told before a client came is not newer than what
\* is in force, and not newer than what the client is served by.
Reaches(c) ==
    \A n \in answered[c] :
        /\ n \in 1 .. (inForce + 1) /\ config = texts[inForce + 1]
        /\ cstate[c] = "serving" => \E m \in n .. Len(texts) : texts[m] = snap[c].config

Reached ==
    /\ OneReloadAtATime /\ CurrentInv /\ TextInv /\ InForceInv
    /\ \A c \in Conns : Reaches(c)

ReachInv == ~overlapped => Reached

LEMMA ReachAdmin ==
    ASSUME ATypeOK, Reached, AdminStep, ~overlapped'
    PROVE  Reached'
  <1>a. WorldOK /\ WorkOK /\ PlaceOK /\ inForce \in Nat
    BY TypeParts DEF StateOK
  <1>b. ANext /\ UNCHANGED <<answered, cstate, snap>> /\ OneReloadAtATime'
    BY DEF AdminStep, proxyVars
  <1>c. CurrentInv'
    BY <1>b, CurrentStep DEF Reached
  <1>d. /\ file.edits \in Nat /\ \A r \in Requests : loaded[r].edits \in Nat
        /\ inForce <= file.edits /\ \A r \in Requests : loaded[r].edits <= file.edits
    BY <1>a DEF WorldOK, WorkOK, Reached, CurrentInv, Current
  <1>e. CurrentInv /\ TextInv /\ InForceInv /\ \A c \in Conns : Reaches(c)
    BY DEF Reached
  <1>1. ASSUME NEW e \in Configs \union {Invalid},
               file' = [edits |-> file.edits + 1, is |-> e],
               UNCHANGED <<config, inForce, loaded, pc, req, status>>
        PROVE  Reached'
    <2>1. texts' = Append(texts, e) /\ file'.edits = file.edits + 1 /\ file'.is = e
      BY <1>1, <1>d DEF AdminStep
    <2>2. /\ texts' \in Seq(Configs \union {Invalid}) /\ Len(texts') = Len(texts) + 1
          /\ texts'[Len(texts) + 1] = e
          /\ \A m \in 1 .. Len(texts) : texts'[m] = texts[m]
      BY <1>e, <2>1 DEF TextInv
    <2>3. Len(texts) = file.edits + 1 /\ Len(texts) \in Nat
      BY <1>d, <1>e DEF TextInv
    <2>4. /\ texts'[inForce + 1] = texts[inForce + 1]
          /\ \A r \in Requests : texts'[loaded[r].edits + 1] = texts[loaded[r].edits + 1]
      <3>1. /\ inForce + 1 \in 1 .. Len(texts)
            /\ \A r \in Requests : loaded[r].edits + 1 \in 1 .. Len(texts)
        BY <1>a, <1>d, <2>3
      <3> QED
        BY <2>2, <3>1
    <2>5. TextInv'
      BY <1>1, <1>e, <2>1, <2>2, <2>3, <2>4 DEF TextInv
    <2>6. InForceInv'
      BY <1>1, <1>e, <2>4 DEF InForceInv, Wrote
    <2>7. ASSUME NEW c \in Conns PROVE Reaches(c)'
      <3> SUFFICES ASSUME NEW n \in answered[c]
                   PROVE  /\ n \in 1 .. (inForce' + 1) /\ config' = texts'[inForce' + 1]
                          /\ cstate'[c] = "serving" =>
                                \E m \in n .. Len(texts') : texts'[m] = snap'[c].config
        BY <1>b DEF Reaches
      <3>1. /\ n \in 1 .. (inForce' + 1) /\ config' = texts'[inForce' + 1]
        BY <1>1, <1>e, <2>4 DEF Reaches
      <3>2. ASSUME cstate'[c] = "serving"
            PROVE  \E m \in n .. Len(texts') : texts'[m] = snap'[c].config
        <4>1. PICK m \in n .. Len(texts) : texts[m] = snap[c].config
          BY <1>b, <1>e, <3>2 DEF Reaches
        <4>2. m \in 1 .. Len(texts) /\ m \in n .. Len(texts')
          BY <1>a, <1>1, <2>2, <2>3, <3>1
        <4>3. texts'[m] = snap'[c].config
          BY <1>b, <2>2, <4>1, <4>2
        <4> QED
          BY <4>2, <4>3
      <3> QED
        BY <3>1, <3>2
    <2> QED
      BY <1>b, <1>c, <2>5, <2>6, <2>7 DEF Reached
  <1>2. ASSUME NEW r \in Requests, UNCHANGED <<file, loaded, req, status>>,
               pc[r] = "built", pc' = [pc EXCEPT ![r] = "writing"],
               config' = loaded[r].is, inForce' = loaded[r].edits
        PROVE  Reached'
    <2>1. texts' = texts
      BY <1>2 DEF AdminStep
    <2>2. config' = texts[inForce' + 1] /\ inForce <= inForce' /\ inForce' \in Nat
      BY <1>2, <1>d, <1>e DEF TextInv, CurrentInv, Current
    <2>3. TextInv' /\ InForceInv'
      BY <1>2, <1>e, <2>1, <2>2 DEF TextInv, InForceInv
    <2>4. ASSUME NEW c \in Conns PROVE Reaches(c)'
      BY <1>a, <1>b, <1>e, <2>1, <2>2 DEF Reaches
    <2> QED
      BY <1>b, <1>c, <2>3, <2>4 DEF Reached
  <1>3. ASSUME Still
        PROVE  Reached'
    <2>1. texts' = texts /\ UNCHANGED <<config, inForce, file>>
      BY <1>3 DEF AdminStep, Still
    <2>2. TextInv'
      BY <1>3, <1>e, <2>1 DEF TextInv, Still
    <2>3. InForceInv'
      BY <1>3, <1>e, <2>1 DEF InForceInv, Still
    <2>4. ASSUME NEW c \in Conns PROVE Reaches(c)'
      BY <1>b, <1>e, <2>1 DEF Reaches
    <2> QED
      BY <1>b, <1>c, <2>2, <2>3, <2>4 DEF Reached
  <1> QED
    BY <1>1, <1>2, <1>3, <1>b, <1>e, AdminMoves

LEMMA ReachProxy ==
    ASSUME ATypeOK, Proxy!TypeOK, Reached, ProxyStep
    PROVE  Reached'
  <1>a. WorldOK /\ WorkOK /\ inForce \in Nat
    BY TypeParts DEF StateOK
  <1>b. cstate \in [Conns -> Proxy!States] /\ DOMAIN snap = Conns
    BY DEF Proxy!TypeOK
  <1>c. UNCHANGED <<avars, texts>>
    BY DEF ProxyStep
  <1>d. UNCHANGED <<config, inForce, file, loaded, pc, req, status>>
    BY <1>c DEF avars, adminState, world, work
  <1>e. CurrentInv /\ TextInv /\ InForceInv /\ \A c \in Conns : Reaches(c)
    BY DEF Reached
  \* A client is in service because it was, or because its task has just cloned
  \* what is in force.
  <1>1. ASSUME NEW c \in Conns, cstate'[c] = "serving"
        PROVE  \/ cstate[c] = "serving" /\ snap'[c] = snap[c]
               \/ cstate[c] = "spawned" /\ snap'[c].config = config
    <2>1. ASSUME NEW l \in Listeners, P!Loop(l)
          PROVE  cstate[c] = "serving" /\ snap'[c] = snap[c]
      BY <1>1, <1>b, <2>1
      DEF P!Loop, P!AcceptError, P!BackoffEnds, P!Accept, P!Admit, P!Refuse, P!TakePermit,
          P!WaitForPermit, P!Spawn, P!pastVars
    <2>2. ASSUME NEW d \in Conns, P!Snapshot(d)
          PROVE  \/ cstate[c] = "serving" /\ snap'[c] = snap[c]
                 \/ cstate[c] = "spawned" /\ snap'[c].config = config
      BY <1>1, <1>b, <2>2 DEF P!Snapshot
    <2>3. ASSUME NEW d \in Conns, P!Finish(d) \/ P!ReturnPermit(d) \/ P!HandOverPermit(d)
          PROVE  cstate[c] = "serving" /\ snap'[c] = snap[c]
      BY <1>1, <1>b, <2>3
      DEF P!Finish, P!ReturnPermit, P!HandOverPermit, P!pastVars
    <2> QED
      BY <2>1, <2>2, <2>3 DEF ProxyStep, P!Task
  \* An administrator has been told of nothing newer than what is in force.
  <1>2. ASSUME NEW n \in Promised
        PROVE  n \in 1 .. (inForce + 1) /\ config = texts[inForce + 1]
    <2>1. PICK r \in Requests : Answered(r) /\ n = loaded[r].edits + 1
      BY DEF Promised
    <2>2. loaded[r].edits <= inForce /\ loaded[r].edits \in Nat
      BY <1>a, <1>e, <2>1 DEF Answered, CurrentInv, Current, WorkOK
    <2>3. config = texts[inForce + 1]
      BY <1>e, <2>1 DEF InForceInv, Wrote, Answered
    <2> QED
      BY <1>a, <2>1, <2>2, <2>3
  <1>3. ASSUME NEW c \in Conns PROVE Reaches(c)'
    <2>1. \/ answered'[c] = answered[c]
          \/ answered'[c] = Promised /\ cstate[c] = "new"
      BY DEF ProxyStep
    <2>2. ASSUME NEW n \in answered'[c]
          PROVE  n \in 1 .. (inForce + 1) /\ config = texts[inForce + 1]
      BY <1>2, <1>e, <2>1, <2>2 DEF Reaches
    <2>3. ASSUME NEW n \in answered'[c], cstate'[c] = "serving"
          PROVE  \E m \in n .. Len(texts) : texts[m] = snap'[c].config
      <3>1. CASE cstate[c] = "serving" /\ snap'[c] = snap[c]
        BY <1>e, <2>1, <2>3, <3>1 DEF Reaches
      <3>2. CASE cstate[c] = "spawned" /\ snap'[c].config = config
        <4>1. inForce + 1 \in n .. Len(texts)
          <5>1. Len(texts) = file.edits + 1 /\ inForce <= file.edits /\ file.edits \in Nat
            BY <1>a, <1>e DEF TextInv, CurrentInv, WorldOK
          <5> QED
            BY <1>a, <2>2, <2>3, <5>1
        <4> QED
          BY <2>2, <2>3, <3>2, <4>1
      <3> QED
        BY <1>1, <2>3, <3>1, <3>2
    <2> QED
      BY <1>c, <1>d, <2>2, <2>3 DEF Reaches
  <1>4. OneReloadAtATime' /\ CurrentInv' /\ TextInv' /\ InForceInv'
    BY <1>c, <1>d DEF Reached, OneReloadAtATime, InReload, CurrentInv, Current, TextInv,
                      InForceInv, Wrote
  <1> QED
    BY <1>3, <1>4 DEF Reached

LEMMA ReachStep ==
    ASSUME ATypeOK, Proxy!TypeOK, ReachInv, [CNext]_cvars
    PROVE  ReachInv'
  <1> SUFFICES ASSUME ~overlapped' PROVE Reached'
    BY DEF ReachInv
  <1>1. CASE AdminStep
    <2>1. ~overlapped
      BY <1>1 DEF AdminStep
    <2> QED
      BY <1>1, <2>1, ReachAdmin DEF ReachInv
  <1>2. CASE ProxyStep
    BY <1>2, ReachProxy DEF ReachInv, ProxyStep
  <1>3. CASE UNCHANGED cvars
    BY <1>3 DEF cvars, avars, adminState, world, work, proxyVars, ReachInv, Reached,
                OneReloadAtATime, InReload, CurrentInv, Current, TextInv, InForceInv, Wrote,
                Reaches
  <1> QED
    BY <1>1, <1>2, <1>3 DEF CNext

\* A client that arrives after the answer to a reload is served by what that
\* reload read or by something newer, as long as reloads do not overlap: through
\* the file, the write guard, the wait for a permit and the task's snapshot.
THEOREM ReloadsReachClients == CSpec => []ReloadReachesClients
  <1>1. CInit => ReachInv
    <2> SUFFICES ASSUME CInit PROVE Reached
      BY DEF ReachInv
    <2>1. OneReloadAtATime
      BY DEF CInit, AInit, OneReloadAtATime, InReload
    <2>2. CurrentInv
      BY DEF CInit, AInit, CurrentInv, Current, NoRequest
    <2>3. TextInv
      BY AdminAssumption DEF CInit, AInit, TextInv
    <2>4. InForceInv
      BY DEF CInit, AInit, InForceInv, Wrote, NoRequest
    <2>5. \A c \in Conns : Reaches(c)
      BY DEF CInit, Reaches
    <2> QED
      BY <2>1, <2>2, <2>3, <2>4, <2>5 DEF Reached
  <1>2. ATypeOK /\ Proxy!TypeOK /\ ReachInv /\ [CNext]_cvars => ReachInv'
    BY ReachStep
  <1>3. Proxy!Spec => []Proxy!TypeOK
    BY ProxyAssumptions, Proxy!TypeCorrect
  <1>4. ReachInv => ReloadReachesClients
    BY DEF ReachInv, Reached, Reaches, ReloadReachesClients, P!In
  <1> QED
    BY <1>1, <1>2, <1>3, <1>4, RunsAdmin, ATypeCorrect, RunsProxy, PTL DEF CSpec
=============================================================================
