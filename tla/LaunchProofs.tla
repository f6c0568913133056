----------------------------- MODULE LaunchProofs -----------------------------
(***************************************************************************)
(* The start and the reloads, for any files, overrides and ports, however  *)
(* often the file is edited.  The strengthening says at each stage where   *)
(* the configuration came from, and that nothing is bound before the       *)
(* addresses are formed.                                                   *)
(***************************************************************************)
EXTENDS Launch, TLAPS

Unbound == {"look", "load", "override", "logging", "create", "addresses"}

\* A version of the file that loads, or the defaults if there was none in reach.
Source(c) ==
    \/ past \intersect {Missing, Unreachable} # {} /\ c = default
    \/ \E f \in past : Loads(f) /\ c = f

Provenance ==
    /\ file \in past
    /\ stage \in {"look", "load"} => config = default
    /\ stage = "override" => Source(config)
    /\ stage \in {"logging", "create", "addresses"} \union Listeners =>
            \E c : Source(c) /\ config = Overridden(c, given)
    /\ FailClosed

Quiet ==
    /\ stage \in Unbound => \A l \in Listeners : socket[l] = NoSocket
    /\ stage # "running" => answer = "none"

\* Nothing is bound before start has formed the addresses.
Formed ==
    stage \in Listeners \union {"running"} =>
        FormsSocketAddr(config.bind_address) /\ FormsSocketAddr(config.admin_address)

LaunchInv ==
    /\ LaunchTypeOK
    /\ Provenance
    /\ Quiet
    /\ Formed
    /\ ListenersNamed
    /\ ReloadedValid

LEMMA EffectiveType ==
    ASSUME NEW S, NEW value \in S, NEW o \in Option(S)
    PROVE  Effective(value, o) \in S
  BY DEF Effective, Option

LEMMA OverriddenType ==
    ASSUME NEW c \in Config, NEW o \in Override
    PROVE  Overridden(c, o) \in Config
  <1>1. /\ o.bind_address \in Option(Addresses) /\ o.socks5_port \in Option(Ports)
        /\ o.http_port \in Option(Ports) /\ o.admin_port \in Option(Ports)
        /\ o.admin_enabled \in Option(BOOLEAN)
    BY DEF Override
  <1>2. /\ c.bind_address \in Addresses /\ c.socks5_port \in Ports /\ c.http_port \in Ports
        /\ c.admin_port \in Ports /\ c.admin_enabled \in BOOLEAN
    BY DEF Config
  <1>3. /\ Effective(c.bind_address, o.bind_address) \in Addresses
        /\ Effective(c.socks5_port, o.socks5_port) \in Ports
        /\ Effective(c.http_port, o.http_port) \in Ports
        /\ Effective(c.admin_port, o.admin_port) \in Ports
        /\ Effective(c.admin_enabled, o.admin_enabled) \in BOOLEAN
    BY <1>1, <1>2, EffectiveType
  <1> QED
    BY <1>3 DEF Overridden, Config

LEMMA SocketType ==
    ASSUME NEW c \in Config, NEW l \in Listeners
    PROVE  SocketOf(c, l) \in Sockets
  BY DEF SocketOf, Config, Sockets, Listeners

\* What is granted has the address asked for, and its port unless that is 0.
LEMMA GrantsType ==
    ASSUME NEW s \in Sockets, NEW t \in Grants(s)
    PROVE  t \in Sockets /\ t.address = s.address /\ s.port \in {0, t.port}
  BY DEF Grants, Sockets

LEMMA LaunchStep ==
    ASSUME LaunchInv, [LaunchNext]_launchVars
    PROVE  LaunchInv'
  <1>a. /\ LaunchTypeOK /\ Provenance /\ Quiet /\ Formed /\ ListenersNamed
        /\ ReloadedValid
    BY DEF LaunchInv
  <1>b. /\ config \in Config /\ given \in Override /\ default \in Config
        /\ socket \in [Listeners -> Sockets \union {NoSocket}] /\ NoSocket \notin Sockets
    BY <1>a, LaunchAssumption DEF LaunchTypeOK
  \* A step of the start before anything is bound.
  <1>c. ASSUME stage \in Unbound, NEW to \in Unbound \union Listeners \union {"exited"},
               stage' = to, config' \in Config,
               UNCHANGED <<file, given, occupied, socket, answer, edits, reloads, past>>,
               Provenance', Formed'
        PROVE  LaunchInv'
    <2>1. \A l \in Listeners : socket[l] = NoSocket
      BY <1>a, <1>c DEF Quiet
    <2>2. answer = "none" /\ to # "running"
      BY <1>a, <1>c DEF Quiet, Unbound, Listeners
    <2>3. LaunchTypeOK'
      BY <1>a, <1>c DEF LaunchTypeOK, Unbound
    <2>4. Quiet'
      BY <1>c, <2>1, <2>2 DEF Quiet
    <2>5. ListenersNamed' /\ ReloadedValid'
      BY <1>c, <2>1, <2>2 DEF ListenersNamed, ReloadedValid
    <2> QED
      BY <1>c, <2>3, <2>4, <2>5 DEF LaunchInv
  <1>1. CASE LookForFile
    <2>1. /\ stage = "look" /\ stage' = IF file \in {Missing, Unreachable} THEN "override" ELSE "load"
          /\ UNCHANGED <<file, given, occupied, config, socket, answer, edits, reloads, past>>
      BY <1>1 DEF LookForFile
    <2>2. Provenance' /\ Formed'
      BY <1>a, <2>1 DEF Provenance, Source, FailClosed, Listeners, Formed
    <2> QED
      BY <1>b, <2>1, <2>2, <1>c DEF Unbound
  <1>2. CASE load_from_file
    <2>1. /\ stage = "load"
          /\ UNCHANGED <<file, given, occupied, socket, answer, edits, reloads, past>>
          /\ \/ Loads(file) /\ stage' = "override" /\ config' = file
             \/ stage' = "exited" /\ config' = config
      BY <1>2 DEF load_from_file, Exit
    <2>2. Provenance' /\ Formed'
      BY <1>a, <2>1 DEF Provenance, Source, FailClosed, Listeners, Loads, Formed
    <2>3. config' \in Config
      BY <1>b, <2>1 DEF Loads
    <2> QED
      BY <2>1, <2>2, <2>3, <1>c DEF Unbound
  <1>3. CASE ApplyOverrides
    <2>1. /\ stage = "override" /\ stage' = "logging" /\ config' = Overridden(config, given)
          /\ UNCHANGED <<file, given, occupied, socket, answer, edits, reloads, past>>
      BY <1>3 DEF ApplyOverrides
    <2>2. \E c : Source(c)' /\ config' = Overridden(c, given)
      BY <1>a, <2>1 DEF Provenance, Source
    <2>3. Provenance' /\ Formed'
      BY <1>a, <2>1, <2>2 DEF Provenance, FailClosed, Listeners, Formed
    <2>4. config' \in Config
      BY <1>b, <2>1, OverriddenType
    <2> QED
      BY <2>1, <2>3, <2>4, <1>c DEF Unbound
  <1>4. CASE setup_logging \/ create \/ FormAddresses
    <2>1. /\ stage \in {"logging", "create", "addresses"}
          /\ stage' \in {"create", "addresses", "socks5", "exited"}
          /\ stage' = "socks5" => /\ FormsSocketAddr(config.bind_address)
                                 /\ FormsSocketAddr(config.admin_address)
          /\ UNCHANGED <<file, given, occupied, config, socket, answer, edits, reloads, past>>
      BY <1>4 DEF setup_logging, create, FormAddresses, Exit
    <2>2. Provenance' /\ Formed'
      BY <1>a, <2>1 DEF Provenance, Source, FailClosed, Listeners, Formed
    <2> QED
      BY <1>b, <2>1, <2>2, <1>c DEF Unbound, Listeners
  <1>5. ASSUME NEW l \in Listeners, Bind(l)
        PROVE  LaunchInv'
    <2> DEFINE s == SocketOf(config, l)
    <2>1. /\ stage = l
          /\ UNCHANGED <<file, given, occupied, config, answer, edits, reloads, past>>
          /\ \/ /\ \E t \in Grants(s) : socket' = [socket EXCEPT ![l] = t]
                /\ stage' \in {"http", "admin", "running"}
             \/ /\ stage' = "exited" /\ socket' = [m \in Listeners |-> NoSocket]
      BY <1>5 DEF Bind, Exit, After, Listeners
    <2>2. s \in Sockets /\ \A t \in Grants(s) : t \in Sockets
      BY <1>b, SocketType, GrantsType
    <2>3. answer = "none"
      BY <1>a, <2>1 DEF Quiet, Listeners
    <2>4. \E c : Source(c) /\ config = Overridden(c, given)
      BY <1>a, <2>1 DEF Provenance
    <2>5. Provenance'
      <3>1. FailClosed'
        BY <2>1, <2>4 DEF FailClosed, Source
      <3> QED
        BY <1>a, <2>1, <2>4, <3>1 DEF Provenance, Source, Listeners
    <2>6. LaunchTypeOK'
      BY <1>a, <1>b, <2>1, <2>2 DEF LaunchTypeOK, Listeners
    <2>7. Quiet' /\ Formed' /\ ReloadedValid'
      BY <1>a, <2>1, <2>3 DEF Quiet, Formed, ReloadedValid, Unbound
    <2> HIDE DEF s
    <2>8. CASE stage' = "exited" /\ socket' = [m \in Listeners |-> NoSocket]
      <3>1. ListenersNamed'
        BY <2>8 DEF ListenersNamed
      <3> QED
        BY <2>5, <2>6, <2>7, <3>1 DEF LaunchInv
    <2>9. ASSUME NEW t \in Grants(s), socket' = [socket EXCEPT ![l] = t]
          PROVE  LaunchInv'
      <3>1. \A m \in Listeners : socket'[m] = IF m = l THEN t ELSE socket[m]
        BY <1>b, <2>9
      <3>2. t.address = s.address /\ s.port \in {0, t.port}
        BY <2>2, GrantsType
      <3>3. ListenersNamed'
        BY <1>a, <2>1, <3>1, <3>2 DEF ListenersNamed, s
      <3> QED
        BY <2>5, <2>6, <2>7, <3>3 DEF LaunchInv
    <2> QED
      BY <2>1, <2>8, <2>9
  <1>6. CASE Reload
    <2>1. /\ stage = "running" /\ reloads < MaxReloads /\ reloads' = reloads + 1
          /\ UNCHANGED <<file, given, occupied, stage, socket, edits, past>>
          /\ \/ config' = config /\ answer' \in {"invalid", "refused", "failed"}
             \/ /\ Loads(file) /\ SameBindings(file, config)
                /\ answer' = "reloaded" /\ config' = file
      BY <1>6 DEF Reload
    <2>2. reloads' \in 0 .. MaxReloads
      BY <1>a, <2>1, LaunchAssumption DEF LaunchTypeOK
    <2>3. config' \in Config
      BY <1>b, <2>1 DEF Loads
    <2>4. LaunchTypeOK'
      BY <1>a, <2>1, <2>2, <2>3 DEF LaunchTypeOK
    <2>5. Provenance'
      BY <1>a, <2>1 DEF Provenance, FailClosed, Listeners
    <2>6. Formed'
      <3>1. CASE config' = config
        BY <1>a, <2>1, <3>1 DEF Formed
      <3>2. CASE SameBindings(file, config) /\ config' = file
        <4>1. /\ SocketOf(file, "socks5").address = SocketOf(config, "socks5").address
              /\ SocketOf(file, "admin").address = SocketOf(config, "admin").address
          BY <3>2 DEF SameBindings, Listeners
        <4>2. file.bind_address = config.bind_address /\ file.admin_address = config.admin_address
          BY <4>1 DEF SocketOf
        <4> QED
          BY <1>a, <2>1, <3>2, <4>2 DEF Formed
      <3> QED
        BY <2>1, <3>1, <3>2
    <2>7. Quiet' /\ ReloadedValid'
      BY <1>a, <2>1, <2>6 DEF Quiet, Formed, ReloadedValid, Unbound, Provenance
    <2>8. ListenersNamed'
      BY <1>a, <2>1 DEF ListenersNamed, SameBindings
    <2> QED
      BY <2>4, <2>5, <2>6, <2>7, <2>8 DEF LaunchInv
  <1>7. ASSUME NEW f \in Files, Edit(f)
        PROVE  LaunchInv'
    <2>1. /\ file' = f /\ edits < MaxEdits /\ edits' = edits + 1 /\ past' = past \union {f}
          /\ UNCHANGED <<given, occupied, stage, config, socket, answer, reloads>>
      BY <1>7 DEF Edit
    <2>2. edits' \in 0 .. MaxEdits
      BY <1>a, <2>1, LaunchAssumption DEF LaunchTypeOK
    <2>3. LaunchTypeOK'
      BY <1>a, <2>1, <2>2 DEF LaunchTypeOK
    <2>4. \A c : Source(c) => Source(c)'
      BY <2>1 DEF Source
    <2>5. FailClosed' /\ ReloadedValid'
      BY <1>a, <2>1 DEF Provenance, FailClosed, ReloadedValid
    <2>6. stage' = "override" => Source(config)'
      BY <1>a, <2>1, <2>4 DEF Provenance, Source
    <2>7. Provenance'
      BY <1>a, <2>1, <2>4, <2>5, <2>6 DEF Provenance
    <2>8. Quiet' /\ Formed' /\ ListenersNamed'
      BY <1>a, <2>1 DEF Quiet, Formed, ListenersNamed
    <2> QED
      BY <2>3, <2>5, <2>7, <2>8 DEF LaunchInv
  <1>8. CASE UNCHANGED launchVars
    <2>1. LaunchTypeOK' /\ Provenance' /\ Quiet'
      BY <1>a, <1>8 DEF launchVars, LaunchTypeOK, Provenance, Source, FailClosed, Quiet
    <2>2. Formed' /\ ListenersNamed' /\ ReloadedValid'
      BY <1>a, <1>8 DEF launchVars, Formed, ListenersNamed, ReloadedValid
    <2> QED
      BY <2>1, <2>2 DEF LaunchInv
  <1> QED
    BY <1>1, <1>2, <1>3, <1>4, <1>5, <1>6, <1>7, <1>8 DEF LaunchNext, Starting

LEMMA LaunchInvariant == LaunchSpec => []LaunchInv
  <1>1. LaunchInit => LaunchInv
    <2> SUFFICES ASSUME LaunchInit PROVE LaunchInv
      OBVIOUS
    <2>1. LaunchTypeOK
      BY LaunchAssumption DEF LaunchInit, LaunchTypeOK
    <2>2. Provenance /\ Quiet
      BY DEF LaunchInit, Provenance, Quiet, FailClosed, Listeners, Source
    <2>3. Formed /\ ListenersNamed /\ ReloadedValid
      BY DEF LaunchInit, Formed, ListenersNamed, ReloadedValid, Listeners
    <2> QED
      BY <2>1, <2>2, <2>3 DEF LaunchInv
  <1>2. LaunchInv /\ [LaunchNext]_launchVars => LaunchInv'
    BY LaunchStep
  <1> QED
    BY <1>1, <1>2, PTL DEF LaunchSpec

\* What main, the overrides and the reloads put into the state is well formed.
THEOREM LaunchTypeCorrect == LaunchSpec => []LaunchTypeOK
  BY LaunchInvariant, PTL DEF LaunchInv

\* main and /config/reload run the server on nothing but a validated version
\* of the file, or on the defaults if it was missing or out of reach.
THEOREM FailsClosed == LaunchSpec => []FailClosed
  <1>1. LaunchInv => FailClosed
    BY DEF LaunchInv, Provenance
  <1> QED
    BY <1>1, LaunchInvariant, PTL

\* The sockets stay those the configuration in force names, up to the port the
\* system chose for port 0.
THEOREM ListenersStayNamed == LaunchSpec => []ListenersNamed
  BY LaunchInvariant, PTL DEF LaunchInv

\* After a reload the whole configuration in force has passed validate, and its
\* addresses form socket addresses.
THEOREM ReloadsAreValid == LaunchSpec => []ReloadedValid
  BY LaunchInvariant, PTL DEF LaunchInv

-----------------------------------------------------------------------------
(* Where the documented reload does hold *)

\* The overrides of this start name the sockets that a file which loads names.
OverridesAgree == Loads(file) => SameBindings(file, Overridden(file, given))

\* Until the first edit, the configuration in force is the file, with the
\* overrides or without.
UneditedInv ==
    edits = 0 =>
        /\ Loads(file) =>
            /\ stage = "override" => config = file
            /\ stage \in {"logging", "create", "addresses", "running"} \union Listeners =>
                    config \in {file, Overridden(file, given)}
        /\ OverridesAgree => answer # "refused"

LEMMA UneditedStep ==
    ASSUME LaunchTypeOK, Quiet, UneditedInv, [LaunchNext]_launchVars
    PROVE  UneditedInv'
  <1> SUFFICES ASSUME edits' = 0
               PROVE  /\ Loads(file)' =>
                            /\ stage' = "override" => config' = file'
                            /\ stage' \in {"logging", "create", "addresses", "running"} \union Listeners =>
                                    config' \in {file', Overridden(file', given')}
                      /\ OverridesAgree' => answer' # "refused"
    BY DEF UneditedInv
  <1>a. ~\E f \in Files : Edit(f)
    BY LaunchAssumption DEF LaunchTypeOK, Edit
  <1>b. UNCHANGED <<file, given, edits>>
    BY <1>a DEF LaunchNext, launchVars, Starting, LookForFile, load_from_file, ApplyOverrides,
                setup_logging, create, FormAddresses, Bind, Reload
  <1>c. (Loads(file)' <=> Loads(file)) /\ (OverridesAgree' <=> OverridesAgree)
    BY <1>b DEF Loads, OverridesAgree
  <1>d. Loads(file) => file \notin {Missing, Unreachable}
    BY LaunchAssumption DEF Loads
  <1>e. /\ Loads(file) =>
            /\ stage = "override" => config = file
            /\ stage \in {"logging", "create", "addresses", "running"} \union Listeners =>
                    config \in {file, Overridden(file, given)}
        /\ OverridesAgree => answer # "refused"
    BY <1>b DEF UneditedInv
  <1>1. CASE LookForFile
    BY <1>1, <1>b, <1>c, <1>d, <1>e DEF LookForFile, Listeners
  <1>2. CASE load_from_file
    BY <1>2, <1>b, <1>c, <1>e DEF load_from_file, Listeners
  <1>3. CASE ApplyOverrides
    BY <1>3, <1>b, <1>c, <1>e DEF ApplyOverrides, Listeners
  <1>4. CASE setup_logging \/ create \/ FormAddresses
    BY <1>4, <1>b, <1>c, <1>e DEF setup_logging, create, FormAddresses, Exit, Listeners
  <1>5. CASE \E l \in Listeners : Bind(l)
    BY <1>5, <1>b, <1>c, <1>e DEF Bind, After, Exit, Listeners
  <1>6. CASE Reload
    <2>1. /\ stage = "running" /\ stage' = stage
          /\ config' \in {config, file}
          /\ answer' = "refused" => Loads(file) /\ ~SameBindings(file, config)
      BY <1>6 DEF Reload
    <2>2. Loads(file) => config \in {file, Overridden(file, given)}
      BY <1>e, <2>1
    <2>3. SameBindings(file, file)
      BY DEF SameBindings
    <2>4. OverridesAgree => answer' # "refused"
      BY <2>1, <2>2, <2>3 DEF OverridesAgree
    <2> QED
      BY <1>b, <1>c, <2>1, <2>2, <2>4
  <1>7. CASE UNCHANGED launchVars
    BY <1>7, <1>c, <1>e DEF launchVars
  <1> QED
    BY <1>1, <1>2, <1>3, <1>4, <1>5, <1>6, <1>7, <1>a DEF LaunchNext, Starting

\* A server whose overrides name the sockets of its file reloads that file for
\* as long as nobody edits it: only overrides that move a listener make
\* /config/reload refuse the file the server was started with.
THEOREM UnmovedListenersReload == LaunchSpec => [](OverridesAgree => SameFileReloads)
  <1>1. LaunchInit => UneditedInv
    BY DEF LaunchInit, UneditedInv, Listeners
  <1>2. LaunchInv /\ UneditedInv /\ [LaunchNext]_launchVars => UneditedInv'
    BY UneditedStep DEF LaunchInv
  <1>3. UneditedInv => (OverridesAgree => SameFileReloads)
    BY DEF UneditedInv, SameFileReloads
  <1> QED
    BY <1>1, <1>2, <1>3, LaunchInvariant, PTL DEF LaunchSpec
=============================================================================
