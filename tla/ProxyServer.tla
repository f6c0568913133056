----------------------------- MODULE ProxyServer -----------------------------
(***************************************************************************)
(* The two accept loops of server.rs (run_socks5_server, run_http_server), *)
(* which are the same code up to the handler they spawn, the semaphore     *)
(* that bounds the connections in service, the connection counters, and    *)
(* the per-connection tasks, running while the configuration is reloaded.  *)
(*                                                                         *)
(* An accept loop works on one connection at a time: it accepts, asks      *)
(* admit_client, waits for a permit, counts and spawns.  The spawned task  *)
(* clones the configuration and the authenticator, runs the protocol       *)
(* handler under a timeout, uncounts, and drops its permit at its end.     *)
(* What a handler does inside its timeout is not visible here.             *)
(***************************************************************************)
EXTENDS ServerState, FiniteSets

CONSTANTS
    Listeners,          \* the accept loops
    Conns,              \* the client connections of a behaviour
    Ips,                \* source addresses
    IpOf,               \* the source address of a connection
    allowed_networks,   \* security.allowed_networks: per entry, the addresses matched
    max_connections,    \* server.max_connections
    RateLimiting,       \* security.rate_limit was set at start-up
    MaxReloads,         \* bound: reloads in one behaviour
    Idle, Backoff       \* an accept loop in accept(), or sleeping 100ms

\* Config::validate refuses max_connections = 0 and no override changes it.
ASSUME ProxyAssumption ==
    /\ IpOf \in [Conns -> Ips]
    /\ allowed_networks \in [Configs -> SUBSET SUBSET Ips]
    /\ max_connections \in [Configs -> Nat \ {0}]
    /\ RateLimiting \in BOOLEAN
    /\ MaxReloads \in Nat
    /\ Idle \notin Conns /\ Backoff \notin Conns /\ Idle # Backoff
    /\ IsFiniteSet(Conns)
    /\ IsFiniteSet(Listeners)

VARIABLES
    listener,     \* what each accept loop is busy with
    cstate,       \* where each connection is
    waiters,      \* FIFO queue of the semaphore
    permits,      \* permits nobody holds
    total,        \* metrics.total_connections
    active,       \* metrics.active_connections
    snap,         \* configuration and authenticator a task cloned
    arrival,      \* history: installs so far when the client was accepted
    admission     \* history: installs so far when the client was admitted

connVars == <<listener, cstate, waiters, permits, total, active>>
pastVars == <<snap, arrival, admission>>
vars == <<stateVars, connVars, pastVars>>

-----------------------------------------------------------------------------
\* new -> accepted -> refused
\*                 -> admitted [-> queued] -> granted -> spawned -> serving
\*                                                -> closing -> closed
States == {"new", "accepted", "refused", "admitted", "queued", "granted",
           "spawned", "serving", "closing", "closed"}

In(S) == {c \in Conns : cstate[c] \in S}

\* Connections an accept loop is busy with.
Pending == In({"accepted", "admitted", "queued", "granted"})

BusyLoops == {l \in Listeners : listener[l] \in Conns}

\* Connections that hold a permit, and those the gauge counts.
Holders == In({"granted", "spawned", "serving", "closing"})
Counted == In({"spawned", "serving"})

\* Semaphore::new(config.server.max_connections), sized once.
Capacity == max_connections[InitialConfig]

NoSnap == [config |-> InitialConfig, authenticator |-> NoAuth]

Init ==
    /\ StateInit
    /\ listener = [l \in Listeners |-> Idle]
    /\ cstate = [c \in Conns |-> "new"]
    /\ waiters = << >>
    /\ permits = Capacity
    /\ total = 0
    /\ active = 0
    /\ snap = [c \in Conns |-> NoSnap]
    /\ arrival = [c \in Conns |-> 0]
    /\ admission = [c \in Conns |-> 0]

\* upstream.rs: an empty list allows everyone.
check_client_allowed(cfg, ip) ==
    \/ allowed_networks[cfg] = {}
    \/ \E net \in allowed_networks[cfg] : ip \in net

-----------------------------------------------------------------------------
(* The accept loop *)

Accept(l, c) ==
    /\ listener[l] = Idle
    /\ cstate[c] = "new"
    /\ listener' = [listener EXCEPT ![l] = c]
    /\ cstate' = [cstate EXCEPT ![c] = "accepted"]
    /\ arrival' = [arrival EXCEPT ![c] = Len(installed)]
    /\ UNCHANGED <<stateVars, waiters, permits, total, active, snap, admission>>

\* accept() failed: log and sleep.
AcceptError(l) ==
    /\ listener[l] = Idle
    /\ listener' = [listener EXCEPT ![l] = Backoff]
    /\ UNCHANGED <<stateVars, cstate, waiters, permits, total, active, pastVars>>

\* Mutant: the sleep is repeated instead of accept().
BackoffEnds_Again(l) == listener[l] = Backoff /\ UNCHANGED vars

BackoffEnds(l) ==
    /\ listener[l] = Backoff
    /\ listener' = [listener EXCEPT ![l] = Idle]
    /\ UNCHANGED <<stateVars, cstate, waiters, permits, total, active, pastVars>>

\* admit_client returns true.
Admit(l, c) ==
    /\ listener[l] = c
    /\ cstate[c] = "accepted"
    /\ Readable
    /\ check_client_allowed(config, IpOf[c])
    /\ cstate' = [cstate EXCEPT ![c] = "admitted"]
    /\ admission' = [admission EXCEPT ![c] = Len(installed)]
    /\ UNCHANGED <<stateVars, listener, waiters, permits, total, active, snap, arrival>>

\* admit_client returns false: the stream is dropped, the loop continues.
\* Which clients the rate limiter turns away is RateLimiter's subject.
Refuse(l, c) ==
    /\ listener[l] = c
    /\ cstate[c] = "accepted"
    /\ Readable
    /\ check_client_allowed(config, IpOf[c]) => RateLimiting
    /\ cstate' = [cstate EXCEPT ![c] = "refused"]
    /\ listener' = [listener EXCEPT ![l] = Idle]
    /\ UNCHANGED <<stateVars, waiters, permits, total, active, pastVars>>

\* acquire_owned() finds a permit.
TakePermit(l, c) ==
    /\ listener[l] = c
    /\ cstate[c] = "admitted"
    /\ permits > 0
    /\ permits' = permits - 1
    /\ cstate' = [cstate EXCEPT ![c] = "granted"]
    /\ UNCHANGED <<stateVars, listener, waiters, total, active, pastVars>>

\* Mutant: the permit is awaited in the task, the loop goes on accepting.
WaitForPermit_InTask(l, c) ==
    /\ listener[l] = c
    /\ cstate[c] = "admitted"
    /\ permits = 0
    /\ waiters' = Append(waiters, c)
    /\ cstate' = [cstate EXCEPT ![c] = "queued"]
    /\ listener' = [listener EXCEPT ![l] = Idle]
    /\ UNCHANGED <<stateVars, permits, total, active, pastVars>>

\* acquire_owned() finds none: the accept loop waits, and accepts nobody else.
WaitForPermit(l, c) ==
    /\ listener[l] = c
    /\ cstate[c] = "admitted"
    /\ permits = 0
    /\ waiters' = Append(waiters, c)
    /\ cstate' = [cstate EXCEPT ![c] = "queued"]
    /\ UNCHANGED <<stateVars, listener, permits, total, active, pastVars>>

\* Mutant: "let _ = permit" in the task drops the permit at once.
Spawn_DropsPermit(l, c) ==
    /\ listener[l] = c
    /\ cstate[c] = "granted"
    /\ total' = total + 1
    /\ active' = active + 1
    /\ permits' = permits + 1
    /\ cstate' = [cstate EXCEPT ![c] = "spawned"]
    /\ listener' = [listener EXCEPT ![l] = Idle]
    /\ UNCHANGED <<stateVars, waiters, pastVars>>

\* Both counters are incremented, then the task is spawned.
Spawn(l, c) ==
    /\ listener[l] = c
    /\ cstate[c] = "granted"
    /\ total' = total + 1
    /\ active' = active + 1
    /\ cstate' = [cstate EXCEPT ![c] = "spawned"]
    /\ listener' = [listener EXCEPT ![l] = Idle]
    /\ UNCHANGED <<stateVars, waiters, permits, pastVars>>

-----------------------------------------------------------------------------
(* The connection task *)

\* Mutant: the task works with the configuration the loop started with.
Snapshot_Startup(c) ==
    /\ cstate[c] = "spawned"
    /\ Readable
    /\ snap' = [snap EXCEPT ![c] = [config |-> InitialConfig,
                                    authenticator |-> AuthenticatorOf(InitialConfig)]]
    /\ cstate' = [cstate EXCEPT ![c] = "serving"]
    /\ UNCHANGED <<stateVars, listener, waiters, permits, total, active, arrival, admission>>

\* (guard.config.clone(), guard.authenticator.clone()) under one read guard.
Snapshot(c) ==
    /\ cstate[c] = "spawned"
    /\ Readable
    /\ snap' = [snap EXCEPT ![c] = [config |-> config, authenticator |-> authenticator]]
    /\ cstate' = [cstate EXCEPT ![c] = "serving"]
    /\ UNCHANGED <<stateVars, listener, waiters, permits, total, active, arrival, admission>>

\* Mutant: the handler's error is propagated past the decrement.
Finish_EarlyReturn(c) ==
    /\ cstate[c] = "serving"
    /\ active' \in {active, active - 1}
    /\ cstate' = [cstate EXCEPT ![c] = "closing"]
    /\ UNCHANGED <<stateVars, listener, waiters, permits, total, pastVars>>

\* The handler returned, with success or an error, or the timeout cut it off.
Finish(c) ==
    /\ cstate[c] = "serving"
    /\ active' = active - 1
    /\ cstate' = [cstate EXCEPT ![c] = "closing"]
    /\ UNCHANGED <<stateVars, listener, waiters, permits, total, pastVars>>

\* Mutant: the permit is forgotten instead of dropped.
ReturnPermit_Forgotten(c) ==
    /\ cstate[c] = "closing"
    /\ waiters = << >>
    /\ cstate' = [cstate EXCEPT ![c] = "closed"]
    /\ UNCHANGED <<stateVars, listener, waiters, permits, total, active, pastVars>>

\* The task ends and drops its permit: tokio's semaphore gives it to the
\* longest waiter, and only without one back to the pool.
ReturnPermit(c) ==
    /\ cstate[c] = "closing"
    /\ waiters = << >>
    /\ permits' = permits + 1
    /\ cstate' = [cstate EXCEPT ![c] = "closed"]
    /\ UNCHANGED <<stateVars, listener, waiters, total, active, pastVars>>

\* Mutant: the permit goes back to the pool and no waiter is woken.
HandOverPermit_LostWakeup(c) ==
    /\ cstate[c] = "closing"
    /\ waiters # << >>
    /\ permits' = permits + 1
    /\ cstate' = [cstate EXCEPT ![c] = "closed"]
    /\ UNCHANGED <<stateVars, listener, waiters, total, active, pastVars>>

\* Mutant: the latest waiter is served first.
HandOverPermit_Latest(c) ==
    /\ cstate[c] = "closing"
    /\ waiters # << >>
    /\ waiters' = SubSeq(waiters, 1, Len(waiters) - 1)
    /\ cstate' = [cstate EXCEPT ![c] = "closed", ![waiters[Len(waiters)]] = "granted"]
    /\ UNCHANGED <<stateVars, listener, permits, total, active, pastVars>>

HandOverPermit(c) ==
    /\ cstate[c] = "closing"
    /\ waiters # << >>
    /\ waiters' = Tail(waiters)
    /\ cstate' = [cstate EXCEPT ![c] = "closed", ![Head(waiters)] = "granted"]
    /\ UNCHANGED <<stateVars, listener, permits, total, active, pastVars>>

-----------------------------------------------------------------------------
Loop(l) ==
    \/ AcceptError(l)
    \/ BackoffEnds(l)
    \/ \E c \in Conns :
        \/ Accept(l, c)
        \/ Admit(l, c)
        \/ Refuse(l, c)
        \/ TakePermit(l, c)
        \/ WaitForPermit(l, c)
        \/ Spawn(l, c)

Task(c) ==
    \/ Snapshot(c)
    \/ Finish(c)
    \/ ReturnPermit(c)
    \/ HandOverPermit(c)

\* A reload, as the rest of the server sees it.
Reloading ==
    /\ Reload
    /\ Len(installed') <= MaxReloads + 1
    /\ UNCHANGED <<connVars, pastVars>>

Next ==
    \/ \E l \in Listeners : Loop(l)
    \/ \E c \in Conns : Task(c)
    \/ Reloading

\* Reading is strongly fair: tokio's RwLock queues readers and writers in
\* order, so a reader gets its turn between two writers.  Finish is weakly
\* fair because of the timeout around the handler.  The writer finishes: its
\* response is a few bytes and fits the socket's send buffer.  Clients need
\* not come, and accept() need not fail.
Fairness ==
    /\ \A l \in Listeners :
        /\ WF_vars(BackoffEnds(l))
        /\ SF_vars(\E c \in Conns : Admit(l, c) \/ Refuse(l, c))
        /\ WF_vars(\E c \in Conns : TakePermit(l, c) \/ WaitForPermit(l, c))
        /\ WF_vars(\E c \in Conns : Spawn(l, c))
    /\ \A c \in Conns :
        /\ SF_vars(Snapshot(c))
        /\ WF_vars(Finish(c))
        /\ WF_vars(ReturnPermit(c) \/ HandOverPermit(c))
    /\ WF_vars((InstallAuthenticator \/ ReleaseWrite) /\ UNCHANGED <<connVars, pastVars>>)

Spec == Init /\ [][Next]_vars
FairSpec == Spec /\ Fairness

-----------------------------------------------------------------------------
(* Properties *)

\* The counters are naturals, the queue holds connections, and every field
\* has the type its struct declares.
TypeOK ==
    /\ StateTypeOK
    /\ listener \in [Listeners -> Conns \union {Idle, Backoff}]
    /\ cstate \in [Conns -> States]
    /\ waiters \in Seq(Conns)
    /\ permits \in Nat
    /\ total \in Nat
    /\ active \in Nat
    /\ snap \in [Conns -> [config : Configs, authenticator : Configs \union {NoAuth}]]
    /\ arrival \in [Conns -> Nat]
    /\ admission \in [Conns -> Nat]

\* No permit is lost or duplicated, whatever the order in which tasks end,
\* loops queue and permits are handed over (acquire_owned in the loop, the
\* drop of _permit at the end of the task).
PermitsConserved == permits + Cardinality(Holders) = Capacity

\* Nobody waits while a permit is free, and the queue holds exactly the
\* connections that wait, each once.
QueueExact ==
    /\ waiters # << >> => permits = 0
    /\ \A c \in Conns : cstate[c] = "queued" <=> \E i \in DOMAIN waiters : waiters[i] = c
    /\ \A i, j \in DOMAIN waiters : waiters[i] = waiters[j] => i = j

\* active_connections counts the connections being served, never more than
\* the limit, and total_connections every connection that ever was.
GaugeExact ==
    /\ active = Cardinality(Counted)
    /\ active <= Capacity
    /\ total = Cardinality(Counted) + Cardinality(In({"closing", "closed"}))

\* "Acquire permit before spawning to provide backpressure": besides those in
\* service the server holds at most one socket per accept loop, and only while
\* that loop is busy with it and accepts nobody else.
SocketsBounded ==
    /\ Cardinality(Pending) <= Cardinality(BusyLoops)
    /\ Cardinality(Pending \union Holders) <= Capacity + Cardinality(Listeners)

\* A task never serves with a configuration and the authenticator of another
\* one, although a reload assigns the two fields one after the other.
SnapshotPaired ==
    \A c \in In({"serving", "closing", "closed"}) :
        snap[c].authenticator = AuthenticatorOf(snap[c].config)

\* A connection in service was listed by a configuration that was current after
\* it arrived, and is served with that one, or with one that a reload installed
\* after its admission: once a reload has returned, later arrivals never meet
\* the previous policy, and who waits for a permit meets no older one than let
\* it in.  (A list without entries is not looked at.)
PolicyFresh ==
    \A c \in In({"serving"}) :
        LET admitting == installed[admission[c]]
            later == {installed[e] : e \in admission[c] + 1 .. Len(installed)}
        IN  /\ arrival[c] <= admission[c]
            /\ allowed_networks[admitting] # {} =>
                \E net \in allowed_networks[admitting] : IpOf[c] \in net
            /\ snap[c].config \in {admitting} \union later

\* Permits are granted in the order in which loops began to wait: nobody is
\* granted one past a connection that stays queued.
NoOvertaking ==
    [][\A c, d \in Conns :
        (/\ cstate[c] = "queued" /\ cstate'[c] = "queued"
         /\ cstate[d] # "granted" /\ cstate'[d] = "granted")
        => \E i, j \in DOMAIN waiters : i < j /\ waiters[i] = d /\ waiters[j] = c]_vars

\* Every accepted connection is refused or served to its end.
EverySettled ==
    \A c \in Conns : cstate[c] = "accepted" ~> cstate[c] \in {"refused", "closed"}

\* An accept loop always comes back to accept(): neither a full semaphore
\* nor a reload nor accept errors stop it for ever.
LoopsReturn == \A l \in Listeners : []<>(listener[l] = Idle)

-----------------------------------------------------------------------------
(* What the clients see *)

View(s) ==
    CASE s = "new" -> "away"
      [] s \in {"accepted", "admitted", "queued", "granted"} -> "waiting"
      [] s \in {"spawned", "serving", "closing"} -> "served"
      [] s \in {"refused", "closed"} -> "gone"

clientOf == [c \in Conns |-> View(cstate[c])]

Service == INSTANCE BoundedService
    WITH Clients <- Conns, Limit <- Capacity, client <- clientOf

\* The accept loops, the semaphore and the tasks implement a service bounded
\* by max_connections: a permit handed from a task to a waiting loop is never
\* two clients in service.
ServiceSafe == Service!BSafeSpec
=============================================================================
