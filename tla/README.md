# A TLA+ model of rust-socksd

rust-socksd is a SOCKS5 and HTTP forward proxy with per-client admission
control, authentication backends, destination rules, chaining to an upstream
proxy, and an admin API that can exchange the configuration of the running
server. The modules in this directory model the parts of it where tasks
interleave and state is shared; TLC checks them on small instances and TLAPS
proves the main safety properties for all instances. Source paths below are
relative to the repository (`src/server.rs` is the Rust file).

## 1. Inventory

| Component | State | Operations | Interacts with |
|---|---|---|---|
| Accept loops (`server.rs`: `run_socks5_server`, `run_http_server`, `admit_client`) | one socket in hand per loop, the semaphore and its FIFO queue | accept, back off after an error, admit or drop, acquire a permit, count, spawn | shared state (read), rate limiter, semaphore, metrics |
| Connection tasks (`server.rs`) | the permit, a clone of configuration and authenticator | snapshot, handler under `connection_timeout`, uncount, drop the permit | shared state (read), session, metrics |
| Shared state (`server.rs`: `ServerState`) | configuration and authenticator behind one tokio `RwLock` | read, exchange | read by loops, tasks and admin requests, written by reloads |
| Rate limiter (`ratelimit.rs`) | map from address to bucket behind a mutex | `check`: read the clock, lock, evict, refill, consume | called by both loops |
| Session (`socks5.rs`, `http_proxy.rs`, `server.rs`: `handle_*`, `relay_data`) | where the protocol is, the verdict of the backend | handshake, authenticate, request, reply, relay; cut off by the timeout | backend, upstream, metrics |
| Destination policy and routing (`upstream.rs`) | target, resolved addresses, route | check the domain, resolve, check every address, choose a route, connect, upstream handshake | name service, upstream proxies |
| Admin API (`admin.rs`) | token store with expiries, start-up lifetime | `/health`, `/login`, read-only endpoints, `/config/reload` | shared state (read and write), file, backend |
| Metrics (`metrics.rs`) | six atomic counters | incremented and decremented by the above | |
| Start-up and configuration (`main.rs`, `config.rs`, `server.rs`: `create`, `start`) | the YAML file, overrides, listening sockets | look for, load, validate, override, create, bind; edit, reload | file, system, admin API |
| Relay (`server.rs`, `http_proxy.rs`, `upstream.rs`, `socks5.rs`) | sockets, `BufReader`s, copy buffers, byte counters | read a head, `into_inner`, copy, pass on an end, count | client, target or upstream |
| Backends (`auth/ldap.rs`, `sql.rs`, `pam.rs`) | where `authenticate` is, what the search returned | connect, bind, search, query, bind again | directory, database, PAM; sessions, `/login` |
| User store (`config/user_config.rs`, `main.rs`, `auth/simple.rs`) | the user file, the table in each process's memory | init, add, remove, update, enable, list; load | simple backend |

What is hard about it:

* **Concurrency.** Two accept loops share the semaphore and the rate limiter; a
  task per connection and a task per admin request share the configuration;
  commands and the server share the user file without any lock.
  Everything between two awaits, or between reading the clock and taking a
  mutex, can be overtaken.
* **Stale values.** Admission, snapshot and service may meet three different
  configurations. A reload compares the file with a clone taken earlier. A name
  may resolve differently a moment later. Some limits are sized at start-up.
* **Failure.** Every read and write can fail, backends return errors, lookups
  fail, a timeout drops the session's future at whatever await it has reached. A
  user command may be killed while it rewrites its file, and a file may be
  spoiled or removed while the server starts or reloads.
* **Progress.** A full semaphore stops the accept loops; the write guard of a
  reload is alive while its answer is being sent and stops everybody's reads.

`PROJECT.json` lists these as hazards at their lines, with the properties that
are aimed at them.

What correctness means, per component: permits, gauge and queue are exact and
everybody accepted is settled (accept loops); a reader never sees half a reload
(shared state); an address gets its burst and a bounded rate (rate limiter); no
connection past the authenticator or the rules, truthful replies, an end
(session and routing); tokens only for administrators and only for a configured
lifetime, bindings fixed, reloads answered (admin API); no fallback to the
defaults once a file is seen, listeners that are the configured ones, valid
configurations after reloads (start-up); bytes in order, orderly ends last,
losses only where a `BufReader` is dropped or the session is cut (relay); nobody let
in without an account and its password (backends); an atomic table as long as
commands do not overlap, and no invented credentials even if they do (user
store).

## 2. Modules

| Module | Models | Role |
|---|---|---|
| `ServerState` | the `RwLock`ed pair, reader and writer steps | what a reload promises the rest of the server |
| `BoundedService` | none | abstract: a client is turned away or served, at most `Limit` at a time |
| `ProxyServer` | accept loops, semaphore, tasks, gauges | extends `ServerState`, implements `BoundedService` |
| `RateLimiter` | `ratelimit.rs` | component |
| `AdminServer` | `admin.rs` | component, implements `ServerState` |
| `Server` | what `ProxyServer::start` runs: loops, tasks and admin requests over one state | composes `AdminServer` and `ProxyServer`, implements `ProxyServer` |
| `Cidr` | `match_cidr` | algorithm, with the meaning of a prefix beside it |
| `Upstream` | `connect_to_target` and what it calls | extends `Cidr` |
| `Session` | SOCKS5 and HTTP sessions | extends `Upstream`, composes with it |
| `Relay` | the bytes of a session | component |
| `Backends` | LDAP, SQL and PAM `authenticate` | component; what `Session` and `AdminServer` take a verdict from |
| `UserTable` | none | abstract: a table each command changes in one step |
| `UserStore` | the user file, its commands, the server that loads it | extends `UserTable`, implements it |
| `Launch` | start-up, overrides, binding, reload | component |
| `MC*` | | constants for TLC |
| `*Proofs` | | theorems: `ProxyServer`, `RateLimiter`, `AdminServer` (with `Server`), `Session` (with `Upstream` and `Cidr`), `Relay`, `Backends`, `UserStore`, `Launch` |

**ServerState.** `config`, `authenticator` and `write`, the write guard, which is
`"config"` between the two assignments of a reload and `"both"` while its answer
is sent. A read guard never crosses an await, so reading is one step guarded by
`Readable`. An authenticator is represented by the configuration it was built
from.

**ProxyServer.** The two `run_*_server` functions are the same code up to the
handler, so there is one set of actions over `Listeners`. A connection moves
`new → accepted → refused`, or `→ admitted → (queued →) granted → spawned →
serving → closing → closed`; each arrow is an action. `TakePermit` and
`WaitForPermit` are the two outcomes of `acquire_owned`, `ReturnPermit` and
`HandOverPermit` the two of dropping the permit (tokio's semaphore is external
and FIFO). What the handler does within its timeout is `Session`; seen from here
it is `Finish`. Which clients the rate limiter turns away is left open here
(`RateLimiting` allows `Refuse`), and decided in `RateLimiter`.

**RateLimiter.** `ReadClock` is the first line of `check`; `Allow` and `Deny` are
everything under the mutex. Time is in ticks and a bucket in units, one unit per
tick, so the arithmetic is exact where the source uses `f64`. An `Instant` that
is earlier saturates to a zero duration, as in the standard library.

**AdminServer.** One program counter per request; a step per await.
`/metrics`, `/config`, `/config/validate` and unknown paths change nothing and
are one kind of request. The file is edited and time passes at any moment. A
client presents only tokens it can know. A configuration is a value with its
bindings, administrators, static token, lifetime and the users its backend knows.

**Server.** A step is one of `AdminServer`, or one of `ProxyServer`'s loops and
tasks; `guard` shows the write guard of an admin request as `ProxyServer` sees it,
whose own reloads take no part. `texts`, `answered` and `overlapped` are histories:
what the file has held, which of it an administrator had been told is in force when
a client was accepted, and whether two reloads were ever under way together.

**Cidr.** An address is its family and its value; the widths are parameters. The
mask is arithmetic on the value, as in the source; `InNetwork` says bit by bit
what a prefix means. An entry that does not parse behaves as one whose prefix is
too long. Powers of two are a recursive function, so that the provers can reason
about them.

**Upstream.** A host is a name or an address; an entry of a network list is one of
`Cidr`, an entry of a domain list the hosts its suffix comparison would accept.
The name service may answer every lookup differently, including not at all.
A failure is the class its text falls into: `blocked` for a rule's refusal,
`unreachable`, and `quoted` for a text that holds the phrase the callers look for
although no rule refused. Two texts can: the one that names the host (`Phrased` is
the set of hosts that contain the phrase) and the one that repeats the first line
of an HTTP upstream.

**Session.** The client chooses methods, credentials, commands and targets
freely, and every read and write on its stream may fail (`StreamFails`). The
backend's verdict is arbitrary. `connect_to_target`'s steps are conjoined by
`Connect`, its call by `handle_request` and `HttpTarget`. `reply_code` is the
substring test of `server.rs:389` and `http_proxy.rs:242` and `:281` on the class
of the error. Bytes are a count here; `Relay` has their order.

**Relay.** Unit `n` of a stream is the number `n`. `Fill` is a read of a
`BufReader`, which takes whatever is in the socket; `into_inner` drops the rest of
its buffer; `read_exact` takes the head and no more. `Answer` is what the proxy
itself says: a reply to the client, or for a regular request the rewritten head to
the target (`Spoken`), counted in `wrote` apart from what is copied (`got`). `Pull`, `Push` and
`PassShutDown` are tokio's `copy_bidirectional` (external): reads of any size,
short writes, an end passed on after the last byte. `relay_data` adds the totals;
`Cut` is an error, a refused head or the timeout: the handler's future is dropped
and with it both sockets and all that is under way. `shut` tells an end that was
passed on (`"end"`) from one that the cut made (`"closed"`); a peer cannot.

**Backends.** Each message to the service is a step which may fail; others change
accounts in between. A name may be a pattern and a password empty. `found` is what
the search returned.

**UserStore.** A command is a process: `Look`, `load_from_file`, a change in
memory, `Truncate`, `Write`, and `Kill` at any point before. `CutOff` is a kill or
an error while the text is written: it leaves nothing, a text that is no table, or
a table that lacks the users whose entries were still to come (`Partial`). One who
loads while another writes may find the same (`Found`). A file that two processes
write at once holds the second text followed by the rest of the first: nothing
readable, or a table with entries of both (`Overlaid`); if the second is cut off,
the entry at the seam may even stand under another name (`Torn`). `saved` and
`overlapped` are the variables of `UserTable`. A write that is not cut off is one
step, so two commands that are both part-way through their texts at the same time
are outside; `Path::exists` on the user file is taken for its presence, as a file
that is out of reach cannot be written either.

In `UserTable` the type of a new hash is left open: `doc/authentication.md:42`
promises one per user, the code gives one per file (section 4).

**Launch.** `stage` is the progress of `main` through `create` and `start` to the
last `bind`, `setup_logging` included, which panics when a log file cannot be
opened or has no name. The file changes at any moment and may be out of reach
(`Unreachable`): then `Path::exists` is false, as for a missing one. For port 0 the
system chooses the port (`Grants`). The options keep the difference
between not given, not parsable and given, on the command line and in the
environment. A reload is one step here, as only the configurations matter;
`AdminServer` has its steps.

## 3. Runs

All bounds are constants of the `.cfg` files. The type invariants (but
`STypeOK`, which also says that a session counts at most one authentication
failure), the strengthenings `BudgetPaid` and `RewoundBounded`,
`AuthorisedShowedToken`, and `StateImplemented`, which is a part of
`ProxyImplemented`, are proved for all instances (section 5) and left out of the
runs.

| Run | Checks | Shows |
|---|---|---|
| `proxy` | `PermitsConserved`, `QueueExact`, `GaugeExact`, `SocketsBounded`, `SnapshotPaired`, `PolicyFresh`, `NoOvertaking`, `ServiceSafe`, `EverySettled`, `LoopsReturn` | two loops, three connections from two addresses, one permit, a reload at any moment that asks for two permits and no longer lists one of the addresses |
| `rate_two_loops_bound` | `RateBound`, `BurstHonoured` | at most the burst and twice the rate, at least the burst, with evictions |
| `server` | `BindingsFixed`, `TokensEarned`, `ReloadReachesClients`, `TokenLifetime`, `ProxyImplemented`, `ReloadAnswered` | two overlapping admin requests of any kind beside an accept loop and a client, two edits of the file, an invalid file and one with other ports among them |
| `session` | `STypeOK`, `EgressRespected`, `RulesExact`, `AuthFirst`, `ReplyTruthful`, `SessionEnds` | both protocols, every combination of rules, exclusions and upstreams, changing DNS answers, a host name and an upstream's line that hold the phrase of a policy refusal |
| `relay` | `InOrder`, `LossBounded`, `EndIsLast`, `CountedOnce`, `RelayDelivers` | three client protocols, three routes, reads and writes of any size, cuts that close both sockets |
| `backends` | `GrantEarned`, `TroubleRefuses`, `AmbiguousRefused` | every backend, two accounts that change twice during a call |
| `users` | `FileFaithful`, `LoginEarned`, `Verifiable`, `TableImplemented` | three commands, one after the other or overlapping, killed anywhere, cut off with any part written |
| `launch` | `FailClosed`, `ListenersNamed`, `ReloadedValid`, `ValidStarts` | ten states of the file, 108 combinations of overrides, two edits, two reloads |
| `rate_two_loops` | `TokenBucketRate` (violated) | the documentation disagrees |
| `admin_overlap` | `ReloadTakesEffect` (violated) | the documentation disagrees |
| `upstream_resolved_once` | `ResolvedOnce` (violated) | a comment disagrees |
| `launch_same_file` | `SameFileReloads` (violated) | the documentation disagrees |

Why the bounds are enough to be interesting:

* One permit and three connections let one be served while both loops wait, so
  hand-over, order and backpressure all happen. One reload has three steps that
  interleave with everything. The theorems have none of these bounds.
* In `MCRateLimiter.cfg` a token is two ticks, a burst one token, and eviction
  begins with the second bucket, so denials, capped refills, refills that move
  back and evictions occur within five ticks.
* Two admin requests are any pair of login, reload and authorised request; the
  clock runs past a token's lifetime. The second configuration has another
  `token_ttl` and tokens are issued under both. A reload may overlap another one and an
  edit, which is the case that matters for the shared state. The client is refused
  under the first configuration and admitted under the second, so it is served
  only after a reload; clients that wait for a permit meanwhile are in `proxy`, and
  in the theorem.
* The configurations of `MCSession` combine an allowing rule (one whose prefix
  is too long included), a blocking rule, an exclusion by address, one by domain,
  a configured upstream and one from the environment, with and without
  authentication. Two addresses in an answer, in both orders, separate "the first
  passes" from "all pass". Addresses have few bits; the boundaries of `match_cidr`
  (a prefix of zero, of the whole width, beyond it, an unaligned base) are all
  among the entries.
* Heads of two units and four units per peer: a head can arrive in two reads, and
  a read can hold the end of the head, data beyond it, and still leave data for
  the relay; two units after the head can be out of order or lost one by one.
* Two accounts can share a name, and two changes can rename one and give its
  name to the other between the search and the bind.
* Three commands are the least for a change to be lost between two others, and
  for a table left by one to be rewritten, garbled or found empty by the next.
* Ports 0 to 3 make every collision of listeners and overrides possible, port 0
  with its chosen port included, and one set of occupied sockets makes the second
  bind fail.

Deadlock is checked where the system runs for ever (accept loops, rate limiter
under its clock). Sessions, admin requests, commands, calls of a backend and
failed starts end, so their runs say `CHECK_DEADLOCK FALSE`.

### Fairness

* `ProxyServer`: reading the shared state is strongly fair, because tokio's
  `RwLock` queues readers and writers in order. `Finish` is weakly fair because
  of the timeout around the handler; `SessionEnds` is the same statement about
  the handler itself. A permit that is free or handed over is taken by a task
  that is ready to run. The writer finishes: its answer is a few bytes and fits
  the socket's send buffer. No client has to come and `accept` need not fail.
* `AdminServer` and `Server`: the lock is fair, so the steps of a request that
  wants it are strongly fair; loading a file and building an authenticator end. Nothing is assumed about a request being read: `read_request` has no
  timeout, and a client that sends nothing keeps its task.
* `Session`: only that the timer fires (`WF(Timeout)`). No client, backend, name
  service or target has to do anything.
* `Relay`: `copy_bidirectional` polls both directions, so a direction that can go
  on does, and a peer that reads takes what is written. `RelayDelivers` allows for
  the session being cut off. No peer has to send, and nothing has to fail.
* `Launch`: `main` goes on; every step of the start returns.

## 4. Where code and documentation disagree

Four runs show a disagreement each; `PROJECT.json` quotes the lines. For each of
them a theorem says under which condition the documented statement does hold.

1. `check` reads the clock before it takes the mutex. A call that was overtaken
   sets `last_refill` back, and the interval in between is granted twice.
   `RateBound` shows how far it goes: never beyond twice the rate. With one
   listener the statement holds (`OneLoopRate`).
2. Of two overlapping reloads the one that read the older file may write last;
   both answer 200. Without overlap the statement holds
   (`ReloadsAloneTakeEffect`), up to the clients (`ReloadsReachClients`).
3. With an exclusion by address and no egress rule a name is looked up once for
   the route and again to connect. With egress rules, or without such an
   exclusion, there is one lookup (`ResolvedOnceWithRules`), and `EgressRespected`
   says that what is connected to has been checked.
4. With an address or port overridden on the command line or in the environment,
   as `doc/docker.md:50` does, every reload of the unchanged file is refused as an
   attempt to change it. Overrides that give what the file says anyway do not have
   this effect (`UnmovedListenersReload`).

Others were met while modelling and have no run of their own. Where a property of
a passing run comes near one of them, its statement leaves the disputed case open
instead of confirming what the code does:

* An empty `allowed_networks` admits everybody; `doc/configuration.md:74` and
  `:105` say it rejects all (the comment in `src/upstream.rs` agrees with the
  code). `PolicyFresh` speaks of lists with entries, and in `proxy` every list has
  some; `server` has a configuration with an empty one. Entries
  never match an address of the other family, so the default `0.0.0.0/0` admits
  no IPv6 client.
* `/login` announces `token_ttl` of the configuration in force, the store applies
  the one of start-up (`doc/admin_api.md:28` and `:85`). `TokenLifetime` bounds a
  token by the lifetime of some configuration that has been in force, which both
  readings keep. The semaphore and the rate limiter
  are sized at start-up, too, and ignore a reload (`doc/configuration.md:34`).
* Bytes of a relay that ends by an error or the timeout are not counted, nor is
  the head of a regular request that is forwarded, while `doc/admin_api.md:109` and
  `:112` promise totals of what was transmitted and received. `CountedOnce` gives
  bounds that hold with and without them.
* A session that is cut closes its sockets as one that ends in order does, so a peer
  may see an end after a part of the stream. `EndIsLast` speaks of ends that are
  passed on.
* A refusal is recognised by a phrase in the text of the error (`server.rs:389`,
  `http_proxy.rs:242` and `:281`), which a host name or the first line of an HTTP
  upstream may contain: the client is then told of a policy although no rule
  refused. `ReplyTruthful` names these two cases and excludes all others.
* The comment at `src/main.rs:215` says a present but invalid file must not be
  replaced by the defaults. One whose metadata cannot be read is not seen by
  `Path::exists` and is; `FailClosed` names the case.
* `allowed_networks` is checked before the wait for a permit, so a client may
  handshake under a newer configuration that does not list it
  (`doc/configuration.md:105`, "upon handshake"; `PolicyFresh` says what holds).
* A bucket that takes more than ten minutes to fill comes back full after an
  eviction.
* `*` is a wildcard in `NO_PROXY` but not in `exclude_networks` and
  `exclude_domains` (`doc/configuration.md:150`).
* A refused SOCKS5 login is not counted when its client is gone before the answer
  (`doc/admin_api.md:115`).
* `doc/authentication.md:42` has `user add --hash-type` choose a hash type for a
  user; it has no effect once the file exists. `Verifiable` does not say which type
  a hash is of, only that its user can log in.
* `user add` accepts an empty name, and then neither the server nor any command
  loads the file again. A command killed while it writes leaves an empty file or
  a part of it, with the same effect unless the part happens to be a table, which
  then lacks users.
* `validate` accepts IPv6 addresses to bind to, which `start` cannot form, and
  `start` needs a well-formed admin address even if the admin API is off. A log file
  that cannot be opened ends the process with a panic.

## 5. What is proved

All proofs are for arbitrary constants that satisfy the named assumptions:
`ConfigsAssumption` and `ProxyAssumption` (finite sets of connections and loops,
a positive limit), `LimiterAssumption` (a token costs something, at most two
loops), `BackendsAssumption` (finitely many accounts), and types only in
`UpstreamAssumption`, `SessionAssumption`, `WidthAssumption`, `RelayAssumption`,
`UserStoreAssumption`, `LaunchAssumption` and the one of `AdminServer`.
`ServerAssumption` is `ProxyAssumption` for the constants of the composition.

**ProxyServerProofs.** `PermitsConserved` is not inductive on its own: that a
permit is handed to the head of the queue conserves permits only if the head is
a connection in state `queued`. The invariant is
`IInv == TypeOK /\ Accounting /\ QueueExact`, where `Accounting` says how permits,
gauge and total follow from the numbers of connections in each state; the lemma
`Counts` says what one connection's move does to such a number. From it:
`TypeCorrect`, `PermitsSafe`, `GaugeSafe`, `QueueSafe`. `PairInv` (the pair is
consistent unless a write is between its assignments) gives `SnapshotsPaired`;
`PolicyInv` (history positions of each connection are ordered, and the admitting
configuration listed it) gives
`PoliciesFresh`; an invariant that every pending connection is in the hands of
exactly one loop gives `Backpressure`; `FirstCome` is an action property from
`IInv`; `ImplementsService` is the step simulation of `BoundedService`'s safety
part, for which `Accounting` supplies `Cardinality(Served) < Limit` at a spawn.

**RateLimiterProofs.** `RateBound` needs to know who paid. `RInv` adds
`BudgetPaid` (what an address spent is covered by its burst, the time up to its
last refill, and the sum of what refills moved back) and `RewoundBounded` (that
sum never passes an instant some pending call has read, and of two pending calls
at most one lies before the last refill). The theorem `RateBounded` assumes
`Burst <= StaleAfter`: an evicted bucket would have been full anyway.
`OneLoopRate`: with a single loop nothing moves back and the limiter is a token
bucket. `BurstKept`: nobody is denied before the burst is used up.
`BudgetStaysPaid` and `RewindStaysBounded` state the two parts of `RInv` on their
own.

**SessionProofs.** `UInv` says for each place of `connect_to_target` what has
been established there; `SInv` adds, for each phase of the session, what the
authenticator and the replies can have been, `reply_code` of each class of error
included. From them `PolicyHolds` and
`SessionPolicyHolds` (`EgressRespected`, for the call alone and for whole
sessions), `AuthComesFirst` and `RepliesTruthful`.

`SessionConnects`: a session is, as far as `connect_to_target` is concerned, a
behaviour of `Upstream` alone, so whatever is proved of the call holds in every
session. `ResolvedOnceWithRules` rests on `LookupInv`: a second lookup is left only
to a direct connection without egress rules. For `STypeCorrect`, `Counting` adds
that a failure is counted only on the way out.

`MatchExact`: for addresses of every width `match_cidr`'s mask arithmetic accepts
exactly the addresses that agree with the entry in the bits of the prefix; from it
`RulesStayExact` (`RulesExact` in every session). The argument is an induction on
the prefix (`PrefixBits`): the quotient by one power of two less is twice the
quotient plus the next bit (`Halving`), and masking keeps exactly the quotient
(`MaskKeeps`). The induction itself (`Induction`) comes from the least element of a
set of numbers, as the well-founded order of the library gives it, and
`PowerEquation` shows that the recursive definition of `pow2` has a solution: tables
of any length exist and agree.

**AdminServerProofs.** `BindingsStay` needs that whatever a request has loaded and
compared has the bindings of the start, so it does not matter which configuration
it was compared with. `ImplementsState`: a lock invariant (at most one request
holds the write guard, and `writer` names it) and `PairInv` (what it will write
next belongs to what it wrote) make each step of a reload a step of `ServerState`.
`TokensAreEarned`, `AuthorisationShown` and `TokensExpire` rest on `TokenInv`: the
store holds only issued tokens with the expiry they were issued with, a request
past authentication showed one that was valid then, and the configuration of the
start, whose lifetime is applied, is one of those that have been in force.
`ReloadsAloneTakeEffect`: as long as at most one reload is under way, `CurrentInv`
(what a reload has loaded is not older than what is in force, and what was answered
is not newer) is kept.

The same module proves the composition. `ImplementsProxy`: an admin request's step
is a step of `ProxyServer`'s reload or leaves its variables alone, by the
simulation of `ImplementsState`. With it `ProxyServerProofs` is instantiated as a
whole, and `ServerSafe` carries six of its invariants over to the server with its
real reloads. `ReloadsReachClients` (`ReloadReachesClients`) needs `ReachInv`:
besides `CurrentInv`, that what requests loaded is what the file held at that edit
(`TextInv`), that what a reload wrote is the text `inForce` counts (`InForceInv`),
and for each client that no text promised before it came is newer than the one in
force, or than the one it is served by (`Reaches`).

**RelayProofs.** `RelayInv` describes each direction as numbers. `Shape`: what is
in the socket, the hand of the copier and the other side are consecutive numbers
up to `sent`; `Heads`: while a head is read the buffer holds an initial segment,
and afterwards what was dropped lies between the head and what was delivered;
`Life`: what can have happened before the relay, and after an end was passed on.
From them `InOrder`, `LossBounded`, `EndIsLast` and `CountedOnce`, for streams of
any length and reads and writes of any size. `LossBounded` counts a unit as lost
when it is nowhere, so it is a statement about all places a unit can be in, not
about what `into_inner` notes down.

**BackendsProofs.** `BackendInv` adds to the properties that all accounts are in
the history and that what the search found was held under the name presented, with
a password that is not empty. `AmbiguousRefused` needs that without changes the
search finds all entries of the name.

**UserStoreProofs.** `TypeInv` types what a process holds at each place. `SeqInv`
says, as long as commands have not overlapped, which one is active, that the table
in its memory came from the file, and that the file is that table, empty, or what a
cut-off left; it gives `FileFaithful`, `Verifiable` and the refinement of
`UserTable`, with the `Write` of a command as its step and `CutOff` as its
`Interrupted`. `LoginEarned` holds with overlaps: `EarnedInv` says that every table
anywhere, a part of one included, holds only passwords some command gave, and until
a write is torn only such as were given to that user.

**LaunchProofs.** `LaunchInv` adds, for each stage, where the configuration came
from and which listeners are bound; what is in force names the bound sockets, a
port 0 any. `ReloadsAreValid` (`ReloadedValid`) adds that what a reload put in
force has passed validation as a whole, the overrides being gone, and could be
started again: a process that listens has formed its addresses, and the reload kept
them.
`UnmovedListenersReload`: while the file is unedited (`UneditedInv`), what is in
force is the file with or without the overrides, so its bindings are the file's if
the overrides agree with it (`OverridesAgree`).

**Only model-checked**: the liveness properties (`EverySettled`, `LoopsReturn`,
`SessionEnds`, `ReloadAnswered`, `RelayDelivers`, `ValidStarts`); liveness under
fairness is out of these provers' reach. Every other property of a passing run is
a theorem.

## 6. What is not modelled

Floating point in the rate limiter, a refill rate of zero, and the overflow of
`Instant + token_ttl`; the parsing of proxy URLs, HTTP heads and SOCKS5 addresses;
password hashing (a hash is its password and algorithm) and the wire protocols of
LDAP, SQL and PAM; the rules of `Config::validate` that name no socket, which are
one Boolean; how long a PAM call holds its thread; the parsing of arguments, the
`validate` subcommand and `--generate-config`, which load or write one file and
end; what is logged; packaging. Of an uninterrupted write of the user file, that it
may take several calls (section 2).

## 7. Plan

Done: all components above with their runs, the proofs of all their safety
properties, and the composition of `ProxyServer` with `AdminServer`.

What remains worth doing, in this order:

1. `RateLimiter`'s verdict inside `admit_client`, which would relate
   `total_connections` to the rate.
2. `Session` with `Backends` as its authenticator, so that `AuthFirst` and
   `GrantEarned` become one property of a session.
