-------------------------------- MODULE Server --------------------------------
(***************************************************************************)
(* The server that ProxyServer::start runs: the accept loops and their     *)
(* connections of ProxyServer beside the admin requests of AdminServer,    *)
(* over one shared state.  The reloads that ProxyServer takes from its     *)
(* environment are here the requests of administrators, each a sequence of *)
(* steps that the file's editor and other requests interleave with.        *)
(*                                                                         *)
(* Three histories follow an edit of the file from the disk to the clients *)
(* that are served by it.                                                  *)
(***************************************************************************)
EXTENDS AdminServer

CONSTANTS
    Listeners, Conns, Ips, IpOf, allowed_networks, max_connections, RateLimiting,
    MaxReloads, Idle, Backoff     \* as in ProxyServer

VARIABLES
    listener, cstate, waiters, permits, total, active,
    snap, arrival, admission,     \* as in ProxyServer
    texts,         \* history: what the file has held, in the order of the edits
    answered,      \* history: which of them, when a client was accepted, an
                   \* administrator had been told are in force
    overlapped     \* history: two reloads were under way at the same time

\* The write guard as ProxyServer sees it.
guard == IF writer = None THEN "free"
         ELSE IF pc[writer] = "writing" THEN "config" ELSE "both"

P == INSTANCE ProxyServer WITH write <- guard

ASSUME ServerAssumption == P!ProxyAssumption

proxyVars == <<listener, cstate, waiters, permits, total, active, snap, arrival, admission>>
cvars == <<avars, proxyVars, texts, answered, overlapped>>

CInit ==
    /\ AInit
    /\ P!Init
    /\ texts = <<InitialFile>>
    /\ answered = [c \in Conns |-> {}]
    /\ overlapped = FALSE

-----------------------------------------------------------------------------
\* The answer of a reload is on its way or has been sent.
Answered(r) == req[r].kind = "reload" /\ (pc[r] = "answering" \/ status[r] = 200)

\* Edit n of the file is element n + 1 of texts.
Promised == {loaded[r].edits + 1 : r \in {q \in Requests : Answered(q)}}

AdminStep ==
    /\ ANext
    /\ Len(installed') <= MaxReloads + 1
    /\ texts' = IF file' = file THEN texts ELSE Append(texts, file'.is)
    /\ overlapped' = (overlapped \/ ~OneReloadAtATime')
    /\ UNCHANGED <<proxyVars, answered>>

ProxyStep ==
    /\ UNCHANGED <<avars, texts, overlapped>>
    /\ \/ \E l \in Listeners : P!Loop(l)
       \/ \E c \in Conns : P!Task(c)
    /\ answered' = [c \in Conns |->
                        IF cstate[c] = "new" /\ cstate'[c] # "new" THEN Promised ELSE answered[c]]

CNext == AdminStep \/ ProxyStep

CSpec == CInit /\ [][CNext]_cvars

CFairSpec == CSpec /\ AFairness

-----------------------------------------------------------------------------
(* Properties *)

\* The server implements ProxyServer: overlapping reload requests are no more
\* than the reloads its properties allow for.
ProxyImplemented == P!Spec

\* Once a reload has been answered, no client that arrives later is served by
\* what the file was before: its task clones the text the reload read or a later
\* one.  The semaphore may keep the client waiting across further reloads, and
\* the file may have been edited, spoiled and refused in the meantime.  Reloads
\* that overlap break this: the one with the older text may write last.
ReloadReachesClients ==
    ~overlapped =>
        \A c \in P!In({"serving"}) : \A n \in answered[c] :
            \E m \in n .. Len(texts) : texts[m] = snap[c].config
=============================================================================
