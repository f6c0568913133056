-------------------------------- MODULE Relay --------------------------------
(***************************************************************************)
(* The bytes of one session, in both directions: what the client sends     *)
(* ("up") and what the target or the upstream proxy sends ("down").  Each  *)
(* stream starts with the head that the proxy consumes itself: the SOCKS5  *)
(* messages or the HTTP request, and the answers of an upstream proxy.     *)
(* The rest is copied.  HTTP heads are read through a BufReader, which     *)
(* takes from the socket whatever is there, and into_inner forgets what    *)
(* lies beyond the head; SOCKS5 messages are read to the byte.             *)
(*                                                                         *)
(* A unit stands for some bytes; unit n of a stream is the number n.       *)
(***************************************************************************)
EXTENDS Naturals, Sequences, Functions

CONSTANTS
    HeadLength,   \* units of a head
    MaxUnits      \* bound: units a peer sends

ASSUME RelayAssumption == HeadLength \in Nat \ {0} /\ MaxUnits \in Nat

Directions == {"up", "down"}
Clients == {"socks5", "CONNECT", "regular"}
Routes == {"direct", "socks5", "http"}

VARIABLES
    client,    \* the protocol of the client
    route,     \* how the target is reached
    phase,     \* what the task is doing
    sent,      \* units each peer has sent
    eof,       \* peers that have shut down their side
    wire,      \* units in the socket, not read yet
    buffer,    \* units in the BufReader
    hand,      \* units copy_bidirectional has read and not written
    wrote,     \* units the proxy wrote to a side of its own before it copied
    got,       \* units copied to the other side's socket
    shut,      \* what the receiving side sees: "open", the "end" passed on, or "closed"
    counted,   \* what copy_bidirectional has counted
    bytes,     \* metrics.bytes_tx and bytes_rx, this session's share
    early      \* history: units sent before the relay

session == <<client, route>>
peers == <<sent, eof, early>>
inside == <<buffer, hand, got, shut, counted, bytes, wrote>>
relayVars == <<session, phase, peers, wire, inside>>

\* Nothing is consumed from a target that is connected to directly.
HeadOf(d) == IF d = "down" /\ route = "direct" THEN 0 ELSE HeadLength

Buffered(d) == IF d = "up" THEN client # "socks5" ELSE route = "http"

RelayInit ==
    /\ client \in Clients
    /\ route \in Routes
    /\ phase = "up"
    /\ sent = [d \in Directions |-> 0]
    /\ eof = [d \in Directions |-> FALSE]
    /\ early = [d \in Directions |-> {}]
    /\ wire = [d \in Directions |-> <<>>]
    /\ buffer = [d \in Directions |-> <<>>]
    /\ hand = [d \in Directions |-> <<>>]
    /\ wrote = [d \in Directions |-> 0]
    /\ got = [d \in Directions |-> <<>>]
    /\ shut = [d \in Directions |-> "open"]
    /\ counted = [d \in Directions |-> 0]
    /\ bytes = [d \in Directions |-> 0]

-----------------------------------------------------------------------------
(* The peers *)

\* The client may send at any time, the other side once it is connected to.
Send(d) ==
    /\ sent[d] < MaxUnits /\ ~eof[d]
    /\ d = "down" => phase \notin {"up", "drop_up", "connect"}
    /\ phase \notin {"ended", "cut"}
    /\ sent' = [sent EXCEPT ![d] = @ + 1]
    /\ wire' = [wire EXCEPT ![d] = Append(@, sent[d] + 1)]
    /\ early' = [early EXCEPT ![d] = IF phase = "relay" THEN @ ELSE @ \union {sent[d] + 1}]
    /\ UNCHANGED <<session, phase, eof, inside>>

ShutDown(d) ==
    /\ ~eof[d]
    /\ d = "down" => phase \notin {"up", "drop_up", "connect"}
    /\ phase \notin {"ended", "cut"}
    /\ eof' = [eof EXCEPT ![d] = TRUE]
    /\ UNCHANGED <<session, phase, sent, early, wire, inside>>

-----------------------------------------------------------------------------
(* Heads *)

Rest(s, n) == SubSeq(s, n + 1, Len(s))

\* BufReader: a read takes what the socket has.  Read to the end of the head.
Fill(d, n) ==
    /\ phase = d /\ Buffered(d)
    /\ Len(buffer[d]) < HeadOf(d)
    /\ n \in 1 .. Len(wire[d])
    /\ buffer' = [buffer EXCEPT ![d] = @ \o SubSeq(wire[d], 1, n)]
    /\ wire' = [wire EXCEPT ![d] = Rest(@, n)]
    /\ UNCHANGED <<session, phase, peers, hand, got, shut, counted, bytes, wrote>>

\* The head is complete, or the stream ends after its first line.
ParseHead(d) ==
    /\ phase = d /\ Buffered(d)
    /\ \/ Len(buffer[d]) >= HeadOf(d)
       \/ buffer[d] # <<>> /\ wire[d] = <<>> /\ eof[d]
    /\ phase' = IF d = "up" THEN "drop_up" ELSE "drop_down"
    /\ buffer' = [buffer EXCEPT ![d] =
                    IF Len(@) >= HeadOf(d) THEN Rest(@, HeadOf(d)) ELSE <<>>]
    /\ UNCHANGED <<session, peers, wire, hand, got, shut, counted, bytes, wrote>>

Beyond(d) == IF d = "up" THEN "connect" ELSE "answer"

\* into_inner forgets the buffer.  For a request it follows the check of the
\* credentials.
into_inner(d) ==
    /\ phase = IF d = "up" THEN "drop_up" ELSE "drop_down"
    /\ phase' = Beyond(d)
    /\ buffer' = [buffer EXCEPT ![d] = <<>>]
    /\ UNCHANGED <<session, peers, wire, hand, got, shut, counted, bytes, wrote>>

\* Mutant: the messages are read with one read of whatever is there.
read_exact_All(d) ==
    /\ phase = d /\ ~Buffered(d)
    /\ Len(wire[d]) >= HeadOf(d)
    /\ phase' = Beyond(d)
    /\ wire' = [wire EXCEPT ![d] = <<>>]
    /\ UNCHANGED <<session, peers, buffer, hand, got, shut, counted, bytes, wrote>>

\* SOCKS5 messages, or no head at all.
read_exact(d) ==
    /\ phase = d /\ ~Buffered(d)
    /\ Len(wire[d]) >= HeadOf(d)
    /\ phase' = Beyond(d)
    /\ wire' = [wire EXCEPT ![d] = Rest(@, HeadOf(d))]
    /\ UNCHANGED <<session, peers, inside>>

\* The TCP connection to the target or the upstream proxy, and the request to
\* the latter.
Connect ==
    /\ phase = "connect"
    /\ phase' = "down"
    /\ UNCHANGED <<session, peers, wire, inside>>

\* The side the proxy speaks to: the target is sent the head of a regular
\* request, rewritten; otherwise the client is answered.
Spoken == IF client = "regular" THEN "up" ELSE "down"

Answer ==
    /\ phase = "answer"
    /\ phase' = "relay"
    /\ wrote' = [wrote EXCEPT ![Spoken] = 1]
    /\ UNCHANGED <<session, peers, wire, buffer, hand, got, shut, counted, bytes>>

-----------------------------------------------------------------------------
(* copy_bidirectional *)

\* Mutant: one direction is copied to its end before the other.
Pull_InTurn(d, n) ==
    /\ phase = "relay" /\ hand[d] = <<>>
    /\ d = "down" => shut["up"] = "end"
    /\ n \in 1 .. Len(wire[d])
    /\ hand' = [hand EXCEPT ![d] = SubSeq(wire[d], 1, n)]
    /\ wire' = [wire EXCEPT ![d] = Rest(@, n)]
    /\ UNCHANGED <<session, phase, peers, buffer, got, shut, counted, bytes, wrote>>

\* A direction reads when it has written what it read before.
Pull(d, n) ==
    /\ phase = "relay" /\ hand[d] = <<>>
    /\ n \in 1 .. Len(wire[d])
    /\ hand' = [hand EXCEPT ![d] = SubSeq(wire[d], 1, n)]
    /\ wire' = [wire EXCEPT ![d] = Rest(@, n)]
    /\ UNCHANGED <<session, phase, peers, buffer, got, shut, counted, bytes, wrote>>

\* Mutant: after a short write the whole chunk is written again.
Push_Again(d, n) ==
    /\ phase = "relay"
    /\ n \in 1 .. Len(hand[d])
    /\ got' = [got EXCEPT ![d] = @ \o SubSeq(hand[d], 1, n)]
    /\ hand' = [hand EXCEPT ![d] = IF n = Len(@) THEN <<>> ELSE @]
    /\ counted' = [counted EXCEPT ![d] = @ + n]
    /\ UNCHANGED <<session, phase, peers, wire, buffer, shut, bytes, wrote>>

\* A write may take a part.
Push(d, n) ==
    /\ phase = "relay"
    /\ n \in 1 .. Len(hand[d])
    /\ got' = [got EXCEPT ![d] = @ \o SubSeq(hand[d], 1, n)]
    /\ hand' = [hand EXCEPT ![d] = Rest(@, n)]
    /\ counted' = [counted EXCEPT ![d] = @ + n]
    /\ UNCHANGED <<session, phase, peers, wire, buffer, shut, bytes, wrote>>

\* Mutant: the other side is shut down as soon as the peer has shut down.
PassShutDown_Early(d) ==
    /\ phase = "relay" /\ shut[d] = "open"
    /\ eof[d] /\ hand[d] = <<>>
    /\ shut' = [shut EXCEPT ![d] = "end"]
    /\ UNCHANGED <<session, phase, peers, wire, buffer, hand, got, counted, bytes, wrote>>

\* The end of a stream is passed on when all of it has been written.
PassShutDown(d) ==
    /\ phase = "relay" /\ shut[d] = "open"
    /\ eof[d] /\ wire[d] = <<>> /\ hand[d] = <<>>
    /\ shut' = [shut EXCEPT ![d] = "end"]
    /\ UNCHANGED <<session, phase, peers, wire, buffer, hand, got, counted, bytes, wrote>>

\* Mutant: the directions are taken for each other.
relay_data_Swapped ==
    /\ phase = "relay"
    /\ \A d \in Directions : shut[d] = "end"
    /\ phase' = "ended"
    /\ bytes' = [up |-> counted["down"], down |-> counted["up"]]
    /\ UNCHANGED <<session, peers, wire, buffer, hand, got, shut, counted, wrote>>

\* Both directions have ended: what was copied is added to the metrics.
relay_data ==
    /\ phase = "relay"
    /\ \A d \in Directions : shut[d] = "end"
    /\ phase' = "ended"
    /\ bytes' = counted
    /\ UNCHANGED <<session, peers, wire, buffer, hand, got, shut, counted, wrote>>

\* An error of a stream, a head that is refused, or the connection timeout: both
\* sockets are dropped, and what is under way with them.  A side that has not
\* seen its end yet sees one now, wherever the stream was.
Cut ==
    /\ phase \notin {"ended", "cut"}
    /\ phase' = "cut"
    /\ shut' = [d \in Directions |-> IF shut[d] = "end" THEN "end" ELSE "closed"]
    /\ wire' = [d \in Directions |-> <<>>]
    /\ buffer' = [d \in Directions |-> <<>>]
    /\ hand' = [d \in Directions |-> <<>>]
    /\ UNCHANGED <<session, peers, got, counted, bytes, wrote>>

-----------------------------------------------------------------------------
Copy(d) ==
    \/ \E n \in 1 .. MaxUnits : Pull(d, n) \/ Push(d, n)
    \/ PassShutDown(d)

RelayNext ==
    \/ \E d \in Directions :
        \/ Send(d)
        \/ ShutDown(d)
        \/ \E n \in 1 .. MaxUnits : Fill(d, n)
        \/ ParseHead(d)
        \/ into_inner(d)
        \/ read_exact(d)
        \/ Copy(d)
    \/ Connect
    \/ Answer
    \/ relay_data
    \/ Cut

RelaySpec == RelayInit /\ [][RelayNext]_relayVars

\* copy_bidirectional polls both directions; a peer that reads takes what is
\* written.  The peers need not send, and nothing need fail.
RelayFairSpec == RelaySpec /\ \A d \in Directions : WF_relayVars(Copy(d))

-----------------------------------------------------------------------------
(* Properties *)

RelayTypeOK ==
    /\ client \in Clients /\ route \in Routes
    /\ phase \in {"up", "drop_up", "connect", "down", "drop_down", "answer", "relay", "ended",
                  "cut"}
    /\ sent \in [Directions -> 0 .. MaxUnits]
    /\ eof \in [Directions -> BOOLEAN]
    /\ early \in [Directions -> SUBSET (1 .. MaxUnits)]
    /\ wire \in [Directions -> Seq(1 .. MaxUnits)]
    /\ buffer \in [Directions -> Seq(1 .. MaxUnits)]
    /\ hand \in [Directions -> Seq(1 .. MaxUnits)]
    /\ got \in [Directions -> Seq(1 .. MaxUnits)]
    /\ wrote \in [Directions -> 0 .. 1]
    /\ shut \in [Directions -> {"open", "end", "closed"}]
    /\ counted \in [Directions -> Nat]
    /\ bytes \in [Directions -> Nat]

\* What is copied is one run of the stream: in the order in which it was sent,
\* nothing twice, nothing left out, and no part of a head: neither chunks, nor
\* short writes, nor the change from the buffered reader to the bare socket
\* disturb it.  What the proxy has to say itself, an answer to the client or the
\* head of a request to the target, comes before it.
InOrder ==
    \A d \in Directions :
        /\ \A i \in DOMAIN got[d] : got[d][i] > HeadOf(d) /\ got[d][i] = got[d][1] + (i - 1)
        /\ d = Spoken /\ got[d] # <<>> => wrote[d] = 1

\* Unit k is nowhere: neither under way nor copied.
Missing(d, k) ==
    k \notin Range(wire[d]) \union Range(buffer[d]) \union Range(hand[d]) \union Range(got[d])

\* As long as a session is not cut off, every unit beyond the head is under way
\* or copied, but for such as were sent early, before the relay, into a stream
\* whose head is read through a BufReader; and those are the first ones behind
\* the head.  A SOCKS5 session over a direct or SOCKS5 route loses nothing, nor
\* does a peer that speaks only after it was answered.
LossBounded ==
    phase # "cut" =>
        \A d \in Directions : \A k \in HeadOf(d) + 1 .. sent[d] :
            Missing(d, k) =>
                /\ Buffered(d) /\ k \in early[d]
                /\ \A j \in HeadOf(d) + 1 .. k : Missing(d, j)

\* The end of a stream is passed on behind all of it, but for early units that a
\* BufReader forgot, and a later cut of the session takes nothing back.  A side
\* that is closed by the cut itself may see an end after any part of the stream.
EndIsLast ==
    \A d \in Directions : shut[d] = "end" =>
        \A k \in HeadOf(d) + 1 .. sent[d] :
            k \in Range(got[d]) \/ (Buffered(d) /\ k \in early[d])

\* The metrics never hold more for a direction than was written to its side,
\* and hold at least all that was copied, once, when a session ends in order:
\* neither chunks, nor short writes, nor the other direction's count get in.
CountedOnce ==
    \A d \in Directions :
        /\ bytes[d] <= wrote[d] + Len(got[d])
        /\ phase = "ended" => bytes[d] >= Len(got[d])

\* In the relay, what a peer has sent reaches the other side unless the session
\* is cut off, whatever the opposite direction is doing.
RelayDelivers ==
    \A d \in Directions, k \in 1 .. MaxUnits :
        (phase = "relay" /\ k \in Range(wire[d])) ~> (k \in Range(got[d]) \/ phase = "cut")
=============================================================================
