------------------------------ MODULE RelayProofs ------------------------------
(***************************************************************************)
(* The bytes of a session, for heads and streams of any length.            *)
(*                                                                         *)
(* The units of a direction are always consecutive runs, one behind the    *)
(* other: what was skipped, what was copied, what copy_bidirectional holds *)
(* and what is in the socket.  While the head is read the BufReader holds  *)
(* the first of them.  Where what was skipped may reach beyond the head,   *)
(* it was sent early into a BufReader.  This is the invariant of a live    *)
(* session; one that has ended changes no more.                            *)
(***************************************************************************)
EXTENDS Relay, SequenceTheorems, TLAPS

-----------------------------------------------------------------------------
(* Sequences *)

LEMMA RestFacts ==
    ASSUME NEW S, NEW s \in Seq(S), NEW n \in 0 .. Len(s)
    PROVE  /\ Rest(s, n) \in Seq(S)
           /\ Len(Rest(s, n)) = Len(s) - n
           /\ \A i \in 1 .. Len(s) - n : Rest(s, n)[i] = s[n + i]
  <1>1. Len(s) \in Nat /\ s \in [1 .. Len(s) -> S]
    BY LenProperties
  <1>2. n + 1 \in Int /\ Len(s) \in Int /\ \A i \in n + 1 .. Len(s) : s[i] \in S
    BY <1>1
  <1>3. /\ SubSeq(s, n + 1, Len(s)) \in Seq(S)
        /\ Len(SubSeq(s, n + 1, Len(s)))
            = IF n + 1 <= Len(s) THEN Len(s) - (n + 1) + 1 ELSE 0
        /\ \A i \in 1 .. Len(s) - (n + 1) + 1 : SubSeq(s, n + 1, Len(s))[i] = s[n + 1 + i - 1]
    BY <1>2, SubSeqProperties
  <1> DEFINE r == SubSeq(s, n + 1, Len(s))
  <1>4. r \in Seq(S) /\ \A i \in 1 .. Len(s) - n : r[i] = s[n + i]
    <2>1. Len(s) - (n + 1) + 1 = Len(s) - n /\ \A i \in Nat : n + 1 + i - 1 = n + i
      BY <1>1
    <2>2. \A i \in 1 .. Len(s) - n : r[i] = s[n + 1 + i - 1]
      BY <1>3, <2>1, Zenon
    <2> HIDE DEF r
    <2>3. \A i \in 1 .. Len(s) - n : r[i] = s[n + i]
      BY <2>1, <2>2
    <2> QED
      BY <1>3, <2>3 DEF r
  <1>5. Len(r) = Len(s) - n
    <2>1. \A N \in Nat : \A m \in 0 .. N :
                (IF m + 1 <= N THEN N - (m + 1) + 1 ELSE 0) = N - m
      OBVIOUS
    <2>2. (IF n + 1 <= Len(s) THEN Len(s) - (n + 1) + 1 ELSE 0) = Len(s) - n
      <3> HIDE DEF r
      <3> QED
        BY <1>1, <2>1
    <2> DEFINE l == Len(r)
               e == IF n + 1 <= Len(s) THEN Len(s) - (n + 1) + 1 ELSE 0
    <2>3. l = e
      BY <1>3
    <2>4. e = Len(s) - n
      BY <2>2
    <2> HIDE DEF l, e
    <2>5. l = Len(s) - n
      BY <2>3, <2>4
    <2> QED
      BY <2>5 DEF l
  <1> QED
    BY <1>4, <1>5, Zenon DEF Rest

LEMMA PrefixFacts ==
    ASSUME NEW S, NEW s \in Seq(S), NEW n \in 0 .. Len(s)
    PROVE  /\ SubSeq(s, 1, n) \in Seq(S)
           /\ Len(SubSeq(s, 1, n)) = n
           /\ \A i \in 1 .. n : SubSeq(s, 1, n)[i] = s[i]
  <1>1. Len(s) \in Nat /\ s \in [1 .. Len(s) -> S]
    BY LenProperties
  <1>2. 1 \in Int /\ n \in Int /\ \A i \in 1 .. n : s[i] \in S
    BY <1>1
  <1>3. /\ SubSeq(s, 1, n) \in Seq(S)
        /\ Len(SubSeq(s, 1, n)) = IF 1 <= n THEN n - 1 + 1 ELSE 0
        /\ \A i \in 1 .. n - 1 + 1 : SubSeq(s, 1, n)[i] = s[1 + i - 1]
    BY <1>2, SubSeqProperties
  <1> QED
    BY <1>1, <1>3

LEMMA EmptyLen ==
    ASSUME NEW S, NEW s \in Seq(S)
    PROVE  Len(s) \in Nat /\ (s = <<>> <=> Len(s) = 0)
  BY EmptySeq, LenProperties

\* The place of k in a run of l numbers that ends with top.
LEMMA Offset ==
    ASSUME NEW k \in Int, NEW top \in Int, NEW low \in Int, NEW l \in Nat,
           low = top - l, k <= top, ~(k <= low)
    PROVE  k - low \in 1 .. l /\ low + (k - low) = k
  OBVIOUS

-----------------------------------------------------------------------------
(* The invariant *)

Units == 1 .. MaxUnits
Live == phase \notin {"ended", "cut"}

\* What is in a sequence of units has a place in it.
LEMMA PlaceOf ==
    ASSUME NEW s \in Seq(Units), NEW k
    PROVE  k \in Range(s) <=> \E i \in 1 .. Len(s) : s[i] = k
  <1>1. DOMAIN s = 1 .. Len(s)
    BY LenProperties
  <1> QED
    BY <1>1, Zenon DEF Range

LEMMA NoPlace ==
    ASSUME NEW s \in Seq(Units), NEW k, k \notin Range(s)
    PROVE  \A i \in 1 .. Len(s) : s[i] # k
  BY PlaceOf

Pending(d) == phase \in IF d = "up" THEN {"up"} ELSE {"up", "drop_up", "connect", "down"}
Dropping(d) == phase = IF d = "up" THEN "drop_up" ELSE "drop_down"

\* The last unit taken from the socket, and the last one that copy_bidirectional
\* has written or that went before it.
Taken(d) == sent[d] - Len(wire[d])
Through(d) == Taken(d) - Len(hand[d])

\* The last unit that is not for copy_bidirectional.
Skipped(d) == Through(d) - Len(got[d])

Shape(d) ==
    /\ Skipped(d) >= 0
    /\ \A i \in 1 .. Len(wire[d]) : wire[d][i] = Taken(d) + i
    /\ \A i \in 1 .. Len(hand[d]) : hand[d][i] = Through(d) + i
    /\ \A i \in 1 .. Len(got[d]) : got[d][i] = Skipped(d) + i

\* The stream ended within the head.
CutShort(d) ==
    eof[d] /\ wire[d] = <<>> /\ hand[d] = <<>> /\ got[d] = <<>> /\ sent[d] < HeadOf(d)

Heads(d) ==
    /\ Pending(d) => /\ Len(buffer[d]) = Taken(d)
                     /\ \A i \in 1 .. Len(buffer[d]) : buffer[d][i] = i
    /\ Dropping(d) =>
        /\ Buffered(d)
        /\ \/ /\ Len(buffer[d]) = Taken(d) - HeadOf(d)
              /\ \A i \in 1 .. Len(buffer[d]) : buffer[d][i] = HeadOf(d) + i
           \/ CutShort(d) /\ buffer[d] = <<>>
    /\ ~Pending(d) => HeadOf(d) <= Skipped(d) \/ CutShort(d)
    /\ (~Pending(d) /\ ~Dropping(d)) => buffer[d] = <<>>
    /\ ~Buffered(d) => /\ buffer[d] = <<>>
                       /\ ~Pending(d) => Skipped(d) = HeadOf(d)

Life(d) ==
    /\ phase # "relay" => /\ hand[d] = <<>> /\ got[d] = <<>> /\ shut[d] # "end"
                          /\ early[d] = 1 .. sent[d]
    /\ phase = "relay" /\ d = Spoken => wrote[d] = 1
    /\ 1 .. Skipped(d) \subseteq early[d]
    /\ counted[d] = Len(got[d])
    /\ bytes[d] = 0
    /\ shut[d] = "end" => eof[d] /\ wire[d] = <<>> /\ hand[d] = <<>>

Flow(d) == Shape(d) /\ Heads(d) /\ Life(d)

Flows == \A d \in Directions : Flow(d)

RelayInv ==
    /\ RelayTypeOK
    /\ InOrder /\ LossBounded /\ EndIsLast /\ CountedOnce
    /\ Live => Flows

\* What the types say of one direction.
LEMMA Types ==
    ASSUME RelayTypeOK, NEW d \in Directions
    PROVE  /\ sent[d] \in Nat /\ sent[d] <= MaxUnits
           /\ wire[d] \in Seq(Units) /\ Len(wire[d]) \in Nat
           /\ buffer[d] \in Seq(Units) /\ Len(buffer[d]) \in Nat
           /\ hand[d] \in Seq(Units) /\ Len(hand[d]) \in Nat
           /\ got[d] \in Seq(Units) /\ Len(got[d]) \in Nat
           /\ HeadOf(d) \in Nat /\ Taken(d) \in Int /\ Through(d) \in Int /\ Skipped(d) \in Int
  <1>1. /\ sent[d] \in 0 .. MaxUnits
        /\ wire[d] \in Seq(Units) /\ buffer[d] \in Seq(Units)
        /\ hand[d] \in Seq(Units) /\ got[d] \in Seq(Units)
    BY DEF RelayTypeOK, Units
  <1>2. HeadOf(d) \in Nat
    BY RelayAssumption DEF HeadOf
  <1>3. /\ Len(wire[d]) \in Nat /\ Len(buffer[d]) \in Nat
        /\ Len(hand[d]) \in Nat /\ Len(got[d]) \in Nat
    BY <1>1, LenProperties
  <1>4. Taken(d) \in Int
    BY <1>1, <1>3, RelayAssumption DEF Taken
  <1>5. Through(d) \in Int
    BY <1>3, <1>4 DEF Through
  <1>6. Skipped(d) \in Int
    BY <1>3, <1>5 DEF Skipped
  <1> QED
    BY <1>1, <1>2, <1>3, <1>4, <1>5, <1>6, RelayAssumption

\* A unit beyond the head is somewhere, unless its head was read and it lies
\* before all that is copied.
LEMMA Located ==
    ASSUME RelayTypeOK, NEW d \in Directions, Flow(d), NEW k \in HeadOf(d) + 1 .. sent[d],
           Missing(d, k)
    PROVE  ~Pending(d) /\ ~Dropping(d) /\ k <= Skipped(d)
  <1>t. /\ sent[d] \in Nat /\ HeadOf(d) \in Nat /\ k \in Nat
        /\ Taken(d) \in Int /\ Through(d) \in Int /\ Skipped(d) \in Int
        /\ wire[d] \in Seq(Units) /\ Len(wire[d]) \in Nat
        /\ buffer[d] \in Seq(Units) /\ Len(buffer[d]) \in Nat
        /\ hand[d] \in Seq(Units) /\ Len(hand[d]) \in Nat
        /\ got[d] \in Seq(Units) /\ Len(got[d]) \in Nat
    BY Types
  <1>m. /\ \A i \in 1 .. Len(wire[d]) : wire[d][i] # k
        /\ \A i \in 1 .. Len(buffer[d]) : buffer[d][i] # k
        /\ \A i \in 1 .. Len(hand[d]) : hand[d][i] # k
        /\ \A i \in 1 .. Len(got[d]) : got[d][i] # k
    <2>1. /\ k \notin Range(wire[d]) /\ k \notin Range(buffer[d])
          /\ k \notin Range(hand[d]) /\ k \notin Range(got[d])
      BY DEF Missing
    <2>4. \A i \in 1 .. Len(wire[d]) : wire[d][i] # k
      <3>1. wire[d] \in Seq(Units) /\ k \notin Range(wire[d])
        BY <1>t, <2>1
      <3> QED
        BY <3>1, NoPlace
    <2>5. \A i \in 1 .. Len(buffer[d]) : buffer[d][i] # k
      <3>1. buffer[d] \in Seq(Units) /\ k \notin Range(buffer[d])
        BY <1>t, <2>1
      <3> QED
        BY <3>1, NoPlace
    <2>6. \A i \in 1 .. Len(hand[d]) : hand[d][i] # k
      <3>1. hand[d] \in Seq(Units) /\ k \notin Range(hand[d])
        BY <1>t, <2>1
      <3> QED
        BY <3>1, NoPlace
    <2>7. \A i \in 1 .. Len(got[d]) : got[d][i] # k
      <3>1. got[d] \in Seq(Units) /\ k \notin Range(got[d])
        BY <1>t, <2>1
      <3> QED
        BY <3>1, NoPlace
    <2> QED
      BY <2>4, <2>5, <2>6, <2>7
  <1>e. /\ Taken(d) = sent[d] - Len(wire[d])
        /\ Through(d) = Taken(d) - Len(hand[d])
        /\ Skipped(d) = Through(d) - Len(got[d])
    BY DEF Taken, Through, Skipped
  <1>k. k \in Int /\ sent[d] \in Int /\ k <= sent[d]
    BY <1>t
  <1>1. k <= Taken(d)
    <2> SUFFICES ASSUME ~(k <= Taken(d)) PROVE FALSE
      OBVIOUS
    <2>0. /\ Taken(d) \in Int /\ Len(wire[d]) \in Nat
          /\ Taken(d) = sent[d] - Len(wire[d])
      BY <1>t, <1>e
    <2>1. k - Taken(d) \in 1 .. Len(wire[d]) /\ Taken(d) + (k - Taken(d)) = k
      BY <2>0, <1>k, Offset
    <2> QED
      BY <1>m, <2>1 DEF Flow, Shape
  <1>2. k <= Through(d)
    <2> SUFFICES ASSUME ~(k <= Through(d)) PROVE FALSE
      OBVIOUS
    <2>0. /\ Taken(d) \in Int /\ Through(d) \in Int /\ Len(hand[d]) \in Nat
          /\ Through(d) = Taken(d) - Len(hand[d])
      BY <1>t, <1>e
    <2>1. k - Through(d) \in 1 .. Len(hand[d]) /\ Through(d) + (k - Through(d)) = k
      BY <2>0, <1>k, <1>1, Offset
    <2> QED
      BY <1>m, <2>1 DEF Flow, Shape
  <1>3. k <= Skipped(d)
    <2> SUFFICES ASSUME ~(k <= Skipped(d)) PROVE FALSE
      OBVIOUS
    <2>0. /\ Through(d) \in Int /\ Skipped(d) \in Int /\ Len(got[d]) \in Nat
          /\ Skipped(d) = Through(d) - Len(got[d])
      BY <1>t, <1>e
    <2>1. k - Skipped(d) \in 1 .. Len(got[d]) /\ Skipped(d) + (k - Skipped(d)) = k
      BY <2>0, <1>k, <1>2, Offset
    <2> QED
      BY <1>m, <2>1 DEF Flow, Shape
  <1>4. ~Pending(d)
    <2> SUFFICES ASSUME Pending(d) PROVE FALSE
      OBVIOUS
    <2>1. k \in 1 .. Len(buffer[d])
      BY <1>t, <1>1 DEF Flow, Heads
    <2> QED
      BY <1>m, <2>1 DEF Flow, Heads
  <1>5. ~Dropping(d)
    <2> SUFFICES ASSUME Dropping(d) PROVE FALSE
      OBVIOUS
    <2>1. CASE CutShort(d)
      BY <1>t, <2>1 DEF CutShort
    <2>2. CASE /\ Len(buffer[d]) = Taken(d) - HeadOf(d)
               /\ \A i \in 1 .. Len(buffer[d]) : buffer[d][i] = HeadOf(d) + i
      <3>1. k - HeadOf(d) \in 1 .. Len(buffer[d]) /\ HeadOf(d) + (k - HeadOf(d)) = k
        BY <1>t, <1>1, <2>2
      <3> QED
        BY <1>m, <2>2, <3>1
    <2> QED
      BY <2>1, <2>2 DEF Flow, Heads
  <1> QED
    BY <1>3, <1>4, <1>5

\* Such a unit was sent early into a BufReader, and it is nowhere.
LEMMA Lost ==
    ASSUME RelayTypeOK, NEW d \in Directions, Flow(d), ~Pending(d), ~Dropping(d),
           NEW k \in HeadOf(d) + 1 .. Skipped(d)
    PROVE  Buffered(d) /\ k \in early[d] /\ Missing(d, k)
  <1>t. /\ HeadOf(d) \in Nat /\ k \in Nat
        /\ Taken(d) \in Int /\ Through(d) \in Int /\ Skipped(d) \in Int
        /\ wire[d] \in Seq(Units) /\ Len(wire[d]) \in Nat
        /\ hand[d] \in Seq(Units) /\ Len(hand[d]) \in Nat
        /\ got[d] \in Seq(Units) /\ Len(got[d]) \in Nat
    BY Types
  <1>1. Buffered(d)
    <2> SUFFICES ASSUME ~Buffered(d) PROVE FALSE
      OBVIOUS
    <2>1. Skipped(d) = HeadOf(d)
      BY DEF Flow, Heads
    <2> QED
      BY <1>t, <2>1
  <1>2. k \in early[d]
    <2>1. k \in 1 .. Skipped(d)
      BY <1>t
    <2> QED
      BY <2>1 DEF Flow, Life
  <1>3. k <= Skipped(d) /\ Skipped(d) <= Through(d) /\ Through(d) <= Taken(d)
    BY <1>t DEF Skipped, Through
  <1>4. k \notin Range(wire[d])
    <2>1. \A i \in 1 .. Len(wire[d]) : wire[d][i] = Taken(d) + i /\ Taken(d) + i # k
      BY <1>t, <1>3 DEF Flow, Shape
    <2> SUFFICES ASSUME k \in Range(wire[d]) PROVE FALSE
      OBVIOUS
    <2>s. wire[d] \in Seq(Units)
      BY <1>t
    <2>2. PICK i \in 1 .. Len(wire[d]) : wire[d][i] = k
      BY <2>s, PlaceOf, Zenon
    <2> QED
      BY <2>1, <2>2
  <1>5. k \notin Range(hand[d])
    <2>1. \A i \in 1 .. Len(hand[d]) : hand[d][i] = Through(d) + i /\ Through(d) + i # k
      BY <1>t, <1>3 DEF Flow, Shape
    <2> SUFFICES ASSUME k \in Range(hand[d]) PROVE FALSE
      OBVIOUS
    <2>s. hand[d] \in Seq(Units)
      BY <1>t
    <2>2. PICK i \in 1 .. Len(hand[d]) : hand[d][i] = k
      BY <2>s, PlaceOf, Zenon
    <2> QED
      BY <2>1, <2>2
  <1>6. k \notin Range(got[d])
    <2>1. \A i \in 1 .. Len(got[d]) : got[d][i] = Skipped(d) + i /\ Skipped(d) + i # k
      BY <1>t, <1>3 DEF Flow, Shape
    <2> SUFFICES ASSUME k \in Range(got[d]) PROVE FALSE
      OBVIOUS
    <2>s. got[d] \in Seq(Units)
      BY <1>t
    <2>2. PICK i \in 1 .. Len(got[d]) : got[d][i] = k
      BY <2>s, PlaceOf, Zenon
    <2> QED
      BY <2>1, <2>2
  <1>7. k \notin Range(buffer[d])
    <2>1. buffer[d] = <<>>
      BY DEF Flow, Heads
    <2> QED
      BY <2>1 DEF Range
  <1> QED
    BY <1>1, <1>2, <1>4, <1>5, <1>6, <1>7 DEF Missing

\* The invariant of a live session has the properties.
LEMMA FlowSuffices ==
    RelayTypeOK /\ Live /\ Flows => InOrder /\ LossBounded /\ EndIsLast /\ CountedOnce
  <1> SUFFICES ASSUME RelayTypeOK, Live, \A d \in Directions : Flow(d)
               PROVE  InOrder /\ LossBounded /\ EndIsLast /\ CountedOnce
    BY DEF Flows
  <1>1. InOrder
    <2> SUFFICES ASSUME NEW d \in Directions, got[d] # <<>>
                 PROVE  /\ \A i \in DOMAIN got[d] :
                                got[d][i] > HeadOf(d) /\ got[d][i] = got[d][1] + (i - 1)
                        /\ d = Spoken => wrote[d] = 1
      BY DEF InOrder
    <2>1. DOMAIN got[d] = 1 .. Len(got[d]) /\ Len(got[d]) \in Nat /\ Len(got[d]) # 0
      <3>1. got[d] \in Seq(Units)
        BY Types
      <3> QED
        BY <3>1, LenProperties, EmptyLen
    <2>2. phase = "relay" /\ ~CutShort(d)
      BY DEF Flow, Life, CutShort
    <2>3. ~Pending(d)
      BY <2>2 DEF Pending
    <2>4. HeadOf(d) <= Skipped(d) /\ HeadOf(d) \in Nat /\ Skipped(d) \in Int
      BY <2>2, <2>3, Types DEF Flow, Heads
    <2>5. \A i \in 1 .. Len(got[d]) : got[d][i] = Skipped(d) + i
      BY DEF Flow, Shape
    <2>6. got[d][1] = Skipped(d) + 1
      BY <2>1, <2>5
    <2>7. d = Spoken => wrote[d] = 1
      BY <2>2 DEF Flow, Life
    <2>8. ASSUME NEW i \in 1 .. Len(got[d])
          PROVE  got[d][i] > HeadOf(d) /\ got[d][i] = got[d][1] + (i - 1)
      <3>1. got[d][i] = Skipped(d) + i /\ i \in Nat /\ i >= 1
        BY <2>1, <2>5
      <3> QED
        BY <2>4, <2>6, <3>1
    <2> QED
      BY <2>1, <2>7, <2>8
  <1>2. LossBounded
    <2> SUFFICES ASSUME NEW d \in Directions, NEW k \in HeadOf(d) + 1 .. sent[d], Missing(d, k)
                 PROVE  /\ Buffered(d) /\ k \in early[d]
                        /\ \A j \in HeadOf(d) + 1 .. k : Missing(d, j)
      BY DEF LossBounded
    <2>1. ~Pending(d) /\ ~Dropping(d) /\ k <= Skipped(d)
      BY Located
    <2>2. HeadOf(d) \in Nat /\ sent[d] \in Nat /\ Skipped(d) \in Int
      BY Types
    <2>3. \A j \in HeadOf(d) + 1 .. k : j \in HeadOf(d) + 1 .. Skipped(d)
      BY <2>1, <2>2
    <2>4. k \in HeadOf(d) + 1 .. Skipped(d)
      BY <2>1, <2>2
    <2> QED
      BY <2>1, <2>3, <2>4, Lost
  <1>3. EndIsLast
    <2> SUFFICES ASSUME NEW d \in Directions, shut[d] = "end", NEW k \in HeadOf(d) + 1 .. sent[d]
                 PROVE  k \in Range(got[d]) \/ (Buffered(d) /\ k \in early[d])
      BY DEF EndIsLast
    <2>1. phase = "relay" /\ wire[d] = <<>> /\ hand[d] = <<>>
      BY DEF Flow, Life
    <2>2. ~Pending(d) /\ ~Dropping(d)
      BY <2>1 DEF Pending, Dropping
    <2>3. buffer[d] = <<>>
      BY <2>2 DEF Flow, Heads
    <2>4. Range(wire[d]) = {} /\ Range(hand[d]) = {} /\ Range(buffer[d]) = {}
      BY <2>1, <2>3 DEF Range
    <2>5. CASE Missing(d, k)
      BY <2>5, <1>2 DEF LossBounded, Live
    <2>6. CASE ~Missing(d, k)
      BY <2>4, <2>6 DEF Missing
    <2> QED
      BY <2>5, <2>6
  <1>4. CountedOnce
    <2> SUFFICES ASSUME NEW d \in Directions
                 PROVE  bytes[d] <= wrote[d] + Len(got[d])
      BY DEF CountedOnce, Live
    <2>1. Len(got[d]) \in Nat /\ wrote[d] \in Nat /\ bytes[d] = 0
      BY Types DEF RelayTypeOK, Flow, Life
    <2> QED
      BY <2>1
  <1> QED
    BY <1>1, <1>2, <1>3, <1>4

\* A direction nothing happens to.
Same(d) ==
    /\ sent'[d] = sent[d] /\ eof'[d] = eof[d] /\ early'[d] = early[d]
    /\ wire'[d] = wire[d] /\ buffer'[d] = buffer[d] /\ wrote'[d] = wrote[d]
    /\ hand'[d] = hand[d] /\ got'[d] = got[d] /\ shut'[d] = shut[d]
    /\ counted'[d] = counted[d] /\ bytes'[d] = bytes[d]

\* Its head is neither begun nor finished.
SameStage(d) ==
    /\ Pending(d)' <=> Pending(d)
    /\ Dropping(d)' <=> Dropping(d)
    /\ phase' = "relay" <=> phase = "relay"

LEMMA Frame ==
    ASSUME NEW d \in Directions, Flow(d), UNCHANGED session, Same(d), SameStage(d)
    PROVE  Flow(d)'
  <1>1. HeadOf(d)' = HeadOf(d) /\ (Buffered(d)' <=> Buffered(d)) /\ Spoken' = Spoken
    BY DEF session, HeadOf, Buffered, Spoken
  <1>2. /\ Taken(d)' = Taken(d) /\ Through(d)' = Through(d) /\ Skipped(d)' = Skipped(d)
        /\ (CutShort(d)' <=> CutShort(d))
    BY <1>1 DEF Taken, Through, Skipped, CutShort, Same
  <1>3. Shape(d)'
    BY <1>1, <1>2 DEF Flow, Shape, Same
  <1>4. Heads(d)'
    BY <1>1, <1>2 DEF Flow, Heads, Same, SameStage
  <1>5. Life(d)'
    BY <1>1, <1>2 DEF Flow, Life, Same, SameStage
  <1> QED
    BY <1>3, <1>4, <1>5 DEF Flow

\* It is enough to look at the direction a step is about.
LEMMA Advance ==
    ASSUME RelayInv, Live, Live', RelayTypeOK', UNCHANGED session,
           NEW d \in Directions, Flow(d)',
           \A q \in Directions \ {d} : Same(q) /\ SameStage(q)
    PROVE  RelayInv'
  <1>1. \A q \in Directions : Flow(q)'
    BY Frame DEF RelayInv, Flows
  <1>2. Flows' /\ RelayTypeOK' /\ Live'
    BY <1>1 DEF Flows
  <1>3. (InOrder /\ LossBounded /\ EndIsLast /\ CountedOnce)'
    BY <1>2, FlowSuffices, PTL
  <1> QED
    BY <1>2, <1>3 DEF RelayInv

-----------------------------------------------------------------------------
(* The peers *)

LEMMA SendStep ==
    ASSUME RelayInv, NEW d \in Directions, Send(d)
    PROVE  RelayInv'
  <1>a. RelayTypeOK /\ Live /\ Flow(d)
    BY DEF RelayInv, Flows, Live, Send
  <1>1. /\ sent[d] < MaxUnits /\ ~eof[d]
        /\ sent' = [sent EXCEPT ![d] = @ + 1]
        /\ wire' = [wire EXCEPT ![d] = Append(@, sent[d] + 1)]
        /\ early' = [early EXCEPT ![d] = IF phase = "relay" THEN @ ELSE @ \union {sent[d] + 1}]
        /\ UNCHANGED <<client, route, phase, eof, buffer, wrote, hand, got, shut, counted, bytes>>
    BY DEF Send, session, inside
  <1>t. /\ sent[d] \in Nat /\ sent[d] + 1 \in Units /\ wire[d] \in Seq(Units)
        /\ Len(wire[d]) \in Nat /\ Len(hand[d]) \in Nat /\ HeadOf(d) \in Nat
    BY <1>a, <1>1, Types, RelayAssumption DEF Units
  <1>2. /\ Append(wire[d], sent[d] + 1) \in Seq(Units)
        /\ Len(Append(wire[d], sent[d] + 1)) = Len(wire[d]) + 1
        /\ \A i \in 1 .. Len(wire[d]) : Append(wire[d], sent[d] + 1)[i] = wire[d][i]
        /\ Append(wire[d], sent[d] + 1)[Len(wire[d]) + 1] = sent[d] + 1
    BY <1>t, AppendProperties
  <1>3. /\ sent'[d] = sent[d] + 1 /\ wire'[d] = Append(wire[d], sent[d] + 1)
        /\ early'[d] = IF phase = "relay" THEN early[d] ELSE early[d] \union {sent[d] + 1}
        /\ \A q \in Directions \ {d} : sent'[q] = sent[q] /\ wire'[q] = wire[q]
                                       /\ early'[q] = early[q]
    BY <1>a, <1>1 DEF RelayTypeOK
  <1>4. RelayTypeOK'
    <2>1. wire' \in [Directions -> Seq(Units)]
      BY <1>a, <1>1, <1>2 DEF RelayTypeOK, Units
    <2>2. sent' \in [Directions -> 0 .. MaxUnits]
      BY <1>a, <1>1, <1>t DEF RelayTypeOK, Units
    <2>3. early' \in [Directions -> SUBSET Units]
      BY <1>a, <1>1, <1>t DEF RelayTypeOK, Units
    <2> QED
      BY <1>a, <1>1, <2>1, <2>2, <2>3 DEF RelayTypeOK, Units
  <1>5. \A q \in Directions \ {d} : Same(q) /\ SameStage(q)
    BY <1>1, <1>3 DEF Same, SameStage, Pending, Dropping
  <1>6. /\ HeadOf(d)' = HeadOf(d) /\ (Buffered(d)' <=> Buffered(d))
        /\ (Pending(d)' <=> Pending(d)) /\ (Dropping(d)' <=> Dropping(d))
        /\ ~CutShort(d) /\ Spoken' = Spoken
    BY <1>1 DEF HeadOf, Buffered, Pending, Dropping, CutShort, Spoken
  <1>7. /\ Len(wire'[d]) = Len(wire[d]) + 1
        /\ Taken(d)' = Taken(d) /\ Through(d)' = Through(d) /\ Skipped(d)' = Skipped(d)
        /\ \A i \in 1 .. Len(wire'[d]) : wire'[d][i] = Taken(d) + i
    <2>1. Len(wire'[d]) = Len(wire[d]) + 1
      BY <1>2, <1>3
    <2>2. Taken(d)' = Taken(d)
      BY <1>3, <1>t, <2>1 DEF Taken
    <2>3. Through(d)' = Through(d) /\ Skipped(d)' = Skipped(d)
      BY <1>1, <2>2 DEF Through, Skipped
    <2>4. ASSUME NEW i \in 1 .. Len(wire'[d])
          PROVE  wire'[d][i] = Taken(d) + i
      <3>1. CASE i \in 1 .. Len(wire[d])
        BY <1>a, <1>2, <1>3, <3>1 DEF Flow, Shape
      <3>2. CASE i = Len(wire[d]) + 1
        BY <1>2, <1>3, <1>t, <3>2 DEF Taken
      <3> QED
        BY <1>t, <2>1, <2>4, <3>1, <3>2
    <2> QED
      BY <2>1, <2>2, <2>3, <2>4
  <1>8. Shape(d)' /\ Heads(d)'
    <2>1. Shape(d)'
      BY <1>a, <1>1, <1>6, <1>7 DEF Flow, Shape
    <2>2. Heads(d)'
      BY <1>a, <1>1, <1>6, <1>7 DEF Flow, Heads
    <2> QED
      BY <2>1, <2>2
  <1>9. Life(d)'
    <2>1. phase # "relay" => early'[d] = 1 .. sent'[d]
      BY <1>a, <1>3, <1>t DEF Flow, Life
    <2>2. shut[d] # "end"
      BY <1>a, <1>1 DEF Flow, Life
    <2> QED
      BY <1>a, <1>1, <1>3, <1>6, <1>7, <2>1, <2>2 DEF Flow, Life
  <1> QED
    BY <1>a, <1>1, <1>4, <1>5, <1>8, <1>9, Advance DEF Live, Flow, session

LEMMA ShutDownStep ==
    ASSUME RelayInv, NEW d \in Directions, ShutDown(d)
    PROVE  RelayInv'
  <1>a. RelayTypeOK /\ Live /\ Flow(d)
    BY DEF RelayInv, Flows, Live, ShutDown
  <1>1. /\ eof' = [eof EXCEPT ![d] = TRUE] /\ ~eof[d]
        /\ UNCHANGED <<client, route, phase, sent, early, wire, buffer, wrote, hand, got, shut,
                       counted, bytes>>
    BY DEF ShutDown, session, inside
  <1>2. eof'[d] = TRUE /\ \A q \in Directions \ {d} : eof'[q] = eof[q]
    BY <1>a, <1>1 DEF RelayTypeOK
  <1>3. RelayTypeOK'
    BY <1>a, <1>1 DEF RelayTypeOK
  <1>4. \A q \in Directions \ {d} : Same(q) /\ SameStage(q)
    BY <1>1, <1>2 DEF Same, SameStage, Pending, Dropping
  <1>5. /\ Taken(d)' = Taken(d) /\ Through(d)' = Through(d) /\ Skipped(d)' = Skipped(d)
        /\ HeadOf(d)' = HeadOf(d) /\ (Buffered(d)' <=> Buffered(d))
        /\ (Pending(d)' <=> Pending(d)) /\ (Dropping(d)' <=> Dropping(d))
        /\ ~CutShort(d) /\ Spoken' = Spoken
    BY <1>1 DEF Taken, Through, Skipped, HeadOf, Buffered, Pending, Dropping, CutShort, Spoken
  <1>6. Shape(d)' /\ Heads(d)'
    BY <1>a, <1>1, <1>5 DEF Flow, Shape, Heads
  <1>7. Life(d)'
    BY <1>a, <1>1, <1>2, <1>5 DEF Flow, Life
  <1> QED
    BY <1>a, <1>1, <1>3, <1>4, <1>6, <1>7, Advance DEF Live, Flow, session

-----------------------------------------------------------------------------
(* Heads *)

\* n units are taken from the socket.
LEMMA TakeUnits ==
    ASSUME RelayTypeOK, NEW d \in Directions, Flow(d), NEW n \in 0 .. Len(wire[d]),
           sent'[d] = sent[d], wire'[d] = Rest(wire[d], n)
    PROVE  /\ wire'[d] \in Seq(Units) /\ Len(wire'[d]) = Len(wire[d]) - n
           /\ Taken(d)' = Taken(d) + n
           /\ \A i \in 1 .. Len(wire'[d]) : wire'[d][i] = Taken(d)' + i
           /\ SubSeq(wire[d], 1, n) \in Seq(Units) /\ Len(SubSeq(wire[d], 1, n)) = n
           /\ \A i \in 1 .. n : SubSeq(wire[d], 1, n)[i] = Taken(d) + i
  <1>1. wire[d] \in Seq(Units) /\ Len(wire[d]) \in Nat /\ sent[d] \in Nat
    BY Types
  <1>2. /\ wire'[d] \in Seq(Units) /\ Len(wire'[d]) = Len(wire[d]) - n
        /\ \A i \in 1 .. Len(wire[d]) - n : wire'[d][i] = wire[d][n + i]
    BY <1>1, RestFacts
  <1>3. Taken(d)' = Taken(d) + n
    BY <1>1, <1>2 DEF Taken
  <1>4. Taken(d) \in Int /\ \A i \in 1 .. Len(wire[d]) : wire[d][i] = Taken(d) + i
    BY Types DEF Flow, Shape
  <1>5. ASSUME NEW i \in 1 .. Len(wire'[d])
        PROVE  wire'[d][i] = Taken(d)' + i
    <2>1. i \in 1 .. Len(wire[d]) - n /\ n + i \in 1 .. Len(wire[d])
      BY <1>1, <1>2, <1>5
    <2>2. wire'[d][i] = Taken(d) + (n + i)
      BY <1>2, <1>4, <2>1
    <2> QED
      BY <1>3, <1>4, <2>1, <2>2
  <1>6. /\ SubSeq(wire[d], 1, n) \in Seq(Units) /\ Len(SubSeq(wire[d], 1, n)) = n
        /\ \A i \in 1 .. n : SubSeq(wire[d], 1, n)[i] = wire[d][i]
    BY <1>1, PrefixFacts
  <1>7. \A i \in 1 .. n : i \in 1 .. Len(wire[d])
    BY <1>1
  <1> HIDE DEF Taken
  <1>8. \A i \in 1 .. n : SubSeq(wire[d], 1, n)[i] = Taken(d) + i
    BY <1>4, <1>6, <1>7, Zenon
  <1> QED
    BY <1>2, <1>3, <1>5, <1>6, <1>8

LEMMA FillStep ==
    ASSUME RelayInv, NEW d \in Directions, NEW n \in Units, Fill(d, n)
    PROVE  RelayInv'
  <1>1. /\ phase = d /\ Buffered(d) /\ n \in 1 .. Len(wire[d])
        /\ buffer' = [buffer EXCEPT ![d] = @ \o SubSeq(wire[d], 1, n)]
        /\ wire' = [wire EXCEPT ![d] = Rest(@, n)]
        /\ UNCHANGED <<client, route, phase, sent, eof, early, wrote, hand, got, shut, counted,
                       bytes>>
    BY DEF Fill, session, peers
  <1>a. RelayTypeOK /\ Live /\ Flow(d) /\ Pending(d) /\ ~Dropping(d) /\ phase # "relay"
    BY <1>1 DEF RelayInv, Flows, Live, Directions, Pending, Dropping
  <1> DEFINE new == SubSeq(wire[d], 1, n)
  <1>2. /\ buffer'[d] = buffer[d] \o new /\ wire'[d] = Rest(wire[d], n) /\ sent'[d] = sent[d]
        /\ \A q \in Directions \ {d} : buffer'[q] = buffer[q] /\ wire'[q] = wire[q]
    BY <1>a, <1>1 DEF RelayTypeOK
  <1>3. /\ wire'[d] \in Seq(Units) /\ Len(wire'[d]) = Len(wire[d]) - n
        /\ Taken(d)' = Taken(d) + n
        /\ \A i \in 1 .. Len(wire'[d]) : wire'[d][i] = Taken(d)' + i
        /\ new \in Seq(Units) /\ Len(new) = n
        /\ \A i \in 1 .. n : new[i] = Taken(d) + i
    <2>1. n \in 0 .. Len(wire[d])
      BY <1>1
    <2> QED
      BY <1>a, <1>2, <2>1, TakeUnits
  <1> HIDE DEF new
  <1>4. /\ buffer[d] \in Seq(Units) /\ Len(buffer[d]) \in Nat /\ n \in Nat
        /\ Taken(d) \in Int /\ Len(buffer[d]) = Taken(d)
        /\ \A i \in 1 .. Len(buffer[d]) : buffer[d][i] = i
    BY <1>a, Types DEF Flow, Heads, Units
  <1>5. /\ buffer'[d] \in Seq(Units) /\ Len(buffer'[d]) = Len(buffer[d]) + n
        /\ \A i \in 1 .. Len(buffer[d]) + n : buffer'[d][i] =
                IF i <= Len(buffer[d]) THEN buffer[d][i] ELSE new[i - Len(buffer[d])]
    <2>1. buffer'[d] = buffer[d] \o new /\ Len(new) = n
      BY <1>2, <1>3
    <2>2. buffer[d] \in Seq(Units) /\ new \in Seq(Units)
      BY <1>3, <1>4
    <2>3. /\ buffer[d] \o new \in Seq(Units)
          /\ Len(buffer[d] \o new) = Len(buffer[d]) + Len(new)
          /\ \A i \in 1 .. Len(buffer[d]) + Len(new) : (buffer[d] \o new)[i] =
                IF i <= Len(buffer[d]) THEN buffer[d][i] ELSE new[i - Len(buffer[d])]
      BY <2>2, ConcatProperties
    <2> QED
      BY <2>1, <2>3, Zenon
  <1>6. /\ Len(buffer'[d]) = Taken(d)'
        /\ \A i \in 1 .. Len(buffer'[d]) : buffer'[d][i] = i
    <2>1. Len(buffer'[d]) = Taken(d)'
      BY <1>3, <1>4, <1>5
    <2>2. ASSUME NEW i \in 1 .. Len(buffer[d]) + n
          PROVE  buffer'[d][i] = i
      <3>1. CASE i <= Len(buffer[d])
        BY <1>4, <1>5, <2>2, <3>1
      <3>2. CASE ~(i <= Len(buffer[d]))
        <4>1. i - Len(buffer[d]) \in 1 .. n /\ Taken(d) + (i - Len(buffer[d])) = i
          BY <1>4, <2>2, <3>2
        <4> QED
          BY <1>3, <1>5, <2>2, <3>2, <4>1
      <3> QED
        BY <3>1, <3>2
    <2> QED
      BY <1>5, <2>1, <2>2
  <1>7. RelayTypeOK'
    <2>1. wire' \in [Directions -> Seq(Units)] /\ buffer' \in [Directions -> Seq(Units)]
      BY <1>a, <1>1, <1>2, <1>3, <1>5 DEF RelayTypeOK, Units
    <2> QED
      BY <1>a, <1>1, <2>1 DEF RelayTypeOK, Units
  <1>8. \A q \in Directions \ {d} : Same(q) /\ SameStage(q)
    BY <1>1, <1>2 DEF Same, SameStage, Pending, Dropping
  <1>9. /\ Pending(d)' /\ ~Dropping(d)' /\ Buffered(d)' /\ HeadOf(d)' = HeadOf(d)
        /\ hand'[d] = <<>> /\ got'[d] = <<>> /\ phase' # "relay"
    BY <1>a, <1>1 DEF Pending, Dropping, Buffered, HeadOf, Flow, Life
  <1>10. Shape(d)'
    <2>1. Len(hand'[d]) = 0 /\ Len(got'[d]) = 0
      BY <1>9
    <2>2. Skipped(d)' >= 0
      BY <1>3, <1>4, <2>1 DEF Skipped, Through
    <2> QED
      BY <1>3, <2>1, <2>2 DEF Shape
  <1>11. Heads(d)'
    BY <1>6, <1>9 DEF Heads
  <1>12. Life(d)'
    <2>1. /\ shut'[d] # "end" /\ early'[d] = 1 .. sent'[d]
          /\ counted'[d] = Len(got'[d]) /\ bytes'[d] = 0
      BY <1>a, <1>1 DEF Flow, Life
    <2>2. 1 .. Skipped(d)' \subseteq 1 .. sent'[d]
      <3>1. sent[d] \in Nat /\ Len(wire[d]) \in Nat /\ n \in Nat
        BY <1>a, <1>4, Types
      <3>2. Len(hand'[d]) = 0 /\ Len(got'[d]) = 0 /\ sent'[d] = sent[d]
            /\ Len(wire'[d]) \in Nat
        BY <1>1, <1>3, <1>9, <3>1
      <3> QED
        BY <3>1, <3>2 DEF Skipped, Through, Taken
    <2> QED
      BY <1>9, <2>1, <2>2 DEF Life
  <1> QED
    BY <1>a, <1>1, <1>7, <1>8, <1>10, <1>11, <1>12, Advance DEF Live, Flow, session

LEMMA ParseHeadStep ==
    ASSUME RelayInv, NEW d \in Directions, ParseHead(d)
    PROVE  RelayInv'
  <1>1. /\ phase = d /\ Buffered(d)
        /\ phase' = IF d = "up" THEN "drop_up" ELSE "drop_down"
        /\ UNCHANGED <<client, route, sent, eof, early, wire, wrote, hand, got, shut, counted,
                       bytes>>
    BY DEF ParseHead, session, peers
  <1>2. \/ Len(buffer[d]) >= HeadOf(d) /\ buffer' = [buffer EXCEPT ![d] = Rest(@, HeadOf(d))]
        \/ /\ wire[d] = <<>> /\ eof[d] /\ ~(Len(buffer[d]) >= HeadOf(d))
           /\ buffer' = [buffer EXCEPT ![d] = <<>>]
    BY DEF ParseHead
  <1>a. RelayTypeOK /\ Live /\ Live' /\ Flow(d) /\ Pending(d) /\ phase # "relay"
    BY <1>1 DEF RelayInv, Flows, Live, Directions, Pending
  <1>3. /\ ~Pending(d)' /\ Dropping(d)' /\ Buffered(d)' /\ HeadOf(d)' = HeadOf(d)
        /\ hand[d] = <<>> /\ got[d] = <<>> /\ phase' # "relay"
        /\ Taken(d)' = Taken(d) /\ Through(d)' = Through(d) /\ Skipped(d)' = Skipped(d)
    BY <1>a, <1>1
    DEF Pending, Dropping, Buffered, HeadOf, Flow, Life, Directions, Taken, Through, Skipped
  <1>4. /\ buffer[d] \in Seq(Units) /\ Len(buffer[d]) \in Nat /\ HeadOf(d) \in Nat
        /\ Taken(d) \in Int /\ Len(buffer[d]) = Taken(d) /\ sent[d] \in Nat
        /\ \A i \in 1 .. Len(buffer[d]) : buffer[d][i] = i
    BY <1>a, Types DEF Flow, Heads
  <1>5. Len(hand[d]) = 0 /\ Len(got[d]) = 0 /\ Through(d) = Taken(d) /\ Skipped(d) = Taken(d)
    BY <1>3, <1>4 DEF Through, Skipped
  <1>6. \A q \in Directions \ {d} : buffer'[q] = buffer[q]
    BY <1>a, <1>2 DEF RelayTypeOK
  <1>7. \A q \in Directions \ {d} : Same(q) /\ SameStage(q)
    BY <1>1, <1>6 DEF Same, SameStage, Pending, Dropping, Directions
  <1>8. Shape(d)'
    BY <1>a, <1>1, <1>3 DEF Flow, Shape
  <1>9. Life(d)'
    BY <1>a, <1>1, <1>3 DEF Flow, Life
  <1>10. buffer'[d] \in Seq(Units) /\ Heads(d)'
    <2>1. CASE Len(buffer[d]) >= HeadOf(d) /\ buffer' = [buffer EXCEPT ![d] = Rest(@, HeadOf(d))]
      <3>1. buffer'[d] = Rest(buffer[d], HeadOf(d))
        BY <1>a, <2>1 DEF RelayTypeOK
      <3>2. HeadOf(d) \in 0 .. Len(buffer[d])
        BY <1>4, <2>1
      <3>3. /\ Rest(buffer[d], HeadOf(d)) \in Seq(Units)
            /\ Len(Rest(buffer[d], HeadOf(d))) = Len(buffer[d]) - HeadOf(d)
            /\ \A i \in 1 .. Len(buffer[d]) - HeadOf(d) :
                    Rest(buffer[d], HeadOf(d))[i] = buffer[d][HeadOf(d) + i]
        BY <1>4, <3>2, RestFacts
      <3>4. \A i \in 1 .. Len(buffer[d]) - HeadOf(d) : HeadOf(d) + i \in 1 .. Len(buffer[d])
        BY <1>4
      <3>5. /\ buffer'[d] \in Seq(Units) /\ Len(buffer'[d]) = Taken(d) - HeadOf(d)
            /\ \A i \in 1 .. Len(buffer'[d]) : buffer'[d][i] = HeadOf(d) + i
        BY <1>4, <3>1, <3>3, <3>4, Zenon
      <3>6. HeadOf(d) <= Skipped(d)
        BY <1>4, <1>5, <2>1
      <3> QED
        BY <1>3, <3>5, <3>6 DEF Heads
    <2>2. CASE /\ wire[d] = <<>> /\ eof[d] /\ ~(Len(buffer[d]) >= HeadOf(d))
               /\ buffer' = [buffer EXCEPT ![d] = <<>>]
      <3>1. buffer'[d] = <<>> /\ buffer'[d] \in Seq(Units)
        BY <1>a, <2>2 DEF RelayTypeOK
      <3>2. sent[d] < HeadOf(d)
        BY <1>4, <2>2 DEF Taken
      <3>3. CutShort(d)'
        BY <1>1, <1>3, <2>2, <3>2 DEF CutShort
      <3> QED
        BY <1>3, <3>1, <3>3 DEF Heads
    <2> QED
      BY <1>2, <2>1, <2>2
  <1>11. RelayTypeOK'
    <2>1. buffer' \in [Directions -> Seq(Units)]
      BY <1>a, <1>2, <1>6, <1>10 DEF RelayTypeOK, Units
    <2>2. phase' \in {"drop_up", "drop_down"}
      BY <1>1
    <2> QED
      BY <1>a, <1>1, <2>1, <2>2 DEF RelayTypeOK, Units
  <1> QED
    BY <1>a, <1>1, <1>7, <1>8, <1>9, <1>10, <1>11, Advance DEF Flow, session

LEMMA IntoInnerStep ==
    ASSUME RelayInv, NEW d \in Directions, into_inner(d)
    PROVE  RelayInv'
  <1>1. /\ phase = IF d = "up" THEN "drop_up" ELSE "drop_down"
        /\ phase' = IF d = "up" THEN "connect" ELSE "answer"
        /\ buffer' = [buffer EXCEPT ![d] = <<>>]
        /\ UNCHANGED <<client, route, sent, eof, early, wire, wrote, hand, got, shut, counted,
                       bytes>>
    BY DEF into_inner, Beyond, session, peers
  <1>a. /\ RelayTypeOK /\ Live /\ Live' /\ Flow(d)
        /\ ~Pending(d) /\ Dropping(d) /\ ~Pending(d)' /\ ~Dropping(d)'
        /\ phase # "relay" /\ phase' # "relay"
    BY <1>1 DEF RelayInv, Flows, Live, Directions, Pending, Dropping
  <1>2. buffer'[d] = <<>> /\ \A q \in Directions \ {d} : buffer'[q] = buffer[q]
    BY <1>a, <1>1 DEF RelayTypeOK
  <1>3. /\ Buffered(d)' /\ HeadOf(d)' = HeadOf(d)
        /\ Taken(d)' = Taken(d) /\ Through(d)' = Through(d) /\ Skipped(d)' = Skipped(d)
        /\ (CutShort(d)' <=> CutShort(d))
    BY <1>a, <1>1 DEF Buffered, HeadOf, Flow, Heads, Taken, Through, Skipped, CutShort
  <1>8. Shape(d)'
    BY <1>a, <1>1, <1>3 DEF Flow, Shape
  <1>9. Heads(d)'
    BY <1>a, <1>2, <1>3 DEF Flow, Heads
  <1>10. Life(d)'
    BY <1>a, <1>1, <1>3 DEF Flow, Life
  <1>11. RelayTypeOK'
    <2>3. buffer' \in [Directions -> Seq(Units)]
      BY <1>a, <1>1 DEF RelayTypeOK, Units
    <2>4. phase' \in {"connect", "answer"}
      BY <1>1
    <2> QED
      BY <1>a, <1>1, <2>3, <2>4 DEF RelayTypeOK, Units
  <1>12. \A q \in Directions \ {d} : Same(q) /\ SameStage(q)
    BY <1>1, <1>2 DEF Same, SameStage, Pending, Dropping, Directions
  <1> QED
    BY <1>a, <1>1, <1>8, <1>9, <1>10, <1>11, <1>12, Advance DEF Flow, session

LEMMA ReadExactStep ==
    ASSUME RelayInv, NEW d \in Directions, read_exact(d)
    PROVE  RelayInv'
  <1>1. /\ phase = d /\ ~Buffered(d) /\ Len(wire[d]) >= HeadOf(d)
        /\ phase' = IF d = "up" THEN "connect" ELSE "answer"
        /\ wire' = [wire EXCEPT ![d] = Rest(@, HeadOf(d))]
        /\ UNCHANGED <<client, route, sent, eof, early, buffer, wrote, hand, got, shut, counted,
                       bytes>>
    BY DEF read_exact, Beyond, session, peers, inside
  <1>a. /\ RelayTypeOK /\ Live /\ Live' /\ Flow(d)
        /\ Pending(d) /\ ~Pending(d)' /\ ~Dropping(d)'
        /\ phase # "relay" /\ phase' # "relay"
    BY <1>1 DEF RelayInv, Flows, Live, Directions, Pending, Dropping
  <1>2. /\ wire'[d] = Rest(wire[d], HeadOf(d)) /\ sent'[d] = sent[d]
        /\ \A q \in Directions \ {d} : wire'[q] = wire[q]
    BY <1>a, <1>1 DEF RelayTypeOK
  <1>3. /\ Len(wire[d]) \in Nat /\ HeadOf(d) \in Nat /\ Taken(d) \in Int
    BY <1>a, Types
  <1>4. /\ wire'[d] \in Seq(Units)
        /\ Taken(d)' = Taken(d) + HeadOf(d)
        /\ \A i \in 1 .. Len(wire'[d]) : wire'[d][i] = Taken(d)' + i
    <2>1. HeadOf(d) \in 0 .. Len(wire[d])
      BY <1>1, <1>3
    <2> QED
      BY <1>a, <1>2, <2>1, TakeUnits
  <1>5. /\ ~Buffered(d)' /\ HeadOf(d)' = HeadOf(d)
        /\ hand'[d] = <<>> /\ got'[d] = <<>> /\ buffer[d] = <<>>
        /\ Len(buffer[d]) = Taken(d)
    BY <1>a, <1>1 DEF Buffered, HeadOf, Flow, Heads, Life
  <1>6. Taken(d) = 0 /\ Len(hand'[d]) = 0 /\ Len(got'[d]) = 0
    BY <1>5
  <1>7. Taken(d)' = HeadOf(d) /\ Through(d)' = HeadOf(d) /\ Skipped(d)' = HeadOf(d)
    BY <1>3, <1>4, <1>6 DEF Through, Skipped
  <1>8. Shape(d)'
    BY <1>3, <1>4, <1>6, <1>7 DEF Shape
  <1>9. Heads(d)'
    <2>1. HeadOf(d)' <= Skipped(d)' /\ Skipped(d)' = HeadOf(d)'
      BY <1>3, <1>5, <1>7
    <2> QED
      BY <1>a, <1>1, <1>5, <2>1 DEF Heads
  <1>10. Life(d)'
    <2>1. /\ shut'[d] # "end" /\ early'[d] = 1 .. sent'[d]
          /\ counted'[d] = Len(got'[d]) /\ bytes'[d] = 0
      BY <1>a, <1>1 DEF Flow, Life
    <2>2. 1 .. Skipped(d)' \subseteq 1 .. sent'[d]
      <3>1. sent[d] \in Nat /\ sent[d] = Len(wire[d]) /\ sent'[d] = sent[d]
        <4>1. sent[d] \in Nat
          BY <1>a, Types
        <4> QED
          BY <1>1, <1>3, <1>6, <4>1 DEF Taken
      <3> QED
        BY <1>1, <1>3, <1>7, <3>1
    <2> QED
      BY <1>a, <1>5, <2>1, <2>2 DEF Life
  <1>11. RelayTypeOK'
    <2>1. wire' \in [Directions -> Seq(Units)]
      BY <1>a, <1>1, <1>2, <1>4 DEF RelayTypeOK, Units
    <2>2. phase' \in {"connect", "answer"}
      BY <1>1
    <2> QED
      BY <1>a, <1>1, <2>1, <2>2 DEF RelayTypeOK, Units
  <1>12. \A q \in Directions \ {d} : Same(q) /\ SameStage(q)
    BY <1>1, <1>2 DEF Same, SameStage, Pending, Dropping, Directions
  <1> QED
    BY <1>a, <1>1, <1>8, <1>9, <1>10, <1>11, <1>12, Advance DEF Flow, session

\* No byte moves, and no head is finished.
LEMMA ConnectStep ==
    ASSUME RelayInv, Connect
    PROVE  RelayInv'
  <1>1. /\ phase = "connect" /\ phase' = "down"
        /\ UNCHANGED <<client, route, sent, eof, early, wire, buffer, wrote, hand, got, shut,
                       counted, bytes>>
    BY DEF Connect, session, peers, inside
  <1>2. RelayTypeOK /\ Live /\ Live' /\ Flows
    BY <1>1 DEF RelayInv, Live
  <1>3. RelayTypeOK'
    BY <1>1, <1>2 DEF RelayTypeOK
  <1>4. \A q \in Directions : Same(q) /\ SameStage(q)
    BY <1>1 DEF Same, SameStage, Pending, Dropping, Directions
  <1>5. Flow("up")'
    BY <1>1, <1>2, <1>4, Frame DEF Flows, Directions, session
  <1> QED
    BY <1>1, <1>2, <1>3, <1>4, <1>5, Advance DEF Directions, session

\* The proxy speaks before it copies.
LEMMA AnswerStep ==
    ASSUME RelayInv, Answer
    PROVE  RelayInv'
  <1>1. /\ phase = "answer" /\ phase' = "relay"
        /\ wrote' = [wrote EXCEPT ![Spoken] = 1]
        /\ UNCHANGED <<client, route, sent, eof, early, wire, buffer, hand, got, shut, counted,
                       bytes>>
    BY DEF Answer, session, peers
  <1>2. RelayTypeOK /\ Live /\ Live' /\ Flows
    BY <1>1 DEF RelayInv, Live
  <1>3. RelayTypeOK' /\ Spoken \in Directions /\ wrote'[Spoken] = 1 /\ Spoken' = Spoken
    BY <1>1, <1>2 DEF RelayTypeOK, Spoken, Directions
  <1>4. ASSUME NEW d \in Directions PROVE Flow(d)'
    <2>1. /\ HeadOf(d)' = HeadOf(d) /\ (Buffered(d)' <=> Buffered(d))
          /\ Taken(d)' = Taken(d) /\ Through(d)' = Through(d) /\ Skipped(d)' = Skipped(d)
          /\ (CutShort(d)' <=> CutShort(d))
          /\ ~Pending(d) /\ ~Dropping(d) /\ ~Pending(d)' /\ ~Dropping(d)'
      BY <1>1 DEF HeadOf, Buffered, Taken, Through, Skipped, CutShort, Pending, Dropping
    <2>2. Shape(d) /\ Heads(d) /\ Life(d)
      BY <1>2 DEF Flows, Flow
    <2>3. Shape(d)'
      BY <1>1, <2>1, <2>2 DEF Shape
    <2>4. Heads(d)'
      BY <1>1, <2>1, <2>2 DEF Heads
    <2>5. Life(d)'
      BY <1>1, <1>3, <2>1, <2>2 DEF Life
    <2> QED
      BY <2>3, <2>4, <2>5 DEF Flow
  <1>5. Flows' /\ RelayTypeOK' /\ Live'
    BY <1>2, <1>3, <1>4 DEF Flows
  <1>6. (InOrder /\ LossBounded /\ EndIsLast /\ CountedOnce)'
    BY <1>5, FlowSuffices, PTL
  <1> QED
    BY <1>5, <1>6 DEF RelayInv

-----------------------------------------------------------------------------
(* copy_bidirectional *)

LEMMA PullStep ==
    ASSUME RelayInv, NEW d \in Directions, NEW n \in Units, Pull(d, n)
    PROVE  RelayInv'
  <1>1. /\ phase = "relay" /\ hand[d] = <<>> /\ n \in 1 .. Len(wire[d])
        /\ hand' = [hand EXCEPT ![d] = SubSeq(wire[d], 1, n)]
        /\ wire' = [wire EXCEPT ![d] = Rest(@, n)]
        /\ UNCHANGED <<client, route, phase, sent, eof, early, buffer, wrote, got, shut, counted,
                       bytes>>
    BY DEF Pull, session, peers
  <1>a. /\ RelayTypeOK /\ Live /\ Live' /\ Flow(d)
        /\ ~Pending(d) /\ ~Dropping(d) /\ ~Pending(d)' /\ ~Dropping(d)'
    BY <1>1 DEF RelayInv, Flows, Live, Directions, Pending, Dropping
  <1>2. /\ hand'[d] = SubSeq(wire[d], 1, n) /\ wire'[d] = Rest(wire[d], n) /\ sent'[d] = sent[d]
        /\ \A q \in Directions \ {d} : hand'[q] = hand[q] /\ wire'[q] = wire[q]
    BY <1>a, <1>1 DEF RelayTypeOK
  <1>3. /\ wire'[d] \in Seq(Units) /\ Taken(d)' = Taken(d) + n
        /\ \A i \in 1 .. Len(wire'[d]) : wire'[d][i] = Taken(d)' + i
        /\ hand'[d] \in Seq(Units) /\ Len(hand'[d]) = n
        /\ \A i \in 1 .. n : hand'[d][i] = Taken(d) + i
    <2> DEFINE new == SubSeq(wire[d], 1, n)
    <2>1. n \in 0 .. Len(wire[d])
      BY <1>1
    <2>2. /\ wire'[d] \in Seq(Units) /\ Taken(d)' = Taken(d) + n
          /\ \A i \in 1 .. Len(wire'[d]) : wire'[d][i] = Taken(d)' + i
          /\ new \in Seq(Units) /\ Len(new) = n
          /\ \A i \in 1 .. n : new[i] = Taken(d) + i
      BY <1>a, <1>2, <2>1, TakeUnits
    <2>3. hand'[d] = new
      BY <1>2
    <2> HIDE DEF new
    <2> QED
      BY <2>2, <2>3, Zenon
  <1>4. /\ Len(wire[d]) \in Nat /\ HeadOf(d) \in Nat /\ Taken(d) \in Int /\ n \in Nat
        /\ wire[d] # <<>>
    <2>1. Len(wire[d]) \in Nat /\ HeadOf(d) \in Nat /\ Taken(d) \in Int
          /\ wire[d] \in Seq(Units)
      BY <1>a, Types
    <2> QED
      BY <1>1, <2>1, EmptyLen DEF Units
  <1>5. /\ Through(d) = Taken(d) /\ Through(d)' = Taken(d) /\ Through(d)' = Through(d)
        /\ Skipped(d)' = Skipped(d)
    <2>1. Len(hand[d]) = 0
      BY <1>1
    <2>2. Through(d) = Taken(d)
      BY <1>4, <2>1 DEF Through
    <2>3. Through(d)' = Taken(d)
      BY <1>3, <1>4 DEF Through
    <2>4. Skipped(d)' = Skipped(d)
      BY <1>1, <2>2, <2>3 DEF Skipped
    <2> QED
      BY <2>2, <2>3, <2>4
  <1>6. /\ HeadOf(d)' = HeadOf(d) /\ (Buffered(d)' <=> Buffered(d)) /\ Spoken' = Spoken
        /\ ~CutShort(d) /\ shut[d] # "end"
    BY <1>a, <1>1, <1>4 DEF HeadOf, Buffered, CutShort, Flow, Life, Spoken
  <1>7. Shape(d)'
    BY <1>a, <1>1, <1>3, <1>5, <1>6 DEF Flow, Shape
  <1>8. Heads(d)'
    BY <1>a, <1>1, <1>5, <1>6 DEF Flow, Heads
  <1>9. Life(d)'
    BY <1>a, <1>1, <1>5, <1>6 DEF Flow, Life
  <1>10. RelayTypeOK'
    <2>1. wire' \in [Directions -> Seq(Units)] /\ hand' \in [Directions -> Seq(Units)]
      BY <1>a, <1>1, <1>2, <1>3 DEF RelayTypeOK, Units
    <2> QED
      BY <1>a, <1>1, <2>1 DEF RelayTypeOK, Units
  <1>11. \A q \in Directions \ {d} : Same(q) /\ SameStage(q)
    BY <1>1, <1>2 DEF Same, SameStage, Pending, Dropping
  <1> QED
    BY <1>a, <1>1, <1>7, <1>8, <1>9, <1>10, <1>11, Advance DEF Flow, session

LEMMA PushStep ==
    ASSUME RelayInv, NEW d \in Directions, NEW n \in Units, Push(d, n)
    PROVE  RelayInv'
  <1>1. /\ phase = "relay" /\ n \in 1 .. Len(hand[d])
        /\ got' = [got EXCEPT ![d] = @ \o SubSeq(hand[d], 1, n)]
        /\ hand' = [hand EXCEPT ![d] = Rest(@, n)]
        /\ counted' = [counted EXCEPT ![d] = @ + n]
        /\ UNCHANGED <<client, route, phase, sent, eof, early, wire, buffer, wrote, shut, bytes>>
    BY DEF Push, session, peers
  <1>a. /\ RelayTypeOK /\ Live /\ Live' /\ Flow(d)
        /\ ~Pending(d) /\ ~Dropping(d) /\ ~Pending(d)' /\ ~Dropping(d)'
    BY <1>1 DEF RelayInv, Flows, Live, Directions, Pending, Dropping
  <1> DEFINE new == SubSeq(hand[d], 1, n)
             T == Through(d)
             K == Skipped(d)
             L == Len(got[d])
             H == HeadOf(d)
  <1>2. /\ got'[d] = got[d] \o new /\ hand'[d] = Rest(hand[d], n)
        /\ counted'[d] = counted[d] + n
        /\ \A q \in Directions \ {d} : got'[q] = got[q] /\ hand'[q] = hand[q]
                                       /\ counted'[q] = counted[q]
    BY <1>a, <1>1 DEF RelayTypeOK
  <1>t. /\ hand[d] \in Seq(Units) /\ Len(hand[d]) \in Nat /\ got[d] \in Seq(Units) /\ L \in Nat
        /\ H \in Nat /\ Taken(d) \in Int /\ T \in Int /\ K \in Int /\ n \in Nat /\ n >= 1
        /\ n \in 0 .. Len(hand[d]) /\ hand[d] # <<>>
    <2>1. /\ hand[d] \in Seq(Units) /\ Len(hand[d]) \in Nat /\ got[d] \in Seq(Units) /\ L \in Nat
          /\ H \in Nat /\ Taken(d) \in Int /\ T \in Int /\ K \in Int
      BY <1>a, Types
    <2> QED
      BY <1>1, <2>1, EmptyLen DEF Units
  <1>3. /\ Through(d)' = T + n /\ HeadOf(d)' = H /\ (Buffered(d)' <=> Buffered(d))
        /\ ~CutShort(d) /\ shut[d] # "end" /\ H <= K /\ K >= 0 /\ K = T - L
        /\ Taken(d)' = Taken(d) /\ Spoken' = Spoken
        /\ hand'[d] \in Seq(Units)
        /\ \A i \in 1 .. Len(hand'[d]) : hand'[d][i] = T + n + i
    <2>1. /\ Rest(hand[d], n) \in Seq(Units)
          /\ Len(Rest(hand[d], n)) = Len(hand[d]) - n
          /\ \A i \in 1 .. Len(hand[d]) - n : Rest(hand[d], n)[i] = hand[d][n + i]
      BY <1>t, RestFacts
    <2>2. /\ hand'[d] \in Seq(Units) /\ Len(hand'[d]) = Len(hand[d]) - n
          /\ \A i \in 1 .. Len(hand[d]) - n : hand'[d][i] = hand[d][n + i]
      BY <1>2, <2>1, Zenon
    <2>3. Taken(d)' = Taken(d)
      BY <1>1 DEF Taken
    <2>4. Through(d)' = T + n
      BY <1>t, <2>2, <2>3 DEF Through
    <2>5. ASSUME NEW i \in 1 .. Len(hand'[d])
          PROVE  hand'[d][i] = T + n + i
      <3>1. i \in 1 .. Len(hand[d]) - n /\ n + i \in 1 .. Len(hand[d]) /\ i \in Int
        BY <1>t, <2>2, <2>5
      <3>2. hand[d][n + i] = T + (n + i)
        BY <1>a, <3>1 DEF Flow, Shape
      <3> QED
        BY <1>t, <2>2, <3>1, <3>2
    <2>6. ~CutShort(d) /\ shut[d] # "end"
      BY <1>a, <1>t DEF CutShort, Flow, Life
    <2>7. H <= K /\ K >= 0 /\ K = T - L
      BY <1>a, <2>6 DEF Flow, Heads, Shape, Skipped
    <2>8. HeadOf(d)' = H /\ (Buffered(d)' <=> Buffered(d)) /\ Spoken' = Spoken
      BY <1>1 DEF HeadOf, Buffered, Spoken
    <2> QED
      BY <2>2, <2>3, <2>4, <2>5, <2>6, <2>7, <2>8
  <1>4. /\ new \in Seq(Units) /\ Len(new) = n
        /\ \A i \in 1 .. n : new[i] = T + i
    <2>1. /\ SubSeq(hand[d], 1, n) \in Seq(Units) /\ Len(SubSeq(hand[d], 1, n)) = n
          /\ \A i \in 1 .. n : SubSeq(hand[d], 1, n)[i] = hand[d][i]
      BY <1>t, PrefixFacts
    <2>2. \A i \in 1 .. n : i \in 1 .. Len(hand[d])
      BY <1>t
    <2>3. \A i \in 1 .. Len(hand[d]) : hand[d][i] = T + i
      BY <1>a DEF Flow, Shape
    <2> QED
      BY <2>1, <2>2, <2>3, Zenon
  <1> HIDE DEF new, T, K, L, H
  <1>5. /\ got'[d] \in Seq(Units) /\ Len(got'[d]) = L + n
        /\ \A i \in 1 .. L + n : got'[d][i] = IF i <= L THEN got[d][i] ELSE new[i - L]
    <2>1. /\ got[d] \o new \in Seq(Units)
          /\ Len(got[d] \o new) = Len(got[d]) + Len(new)
          /\ \A i \in 1 .. Len(got[d]) + Len(new) : (got[d] \o new)[i] =
                IF i <= Len(got[d]) THEN got[d][i] ELSE new[i - Len(got[d])]
      BY <1>t, <1>4, ConcatProperties
    <2> QED
      BY <1>2, <1>4, <2>1, Zenon DEF L
  <1>6. Skipped(d)' = K
    BY <1>3, <1>5, <1>t DEF Skipped
  <1>7. \A i \in 1 .. L + n : got'[d][i] = K + i
    <2> SUFFICES ASSUME NEW i \in 1 .. L + n PROVE got'[d][i] = K + i
      OBVIOUS
    <2>1. CASE i <= L
      <3>1. i \in 1 .. L
        BY <1>t, <2>1
      <3>2. got[d][i] = K + i
        BY <1>a, <3>1 DEF Flow, Shape, K, L
      <3> QED
        BY <1>5, <2>1, <3>2
    <2>2. CASE ~(i <= L)
      <3>1. i - L \in 1 .. n /\ i \in Int
        BY <1>t, <2>2
      <3>2. got'[d][i] = T + (i - L)
        BY <1>4, <1>5, <2>2, <3>1
      <3> QED
        BY <1>3, <1>t, <3>1, <3>2
    <2> QED
      BY <2>1, <2>2
  <1>8. Shape(d)'
    <2>1. \A i \in 1 .. Len(wire'[d]) : wire'[d][i] = Taken(d)' + i
      BY <1>a, <1>1, <1>3 DEF Flow, Shape
    <2> QED
      BY <1>3, <1>5, <1>6, <1>7, <2>1 DEF Shape
  <1>9. Heads(d)'
    <2>1. ~Buffered(d)' => buffer'[d] = <<>> /\ Skipped(d)' = HeadOf(d)'
      BY <1>a, <1>1, <1>3, <1>6 DEF Flow, Heads, K, H
    <2>2. buffer'[d] = <<>>
      BY <1>a, <1>1 DEF Flow, Heads
    <2> QED
      BY <1>a, <1>3, <1>6, <2>1, <2>2 DEF Heads
  <1>10. Life(d)'
    <2>1. counted'[d] = Len(got'[d])
      BY <1>a, <1>2, <1>5, <1>t DEF Flow, Life, L
    <2>2. 1 .. Skipped(d)' \subseteq early'[d]
      BY <1>a, <1>1, <1>6 DEF Flow, Life, K
    <2> QED
      BY <1>a, <1>1, <1>3, <2>1, <2>2 DEF Flow, Life
  <1>11. RelayTypeOK'
    <2>1. hand' \in [Directions -> Seq(Units)] /\ got' \in [Directions -> Seq(Units)]
      BY <1>a, <1>1, <1>2, <1>3, <1>5 DEF RelayTypeOK, Units
    <2>2. counted' \in [Directions -> Nat]
      BY <1>a, <1>1, <1>t DEF RelayTypeOK
    <2> QED
      BY <1>a, <1>1, <2>1, <2>2 DEF RelayTypeOK, Units
  <1>12. \A q \in Directions \ {d} : Same(q) /\ SameStage(q)
    BY <1>1, <1>2 DEF Same, SameStage, Pending, Dropping
  <1> QED
    BY <1>a, <1>1, <1>8, <1>9, <1>10, <1>11, <1>12, Advance DEF Flow, session

LEMMA PassShutDownStep ==
    ASSUME RelayInv, NEW d \in Directions, PassShutDown(d)
    PROVE  RelayInv'
  <1>1. /\ phase = "relay" /\ eof[d] /\ wire[d] = <<>> /\ hand[d] = <<>>
        /\ shut' = [shut EXCEPT ![d] = "end"]
        /\ UNCHANGED <<client, route, phase, sent, eof, early, wire, buffer, wrote, hand, got,
                       counted, bytes>>
    BY DEF PassShutDown, session, peers
  <1>a. RelayTypeOK /\ Live /\ Live' /\ Flow(d)
    BY <1>1 DEF RelayInv, Flows, Live
  <1>2. \A q \in Directions \ {d} : shut'[q] = shut[q]
    BY <1>a, <1>1 DEF RelayTypeOK
  <1>3. RelayTypeOK'
    BY <1>a, <1>1 DEF RelayTypeOK
  <1>4. \A q \in Directions \ {d} : Same(q) /\ SameStage(q)
    BY <1>1, <1>2 DEF Same, SameStage, Pending, Dropping
  <1>5. /\ Taken(d)' = Taken(d) /\ Through(d)' = Through(d) /\ Skipped(d)' = Skipped(d)
        /\ (CutShort(d)' <=> CutShort(d)) /\ Spoken' = Spoken
        /\ HeadOf(d)' = HeadOf(d) /\ (Buffered(d)' <=> Buffered(d))
        /\ (Pending(d)' <=> Pending(d)) /\ (Dropping(d)' <=> Dropping(d))
    BY <1>1 DEF Taken, Through, Skipped, HeadOf, Buffered, Pending, Dropping, CutShort, Spoken
  <1>6. Shape(d)'
    BY <1>a, <1>1, <1>5 DEF Flow, Shape
  <1>7. Heads(d)'
    BY <1>a, <1>1, <1>5 DEF Flow, Heads
  <1>8. Life(d)'
    BY <1>a, <1>1, <1>5 DEF Flow, Life
  <1> QED
    BY <1>a, <1>1, <1>3, <1>4, <1>6, <1>7, <1>8, Advance DEF Flow, session

\* The session ends in order, and what was true of its bytes stays true.
LEMMA EndStep ==
    ASSUME RelayInv, relay_data
    PROVE  RelayInv'
  <1>1. /\ phase = "relay" /\ phase' = "ended" /\ bytes' = counted
        /\ UNCHANGED <<client, route, sent, eof, early, wire, buffer, wrote, hand, got, shut,
                       counted>>
    BY DEF relay_data, session, peers
  <1>2. RelayTypeOK'
    BY <1>1 DEF RelayInv, RelayTypeOK
  <1>3. /\ \A d \in Directions : HeadOf(d)' = HeadOf(d) /\ (Buffered(d)' <=> Buffered(d))
        /\ Spoken' = Spoken
        /\ \A d \in Directions : \A k : Missing(d, k)' <=> Missing(d, k)
    BY <1>1 DEF HeadOf, Buffered, Spoken, Missing
  <1>4. InOrder' /\ EndIsLast'
    BY <1>1, <1>3 DEF RelayInv, InOrder, EndIsLast
  <1>5. LossBounded'
    BY <1>1, <1>3 DEF RelayInv, LossBounded
  <1>6. CountedOnce'
    <2> SUFFICES ASSUME NEW d \in Directions
                 PROVE  bytes'[d] <= wrote'[d] + Len(got'[d]) /\ bytes'[d] >= Len(got'[d])
      BY DEF CountedOnce
    <2>1. counted[d] = Len(got[d])
      BY <1>1 DEF RelayInv, Live, Flows, Flow, Life
    <2>2. Len(got[d]) \in Nat /\ wrote[d] \in Nat
      BY Types DEF RelayInv, RelayTypeOK
    <2> QED
      BY <1>1, <2>1, <2>2
  <1> QED
    BY <1>1, <1>2, <1>4, <1>5, <1>6 DEF RelayInv, Live

\* A session is cut off: ends that were passed on were passed on in order.
LEMMA CutStep ==
    ASSUME RelayInv, Cut
    PROVE  RelayInv'
  <1>1. /\ Live /\ phase' = "cut"
        /\ shut' = [d \in Directions |-> IF shut[d] = "end" THEN "end" ELSE "closed"]
        /\ wire' = [d \in Directions |-> <<>>]
        /\ buffer' = [d \in Directions |-> <<>>]
        /\ hand' = [d \in Directions |-> <<>>]
        /\ UNCHANGED <<client, route, sent, eof, early, wrote, got, counted, bytes>>
    BY DEF Cut, session, peers, Live
  <1>2. RelayTypeOK'
    BY <1>1 DEF RelayInv, RelayTypeOK
  <1>3. /\ \A d \in Directions : HeadOf(d)' = HeadOf(d) /\ (Buffered(d)' <=> Buffered(d))
        /\ Spoken' = Spoken
        /\ \A d \in Directions : shut'[d] = "end" => shut[d] = "end"
    BY <1>1 DEF HeadOf, Buffered, Spoken
  <1>4. InOrder' /\ EndIsLast'
    BY <1>1, <1>3 DEF RelayInv, InOrder, EndIsLast
  <1>5. LossBounded' /\ CountedOnce'
    BY <1>1 DEF RelayInv, LossBounded, CountedOnce
  <1> QED
    BY <1>1, <1>2, <1>4, <1>5 DEF RelayInv, Live

LEMMA RelayInvariant == RelaySpec => []RelayInv
  <1>1. RelayInit => RelayInv
    <2> SUFFICES ASSUME RelayInit PROVE RelayInv
      OBVIOUS
    <2>1. RelayTypeOK
      BY RelayAssumption DEF RelayInit, RelayTypeOK
    <2>2. ASSUME NEW d \in Directions PROVE Flow(d)
      <3>1. /\ phase = "up" /\ sent[d] = 0 /\ eof[d] = FALSE /\ early[d] = {}
            /\ wire[d] = <<>> /\ buffer[d] = <<>> /\ hand[d] = <<>>
            /\ got[d] = <<>> /\ shut[d] = "open" /\ counted[d] = 0 /\ bytes[d] = 0
        BY DEF RelayInit
      <3>2. /\ Len(wire[d]) = 0 /\ Len(buffer[d]) = 0 /\ Len(hand[d]) = 0 /\ Len(got[d]) = 0
            /\ Pending(d) /\ ~Dropping(d)
        BY <3>1 DEF Pending, Dropping, Directions
      <3>3. Taken(d) = 0 /\ Through(d) = 0 /\ Skipped(d) = 0
        <4>1. /\ Taken(d) = 0 - 0 /\ Through(d) = Taken(d) - 0 /\ Skipped(d) = Through(d) - 0
          BY <3>1, <3>2, Zenon DEF Taken, Through, Skipped
        <4> QED
          BY <4>1
      <3>4. Shape(d)
        BY <3>2, <3>3 DEF Shape
      <3>5. Heads(d)
        BY <3>1, <3>2, <3>3 DEF Heads
      <3>6. Life(d)
        BY <3>1, <3>2, <3>3 DEF Life
      <3> QED
        BY <3>4, <3>5, <3>6 DEF Flow
    <2>3. Live /\ Flows
      BY <2>2 DEF Flows, Live, RelayInit
    <2> QED
      BY <2>1, <2>3, FlowSuffices DEF RelayInv
  <1>2. RelayInv /\ [RelayNext]_relayVars => RelayInv'
    <2> SUFFICES ASSUME RelayInv, [RelayNext]_relayVars PROVE RelayInv'
      OBVIOUS
    <2>1. ASSUME NEW d \in Directions,
                 \/ Send(d) \/ ShutDown(d) \/ (\E n \in 1 .. MaxUnits : Fill(d, n))
                 \/ ParseHead(d) \/ into_inner(d) \/ read_exact(d) \/ Copy(d)
          PROVE  RelayInv'
      BY <2>1, SendStep, ShutDownStep, FillStep, ParseHeadStep, IntoInnerStep, ReadExactStep,
         PullStep, PushStep, PassShutDownStep DEF Copy, Units
    <2>2. CASE UNCHANGED relayVars
      <3>1. UNCHANGED <<client, route, phase, sent, eof, early, wire, buffer, wrote, hand, got,
                        shut, counted, bytes>>
        BY <2>2 DEF relayVars, session, peers, inside
      <3>2. RelayTypeOK' /\ InOrder' /\ LossBounded' /\ EndIsLast' /\ CountedOnce'
        BY <3>1 DEF RelayInv, RelayTypeOK, InOrder, LossBounded, EndIsLast, CountedOnce, HeadOf,
                    Buffered, Spoken, Missing
      <3>3. \A q \in Directions : Same(q) /\ SameStage(q)
        BY <3>1 DEF Same, SameStage, Pending, Dropping
      <3>4. Live' => Flows'
        BY <3>1, <3>3, Frame DEF RelayInv, Live, Flows, session
      <3> QED
        BY <3>2, <3>4 DEF RelayInv
    <2> QED
      BY <2>1, <2>2, ConnectStep, AnswerStep, EndStep, CutStep DEF RelayNext
  <1> QED
    BY <1>1, <1>2, PTL DEF RelaySpec

\* Buffers, counters and what the peers received are well formed.
THEOREM RelayTypeCorrect == RelaySpec => []RelayTypeOK
  BY RelayInvariant, PTL DEF RelayInv

\* copy_bidirectional and the readers of the heads pass on one run of a stream,
\* in order and without any part of a head, behind what the proxy says itself.
THEOREM StreamsInOrder == RelaySpec => []InOrder
  BY RelayInvariant, PTL DEF RelayInv

\* Until a session is cut off, into_inner is the only place where bytes get lost,
\* and it takes the first ones behind the head.
THEOREM LossIsBounded == RelaySpec => []LossBounded
  BY RelayInvariant, PTL DEF RelayInv

\* The end of a stream is passed on behind its last byte, for good.
THEOREM EndComesLast == RelaySpec => []EndIsLast
  BY RelayInvariant, PTL DEF RelayInv

\* relay_data adds to the metrics all that was copied, and never more than was
\* written to either side.
THEOREM BytesCountedOnce == RelaySpec => []CountedOnce
  BY RelayInvariant, PTL DEF RelayInv
=============================================================================
