-------------------------- MODULE ProxyServerProofs --------------------------
(***************************************************************************)
(* Proofs about ProxyServer, for any number of accept loops, connections,  *)
(* permits and reloads.                                                    *)
(***************************************************************************)
EXTENDS ProxyServer, FiniteSetTheorems, SequenceTheorems, TLAPS

-----------------------------------------------------------------------------
(* Counting connections *)

\* The connections f puts into one of the states S.
Those(f, S) == {x \in Conns : f[x] \in S}

\* Any selection of connections is finite.
LEMMA ThoseFinite ==
    ASSUME NEW f, NEW S
    PROVE  /\ IsFiniteSet(Those(f, S))
           /\ Cardinality(Those(f, S)) \in Nat
  <1>1. Those(f, S) \in SUBSET Conns
    BY DEF Those
  <1>2. IsFiniteSet(Those(f, S))
    BY <1>1, ProxyAssumption, FS_Subset
  <1> QED
    BY <1>2, FS_CardinalityType

\* What moving a connection from state s to state t adds to the count of S.
Shift(S, s, t) == (IF t \in S THEN 1 ELSE 0) - (IF s \in S THEN 1 ELSE 0)

\* The map g is the map f with connection c moved to state t.
Moved(f, g, c, t) ==
    /\ f \in [Conns -> States]
    /\ c \in Conns /\ t \in States
    /\ g = [f EXCEPT ![c] = t]

\* A connection that moves into S adds one, one that moves out takes one away.
LEMMA Counts ==
    ASSUME NEW f, NEW g, NEW c, NEW t, Moved(f, g, c, t), NEW S
    PROVE  Cardinality(Those(g, S)) = Cardinality(Those(f, S)) + Shift(S, f[c], t)
  <1>0. f \in [Conns -> States] /\ c \in Conns /\ t \in States /\ g = [f EXCEPT ![c] = t]
    BY DEF Moved
  <1> DEFINE T == Those(f, S)
  <1>1. IsFiniteSet(T) /\ Cardinality(T) \in Nat
    BY ThoseFinite
  <1>2. CASE f[c] \in S <=> t \in S
    <2>1. Those(g, S) = T
      BY <1>0, <1>2 DEF Those
    <2> QED
      BY <1>1, <1>2, <2>1 DEF Shift
  <1>3. CASE f[c] \in S /\ t \notin S
    <2>1. Those(g, S) = T \ {c} /\ c \in T
      BY <1>0, <1>3 DEF Those
    <2>2. Cardinality(Those(g, S)) = Cardinality(T) - 1
      BY <1>1, <2>1, FS_RemoveElement
    <2> QED
      BY <1>1, <1>3, <2>2 DEF Shift
  <1>4. CASE f[c] \notin S /\ t \in S
    <2>1. Those(g, S) = T \cup {c} /\ c \notin T
      BY <1>0, <1>4 DEF Those
    <2>2. Cardinality(Those(g, S)) = Cardinality(T) + 1
      BY <1>1, <2>1, FS_AddElement
    <2> QED
      BY <1>1, <1>4, <2>2 DEF Shift
  <1> QED
    BY <1>2, <1>3, <1>4

-----------------------------------------------------------------------------
(* The inductive invariant *)

HolderStates == {"granted", "spawned", "serving", "closing"}
CountedStates == {"spawned", "serving"}
EndedStates == {"closing", "closed"}

\* The three counters agree with the states of the connections.
Accounting ==
    /\ permits + Cardinality(Those(cstate, HolderStates)) = Capacity
    /\ active = Cardinality(Those(cstate, CountedStates))
    /\ total = Cardinality(Those(cstate, CountedStates)) + Cardinality(Those(cstate, EndedStates))

\* Type correctness needs the accounting (active - 1 is a natural because the
\* connection that ends is counted), the accounting needs the queue (the
\* connection a permit is handed to is waiting, so it holds none), and the
\* queue needs the types.
IInv == TypeOK /\ Accounting /\ QueueExact

\* Somebody who waits is in the state "queued" and is a connection.
LEMMA HeadWaits ==
    ASSUME TypeOK, QueueExact, waiters # << >>
    PROVE  /\ Head(waiters) \in Conns
           /\ cstate[Head(waiters)] = "queued"
           /\ Head(waiters) = waiters[1]
           /\ 1 \in DOMAIN waiters
  <1>1. waiters \in Seq(Conns)
    BY DEF TypeOK
  <1>2. Len(waiters) \in Nat /\ Len(waiters) # 0 /\ DOMAIN waiters = 1 .. Len(waiters)
    BY <1>1, EmptySeq, LenProperties
  <1>3. Head(waiters) = waiters[1] /\ 1 \in DOMAIN waiters /\ Head(waiters) \in Conns
    BY <1>1, <1>2, HeadTailProperties
  <1> QED
    BY <1>3 DEF QueueExact

\* A step that moves one connection keeps the types of the connection states.
LEMMA TypeStep ==
    ASSUME TypeOK, Accounting, QueueExact, [Next]_vars
    PROVE  TypeOK'
  <1> USE DEF TypeOK, StateTypeOK
  <1>1. ASSUME NEW l \in Listeners, NEW c \in Conns, Accept(l, c)
        PROVE  TypeOK'
    <2>1. cstate' \in [Conns -> States]
      BY <1>1 DEF Accept, States
    <2>2. Len(installed) \in Nat
      BY LenProperties
    <2> QED
      BY <1>1, <2>1, <2>2 DEF Accept, stateVars
  <1>2. ASSUME NEW l \in Listeners, AcceptError(l)
        PROVE  TypeOK'
    BY <1>2 DEF AcceptError, stateVars, pastVars
  <1>3. ASSUME NEW l \in Listeners, BackoffEnds(l)
        PROVE  TypeOK'
    BY <1>3 DEF BackoffEnds, stateVars, pastVars
  <1>4. ASSUME NEW l \in Listeners, NEW c \in Conns, Admit(l, c)
        PROVE  TypeOK'
    <2>1. cstate' \in [Conns -> States]
      BY <1>4 DEF Admit, States
    <2>2. Len(installed) \in Nat
      BY LenProperties
    <2> QED
      BY <1>4, <2>1, <2>2 DEF Admit, stateVars
  <1>5. ASSUME NEW l \in Listeners, NEW c \in Conns, Refuse(l, c)
        PROVE  TypeOK'
    <2>1. cstate' \in [Conns -> States]
      BY <1>5 DEF Refuse, States
    <2> QED
      BY <1>5, <2>1 DEF Refuse, stateVars, pastVars
  <1>6. ASSUME NEW l \in Listeners, NEW c \in Conns, TakePermit(l, c)
        PROVE  TypeOK'
    <2>1. cstate' \in [Conns -> States]
      BY <1>6 DEF TakePermit, States
    <2> QED
      BY <1>6, <2>1 DEF TakePermit, stateVars, pastVars
  <1>7. ASSUME NEW l \in Listeners, NEW c \in Conns, WaitForPermit(l, c)
        PROVE  TypeOK'
    <2>1. cstate' \in [Conns -> States]
      BY <1>7 DEF WaitForPermit, States
    <2>2. waiters' \in Seq(Conns)
      BY <1>7, AppendProperties DEF WaitForPermit
    <2> QED
      BY <1>7, <2>1, <2>2 DEF WaitForPermit, stateVars, pastVars
  <1>8. ASSUME NEW l \in Listeners, NEW c \in Conns, Spawn(l, c)
        PROVE  TypeOK'
    <2>1. cstate' \in [Conns -> States]
      BY <1>8 DEF Spawn, States
    <2> QED
      BY <1>8, <2>1 DEF Spawn, stateVars, pastVars
  <1>9. ASSUME NEW c \in Conns, Snapshot(c)
        PROVE  TypeOK'
    <2>1. cstate' \in [Conns -> States]
      BY <1>9 DEF Snapshot, States
    <2> QED
      BY <1>9, <2>1 DEF Snapshot, stateVars
  <1>10. ASSUME NEW c \in Conns, Finish(c)
        PROVE  TypeOK'
    <2>1. cstate' \in [Conns -> States]
      BY <1>10 DEF Finish, States
    <2>2. c \in Those(cstate, CountedStates)
      BY <1>10 DEF Finish, Those, CountedStates
    <2>3. active # 0
      BY <2>2, ThoseFinite, FS_EmptySet DEF Accounting
    <2>4. active' \in Nat
      BY <1>10, <2>3 DEF Finish
    <2> QED
      BY <1>10, <2>1, <2>4 DEF Finish, stateVars, pastVars
  <1>11. ASSUME NEW c \in Conns, ReturnPermit(c)
        PROVE  TypeOK'
    <2>1. cstate' \in [Conns -> States]
      BY <1>11 DEF ReturnPermit, States
    <2> QED
      BY <1>11, <2>1 DEF ReturnPermit, stateVars, pastVars
  <1>12. ASSUME NEW c \in Conns, HandOverPermit(c)
        PROVE  TypeOK'
    <2>1. Head(waiters) \in Conns
      BY <1>12, HeadWaits DEF HandOverPermit
    <2>2. cstate' \in [Conns -> States]
      BY <1>12, <2>1 DEF HandOverPermit, States
    <2>3. waiters' \in Seq(Conns)
      BY <1>12, HeadTailProperties DEF HandOverPermit
    <2> QED
      BY <1>12, <2>2, <2>3 DEF HandOverPermit, stateVars, pastVars
  <1>13. ASSUME Reloading
        PROVE  TypeOK'
    <2>1. UNCHANGED <<connVars, pastVars>>
      BY <1>13 DEF Reloading
    <2>2. StateTypeOK'
      <3>1. ASSUME NEW k \in Configs, InstallConfig(k)
            PROVE  StateTypeOK'
        <4>1. installed' \in Seq(Configs) /\ Len(installed') = Len(installed) + 1
          BY <3>1, AppendProperties DEF InstallConfig
        <4>2. Len(installed) \in Nat
          BY LenProperties
        <4> QED
          BY <3>1, <4>1, <4>2 DEF InstallConfig
      <3>2. ASSUME InstallAuthenticator
            PROVE  StateTypeOK'
        BY <3>2 DEF InstallAuthenticator, AuthenticatorOf
      <3>3. ASSUME ReleaseWrite
            PROVE  StateTypeOK'
        BY <3>3 DEF ReleaseWrite
      <3> QED
        BY <1>13, <3>1, <3>2, <3>3 DEF Reloading, Reload
    <2> QED
      BY <2>1, <2>2 DEF connVars, pastVars
  <1>14. CASE UNCHANGED vars
    BY <1>14 DEF vars, stateVars, connVars, pastVars
  <1> QED
    BY <1>1, <1>2, <1>3, <1>4, <1>5, <1>6, <1>7, <1>8, <1>9, <1>10, <1>11, <1>12, <1>13, <1>14
    DEF Next, Loop, Task

\* The counters keep agreeing with the states: each action moves a connection
\* and adjusts exactly the counters that count the states it moves between.
LEMMA AccountingStep ==
    ASSUME TypeOK, Accounting, QueueExact, [Next]_vars
    PROVE  Accounting'
  <1> DEFINE H == Cardinality(Those(cstate, HolderStates))
             A == Cardinality(Those(cstate, CountedStates))
             E == Cardinality(Those(cstate, EndedStates))
             Move(c, s, t) == cstate[c] = s /\ cstate' = [cstate EXCEPT ![c] = t]
  <1>a. /\ cstate \in [Conns -> States] /\ permits \in Nat /\ active \in Nat /\ total \in Nat
        /\ H \in Nat /\ A \in Nat /\ E \in Nat
        /\ permits + H = Capacity /\ active = A /\ total = A + E
    BY ThoseFinite DEF TypeOK, Accounting
  <1>b. ASSUME NEW c \in Conns, NEW s \in States, NEW t \in States, Move(c, s, t)
        PROVE  /\ H' = H + Shift(HolderStates, s, t)
               /\ A' = A + Shift(CountedStates, s, t)
               /\ E' = E + Shift(EndedStates, s, t)
    <2>1. cstate[c] = s /\ Moved(cstate, cstate', c, t)
      BY <1>a, <1>b DEF Moved
    <2>2. ASSUME NEW S
          PROVE  Cardinality(Those(cstate', S)) = Cardinality(Those(cstate, S)) + Shift(S, s, t)
      <3>1. Cardinality(Those(cstate', S)) = Cardinality(Those(cstate, S)) + Shift(S, cstate[c], t)
        BY <2>1, Counts
      <3> QED
        BY <2>1, <3>1
    <2>3. H' = H + Shift(HolderStates, s, t)
      BY <2>2
    <2>4. A' = A + Shift(CountedStates, s, t)
      BY <2>2
    <2>5. E' = E + Shift(EndedStates, s, t)
      BY <2>2
    <2> QED
      BY <2>3, <2>4, <2>5
  <1>c. Accounting' <=> permits' + H' = Capacity /\ active' = A' /\ total' = A' + E'
    BY DEF Accounting, Capacity
  <1>d. ASSUME cstate' = cstate, permits' = permits, active' = active, total' = total
        PROVE  Accounting'
    BY <1>a, <1>c, <1>d
  <1> HIDE DEF H, A, E, Move
  <1> USE DEF Shift, HolderStates, CountedStates, EndedStates, States
  <1>1. ASSUME NEW l \in Listeners, NEW c \in Conns, Accept(l, c)
        PROVE  Accounting'
    <2>1. Move(c, "new", "accepted")
      BY <1>1 DEF Accept, Move
    <2>2. H' = H /\ A' = A /\ E' = E
      BY <1>a, <1>b, <2>1
    <2> QED
      BY <1>1, <1>a, <1>c, <2>2 DEF Accept
  <1>2. ASSUME NEW l \in Listeners, AcceptError(l) \/ BackoffEnds(l)
        PROVE  Accounting'
    BY <1>2, <1>d DEF AcceptError, BackoffEnds
  <1>4. ASSUME NEW l \in Listeners, NEW c \in Conns, Admit(l, c)
        PROVE  Accounting'
    <2>1. Move(c, "accepted", "admitted")
      BY <1>4 DEF Admit, Move
    <2>2. H' = H /\ A' = A /\ E' = E
      BY <1>a, <1>b, <2>1
    <2> QED
      BY <1>4, <1>a, <1>c, <2>2 DEF Admit
  <1>5. ASSUME NEW l \in Listeners, NEW c \in Conns, Refuse(l, c)
        PROVE  Accounting'
    <2>1. Move(c, "accepted", "refused")
      BY <1>5 DEF Refuse, Move
    <2>2. H' = H /\ A' = A /\ E' = E
      BY <1>a, <1>b, <2>1
    <2> QED
      BY <1>5, <1>a, <1>c, <2>2 DEF Refuse
  <1>6. ASSUME NEW l \in Listeners, NEW c \in Conns, TakePermit(l, c)
        PROVE  Accounting'
    <2>1. Move(c, "admitted", "granted")
      BY <1>6 DEF TakePermit, Move
    <2>2. H' = H + 1 /\ A' = A /\ E' = E
      BY <1>a, <1>b, <2>1
    <2> QED
      BY <1>6, <1>a, <1>c, <2>2 DEF TakePermit
  <1>7. ASSUME NEW l \in Listeners, NEW c \in Conns, WaitForPermit(l, c)
        PROVE  Accounting'
    <2>1. Move(c, "admitted", "queued")
      BY <1>7 DEF WaitForPermit, Move
    <2>2. H' = H /\ A' = A /\ E' = E
      BY <1>a, <1>b, <2>1
    <2> QED
      BY <1>7, <1>a, <1>c, <2>2 DEF WaitForPermit
  <1>8. ASSUME NEW l \in Listeners, NEW c \in Conns, Spawn(l, c)
        PROVE  Accounting'
    <2>1. Move(c, "granted", "spawned")
      BY <1>8 DEF Spawn, Move
    <2>2. H' = H /\ A' = A + 1 /\ E' = E
      BY <1>a, <1>b, <2>1
    <2> QED
      BY <1>8, <1>a, <1>c, <2>2 DEF Spawn
  <1>9. ASSUME NEW c \in Conns, Snapshot(c)
        PROVE  Accounting'
    <2>1. Move(c, "spawned", "serving")
      BY <1>9 DEF Snapshot, Move
    <2>2. H' = H /\ A' = A /\ E' = E
      BY <1>a, <1>b, <2>1
    <2> QED
      BY <1>9, <1>a, <1>c, <2>2 DEF Snapshot
  <1>10. ASSUME NEW c \in Conns, Finish(c)
        PROVE  Accounting'
    <2>1. Move(c, "serving", "closing")
      BY <1>10 DEF Finish, Move
    <2>2. H' = H /\ A' = A - 1 /\ E' = E + 1
      BY <1>a, <1>b, <2>1
    <2> QED
      BY <1>10, <1>a, <1>c, <2>2 DEF Finish
  <1>11. ASSUME NEW c \in Conns, ReturnPermit(c)
        PROVE  Accounting'
    <2>1. Move(c, "closing", "closed")
      BY <1>11 DEF ReturnPermit, Move
    <2>2. H' = H - 1 /\ A' = A /\ E' = E
      BY <1>a, <1>b, <2>1
    <2> QED
      BY <1>11, <1>a, <1>c, <2>2 DEF ReturnPermit
  <1>12. ASSUME NEW c \in Conns, HandOverPermit(c)
        PROVE  Accounting'
    <2> DEFINE h == Head(waiters)
               g == [cstate EXCEPT ![c] = "closed"]
    <2>1. h \in Conns /\ cstate[h] = "queued" /\ cstate[c] = "closing" /\ h # c
      BY <1>12, HeadWaits DEF HandOverPermit
    <2>2. g \in [Conns -> States] /\ g[h] = "queued"
      BY <1>a, <2>1
    <2>3. cstate' = [g EXCEPT ![h] = "granted"]
      BY <1>12 DEF HandOverPermit
    <2>a. "closed" \in States /\ "granted" \in States
      OBVIOUS
    <2>b. Moved(cstate, g, c, "closed")
      BY <1>a, <2>a DEF Moved
    <2>c. Moved(g, cstate', h, "granted")
      BY <2>a, <2>1, <2>2, <2>3 DEF Moved
    <2> HIDE DEF States, Shift, g, h
    <2>4. ASSUME NEW S
          PROVE  Cardinality(Those(cstate', S))
                   = Cardinality(Those(cstate, S)) + Shift(S, "closing", "closed")
                                                   + Shift(S, "queued", "granted")
      <3>1. Cardinality(Those(g, S)) = Cardinality(Those(cstate, S)) + Shift(S, "closing", "closed")
        <4>1. Cardinality(Those(g, S)) = Cardinality(Those(cstate, S)) + Shift(S, cstate[c], "closed")
          BY <2>b, Counts
        <4> QED
          BY <2>1, <4>1
      <3>2. Cardinality(Those(cstate', S)) = Cardinality(Those(g, S)) + Shift(S, "queued", "granted")
        <4>1. Cardinality(Those(cstate', S)) = Cardinality(Those(g, S)) + Shift(S, g[h], "granted")
          BY <2>c, Counts
        <4> QED
          BY <2>2, <4>1
      <3> QED
        BY <3>1, <3>2
    <2>5. H' = H /\ A' = A /\ E' = E
      <3>1. Cardinality(Those(cstate', HolderStates)) = H
        BY <1>a, <2>4 DEF H, Shift
      <3>2. Cardinality(Those(cstate', CountedStates)) = A
        BY <1>a, <2>4 DEF A, Shift
      <3>3. Cardinality(Those(cstate', EndedStates)) = E
        BY <1>a, <2>4 DEF E, Shift
      <3> QED
        BY <3>1, <3>2, <3>3 DEF H, A, E
    <2>6. permits' = permits /\ active' = active /\ total' = total
      BY <1>12 DEF HandOverPermit
    <2> QED
      BY <1>a, <1>c, <2>5, <2>6
  <1>13. ASSUME Reloading
        PROVE  Accounting'
    BY <1>13, <1>d DEF Reloading, connVars
  <1>14. CASE UNCHANGED vars
    BY <1>14, <1>d DEF vars, connVars
  <1> QED
    BY <1>1, <1>2, <1>4, <1>5, <1>6, <1>7, <1>8, <1>9, <1>10, <1>11, <1>12, <1>13, <1>14
    DEF Next, Loop, Task

\* The queue stays exact: only WaitForPermit and HandOverPermit touch it, and
\* a permit becomes free only when nobody waits.
LEMMA QueueStep ==
    ASSUME TypeOK, QueueExact, [Next]_vars
    PROVE  QueueExact'
  <1>a. /\ cstate \in [Conns -> States] /\ waiters \in Seq(Conns) /\ permits \in Nat
        /\ Len(waiters) \in Nat /\ DOMAIN waiters = 1 .. Len(waiters)
    BY LenProperties DEF TypeOK
  <1>b. ASSUME waiters' = waiters, waiters # << >> => permits' = permits,
               \A x \in Conns : cstate'[x] = "queued" <=> cstate[x] = "queued"
        PROVE  QueueExact'
    BY <1>b DEF QueueExact
  <1>1. ASSUME NEW l \in Listeners, NEW c \in Conns,
               Accept(l, c) \/ Admit(l, c) \/ Refuse(l, c) \/ Spawn(l, c)
        PROVE  QueueExact'
    BY <1>1, <1>a, <1>b DEF Accept, Admit, Refuse, Spawn
  <1>2. ASSUME NEW l \in Listeners, AcceptError(l) \/ BackoffEnds(l)
        PROVE  QueueExact'
    BY <1>2, <1>b DEF AcceptError, BackoffEnds
  <1>3. ASSUME NEW l \in Listeners, NEW c \in Conns, TakePermit(l, c)
        PROVE  QueueExact'
    <2>1. waiters = << >>
      BY <1>3 DEF TakePermit, QueueExact
    <2> QED
      BY <1>3, <2>1, <1>a, <1>b DEF TakePermit
  <1>4. ASSUME NEW l \in Listeners, NEW c \in Conns, WaitForPermit(l, c)
        PROVE  QueueExact'
    <2>1. /\ cstate[c] = "admitted" /\ permits' = 0 /\ permits = 0
          /\ cstate' = [cstate EXCEPT ![c] = "queued"]
          /\ waiters' = Append(waiters, c)
      BY <1>4 DEF WaitForPermit
    <2>2. /\ DOMAIN waiters' = 1 .. Len(waiters) + 1
          /\ \A i \in 1 .. Len(waiters) : waiters'[i] = waiters[i]
          /\ waiters'[Len(waiters) + 1] = c
      BY <1>a, <2>1, AppendProperties, LenProperties
    <2>3. \A i \in DOMAIN waiters : waiters[i] # c
      BY <2>1 DEF QueueExact
    <2>4. \A x \in Conns : cstate'[x] = "queued" <=> \E i \in DOMAIN waiters' : waiters'[i] = x
      <3> SUFFICES ASSUME NEW x \in Conns
                   PROVE  cstate'[x] = "queued" <=> \E i \in DOMAIN waiters' : waiters'[i] = x
        OBVIOUS
      <3>1. CASE x = c
        <4>1. cstate'[x] = "queued"
          BY <3>1, <1>a, <2>1
        <4>2. Len(waiters) + 1 \in DOMAIN waiters'
          BY <1>a, <2>2
        <4> QED
          BY <3>1, <4>1, <4>2, <2>2
      <3>2. CASE x # c
        <4>1. cstate'[x] = cstate[x]
          BY <3>2, <1>a, <2>1
        <4>2. (\E i \in DOMAIN waiters' : waiters'[i] = x) <=> (\E i \in DOMAIN waiters : waiters[i] = x)
          BY <3>2, <1>a, <2>2
        <4> QED
          BY <4>1, <4>2 DEF QueueExact
      <3> QED
        BY <3>1, <3>2
    <2>5. \A i, j \in DOMAIN waiters' : waiters'[i] = waiters'[j] => i = j
      BY <1>a, <2>2, <2>3 DEF QueueExact
    <2> QED
      BY <2>1, <2>4, <2>5 DEF QueueExact
  <1>5. ASSUME NEW c \in Conns, Snapshot(c) \/ Finish(c) \/ ReturnPermit(c)
        PROVE  QueueExact'
    BY <1>5, <1>a, <1>b DEF Snapshot, Finish, ReturnPermit
  <1>6. ASSUME NEW c \in Conns, HandOverPermit(c)
        PROVE  QueueExact'
    <2> DEFINE h == waiters[1]
    <2>1. /\ cstate[c] = "closing" /\ waiters # << >> /\ permits' = permits
          /\ cstate' = [cstate EXCEPT ![c] = "closed", ![h] = "granted"]
          /\ waiters' = Tail(waiters)
          /\ h \in Conns /\ cstate[h] = "queued" /\ 1 \in DOMAIN waiters
      BY <1>6, HeadWaits DEF HandOverPermit
    <2>2. /\ DOMAIN waiters' = 1 .. Len(waiters) - 1
          /\ \A i \in 1 .. Len(waiters) - 1 : waiters'[i] = waiters[i + 1]
      BY <1>a, <2>1, HeadTailProperties, LenProperties
    <2>3. \A x \in Conns : cstate'[x] = "queued" <=> cstate[x] = "queued" /\ x # h
      BY <1>a, <2>1
    <2>4. \A x \in Conns : (\E i \in DOMAIN waiters' : waiters'[i] = x)
                              <=> (x # h /\ \E i \in DOMAIN waiters : waiters[i] = x)
      <3> SUFFICES ASSUME NEW x \in Conns
                   PROVE  (\E i \in DOMAIN waiters' : waiters'[i] = x)
                              <=> (x # h /\ \E i \in DOMAIN waiters : waiters[i] = x)
        OBVIOUS
      <3>1. ASSUME NEW i \in DOMAIN waiters', waiters'[i] = x
            PROVE  x # h /\ \E k \in DOMAIN waiters : waiters[k] = x
        <4>1. i + 1 \in DOMAIN waiters /\ waiters[i + 1] = x /\ i + 1 # 1
          BY <3>1, <1>a, <2>2
        <4> QED
          BY <4>1, <2>1 DEF QueueExact
      <3>2. ASSUME NEW i \in DOMAIN waiters, waiters[i] = x, x # h
            PROVE  \E k \in DOMAIN waiters' : waiters'[k] = x
        <4>1. i - 1 \in DOMAIN waiters' /\ waiters'[i - 1] = x
          BY <3>2, <1>a, <2>2
        <4> QED
          BY <4>1
      <3> QED
        BY <3>1, <3>2
    <2>5. \A i, j \in DOMAIN waiters' : waiters'[i] = waiters'[j] => i = j
      <3> SUFFICES ASSUME NEW i \in DOMAIN waiters', NEW j \in DOMAIN waiters',
                          waiters'[i] = waiters'[j]
                   PROVE  i = j
        OBVIOUS
      <3>1. i + 1 \in DOMAIN waiters /\ j + 1 \in DOMAIN waiters /\ waiters[i + 1] = waiters[j + 1]
        BY <1>a, <2>2
      <3>2. i + 1 = j + 1
        BY <3>1 DEF QueueExact
      <3> QED
        BY <3>2, <2>2, <1>a
    <2> QED
      BY <2>1, <2>3, <2>4, <2>5 DEF QueueExact
  <1>7. ASSUME Reloading
        PROVE  QueueExact'
    BY <1>7, <1>b DEF Reloading, connVars
  <1>8. CASE UNCHANGED vars
    BY <1>8, <1>b DEF vars, connVars
  <1> QED
    BY <1>1, <1>2, <1>3, <1>4, <1>5, <1>6, <1>7, <1>8 DEF Next, Loop, Task

\* At start no permit is out, nobody waits and nothing is counted.
LEMMA IInvInit == Init => IInv
  <1> SUFFICES ASSUME Init PROVE IInv
    OBVIOUS
  <1>1. TypeOK
    <2>1. installed = <<InitialConfig>> /\ installed \in Seq(Configs) /\ Len(installed) = 1
      BY ConfigsAssumption DEF Init, StateInit
    <2>2. waiters \in Seq(Conns)
      BY EmptySeq DEF Init
    <2>3. Capacity \in Nat
      BY ConfigsAssumption, ProxyAssumption DEF Capacity
    <2>4. NoSnap \in [config : Configs, authenticator : Configs \union {NoAuth}]
      BY ConfigsAssumption DEF NoSnap
    <2>5. StateTypeOK
      BY <2>1, ConfigsAssumption DEF Init, StateInit, StateTypeOK, AuthenticatorOf
    <2>6. cstate \in [Conns -> States]
      BY DEF Init, States
    <2>7. snap \in [Conns -> [config : Configs, authenticator : Configs \union {NoAuth}]]
      BY <2>4 DEF Init
    <2>8. /\ listener \in [Listeners -> Conns \union {Idle, Backoff}]
          /\ arrival \in [Conns -> Nat] /\ admission \in [Conns -> Nat]
      BY DEF Init
    <2>9. permits \in Nat /\ total \in Nat /\ active \in Nat
      BY <2>3 DEF Init
    <2> QED
      BY <2>2, <2>5, <2>6, <2>7, <2>8, <2>9 DEF TypeOK
  <1>2. Accounting
    <2>1. /\ Those(cstate, HolderStates) = {} /\ Those(cstate, CountedStates) = {}
          /\ Those(cstate, EndedStates) = {}
      BY DEF Init, Those, HolderStates, CountedStates, EndedStates
    <2>2. Capacity \in Nat
      BY ConfigsAssumption, ProxyAssumption DEF Capacity
    <2>3. permits = Capacity /\ active = 0 /\ total = 0
      BY DEF Init
    <2>4. Cardinality({}) = 0
      BY FS_EmptySet
    <2> QED
      BY <2>1, <2>2, <2>3, <2>4 DEF Accounting
  <1>3. QueueExact
    BY DEF Init, QueueExact
  <1> QED
    BY <1>1, <1>2, <1>3 DEF IInv

\* IInv is inductive.
LEMMA Inductive == Spec => []IInv
  <1>1. IInv /\ [Next]_vars => IInv'
    BY TypeStep, AccountingStep, QueueStep DEF IInv
  <1> QED
    BY IInvInit, <1>1, PTL DEF Spec

\* The accounting says what the properties say.
LEMMA IInvImplies ==
    ASSUME IInv
    PROVE  PermitsConserved /\ GaugeExact
  <1>1. /\ Holders = Those(cstate, HolderStates)
        /\ Counted = Those(cstate, CountedStates)
        /\ In(EndedStates) = Those(cstate, EndedStates)
    BY DEF Holders, Counted, In, Those, HolderStates, CountedStates
  <1>2. Cardinality(Counted) <= Cardinality(Holders)
    <2>1. Counted \in SUBSET Holders
      BY DEF Counted, Holders, In
    <2> QED
      BY <1>1, <2>1, ThoseFinite, FS_Subset
  <1>3. Cardinality(Holders) \in Nat /\ Cardinality(Counted) \in Nat /\ permits \in Nat
    BY <1>1, ThoseFinite DEF IInv, TypeOK
  <1> QED
    BY <1>1, <1>2, <1>3 DEF IInv, Accounting, PermitsConserved, GaugeExact, EndedStates

\* For every number of loops and connections: the state stays well-typed, so
\* that active_connections never goes below zero, ...
THEOREM TypeCorrect == Spec => []TypeOK
  <1>1. IInv => TypeOK
    BY DEF IInv
  <1> QED
    BY <1>1, Inductive, PTL

\* ... no permit of the semaphore is lost or duplicated, ...
THEOREM PermitsSafe == Spec => []PermitsConserved
  BY Inductive, IInvImplies, PTL

\* ... the gauge and the counter of /metrics are exact and the limit holds, ...
THEOREM GaugeSafe == Spec => []GaugeExact
  BY Inductive, IInvImplies, PTL

\* ... and nobody waits while a permit is free.
THEOREM QueueSafe == Spec => []QueueExact
  <1>1. IInv => QueueExact
    BY DEF IInv
  <1> QED
    BY <1>1, Inductive, PTL

-----------------------------------------------------------------------------
(* Configuration and authenticator belong together *)

\* The lock protects the pair, and every snapshot was taken of such a pair.
PairInv ==
    /\ write # "config" => authenticator = AuthenticatorOf(config)
    /\ SnapshotPaired

\* Pairs survive every step: a snapshot is taken only when no writer is
\* between its two assignments.
LEMMA PairStep ==
    ASSUME TypeOK, PairInv, [Next]_vars
    PROVE  PairInv'
  <1>a. cstate \in [Conns -> States]
    BY DEF TypeOK
  <1>b. ASSUME UNCHANGED stateVars, snap' = snap,
               \A x \in Conns : cstate'[x] \in {"serving", "closing", "closed"}
                                  => cstate[x] \in {"serving", "closing", "closed"}
        PROVE  PairInv'
    BY <1>b DEF PairInv, SnapshotPaired, stateVars, In, AuthenticatorOf
  <1>1. ASSUME NEW l \in Listeners, Loop(l)
        PROVE  PairInv'
    BY <1>1, <1>a, <1>b DEF Loop, AcceptError, BackoffEnds, Accept, Admit, Refuse, TakePermit,
                            WaitForPermit, Spawn, pastVars
  <1>2. ASSUME NEW c \in Conns, Snapshot(c)
        PROVE  PairInv'
    <2>1. /\ authenticator = AuthenticatorOf(config) /\ UNCHANGED stateVars
          /\ snap' = [snap EXCEPT ![c] = [config |-> config, authenticator |-> authenticator]]
          /\ cstate' = [cstate EXCEPT ![c] = "serving"]
      BY <1>2 DEF Snapshot, Readable, PairInv
    <2>2. ASSUME NEW x \in Conns, cstate'[x] \in {"serving", "closing", "closed"}
          PROVE  snap'[x].authenticator = AuthenticatorOf(snap'[x].config)
      <3>1. CASE x = c
        BY <3>1, <2>1 DEF TypeOK
      <3>2. CASE x # c
        BY <3>2, <2>1, <2>2, <1>a DEF TypeOK, PairInv, SnapshotPaired, In
      <3> QED
        BY <3>1, <3>2
    <2>3. SnapshotPaired'
      BY <2>2 DEF SnapshotPaired, In, AuthenticatorOf
    <2> QED
      BY <2>1, <2>3 DEF PairInv, stateVars, AuthenticatorOf
  <1>3. ASSUME NEW c \in Conns, Finish(c) \/ ReturnPermit(c) \/ HandOverPermit(c)
        PROVE  PairInv'
    BY <1>3, <1>a, <1>b DEF Finish, ReturnPermit, HandOverPermit, pastVars
  <1>4. ASSUME Reloading
        PROVE  PairInv'
    <2>1. UNCHANGED <<cstate, snap>>
      BY <1>4 DEF Reloading, connVars, pastVars
    <2>2. SnapshotPaired'
      BY <2>1 DEF PairInv, SnapshotPaired, In, AuthenticatorOf
    <2>3. (write # "config" => authenticator = AuthenticatorOf(config))'
      BY <1>4 DEF PairInv, Reloading, Reload, InstallConfig, InstallAuthenticator, ReleaseWrite,
                  AuthenticatorOf
    <2> QED
      BY <2>2, <2>3 DEF PairInv
  <1>5. CASE UNCHANGED vars
    BY <1>5, <1>b DEF vars, connVars, pastVars
  <1> QED
    BY <1>1, <1>2, <1>3, <1>4, <1>5 DEF Next, Task

\* No task ever authenticates clients with the authenticator of another
\* configuration, however reloads overlap the accept loops and the tasks.
THEOREM SnapshotsPaired == Spec => []SnapshotPaired
  <1>1. Init => PairInv
    BY DEF Init, StateInit, PairInv, SnapshotPaired, In
  <1>2. TypeOK /\ PairInv /\ [Next]_vars => PairInv'
    BY PairStep
  <1>3. PairInv => SnapshotPaired
    BY DEF PairInv
  <1> QED
    BY <1>1, <1>2, <1>3, TypeCorrect, PTL DEF Spec

-----------------------------------------------------------------------------
(* The policy a connection meets *)

AdmittedStates == {"admitted", "queued", "granted", "spawned", "serving"}

\* The history of one connection against the configurations installed.
PolicyOf(c) ==
    /\ cstate[c] # "new" => arrival[c] <= Len(installed)
    /\ cstate[c] \in AdmittedStates =>
        /\ admission[c] \in 1 .. Len(installed)
        /\ arrival[c] <= admission[c]
        /\ check_client_allowed(installed[admission[c]], IpOf[c])
    /\ cstate[c] = "serving" =>
        \E e \in admission[c] .. Len(installed) : installed[e] = snap[c].config

PolicyInv ==
    /\ config = installed[Len(installed)]
    /\ \A c \in Conns : PolicyOf(c)

\* The history stays in order: an admission or a snapshot records the latest
\* configuration, and a reload only adds to the end.
LEMMA PolicyStep ==
    ASSUME IInv, PolicyInv, [Next]_vars
    PROVE  PolicyInv'
  <1>a. /\ cstate \in [Conns -> States] /\ installed \in Seq(Configs) /\ Len(installed) \in Nat
        /\ Len(installed) >= 1 /\ arrival \in [Conns -> Nat] /\ admission \in [Conns -> Nat]
        /\ snap \in [Conns -> [config : Configs, authenticator : Configs \union {NoAuth}]]
        /\ config = installed[Len(installed)]
    BY LenProperties DEF IInv, TypeOK, StateTypeOK, PolicyInv
  \* A connection whose history is unchanged and that does not move ahead.
  <1>b. ASSUME NEW x \in Conns, UNCHANGED <<config, installed>>, arrival'[x] = arrival[x],
               admission'[x] = admission[x], snap'[x] = snap[x],
               cstate'[x] # "new" => cstate[x] # "new",
               cstate'[x] \in AdmittedStates => cstate[x] \in AdmittedStates,
               cstate'[x] = "serving" => cstate[x] = "serving"
        PROVE  PolicyOf(x)'
    BY <1>b DEF PolicyInv, PolicyOf, check_client_allowed
  <1>c. ASSUME UNCHANGED <<config, installed>>, \A x \in Conns : PolicyOf(x)'
        PROVE  PolicyInv'
    BY <1>c, <1>a DEF PolicyInv
  <1>1. ASSUME NEW l \in Listeners, NEW c \in Conns, Accept(l, c)
        PROVE  PolicyInv'
    <2>1. PolicyOf(c)'
      BY <1>1, <1>a DEF Accept, PolicyOf, stateVars, AdmittedStates
    <2>2. ASSUME NEW x \in Conns, x # c PROVE PolicyOf(x)'
      BY <1>1, <1>a, <1>b, <2>2 DEF Accept, stateVars
    <2> QED
      BY <1>1, <1>c, <2>1, <2>2 DEF Accept, stateVars
  <1>2. ASSUME NEW l \in Listeners, AcceptError(l) \/ BackoffEnds(l)
        PROVE  PolicyInv'
    BY <1>2, <1>b, <1>c DEF AcceptError, BackoffEnds, stateVars, pastVars
  <1>3. ASSUME NEW l \in Listeners, NEW c \in Conns, Admit(l, c)
        PROVE  PolicyInv'
    <2>1. PolicyOf(c)'
      <3>1. /\ arrival[c] <= Len(installed) /\ check_client_allowed(config, IpOf[c])
            /\ cstate'[c] = "admitted" /\ admission'[c] = Len(installed) /\ arrival' = arrival
            /\ installed' = installed
        BY <1>3, <1>a DEF Admit, PolicyInv, PolicyOf, stateVars
      <3> QED
        BY <3>1, <1>a DEF PolicyOf, check_client_allowed
    <2>2. ASSUME NEW x \in Conns, x # c PROVE PolicyOf(x)'
      BY <1>3, <1>a, <1>b, <2>2 DEF Admit, stateVars
    <2> QED
      BY <1>3, <1>c, <2>1, <2>2 DEF Admit, stateVars
  <1>4. ASSUME NEW l \in Listeners, NEW c \in Conns,
               Refuse(l, c) \/ TakePermit(l, c) \/ WaitForPermit(l, c) \/ Spawn(l, c)
        PROVE  PolicyInv'
    <2>1. ASSUME NEW x \in Conns PROVE PolicyOf(x)'
      BY <1>4, <1>a, <1>b, <2>1
      DEF Refuse, TakePermit, WaitForPermit, Spawn, stateVars, pastVars, AdmittedStates
    <2> QED
      BY <1>4, <1>c, <2>1 DEF Refuse, TakePermit, WaitForPermit, Spawn, stateVars
  <1>5. ASSUME NEW c \in Conns, Snapshot(c)
        PROVE  PolicyInv'
    <2>1. PolicyOf(c)'
      <3>1. /\ cstate[c] = "spawned" /\ cstate'[c] = "serving" /\ snap'[c].config = config
            /\ UNCHANGED <<installed, arrival, admission>>
        BY <1>5, <1>a DEF Snapshot, stateVars
      <3>2. /\ admission[c] \in 1 .. Len(installed) /\ arrival[c] <= admission[c]
            /\ check_client_allowed(installed[admission[c]], IpOf[c])
            /\ arrival[c] <= Len(installed)
        BY <3>1 DEF PolicyInv, PolicyOf, AdmittedStates
      <3>3. Len(installed) \in admission[c] .. Len(installed) /\ installed[Len(installed)] = config
        BY <3>2, <1>a
      <3> QED
        BY <3>1, <3>2, <3>3 DEF PolicyOf, check_client_allowed
    <2>2. ASSUME NEW x \in Conns, x # c PROVE PolicyOf(x)'
      BY <1>5, <1>a, <1>b, <2>2 DEF Snapshot, stateVars
    <2> QED
      BY <1>5, <1>c, <2>1, <2>2 DEF Snapshot, stateVars
  <1>6. ASSUME NEW c \in Conns, Finish(c) \/ ReturnPermit(c)
        PROVE  PolicyInv'
    <2>1. ASSUME NEW x \in Conns PROVE PolicyOf(x)'
      BY <1>6, <1>a, <1>b, <2>1 DEF Finish, ReturnPermit, stateVars, pastVars, AdmittedStates
    <2> QED
      BY <1>6, <1>c, <2>1 DEF Finish, ReturnPermit, stateVars
  <1>7. ASSUME NEW c \in Conns, HandOverPermit(c)
        PROVE  PolicyInv'
    <2>1. Head(waiters) \in Conns /\ cstate[Head(waiters)] = "queued"
      BY <1>7, HeadWaits DEF HandOverPermit, IInv
    <2>2. ASSUME NEW x \in Conns PROVE PolicyOf(x)'
      BY <1>7, <1>a, <1>b, <2>1, <2>2 DEF HandOverPermit, stateVars, pastVars, AdmittedStates
    <2> QED
      BY <1>7, <1>c, <2>2 DEF HandOverPermit, stateVars
  <1>8. ASSUME Reloading
        PROVE  PolicyInv'
    <2>1. UNCHANGED <<cstate, snap, arrival, admission>>
      BY <1>8 DEF Reloading, connVars, pastVars
    <2>2. ASSUME NEW k \in Configs, InstallConfig(k)
          PROVE  PolicyInv'
      <3>1. /\ Len(installed') = Len(installed) + 1
            /\ \A e \in 1 .. Len(installed) : installed'[e] = installed[e]
            /\ config' = installed'[Len(installed')]
        BY <2>2, <1>a, AppendProperties DEF InstallConfig
      <3>2. ASSUME NEW x \in Conns PROVE PolicyOf(x)'
        <4>1. PolicyOf(x)
          BY DEF PolicyInv
        <4>2. arrival[x] \in Nat /\ admission[x] \in Nat
          BY <1>a
        <4>3. cstate'[x] # "new" => arrival'[x] <= Len(installed')
          BY <4>1, <4>2, <3>1, <2>1, <1>a DEF PolicyOf
        <4>4. ASSUME cstate'[x] \in AdmittedStates
              PROVE  /\ admission'[x] \in 1 .. Len(installed')
                     /\ arrival'[x] <= admission'[x]
                     /\ check_client_allowed(installed'[admission'[x]], IpOf[x])
          <5>1. /\ admission[x] \in 1 .. Len(installed) /\ arrival[x] <= admission[x]
                /\ check_client_allowed(installed[admission[x]], IpOf[x])
            BY <4>1, <4>4, <2>1 DEF PolicyOf
          <5>2. installed'[admission[x]] = installed[admission[x]]
            BY <5>1, <3>1
          <5> QED
            BY <5>1, <5>2, <3>1, <2>1, <1>a, <4>2
        <4>5. ASSUME cstate'[x] = "serving"
              PROVE  \E e \in admission'[x] .. Len(installed') :
                         installed'[e] = snap'[x].config
          <5>1. PICK e \in admission[x] .. Len(installed) : installed[e] = snap[x].config
            BY <4>1, <4>5, <2>1 DEF PolicyOf
          <5>2. admission[x] >= 1
            BY <4>1, <4>5, <2>1, <1>a DEF PolicyOf, AdmittedStates
          <5>3. e \in 1 .. Len(installed) /\ e \in admission'[x] .. Len(installed')
            BY <5>1, <5>2, <4>2, <3>1, <2>1, <1>a
          <5>4. installed'[e] = snap'[x].config
            BY <5>1, <5>3, <3>1, <2>1
          <5> QED
            BY <5>3, <5>4
        <4> QED
          BY <4>3, <4>4, <4>5 DEF PolicyOf, check_client_allowed
      <3> QED
        BY <3>1, <3>2 DEF PolicyInv
    <2>3. ASSUME InstallAuthenticator \/ ReleaseWrite
          PROVE  PolicyInv'
      BY <2>1, <2>3, <1>b, <1>c DEF InstallAuthenticator, ReleaseWrite
    <2> QED
      BY <1>8, <2>2, <2>3 DEF Reloading, Reload
  <1>9. CASE UNCHANGED vars
    BY <1>9, <1>b, <1>c DEF vars, stateVars, connVars, pastVars
  <1> QED
    BY <1>1, <1>2, <1>3, <1>4, <1>5, <1>6, <1>7, <1>8, <1>9 DEF Next, Loop, Task

\* Whatever the timing of reloads, admit_client found a connection in service on
\* the list of a configuration at least as recent as its arrival, and its task
\* runs with that configuration or with one installed after its admission.
THEOREM PoliciesFresh == Spec => []PolicyFresh
  <1>1. Init => PolicyInv
    <2> SUFFICES ASSUME Init PROVE PolicyInv
      OBVIOUS
    <2>1. installed = <<InitialConfig>> /\ Len(installed) = 1 /\ config = installed[1]
      BY DEF Init, StateInit
    <2> QED
      BY <2>1 DEF Init, PolicyInv, PolicyOf, AdmittedStates
  <1>2. IInv /\ PolicyInv /\ [Next]_vars => PolicyInv'
    BY PolicyStep
  <1>3. IInv /\ PolicyInv => PolicyFresh
    <2> SUFFICES ASSUME IInv, PolicyInv, NEW c \in Conns, cstate[c] = "serving"
                 PROVE  /\ arrival[c] <= admission[c]
                        /\ allowed_networks[installed[admission[c]]] # {} =>
                            \E net \in allowed_networks[installed[admission[c]]] : IpOf[c] \in net
                        /\ snap[c].config \in {installed[admission[c]]} \union
                                {installed[e] : e \in admission[c] + 1 .. Len(installed)}
      BY DEF PolicyFresh, In
    <2>1. /\ admission[c] \in 1 .. Len(installed) /\ Len(installed) \in Nat
          /\ arrival[c] <= admission[c]
          /\ check_client_allowed(installed[admission[c]], IpOf[c])
      BY LenProperties DEF IInv, TypeOK, StateTypeOK, PolicyInv, PolicyOf, AdmittedStates
    <2>2. PICK e \in admission[c] .. Len(installed) : installed[e] = snap[c].config
      BY DEF PolicyInv, PolicyOf
    <2>3. e = admission[c] \/ e \in admission[c] + 1 .. Len(installed)
      BY <2>1, <2>2
    <2> QED
      BY <2>1, <2>2, <2>3 DEF check_client_allowed
  <1> QED
    BY <1>1, <1>2, <1>3, Inductive, PTL DEF Spec

-----------------------------------------------------------------------------
(* Backpressure *)

\* Every connection that is neither refused nor spawned is the one an accept
\* loop is busy with.
LoopOwns == \A c \in Pending : \E l \in Listeners : listener[l] = c

\* A loop turns to another connection only after it refused or spawned the
\* one it had.
LEMMA OwnsStep ==
    ASSUME IInv, LoopOwns, [Next]_vars
    PROVE  LoopOwns'
  <1>a. /\ TypeOK /\ QueueExact /\ cstate \in [Conns -> States]
        /\ listener \in [Listeners -> Conns \union {Idle, Backoff}]
        /\ Idle \notin Conns /\ Backoff \notin Conns
    BY ProxyAssumption DEF IInv, TypeOK
  <1>b. ASSUME listener' = listener,
               \A x \in Conns : x \in Pending' => x \in Pending
        PROVE  LoopOwns'
    BY <1>b DEF LoopOwns, Pending, In
  <1>c. ASSUME NEW l \in Listeners, NEW v \in Conns \union {Idle, Backoff},
               listener' = [listener EXCEPT ![l] = v],
               listener[l] \notin Pending' \/ listener[l] = v,
               \A x \in Conns : x \in Pending' => x \in Pending \/ x = v
        PROVE  LoopOwns'
    <2> SUFFICES ASSUME NEW x \in Pending'
                 PROVE  \E k \in Listeners : listener'[k] = x
      BY DEF LoopOwns
    <2>1. x \in Conns
      BY DEF Pending, In
    <2>2. CASE x = v
      BY <2>2, <1>a, <1>c
    <2>3. CASE x # v
      <3>1. PICK k \in Listeners : listener[k] = x
        BY <2>1, <2>3, <1>c DEF LoopOwns
      <3>2. k # l
        BY <3>1, <2>3, <1>c
      <3> QED
        BY <3>1, <3>2, <1>a, <1>c
    <2> QED
      BY <2>2, <2>3
  <1> USE DEF Pending, In
  <1>1. ASSUME NEW l \in Listeners, AcceptError(l)
        PROVE  LoopOwns'
    BY <1>1, <1>a, <1>c DEF AcceptError
  <1>2. ASSUME NEW l \in Listeners, BackoffEnds(l)
        PROVE  LoopOwns'
    BY <1>2, <1>a, <1>c DEF BackoffEnds
  <1>3. ASSUME NEW l \in Listeners, NEW c \in Conns, Accept(l, c)
        PROVE  LoopOwns'
    BY <1>3, <1>a, <1>c DEF Accept
  <1>4. ASSUME NEW l \in Listeners, NEW c \in Conns, Refuse(l, c)
        PROVE  LoopOwns'
    BY <1>4, <1>a, <1>c DEF Refuse
  <1>5. ASSUME NEW l \in Listeners, NEW c \in Conns, Spawn(l, c)
        PROVE  LoopOwns'
    BY <1>5, <1>a, <1>c DEF Spawn
  <1>6. ASSUME NEW l \in Listeners, NEW c \in Conns,
               Admit(l, c) \/ TakePermit(l, c) \/ WaitForPermit(l, c)
        PROVE  LoopOwns'
    BY <1>6, <1>a, <1>b DEF Admit, TakePermit, WaitForPermit
  <1>7. ASSUME NEW c \in Conns, Snapshot(c) \/ Finish(c) \/ ReturnPermit(c)
        PROVE  LoopOwns'
    BY <1>7, <1>a, <1>b DEF Snapshot, Finish, ReturnPermit
  <1>8. ASSUME NEW c \in Conns, HandOverPermit(c)
        PROVE  LoopOwns'
    <2>1. Head(waiters) \in Conns /\ cstate[Head(waiters)] = "queued"
      BY <1>8, <1>a, HeadWaits DEF HandOverPermit
    <2> QED
      BY <1>8, <2>1, <1>a, <1>b DEF HandOverPermit
  <1>9. ASSUME Reloading
        PROVE  LoopOwns'
    BY <1>9, <1>b DEF Reloading, connVars
  <1>10. CASE UNCHANGED vars
    BY <1>10, <1>b DEF vars, connVars
  <1> QED
    BY <1>1, <1>2, <1>3, <1>4, <1>5, <1>6, <1>7, <1>8, <1>9, <1>10 DEF Next, Loop, Task

\* At most one pending connection per accept loop, which is busy with it.
LEMMA PendingBounded ==
    ASSUME LoopOwns
    PROVE  /\ IsFiniteSet(Pending)
           /\ Cardinality(Pending) <= Cardinality(BusyLoops)
           /\ Cardinality(BusyLoops) \in Nat
           /\ Cardinality(BusyLoops) <= Cardinality(Listeners)
  <1> DEFINE f == [c \in Pending |-> CHOOSE l \in Listeners : listener[l] = c]
  <1>1. \A c \in Pending : f[c] \in Listeners /\ listener[f[c]] = c
    BY DEF LoopOwns
  <1>2. \A c \in Pending : c \in Conns
    BY DEF Pending, In
  <1>3. f \in [Pending -> BusyLoops]
    BY <1>1, <1>2 DEF BusyLoops
  <1>4. \A c, d \in Pending : f[c] = f[d] => c = d
    BY <1>1
  <1> HIDE DEF f
  <1>5. f \in Injection(Pending, BusyLoops)
    BY <1>3, <1>4 DEF Injection, IsInjective
  <1>6. IsFiniteSet(BusyLoops) /\ Cardinality(BusyLoops) <= Cardinality(Listeners)
    BY ProxyAssumption, FS_Subset DEF BusyLoops
  <1> QED
    BY <1>5, <1>6, FS_Injection, FS_CardinalityType

\* The sockets the server has open stay bounded by the limit and the number of
\* accept loops: a loop that waits for a permit accepts nobody.
THEOREM Backpressure == Spec => []SocketsBounded
  <1>1. Init => LoopOwns
    BY DEF Init, LoopOwns, Pending, In
  <1>2. IInv /\ LoopOwns /\ [Next]_vars => LoopOwns'
    BY OwnsStep
  <1>3. IInv /\ LoopOwns => SocketsBounded
    <2> SUFFICES ASSUME IInv, LoopOwns PROVE SocketsBounded
      OBVIOUS
    <2>1. /\ IsFiniteSet(Pending)
          /\ Cardinality(Pending) <= Cardinality(BusyLoops)
          /\ Cardinality(BusyLoops) \in Nat
          /\ Cardinality(BusyLoops) <= Cardinality(Listeners)
      BY PendingBounded
    <2>2. Holders = Those(cstate, HolderStates)
      BY DEF Holders, Those, HolderStates, In
    <2>3. IsFiniteSet(Holders) /\ Cardinality(Holders) \in Nat
      BY <2>2, ThoseFinite
    <2>4. permits \in Nat /\ permits + Cardinality(Holders) = Capacity
      BY <2>2 DEF IInv, TypeOK, Accounting
    <2>5. Cardinality(Pending) \in Nat /\ Cardinality(Listeners) \in Nat
      BY <2>1, ProxyAssumption, FS_CardinalityType
    <2>6. /\ Cardinality(Pending \union Holders) =
               Cardinality(Pending) + Cardinality(Holders) - Cardinality(Pending \cap Holders)
          /\ Cardinality(Pending \cap Holders) \in Nat
      <3>1. IsFiniteSet(Pending \cap Holders)
        BY <2>1, FS_Subset
      <3> QED
        BY <3>1, <2>1, <2>3, FS_Union, FS_CardinalityType
    <2> QED
      BY <2>1, <2>3, <2>4, <2>5, <2>6 DEF SocketsBounded
  <1> QED
    BY <1>1, <1>2, <1>3, Inductive, PTL DEF Spec

-----------------------------------------------------------------------------
(* First come, first served *)

\* A step that grants a permit past a waiting connection grants it to one that
\* waited longer: TakePermit needs a free permit, and then nobody waits.
THEOREM FirstCome == Spec => NoOvertaking
  <1> DEFINE Fair ==
        \A c, d \in Conns :
            (/\ cstate[c] = "queued" /\ cstate'[c] = "queued"
             /\ cstate[d] # "granted" /\ cstate'[d] = "granted")
            => \E i, j \in DOMAIN waiters : i < j /\ waiters[i] = d /\ waiters[j] = c
  <1>1. IInv /\ [Next]_vars => [Fair]_vars
    <2> SUFFICES ASSUME IInv, Next, NEW c \in Conns, NEW d \in Conns,
                        cstate[c] = "queued", cstate'[c] = "queued",
                        cstate[d] # "granted", cstate'[d] = "granted"
                 PROVE  \E i, j \in DOMAIN waiters : i < j /\ waiters[i] = d /\ waiters[j] = c
      OBVIOUS
    <2>a. /\ TypeOK /\ QueueExact /\ cstate \in [Conns -> States] /\ waiters \in Seq(Conns)
          /\ permits \in Nat
      BY DEF IInv, TypeOK
    <2>b. PICK j \in DOMAIN waiters : waiters[j] = c
      BY <2>a DEF QueueExact
    <2>c. waiters # << >> /\ permits = 0
      BY <2>a, <2>b DEF QueueExact
    <2>1. ASSUME NEW l \in Listeners, Loop(l)
          PROVE  FALSE
      BY <2>1, <2>a, <2>c DEF Loop, AcceptError, BackoffEnds, Accept, Admit, Refuse, TakePermit,
                              WaitForPermit, Spawn
    <2>2. ASSUME NEW e \in Conns, Snapshot(e) \/ Finish(e) \/ ReturnPermit(e)
          PROVE  FALSE
      BY <2>2, <2>a DEF Snapshot, Finish, ReturnPermit
    <2>3. ASSUME NEW e \in Conns, HandOverPermit(e)
          PROVE  \E i \in DOMAIN waiters : i < j /\ waiters[i] = d
      <3>1. /\ Head(waiters) = waiters[1] /\ 1 \in DOMAIN waiters /\ Head(waiters) \in Conns
        BY <2>a, <2>c, HeadWaits
      <3>2. cstate' = [cstate EXCEPT ![e] = "closed", ![Head(waiters)] = "granted"]
        BY <2>3 DEF HandOverPermit
      <3>3. d = Head(waiters) /\ c # Head(waiters)
        BY <3>1, <3>2, <2>a
      <3>4. DOMAIN waiters = 1 .. Len(waiters) /\ Len(waiters) \in Nat
        BY <2>a, LenProperties
      <3> QED
        BY <3>1, <3>3, <3>4, <2>b
    <2>4. ASSUME Reloading
          PROVE  FALSE
      BY <2>4 DEF Reloading, connVars
    <2> QED
      BY <2>1, <2>2, <2>3, <2>4, <2>b DEF Next, Task
  <1> QED
    BY <1>1, Inductive, PTL DEF Spec, NoOvertaking

-----------------------------------------------------------------------------
(* Refinement: a bounded service *)

ServedStates == {"spawned", "serving", "closing"}

\* The ten states as a client sees them.
LEMMA Views ==
    /\ View("new") = "away"
    /\ View("accepted") = "waiting" /\ View("admitted") = "waiting"
    /\ View("queued") = "waiting" /\ View("granted") = "waiting"
    /\ View("spawned") = "served" /\ View("serving") = "served" /\ View("closing") = "served"
    /\ View("refused") = "gone" /\ View("closed") = "gone"
  BY DEF View

\* A connection that moves from state s to state t is the only client to move.
LEMMA ClientMoves ==
    ASSUME cstate \in [Conns -> States], NEW c \in Conns, NEW t \in States,
           cstate' = [cstate EXCEPT ![c] = t]
    PROVE  /\ clientOf[c] = View(cstate[c])
           /\ clientOf' = [clientOf EXCEPT ![c] = View(t)]
           /\ View(cstate[c]) = View(t) => clientOf' = clientOf
  BY DEF clientOf

\* Every step of the accept loops and the tasks is a step of the bounded
\* service or leaves the clients where they are; Serve happens below the limit.
LEMMA ServiceStep ==
    ASSUME IInv, [Next]_vars
    PROVE  [Service!BNext]_clientOf
  <1>a. /\ TypeOK /\ QueueExact /\ Accounting /\ cstate \in [Conns -> States] /\ permits \in Nat
    BY DEF IInv, TypeOK
  <1>c. ASSUME cstate' = cstate
        PROVE  clientOf' = clientOf
    BY <1>c DEF clientOf
  <1>1. ASSUME NEW l \in Listeners, NEW c \in Conns, Accept(l, c)
        PROVE  Service!Arrive(c)
    <2>1. cstate[c] = "new" /\ cstate' = [cstate EXCEPT ![c] = "accepted"] /\ "accepted" \in States
      BY <1>1 DEF Accept, States
    <2> QED
      BY <1>a, <2>1, ClientMoves, Views DEF Service!Arrive
  <1>2. ASSUME NEW l \in Listeners, NEW c \in Conns, Refuse(l, c)
        PROVE  Service!TurnAway(c)
    <2>1. cstate[c] = "accepted" /\ cstate' = [cstate EXCEPT ![c] = "refused"] /\ "refused" \in States
      BY <1>2 DEF Refuse, States
    <2> QED
      BY <1>a, <2>1, ClientMoves, Views DEF Service!TurnAway
  <1>3. ASSUME NEW l \in Listeners, NEW c \in Conns, Spawn(l, c)
        PROVE  Service!Serve(c)
    <2>1. clientOf[c] = "waiting" /\ clientOf' = [clientOf EXCEPT ![c] = "served"]
      <3>1. cstate[c] = "granted" /\ cstate' = [cstate EXCEPT ![c] = "spawned"] /\ "spawned" \in States
        BY <1>3 DEF Spawn, States
      <3> QED
        BY <1>a, <3>1, ClientMoves, Views
    <2>2. Service!Served = Those(cstate, ServedStates)
      <3>1. \A s \in States : View(s) = "served" <=> s \in ServedStates
        BY Views DEF States, ServedStates
      <3> QED
        BY <1>a, <3>1 DEF Service!Served, clientOf, Those
    <2>3. c \notin Those(cstate, ServedStates) /\ c \in Those(cstate, HolderStates)
      BY <1>3 DEF Spawn, Those, ServedStates, HolderStates
    <2>4. Those(cstate, ServedStates) \union {c} \in SUBSET Those(cstate, HolderStates)
      BY <2>3 DEF Those, ServedStates, HolderStates
    <2>5. Cardinality(Those(cstate, ServedStates) \union {c}) = Cardinality(Those(cstate, ServedStates)) + 1
      BY <2>3, ThoseFinite, FS_AddElement
    <2>6. Cardinality(Those(cstate, ServedStates) \union {c}) <= Cardinality(Those(cstate, HolderStates))
      BY <2>4, ThoseFinite, FS_Subset
    <2>7. /\ Cardinality(Those(cstate, HolderStates)) <= Capacity
          /\ Cardinality(Those(cstate, HolderStates)) \in Nat
          /\ Cardinality(Those(cstate, ServedStates)) \in Nat
          /\ Capacity \in Nat
      BY <1>a, ThoseFinite DEF Accounting
    <2>8. Cardinality(Those(cstate, ServedStates)) < Capacity
      BY <2>5, <2>6, <2>7
    <2>9. Service!Cardinality(Service!Served) < Capacity
      <3>1. Service!Cardinality(Service!Served) = Cardinality(Service!Served)
        BY DEF Service!Cardinality, Cardinality
      <3> QED
        BY <2>2, <2>8, <3>1
    <2> QED
      BY <2>1, <2>9 DEF Service!Serve
  <1>4. ASSUME NEW l \in Listeners, AcceptError(l) \/ BackoffEnds(l)
        PROVE  clientOf' = clientOf
    BY <1>4, <1>c DEF AcceptError, BackoffEnds
  <1>5. ASSUME NEW l \in Listeners, NEW c \in Conns,
               Admit(l, c) \/ TakePermit(l, c) \/ WaitForPermit(l, c)
        PROVE  clientOf' = clientOf
    <2>1. PICK t \in {"admitted", "granted", "queued"} : cstate' = [cstate EXCEPT ![c] = t]
      BY <1>5 DEF Admit, TakePermit, WaitForPermit
    <2>2. cstate[c] = "accepted" \/ cstate[c] = "admitted"
      BY <1>5 DEF Admit, TakePermit, WaitForPermit
    <2>3. t \in States /\ View(t) = "waiting" /\ View(cstate[c]) = "waiting"
      BY <2>1, <2>2, Views DEF States
    <2> QED
      BY <1>a, <2>1, <2>3, ClientMoves
  <1>6. ASSUME NEW c \in Conns, Snapshot(c) \/ Finish(c)
        PROVE  clientOf' = clientOf
    <2>1. PICK t \in {"serving", "closing"} : cstate' = [cstate EXCEPT ![c] = t]
      BY <1>6 DEF Snapshot, Finish
    <2>2. cstate[c] = "spawned" \/ cstate[c] = "serving"
      BY <1>6 DEF Snapshot, Finish
    <2>3. /\ t \in States
          /\ View(t) = "served"
          /\ View(cstate[c]) = "served"
      BY <2>1, <2>2, Views DEF States
    <2> QED
      BY <1>a, <2>1, <2>3, ClientMoves
  <1>7. ASSUME NEW c \in Conns, ReturnPermit(c)
        PROVE  Service!Leave(c)
    <2>1. cstate[c] = "closing" /\ cstate' = [cstate EXCEPT ![c] = "closed"] /\ "closed" \in States
      BY <1>7 DEF ReturnPermit, States
    <2> QED
      BY <1>a, <2>1, ClientMoves, Views DEF Service!Leave
  <1>8. ASSUME NEW c \in Conns, HandOverPermit(c)
        PROVE  Service!Leave(c)
    <2>1. Head(waiters) \in Conns /\ cstate[Head(waiters)] = "queued" /\ cstate[c] = "closing"
      BY <1>8, <1>a, HeadWaits DEF HandOverPermit
    <2>2. cstate' = [cstate EXCEPT ![c] = "closed", ![Head(waiters)] = "granted"]
      BY <1>8 DEF HandOverPermit
    <2>3. \A x \in Conns : x # c => View(cstate'[x]) = View(cstate[x])
      BY <2>1, <2>2, <1>a, Views
    <2>4. View(cstate'[c]) = "gone" /\ clientOf[c] = "served"
      BY <2>1, <2>2, <1>a, Views DEF clientOf
    <2>5. clientOf' = [clientOf EXCEPT ![c] = "gone"]
      BY <2>3, <2>4 DEF clientOf
    <2> QED
      BY <2>4, <2>5 DEF Service!Leave
  <1>9. ASSUME Reloading
        PROVE  clientOf' = clientOf
    BY <1>9, <1>c DEF Reloading, connVars
  <1>10. ASSUME UNCHANGED vars
        PROVE  clientOf' = clientOf
    BY <1>10, <1>c DEF vars, connVars
  <1> QED
    BY <1>1, <1>2, <1>3, <1>4, <1>5, <1>6, <1>7, <1>8, <1>9, <1>10
    DEF Next, Loop, Task, Service!BNext

\* For every limit and any number of connections, loops and reloads, what the
\* clients see is a service with at most max_connections of them in it.
THEOREM ImplementsService == Spec => ServiceSafe
  <1>1. Init => Service!BInit
    BY Views DEF Init, Service!BInit, clientOf
  <1>2. IInv /\ [Next]_vars => [Service!BNext]_clientOf
    BY ServiceStep
  <1> QED
    BY <1>1, <1>2, Inductive, PTL DEF Spec, ServiceSafe, Service!BSafeSpec
=============================================================================
