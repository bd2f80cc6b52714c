---------------------------- MODULE Records_proofs ----------------------------
(***************************************************************************)
(* Theorems about what the control plane records, lists and revises: the   *)
(* accounting of traffic, the journal, the events of a connection, the     *)
(* upgrade of a configuration template and the rules of the client         *)
(* profiles, for any number of counters, bytes, events, requests, lines,   *)
(* items, rules and revisions and any lengths of buckets, pages and        *)
(* windows.                                                                *)
(***************************************************************************)
EXTENDS Traffic, Journal, ConnectionEvents, Templates, Profiles,
        FiniteSetTheorems, SequenceTheorems, WellFoundedInduction, TLAPS

Pc == {"idle", "record"} \cup Compacting
Snaps == [Counter -> Nat \cup {-1}]

(* The types of what recording reads and writes.                           *)
Types ==
    /\ alive \in SUBSET Counter /\ forgotten \in SUBSET Counter
    /\ bytes \in [Counter -> Nat]
    /\ cursor \in [Counter -> [bytes : Nat \cup {-1}, at : Int]]
    /\ clock \in Int
    /\ poll \in [pc : Pc, snap : Snaps]
    /\ carried \in [Counter -> Nat] /\ counted \in [Counter -> Nat]

(* Snapshots exist only while they are being recorded.                     *)
SnapsInFlight == poll.pc # "record" => poll.snap = NoSnap

(* What a counter would add if it were read now, and what its snapshot     *)
(* adds followed by the next reading, never exceed what it carried.        *)
Covered(n, k, s, q) == n <= q /\ (s >= 0 => n + Delta(s, k) <= q)
Ahead(n, b, k, s, q) ==
    /\ n + Delta(b, k) <= q
    /\ s >= 0 => n + Delta(s, k) + Delta(b, s) <= q

CoveredAt(c) == Covered(counted[c], cursor[c].bytes, poll.snap[c], carried[c])
AheadAt(c) ==
    Ahead(counted[c], bytes[c], cursor[c].bytes, poll.snap[c], carried[c])

AllCovered ==
    \A c \in Counter \ forgotten : CoveredAt(c) /\ (c \in alive => AheadAt(c))

IInv == Types /\ SnapsInFlight /\ AllCovered

LEMMA DeltaType ==
    ASSUME NEW s \in Nat, NEW k \in Nat \cup {-1}
    PROVE  Delta(s, k) \in Nat
BY DEF Delta

(* The invariant at one counter, in the terms of these lemmas.             *)
LEMMA AtCounter ==
    ASSUME IInv, NEW c \in Counter \ forgotten
    PROVE  /\ counted[c] \in Nat /\ bytes[c] \in Nat /\ carried[c] \in Nat
           /\ cursor[c].bytes \in Nat \cup {-1} /\ poll.snap[c] \in Nat \cup {-1}
           /\ CoveredAt(c) /\ (c \in alive => AheadAt(c))
BY DEF IInv, Types, AllCovered, Snaps

LEMMA NoSnapType == NoSnap \in Snaps BY DEF NoSnap, Snaps

LEMMA InitIInv == ASSUME TrafficInit PROVE IInv
<1> USE TrafficAssumption
<1>1. Types BY NoSnapType DEF TrafficInit, Types, NoCursor, Pc
<1>2. SnapsInFlight BY DEF TrafficInit, SnapsInFlight
<1>3. AllCovered
      BY DEF TrafficInit, AllCovered, CoveredAt, AheadAt, Covered, Ahead,
             Delta, NoCursor, NoSnap
<1> QED BY <1>1, <1>2, <1>3 DEF IInv

LEMMA CarryIInv ==
    ASSUME IInv, NEW c \in Counter, Carry(c)
    PROVE  IInv'
<1>1. Types' BY DEF Carry, IInv, Types
<1>2. SnapsInFlight' BY DEF Carry, IInv, SnapsInFlight, NoSnap
<1>3. ASSUME NEW d \in Counter \ forgotten
      PROVE  /\ Covered(counted[d], cursor[d].bytes, poll.snap[d], carried'[d])
             /\ d \in alive => Ahead(counted[d], bytes'[d], cursor[d].bytes, poll.snap[d],
                                      carried'[d])
  <2>1. d = c => bytes'[d] = bytes[d] + 1 /\ carried'[d] = carried[d] + 1
        BY DEF Carry, IInv, Types
  <2>2. d # c => bytes'[d] = bytes[d] /\ carried'[d] = carried[d]
        BY DEF Carry, IInv, Types
  <2> QED BY <2>1, <2>2, AtCounter
            DEF CoveredAt, AheadAt, Covered, Ahead, Delta
<1>4. AllCovered' BY <1>3 DEF AllCovered, CoveredAt, AheadAt, Carry
<1> QED BY <1>1, <1>2, <1>4 DEF IInv

LEMMA EngineRestartsIInv ==
    ASSUME IInv, NEW c \in Counter, EngineRestarts(c)
    PROVE  IInv'
<1>1. Types' BY DEF EngineRestarts, IInv, Types
<1>2. SnapsInFlight' BY DEF EngineRestarts, IInv, SnapsInFlight, NoSnap
<1>3. ASSUME NEW d \in Counter \ forgotten
      PROVE  /\ Covered(counted[d], cursor[d].bytes, poll.snap[d], carried[d])
             /\ d \in alive' => Ahead(counted[d], bytes'[d], cursor[d].bytes, poll.snap[d],
                                      carried[d])
  <2>1. \/ bytes'[d] = bytes[d] /\ (d \in alive' <=> d \in alive)
        \/ bytes'[d] = 0 /\ (d \in alive' <=> d \in alive)
        \/ bytes'[d] = bytes[d] /\ d \notin alive'
        BY DEF EngineRestarts, IInv, Types
  <2>2. CASE bytes'[d] = bytes[d] /\ (d \in alive' <=> d \in alive)
        BY <2>2, AtCounter DEF CoveredAt, AheadAt
  <2>3. CASE bytes'[d] = 0 /\ (d \in alive' <=> d \in alive)
        BY <2>3, AtCounter
            DEF CoveredAt, AheadAt, Covered, Ahead, Delta
  <2>4. CASE bytes'[d] = bytes[d] /\ d \notin alive'
        BY <2>4, AtCounter DEF Covered, CoveredAt, AheadAt
  <2> QED BY <2>1, <2>2, <2>3, <2>4
<1>4. AllCovered' BY <1>3 DEF AllCovered, CoveredAt, AheadAt, EngineRestarts
<1> QED BY <1>1, <1>2, <1>4 DEF IInv

LEMMA CollectIInv ==
    ASSUME IInv, NEW answered \in SUBSET alive, Collect(answered)
    PROVE  IInv'
<1>1. poll' = [pc |-> "record",
               snap |-> [c \in Counter |-> IF c \in answered THEN bytes[c] ELSE -1]]
      BY DEF Collect, Snapshot
<1>2. Types' BY <1>1 DEF Collect, IInv, Types, Pc, Snaps
<1>3. SnapsInFlight' BY <1>1 DEF SnapsInFlight
<1>4. ASSUME NEW d \in Counter \ forgotten
      PROVE  /\ Covered(counted[d], cursor[d].bytes, poll'.snap[d], carried[d])
             /\ d \in alive => Ahead(counted[d], bytes[d], cursor[d].bytes, poll'.snap[d],
                                      carried[d])
  <2>1. CASE d \in answered
    <3>1. poll'.snap[d] = bytes[d] /\ d \in alive BY <1>1, <2>1
    <3> QED BY <3>1, AtCounter
            DEF CoveredAt, AheadAt, Covered, Ahead, Delta
  <2>2. CASE d \notin answered
    <3>1. poll'.snap[d] = -1 BY <1>1, <2>2
    <3> QED BY <3>1, AtCounter
            DEF CoveredAt, AheadAt, Covered, Ahead, Delta
  <2> QED BY <2>1, <2>2
<1>5. AllCovered' BY <1>4 DEF AllCovered, CoveredAt, AheadAt, Collect
<1> QED BY <1>2, <1>3, <1>5 DEF IInv

LEMMA RecordIInv ==
    ASSUME IInv, NEW c \in Counter, RecordCumulative(c)
    PROVE  IInv'
<1> DEFINE delta == Delta(poll.snap[c], cursor[c].bytes)
<1>1. poll.snap[c] \in Nat /\ cursor[c].bytes \in Nat \cup {-1}
      BY DEF RecordCumulative, IInv, Types, Snaps
<1>2. delta \in Nat BY <1>1, DeltaType
<1>3. /\ counted' = [counted EXCEPT ![c] = @ + delta]
      /\ cursor' = [cursor EXCEPT ![c] = [bytes |-> poll.snap[c], at |-> clock]]
      /\ poll' = [poll EXCEPT !.snap[c] = -1]
      /\ poll.pc = "record"
      /\ UNCHANGED <<clock, alive, bytes, carried, forgotten>>
      BY DEF RecordCumulative
<1> HIDE DEF delta
<1>4. counted' \in [Counter -> Nat] BY <1>2, <1>3 DEF IInv, Types
<1>5. cursor' \in [Counter -> [bytes : Nat \cup {-1}, at : Int]]
      BY <1>1, <1>3 DEF IInv, Types
<1>6. poll' \in [pc : Pc, snap : Snaps]
      BY <1>3 DEF IInv, Types, Snaps
<1>7. Types' BY <1>3, <1>4, <1>5, <1>6 DEF IInv, Types
<1>8. SnapsInFlight' BY <1>3 DEF SnapsInFlight, IInv, Types
<1>9. ASSUME NEW d \in Counter \ forgotten
      PROVE  /\ Covered(counted'[d], cursor'[d].bytes, poll'.snap[d], carried[d])
             /\ d \in alive => Ahead(counted'[d], bytes[d], cursor'[d].bytes, poll'.snap[d],
                                      carried[d])
  <2>1. CASE d = c
    <3>1. /\ counted'[d] = counted[d] + delta
          /\ cursor'[d].bytes = poll.snap[d] /\ poll'.snap[d] = -1
          BY <1>3, <2>1 DEF IInv, Types, Snaps
    <3> QED BY <3>1, <2>1, <1>1, AtCounter
            DEF CoveredAt, AheadAt, Covered, Ahead, Delta, delta
  <2>2. CASE d # c
    <3>1. /\ counted'[d] = counted[d] /\ cursor'[d] = cursor[d]
          /\ poll'.snap[d] = poll.snap[d]
          BY <1>3, <2>2 DEF IInv, Types, Snaps
    <3> QED BY <3>1, AtCounter DEF CoveredAt, AheadAt
  <2> QED BY <2>1, <2>2
<1>10. AllCovered' BY <1>3, <1>9 DEF AllCovered, CoveredAt, AheadAt
<1> QED BY <1>7, <1>8, <1>10 DEF IInv

LEMMA CompactCursorsIInv ==
    ASSUME IInv, CompactCursors
    PROVE  IInv'
<1> PICK old \in SUBSET Session :
        /\ cursor' = [c \in Counter |-> IF c \in old THEN NoCursor ELSE cursor[c]]
        /\ forgotten' = forgotten \cup (old \cap alive)
    BY DEF CompactCursors
<1>1. /\ poll.pc = "dropCursors" /\ poll' = [poll EXCEPT !.pc = "idle"]
      /\ UNCHANGED <<clock, alive, bytes, carried, counted>>
      BY DEF CompactCursors, Goes
<1>2. Types' BY <1>1, TrafficAssumption DEF IInv, Types, NoCursor, Pc
<1>3. poll.snap = NoSnap /\ poll'.snap = NoSnap
      BY <1>1 DEF IInv, SnapsInFlight, Types
<1>4. SnapsInFlight' BY <1>3 DEF SnapsInFlight, NoSnap
<1>5. ASSUME NEW d \in Counter \ forgotten'
      PROVE  /\ Covered(counted[d], cursor'[d].bytes, poll'.snap[d], carried[d])
             /\ d \in alive => Ahead(counted[d], bytes[d], cursor'[d].bytes, poll'.snap[d],
                                      carried[d])
  <2>1. d \in Counter \ forgotten OBVIOUS
  <2>2. poll.snap[d] = -1 /\ poll'.snap[d] = -1 BY <1>3 DEF NoSnap
  <2>3. CASE d \in old
    <3>1. d \notin alive BY <2>3
    <3> QED BY <3>1, <2>1, <2>2, AtCounter DEF Covered, CoveredAt, AheadAt
  <2>4. CASE d \notin old
    <3>1. cursor'[d] = cursor[d] BY <2>4
    <3> QED BY <3>1, <2>1, <2>2, AtCounter DEF CoveredAt, AheadAt
  <2> QED BY <2>3, <2>4
<1>6. AllCovered' BY <1>1, <1>5 DEF AllCovered, CoveredAt, AheadAt
<1> QED BY <1>2, <1>4, <1>6 DEF IInv

(* Steps that leave the counters alone and move collect() on, or lose its  *)
(* snapshots.                                                              *)
LEMMA QuietIInv ==
    ASSUME IInv, UNCHANGED <<alive, bytes, cursor, carried, counted, forgotten>>,
           clock' \in Int,
           poll' \in [pc : Pc, snap : Snaps],
           SnapsInFlight',
           poll'.snap = poll.snap \/ poll'.snap = NoSnap
    PROVE  IInv'
<1>1. Types' BY DEF IInv, Types
<1>2. ASSUME NEW d \in Counter \ forgotten
      PROVE  /\ Covered(counted[d], cursor[d].bytes, poll'.snap[d], carried[d])
             /\ d \in alive => Ahead(counted[d], bytes[d], cursor[d].bytes, poll'.snap[d],
                                      carried[d])
  <2>1. poll'.snap[d] = poll.snap[d] \/ poll'.snap[d] = -1 BY DEF NoSnap
  <2> QED BY <2>1, AtCounter
            DEF CoveredAt, AheadAt, Covered, Ahead, Delta
<1>3. AllCovered' BY <1>2 DEF AllCovered, CoveredAt, AheadAt
<1> QED BY <1>1, <1>3 DEF IInv

LEMMA NextIInv ==
    ASSUME IInv, [TrafficNext]_trafficVars
    PROVE  IInv'
<1> USE TrafficAssumption
<1>1. CASE Tick
  <2>1. clock' \in Int /\ UNCHANGED poll BY <1>1 DEF Tick, IInv, Types
  <2> QED BY <1>1, <2>1, QuietIInv DEF Tick, IInv, Types, SnapsInFlight, NoSnap
<1>2. CASE Collected
  <2>1. poll.snap = NoSnap /\ UNCHANGED clock BY <1>2 DEF Collected
  <2>2. /\ poll' \in [pc : Pc, snap : Snaps]
        /\ poll'.snap = poll.snap
        BY <1>2 DEF Collected, Goes, IInv, Types, Pc, Compacting
  <2>3. SnapsInFlight' BY <2>1, <2>2 DEF SnapsInFlight, NoSnap
  <2> QED BY <1>2, <2>1, <2>2, <2>3, QuietIInv DEF Collected, IInv, Types
<1>3. CASE CompactRows
  <2>1. poll.pc # "record" /\ UNCHANGED clock BY <1>3 DEF CompactRows
  <2>2. /\ poll' \in [pc : Pc, snap : Snaps]
        /\ poll'.snap = poll.snap
        BY <1>3 DEF CompactRows, Goes, IInv, Types, Pc, Compacting
  <2>3. SnapsInFlight' BY <2>1, <2>2 DEF SnapsInFlight, NoSnap, IInv
  <2> QED BY <1>3, <2>1, <2>2, <2>3, QuietIInv DEF CompactRows, IInv, Types
<1>4. CASE CompactCursors BY <1>4, CompactCursorsIInv
<1>5. CASE Crash
  <2>1. poll' = [pc |-> "idle", snap |-> NoSnap] /\ UNCHANGED clock
        BY <1>5 DEF Crash
  <2>2. /\ poll' \in [pc : Pc, snap : Snaps]
        /\ poll'.snap = NoSnap
        BY <2>1, NoSnapType DEF Pc
  <2>3. SnapsInFlight' BY <2>2 DEF SnapsInFlight, NoSnap
  <2> QED BY <1>5, <2>1, <2>2, <2>3, QuietIInv DEF Crash, IInv, Types
<1>6. ASSUME NEW c \in Counter, Carry(c) PROVE IInv' BY <1>6, CarryIInv
<1>7. ASSUME NEW c \in Counter, EngineRestarts(c) PROVE IInv'
      BY <1>7, EngineRestartsIInv
<1>8. ASSUME NEW c \in Counter, RecordCumulative(c) PROVE IInv' BY <1>8, RecordIInv
<1>9. ASSUME NEW answered \in SUBSET alive, Collect(answered) PROVE IInv'
      BY <1>9, CollectIInv
<1>10. CASE UNCHANGED trafficVars
       BY <1>10 DEF trafficVars, IInv, Types, SnapsInFlight, AllCovered,
           CoveredAt, AheadAt, NoSnap
<1> QED BY <1>1, <1>2, <1>3, <1>4, <1>5, <1>6, <1>7, <1>8, <1>9, <1>10
        DEF TrafficNext

(* A counter is never recorded for more than it carried, in every          *)
(* reachable state, for every number of counters, bytes, crashes and any   *)
(* retention: the claim of USER-TELEMETRY.md that polling again or         *)
(* restarting does not count bytes twice, as far as cursors decide it.     *)
THEOREM AccountingCorrect == TrafficSpec => []NeverOvercounted
<1>1. TrafficInit => IInv BY InitIInv
<1>2. IInv /\ [TrafficNext]_trafficVars => IInv' BY NextIInv
<1>3. IInv => NeverOvercounted
  <2> SUFFICES ASSUME IInv, NEW c \in Counter \ forgotten
               PROVE  counted[c] <= carried[c]
      BY DEF NeverOvercounted
  <2> QED BY AtCounter DEF Covered, CoveredAt, AheadAt
<1> QED BY <1>1, <1>2, <1>3, PTL DEF TrafficSpec

-----------------------------------------------------------------------------
(* What the rows add up to.                                                *)

(* The units of finitely many numbers are finitely many.                   *)
LEMMA UnitsFinite ==
    ASSUME NEW S, IsFiniteSet(S), NEW f, \A x \in S : f[x] \in Nat
    PROVE  IsFiniteSet(Units(f, S)) /\ Amount(f, S) \in Nat
<1> DEFINE part == [x \in S |-> {x} \X (1..f[x])]
           parts == {part[x] : x \in S}
<1>1. part \in Surjection(S, parts) BY DEF Surjection
<1>2. IsFiniteSet(parts) BY <1>1, FS_Surjection
<1>3. ASSUME NEW P \in parts PROVE IsFiniteSet(P)
  <2>1. PICK x \in S : P = {x} \X (1..f[x]) OBVIOUS
  <2>2. IsFiniteSet({x}) BY FS_Singleton
  <2>3. IsFiniteSet(1..f[x])
    <3>1. 1 \in Int /\ f[x] \in Int OBVIOUS
    <3> QED BY <3>1, FS_Interval
  <2> QED BY <2>1, <2>2, <2>3, FS_Product
<1>4. Units(f, S) = UNION parts BY DEF Units
<1> HIDE DEF parts
<1>5. IsFiniteSet(Units(f, S)) BY <1>2, <1>3, <1>4, FS_UNION
<1> QED BY <1>5, FS_CardinalityType DEF Amount

LEMMA UnitIsPair ==
    ASSUME NEW S, NEW f
    PROVE  /\ \A x \in S : \A i \in 1..f[x] : <<x, i>> \in Units(f, S)
           /\ \A u \in Units(f, S) : /\ u = <<u[1], u[2]>> /\ u[1] \in S
                                     /\ u[2] \in 1..f[u[1]]
BY DEF Units

(* Numbers that grow by the sizes of sets that share no element grow       *)
(* together by the size of what these sets hold.                           *)
LEMMA GrownBySets ==
    ASSUME NEW D, IsFiniteSet(D), NEW f \in [D -> Nat], NEW g \in [D -> Nat],
           NEW G, \A x \in D : IsFiniteSet(G[x]) /\ g[x] = f[x] + Cardinality(G[x]),
           \A x, y \in D : x # y => G[x] \cap G[y] = {},
           NEW all, all = UNION {G[x] : x \in D}
    PROVE  Total(g) = Total(f) + Cardinality(all)
<1> DEFINE U == Units(f, D)
           V == Units(g, D)
           n == [x \in D |-> Cardinality(G[x])]
           e == [x \in D |-> CHOOSE b : b \in Bijection(1..n[x], G[x])]
           h == [u \in V \ U |-> e[u[1]][u[2] - f[u[1]]]]
<1>1. IsFiniteSet(U) /\ IsFiniteSet(V) BY UnitsFinite
<1>2. \A x \in D : n[x] \in Nat /\ g[x] = f[x] + n[x] /\ f[x] \in Nat
      BY FS_CardinalityType
<1>3. \A x \in D : e[x] \in Bijection(1..n[x], G[x])
  <2> SUFFICES ASSUME NEW x \in D PROVE e[x] \in Bijection(1..n[x], G[x])
      OBVIOUS
  <2>1. ExistsBijection(1..n[x], G[x]) BY FS_CardinalityType
  <2> QED BY <2>1 DEF ExistsBijection
<1>4. \A x \in D : /\ e[x] \in [1..n[x] -> G[x]]
                   /\ \A i, j \in 1..n[x] : e[x][i] = e[x][j] => i = j
                   /\ \A y \in G[x] : \E i \in 1..n[x] : e[x][i] = y
  <2> SUFFICES ASSUME NEW x \in D
               PROVE  /\ e[x] \in [1..n[x] -> G[x]]
                      /\ \A i, j \in 1..n[x] : e[x][i] = e[x][j] => i = j
                      /\ \A y \in G[x] : \E i \in 1..n[x] : e[x][i] = y
      OBVIOUS
  <2> DEFINE b == e[x]
             I == 1..n[x]
  <2>1. b \in Bijection(I, G[x]) BY <1>3
  <2> HIDE DEF b, I
  <2>2. /\ b \in [I -> G[x]]
        /\ \A i, j \in I : b[i] = b[j] => i = j
        /\ \A y \in G[x] : \E i \in I : b[i] = y
        BY <2>1 DEF Bijection, Injection, Surjection, IsInjective
  <2> QED BY <2>2 DEF b, I
<1> HIDE DEF n, e
<1>5. U \subseteq V
  <2> SUFFICES ASSUME NEW u \in U PROVE u \in V
      OBVIOUS
  <2>1. u = <<u[1], u[2]>> /\ u[1] \in D /\ u[2] \in 1..f[u[1]] BY UnitIsPair
  <2>2. u[2] \in 1..g[u[1]] BY <1>2, <2>1
  <2> QED BY <2>1, <2>2, UnitIsPair
<1>6. \A u \in V \ U : /\ u = <<u[1], u[2]>> /\ u[1] \in D
                       /\ u[2] - f[u[1]] \in 1..n[u[1]] /\ u[2] \in Nat
  <2> SUFFICES ASSUME NEW u \in V, u \notin U
               PROVE  /\ u = <<u[1], u[2]>> /\ u[1] \in D
                      /\ u[2] - f[u[1]] \in 1..n[u[1]] /\ u[2] \in Nat
      OBVIOUS
  <2>1. u = <<u[1], u[2]>> /\ u[1] \in D /\ u[2] \in 1..g[u[1]] BY UnitIsPair
  <2>2. u[2] \notin 1..f[u[1]] BY <2>1, UnitIsPair
  <2> DEFINE x == u[1]
             k == u[2]
  <2>3. k \in 1..g[x] /\ k \notin 1..f[x] /\ n[x] \in Nat /\ g[x] = f[x] + n[x] /\ f[x] \in Nat
        BY <1>2, <2>1, <2>2
  <2> HIDE DEF x, k
  <2>4. k - f[x] \in 1..n[x] /\ k \in Nat BY <2>3
  <2> QED BY <2>1, <2>4 DEF x, k
<1>7. \A x \in D : \A i \in 1..n[x] : <<x, f[x] + i>> \in V \ U
  <2> SUFFICES ASSUME NEW x \in D, NEW i \in 1..n[x] PROVE <<x, f[x] + i>> \in V \ U
      OBVIOUS
  <2>1. f[x] + i \in 1..g[x] /\ f[x] + i \notin 1..f[x] BY <1>2
  <2>2. <<x, f[x] + i>> \in V BY <2>1, UnitIsPair
  <2>3. <<x, f[x] + i>> \notin U
    <3> DEFINE u == <<x, f[x] + i>>
    <3>1. u[1] = x /\ u[2] = f[x] + i OBVIOUS
    <3> HIDE DEF u
    <3>2. u \notin U BY <2>1, <3>1, UnitIsPair
    <3> QED BY <3>2 DEF u
  <2> QED BY <2>2, <2>3
<1> HIDE DEF U, V
<1>8. h \in Bijection(V \ U, all)
  <2>1. ASSUME NEW u \in V \ U PROVE h[u] \in G[u[1]] /\ u[1] \in D
    <3> DEFINE x == u[1]
               i == u[2] - f[x]
    <3>1. x \in D /\ i \in 1..n[x] BY <1>6
    <3>2. h[u] = e[x][i] OBVIOUS
    <3> HIDE DEF i
    <3>3. e[x][i] \in G[x] BY <1>4, <3>1
    <3> QED BY <3>1, <3>2, <3>3
  <2>2. h \in [V \ U -> all] BY <2>1
  <2>3. ASSUME NEW u \in V \ U, NEW v \in V \ U, h[u] = h[v] PROVE u = v
    <3>1. u[1] = v[1] BY <2>1, <2>3
    <3> DEFINE x == u[1]
               i == u[2] - f[x]
               j == v[2] - f[x]
    <3>2. x \in D /\ i \in 1..n[x] /\ j \in 1..n[x] /\ u[2] \in Nat /\ v[2] \in Nat
          BY <1>6, <3>1
    <3>3. e[x][i] = e[x][j] BY <2>3, <3>1
    <3>4. i = j
      <4> HIDE DEF i, j, x
      <4> QED BY <1>4, <3>2, <3>3
    <3>5. u[2] = v[2]
      <4>1. f[x] \in Nat BY <1>2, <3>2
      <4>2. u[2] - f[x] = v[2] - f[x] BY <3>4
      <4> HIDE DEF x
      <4> QED BY <3>2, <4>1, <4>2
    <3> QED BY <1>6, <3>1, <3>5
  <2>4. ASSUME NEW y \in all PROVE \E u \in V \ U : h[u] = y
    <3>1. PICK x \in D : y \in G[x] OBVIOUS
    <3>2. PICK i \in 1..n[x] : e[x][i] = y BY <1>4, <3>1
    <3> DEFINE u == <<x, f[x] + i>>
    <3>3. u \in V \ U BY <1>7
    <3>4. u[1] = x /\ u[2] = f[x] + i OBVIOUS
    <3>5. u[2] - f[u[1]] = i BY <1>2, <3>4
    <3> HIDE DEF u
    <3> QED BY <3>2, <3>3, <3>4, <3>5
  <2> HIDE DEF h
  <2> QED BY <2>2, <2>3, <2>4 DEF Bijection, Injection, Surjection, IsInjective
<1>9. IsFiniteSet(V \ U) /\ Cardinality(V \ U) = Cardinality(V) - Cardinality(V \cap U)
      BY <1>1, FS_Difference
<1>10. Cardinality(all) = Cardinality(V \ U)
  <2>1. ExistsBijection(V \ U, all) BY <1>8 DEF ExistsBijection
  <2> QED BY <1>9, <2>1, FS_Bijection
<1>11. V \cap U = U BY <1>5
<1>12. Cardinality(U) \in Nat /\ Cardinality(V) \in Nat BY <1>1, FS_CardinalityType
<1>13. Total(f) = Cardinality(U) /\ Total(g) = Cardinality(V) BY DEF Total, Amount, U, V
<1>14. Cardinality(all) = Cardinality(V) - Cardinality(U) BY <1>9, <1>10, <1>11
<1> QED BY <1>12, <1>13, <1>14

(* A number that grows by d.                                               *)
LEMMA GrownAt ==
    ASSUME NEW D, IsFiniteSet(D), NEW f \in [D -> Nat], NEW a \in D, NEW d \in Nat
    PROVE  Total([f EXCEPT ![a] = @ + d]) = Total(f) + d
<1> DEFINE g == [f EXCEPT ![a] = @ + d]
           G == [x \in D |-> IF x = a THEN 1..d ELSE {}]
           all == UNION {G[x] : x \in D}
<1>1. g \in [D -> Nat] /\ \A x \in D : g[x] = f[x] + (IF x = a THEN d ELSE 0) OBVIOUS
<1>2. IsFiniteSet(1..d) /\ Cardinality(1..d) = d
  <2>1. 1 \in Int /\ d \in Int OBVIOUS
  <2> QED BY <2>1, FS_Interval
<1>3. \A x \in D : IsFiniteSet(G[x]) /\ Cardinality(G[x]) = IF x = a THEN d ELSE 0
      BY <1>2, FS_EmptySet
<1>4. \A x, y \in D : x # y => G[x] \cap G[y] = {} OBVIOUS
<1>5. all = 1..d OBVIOUS
<1> HIDE DEF g, G, all
<1>6. \A x \in D : IsFiniteSet(G[x]) /\ g[x] = f[x] + Cardinality(G[x])
      BY <1>1, <1>3
<1>7. Total(g) = Total(f) + Cardinality(all)
  <2>1. all = UNION {G[x] : x \in D} BY DEF all
  <2> QED BY <1>1, <1>4, <1>6, <2>1, GrownBySets
<1> QED BY <1>2, <1>5, <1>7 DEF g

LEMMA TimeIsFinite == IsFiniteSet(Time)
<1>1. 0 \in Int /\ Horizon \in Int BY TrafficAssumption
<1> QED BY <1>1, FS_Interval DEF Time

LEMMA UnitsOfOne ==
    ASSUME NEW x, NEW n \in Nat
    PROVE  IsFiniteSet({x} \X (1..n)) /\ Cardinality({x} \X (1..n)) = n
<1>1. IsFiniteSet({x}) /\ Cardinality({x}) = 1 BY FS_Singleton
<1>2. IsFiniteSet(1..n) /\ Cardinality(1..n) = n
  <2>1. 1 \in Int /\ n \in Int OBVIOUS
  <2> QED BY <2>1, FS_Interval
<1>3. /\ IsFiniteSet({x} \X (1..n))
      /\ Cardinality({x} \X (1..n)) = Cardinality({x}) * Cardinality(1..n)
      BY <1>1, <1>2, FS_Product
<1>4. 1 * n = n OBVIOUS
<1> QED BY <1>1, <1>2, <1>3, <1>4

(* The rows of before a cutoff.                                            *)
Old(before) == {x \in Time : x < before}

(* Deleting them takes away what they count.                               *)
LEMMA DropTakes ==
    ASSUME NEW f \in [Time -> Nat], NEW before,
           NEW g, g = [t \in Time |-> IF t < before THEN 0 ELSE f[t]]
    PROVE  Total(f) = Total(g) + Amount(f, Old(before))
<1> DEFINE G == [x \in Time |-> IF x \in Old(before) THEN {x} \X (1..f[x]) ELSE {}]
           all == UNION {G[x] : x \in Time}
<1>1. g \in [Time -> Nat] OBVIOUS
<1>2. ASSUME NEW x \in Time PROVE IsFiniteSet(G[x]) /\ f[x] = g[x] + Cardinality(G[x])
  <2>1. CASE x \in Old(before)
    <3>1. G[x] = {x} \X (1..f[x]) /\ g[x] = 0 BY <2>1 DEF Old
    <3>2. f[x] \in Nat OBVIOUS
    <3>3. IsFiniteSet({x} \X (1..f[x])) /\ Cardinality({x} \X (1..f[x])) = f[x]
          BY <3>2, UnitsOfOne
    <3> HIDE DEF G
    <3>4. IsFiniteSet(G[x]) /\ Cardinality(G[x]) = f[x] BY <3>1, <3>3
    <3> QED BY <3>1, <3>2, <3>4
  <2>2. CASE x \notin Old(before)
    <3>1. G[x] = {} /\ g[x] = f[x] BY <2>2 DEF Old
    <3>2. IsFiniteSet(G[x]) /\ Cardinality(G[x]) = 0 BY <3>1, FS_EmptySet
    <3> QED BY <3>1, <3>2
  <2> QED BY <2>1, <2>2
<1>3. \A x, y \in Time : x # y => G[x] \cap G[y] = {} OBVIOUS
<1>4. all = Units(f, Old(before)) BY DEF Units, Old
<1> HIDE DEF G, all
<1>5. Total(f) = Total(g) + Cardinality(all)
  <2>1. all = UNION {G[x] : x \in Time} BY DEF all
  <2> QED BY <1>1, <1>2, <1>3, <2>1, TimeIsFinite, GrownBySets
<1> QED BY <1>4, <1>5 DEF Amount

LEMMA FloorFits ==
    ASSUME NEW t \in Time, NEW span \in Nat \ {0}
    PROVE  Floor(t, span) \in Time
<1>1. t \in Nat /\ t <= Horizon /\ Horizon \in Nat BY TrafficAssumption DEF Time
<1>2. t \div span \in Nat BY <1>1
<1>3. (t \div span) * span <= t BY <1>1
<1>4. (t \div span) * span \in Nat BY <1>2
<1> HIDE DEF Floor
<1>5. Floor(t, span) \in Nat /\ Floor(t, span) <= t BY <1>3, <1>4 DEF Floor
<1> QED BY <1>1, <1>5 DEF Time

Gained(f, s, before, span) ==
    [t \in Time |-> f[t] + Amount(s, {x \in Time : x < before /\ Floor(x, span) = t})]

(* rollup(): the coarser rows gain what the rows before the cutoff count,  *)
(* each of which falls into one of them.                                   *)
LEMMA RollAdds ==
    ASSUME NEW f \in [Time -> Nat], NEW s \in [Time -> Nat], NEW before,
           NEW span \in Nat \ {0},
           NEW g, g = Gained(f, s, before, span)
    PROVE  g \in [Time -> Nat] /\ Total(g) = Total(f) + Amount(s, Old(before))
<1> DEFINE Group(t) == {x \in Time : x < before /\ Floor(x, span) = t}
           G == [t \in Time |-> Units(s, Group(t))]
           all == UNION {G[t] : t \in Time}
<1>1. ASSUME NEW t \in Time
      PROVE  IsFiniteSet(G[t]) /\ Cardinality(G[t]) \in Nat /\ g[t] = f[t] + Cardinality(G[t])
  <2>1. IsFiniteSet(Group(t))
    <3>1. Group(t) \in SUBSET Time OBVIOUS
    <3> HIDE DEF Group
    <3> QED BY <3>1, TimeIsFinite, FS_Subset
  <2>2. \A x \in Group(t) : s[x] \in Nat OBVIOUS
  <2>3. g[t] = f[t] + Amount(s, Group(t)) BY DEF Gained
  <2> HIDE DEF Group
  <2>4. IsFiniteSet(Units(s, Group(t))) /\ Amount(s, Group(t)) \in Nat
        BY <2>1, <2>2, UnitsFinite
  <2> QED BY <2>3, <2>4 DEF Amount
<1>2. g \in [Time -> Nat]
  <2>1. \A t \in Time : f[t] + Cardinality(G[t]) \in Nat BY <1>1
  <2>2. \A t \in Time : g[t] \in Nat BY <1>1, <2>1
  <2> QED BY <2>2 DEF Gained
<1>3. ASSUME NEW t \in Time, NEW u \in Time, t # u PROVE G[t] \cap G[u] = {}
  <2>1. Group(t) \cap Group(u) = {} BY <1>3
  <2>2. G[t] = Units(s, Group(t)) /\ G[u] = Units(s, Group(u)) OBVIOUS
  <2> HIDE DEF Group, G
  <2>3. \A v \in G[t] : v[1] \in Group(t) BY <2>2, UnitIsPair
  <2>4. \A v \in G[u] : v[1] \in Group(u) BY <2>2, UnitIsPair
  <2> QED BY <2>1, <2>3, <2>4
<1>4. all = Units(s, Old(before))
  <2>1. \A x \in Old(before) : Floor(x, span) \in Time /\ x \in Group(Floor(x, span))
        BY FloorFits DEF Old
  <2>2. \A t \in Time : Group(t) \subseteq Old(before) BY DEF Old
  <2> HIDE DEF Group
  <2>3. all = UNION {Units(s, Group(t)) : t \in Time} OBVIOUS
  <2>4. ASSUME NEW v \in all PROVE v \in Units(s, Old(before))
    <3>1. PICK t \in Time : v \in Units(s, Group(t)) BY <2>3
    <3>2. v = <<v[1], v[2]>> /\ v[1] \in Group(t) /\ v[2] \in 1..s[v[1]]
          BY <3>1, UnitIsPair
    <3>3. v[1] \in Old(before) BY <2>2, <3>2
    <3> QED BY <3>2, <3>3, UnitIsPair
  <2>5. ASSUME NEW v \in Units(s, Old(before)) PROVE v \in all
    <3>1. v = <<v[1], v[2]>> /\ v[1] \in Old(before) /\ v[2] \in 1..s[v[1]]
          BY UnitIsPair
    <3> DEFINE t == Floor(v[1], span)
    <3>2. t \in Time /\ v[1] \in Group(t) BY <2>1, <3>1
    <3> HIDE DEF t
    <3>3. v \in Units(s, Group(t)) BY <3>1, <3>2, UnitIsPair
    <3> QED BY <2>3, <3>2, <3>3
  <2> HIDE DEF all
  <2> QED BY <2>4, <2>5
<1> HIDE DEF G, all
<1>5. Total(g) = Total(f) + Cardinality(all)
  <2>1. all = UNION {G[x] : x \in Time} BY DEF all
  <2>2. \A x \in Time : IsFiniteSet(G[x]) /\ g[x] = f[x] + Cardinality(G[x]) BY <1>1
  <2>3. \A x, y \in Time : x # y => G[x] \cap G[y] = {} BY <1>3
  <2> HIDE DEF Group
  <2> QED BY <1>2, <2>1, <2>2, <2>3, TimeIsFinite, GrownBySets
<1> QED BY <1>2, <1>4, <1>5 DEF Amount

LEMMA TotalType ==
    ASSUME NEW D, IsFiniteSet(D), NEW f \in [D -> Nat]
    PROVE  Total(f) \in Nat
<1>1. DOMAIN f = D /\ \A x \in D : f[x] \in Nat OBVIOUS
<1> QED BY <1>1, UnitsFinite DEF Total

LEMMA NothingCounted ==
    ASSUME NEW D, NEW f, f = [x \in D |-> 0]
    PROVE  Total(f) = 0
<1>1. Units(f, D) = {}
  <2> SUFFICES ASSUME NEW u \in Units(f, D) PROVE FALSE
      OBVIOUS
  <2>1. u[1] \in D /\ u[2] \in 1..f[u[1]] BY UnitIsPair
  <2> QED BY <2>1
<1>2. DOMAIN f = D OBVIOUS
<1> QED BY <1>1, <1>2, FS_EmptySet DEF Total, Amount

(* What the rows add up to, and what compact() has copied and not deleted. *)
InRows == Total(row["5m"]) + Total(row["1h"]) + Total(row["1d"])
OldFine == Amount(row["5m"], Old(clock - KeepFine))
OldHourly == Amount(row["1h"], Old(clock - KeepHourly))
Doubled ==
    (IF poll.pc \in {"roll1h", "drop5m"} THEN OldFine ELSE 0)
    + (IF poll.pc \in {"drop5m", "drop1h"} THEN OldHourly ELSE 0)

RowsInv ==
    /\ row \in [Bucket -> [Time -> Nat]] /\ clock \in Time
    /\ ~ torn => InRows = Total(counted) + Doubled

Single == {"idle", "record", "roll5m", "dropCursors"}

LEMMA RowsType ==
    ASSUME RowsInv
    PROVE  /\ row["5m"] \in [Time -> Nat] /\ row["1h"] \in [Time -> Nat]
           /\ row["1d"] \in [Time -> Nat]
           /\ Total(row["5m"]) \in Nat /\ Total(row["1h"]) \in Nat
           /\ Total(row["1d"]) \in Nat
           /\ OldFine \in Nat /\ OldHourly \in Nat
<1>1. /\ row["5m"] \in [Time -> Nat] /\ row["1h"] \in [Time -> Nat]
      /\ row["1d"] \in [Time -> Nat]
      BY DEF RowsInv, Bucket
<1>2. /\ Total(row["5m"]) \in Nat /\ Total(row["1h"]) \in Nat
      /\ Total(row["1d"]) \in Nat
      BY <1>1, TimeIsFinite, TotalType
<1>3. ASSUME NEW f \in [Time -> Nat], NEW before PROVE Amount(f, Old(before)) \in Nat
  <2>1. Old(before) \in SUBSET Time BY DEF Old
  <2>2. IsFiniteSet(Old(before)) BY <2>1, TimeIsFinite, FS_Subset
  <2>3. \A x \in Old(before) : f[x] \in Nat BY <2>1
  <2> QED BY <2>2, <2>3, UnitsFinite
<1>4. OldFine \in Nat BY <1>1, <1>3 DEF OldFine
<1>5. OldHourly \in Nat BY <1>1, <1>3 DEF OldHourly
<1> QED BY <1>1, <1>2, <1>4, <1>5

LEMMA InitRows == TrafficInit => RowsInv
<1> SUFFICES ASSUME TrafficInit PROVE RowsInv
    OBVIOUS
<1>1. row = [b \in Bucket |-> [t \in Time |-> 0]] /\ clock = 0 /\ poll.pc = "idle"
      /\ counted = [c \in Counter |-> 0]
      BY DEF TrafficInit
<1>2. clock \in Time BY <1>1, TrafficAssumption DEF Time
<1>3. row \in [Bucket -> [Time -> Nat]] BY <1>1
<1>4. \A b \in Bucket : row[b] = [t \in Time |-> 0] BY <1>1
<1>5. Total(row["5m"]) = 0 /\ Total(row["1h"]) = 0 /\ Total(row["1d"]) = 0
      BY <1>4, NothingCounted DEF Bucket
<1>6. Total(counted) = 0 BY <1>1, NothingCounted
<1>7. Doubled = 0 BY <1>1 DEF Doubled
<1> QED BY <1>2, <1>3, <1>5, <1>6, <1>7 DEF RowsInv, InRows

(* Steps that leave the rows alone, outside a compaction.                  *)
LEMMA QuietRows ==
    ASSUME RowsInv, row' = row, counted' = counted, clock' \in Time,
           poll.pc \in Single, poll'.pc \in Single, ~ torn' => ~ torn
    PROVE  RowsInv'
<1>1. Doubled = 0 /\ Doubled' = 0 BY DEF Doubled, Single
<1>2. InRows' = InRows BY DEF InRows
<1> QED BY <1>1, <1>2 DEF RowsInv

LEMMA RecordRows ==
    ASSUME IInv, RowsInv, NEW c \in Counter, RecordCumulative(c)
    PROVE  RowsInv'
<1> DEFINE delta == Delta(poll.snap[c], cursor[c].bytes)
<1>1. poll.snap[c] \in Nat /\ cursor[c].bytes \in Nat \cup {-1}
      BY DEF RecordCumulative, IInv, Types, Snaps
<1>2. delta \in Nat BY <1>1, DeltaType
<1>3. /\ row' = [row EXCEPT !["5m"][clock] = @ + delta]
      /\ counted' = [counted EXCEPT ![c] = @ + delta]
      /\ poll.pc = "record" /\ poll' = [poll EXCEPT !.snap[c] = -1]
      /\ clock' = clock /\ torn' = torn
      BY DEF RecordCumulative
<1> HIDE DEF delta
<1>4. poll'.pc = "record" BY <1>3 DEF IInv, Types
<1>5. /\ row'["5m"] = [row["5m"] EXCEPT ![clock] = @ + delta]
      /\ row'["1h"] = row["1h"] /\ row'["1d"] = row["1d"]
      /\ row' \in [Bucket -> [Time -> Nat]]
  <2>1. row \in [Bucket -> [Time -> Nat]] /\ clock \in Time BY DEF RowsInv
  <2> QED BY <1>2, <1>3, <2>1 DEF Bucket
<1>6. Total(row'["5m"]) = Total(row["5m"]) + delta
  <2>1. row["5m"] \in [Time -> Nat] /\ clock \in Time BY RowsType DEF RowsInv
  <2> QED BY <1>2, <1>5, <2>1, TimeIsFinite, GrownAt
<1>7. Total(counted') = Total(counted) + delta
  <2>1. counted \in [Counter -> Nat] /\ IsFiniteSet(Counter)
        BY TrafficAssumption DEF IInv, Types
  <2> QED BY <1>2, <1>3, <2>1, GrownAt
<1>8. Doubled = 0 /\ Doubled' = 0 BY <1>3, <1>4 DEF Doubled
<1>9. /\ Total(row["5m"]) \in Nat /\ Total(row["1h"]) \in Nat /\ Total(row["1d"]) \in Nat
      /\ Total(counted) \in Nat
  <2>1. counted \in [Counter -> Nat] /\ IsFiniteSet(Counter)
        BY TrafficAssumption DEF IInv, Types
  <2> QED BY <2>1, RowsType, TotalType
<1>10. InRows' = InRows + delta BY <1>2, <1>5, <1>6, <1>9 DEF InRows
<1>11. ~ torn => InRows = Total(counted) BY <1>8, <1>9 DEF RowsInv
<1>12. ~ torn' => InRows' = Total(counted') + Doubled'
       BY <1>2, <1>3, <1>7, <1>8, <1>9, <1>10, <1>11
<1> QED BY <1>3, <1>5, <1>12 DEF RowsInv

(* rollup() copies, the deletions take the copied rows away.               *)
LEMMA CompactRowsRows ==
    ASSUME IInv, RowsInv, CompactRows
    PROVE  RowsInv'
<1> DEFINE fine == row["5m"]
           hourly == row["1h"]
           daily == row["1d"]
<1>1. clock' = clock /\ counted' = counted /\ torn' = torn BY DEF CompactRows
<1>2. /\ fine \in [Time -> Nat] /\ hourly \in [Time -> Nat] /\ daily \in [Time -> Nat]
      /\ Total(fine) \in Nat /\ Total(hourly) \in Nat /\ Total(daily) \in Nat
      /\ OldFine \in Nat /\ OldHourly \in Nat
      BY RowsType
<1>3. row \in [Bucket -> [Time -> Nat]] /\ clock \in Time BY DEF RowsInv
<1>4. Total(counted) \in Nat
  <2>1. counted \in [Counter -> Nat] /\ IsFiniteSet(Counter)
        BY TrafficAssumption DEF IInv, Types
  <2> QED BY <2>1, TotalType
<1>5. Hour \in Nat \ {0} /\ Day \in Nat \ {0} BY TrafficAssumption
<1>6. ASSUME NEW pc, Goes(pc) PROVE poll'.pc = pc BY <1>6 DEF Goes, IInv, Types
<1>7. InRows = Total(fine) + Total(hourly) + Total(daily) BY DEF InRows
<1>8. ~ torn => InRows = Total(counted) + Doubled BY DEF RowsInv
<1>9. CASE poll.pc = "roll5m" /\ row' = Rolled("5m", "1h", clock - KeepFine, Hour)
           /\ Goes("roll1h")
  <2> DEFINE g == Gained(hourly, fine, clock - KeepFine, Hour)
  <2>1. row' = [row EXCEPT !["1h"] = g] BY <1>9 DEF Rolled, Gained
  <2>2. g \in [Time -> Nat] /\ Total(g) = Total(hourly) + OldFine
    <3> DEFINE s == fine
               f == hourly
               before == clock - KeepFine
    <3>1. s \in [Time -> Nat] /\ f \in [Time -> Nat] BY <1>2
    <3>2. OldFine = Amount(s, Old(before)) BY DEF OldFine
    <3>3. g = Gained(f, s, before, Hour) OBVIOUS
    <3> HIDE DEF s, f, before, g
    <3>4. g \in [Time -> Nat] /\ Total(g) = Total(f) + Amount(s, Old(before))
          BY <1>5, <3>1, <3>3, RollAdds
    <3> QED BY <3>2, <3>4 DEF f
  <2> HIDE DEF g
  <2>3. row'["5m"] = fine /\ row'["1h"] = g /\ row'["1d"] = daily
        /\ row' \in [Bucket -> [Time -> Nat]]
        BY <1>3, <2>1, <2>2 DEF Bucket
  <2>4. poll'.pc = "roll1h" BY <1>6, <1>9
  <2>5. Doubled = 0 /\ Doubled' = OldFine
    <3>1. OldFine' = OldFine BY <1>1, <2>3 DEF OldFine
    <3> QED BY <1>2, <1>9, <2>4, <3>1 DEF Doubled
  <2>6. InRows' = Total(fine) + Total(g) + Total(daily) BY <2>3 DEF InRows
  <2> HIDE DEF fine, hourly, daily
  <2>7. ASSUME ~ torn' PROVE InRows' = Total(counted') + Doubled'
    <3>1. Total(fine) + Total(hourly) + Total(daily) = Total(counted)
          BY <1>1, <1>4, <1>7, <1>8, <2>5, <2>7
    <3>2. Total(counted') = Total(counted) /\ Doubled' = OldFine BY <1>1, <2>5
    <3>3. InRows' = Total(fine) + Total(hourly) + OldFine + Total(daily)
          BY <1>2, <2>2, <2>6
    <3> QED BY <1>2, <1>4, <3>1, <3>2, <3>3
  <2> QED BY <1>1, <1>3, <2>3, <2>7 DEF RowsInv
<1>10. CASE poll.pc = "roll1h" /\ row' = Rolled("1h", "1d", clock - KeepHourly, Day)
            /\ Goes("drop5m")
  <2> DEFINE g == Gained(daily, hourly, clock - KeepHourly, Day)
  <2>1. row' = [row EXCEPT !["1d"] = g] BY <1>10 DEF Rolled, Gained
  <2>2. g \in [Time -> Nat] /\ Total(g) = Total(daily) + OldHourly
    <3> DEFINE s == hourly
               f == daily
               before == clock - KeepHourly
    <3>1. s \in [Time -> Nat] /\ f \in [Time -> Nat] BY <1>2
    <3>2. OldHourly = Amount(s, Old(before)) BY DEF OldHourly
    <3>3. g = Gained(f, s, before, Day) OBVIOUS
    <3> HIDE DEF s, f, before, g
    <3>4. g \in [Time -> Nat] /\ Total(g) = Total(f) + Amount(s, Old(before))
          BY <1>5, <3>1, <3>3, RollAdds
    <3> QED BY <3>2, <3>4 DEF f
  <2> HIDE DEF g
  <2>3. row'["5m"] = fine /\ row'["1h"] = hourly /\ row'["1d"] = g
        /\ row' \in [Bucket -> [Time -> Nat]]
        BY <1>3, <2>1, <2>2 DEF Bucket
  <2>4. poll'.pc = "drop5m" BY <1>6, <1>10
  <2>5. Doubled = OldFine /\ Doubled' = OldFine + OldHourly
    <3>1. OldFine' = OldFine BY <1>1, <2>3 DEF OldFine
    <3>2. OldHourly' = OldHourly BY <1>1, <2>3 DEF OldHourly
    <3> QED BY <1>2, <1>10, <2>4, <3>1, <3>2 DEF Doubled
  <2>6. InRows' = Total(fine) + Total(hourly) + Total(g) BY <2>3 DEF InRows
  <2> HIDE DEF fine, hourly, daily
  <2>7. ASSUME ~ torn' PROVE InRows' = Total(counted') + Doubled'
    <3>1. Total(fine) + Total(hourly) + Total(daily) = Total(counted) + OldFine
          BY <1>1, <1>4, <1>7, <1>8, <2>5, <2>7
    <3>2. Total(counted') = Total(counted) /\ Doubled' = OldFine + OldHourly
          BY <1>1, <2>5
    <3>3. InRows' = Total(fine) + Total(hourly) + Total(daily) + OldHourly
      <4>1. Total(g) = Total(daily) + OldHourly BY <2>2
      <4> QED BY <1>2, <2>6, <4>1
    <3> QED BY <1>2, <1>4, <3>1, <3>2, <3>3
  <2> QED BY <1>1, <1>3, <2>3, <2>7 DEF RowsInv
<1>11. CASE poll.pc = "drop5m" /\ row' = Dropped("5m", clock - KeepFine)
            /\ Goes("drop1h")
  <2> DEFINE g == [t \in Time |-> IF t < clock - KeepFine THEN 0 ELSE fine[t]]
  <2>1. row' = [row EXCEPT !["5m"] = g] BY <1>11 DEF Dropped
  <2>2. g \in [Time -> Nat] /\ Total(fine) = Total(g) + OldFine
    <3>1. g \in [Time -> Nat] BY <1>2
    <3> DEFINE before == clock - KeepFine
               f == fine
    <3>2. g = [t \in Time |-> IF t < before THEN 0 ELSE f[t]] OBVIOUS
    <3>3. f \in [Time -> Nat] BY <1>2
    <3>4. OldFine = Amount(f, Old(before)) BY DEF OldFine
    <3> HIDE DEF g, f, before
    <3>5. Total(f) = Total(g) + Amount(f, Old(before)) BY <3>2, <3>3, DropTakes
    <3> QED BY <3>1, <3>4, <3>5 DEF f
  <2> HIDE DEF g
  <2>3. row'["5m"] = g /\ row'["1h"] = hourly /\ row'["1d"] = daily
        /\ row' \in [Bucket -> [Time -> Nat]]
        BY <1>3, <2>1, <2>2 DEF Bucket
  <2>4. poll'.pc = "drop1h" BY <1>6, <1>11
  <2>5. Doubled = OldFine + OldHourly /\ Doubled' = OldHourly
    <3>1. OldHourly' = OldHourly BY <1>1, <2>3 DEF OldHourly
    <3> QED BY <1>2, <1>11, <2>4, <3>1 DEF Doubled
  <2>6. InRows' = Total(g) + Total(hourly) + Total(daily) BY <2>3 DEF InRows
  <2>7. Total(g) \in Nat BY <2>2, TimeIsFinite, TotalType
  <2> HIDE DEF fine, hourly, daily
  <2>8. ~ torn' => InRows' = Total(counted') + Doubled'
        BY <1>1, <1>2, <1>4, <1>7, <1>8, <2>2, <2>5, <2>6, <2>7
  <2> QED BY <1>1, <1>3, <2>3, <2>8 DEF RowsInv
<1>12. CASE poll.pc = "drop1h" /\ row' = Dropped("1h", clock - KeepHourly)
            /\ Goes("dropCursors")
  <2> DEFINE g == [t \in Time |-> IF t < clock - KeepHourly THEN 0 ELSE hourly[t]]
  <2>1. row' = [row EXCEPT !["1h"] = g] BY <1>12 DEF Dropped
  <2>2. g \in [Time -> Nat] /\ Total(hourly) = Total(g) + OldHourly
    <3>1. g \in [Time -> Nat] BY <1>2
    <3> DEFINE before == clock - KeepHourly
               f == hourly
    <3>2. g = [t \in Time |-> IF t < before THEN 0 ELSE f[t]] OBVIOUS
    <3>3. f \in [Time -> Nat] BY <1>2
    <3>4. OldHourly = Amount(f, Old(before)) BY DEF OldHourly
    <3> HIDE DEF g, f, before
    <3>5. Total(f) = Total(g) + Amount(f, Old(before)) BY <3>2, <3>3, DropTakes
    <3> QED BY <3>1, <3>4, <3>5 DEF f
  <2> HIDE DEF g
  <2>3. row'["5m"] = fine /\ row'["1h"] = g /\ row'["1d"] = daily
        /\ row' \in [Bucket -> [Time -> Nat]]
        BY <1>3, <2>1, <2>2 DEF Bucket
  <2>4. poll'.pc = "dropCursors" BY <1>6, <1>12
  <2>5. Doubled = OldHourly /\ Doubled' = 0 BY <1>2, <1>12, <2>4 DEF Doubled
  <2>6. InRows' = Total(fine) + Total(g) + Total(daily) BY <2>3 DEF InRows
  <2>7. Total(g) \in Nat BY <2>2, TimeIsFinite, TotalType
  <2> HIDE DEF fine, hourly, daily
  <2>8. ~ torn' => InRows' = Total(counted') + Doubled'
        BY <1>1, <1>2, <1>4, <1>7, <1>8, <2>2, <2>5, <2>6, <2>7
  <2> QED BY <1>1, <1>3, <2>3, <2>8 DEF RowsInv
<1> QED BY <1>9, <1>10, <1>11, <1>12 DEF CompactRows

LEMMA NextRows ==
    ASSUME IInv, RowsInv, [TrafficNext]_trafficVars
    PROVE  RowsInv'
<1>1. poll.pc \in Pc /\ clock \in Time /\ poll \in [pc : Pc, snap : Snaps]
      BY DEF IInv, Types, RowsInv
<1>2. CASE Tick
  <2>1. clock' = clock + 1 /\ clock < Horizon /\ poll.pc = "idle" /\ poll' = poll
        /\ row' = row /\ counted' = counted /\ torn' = torn
        BY <1>2 DEF Tick
  <2>2. clock' \in Time BY <1>1, <2>1, TrafficAssumption DEF Time
  <2> QED BY <2>1, <2>2, QuietRows DEF Single
<1>3. CASE Collected
  <2>1. poll.pc = "record" /\ poll'.pc \in {"idle", "roll5m"} /\ clock' = clock
        /\ row' = row /\ counted' = counted /\ torn' = torn
        BY <1>1, <1>3 DEF Collected, Goes
  <2> QED BY <1>1, <2>1, QuietRows DEF Single
<1>4. CASE CompactRows BY <1>4, CompactRowsRows
<1>5. CASE CompactCursors
  <2>1. poll.pc = "dropCursors" /\ poll'.pc = "idle" /\ clock' = clock
        /\ row' = row /\ counted' = counted /\ torn' = torn
        BY <1>1, <1>5 DEF CompactCursors, Goes
  <2> QED BY <1>1, <2>1, QuietRows DEF Single
<1>6. CASE Crash
  <2>1. poll'.pc = "idle" /\ clock' = clock /\ row' = row /\ counted' = counted
        BY <1>6 DEF Crash
  <2>2. torn' = (torn \/ poll.pc \in Compacting) BY <1>6 DEF Crash
  <2>3. CASE poll.pc \in Compacting
    <3>1. torn' BY <2>2, <2>3
    <3> QED BY <1>1, <2>1, <3>1 DEF RowsInv
  <2>4. CASE poll.pc \notin Compacting
    <3>1. ~ torn' => ~ torn BY <2>2
    <3>2. poll.pc \in Single BY <1>1, <2>4 DEF Pc, Single
    <3> QED BY <1>1, <2>1, <3>1, <3>2, QuietRows DEF Single
  <2> QED BY <2>3, <2>4
<1>7. ASSUME NEW c \in Counter, Carry(c) \/ EngineRestarts(c) PROVE RowsInv'
  <2>1. poll.pc \notin Compacting /\ poll' = poll /\ clock' = clock
        /\ row' = row /\ counted' = counted /\ torn' = torn
        BY <1>7 DEF Carry, EngineRestarts
  <2>2. poll.pc \in Single BY <1>1, <2>1 DEF Pc, Single
  <2> QED BY <1>1, <2>1, <2>2, QuietRows
<1>8. ASSUME NEW c \in Counter, RecordCumulative(c) PROVE RowsInv' BY <1>8, RecordRows
<1>9. ASSUME NEW answered \in SUBSET alive, Collect(answered) PROVE RowsInv'
  <2>1. poll.pc = "idle" /\ poll'.pc = "record" /\ clock' = clock
        /\ row' = row /\ counted' = counted /\ torn' = torn
        BY <1>9 DEF Collect
  <2> QED BY <1>1, <2>1, QuietRows DEF Single
<1>10. CASE UNCHANGED trafficVars
  <2>1. poll' = poll /\ clock' = clock /\ row' = row /\ counted' = counted /\ torn' = torn
        BY <1>10 DEF trafficVars
  <2>2. InRows' = InRows BY <2>1 DEF InRows
  <2>3. Doubled' = Doubled BY <2>1 DEF Doubled, OldFine, OldHourly
  <2> QED BY <2>1, <2>2, <2>3 DEF RowsInv
<1> QED BY <1>2, <1>3, <1>4, <1>5, <1>6, <1>7, <1>8, <1>9, <1>10 DEF TrafficNext

(* compact() neither makes nor loses a byte: whatever was recorded, by any *)
(* counters over any time, is what the rows of five minutes, hours and     *)
(* days add up to, unless the process died between its statements.         *)
THEOREM CompactionExact == TrafficSpec => []TotalsKept
<1>1. TrafficInit => IInv /\ RowsInv BY InitIInv, InitRows
<1>2. IInv /\ RowsInv /\ [TrafficNext]_trafficVars => IInv' /\ RowsInv'
      BY NextIInv, NextRows
<1>3. IInv /\ RowsInv => TotalsKept
  <2> SUFFICES ASSUME IInv, RowsInv, poll.pc \notin Compacting, ~ torn
               PROVE  InRows = Total(counted)
      BY DEF TotalsKept, InRows
  <2>1. Doubled = 0 BY DEF Doubled, Compacting
  <2>2. Total(counted) \in Nat
    <3>1. counted \in [Counter -> Nat] /\ IsFiniteSet(Counter)
          BY TrafficAssumption DEF IInv, Types
    <3> QED BY <3>1, TotalType
  <2> QED BY <2>1, <2>2 DEF RowsInv
<1> QED BY <1>1, <1>2, <1>3, PTL DEF TrafficSpec

-----------------------------------------------------------------------------
(* Lists in an order.                                                      *)


(* The elements of a finite set are told apart by how many of them come    *)
(* before, in any strict total order, and every number of them comes       *)
(* before some element.                                                    *)
LEMMA RanksAreOnto ==
    ASSUME NEW S, IsFiniteSet(S), NEW R,
           \A i \in S : <<i, i>> \notin R,
           \A i, j \in S : i = j \/ <<i, j>> \in R \/ <<j, i>> \in R,
           \A i, j, k \in S : <<i, j>> \in R /\ <<j, k>> \in R => <<i, k>> \in R,
           NEW rank, rank = [i \in S |-> Cardinality({j \in S : <<j, i>> \in R})]
    PROVE  /\ \A i \in S : rank[i] \in 0..(Cardinality(S) - 1)
           /\ \A i, j \in S : <<i, j>> \in R <=> rank[i] < rank[j]
           /\ \A n \in 1..Cardinality(S) : \E i \in S : rank[i] = n - 1
<1> DEFINE Before(i) == {j \in S : <<j, i>> \in R}
           Places == 0..(Cardinality(S) - 1)
<1>1. ASSUME NEW i \in S
      PROVE  /\ rank[i] = Cardinality(Before(i)) /\ rank[i] \in Nat
             /\ IsFiniteSet(Before(i)) /\ rank[i] <= Cardinality(S)
  <2>1. Before(i) \in SUBSET S OBVIOUS
  <2>2. rank[i] = Cardinality(Before(i)) OBVIOUS
  <2> HIDE DEF Before
  <2> QED BY <2>1, <2>2, FS_Subset, FS_CardinalityType
<1>2. ASSUME NEW i \in S, NEW j \in S, <<i, j>> \in R PROVE rank[i] < rank[j]
  <2>1. Before(i) \in SUBSET Before(j) BY <1>2
  <2>2. i \in Before(j) /\ i \notin Before(i) BY <1>2
  <2>3. Before(i) # Before(j) BY <2>2
  <2>4. /\ rank[i] = Cardinality(Before(i)) /\ rank[j] = Cardinality(Before(j))
        /\ rank[i] \in Nat /\ rank[j] \in Nat /\ IsFiniteSet(Before(j))
        BY <1>1
  <2> HIDE DEF Before
  <2>5. rank[i] <= rank[j] /\ rank[i] # rank[j] BY <2>1, <2>3, <2>4, FS_Subset
  <2> QED BY <2>4, <2>5
<1>3. ASSUME NEW i \in S PROVE rank[i] \in Places
  <2>1. Before(i) \in SUBSET S /\ i \notin Before(i) OBVIOUS
  <2>2. Before(i) # S BY <2>1
  <2>3. /\ rank[i] = Cardinality(Before(i)) /\ rank[i] \in Nat
        /\ rank[i] <= Cardinality(S) /\ Cardinality(S) \in Nat
        BY <1>1, FS_CardinalityType
  <2> HIDE DEF Before
  <2>4. rank[i] # Cardinality(S) BY <2>1, <2>2, <2>3, FS_Subset
  <2> QED BY <2>3, <2>4
<1>4. ASSUME NEW i \in S, NEW j \in S, rank[i] < rank[j] PROVE <<i, j>> \in R
  <2>1. rank[i] \in Nat /\ rank[j] \in Nat BY <1>1
  <2>2. i # j /\ ~ (rank[j] < rank[i]) BY <1>4, <2>1
  <2> QED BY <1>2, <2>2
<1>5. ASSUME NEW i \in S, NEW j \in S, rank[i] = rank[j] PROVE i = j
  <2>1. rank[i] \in Nat /\ rank[j] \in Nat BY <1>1
  <2>2. ~ (rank[j] < rank[i]) /\ ~ (rank[i] < rank[j]) BY <1>5, <2>1
  <2> QED BY <1>2, <2>2
<1>6. Cardinality(S) \in Nat BY FS_CardinalityType
<1>7. IsFiniteSet(Places) /\ Cardinality(Places) = Cardinality(S)
  <2>1. 0 \in Int /\ Cardinality(S) - 1 \in Int BY <1>6
  <2>2. /\ IsFiniteSet(Places)
        /\ Cardinality(Places) = IF 0 > Cardinality(S) - 1 THEN 0
                                 ELSE (Cardinality(S) - 1) - 0 + 1
        BY <2>1, FS_Interval
  <2> QED BY <1>6, <2>2
<1>8. rank \in Injection(S, Places)
  <2>1. rank \in [S -> Places]
    <3> HIDE DEF Places
    <3> QED BY <1>3
  <2>2. \A a, b \in S : rank[a] = rank[b] => a = b BY <1>5
  <2> QED BY <2>1, <2>2 DEF Injection, IsInjective
<1>9. rank \in Surjection(S, Places)
  <2> HIDE DEF Places
  <2> QED BY <1>7, <1>8, FS_Injection
<1>10. ASSUME NEW n \in 1..Cardinality(S) PROVE \E i \in S : rank[i] = n - 1
  <2>1. n - 1 \in Places BY <1>6
  <2> HIDE DEF Places
  <2> QED BY <1>9, <2>1 DEF Surjection
<1> QED BY <1>2, <1>3, <1>4, <1>10

LEMMA InOrderLists ==
    ASSUME NEW S, IsFiniteSet(S), NEW R,
           \A i \in S : <<i, i>> \notin R,
           \A i, j \in S : i = j \/ <<i, j>> \in R \/ <<j, i>> \in R,
           \A i, j, k \in S : <<i, j>> \in R /\ <<j, k>> \in R => <<i, k>> \in R,
           NEW L, L = InOrder(S, R)
    PROVE  /\ L \in Seq(S) /\ Len(L) = Cardinality(S) /\ Cardinality(S) \in Nat
           /\ \A m, n \in 1..Len(L) : m < n <=> <<L[m], L[n]>> \in R
           /\ \A x \in S : \E n \in 1..Len(L) : L[n] = x
<1> DEFINE rank == [i \in S |-> Cardinality({j \in S : <<j, i>> \in R})]
           at(n) == CHOOSE i \in S : rank[i] = n - 1
<1>1. Cardinality(S) \in Nat BY FS_CardinalityType
<1>2. /\ \A i \in S : rank[i] \in 0..(Cardinality(S) - 1)
      /\ \A i, j \in S : <<i, j>> \in R <=> rank[i] < rank[j]
      /\ \A n \in 1..Cardinality(S) : \E i \in S : rank[i] = n - 1
      BY RanksAreOnto
<1>3. L = [n \in 1..Cardinality(S) |-> at(n)]
  <2>1. ASSUME NEW n
        PROVE  (CHOOSE x \in S : Cardinality({y \in S : <<y, x>> \in R}) = n - 1) = at(n)
    <3>1. \A x : (x \in S /\ Cardinality({y \in S : <<y, x>> \in R}) = n - 1)
                   <=> (x \in S /\ rank[x] = n - 1)
          OBVIOUS
    <3> QED BY <3>1
  <2>2. L = [n \in 1..Cardinality(S) |->
               CHOOSE x \in S : Cardinality({y \in S : <<y, x>> \in R}) = n - 1]
        BY DEF InOrder
  <2> HIDE DEF at
  <2> QED BY <2>1, <2>2
<1>4. ASSUME NEW n \in 1..Cardinality(S) PROVE at(n) \in S /\ rank[at(n)] = n - 1
  <2> HIDE DEF rank
  <2> QED BY <1>2
<1> HIDE DEF at, rank
<1>5. L \in Seq(S) /\ Len(L) = Cardinality(S) /\ \A n \in 1..Len(L) : L[n] = at(n)
  <2>1. L \in [1..Cardinality(S) -> S] BY <1>3, <1>4
  <2> QED BY <1>1, <1>3, <2>1
<1>6. ASSUME NEW m \in 1..Len(L), NEW n \in 1..Len(L)
      PROVE  m < n <=> <<L[m], L[n]>> \in R
  <2>1. /\ at(m) \in S /\ at(n) \in S /\ rank[at(m)] = m - 1 /\ rank[at(n)] = n - 1
        /\ L[m] = at(m) /\ L[n] = at(n)
        BY <1>4, <1>5
  <2>2. <<at(m), at(n)>> \in R <=> rank[at(m)] < rank[at(n)] BY <1>2, <2>1
  <2>3. m \in Nat /\ n \in Nat BY <1>1, <1>5
  <2>4. m < n <=> rank[at(m)] < rank[at(n)] BY <2>1, <2>3
  <2> QED BY <2>1, <2>2, <2>4
<1>7. ASSUME NEW x \in S PROVE \E n \in 1..Len(L) : L[n] = x
  <2> DEFINE n == rank[x] + 1
  <2>1. n \in 1..Cardinality(S) /\ rank[x] = n - 1 /\ rank[x] \in Nat BY <1>1, <1>2
  <2>2. at(n) \in S /\ rank[at(n)] = rank[x] BY <1>4, <2>1
  <2>3. <<at(n), x>> \notin R /\ <<x, at(n)>> \notin R
    <3>1. ~ (rank[x] < rank[x]) BY <2>1
    <3> HIDE DEF n
    <3> QED BY <1>2, <2>2, <3>1
  <2> HIDE DEF n
  <2>4. at(n) = x BY <2>2, <2>3
  <2> QED BY <1>5, <2>1, <2>4
<1> QED BY <1>1, <1>5, <1>6, <1>7

(* The numbers of a finite set in the order of their values.               *)
LEMMA AscendingLists ==
    ASSUME NEW numbers \in SUBSET Nat, IsFiniteSet(numbers),
           NEW L, L = Ascending(numbers)
    PROVE  /\ L \in Seq(numbers) /\ Len(L) = Cardinality(numbers)
           /\ Cardinality(numbers) \in Nat
           /\ \A m, n \in 1..Len(L) : m < n <=> L[m] < L[n]
           /\ \A x \in numbers : \E n \in 1..Len(L) : L[n] = x
<1> DEFINE S == numbers
           R == {pair \in S \X S : pair[1] < pair[2]}
<1>1. \A i, j \in S : <<i, j>> \in R <=> i < j OBVIOUS
<1>2. \A i \in S : i \in Nat OBVIOUS
<1>3. L = InOrder(S, R) /\ IsFiniteSet(S) BY DEF Ascending
<1> HIDE DEF R
<1>4. /\ \A i \in S : <<i, i>> \notin R
      /\ \A i, j \in S : i = j \/ <<i, j>> \in R \/ <<j, i>> \in R
      /\ \A i, j, k \in S : <<i, j>> \in R /\ <<j, k>> \in R => <<i, k>> \in R
      BY <1>1, <1>2
<1>5. /\ L \in Seq(S) /\ Len(L) = Cardinality(S) /\ Cardinality(S) \in Nat
      /\ \A m, n \in 1..Len(L) : m < n <=> <<L[m], L[n]>> \in R
      /\ \A x \in S : \E n \in 1..Len(L) : L[n] = x
  <2> HIDE DEF S
  <2> QED BY <1>3, <1>4, InOrderLists
<1>6. \A n \in 1..Len(L) : L[n] \in S BY <1>5, ElementOfSeq
<1>7. \A m, n \in 1..Len(L) : m < n <=> L[m] < L[n] BY <1>1, <1>5, <1>6
<1> QED BY <1>5, <1>7

-----------------------------------------------------------------------------
(* The journal and the page that reads it.                                 *)

EntriesTyped == entries \in Seq([at : Nat, class : Class])

Id == DOMAIN entries

(* occurred_at and id order any two events.                                *)
LEMMA JournalOrder ==
    ASSUME EntriesTyped, NEW i \in Id, NEW j \in Id
    PROVE  /\ ~ Precedes(i, i)
           /\ i = j \/ Precedes(i, j) \/ Precedes(j, i)
           /\ \A k \in Id : Precedes(i, j) /\ Precedes(j, k) => Precedes(i, k)
<1>1. ASSUME NEW n \in Id PROVE n \in Nat /\ entries[n].at \in Nat
  <2>1. Id = 1..Len(entries) /\ Len(entries) \in Nat BY DEF EntriesTyped, Id
  <2>2. n \in Nat BY <2>1
  <2>3. entries[n] \in [at : Nat, class : Class]
    <3>1. n \in 1..Len(entries) BY <2>1
    <3> QED BY <3>1, ElementOfSeq DEF EntriesTyped
  <2>4. entries[n].at \in Nat BY <2>3
  <2> QED BY <2>2, <2>4
<1>2. ASSUME NEW k \in Id, Precedes(i, j), Precedes(j, k) PROVE Precedes(i, k)
  <2>1. /\ i \in Nat /\ j \in Nat /\ k \in Nat /\ entries[i].at \in Nat
        /\ entries[j].at \in Nat /\ entries[k].at \in Nat
        BY <1>1
  <2> QED BY <1>2, <2>1 DEF Precedes
<1>3. /\ i \in Nat /\ j \in Nat /\ entries[i].at \in Nat /\ entries[j].at \in Nat
      BY <1>1
<1>4. ~ Precedes(i, i) BY <1>3 DEF Precedes
<1>5. i = j \/ Precedes(i, j) \/ Precedes(j, i) BY <1>3 DEF Precedes
<1> QED BY <1>2, <1>4, <1>5

(* list(): every event that matches, once and in order.                    *)
LEMMA ListedInOrder ==
    ASSUME EntriesTyped, NEW filter, NEW L, L = Listed(filter)
    PROVE  /\ L \in Seq(Id)
           /\ \A n \in 1..Len(L) : Matches(filter, L[n])
           /\ \A m, n \in 1..Len(L) : m < n <=> Precedes(L[m], L[n])
           /\ \A i \in Id : Matches(filter, i) => \E n \in 1..Len(L) : L[n] = i
<1> DEFINE S == {i \in Id : Matches(filter, i)}
           R == {pair \in S \X S : Precedes(pair[1], pair[2])}
<1>1. IsFiniteSet(S)
  <2>1. Id = 1..Len(entries) /\ Len(entries) \in Nat BY DEF Id, EntriesTyped
  <2>2. IsFiniteSet(Id) BY <2>1, FS_Interval
  <2>3. S \in SUBSET Id OBVIOUS
  <2> HIDE DEF S
  <2> QED BY <2>2, <2>3, FS_Subset
<1>2. \A i, j \in S : <<i, j>> \in R <=> Precedes(i, j) OBVIOUS
<1>3. \A i : i \in S <=> i \in Id /\ Matches(filter, i) OBVIOUS
<1>4. L = InOrder(S, R) BY DEF Listed, Id
<1> HIDE DEF S, R
<1>5. /\ \A i \in S : <<i, i>> \notin R
      /\ \A i, j \in S : i = j \/ <<i, j>> \in R \/ <<j, i>> \in R
      /\ \A i, j, k \in S : <<i, j>> \in R /\ <<j, k>> \in R => <<i, k>> \in R
      BY <1>2, <1>3, JournalOrder
<1>6. /\ L \in Seq(S)
      /\ \A m, n \in 1..Len(L) : m < n <=> <<L[m], L[n]>> \in R
      /\ \A x \in S : \E n \in 1..Len(L) : L[n] = x
      BY <1>1, <1>4, <1>5, InOrderLists
<1>7. \A n \in 1..Len(L) : L[n] \in S BY <1>6, ElementOfSeq
<1>8. L \in Seq(Id)
  <2>1. S \subseteq Id BY <1>3
  <2> QED BY <1>6, <2>1
<1> QED BY <1>2, <1>3, <1>6, <1>7, <1>8

(* An answer to a request for what comes after `from': what it lists        *)
(* matches, once and in order, and leaves out nothing of what was known     *)
(* and lies between its ends.                                               *)
Piece(rows, next, filter, from, known) ==
    /\ \A i \in 1..Len(rows) : Matches(filter, rows[i])
    /\ \A i, j \in 1..Len(rows) : i < j => Precedes(rows[i], rows[j])
    /\ from # TheEnd => \A i \in 1..Len(rows) : Precedes(from, rows[i])
    /\ \A id \in known :
          /\ Matches(filter, id)
          /\ from = TheEnd \/ Precedes(from, id)
          /\ next = TheEnd \/ \E i \in 1..Len(rows) : Precedes(id, rows[i])
          => \E i \in 1..Len(rows) : rows[i] = id
    /\ next # TheEnd => rows # <<>> /\ rows[Len(rows)] = next

Cursor == {TheEnd} \cup Id

(* Where an answer starts.                                                 *)
LEMMA AfterFacts ==
    ASSUME EntriesTyped, NEW filter, NEW before \in Cursor,
           NEW L, L = Listed(filter), NEW k, k = After(L, before)
    PROVE  /\ k \in 0..Len(L)
           /\ before = TheEnd => k = 0
           /\ before # TheEnd /\ Matches(filter, before) => k >= 1 /\ L[k] = before
<1>1. /\ L \in Seq(Id) /\ Len(L) \in Nat
      /\ \A m, n \in 1..Len(L) : m < n <=> Precedes(L[m], L[n])
      /\ \A i \in Id : Matches(filter, i) => \E n \in 1..Len(L) : L[n] = i
      BY ListedInOrder
<1>2. Id = 1..Len(entries) /\ Len(entries) \in Nat BY DEF EntriesTyped, Id
<1> DEFINE I == {n \in 1..Len(L) : L[n] = before}
<1>3. k = IF I # {} THEN Min(I) ELSE 0 BY DEF After, SelectInSeq
<1>4. ASSUME NEW n \in I, NEW m \in I PROVE m = n
  <2>1. before \in Id
    <3>1. L[n] \in Id BY <1>1, ElementOfSeq
    <3> QED BY <3>1
  <2>2. ~ (m < n) /\ ~ (n < m)
    <3>1. ~ Precedes(before, before) BY <2>1, JournalOrder
    <3> QED BY <1>1, <3>1
  <2>3. m \in Nat /\ n \in Nat BY <1>1
  <2> QED BY <2>2, <2>3
<1>5. CASE I = {}
  <2>1. k = 0 BY <1>3, <1>5
  <2>2. ~ (before # TheEnd /\ Matches(filter, before))
    <3>1. before \in Cursor OBVIOUS
    <3> QED BY <1>1, <1>5, <3>1 DEF Cursor
  <2> QED BY <1>1, <2>1, <2>2
<1>6. CASE I # {}
  <2>1. PICK n \in I : TRUE BY <1>6
  <2>2. I = {n} BY <1>4, <2>1
  <2>3. n \in Nat /\ n \in 1..Len(L) /\ L[n] = before BY <1>1
  <2>4. before # TheEnd
    <3>1. L[n] \in Id BY <1>1, <2>3, ElementOfSeq
    <3> QED BY <1>2, <2>3, <3>1 DEF TheEnd
  <2> HIDE DEF I
  <2>5. Min(I) = n BY <2>2, <2>3 DEF Min
  <2>6. k = n BY <1>3, <1>6, <2>5
  <2> QED BY <1>1, <2>3, <2>4, <2>6
<1> QED BY <1>5, <1>6

(* The events of an answer are those of the list after the cursor.         *)
LEMMA PageShape ==
    ASSUME EntriesTyped, NEW filter, NEW before \in Cursor,
           NEW L, L = Listed(filter), NEW k, k = After(L, before),
           NEW rows, NEW next,
           rows = PageOf(filter, before).rows, next = PageOf(filter, before).next
    PROVE  /\ rows \in Seq(Id) /\ next \in Cursor
           /\ Len(rows) \in Nat /\ Len(rows) <= Len(L) - k
           /\ \A i \in 1..Len(rows) : rows[i] = L[k + i]
           /\ next = TheEnd => Len(rows) = Len(L) - k
           /\ next # TheEnd => Len(rows) = PageSize /\ next = rows[PageSize]
<1> DEFINE available == SubSeq(L, k + 1, Len(L))
<1>1. L \in Seq(Id) /\ Len(L) \in Nat BY ListedInOrder
<1>2. k \in Nat /\ k <= Len(L)
  <2>1. k \in 0..Len(L) BY AfterFacts
  <2> QED BY <1>1, <2>1
<1>3. PageSize \in Nat \ {0} BY JournalAssumption
<1>4. /\ rows = IF Len(available) > PageSize THEN SubSeq(available, 1, PageSize)
                ELSE available
      /\ next = IF Len(available) > PageSize THEN available[PageSize] ELSE TheEnd
      BY DEF PageOf
<1>5. /\ available \in Seq(Id) /\ Len(available) = Len(L) - k
      /\ \A i \in 1..Len(available) : available[i] = L[k + i]
  <2>1. \A i \in k + 1..Len(L) : L[i] \in Id BY <1>1, <1>2, ElementOfSeq
  <2>2. k + 1 \in Nat BY <1>2
  <2>3. available \in Seq(Id) /\ Len(available) = Len(L) - k
        BY <1>1, <1>2, <2>1, <2>2
  <2>4. \A i \in 1..Len(available) : available[i] = L[k + i]
        BY <1>1, <1>2, <2>1, <2>2, <2>3, SMTT(60)
  <2> QED BY <2>3, <2>4
<1> HIDE DEF available
<1>6. CASE Len(available) > PageSize
  <2> DEFINE cut == SubSeq(available, 1, PageSize)
  <2>1. \A i \in 1..PageSize : available[i] \in Id
    <3>1. \A i \in 1..PageSize : i \in 1..Len(available) BY <1>1, <1>2, <1>3, <1>5, <1>6
    <3> QED BY <1>5, <3>1, ElementOfSeq
  <2>2. /\ cut \in Seq(Id) /\ Len(cut) = PageSize
        /\ \A i \in 1..PageSize : cut[i] = available[i]
        BY <1>3, <1>5, <1>6, <2>1
  <2>3. next = available[PageSize] /\ next \in Id
    <3>1. PageSize \in 1..PageSize BY <1>3
    <3> QED BY <1>4, <1>6, <2>1, <3>1
  <2>4. Id = 1..Len(entries) /\ Len(entries) \in Nat BY DEF EntriesTyped, Id
  <2>5. next # TheEnd BY <2>3, <2>4 DEF TheEnd
  <2>6. rows = cut BY <1>4, <1>6
  <2> HIDE DEF cut
  <2>7. \A i \in 1..Len(rows) : rows[i] = L[k + i]
        BY <1>1, <1>2, <1>3, <1>5, <1>6, <2>2, <2>6
  <2>8. Len(rows) \in Nat /\ Len(rows) <= Len(L) - k
        BY <1>1, <1>2, <1>3, <1>5, <1>6, <2>2, <2>6
  <2>9. Len(rows) = PageSize /\ next = rows[PageSize] BY <1>3, <2>2, <2>3, <2>6
  <2> QED BY <2>2, <2>3, <2>5, <2>6, <2>7, <2>8, <2>9 DEF Cursor
<1>7. CASE ~ (Len(available) > PageSize)
  <2>1. rows = available /\ next = TheEnd BY <1>4, <1>7
  <2>2. Len(rows) \in Nat /\ Len(rows) = Len(L) - k BY <1>1, <1>2, <1>5, <2>1
  <2>3. \A i \in 1..Len(rows) : rows[i] = L[k + i] BY <1>5, <2>1
  <2>4. rows \in Seq(Id) /\ next \in Cursor BY <1>5, <2>1 DEF Cursor
  <2> QED BY <2>1, <2>2, <2>3, <2>4
<1> QED BY <1>6, <1>7

(* list(): its answer is a piece of the journal as it is.                  *)
LEMMA PageIsPiece ==
    ASSUME EntriesTyped, NEW filter, NEW before \in Cursor,
           before # TheEnd => Matches(filter, before),
           NEW rows, NEW next,
           rows = PageOf(filter, before).rows, next = PageOf(filter, before).next
    PROVE  Piece(rows, next, filter, before, Id)
<1> DEFINE L == Listed(filter)
           k == After(L, before)
<1>1. /\ L \in Seq(Id) /\ Len(L) \in Nat
      /\ \A n \in 1..Len(L) : Matches(filter, L[n])
      /\ \A m, n \in 1..Len(L) : m < n <=> Precedes(L[m], L[n])
      /\ \A i \in Id : Matches(filter, i) => \E n \in 1..Len(L) : L[n] = i
      BY ListedInOrder, SMTT(60)
<1>2. /\ k \in 0..Len(L)
      /\ before = TheEnd => k = 0
      /\ before # TheEnd => k >= 1 /\ L[k] = before
      BY AfterFacts
<1>3. PageSize \in Nat \ {0} BY JournalAssumption
<1>7. /\ Len(rows) \in Nat /\ Len(rows) <= Len(L) - k
      /\ \A i \in 1..Len(rows) : rows[i] = L[k + i]
      /\ next = TheEnd => Len(rows) = Len(L) - k
      /\ next # TheEnd => Len(rows) = PageSize /\ next = rows[PageSize]
      BY PageShape
<1> HIDE DEF L, k
<1>5. k \in Nat /\ k <= Len(L) BY <1>1, <1>2
<1>8. ASSUME NEW i \in 1..Len(rows)
      PROVE  i \in Nat /\ k + i \in 1..Len(L) /\ rows[i] = L[k + i]
      BY <1>1, <1>5, <1>7
<1>9. \A i \in 1..Len(rows) : Matches(filter, rows[i]) BY <1>1, <1>8
<1>10. ASSUME NEW i \in 1..Len(rows), NEW j \in 1..Len(rows), i < j
       PROVE  Precedes(rows[i], rows[j])
  <2>1. i \in Nat /\ j \in Nat /\ k + i < k + j BY <1>5, <1>8, <1>10
  <2> QED BY <1>1, <1>8, <2>1
<1>11. ASSUME before # TheEnd, NEW i \in 1..Len(rows)
       PROVE  Precedes(before, rows[i])
  <2>1. k \in 1..Len(L) /\ L[k] = before BY <1>1, <1>2, <1>5, <1>11
  <2>2. i \in Nat /\ i >= 1 /\ k < k + i BY <1>5, <1>7
  <2> QED BY <1>1, <1>8, <2>1, <2>2
<1>12. ASSUME NEW id \in Id, Matches(filter, id),
              before = TheEnd \/ Precedes(before, id),
              next = TheEnd \/ \E i \in 1..Len(rows) : Precedes(id, rows[i])
       PROVE  \E i \in 1..Len(rows) : rows[i] = id
  <2>1. PICK n \in 1..Len(L) : L[n] = id BY <1>1, <1>12
  <2>2. n \in Nat /\ n >= 1 /\ n <= Len(L) BY <1>1
  <2>3. n > k
    <3>1. CASE before = TheEnd BY <1>2, <2>2, <3>1
    <3>2. CASE before # TheEnd
      <4>1. k \in 1..Len(L) /\ L[k] = before BY <1>1, <1>2, <1>5, <3>2
      <4>2. k < n BY <1>1, <1>12, <2>1, <3>2, <4>1
      <4> QED BY <1>5, <2>2, <4>2
    <3> QED BY <3>1, <3>2
  <2>4. n - k \in 1..Len(rows)
    <3>1. CASE next = TheEnd BY <1>1, <1>5, <1>7, <2>2, <2>3, <3>1
    <3>2. CASE next # TheEnd
      <4>1. PICK i \in 1..Len(rows) : Precedes(id, rows[i]) BY <1>12, <3>2
      <4>2. i \in Nat /\ i <= Len(rows) BY <1>7
      <4>3. k + i \in 1..Len(L) /\ rows[i] = L[k + i] BY <1>8
      <4>4. Precedes(L[n], L[k + i]) BY <2>1, <4>1, <4>3
      <4>5. n < k + i BY <1>1, <4>3, <4>4
      <4> QED BY <1>5, <1>7, <2>2, <2>3, <4>2, <4>5
    <3> QED BY <3>1, <3>2
  <2>5. rows[n - k] = L[n] BY <1>5, <1>8, <2>2, <2>4
  <2> QED BY <2>1, <2>4, <2>5
<1>13. next # TheEnd => rows # <<>> /\ rows[Len(rows)] = next BY <1>3, <1>7
<1> QED BY <1>9, <1>10, <1>11, <1>12, <1>13 DEF Piece

(* Two pieces, the second of what comes after the first, are one.          *)
LEMMA PiecesJoin ==
    ASSUME EntriesTyped, NEW rows \in Seq(Id), NEW more \in Seq(Id),
           NEW from \in Id, NEW next \in Cursor, NEW filter,
           NEW known, NEW later, known \subseteq later, later \subseteq Id,
           Piece(rows, from, filter, TheEnd, known),
           Piece(more, next, filter, from, later)
    PROVE  Piece(rows \o more, next, filter, TheEnd, known)
<1> DEFINE all == rows \o more
<1>1. /\ Len(rows) \in Nat /\ Len(more) \in Nat
      /\ \A i \in 1..Len(rows) : rows[i] \in Id
      /\ \A i \in 1..Len(more) : more[i] \in Id
      BY ElementOfSeq
<1>2. Id = 1..Len(entries) /\ Len(entries) \in Nat BY DEF EntriesTyped, Id
<1>3. from # TheEnd BY <1>2 DEF TheEnd
<1>4. /\ rows # <<>> /\ rows[Len(rows)] = from /\ Len(rows) \in 1..Len(rows)
  <2>1. rows # <<>> /\ rows[Len(rows)] = from BY <1>3 DEF Piece
  <2> QED BY <1>1, <2>1, EmptySeq
<1>5. /\ Len(all) = Len(rows) + Len(more)
      /\ \A i \in 1..Len(rows) : all[i] = rows[i]
      /\ \A i \in 1..Len(more) : all[Len(rows) + i] = more[i]
      OBVIOUS
<1>6. ASSUME NEW i \in 1..Len(all)
      PROVE  \/ i \in 1..Len(rows) /\ all[i] = rows[i]
             \/ i - Len(rows) \in 1..Len(more) /\ all[i] = more[i - Len(rows)]
  <2>1. i \in Nat BY <1>1, <1>5
  <2>2. CASE i <= Len(rows) BY <1>1, <1>5, <2>1, <2>2
  <2>3. CASE ~ (i <= Len(rows))
    <3>1. i - Len(rows) \in 1..Len(more) BY <1>1, <1>5, <2>1, <2>3
    <3>2. i = Len(rows) + (i - Len(rows)) BY <1>1, <2>1
    <3> QED BY <1>5, <3>1, <3>2
  <2> QED BY <2>2, <2>3
<1>7. ASSUME NEW i \in 1..Len(rows)
      PROVE  rows[i] = from \/ Precedes(rows[i], from)
  <2>1. i \in Nat /\ (i = Len(rows) \/ i < Len(rows)) BY <1>1
  <2> QED BY <1>4, <2>1 DEF Piece
<1>8. \A i \in 1..Len(more) : Precedes(from, more[i]) BY <1>3 DEF Piece
<1> HIDE DEF all
<1>9. \A i \in 1..Len(all) : Matches(filter, all[i]) BY <1>6 DEF Piece
<1>10. ASSUME NEW i \in 1..Len(all), NEW j \in 1..Len(all), i < j
       PROVE  Precedes(all[i], all[j])
  <2>1. i \in Nat /\ j \in Nat BY <1>1, <1>5
  <2>2. CASE j \in 1..Len(rows)
    <3>1. i \in 1..Len(rows) BY <1>1, <1>10, <2>1, <2>2
    <3> QED BY <1>5, <1>10, <2>2, <3>1 DEF Piece
  <2>3. CASE j - Len(rows) \in 1..Len(more) /\ all[j] = more[j - Len(rows)]
    <3>1. CASE i \in 1..Len(rows) /\ all[i] = rows[i]
      <4>1. Precedes(from, all[j]) BY <1>8, <2>3
      <4>2. all[i] = from \/ Precedes(all[i], from) BY <1>7, <3>1
      <4>3. all[i] \in Id /\ all[j] \in Id BY <1>1, <2>3, <3>1
      <4> QED BY <4>1, <4>2, <4>3, JournalOrder
    <3>2. CASE i - Len(rows) \in 1..Len(more) /\ all[i] = more[i - Len(rows)]
      <4>1. i - Len(rows) < j - Len(rows) BY <1>1, <1>10, <2>1
      <4> QED BY <2>3, <3>2, <4>1 DEF Piece
    <3> QED BY <1>6, <3>1, <3>2
  <2> QED BY <1>6, <2>2, <2>3
<1>11. ASSUME NEW id \in known, Matches(filter, id),
              next = TheEnd \/ \E i \in 1..Len(all) : Precedes(id, all[i])
       PROVE  \E i \in 1..Len(all) : all[i] = id
  <2>1. id \in Id /\ id \in later OBVIOUS
  <2>2. CASE id = from
    <3>1. Len(rows) \in 1..Len(all) /\ all[Len(rows)] = id BY <1>1, <1>4, <1>5, <2>2
    <3> QED BY <3>1
  <2>3. CASE Precedes(id, from)
    <3>1. \E i \in 1..Len(rows) : Precedes(id, rows[i]) BY <1>4, <2>3
    <3>2. PICK i \in 1..Len(rows) : rows[i] = id BY <1>11, <3>1 DEF Piece
    <3>3. i \in 1..Len(all) /\ all[i] = id BY <1>1, <1>5, <3>2
    <3> QED BY <3>3
  <2>4. CASE Precedes(from, id)
    <3>1. next = TheEnd \/ \E i \in 1..Len(more) : Precedes(id, more[i])
      <4> SUFFICES ASSUME next # TheEnd
                   PROVE  \E i \in 1..Len(more) : Precedes(id, more[i])
          OBVIOUS
      <4>1. PICK i \in 1..Len(all) : Precedes(id, all[i]) BY <1>11
      <4>2. CASE i \in 1..Len(rows) /\ all[i] = rows[i]
        <5>1. all[i] \in Id /\ (all[i] = from \/ Precedes(all[i], from))
              BY <1>1, <1>7, <4>2
        <5>2. Precedes(id, from) BY <2>1, <4>1, <5>1, JournalOrder
        <5>3. Precedes(id, id) BY <2>1, <2>4, <5>2, JournalOrder
        <5> QED BY <2>1, <5>3, JournalOrder
      <4>3. CASE i - Len(rows) \in 1..Len(more) /\ all[i] = more[i - Len(rows)]
            BY <4>1, <4>3
      <4> QED BY <1>6, <4>2, <4>3
    <3>2. PICK i \in 1..Len(more) : more[i] = id
          BY <1>11, <2>1, <2>4, <3>1 DEF Piece
    <3>3. Len(rows) + i \in 1..Len(all) /\ all[Len(rows) + i] = id
          BY <1>1, <1>5, <3>2
    <3> QED BY <3>3
  <2> QED BY <2>1, <2>2, <2>3, <2>4, JournalOrder
<1>12. ASSUME next # TheEnd PROVE all # <<>> /\ all[Len(all)] = next
  <2>1. more # <<>> /\ more[Len(more)] = next BY <1>12 DEF Piece
  <2>2. Len(more) \in 1..Len(more) BY <1>1, <2>1, EmptySeq
  <2>3. all[Len(all)] = next BY <1>5, <2>1, <2>2
  <2>4. Len(all) # 0 BY <1>1, <1>5, <2>2
  <2> QED BY <2>3, <2>4
<1> QED BY <1>9, <1>10, <1>11, <1>12 DEF Piece, all

LoadRow == [filter : Filter, before : Cursor, state : {"asked", "served", "done"},
            rows : Seq(Id), next : Cursor, known : SUBSET Id]
PageRow == [filter : Filter, rows : Seq(Id), next : Cursor, busy : BOOLEAN]
MarksRow == [filter : Filter, known : SUBSET Id, mixed : BOOLEAN]

JournalTyped ==
    /\ EntriesTyped /\ today \in Nat
    /\ page \in PageRow /\ loads \in Seq(LoadRow) /\ marks \in MarksRow

(* The rows of the page are a piece of the journal from its beginning,     *)
(* unless pieces of two filters were joined.                               *)
PageFits ==
    ~ marks.mixed =>
        Piece(page.rows, page.next, marks.filter, TheEnd, marks.known)

(* The newest request continues the page as it is, and its answer is a     *)
(* piece of the journal after it.                                          *)
NewestFits(load) ==
    /\ load.state \in {"asked", "served"} /\ load.before # TheEnd =>
          /\ load.before = page.next
          /\ ~ marks.mixed => load.filter = marks.filter
    /\ load.state = "served" =>
          /\ load.before = TheEnd \/ ~ marks.mixed =>
                Piece(load.rows, load.next, load.filter, load.before, load.known)
          /\ load.before # TheEnd => marks.known \subseteq load.known

JournalInv ==
    /\ JournalTyped /\ PageFits
    /\ loads # <<>> => NewestFits(loads[Len(loads)])

LEMMA JournalInvSuffices == JournalInv => JournalIsWhole
<1> SUFFICES ASSUME JournalInv, ~ marks.mixed PROVE JournalIsWhole
    BY DEF JournalIsWhole
<1> DEFINE shown == {page.rows[i] : i \in DOMAIN page.rows}
<1>1. Piece(page.rows, page.next, marks.filter, TheEnd, marks.known)
      BY DEF JournalInv, PageFits
<1>2. DOMAIN page.rows = 1..Len(page.rows)
      BY DEF JournalInv, JournalTyped, PageRow
<1>3. \A id \in shown : Matches(marks.filter, id) BY <1>1, <1>2 DEF Piece
<1>4. \A i, j \in DOMAIN page.rows : i < j => Precedes(page.rows[i], page.rows[j])
      BY <1>1, <1>2 DEF Piece
<1>5. ASSUME NEW id \in marks.known, Matches(marks.filter, id),
             page.next = TheEnd \/ \E last \in shown : Precedes(id, last)
      PROVE  id \in shown
  <2>1. page.next = TheEnd \/ \E i \in 1..Len(page.rows) : Precedes(id, page.rows[i])
        BY <1>2, <1>5
  <2>2. \E i \in 1..Len(page.rows) : page.rows[i] = id BY <1>1, <1>5, <2>1 DEF Piece
  <2> QED BY <1>2, <2>2
<1> QED BY <1>3, <1>4, <1>5 DEF JournalIsWhole

LEMMA JournalStarts == JournalInit => JournalInv
<1> SUFFICES ASSUME JournalInit PROVE JournalInv
    OBVIOUS
<1> USE DEF JournalInit
<1>1. JournalTyped
  <2>1. entries \in Seq([at : Nat, class : Class]) OBVIOUS
  <2> QED BY <2>1 DEF JournalTyped, EntriesTyped, PageRow, MarksRow, Filter, Cursor
<1>2. PageFits BY DEF PageFits, Piece
<1> QED BY <1>1, <1>2 DEF JournalInv

(* A piece stays one when the journal only grows.                          *)
LEMMA PieceKept ==
    ASSUME \A i \in Id : entries'[i] = entries[i],
           NEW rows \in Seq(Id), NEW next, NEW filter, NEW from \in Cursor,
           NEW known \in SUBSET Id, Piece(rows, next, filter, from, known)
    PROVE  Piece(rows, next, filter, from, known)'
<1>1. \A i \in 1..Len(rows) : rows[i] \in Id BY ElementOfSeq
<1>2. \A i \in Id : Matches(filter, i) <=> Matches(filter, i)' BY DEF Matches
<1>3. \A i, j \in Id : Precedes(i, j) <=> Precedes(i, j)' BY DEF Precedes
<1>4. from # TheEnd => from \in Id BY DEF Cursor
<1>5. \A id \in known : id \in Id OBVIOUS
<1> QED BY <1>1, <1>2, <1>3, <1>4, <1>5 DEF Piece

LEMMA JournalGrows ==
    ASSUME JournalInv, EntriesTyped', Id \subseteq Id',
           \A i \in Id : entries'[i] = entries[i],
           today' \in Nat, UNCHANGED <<page, loads, marks>>
    PROVE  JournalInv'
<1> USE DEF JournalInv, JournalTyped
<1>1. JournalTyped'
  <2>1. Cursor \subseteq Cursor' BY DEF Cursor
  <2>2. page' \in PageRow' /\ marks' \in MarksRow'
    <3>1. page.rows \in Seq(Id') BY DEF PageRow
    <3> QED BY <2>1, <3>1 DEF PageRow, MarksRow
  <2>3. LoadRow \subseteq LoadRow' BY <2>1 DEF LoadRow
  <2>4. loads' \in Seq(LoadRow') BY <2>3
  <2> QED BY <2>2, <2>4
<1>2. PageFits'
  <2>1. page.rows \in Seq(Id) /\ marks.known \in SUBSET Id BY DEF PageRow, MarksRow
  <2>2. TheEnd \in Cursor BY DEF Cursor
  <2> SUFFICES ASSUME ~ marks.mixed
               PROVE  Piece(page.rows, page.next, marks.filter, TheEnd, marks.known)'
      BY DEF PageFits
  <2>3. Piece(page.rows, page.next, marks.filter, TheEnd, marks.known)
        BY DEF PageFits
  <2>4. \A rows, next, filter, known :
          /\ rows = page.rows /\ next = page.next /\ filter = marks.filter
          /\ known = marks.known
          => Piece(rows, next, filter, TheEnd, known)'
        BY <2>1, <2>2, <2>3, PieceKept
  <2> QED BY <2>4, SMTT(60) DEF Piece, Matches, Precedes
<1>3. ASSUME loads # <<>> PROVE NewestFits(loads[Len(loads)])'
  <2>1. PICK load : load = loads[Len(loads)] OBVIOUS
  <2>2. load \in LoadRow /\ NewestFits(load)
    <3>1. Len(loads) \in 1..Len(loads) BY <1>3, EmptySeq
    <3> QED BY <1>3, <2>1, <3>1, ElementOfSeq
  <2>3. /\ load.rows \in Seq(Id) /\ load.known \in SUBSET Id /\ load.before \in Cursor
        BY <2>2 DEF LoadRow
  <2>4. ASSUME load.state = "served", load.before = TheEnd \/ ~ marks.mixed
        PROVE  Piece(load.rows, load.next, load.filter, load.before, load.known)'
        BY <2>2, <2>3, <2>4, PieceKept DEF NewestFits
  <2>5. NewestFits(load)' BY <2>2, <2>4 DEF NewestFits
  <2>6. load = loads'[Len(loads')] BY <2>1
  <2> QED BY <2>5, <2>6
<1> QED BY <1>1, <1>2, <1>3

(* Where the journal stays as it is, its pieces do.                        *)
LEMMA RequestMoves ==
    ASSUME JournalInv, UNCHANGED <<entries, today>>,
           page' \in PageRow, loads' \in Seq(LoadRow), marks' \in MarksRow,
           ~ marks'.mixed =>
               Piece(page'.rows, page'.next, marks'.filter, TheEnd, marks'.known),
           NEW load, load = loads'[Len(loads')],
           load.state \in {"asked", "served"} /\ load.before # TheEnd =>
               /\ load.before = page'.next
               /\ ~ marks'.mixed => load.filter = marks'.filter,
           load.state = "served" =>
               /\ load.before = TheEnd \/ ~ marks'.mixed =>
                     Piece(load.rows, load.next, load.filter, load.before, load.known)
               /\ load.before # TheEnd => marks'.known \subseteq load.known
    PROVE  JournalInv'
<1>1. /\ Id' = Id /\ Cursor' = Cursor /\ LoadRow' = LoadRow
      /\ PageRow' = PageRow /\ MarksRow' = MarksRow
  <2>1. Id' = Id BY DEF Id
  <2>2. Cursor' = Cursor BY <2>1 DEF Cursor
  <2> QED BY <2>1, <2>2 DEF LoadRow, PageRow, MarksRow
<1>2. JournalTyped' BY <1>1 DEF JournalInv, JournalTyped, EntriesTyped
<1>3. ASSUME NEW rows, NEW next, NEW filter, NEW from, NEW known,
             Piece(rows, next, filter, from, known)
      PROVE  Piece(rows, next, filter, from, known)'
  <2>1. \A i : Matches(filter, i) <=> Matches(filter, i)' BY DEF Matches
  <2>2. \A i, j : Precedes(i, j) <=> Precedes(i, j)' BY DEF Precedes
  <2> QED BY <1>3, <2>1, <2>2 DEF Piece
<1>4. PageFits'
  <2> SUFFICES ASSUME ~ marks'.mixed
               PROVE  Piece(page.rows, page.next, marks.filter, TheEnd, marks.known)'
      BY DEF PageFits
  <2>1. \A rows, next, filter, known :
          /\ rows = page'.rows /\ next = page'.next /\ filter = marks'.filter
          /\ known = marks'.known
          => Piece(rows, next, filter, TheEnd, known)'
        BY <1>3
  <2> QED BY <2>1
<1>5. NewestFits(load)' BY <1>3 DEF NewestFits
<1> QED BY <1>2, <1>4, <1>5 DEF JournalInv

LEMMA RequestTypes ==
    ASSUME JournalInv
    PROVE  /\ \A filter \in Filter, before \in Cursor : Query(filter, before) \in LoadRow
           /\ Done \in LoadRow /\ TheEnd \in Cursor
           /\ \A load \in LoadRow : load.rows \in Seq(Id) /\ load.next \in Cursor
                 /\ load.known \in SUBSET Id /\ load.before \in Cursor /\ load.filter \in Filter
           /\ page.rows \in Seq(Id) /\ page.next \in Cursor /\ page.filter \in Filter
           /\ marks.filter \in Filter /\ marks.known \in SUBSET Id /\ marks.mixed \in BOOLEAN
           /\ Len(loads) \in Nat /\ \A n \in DOMAIN loads : loads[n] \in LoadRow
           /\ DOMAIN loads = 1..Len(loads)
           /\ loads # <<>> => NewestFits(loads[Len(loads)])
<1>1. <<>> \in Seq(Id) /\ {} \in SUBSET Id /\ TheEnd \in Cursor BY DEF Cursor
<1>2. "all" \in Filter BY DEF Filter
<1>3. ASSUME NEW filter \in Filter, NEW before \in Cursor
      PROVE  Query(filter, before) \in LoadRow
      BY <1>1 DEF Query, LoadRow
<1>4. Done \in LoadRow
  <2> DEFINE q == Query("all", TheEnd)
  <2>1. q \in LoadRow BY <1>1, <1>2, <1>3
  <2> HIDE DEF q
  <2>2. [q EXCEPT !.state = "done"] \in LoadRow BY <2>1 DEF LoadRow
  <2> QED BY <2>2 DEF Done, q
<1>5. \A load \in LoadRow : load.rows \in Seq(Id) /\ load.next \in Cursor
         /\ load.known \in SUBSET Id /\ load.before \in Cursor /\ load.filter \in Filter
      BY DEF LoadRow
<1>6. /\ page.rows \in Seq(Id) /\ page.next \in Cursor /\ page.filter \in Filter
      /\ marks.filter \in Filter /\ marks.known \in SUBSET Id /\ marks.mixed \in BOOLEAN
      BY DEF JournalInv, JournalTyped, PageRow, MarksRow
<1>7. loads \in Seq(LoadRow) BY DEF JournalInv, JournalTyped
<1>8. Len(loads) \in Nat /\ DOMAIN loads = 1..Len(loads) BY <1>7
<1>9. \A n \in DOMAIN loads : loads[n] \in LoadRow BY <1>7, <1>8, ElementOfSeq
<1> QED BY <1>1, <1>3, <1>4, <1>5, <1>6, <1>8, <1>9 DEF JournalInv

(* A new request takes the place of the newest one.                        *)
LEMMA AsksMoves ==
    ASSUME JournalInv, NEW filter \in Filter, NEW before \in Cursor,
           Asks(filter, before)
    PROVE  /\ page' \in PageRow /\ page'.rows = page.rows /\ page'.next = page.next
           /\ page'.filter = filter
           /\ loads' \in Seq(LoadRow) /\ loads'[Len(loads')] = Query(filter, before)
<1>1. Query(filter, before) \in LoadRow BY RequestTypes
<1>2. loads \in Seq(LoadRow) /\ page \in PageRow BY DEF JournalInv, JournalTyped
<1>3. page' \in PageRow /\ page'.rows = page.rows /\ page'.next = page.next
      /\ page'.filter = filter
      BY <1>2 DEF Asks, PageRow
<1>4. loads' = Append(loads, Query(filter, before)) BY DEF Asks
<1>5. loads' \in Seq(LoadRow) /\ loads'[Len(loads')] = Query(filter, before)
      BY <1>1, <1>2, <1>4, AppendProperties
<1> QED BY <1>3, <1>5

LEMMA AsksAnewStep ==
    ASSUME JournalInv, NEW filter \in Filter, AsksAnew(filter)
    PROVE  JournalInv'
<1> DEFINE load == Query(filter, TheEnd)
<1>1. TheEnd \in Cursor BY RequestTypes
<1>2. Asks(filter, TheEnd) /\ UNCHANGED <<entries, today, marks>> BY DEF AsksAnew
<1>3. /\ page' \in PageRow /\ page'.rows = page.rows /\ page'.next = page.next
      /\ loads' \in Seq(LoadRow) /\ load = loads'[Len(loads')]
      BY <1>1, <1>2, AsksMoves
<1>4. load.state = "asked" /\ load.before = TheEnd BY DEF Query
<1>5. marks' \in MarksRow BY <1>2 DEF JournalInv, JournalTyped
<1>6. ~ marks'.mixed =>
        Piece(page'.rows, page'.next, marks'.filter, TheEnd, marks'.known)
      BY <1>2, <1>3 DEF JournalInv, PageFits
<1> HIDE DEF load
<1> QED BY <1>2, <1>3, <1>4, <1>5, <1>6, RequestMoves

LEMMA ContinuesStep ==
    ASSUME JournalInv, Continues
    PROVE  JournalInv'
<1> DEFINE load == Query(page.filter, page.next)
<1>1. page.next \in Cursor /\ page.filter \in Filter BY RequestTypes
<1>2. /\ Asks(page.filter, page.next) /\ UNCHANGED <<entries, today>>
      /\ marks' = [marks EXCEPT !.mixed = @ \/ page.filter # marks.filter]
      BY DEF Continues
<1>3. /\ page' \in PageRow /\ page'.rows = page.rows /\ page'.next = page.next
      /\ loads' \in Seq(LoadRow) /\ load = loads'[Len(loads')]
      BY <1>1, <1>2, AsksMoves
<1>4. load.state = "asked" /\ load.before = page.next /\ load.filter = page.filter
      BY DEF Query
<1>5. /\ marks' \in MarksRow /\ marks'.known = marks.known
      /\ marks'.filter = marks.filter
      /\ ~ marks'.mixed => ~ marks.mixed /\ page.filter = marks.filter
  <2>1. marks \in MarksRow BY DEF JournalInv, JournalTyped
  <2> QED BY <1>2, <2>1 DEF MarksRow
<1>6. ~ marks'.mixed =>
        Piece(page'.rows, page'.next, marks'.filter, TheEnd, marks'.known)
      BY <1>3, <1>5 DEF JournalInv, PageFits
<1> HIDE DEF load
<1> QED BY <1>2, <1>3, <1>4, <1>5, <1>6, RequestMoves

LEMMA ServesStep ==
    ASSUME JournalInv, NEW n \in DOMAIN loads, Serves(n)
    PROVE  JournalInv'
<1> DEFINE old == loads[n]
           reply == PageOf(old.filter, old.before)
           made == IF n < Len(loads)
                   THEN [Query("all", TheEnd) EXCEPT !.state = "served"]
                   ELSE [old EXCEPT !.state = "served", !.rows = reply.rows,
                                    !.next = reply.next, !.known = DOMAIN entries]
           newest == loads'[Len(loads')]
<1>1. /\ old.state = "asked" /\ loads' = [loads EXCEPT ![n] = made]
      /\ UNCHANGED <<entries, today, page, marks>>
      BY DEF Serves
<1>2. /\ old \in LoadRow /\ n \in 1..Len(loads) /\ Len(loads) \in Nat
      /\ old.before \in Cursor /\ old.filter \in Filter
      BY RequestTypes
<1>3. EntriesTyped BY DEF JournalInv, JournalTyped
<1>4. reply.rows \in Seq(Id) /\ reply.next \in Cursor BY <1>2, <1>3, PageShape
<1> HIDE DEF reply
<1>5. made \in LoadRow
  <2>1. CASE n < Len(loads)
    <3> DEFINE q == Query("all", TheEnd)
    <3>1. q \in LoadRow BY RequestTypes DEF Filter
    <3> HIDE DEF q
    <3>2. [q EXCEPT !.state = "served"] \in LoadRow BY <3>1 DEF LoadRow
    <3> QED BY <2>1, <3>2 DEF q
  <2>2. CASE ~ (n < Len(loads))
    <3>1. made = [old EXCEPT !.state = "served", !.rows = reply.rows,
                             !.next = reply.next, !.known = DOMAIN entries]
          BY <2>2
    <3> HIDE DEF made, old
    <3>2. DOMAIN entries \in SUBSET Id BY DEF Id
    <3> QED BY <1>2, <1>4, <3>1, <3>2 DEF LoadRow
  <2> QED BY <2>1, <2>2
<1>6. loads' \in Seq(LoadRow) /\ Len(loads') = Len(loads)
  <2>1. loads \in Seq(LoadRow) BY DEF JournalInv, JournalTyped
  <2> HIDE DEF made, old
  <2> QED BY <1>1, <1>5, <2>1
<1>7. page' \in PageRow /\ marks' \in MarksRow BY <1>1 DEF JournalInv, JournalTyped
<1>8. ~ marks'.mixed =>
        Piece(page'.rows, page'.next, marks'.filter, TheEnd, marks'.known)
      BY <1>1 DEF JournalInv, PageFits
<1>9. loads # <<>> BY <1>2
<1>10. NewestFits(loads[Len(loads)]) BY <1>9, RequestTypes
<1>11. CASE n < Len(loads)
  <2>1. newest = loads[Len(loads)]
    <3> HIDE DEF made
    <3> QED BY <1>1, <1>2, <1>6, <1>11
  <2>2. NewestFits(newest) BY <1>10, <2>1
  <2> HIDE DEF newest
  <2>3. PICK load : load = newest OBVIOUS
  <2>4. load = loads'[Len(loads')] BY <2>3 DEF newest
  <2> QED BY <1>1, <1>6, <1>7, <1>8, <2>2, <2>3, <2>4, RequestMoves DEF NewestFits
<1>12. CASE n = Len(loads)
  <2>1. newest = made
    <3> HIDE DEF made
    <3> QED BY <1>1, <1>2, <1>6, <1>12
  <2>2. made = [old EXCEPT !.state = "served", !.rows = reply.rows,
                           !.next = reply.next, !.known = DOMAIN entries]
        BY <1>2, <1>12
  <2>3. /\ made.state = "served" /\ made.rows = reply.rows /\ made.next = reply.next
        /\ made.known = Id /\ made.before = old.before /\ made.filter = old.filter
    <3> HIDE DEF made, old
    <3> QED BY <1>2, <2>2 DEF LoadRow, Id
  <2> HIDE DEF made, newest
  <2>4. old.before # TheEnd =>
          /\ old.before = page.next
          /\ ~ marks.mixed => old.filter = marks.filter
        BY <1>1, <1>10, <1>12 DEF NewestFits
  <2>5. ASSUME old.before = TheEnd \/ ~ marks.mixed
        PROVE  Piece(made.rows, made.next, made.filter, made.before, made.known)
    <3>1. ASSUME old.before # TheEnd PROVE Matches(old.filter, old.before)
      <4>1. /\ old.before = page.next /\ old.filter = marks.filter
            /\ Piece(page.rows, page.next, marks.filter, TheEnd, marks.known)
            BY <2>4, <2>5, <3>1 DEF JournalInv, PageFits
      <4>2. /\ page.rows # <<>> /\ page.rows[Len(page.rows)] = page.next
            /\ page.rows \in Seq(Id)
            BY <3>1, <4>1, RequestTypes DEF Piece
      <4>3. Len(page.rows) \in 1..Len(page.rows) BY <4>2, EmptySeq
      <4> QED BY <4>1, <4>2, <4>3 DEF Piece
    <3>2. Piece(reply.rows, reply.next, old.filter, old.before, Id)
          BY <1>2, <1>3, <3>1, PageIsPiece DEF reply
    <3> QED BY <2>3, <3>2
  <2>6. marks'.known \subseteq made.known BY <1>1, <2>3, RequestTypes
  <2>7. PICK load : load = made OBVIOUS
  <2>8. load = loads'[Len(loads')] BY <2>1, <2>7 DEF newest
  <2> QED BY <1>1, <1>6, <1>7, <1>8, <2>3, <2>4, <2>5, <2>6, <2>7, <2>8, RequestMoves
<1> QED BY <1>2, <1>11, <1>12

(* A request that is done with leaves the newest one, or was it.           *)
LEMMA DoneMoves ==
    ASSUME JournalInv, NEW n \in DOMAIN loads, loads' = [loads EXCEPT ![n] = Done]
    PROVE  /\ loads' \in Seq(LoadRow)
           /\ n < Len(loads) =>
                 /\ loads'[Len(loads')] = loads[Len(loads)]
                 /\ NewestFits(loads[Len(loads)])
           /\ n = Len(loads) => loads'[Len(loads')].state = "done"
           /\ n \in Nat /\ Len(loads) \in Nat /\ n <= Len(loads)
<1>1. /\ Done \in LoadRow /\ n \in 1..Len(loads) /\ Len(loads) \in Nat
      /\ loads # <<>> => NewestFits(loads[Len(loads)])
      BY RequestTypes
<1>2. loads \in Seq(LoadRow) BY DEF JournalInv, JournalTyped
<1>3. loads' \in Seq(LoadRow) /\ Len(loads') = Len(loads) BY <1>1, <1>2
<1>4. loads # <<>> BY <1>1
<1>5. ASSUME n < Len(loads) PROVE loads'[Len(loads')] = loads[Len(loads)]
      BY <1>1, <1>2, <1>3, <1>5
<1>6. ASSUME n = Len(loads) PROVE loads'[Len(loads')].state = "done"
  <2>1. loads'[Len(loads')] = Done BY <1>1, <1>2, <1>3, <1>6
  <2>2. Done.state = "done" BY DEF Done, Query
  <2> QED BY <2>1, <2>2
<1> QED BY <1>1, <1>3, <1>4, <1>5, <1>6

LEMMA ReceivesStep ==
    ASSUME JournalInv, NEW n \in DOMAIN loads, Receives(n)
    PROVE  JournalInv'
<1> DEFINE old == loads[n]
<1>1. /\ old.state = "served" /\ loads' = [loads EXCEPT ![n] = Done]
      /\ page' = IF n < Len(loads) THEN page
                 ELSE [page EXCEPT
                    !.rows = IF old.before = TheEnd THEN old.rows ELSE @ \o old.rows,
                    !.next = old.next, !.busy = FALSE]
      /\ marks' = IF n < Len(loads) \/ old.before # TheEnd THEN marks
                  ELSE [filter |-> old.filter, known |-> old.known, mixed |-> FALSE]
      /\ UNCHANGED <<entries, today>>
      BY DEF Receives
<1>2. /\ loads' \in Seq(LoadRow)
      /\ n < Len(loads) =>
            /\ loads'[Len(loads')] = loads[Len(loads)]
            /\ NewestFits(loads[Len(loads)])
      /\ n = Len(loads) => loads'[Len(loads')].state = "done"
      /\ n \in Nat /\ Len(loads) \in Nat /\ n <= Len(loads)
      BY <1>1, DoneMoves
<1>3. page \in PageRow /\ marks \in MarksRow BY DEF JournalInv, JournalTyped
<1>4. PICK load : load = loads'[Len(loads')] OBVIOUS
<1>5. CASE n < Len(loads)
  <2>1. page' = page /\ marks' = marks BY <1>1, <1>5
  <2>2. NewestFits(load) BY <1>2, <1>4, <1>5
  <2>3. ~ marks'.mixed =>
          Piece(page'.rows, page'.next, marks'.filter, TheEnd, marks'.known)
        BY <2>1 DEF JournalInv, PageFits
  <2> QED BY <1>1, <1>2, <1>3, <1>4, <2>1, <2>2, <2>3, RequestMoves DEF NewestFits
<1>6. CASE n = Len(loads)
  <2>1. /\ old \in LoadRow /\ old.rows \in Seq(Id) /\ old.next \in Cursor
        /\ old.known \in SUBSET Id /\ old.before \in Cursor /\ old.filter \in Filter
        /\ page.rows \in Seq(Id) /\ marks.known \in SUBSET Id
        BY RequestTypes
  <2>2. NewestFits(old)
    <3>1. loads # <<>> BY <1>2, <1>6
    <3> QED BY <1>6, <3>1, RequestTypes
  <2>3. load.state = "done" BY <1>2, <1>4, <1>6
  <2>4. page' = [page EXCEPT
            !.rows = IF old.before = TheEnd THEN old.rows ELSE @ \o old.rows,
            !.next = old.next, !.busy = FALSE]
        BY <1>1, <1>2, <1>6
  <2> HIDE DEF old
  <2>5. CASE old.before = TheEnd
    <3>1. page' = [page EXCEPT !.rows = old.rows, !.next = old.next, !.busy = FALSE]
          BY <2>4, <2>5
    <3>2. page' \in PageRow /\ page'.rows = old.rows /\ page'.next = old.next
          BY <1>3, <2>1, <3>1 DEF PageRow
    <3>3. marks' = [filter |-> old.filter, known |-> old.known, mixed |-> FALSE]
          BY <1>1, <1>2, <1>6, <2>5 DEF old
    <3>4. /\ marks' \in MarksRow /\ marks'.filter = old.filter
          /\ marks'.known = old.known
          BY <2>1, <3>3 DEF MarksRow
    <3>5. Piece(old.rows, old.next, old.filter, TheEnd, old.known)
          BY <1>1, <2>2, <2>5 DEF NewestFits, old
    <3>6. Piece(page'.rows, page'.next, marks'.filter, TheEnd, marks'.known)
          BY <3>2, <3>4, <3>5
    <3> QED BY <1>1, <1>2, <1>4, <2>3, <3>2, <3>4, <3>6, RequestMoves
  <2>6. CASE old.before # TheEnd
    <3>1. page' = [page EXCEPT !.rows = page.rows \o old.rows, !.next = old.next,
                               !.busy = FALSE]
          BY <2>4, <2>6
    <3>2. page.rows \o old.rows \in Seq(Id) BY <2>1, ConcatProperties
    <3>3. /\ page' \in PageRow /\ page'.rows = page.rows \o old.rows
          /\ page'.next = old.next
          BY <1>3, <2>1, <3>1, <3>2 DEF PageRow
    <3>4. marks' = marks BY <1>1, <1>2, <1>6, <2>6 DEF old
    <3>5. ASSUME ~ marks.mixed
          PROVE  Piece(page.rows \o old.rows, old.next, marks.filter, TheEnd, marks.known)
      <4>1. /\ old.before = page.next /\ old.filter = marks.filter
            /\ Piece(old.rows, old.next, old.filter, old.before, old.known)
            /\ marks.known \subseteq old.known
            BY <1>1, <2>2, <2>6, <3>5 DEF NewestFits, old
      <4>2. Piece(page.rows, old.before, marks.filter, TheEnd, marks.known)
            BY <3>5, <4>1 DEF JournalInv, PageFits
      <4>3. Piece(old.rows, old.next, marks.filter, old.before, old.known) BY <4>1
      <4>4. EntriesTyped /\ old.before \in Id
            BY <2>1, <2>6 DEF JournalInv, JournalTyped, Cursor
      <4> QED BY <2>1, <4>1, <4>2, <4>3, <4>4, PiecesJoin
    <3>6. ~ marks'.mixed =>
            Piece(page'.rows, page'.next, marks'.filter, TheEnd, marks'.known)
          BY <3>3, <3>4, <3>5
    <3> QED BY <1>1, <1>2, <1>3, <1>4, <2>3, <3>3, <3>4, <3>6, RequestMoves
  <2> QED BY <2>5, <2>6
<1> QED BY <1>2, <1>5, <1>6

LEMMA BreaksStep ==
    ASSUME JournalInv, NEW n \in DOMAIN loads, Breaks(n)
    PROVE  JournalInv'
<1>1. /\ loads' = [loads EXCEPT ![n] = Done]
      /\ page' = [page EXCEPT !.busy = @ /\ n < Len(loads)]
      /\ UNCHANGED <<entries, today, marks>>
      BY DEF Breaks
<1>2. /\ loads' \in Seq(LoadRow)
      /\ n < Len(loads) =>
            /\ loads'[Len(loads')] = loads[Len(loads)]
            /\ NewestFits(loads[Len(loads)])
      /\ n = Len(loads) => loads'[Len(loads')].state = "done"
      /\ n \in Nat /\ Len(loads) \in Nat /\ n <= Len(loads)
      BY <1>1, DoneMoves
<1>3. page \in PageRow /\ marks' \in MarksRow BY <1>1 DEF JournalInv, JournalTyped
<1>4. page' \in PageRow /\ page'.rows = page.rows /\ page'.next = page.next
      BY <1>1, <1>3 DEF PageRow
<1>5. PICK load : load = loads'[Len(loads')] OBVIOUS
<1>6. ~ marks'.mixed =>
        Piece(page'.rows, page'.next, marks'.filter, TheEnd, marks'.known)
      BY <1>1, <1>4 DEF JournalInv, PageFits
<1>7. load.state \in {"asked", "served"} => NewestFits(load)
      BY <1>2, <1>5
<1> QED BY <1>1, <1>2, <1>3, <1>4, <1>5, <1>6, <1>7, RequestMoves DEF NewestFits

LEMMA RecordsStep ==
    ASSUME JournalInv, NEW at \in 1..today, NEW class \in Class, Records(at, class)
    PROVE  JournalInv'
<1> DEFINE entry == [at |-> at, class |-> class]
<1>1. entries' = Append(entries, entry) /\ UNCHANGED <<today, page, loads, marks>>
      BY DEF Records
<1>2. today \in Nat /\ entries \in Seq([at : Nat, class : Class])
      BY DEF JournalInv, JournalTyped, EntriesTyped
<1>3. entry \in [at : Nat, class : Class] BY <1>2
<1> HIDE DEF entry
<1>4. /\ entries' \in Seq([at : Nat, class : Class])
      /\ Len(entries') = Len(entries) + 1
      /\ \A i \in 1..Len(entries) : entries'[i] = entries[i]
      BY <1>1, <1>2, <1>3, AppendProperties
<1>5. Id = 1..Len(entries) /\ Len(entries) \in Nat BY <1>2 DEF Id
<1>6. Id' = 1..Len(entries') BY <1>4 DEF Id
<1>7. Id \subseteq Id' BY <1>4, <1>5, <1>6
<1>8. \A i \in Id : entries'[i] = entries[i] BY <1>4, <1>5
<1>9. EntriesTyped' BY <1>4 DEF EntriesTyped
<1>10. today' \in Nat BY <1>1, <1>2
<1> QED BY <1>1, <1>7, <1>8, <1>9, <1>10, JournalGrows

LEMMA JournalInvKept == JournalInv /\ [JournalNext]_journalVars => JournalInv'
<1> SUFFICES ASSUME JournalInv, [JournalNext]_journalVars PROVE JournalInv'
    OBVIOUS
<1>1. ASSUME UNCHANGED <<entries, page, loads, marks>>, today' \in Nat
      PROVE  JournalInv'
  <2>1. EntriesTyped' BY <1>1 DEF JournalInv, JournalTyped, EntriesTyped
  <2>2. Id \subseteq Id' BY <1>1 DEF Id
  <2> QED BY <1>1, <2>1, <2>2, JournalGrows
<1>2. CASE TimePasses
  <2>1. today \in Nat BY DEF JournalInv, JournalTyped
  <2> QED BY <1>1, <1>2, <2>1 DEF TimePasses
<1>3. CASE UNCHANGED journalVars
  <2>1. today \in Nat BY DEF JournalInv, JournalTyped
  <2> QED BY <1>1, <1>3, <2>1 DEF journalVars
<1> QED BY <1>2, <1>3, RecordsStep, AsksAnewStep, ContinuesStep, ServesStep,
           ReceivesStep, BreaksStep DEF JournalNext

(* The page shows the journal as far as it has been read, each event once  *)
(* and in order, for any events and dates, requests and sizes of a page,   *)
(* whatever is recorded, overtaken or lost between two pieces.             *)
THEOREM PageWhole == JournalSpec => []JournalIsWhole
<1>1. JournalSpec => []JournalInv BY JournalStarts, JournalInvKept, PTL DEF JournalSpec
<1> QED BY <1>1, JournalInvSuffices, PTL

(* A set of numbers between two has a least and a greatest.                *)
LEMMA Extremes ==
    ASSUME NEW S \in SUBSET Int, S # {}, NEW lo \in Int, NEW hi \in Int,
           \A x \in S : lo <= x /\ x <= hi
    PROVE  /\ Min(S) \in S /\ Max(S) \in S
           /\ \A x \in S : Min(S) <= x /\ x <= Max(S)
<1> DEFINE R == OpToRel(<, Nat)
           up == {x - lo : x \in S}
           down == {hi - x : x \in S}
<1>1. up \in SUBSET Nat /\ down \in SUBSET Nat OBVIOUS
<1>2. up # {} /\ down # {}
  <2>1. PICK x \in S : TRUE OBVIOUS
  <2>2. x - lo \in up /\ hi - x \in down BY <2>1
  <2> QED BY <2>2
<1>3. ASSUME NEW T \in SUBSET Nat, T # {} PROVE \E x \in T : \A y \in T : x <= y
  <2>1. PICK x \in T : \A y \in T : ~ (<<y, x>> \in R)
    <3> HIDE DEF R
    <3>1. IsWellFoundedOn(R, Nat) BY NatLessThanWellFounded DEF R
    <3> QED BY <1>3, <3>1, WFMin
  <2>2. \A y \in T : x <= y
    <3> SUFFICES ASSUME NEW y \in T PROVE x <= y
        OBVIOUS
    <3>1. x \in Nat /\ y \in Nat /\ ~ (<<y, x>> \in R) BY <2>1
    <3> QED BY <3>1 DEF OpToRel
  <2> QED BY <2>2
<1>4. \E x \in S : \A y \in S : x <= y
  <2>1. PICK t \in up : \A y \in up : t <= y
    <3> HIDE DEF up
    <3> QED BY <1>1, <1>2, <1>3
  <2>2. PICK x \in S : t = x - lo BY <2>1
  <2>3. ASSUME NEW y \in S PROVE x <= y
    <3>1. y - lo \in up OBVIOUS
    <3>2. t <= y - lo BY <2>1, <3>1
    <3> QED BY <2>2, <3>2
  <2> QED BY <2>3
<1>5. \E x \in S : \A y \in S : y <= x
  <2>1. PICK t \in down : \A y \in down : t <= y
    <3> HIDE DEF down
    <3> QED BY <1>1, <1>2, <1>3
  <2>2. PICK x \in S : t = hi - x BY <2>1
  <2>3. ASSUME NEW y \in S PROVE y <= x
    <3>1. hi - y \in down OBVIOUS
    <3>2. t <= hi - y BY <2>1, <3>1
    <3> QED BY <2>2, <3>2
  <2> QED BY <2>3
<1>6. Min(S) \in S /\ \A x \in S : Min(S) <= x BY <1>4 DEF Min
<1>7. Max(S) \in S /\ \A x \in S : x <= Max(S)
  <2>1. \E x \in S : \A y \in S : x >= y BY <1>5
  <2>2. Max(S) \in S /\ \A y \in S : Max(S) >= y BY <2>1 DEF Max
  <2> QED BY <2>2
<1> QED BY <1>6, <1>7

-----------------------------------------------------------------------------
(* The events of a connection.                                             *)

(* What the grouping relies on in the records it is given.                 *)
RecordsFit(records) ==
    /\ Len(records) \in Nat /\ DOMAIN records = 1..Len(records)
    /\ \A i \in DOMAIN records : /\ records[i].at \in Int
                                 /\ records[i].stream => records[i].type = "error"

(* The client connects with this address.                                  *)
Connects(records, k, address) ==
    records[k].type = "connected" /\ records[k].address = address

(* The number of connects so far tells the sessions of an address apart.   *)
LEMMA EpochOrdered ==
    ASSUME NEW records, RecordsFit(records),
           NEW i \in DOMAIN records, NEW j \in DOMAIN records, i <= j,
           records[i].address = records[j].address
    PROVE  Epoch(records, i) = Epoch(records, j)
             <=> \A k \in (i + 1)..j : ~ Connects(records, k, records[i].address)
<1> DEFINE A == {k \in 1..i : Connects(records, k, records[i].address)}
           B == {k \in 1..j : Connects(records, k, records[i].address)}
<1>1. i \in Nat /\ j \in Nat BY DEF RecordsFit
<1>2. IsFiniteSet(B)
  <2>1. IsFiniteSet(1..j) BY <1>1, FS_Interval
  <2>2. B \in SUBSET (1..j) OBVIOUS
  <2> HIDE DEF B
  <2> QED BY <2>1, <2>2, FS_Subset
<1>3. A \in SUBSET B BY <1>1
<1>4. Epoch(records, i) = Cardinality(A) /\ Epoch(records, j) = Cardinality(B)
      BY DEF Epoch, Connects
<1>5. A = B <=> \A k \in (i + 1)..j : ~ Connects(records, k, records[i].address)
  <2>1. ASSUME A = B, NEW k \in (i + 1)..j,
               Connects(records, k, records[i].address)
        PROVE  FALSE
    <3>1. k \in 1..j /\ ~ (k \in 1..i) BY <1>1
    <3>2. k \in B BY <2>1, <3>1
    <3> QED BY <2>1, <3>1, <3>2
  <2>2. ASSUME \A k \in (i + 1)..j : ~ Connects(records, k, records[i].address),
               NEW k \in B
        PROVE  k \in A
    <3>1. k \in 1..j /\ Connects(records, k, records[i].address) OBVIOUS
    <3>2. k \in 1..i \/ k \in (i + 1)..j BY <1>1, <3>1
    <3> QED BY <2>2, <3>1, <3>2
  <2> QED BY <1>3, <2>1, <2>2
<1> HIDE DEF A, B
<1>6. Cardinality(A) = Cardinality(B) => A = B BY <1>2, <1>3, FS_Subset
<1> QED BY <1>4, <1>5, <1>6

LEMMA EpochIsSession ==
    ASSUME NEW records, RecordsFit(records),
           NEW i \in DOMAIN records, NEW j \in DOMAIN records
    PROVE  SameSession(records, i, j)
             <=> /\ records[i].address = records[j].address
                 /\ Epoch(records, i) = Epoch(records, j)
<1>1. i \in Nat /\ j \in Nat BY DEF RecordsFit
<1> SUFFICES ASSUME records[i].address = records[j].address
             PROVE  SameSession(records, i, j)
                      <=> Epoch(records, i) = Epoch(records, j)
    BY DEF SameSession
<1>2. CASE i <= j
  <2>1. Min({i, j}) = i /\ Max({i, j}) = j BY <1>1, <1>2 DEF Min, Max
  <2> QED BY <1>2, <2>1, EpochOrdered DEF SameSession, Connects
<1>3. CASE j <= i
  <2>1. Min({i, j}) = j /\ Max({i, j}) = i BY <1>1, <1>3 DEF Min, Max
  <2> QED BY <1>3, <2>1, EpochOrdered DEF SameSession, Connects
<1> QED BY <1>1, <1>2, <1>3

(* The disconnects an error may belong to, said of the records themselves, *)
(* are those that are found for it.                                        *)
LEMMA RootsBelong ==
    ASSUME NEW records, RecordsFit(records), NEW i \in DOMAIN records
    PROVE  /\ MayBelong(records, i) = Roots(records, i)
           /\ Roots(records, i) \subseteq DOMAIN records
           /\ IsFiniteSet(Roots(records, i))
<1>1. SessionWindow \in Nat BY ConnectionEventsAssumption
<1>2. ASSUME NEW k \in DOMAIN records
      PROVE  k \in MayBelong(records, i) <=> k \in Roots(records, i)
  <2>1. records[i].at \in Int /\ records[k].at \in Int BY DEF RecordsFit
  <2>2. records[i].at - records[k].at \in -SessionWindow..SessionWindow
          <=> /\ records[i].at <= records[k].at + SessionWindow
              /\ records[k].at <= records[i].at + SessionWindow
        BY <1>1, <2>1
  <2>3. SameSession(records, i, k)
          <=> /\ records[k].address = records[i].address
              /\ Epoch(records, k) = Epoch(records, i)
        BY EpochIsSession
  <2> QED BY <2>2, <2>3 DEF MayBelong, Roots
<1>3. MayBelong(records, i) \subseteq DOMAIN records BY DEF MayBelong
<1>4. Roots(records, i) \subseteq DOMAIN records BY DEF Roots
<1>5. IsFiniteSet(DOMAIN records) BY FS_Interval DEF RecordsFit
<1> QED BY <1>2, <1>3, <1>4, <1>5, FS_Subset

(* A record that is merged has one root, which stays.                      *)
LEMMA MergedHasRoot ==
    ASSUME NEW records, RecordsFit(records), NEW i \in Merged(records)
    PROVE  /\ i \in DOMAIN records /\ records[i].stream
           /\ \E k \in DOMAIN records \ Merged(records) : Roots(records, i) = {k}
<1>1. /\ i \in DOMAIN records /\ records[i].stream
      /\ Cardinality(Roots(records, i)) = 1
      BY DEF Merged
<1>2. PICK k : Roots(records, i) = {k} BY <1>1, RootsBelong, FS_Singleton
<1>3. k \in DOMAIN records /\ records[k].type = "disconnected" BY <1>2 DEF Roots
<1>4. ~ records[k].stream BY <1>3 DEF RecordsFit
<1>5. k \notin Merged(records) BY <1>4 DEF Merged
<1> QED BY <1>1, <1>2, <1>3, <1>5

(* One event of an answer: the record it shows and those counted with it.  *)
Counted(records, i) == {j \in Merged(records) : Roots(records, j) = {i}}

LEMMA EventFacts ==
    ASSUME NEW records, RecordsFit(records),
           NEW i \in DOMAIN records \ Merged(records), NEW e, e = Event(records, i)
    PROVE  /\ e.of = {i} \cup Counted(records, i)
           /\ e.count = Cardinality(e.of)
           /\ e.last - e.first <= 2 * SessionWindow
           /\ Cardinality(e.of) > 1 =>
                 \E root \in e.of :
                    /\ e.reason = "idle_timeout"
                    /\ \A j \in e.of \ {root} :
                          records[j].stream /\ MayBelong(records, j) = {root}
<1> DEFINE others == Counted(records, i)
           times == {records[j].at : j \in others \cup {i}}
<1>1. e = [type |-> records[i].type, reason |-> records[i].reason,
           at |-> records[i].at, count |-> 1 + Cardinality(others),
           first |-> Min(times), last |-> Max(times), of |-> {i} \cup others]
      BY DEF Event, Counted
<1>2. \A j \in others : /\ j \in Merged(records) /\ j \in DOMAIN records
                        /\ Roots(records, j) = {i}
      BY DEF Counted, Merged
<1>3. IsFiniteSet(others)
  <2>1. IsFiniteSet(DOMAIN records) BY FS_Interval DEF RecordsFit
  <2>2. others \in SUBSET DOMAIN records
    <3> HIDE DEF others
    <3> QED BY <1>2
  <2> HIDE DEF others
  <2> QED BY <2>1, <2>2, FS_Subset
<1>4. e.of = {i} \cup others /\ e.count = 1 + Cardinality(others)
      /\ e.reason = records[i].reason /\ e.first = Min(times) /\ e.last = Max(times)
  <2> HIDE DEF others, times
  <2> QED BY <1>1
<1> HIDE DEF others
<1>5. i \notin others BY <1>2
<1>6. Cardinality(e.of) = Cardinality(others) + 1 /\ Cardinality(others) \in Nat
  <2>1. e.of = others \cup {i} BY <1>4
  <2>2. /\ Cardinality(others) \in Nat
        /\ Cardinality(others \cup {i})
             = IF i \in others THEN Cardinality(others) ELSE Cardinality(others) + 1
        BY <1>3, FS_AddElement, FS_CardinalityType, Zenon
  <2> QED BY <1>5, <2>1, <2>2
<1>7. SessionWindow \in Nat /\ records[i].at \in Int
      BY ConnectionEventsAssumption DEF RecordsFit
<1>8. e.last - e.first <= 2 * SessionWindow
  <2> DEFINE lo == records[i].at - SessionWindow
             hi == records[i].at + SessionWindow
  <2>1. ASSUME NEW j \in others \cup {i}
        PROVE  records[j].at \in Int /\ lo <= records[j].at /\ records[j].at <= hi
    <3>1. CASE j = i BY <1>7, <3>1
    <3>2. CASE j \in others
      <4>1. i \in Roots(records, j) /\ j \in DOMAIN records BY <1>2, <3>2
      <4>2. records[j].at - records[i].at \in -SessionWindow..SessionWindow
            BY <4>1 DEF Roots
      <4>3. records[j].at \in Int BY <4>1 DEF RecordsFit
      <4> QED BY <1>7, <4>2, <4>3
    <3> QED BY <3>1, <3>2
  <2>2. lo \in Int /\ hi \in Int /\ hi - lo = 2 * SessionWindow BY <1>7
  <2>3. times \in SUBSET Int /\ \A x \in times : lo <= x /\ x <= hi
    <3> HIDE DEF lo, hi
    <3> QED BY <2>1
  <2>4. times # {}
    <3>1. records[i].at \in times OBVIOUS
    <3> QED BY <3>1
  <2> HIDE DEF lo, hi, times
  <2>5. Min(times) \in times /\ Max(times) \in times BY <2>2, <2>3, <2>4, Extremes
  <2>6. Min(times) \in Int /\ Max(times) \in Int /\ lo <= Min(times) /\ Max(times) <= hi
        BY <2>3, <2>5
  <2> QED BY <1>4, <1>7, <2>2, <2>6
<1>9. ASSUME Cardinality(e.of) > 1
      PROVE  /\ e.reason = "idle_timeout"
             /\ \A j \in e.of \ {i} :
                   records[j].stream /\ MayBelong(records, j) = {i}
  <2>1. others # {}
    <3> SUFFICES ASSUME others = {} PROVE FALSE
        OBVIOUS
    <3>1. Cardinality(others) = 0 BY FS_EmptySet
    <3> QED BY <1>6, <1>9, <3>1
  <2>2. PICK j \in others : TRUE BY <2>1
  <2>3. i \in Roots(records, j) BY <1>2, <2>2
  <2>4. records[i].reason = "idle_timeout" BY <2>3 DEF Roots
  <2>5. ASSUME NEW k \in e.of \ {i}
        PROVE  records[k].stream /\ MayBelong(records, k) = {i}
    <3>1. k \in others BY <1>4
    <3>2. k \in Merged(records) /\ k \in DOMAIN records /\ Roots(records, k) = {i}
          BY <1>2, <3>1
    <3> QED BY <3>2, MergedHasRoot, RootsBelong
  <2> QED BY <1>4, <2>4, <2>5
<1>10. i \in e.of BY <1>4
<1> QED BY <1>4, <1>6, <1>8, <1>9, <1>10 DEF others

(* Two events count no record twice.                                       *)
LEMMA EventsApart ==
    ASSUME NEW records, RecordsFit(records),
           NEW i \in DOMAIN records \ Merged(records),
           NEW j \in DOMAIN records \ Merged(records), i # j
    PROVE  Event(records, i).of \cap Event(records, j).of = {}
<1>1. /\ Event(records, i).of = {i} \cup Counted(records, i)
      /\ Event(records, j).of = {j} \cup Counted(records, j)
      BY EventFacts
<1>2. ASSUME NEW k \in Counted(records, i), k \in Counted(records, j) PROVE FALSE
      BY <1>2 DEF Counted
<1>3. i \notin Counted(records, j) /\ j \notin Counted(records, i) BY DEF Counted
<1> QED BY <1>1, <1>2, <1>3

(* groupConnectionEvents(): an event for each record that is not merged,   *)
(* in the order of the records.                                            *)
LEMMA GroupedFacts ==
    ASSUME NEW records, RecordsFit(records), NEW G, G = Grouped(records)
    PROVE  \E kept : /\ kept \in Seq(DOMAIN records \ Merged(records))
                     /\ Len(kept) = Len(G) /\ Len(G) \in Nat /\ DOMAIN G = 1..Len(G)
                     /\ \A n \in 1..Len(G) : G[n] = Event(records, kept[n])
                     /\ \A m, n \in 1..Len(G) : m # n => kept[m] # kept[n]
                     /\ \A i \in DOMAIN records \ Merged(records) :
                           \E n \in 1..Len(G) : kept[n] = i
<1> DEFINE K == DOMAIN records \ Merged(records)
           kept == Ascending(K)
<1>1. K \in SUBSET Nat /\ IsFiniteSet(K)
  <2>1. IsFiniteSet(DOMAIN records) BY FS_Interval DEF RecordsFit
  <2>2. K \in SUBSET DOMAIN records OBVIOUS
  <2>3. DOMAIN records \in SUBSET Nat BY DEF RecordsFit
  <2> HIDE DEF K
  <2> QED BY <2>1, <2>2, <2>3, FS_Subset
<1>2. /\ kept \in Seq(K) /\ Len(kept) \in Nat
      /\ \A m, n \in 1..Len(kept) : m < n <=> kept[m] < kept[n]
      /\ \A x \in K : \E n \in 1..Len(kept) : kept[n] = x
  <2> HIDE DEF K
  <2> QED BY <1>1, AscendingLists
<1>3. G = [n \in DOMAIN kept |-> Event(records, kept[n])] BY DEF Grouped
<1> HIDE DEF K, kept
<1>4. DOMAIN kept = 1..Len(kept) BY <1>2
<1>5. Len(G) = Len(kept) /\ DOMAIN G = 1..Len(G)
  <2>1. DOMAIN G = 1..Len(kept) BY <1>3, <1>4
  <2> QED BY <1>2, <1>3, <1>4, <2>1
<1>6. \A n \in 1..Len(G) : G[n] = Event(records, kept[n]) BY <1>3, <1>4, <1>5
<1>7. ASSUME NEW m \in 1..Len(G), NEW n \in 1..Len(G), m # n PROVE kept[m] # kept[n]
  <2>1. m \in Nat /\ n \in Nat /\ (m < n \/ n < m) BY <1>2, <1>5, <1>7
  <2>2. kept[m] \in Nat /\ kept[n] \in Nat
    <3>1. kept[m] \in K /\ kept[n] \in K BY <1>2, <1>5, ElementOfSeq
    <3> QED BY <1>1, <3>1
  <2>3. kept[m] < kept[n] \/ kept[n] < kept[m] BY <1>2, <1>5, <2>1
  <2> QED BY <2>2, <2>3
<1> QED BY <1>2, <1>5, <1>6, <1>7 DEF K

(* What the journal of the system may hold: lines of the connection's      *)
(* engine, and others.                                                     *)
Lines ==
    {Foreign} \cup
    [mine : {TRUE},
     heading : {"client connected", "client disconnected", "tcp error"},
     error : {"idle", "cancelled"}, address : Address \cup {NoAddress}, at : Int]

(* Where the newest elements of a list begin.                              *)
LEMMA StartOfNewest ==
    ASSUME NEW length \in Nat, NEW most \in Nat \ {0},
           NEW start, start = Max({1, length - most + 1})
    PROVE  /\ start \in Nat /\ start >= 1 /\ start <= length + 1
           /\ length <= most => start = 1
<1> DEFINE x == length - most + 1
<1>1. x \in Int /\ x <= length + 1 /\ (x <= 1 \/ x > 1) /\ (length <= most => x <= 1)
      OBVIOUS
<1>2. start = Max({1, x}) OBVIOUS
<1> HIDE DEF x
<1>3. CASE x <= 1
  <2>1. Max({1, x}) = 1 BY <1>1, <1>3 DEF Max
  <2> QED BY <1>2, <2>1
<1>4. CASE x > 1
  <2>1. Max({1, x}) = x BY <1>1, <1>4 DEF Max
  <2> QED BY <1>1, <1>2, <1>4, <2>1
<1> QED BY <1>1, <1>3, <1>4

(* The newest of a list's elements.                                        *)
LEMMA NewestPart ==
    ASSUME NEW T, NEW list \in Seq(T), NEW start \in Nat, start >= 1,
           start <= Len(list) + 1, NEW part, part = SubSeq(list, start, Len(list))
    PROVE  /\ part \in Seq(T) /\ Len(part) \in Nat /\ DOMAIN part = 1..Len(part)
           /\ \A n \in 1..Len(part) :
                 start + n - 1 \in 1..Len(list) /\ part[n] = list[start + n - 1]
           /\ start = 1 => Len(part) = Len(list)
<1>1. Len(list) \in Nat OBVIOUS
<1>2. \A n \in start..Len(list) : list[n] \in T
  <2>1. \A n \in start..Len(list) : n \in 1..Len(list) BY <1>1
  <2> QED BY <2>1, ElementOfSeq
<1>3. /\ part \in Seq(T)
      /\ Len(part) = IF start <= Len(list) THEN Len(list) - start + 1 ELSE 0
      /\ \A n \in 1..(Len(list) - start + 1) : part[n] = list[start + n - 1]
  <2>1. start \in Int /\ Len(list) \in Int BY <1>1
  <2> QED BY <1>2, <2>1, SubSeqProperties
<1>4. Len(part) = Len(list) - start + 1 /\ Len(part) \in Nat BY <1>1, <1>3
<1>5. DOMAIN part = 1..Len(part) BY <1>3
<1>6. \A n \in 1..Len(part) : start + n - 1 \in 1..Len(list) BY <1>1, <1>4
<1>7. \A n \in 1..Len(part) : part[n] = list[start + n - 1] BY <1>3, <1>4
<1>8. start = 1 => Len(part) = Len(list) BY <1>1, <1>4
<1> QED BY <1>3, <1>4, <1>5, <1>6, <1>7, <1>8

(* normalizeConnectionEvent(): the error of a stream is an error.          *)
LEMMA NormalizedFits ==
    ASSUME NEW line \in Lines, line.mine
    PROVE  /\ Normalized(line).at \in Int
           /\ Normalized(line).stream => Normalized(line).type = "error"
<1>1. line # Foreign BY DEF Foreign
<1>2. line.at \in Int BY <1>1 DEF Lines
<1>3. IsStream(line) => TypeOf(line) = "error" BY DEF IsStream, TypeOf
<1> QED BY <1>2, <1>3 DEF Normalized

(* scanConnectionEvents(): the newest lines, the newest events of them.    *)
IsGrouped(a) ==
    /\ RecordsFit(a.records)
    /\ DOMAIN a.events = 1..Len(a.events)
    /\ \E of : /\ \A n \in 1..Len(a.events) :
                     /\ of[n] \in DOMAIN a.records \ Merged(a.records)
                     /\ a.events[n] = Event(a.records, of[n])
               /\ \A m, n \in 1..Len(a.events) : m # n => of[m] # of[n]
               /\ ~ a.truncated =>
                     \A i \in DOMAIN a.records \ Merged(a.records) :
                        \E n \in 1..Len(a.events) : of[n] = i

LEMMA ScannedFacts ==
    ASSUME NEW lines \in Seq(Lines), NEW a, a = Scanned(lines)
    PROVE  IsGrouped(a)
<1> DEFINE from == Max({1, Len(lines) - MaxLines + 1})
           read == SubSeq(lines, from, Len(lines))
           mine == Ascending({i \in DOMAIN read : read[i].mine})
           records == [i \in DOMAIN mine |-> Normalized(read[mine[i]])]
           G == Grouped(records)
           start == Max({1, Len(G) - EventLimit + 1})
           shown == SubSeq(G, start, Len(G))
<1>1. MaxLines \in Nat \ {0} /\ EventLimit \in Nat \ {0}
      BY ConnectionEventsAssumption
<1>2. /\ a.records = records /\ a.events = shown
      /\ a.truncated = (Len(lines) >= MaxLines \/ Len(G) > EventLimit)
      BY DEF Scanned
<1>3. read \in Seq(Lines) /\ Len(read) \in Nat /\ DOMAIN read = 1..Len(read)
  <2>1. Len(lines) \in Nat OBVIOUS
  <2>2. \A length \in Nat : \A first : first = Max({1, length - MaxLines + 1}) =>
           first \in Nat /\ first >= 1 /\ first <= length + 1
        BY <1>1, StartOfNewest
  <2>3. from \in Nat /\ from >= 1 /\ from <= Len(lines) + 1 BY <2>1, <2>2
  <2> HIDE DEF from
  <2> QED BY <2>3, NewestPart
<1> HIDE DEF read
<1>4. RecordsFit(records)
  <2> DEFINE I == {i \in DOMAIN read : read[i].mine}
  <2>1. I \in SUBSET Nat /\ IsFiniteSet(I)
    <3>1. I \in SUBSET (1..Len(read)) BY <1>3
    <3>2. IsFiniteSet(1..Len(read)) BY <1>3, FS_Interval
    <3>3. 1..Len(read) \in SUBSET Nat BY <1>3
    <3> HIDE DEF I
    <3> QED BY <3>1, <3>2, <3>3, FS_Subset
  <2>2. \A i \in I : read[i] \in Lines /\ read[i].mine BY <1>3, ElementOfSeq
  <2>3. mine = Ascending(I) OBVIOUS
  <2> HIDE DEF I, mine
  <2>4. mine \in Seq(I) /\ Len(mine) \in Nat BY <2>1, <2>3, AscendingLists
  <2>5. DOMAIN records = 1..Len(mine) BY <2>4
  <2>6. Len(records) = Len(mine) BY <2>4, <2>5
  <2>7. ASSUME NEW i \in DOMAIN records
        PROVE  /\ records[i].at \in Int
               /\ records[i].stream => records[i].type = "error"
    <3>1. mine[i] \in I BY <2>4, <2>5, ElementOfSeq
    <3>2. records[i] = Normalized(read[mine[i]]) BY <2>4, <2>5
    <3> HIDE DEF records
    <3> QED BY <2>2, <3>1, <3>2, NormalizedFits
  <2> HIDE DEF records
  <2> QED BY <2>4, <2>5, <2>6, <2>7 DEF RecordsFit
<1> HIDE DEF records
<1>5. PICK kept : /\ kept \in Seq(DOMAIN records \ Merged(records))
                  /\ Len(kept) = Len(G) /\ Len(G) \in Nat /\ DOMAIN G = 1..Len(G)
                  /\ \A n \in 1..Len(G) : G[n] = Event(records, kept[n])
                  /\ \A m, n \in 1..Len(G) : m # n => kept[m] # kept[n]
                  /\ \A i \in DOMAIN records \ Merged(records) :
                        \E n \in 1..Len(G) : kept[n] = i
  <2>1. \A list : list = Grouped(records) =>
           \E kept : /\ kept \in Seq(DOMAIN records \ Merged(records))
                     /\ Len(kept) = Len(list) /\ Len(list) \in Nat
                     /\ DOMAIN list = 1..Len(list)
                     /\ \A n \in 1..Len(list) : list[n] = Event(records, kept[n])
                     /\ \A m, n \in 1..Len(list) : m # n => kept[m] # kept[n]
                     /\ \A i \in DOMAIN records \ Merged(records) :
                           \E n \in 1..Len(list) : kept[n] = i
        BY <1>4, GroupedFacts
  <2>2. G = Grouped(records) OBVIOUS
  <2> HIDE DEF G
  <2> QED BY <2>1, <2>2
<1>6. \E T : G \in Seq(T)
  <2> DEFINE T == {G[n] : n \in 1..Len(G)}
  <2>1. G = [n \in 1..Len(G) |-> G[n]]
    <3>1. G = [n \in DOMAIN Ascending(DOMAIN records \ Merged(records)) |->
                 Event(records, Ascending(DOMAIN records \ Merged(records))[n])]
          BY DEF Grouped
    <3> HIDE DEF G
    <3> QED BY <1>5, <3>1
  <2>2. G \in [1..Len(G) -> T]
    <3> HIDE DEF G
    <3> QED BY <2>1
  <2>3. G \in Seq(T)
    <3> HIDE DEF G, T
    <3> QED BY <1>5, <2>2, SMTT(60)
  <2> QED BY <2>3
<1> HIDE DEF G
<1>7. /\ start \in Nat /\ start >= 1
      /\ Len(shown) \in Nat /\ DOMAIN shown = 1..Len(shown)
      /\ \A n \in 1..Len(shown) :
            start + n - 1 \in 1..Len(G) /\ shown[n] = G[start + n - 1]
      /\ Len(G) <= EventLimit => start = 1 /\ Len(shown) = Len(G)
  <2>1. start \in Nat /\ start >= 1 /\ start <= Len(G) + 1
        /\ (Len(G) <= EventLimit => start = 1)
        BY <1>1, <1>5, StartOfNewest
  <2> HIDE DEF start
  <2>2. /\ Len(shown) \in Nat /\ DOMAIN shown = 1..Len(shown)
        /\ \A n \in 1..Len(shown) :
              start + n - 1 \in 1..Len(G) /\ shown[n] = G[start + n - 1]
        /\ start = 1 => Len(shown) = Len(G)
    <3> PICK T : G \in Seq(T) BY <1>6
    <3> HIDE DEF shown
    <3> QED BY <2>1, NewestPart DEF shown
  <2> QED BY <2>1, <2>2
<1> HIDE DEF start, shown
<1> DEFINE of == [n \in 1..Len(shown) |-> kept[start + n - 1]]
<1>8. ASSUME NEW n \in 1..Len(shown)
      PROVE  /\ of[n] \in DOMAIN records \ Merged(records)
             /\ shown[n] = Event(records, of[n])
  <2>1. start + n - 1 \in 1..Len(G) /\ shown[n] = G[start + n - 1] BY <1>7
  <2>2. kept[start + n - 1] \in DOMAIN records \ Merged(records)
        BY <1>5, <2>1, ElementOfSeq
  <2> QED BY <1>5, <2>1, <2>2
<1>9. ASSUME NEW m \in 1..Len(shown), NEW n \in 1..Len(shown), m # n
      PROVE  of[m] # of[n]
  <2>1. start + m - 1 \in 1..Len(G) /\ start + n - 1 \in 1..Len(G) BY <1>7
  <2>2. start + m - 1 # start + n - 1 BY <1>7, <1>9
  <2> QED BY <1>5, <2>1, <2>2
<1>10. ASSUME ~ a.truncated, NEW i \in DOMAIN records \ Merged(records)
       PROVE  \E n \in 1..Len(shown) : of[n] = i
  <2>1. ~ (Len(lines) >= MaxLines \/ Len(G) > EventLimit) BY <1>2, <1>10, Zenon
  <2>5. Len(G) <= EventLimit BY <1>1, <1>5, <2>1
  <2>2. start = 1 /\ Len(shown) = Len(G) BY <1>7, <2>5
  <2>3. PICK n \in 1..Len(G) : kept[n] = i BY <1>5
  <2>4. start + n - 1 = n BY <1>5, <2>2
  <2> QED BY <2>2, <2>3, <2>4
<1>11. a.records = records /\ a.events = shown BY <1>2
<1> HIDE DEF of
<1>12. /\ \A n \in 1..Len(shown) : /\ of[n] \in DOMAIN records \ Merged(records)
                                   /\ shown[n] = Event(records, of[n])
       /\ \A m, n \in 1..Len(shown) : m # n => of[m] # of[n]
       /\ ~ a.truncated => \A i \in DOMAIN records \ Merged(records) :
                             \E n \in 1..Len(shown) : of[n] = i
       BY <1>8, <1>9, <1>10
<1>13. \E by : /\ \A n \in 1..Len(a.events) :
                     /\ by[n] \in DOMAIN a.records \ Merged(a.records)
                     /\ a.events[n] = Event(a.records, by[n])
               /\ \A m, n \in 1..Len(a.events) : m # n => by[m] # by[n]
               /\ ~ a.truncated =>
                     \A i \in DOMAIN a.records \ Merged(a.records) :
                        \E n \in 1..Len(a.events) : by[n] = i
  <2> WITNESS of
  <2> QED BY <1>11, <1>12
<1>14. RecordsFit(a.records) /\ DOMAIN a.events = 1..Len(a.events)
       BY <1>4, <1>7, <1>11
<1> QED BY <1>13, <1>14 DEF IsGrouped

-----------------------------------------------------------------------------
(* The log holds the engine's lines, and an answer is of the log as it is. *)
EventsInv ==
    /\ log \in Seq(Lines)
    /\ answer.state = "read" => answer = Scanned(log)

LEMMA EventsInvInit == ConnectionEventsInit => EventsInv
<1> SUFFICES ASSUME ConnectionEventsInit PROVE EventsInv
    OBVIOUS
<1>1. log \in Seq(Lines) BY EmptySeq DEF ConnectionEventsInit
<1>2. answer.state # "read" BY DEF ConnectionEventsInit, Unasked
<1> QED BY <1>1, <1>2 DEF EventsInv

(* The moment of the connection's last line.                               *)
LEMMA LastMomentIsOne == ASSUME log \in Seq(Lines) PROVE LastMoment \in Int
<1> DEFINE I == {i \in DOMAIN log : log[i].mine}
<1>1. Len(log) \in Nat /\ DOMAIN log = 1..Len(log) OBVIOUS
<1>2. ASSUME I # {} PROVE log[Max(I)].at \in Int
  <2>1. I \in SUBSET Int /\ \A i \in I : 1 <= i /\ i <= Len(log) BY <1>1
  <2>2. \A i \in I : i \in DOMAIN log /\ log[i].mine OBVIOUS
  <2> HIDE DEF I
  <2>3. Max(I) \in I
    <3>1. 1 \in Int /\ Len(log) \in Int BY <1>1
    <3> QED BY <1>2, <2>1, <3>1, Extremes
  <2> DEFINE last == log[Max(I)]
  <2>4. last \in Lines /\ last.mine BY <1>1, <2>2, <2>3, ElementOfSeq
  <2>5. last # Foreign BY <2>4 DEF Foreign
  <2>6. last.at \in Int
    <3> HIDE DEF last
    <3> QED BY <2>4, <2>5 DEF Lines
  <2> QED BY <2>6
<1>3. LastMoment = IF I = {} THEN 0 ELSE log[Max(I)].at BY DEF LastMoment
<1> HIDE DEF I
<1> QED BY <1>2, <1>3

(* The moment of the next line is one.                                     *)
LEMMA StepFits ==
    ASSUME NEW moment \in Int, SessionWindow \in Nat
    PROVE  \A s \in {-1, SessionWindow} : moment + s \in Int
OBVIOUS

(* A line the engine writes is one.                                        *)
LEMMA LineIsOne ==
    ASSUME NEW h \in {"client connected", "client disconnected", "tcp error"},
           NEW e \in {"idle", "cancelled"}, NEW from \in Address \cup {NoAddress},
           NEW m \in Int
    PROVE  Line(h, e, from, m) \in Lines
<1> QED BY DEF Line, Lines

LEMMA WriteKeepsEvents == EventsInv /\ Write => EventsInv'
<1> SUFFICES ASSUME EventsInv, Write PROVE EventsInv'
    OBVIOUS
<1>1. log \in Seq(Lines) BY DEF EventsInv
<1>2. LastMoment \in Int /\ SessionWindow \in Nat
      BY <1>1, LastMomentIsOne, ConnectionEventsAssumption
<1>3. \E line \in Lines : log' = Append(log, line)
  <2>1. CASE log' = Append(log, Foreign) BY <2>1 DEF Lines
  <2>2. CASE \E heading \in {"client connected", "client disconnected", "tcp error"},
                error   \in {"idle", "cancelled"},
                address \in Address \cup {NoAddress},
                step    \in {-1, SessionWindow} :
                   log' = Append(log, Line(heading, error, address,
                                           LastMoment + step))
    <3>1. PICK heading \in {"client connected", "client disconnected", "tcp error"},
               error   \in {"idle", "cancelled"},
               address \in Address \cup {NoAddress},
               step    \in {-1, SessionWindow} :
                  log' = Append(log, Line(heading, error, address,
                                          LastMoment + step))
          BY <2>2
    <3>2. \A s \in {-1, SessionWindow} : LastMoment + s \in Int
          BY <1>2, StepFits
    <3>5. Line(heading, error, address, LastMoment + step) \in Lines
          BY <3>2, LineIsOne, Zenon
    <3> QED BY <3>1, <3>5
  <2> QED BY <2>1, <2>2 DEF Write
<1>4. log' \in Seq(Lines) BY <1>1, <1>3, AppendProperties
<1>5. answer'.state # "read" BY DEF Write, Unasked
<1> QED BY <1>4, <1>5 DEF EventsInv

LEMMA ReadKeepsEvents == EventsInv /\ ReadEvents => EventsInv'
<1> SUFFICES ASSUME EventsInv, ReadEvents PROVE EventsInv'
    OBVIOUS
<1>1. log' \in Seq(Lines) BY DEF EventsInv, ReadEvents
<1>2. answer' = Scanned(log) \/ answer' = [state |-> "unavailable"] BY DEF ReadEvents
<1>3. log' = log BY DEF ReadEvents
<1>4. answer'.state = "read" => answer' = Scanned(log') BY <1>2, <1>3
<1> QED BY <1>1, <1>4 DEF EventsInv

(* An answer that is what the agent makes of lines is grouped.             *)
LEMMA ScannedIsGrouped == EventsInv => EventsAreGrouped
<1> SUFFICES ASSUME EventsInv, answer.state = "read" PROVE EventsAreGrouped
    BY DEF EventsAreGrouped
<1> DEFINE records == answer.records
           events  == answer.events
           shown   == UNION {events[n].of : n \in DOMAIN events}
<1>1. log \in Seq(Lines) /\ answer = Scanned(log) BY DEF EventsInv
<1>2. RecordsFit(records) BY <1>1, ScannedFacts DEF IsGrouped
<1>3. PICK of :
         /\ \A n \in DOMAIN events : /\ of[n] \in DOMAIN records \ Merged(records)
                                     /\ events[n] = Event(records, of[n])
         /\ \A m, n \in DOMAIN events : m # n => of[m] # of[n]
         /\ ~ answer.truncated => \A i \in DOMAIN records \ Merged(records) :
                                     \E n \in DOMAIN events : of[n] = i
  <2>1. IsGrouped(answer) BY <1>1, ScannedFacts
  <2>2. /\ DOMAIN events = 1..Len(events)
        /\ \E of : /\ \A n \in 1..Len(events) :
                         /\ of[n] \in DOMAIN records \ Merged(records)
                         /\ events[n] = Event(records, of[n])
                   /\ \A m, n \in 1..Len(events) : m # n => of[m] # of[n]
                   /\ ~ answer.truncated =>
                         \A i \in DOMAIN records \ Merged(records) :
                            \E n \in 1..Len(events) : of[n] = i
        BY <2>1 DEF IsGrouped
  <2> HIDE DEF records, events
  <2> QED BY <2>2
<1> HIDE DEF records, events
<1>4. ASSUME NEW n \in DOMAIN events
      PROVE  /\ events[n].of = {of[n]} \cup Counted(records, of[n])
             /\ events[n].count = Cardinality(events[n].of)
             /\ events[n].last - events[n].first <= 2 * SessionWindow
             /\ Cardinality(events[n].of) > 1 =>
                   \E root \in events[n].of :
                      /\ events[n].reason = "idle_timeout"
                      /\ \A j \in events[n].of \ {root} :
                            records[j].stream /\ MayBelong(records, j) = {root}
      BY <1>2, <1>3, EventFacts
<1>5. \A m, n \in DOMAIN events : m # n => events[m].of \cap events[n].of = {}
      BY <1>2, <1>3, EventsApart
<1>6. ASSUME ~ answer.truncated
      PROVE  /\ shown = DOMAIN records
             /\ \A i \in DOMAIN records :
                   records[i].stream /\ records[i].reason = "idle_timeout"
                   /\ records[i].address # NoAddress
                   /\ Cardinality(MayBelong(records, i)) = 1 =>
                         \E n \in DOMAIN events :
                            {i} \cup MayBelong(records, i) \subseteq events[n].of
  <2>1. \A i \in DOMAIN records \ Merged(records) :
           \E n \in DOMAIN events : of[n] = i
        BY <1>3, <1>6
  <2>2. ASSUME NEW i \in Merged(records)
        PROVE  \E n \in DOMAIN events :
                  {i} \cup MayBelong(records, i) \subseteq events[n].of
    <3>1. i \in DOMAIN records BY <1>2, MergedHasRoot
    <3>2. PICK k \in DOMAIN records \ Merged(records) : Roots(records, i) = {k}
          BY <1>2, MergedHasRoot
    <3>3. PICK n \in DOMAIN events : of[n] = k BY <2>1, <3>2
    <3>4. MayBelong(records, i) = {k} BY <1>2, <3>1, <3>2, RootsBelong
    <3>5. i \in Counted(records, of[n]) BY <3>2, <3>3 DEF Counted
    <3>6. {i} \cup MayBelong(records, i) \subseteq events[n].of
          BY <1>4, <3>3, <3>4, <3>5
    <3> QED BY <3>6
  <2>3. DOMAIN records \subseteq shown
    <3> SUFFICES ASSUME NEW i \in DOMAIN records
                 PROVE  \E n \in DOMAIN events : i \in events[n].of
        OBVIOUS
    <3>1. CASE i \in Merged(records) BY <2>2, <3>1
    <3>2. CASE i \notin Merged(records)
      <4>1. PICK n \in DOMAIN events : of[n] = i BY <2>1, <3>2
      <4> QED BY <1>4, <4>1
    <3> QED BY <3>1, <3>2
  <2>4. shown \subseteq DOMAIN records
    <3> SUFFICES ASSUME NEW n \in DOMAIN events, NEW i \in events[n].of
                 PROVE  i \in DOMAIN records
        OBVIOUS
    <3>1. i = of[n] \/ i \in Counted(records, of[n]) BY <1>4
    <3> QED BY <1>3, <3>1 DEF Counted, Merged
  <2>5. ASSUME NEW i \in DOMAIN records, records[i].stream,
               records[i].reason = "idle_timeout", records[i].address # NoAddress,
               Cardinality(MayBelong(records, i)) = 1
        PROVE  i \in Merged(records)
    <3>1. Cardinality(Roots(records, i)) = 1 BY <1>2, <2>5, RootsBelong
    <3> QED BY <2>5, <3>1 DEF Merged
  <2> HIDE DEF shown
  <2> QED BY <2>2, <2>3, <2>4, <2>5
<1>7. /\ \A m, n \in DOMAIN events : m # n => events[m].of \cap events[n].of = {}
      /\ \A n \in DOMAIN events :
            /\ events[n].count = Cardinality(events[n].of)
            /\ events[n].last - events[n].first <= 2 * SessionWindow
            /\ Cardinality(events[n].of) > 1 =>
                  \E root \in events[n].of :
                     /\ events[n].reason = "idle_timeout"
                     /\ \A i \in events[n].of \ {root} :
                           records[i].stream /\ MayBelong(records, i) = {root}
      /\ ~ answer.truncated =>
            /\ shown = DOMAIN records
            /\ \A i \in DOMAIN records :
                  records[i].stream /\ records[i].reason = "idle_timeout"
                  /\ records[i].address # NoAddress
                  /\ Cardinality(MayBelong(records, i)) = 1 =>
                        \E n \in DOMAIN events :
                           {i} \cup MayBelong(records, i) \subseteq events[n].of
  <2> HIDE DEF shown
  <2> QED BY <1>4, <1>5, <1>6
<1> QED BY <1>7, Zenon DEF EventsAreGrouped, records, events

(* EventsAreGrouped: an answer about a connection counts every line it     *)
(* read once, counts an error with a disconnect only when it can belong to *)
(* no other, within the window and the session, and drops nothing unless   *)
(* it says so.  (scanConnectionEvents, groupConnectionEvents)              *)
THEOREM EventsGrouped ==
    ConnectionEventsInit /\ [][ConnectionEventsNext]_eventVars => []EventsAreGrouped
<1>1. EventsInv /\ [ConnectionEventsNext]_eventVars => EventsInv'
  <2> SUFFICES ASSUME EventsInv, [ConnectionEventsNext]_eventVars PROVE EventsInv'
      OBVIOUS
  <2>1. CASE Write BY <2>1, WriteKeepsEvents
  <2>2. CASE ReadEvents BY <2>2, ReadKeepsEvents
  <2>3. CASE UNCHANGED eventVars BY <2>3 DEF EventsInv, eventVars
  <2> QED BY <2>1, <2>2, <2>3 DEF ConnectionEventsNext
<1> QED BY <1>1, EventsInvInit, ScannedIsGrouped, PTL

-----------------------------------------------------------------------------
(* The upgrade of a template.                                              *)

(* What a path of a template may hold, for the merge: an item has a body.  *)
Items0 == [tag : Tag \cup {""}, body : Nat \ {0}]
Wellformed ==
    {missing} \cup {Value(n) : n \in Nat} \cup {List(s) : s \in Seq(Items0)}

(* The items at some indices of a list are those, and no others.           *)
LEMMA PickedMembers ==
    ASSUME NEW T, NEW items \in Seq(T), NEW I \in SUBSET (DOMAIN items),
           NEW picked, picked = Picked(items, I)
    PROVE  /\ picked \in Seq(T)
           /\ Members(picked) = {items[i] : i \in I}
<1> DEFINE order == Ascending(I)
<1>1. Len(items) \in Nat /\ DOMAIN items = 1..Len(items) OBVIOUS
<1>2. I \in SUBSET Nat /\ IsFiniteSet(I)
  <2>1. IsFiniteSet(1..Len(items)) BY <1>1, FS_Interval
  <2>2. I \in SUBSET (1..Len(items)) BY <1>1
  <2>3. I \in SUBSET Nat BY <2>2
  <2> QED BY <2>1, <2>2, <2>3, FS_Subset
<1>3. /\ order \in Seq(I) /\ Len(order) \in Nat
      /\ \A x \in I : \E n \in 1..Len(order) : order[n] = x
      BY <1>2, AscendingLists
<1>4. picked = [k \in DOMAIN order |-> items[order[k]]] BY DEF Picked
<1> HIDE DEF order
<1>5. DOMAIN order = 1..Len(order) BY <1>3
<1>6. \A k \in 1..Len(order) : order[k] \in I BY <1>3, ElementOfSeq
<1>7. picked \in [1..Len(order) -> T]
  <2>1. \A k \in 1..Len(order) : items[order[k]] \in T
        BY <1>1, <1>6, ElementOfSeq
  <2> QED BY <1>4, <1>5, <2>1
<1>8. picked \in Seq(T)
  <2> DEFINE n == Len(order)
  <2>1. n \in Nat /\ picked \in [1..n -> T] BY <1>3, <1>7
  <2> HIDE DEF n
  <2> QED BY <2>1
<1>9. Members(picked) = {items[i] : i \in I}
  <2>1. Members(picked) = {picked[k] : k \in 1..Len(order)}
        BY <1>4, <1>5 DEF Members
  <2>2. \A k \in 1..Len(order) : picked[k] = items[order[k]] BY <1>4, <1>5
  <2>3. \A k \in 1..Len(order) : picked[k] \in {items[i] : i \in I} BY <1>6, <2>2
  <2>4. ASSUME NEW i \in I PROVE items[i] \in Members(picked)
    <3>1. PICK k \in 1..Len(order) : order[k] = i BY <1>3
    <3> QED BY <2>1, <2>2, <3>1
  <2> QED BY <2>1, <2>3, <2>4
<1> QED BY <1>8, <1>9

LEMMA MembersOfConcat ==
    ASSUME NEW T, NEW s \in Seq(T), NEW t \in Seq(T)
    PROVE  /\ s \o t \in Seq(T)
           /\ Members(s \o t) = Members(s) \cup Members(t)
<1>1. /\ s \o t \in Seq(T) /\ Len(s \o t) = Len(s) + Len(t)
      /\ Len(s) \in Nat /\ Len(t) \in Nat
      /\ \A i \in 1..Len(s) + Len(t) :
            (s \o t)[i] = IF i <= Len(s) THEN s[i] ELSE t[i - Len(s)]
      BY ConcatProperties
<1> DEFINE c == s \o t
<1>2. DOMAIN c = 1..Len(s) + Len(t) /\ DOMAIN s = 1..Len(s) /\ DOMAIN t = 1..Len(t)
      BY <1>1
<1>3. \A i \in 1..Len(s) + Len(t) : c[i] = IF i <= Len(s) THEN s[i] ELSE t[i - Len(s)]
      BY <1>1
<1> HIDE DEF c
<1>4. Members(c) = {c[i] : i \in 1..Len(s) + Len(t)} BY <1>2 DEF Members
<1>5. Members(s) = {s[i] : i \in 1..Len(s)} /\ Members(t) = {t[i] : i \in 1..Len(t)}
      BY <1>2 DEF Members
<1>6. \A x \in Members(c) : x \in Members(s) \cup Members(t)
  <2> SUFFICES ASSUME NEW i \in 1..Len(s) + Len(t)
               PROVE  c[i] \in Members(s) \cup Members(t)
      BY <1>4
  <2>1. CASE i <= Len(s) BY <1>1, <1>3, <1>5, <2>1
  <2>2. CASE ~ (i <= Len(s))
    <3>1. i - Len(s) \in 1..Len(t) BY <1>1, <2>2
    <3> QED BY <1>3, <1>5, <2>2, <3>1
  <2> QED BY <2>1, <2>2
<1>7. Members(s) \subseteq Members(c)
  <2> SUFFICES ASSUME NEW i \in 1..Len(s) PROVE s[i] \in Members(c)
      BY <1>5
  <2>1. i \in 1..Len(s) + Len(t) /\ i <= Len(s) BY <1>1
  <2>2. c[i] = s[i] BY <1>3, <2>1
  <2> QED BY <1>4, <2>1, <2>2
<1>8. Members(t) \subseteq Members(c)
  <2> SUFFICES ASSUME NEW i \in 1..Len(t) PROVE t[i] \in Members(c)
      BY <1>5
  <2>1. /\ i + Len(s) \in 1..Len(s) + Len(t) /\ ~ (i + Len(s) <= Len(s))
        /\ i + Len(s) - Len(s) = i
        BY <1>1
  <2>2. c[i + Len(s)] = t[i] BY <1>3, <2>1
  <2> QED BY <1>4, <2>1, <2>2
<1>9. Members(c) = Members(s) \cup Members(t) BY <1>6, <1>7, <1>8
<1> QED BY <1>1, <1>9 DEF c

(* The body of a key is that of an item that has it.                       *)
LEMMA BodyFacts ==
    ASSUME NEW items \in Seq(Items0), NEW t
    PROVE  /\ BodyOf(items, t) \in Nat
           /\ BodyOf(items, t) # 0 => [tag |-> t, body |-> BodyOf(items, t)] \in Members(items)
           /\ BodyOf(items, t) = 0 <=> \A x \in Members(items) : x.tag # t
<1>1. \A i \in DOMAIN items : items[i] \in Items0 BY ElementOfSeq
<1>2. CASE \E i \in DOMAIN items : items[i].tag = t
  <2> DEFINE i == CHOOSE i \in DOMAIN items : items[i].tag = t
  <2>1. i \in DOMAIN items /\ items[i].tag = t BY <1>2
  <2>2. BodyOf(items, t) = items[i].body BY <1>2 DEF BodyOf
  <2> HIDE DEF i
  <2>3. items[i] \in Items0 BY <1>1, <2>1
  <2>4. items[i].body \in Nat \ {0} /\ items[i] = [tag |-> t, body |-> items[i].body]
        BY <2>1, <2>3 DEF Items0
  <2>5. items[i] \in Members(items) BY <2>1 DEF Members
  <2> QED BY <2>1, <2>2, <2>4, <2>5
<1>3. CASE ~ \E i \in DOMAIN items : items[i].tag = t
  <2>1. BodyOf(items, t) = 0 BY <1>3 DEF BodyOf
  <2>2. \A x \in Members(items) : x.tag # t BY <1>3 DEF Members
  <2> QED BY <2>1, <2>2
<1> QED BY <1>2, <1>3

(* The first place of an item in a list.                                   *)
LEMMA FirstPlace ==
    ASSUME NEW T, NEW items \in Seq(T), NEW x \in Members(items)
    PROVE  \E i \in DOMAIN items :
              /\ items[i] = x
              /\ \A j \in 1..(i - 1) : j \in DOMAIN items /\ items[j] # x
<1> DEFINE S == {i \in DOMAIN items : items[i] = x}
<1>1. Len(items) \in Nat /\ DOMAIN items = 1..Len(items) OBVIOUS
<1>2. S \in SUBSET Int /\ \A i \in S : 1 <= i /\ i <= Len(items) BY <1>1
<1>3. S # {}
  <2>1. PICK i \in DOMAIN items : items[i] = x BY DEF Members
  <2>2. i \in S BY <2>1
  <2> QED BY <2>2
<1>4. \A i \in DOMAIN items : items[i] = x => i \in S OBVIOUS
<1>5. \A i \in S : i \in DOMAIN items /\ items[i] = x OBVIOUS
<1> HIDE DEF S
<1>6. Min(S) \in S /\ \A i \in S : Min(S) <= i
  <2>1. 1 \in Int /\ Len(items) \in Int BY <1>1
  <2> QED BY <1>2, <1>3, <2>1, Extremes
<1>7. PICK i \in S : \A k \in S : i <= k BY <1>6
<1>8. ASSUME NEW j \in 1..(i - 1) PROVE j \in DOMAIN items /\ items[j] # x
  <2>1. i \in Int /\ i <= Len(items) BY <1>2
  <2>2. j \in DOMAIN items /\ ~ (i <= j) BY <1>1, <2>1
  <2> QED BY <1>4, <1>7, <2>2
<1> QED BY <1>5, <1>8

(* mergeArray(): an item is there if the owner kept or added it, or the    *)
(* preset added it.                                                        *)
LEMMA ArrayMerged ==
    ASSUME NEW b \in Seq(Items0), NEW u \in Seq(Items0), NEW p \in Seq(Items0),
           NEW d, d = mergeArray(b, u, p)
    PROVE  /\ d \in Seq(Items0)
           /\ \A x : x \in Members(d) <=>
                        \/ x \in Members(u) /\ (x \in Members(b) => x \in Members(p))
                        \/ x \in Members(p) /\ x \notin Members(b)
<1> DEFINE I == {i \in DOMAIN u : u[i] \in Members(b) => u[i] \in Members(p)}
           kept == Picked(u, I)
           J == {i \in DOMAIN p : /\ p[i] \notin Members(b) \cup Members(kept)
                                  /\ \A j \in 1..(i - 1) : p[j] # p[i]}
           fresh == Picked(p, J)
<1>1. d = kept \o fresh BY DEF mergeArray
<1>2. kept \in Seq(Items0) /\ Members(kept) = {u[i] : i \in I}
  <2>1. I \in SUBSET (DOMAIN u) OBVIOUS
  <2> HIDE DEF I
  <2> QED BY <2>1, PickedMembers
<1>3. \A x : x \in Members(kept) <=>
                x \in Members(u) /\ (x \in Members(b) => x \in Members(p))
  <2> HIDE DEF kept
  <2> QED BY <1>2 DEF Members
<1> HIDE DEF kept, I
<1>4. fresh \in Seq(Items0) /\ Members(fresh) = {p[i] : i \in J}
  <2>1. J \in SUBSET (DOMAIN p) OBVIOUS
  <2> HIDE DEF J
  <2> QED BY <2>1, PickedMembers
<1>5. \A x : x \in Members(fresh) <=>
                x \in Members(p) /\ x \notin Members(b) \cup Members(kept)
  <2> HIDE DEF fresh
  <2>1. ASSUME NEW x \in Members(fresh)
        PROVE  x \in Members(p) /\ x \notin Members(b) \cup Members(kept)
    <3>1. PICK i \in J : x = p[i] BY <1>4
    <3>2. x \in Members(p) BY <3>1 DEF Members
    <3> QED BY <3>1, <3>2
  <2>2. ASSUME NEW x \in Members(p), x \notin Members(b) \cup Members(kept)
        PROVE  x \in Members(fresh)
    <3>1. PICK i \in DOMAIN p : p[i] = x /\ \A j \in 1..(i - 1) : p[j] # x
          BY FirstPlace
    <3>2. i \in J BY <2>2, <3>1
    <3> HIDE DEF J
    <3> QED BY <1>4, <3>1, <3>2
  <2> QED BY <2>1, <2>2
<1> HIDE DEF fresh, J
<1>6. d \in Seq(Items0) /\ Members(d) = Members(kept) \cup Members(fresh)
  <2>1. kept \in Seq(Items0) /\ fresh \in Seq(Items0) BY <1>2, <1>4
  <2> QED BY <1>1, <2>1, MembersOfConcat
<1>7. ASSUME NEW x
      PROVE  x \in Members(d) <=>
                \/ x \in Members(u) /\ (x \in Members(b) => x \in Members(p))
                \/ x \in Members(p) /\ x \notin Members(b)
  <2>1. x \in Members(d) <=> x \in Members(kept) \/ x \in Members(fresh) BY <1>6
  <2>2. x \in Members(kept) <=>
           x \in Members(u) /\ (x \in Members(b) => x \in Members(p))
        BY <1>3
  <2>3. x \in Members(fresh) <=>
           x \in Members(p) /\ x \notin Members(b) \cup Members(kept)
        BY <1>5
  <2> QED BY <2>1, <2>2, <2>3
<1> QED BY <1>6, <1>7

(* mergeKeyedArray(): a key has the body the merge gives it, if any.       *)
LEMMA KeyedArrayMerged ==
    ASSUME NEW b \in Seq(Items0), NEW u \in Seq(Items0), NEW p \in Seq(Items0),
           NEW d, d = mergeKeyedArray(b, u, p)
    PROVE  /\ d \in Seq(Items0)
           /\ \A t : BodyOf(d, t) = Resolved(BodyOf(b, t), BodyOf(u, t), BodyOf(p, t))
<1> DEFINE merged(t) == Resolved(BodyOf(b, t), BodyOf(u, t), BodyOf(p, t))
           I == {i \in DOMAIN p : BodyOf(u, p[i].tag) = 0}
           added == Picked(p, I)
           order == u \o added
           J == {i \in DOMAIN order : merged(order[i].tag) # 0}
           left == Picked(order, J)
<1>1. d = [i \in DOMAIN left |-> [tag |-> left[i].tag, body |-> merged(left[i].tag)]]
      BY DEF mergeKeyedArray
<1>2. \A t : merged(t) \in Nat BY BodyFacts DEF Resolved
<1>3. \A t : merged(t) # 0 => BodyOf(u, t) # 0 \/ BodyOf(p, t) # 0
      BY DEF Resolved
<1>4. added \in Seq(Items0) /\ Members(added) = {p[i] : i \in I}
  <2>1. I \in SUBSET (DOMAIN p) OBVIOUS
  <2> HIDE DEF I
  <2> QED BY <2>1, PickedMembers
<1>5. \A x : x \in Members(added) <=> x \in Members(p) /\ BodyOf(u, x.tag) = 0
  <2> HIDE DEF added
  <2> QED BY <1>4 DEF Members
<1> HIDE DEF added, I
<1>6. order \in Seq(Items0) /\ Members(order) = Members(u) \cup Members(added)
      BY <1>4, MembersOfConcat
<1> HIDE DEF order, merged
<1>7. left \in Seq(Items0) /\ Members(left) = {order[i] : i \in J}
  <2>1. J \in SUBSET (DOMAIN order) OBVIOUS
  <2> HIDE DEF J
  <2> QED BY <1>6, <2>1, PickedMembers
<1>8. \A x : x \in Members(left) <=> x \in Members(order) /\ merged(x.tag) # 0
  <2> HIDE DEF left
  <2> QED BY <1>7 DEF Members
<1> HIDE DEF left, J
<1>9. Len(left) \in Nat /\ DOMAIN left = 1..Len(left) BY <1>7
<1>10. d \in Seq(Items0)
  <2>1. ASSUME NEW i \in 1..Len(left)
        PROVE  [tag |-> left[i].tag, body |-> merged(left[i].tag)] \in Items0
    <3>1. left[i] \in Items0 BY <1>7, <1>9, ElementOfSeq
    <3>2. left[i] \in Members(left) BY <1>9 DEF Members
    <3>3. merged(left[i].tag) \in Nat \ {0} BY <1>2, <1>8, <3>2
    <3> QED BY <3>1, <3>3 DEF Items0
  <2>2. d \in [1..Len(left) -> Items0] BY <1>1, <1>9, <2>1
  <2> DEFINE n == Len(left)
  <2>3. n \in Nat /\ d \in [1..n -> Items0] BY <1>9, <2>2
  <2> HIDE DEF n
  <2> QED BY <2>3
<1>11. \A y : y \in Members(d) <=>
                 \E x \in Members(left) : y = [tag |-> x.tag, body |-> merged(x.tag)]
  <2>1. DOMAIN d = DOMAIN left BY <1>1
  <2>2. \A i \in DOMAIN left : d[i] = [tag |-> left[i].tag, body |-> merged(left[i].tag)]
        BY <1>1
  <2> QED BY <2>1, <2>2 DEF Members
<1>12. ASSUME NEW t PROVE BodyOf(d, t) = merged(t)
  <2>1. CASE merged(t) = 0
    <3>1. \A y \in Members(d) : y.tag # t BY <1>8, <1>11, <2>1
    <3> QED BY <1>10, <2>1, <3>1, BodyFacts
  <2>2. CASE merged(t) # 0
    <3>1. \E x \in Members(order) : x.tag = t
      <4>1. CASE BodyOf(u, t) # 0 BY <1>6, <4>1, BodyFacts
      <4>2. CASE BodyOf(u, t) = 0
        <5>1. BodyOf(p, t) # 0 BY <1>3, <2>2, <4>2
        <5>2. PICK x \in Members(p) : x.tag = t BY <5>1, BodyFacts
        <5> QED BY <1>5, <1>6, <4>2, <5>2
      <4> QED BY <4>1, <4>2
    <3>2. PICK x \in Members(left) : x.tag = t BY <1>8, <2>2, <3>1
    <3>3. [tag |-> t, body |-> merged(t)] \in Members(d) BY <1>11, <3>2
    <3>4. BodyOf(d, t) # 0 BY <1>10, <3>3, BodyFacts
    <3>5. [tag |-> t, body |-> BodyOf(d, t)] \in Members(d) BY <1>10, <3>4, BodyFacts
    <3>6. PICK y \in Members(left) :
             [tag |-> t, body |-> BodyOf(d, t)] = [tag |-> y.tag, body |-> merged(y.tag)]
          BY <1>11, <3>5
    <3>7. t = y.tag /\ BodyOf(d, t) = merged(y.tag) BY <3>6
    <3> QED BY <3>7
  <2> QED BY <2>1, <2>2
<1> QED BY <1>10, <1>12 DEF merged

(* mergeValue(): what the owner changed stays, what the owner left alone   *)
(* follows the preset.                                                     *)
LEMMA MergeRebases ==
    ASSUME NEW b \in Wellformed, NEW u \in Wellformed, NEW p \in Wellformed,
           NEW d, d = mergeValue(b, u, p).value
    PROVE  d \in Wellformed /\ Rebased(b, u, p, d)
<1> DEFINE Arrays == /\ u.kind = "array" /\ p.kind = "array"
                     /\ b.kind \in {"array", "missing"}
           m == mergeValue(b, u, p)
<1>1. ASSUME NEW v \in Wellformed
      PROVE  /\ v.items \in Seq(Items0)
             /\ v.kind \in {"missing", "value", "array"}
  <2>1. CASE v = missing
    <3>1. <<>> \in Seq(Items0) BY EmptySeq
    <3> QED BY <2>1, <3>1 DEF missing
  <2>2. CASE \E n \in Nat : v = Value(n)
    <3>1. <<>> \in Seq(Items0) BY EmptySeq
    <3> QED BY <2>2, <3>1 DEF Value
  <2>3. CASE \E s \in Seq(Items0) : v = List(s) BY <2>3 DEF List
  <2> QED BY <2>1, <2>2, <2>3 DEF Wellformed
<1>2. CASE ~ Conflicting(b, u, p)
  <2>1. m = Result(Resolved(b, u, p), FALSE) BY <1>2 DEF mergeValue
  <2>2. d = Resolved(b, u, p) BY <2>1 DEF Result
  <2>3. d \in Wellformed BY <2>2 DEF Resolved
  <2>4. Follows(b, u, p, d) BY <2>2 DEF Resolved, Follows
  <2> QED BY <1>2, <2>3, <2>4 DEF Rebased
<1>3. CASE Conflicting(b, u, p) /\ ~ Arrays
  <2>1. m = Result(u, b # missing) BY <1>3 DEF mergeValue
  <2>2. d = u BY <2>1 DEF Result
  <2>3. Follows(b, u, p, d) BY <1>3, <2>2 DEF Follows, Conflicting
  <2>4. ~ (b.kind # "value" /\ {u.kind, p.kind} = {"array"}) BY <1>1, <1>3
  <2> QED BY <2>2, <2>3, <2>4 DEF Rebased
<1>4. CASE Conflicting(b, u, p) /\ Arrays
  <2> DEFINE B == b.items
             U == u.items
             P == p.items
             keyed == mergeKeyedArray(B, U, P)
             plain == mergeArray(B, U, P)
  <2>1. B \in Seq(Items0) /\ U \in Seq(Items0) /\ P \in Seq(Items0) BY <1>1
  <2>2. \A s \in Seq(Items0) : /\ List(s) \in Wellformed
                               /\ List(s).kind = "array" /\ List(s).items = s
        BY DEF Wellformed, List
  <2>3. ASSUME d.kind = "array", ThreeWay(B, U, P, d.items)
        PROVE  Rebased(b, u, p, d)
    <3>1. b.kind # "value" /\ {u.kind, p.kind} = {"array"} BY <1>4
    <3> QED BY <1>4, <2>3, <3>1 DEF Rebased
  <2>4. CASE arrayKey({B, U, P})
    <3>1. m = Result(List(keyed), KeyedConflict(B, U, P))
          BY <1>4, <2>4 DEF mergeValue
    <3>2. d = List(keyed) BY <3>1 DEF Result
    <3> HIDE DEF B, U, P
    <3>3. /\ keyed \in Seq(Items0)
          /\ \A t : BodyOf(keyed, t) = Resolved(BodyOf(B, t), BodyOf(U, t), BodyOf(P, t))
      <4> HIDE DEF keyed
      <4> QED BY <2>1, KeyedArrayMerged DEF keyed
    <3> HIDE DEF keyed, m
    <3>4. d.kind = "array" /\ d.items = keyed /\ d \in Wellformed BY <2>2, <3>2, <3>3
    <3>5. ThreeWay(B, U, P, keyed) BY <2>4, <3>3 DEF ThreeWay, Follows, Resolved
    <3> QED BY <2>3, <3>4, <3>5
  <2>5. CASE ~ arrayKey({B, U, P})
    <3>1. m = Result(List(plain), FALSE) BY <1>4, <2>5 DEF mergeValue
    <3>2. d = List(plain) BY <3>1 DEF Result
    <3> HIDE DEF B, U, P
    <3>3. /\ plain \in Seq(Items0)
          /\ \A x : x \in Members(plain) <=>
                       \/ x \in Members(U) /\ (x \in Members(B) => x \in Members(P))
                       \/ x \in Members(P) /\ x \notin Members(B)
      <4> HIDE DEF plain
      <4> QED BY <2>1, ArrayMerged DEF plain
    <3> HIDE DEF plain, m
    <3>4. d.kind = "array" /\ d.items = plain /\ d \in Wellformed BY <2>2, <3>2, <3>3
    <3>5. \A x : Follows(x \in Members(B), x \in Members(U), x \in Members(P),
                         x \in Members(plain))
      <4> SUFFICES ASSUME NEW x
                   PROVE  Follows(x \in Members(B), x \in Members(U), x \in Members(P),
                                  x \in Members(plain))
          OBVIOUS
      <4>1. x \in Members(plain) <=>
               \/ x \in Members(U) /\ (x \in Members(B) => x \in Members(P))
               \/ x \in Members(P) /\ x \notin Members(B)
            BY <3>3
      <4> QED BY <4>1 DEF Follows
    <3>6. ThreeWay(B, U, P, plain) BY <2>5, <3>5 DEF ThreeWay
    <3> QED BY <2>3, <3>4, <3>6
  <2> QED BY <2>4, <2>5
<1> QED BY <1>2, <1>3, <1>4

LEMMA Joined ==
    ASSUME NEW T, NEW s \in Seq(T), NEW t \in Seq(T), NEW c, c = s \o t
    PROVE  /\ c \in Seq(T) /\ Len(c) = Len(s) + Len(t)
           /\ \A i \in 1..Len(s) + Len(t) :
                 c[i] = IF i <= Len(s) THEN s[i] ELSE t[i - Len(s)]
BY ConcatProperties

(* What comes before the place of a change in a list stays.                *)
LEMMA RemovalKeeps ==
    ASSUME NEW T, NEW s \in Seq(T), NEW k \in 1..Len(s), NEW r, r = RemoveAt(s, k)
    PROVE  /\ r \in Seq(T) /\ Len(r) = Len(s) - 1
           /\ \A i \in 1..(k - 1) : r[i] = s[i]
<1> DEFINE before == SubSeq(s, 1, k - 1)
           after == SubSeq(s, k + 1, Len(s))
<1>1. Len(s) \in Nat /\ k \in Nat /\ 1 <= k /\ k <= Len(s) OBVIOUS
<1>2. \A i \in 1..Len(s) : s[i] \in T BY ElementOfSeq
<1>3. /\ before \in Seq(T) /\ Len(before) = k - 1
      /\ \A i \in 1..(k - 1) : before[i] = s[i]
  <2>1. \A i \in 1..(k - 1) : s[i] \in T BY <1>1, <1>2
  <2>2. 1 \in Int /\ k - 1 \in Int BY <1>1
  <2> QED BY <1>1, <2>1, <2>2, SubSeqProperties
<1>4. after \in Seq(T) /\ Len(after) = Len(s) - k
  <2>1. \A i \in (k + 1)..Len(s) : s[i] \in T BY <1>1, <1>2
  <2>2. k + 1 \in Int /\ Len(s) \in Int BY <1>1
  <2> QED BY <1>1, <2>1, <2>2, SubSeqProperties
<1>5. r = before \o after BY DEF RemoveAt
<1> HIDE DEF before, after
<1>6. /\ r \in Seq(T) /\ Len(r) = Len(before) + Len(after)
      /\ \A i \in 1..Len(before) + Len(after) :
            r[i] = IF i <= Len(before) THEN before[i] ELSE after[i - Len(before)]
  <2>1. before \in Seq(T) /\ after \in Seq(T) BY <1>3, <1>4
  <2> QED BY <1>5, <2>1, Joined
<1>7. ASSUME NEW i \in 1..(k - 1) PROVE r[i] = s[i]
  <2>1. i \in 1..Len(before) + Len(after) /\ i <= Len(before) BY <1>1, <1>3, <1>4
  <2>2. r[i] = before[i] BY <1>6, <2>1
  <2> QED BY <1>3, <2>2
<1>8. Len(r) = Len(s) - 1
  <2>1. Len(r) = Len(before) + Len(after) BY <1>6
  <2>2. (k - 1) + (Len(s) - k) = Len(s) - 1 BY <1>1
  <2> QED BY <1>3, <1>4, <2>1, <2>2
<1> QED BY <1>6, <1>7, <1>8

LEMMA InsertionKeeps ==
    ASSUME NEW T, NEW s \in Seq(T), NEW k \in 1..(Len(s) + 1), NEW e \in T,
           NEW r, r = InsertAt(s, k, e)
    PROVE  /\ r \in Seq(T) /\ Len(r) = Len(s) + 1
           /\ r[k] = e /\ \A i \in 1..(k - 1) : r[i] = s[i]
<1> DEFINE before == SubSeq(s, 1, k - 1)
           after == SubSeq(s, k, Len(s))
           first == before \o <<e>>
<1>1. Len(s) \in Nat /\ k \in Nat /\ 1 <= k /\ k <= Len(s) + 1 OBVIOUS
<1>2. \A i \in 1..Len(s) : s[i] \in T BY ElementOfSeq
<1>3. /\ before \in Seq(T) /\ Len(before) = k - 1
      /\ \A i \in 1..(k - 1) : before[i] = s[i]
  <2>1. \A i \in 1..(k - 1) : s[i] \in T BY <1>1, <1>2
  <2>2. 1 \in Int /\ k - 1 \in Int BY <1>1
  <2> QED BY <1>1, <2>1, <2>2, SubSeqProperties
<1>4. after \in Seq(T) /\ Len(after) = Len(s) - k + 1
  <2>1. \A i \in k..Len(s) : s[i] \in T BY <1>1, <1>2
  <2>2. k \in Int /\ Len(s) \in Int BY <1>1
  <2> QED BY <1>1, <2>1, <2>2, SubSeqProperties
<1>5. r = first \o after BY DEF InsertAt
<1> HIDE DEF before, after
<1>6. /\ first \in Seq(T) /\ Len(first) = k /\ first[k] = e
      /\ \A i \in 1..(k - 1) : first[i] = s[i]
  <2>1. first = Append(before, e) BY <1>3
  <2>2. /\ first \in Seq(T) /\ Len(first) = Len(before) + 1
        /\ \A i \in 1..Len(before) : first[i] = before[i]
        /\ first[Len(before) + 1] = e
    <3> HIDE DEF first
    <3> QED BY <1>3, <2>1, AppendProperties
  <2>3. Len(before) + 1 = k BY <1>1, <1>3
  <2> QED BY <1>3, <2>2, <2>3
<1> HIDE DEF first
<1>7. /\ r \in Seq(T) /\ Len(r) = Len(first) + Len(after)
      /\ \A i \in 1..Len(first) + Len(after) :
            r[i] = IF i <= Len(first) THEN first[i] ELSE after[i - Len(first)]
  <2>1. first \in Seq(T) /\ after \in Seq(T) BY <1>4, <1>6
  <2> QED BY <1>5, <2>1, Joined
<1>8. ASSUME NEW i \in 1..k PROVE r[i] = first[i]
  <2>1. i \in 1..Len(first) + Len(after) /\ i <= Len(first) BY <1>1, <1>4, <1>6
  <2> QED BY <1>7, <2>1
<1>9. k \in 1..k /\ \A i \in 1..(k - 1) : i \in 1..k BY <1>1
<1>10. Len(r) = Len(s) + 1
  <2>1. Len(r) = Len(first) + Len(after) BY <1>7
  <2>2. k + (Len(s) - k + 1) = Len(s) + 1 BY <1>1
  <2> QED BY <1>4, <1>6, <2>1, <2>2
<1> QED BY <1>6, <1>7, <1>8, <1>9, <1>10

(* syncYamlArray(): what has been written so far is as it is wanted.       *)
Written ==
    /\ Arranged
    /\ target <= Len(merge.value.items) + 1 /\ target <= Len(document.items) + 1
    /\ \A i \in 1..(target - 1) : document.items[i] = merge.value.items[i]

MergeInv ==
    /\ base \in Wellformed /\ user \in Wellformed /\ preset \in Wellformed
    /\ target \in Nat \ {0} /\ phase \in {"merge", "sync", "conflict", "applied"}
    /\ phase = "merge" => document = user /\ target = 1
    /\ phase # "merge" => merge = mergeValue(base, user, preset)
    /\ phase = "sync" => document \in Wellformed /\ (target # 1 => Written)
    /\ phase \in {"conflict", "applied"} => document = merge.value

LEMMA ArraysFit ==
    ASSUME NEW v \in Wellformed, v.kind = "array"
    PROVE  v = List(v.items) /\ v.items \in Seq(Items0)
<1>1. v # missing /\ \A n \in Nat : v # Value(n) BY DEF missing, Value
<1>2. PICK s \in Seq(Items0) : v = List(s) BY <1>1 DEF Wellformed
<1> QED BY <1>2 DEF List

LEMMA BoundedFits ==
    ASSUME NEW S, S \subseteq Items0, NEW s \in BoundedSeq(S, MaxItems)
    PROVE  List(s) \in Wellformed
<1>1. PICK n \in 0..MaxItems : s \in [1..n -> S] BY DEF BoundedSeq, SeqOf
<1>2. n \in Nat BY <1>1
<1>3. s \in [1..n -> Items0] BY <1>1
<1>4. s \in Seq(Items0) BY <1>2, <1>3
<1> QED BY <1>4 DEF Wellformed

LEMMA TemplatesFit == Templates \subseteq Wellformed /\ Presets \subseteq Wellformed
<1>1. Body \subseteq Nat \ {0} BY DEF Body
<1>2. Keyed \subseteq Items0 /\ Plain \subseteq Items0
      BY <1>1 DEF Keyed, Plain, Items0
<1>3. Presets \subseteq Wellformed
  <2> SUFFICES ASSUME NEW v \in Presets PROVE v \in Wellformed
      OBVIOUS
  <2>1. CASE v = missing BY <2>1 DEF Wellformed
  <2>2. CASE \E n \in Body : v = Value(n) BY <1>1, <2>2 DEF Wellformed
  <2>3. CASE \E s \in BoundedSeq(Keyed, MaxItems) : v = List(s)
        BY <1>2, <2>3, BoundedFits
  <2>4. CASE \E s \in BoundedSeq(Plain, MaxItems) : v = List(s)
        BY <1>2, <2>4, BoundedFits
  <2> QED BY <2>1, <2>2, <2>3, <2>4 DEF Presets
<1>4. Templates \subseteq Wellformed
  <2> SUFFICES ASSUME NEW v \in Templates PROVE v \in Wellformed
      OBVIOUS
  <2>1. CASE v \in Presets BY <1>3, <2>1
  <2>2. CASE \E s \in BoundedSeq(Keyed \cup Plain, MaxItems) : v = List(s)
    <3>1. Keyed \cup Plain \subseteq Items0 BY <1>2
    <3> QED BY <2>2, <3>1, BoundedFits
  <2> QED BY <2>1, <2>2 DEF Templates
<1> QED BY <1>3, <1>4

LEMMA MergeStarts == PresetMergeInit => MergeInv
<1> SUFFICES ASSUME PresetMergeInit PROVE MergeInv
    OBVIOUS
<1>1. base \in Wellformed /\ user \in Wellformed /\ preset \in Wellformed
      BY TemplatesFit DEF PresetMergeInit
<1> QED BY <1>1 DEF PresetMergeInit, MergeInv

LEMMA MergeStep == MergeInv /\ Merge => MergeInv'
<1> SUFFICES ASSUME MergeInv, Merge PROVE MergeInv'
    OBVIOUS
<1> USE DEF MergeInv, Merge
<1> QED OBVIOUS

LEMMA ReplaceStep == MergeInv /\ Replace => MergeInv'
<1> SUFFICES ASSUME MergeInv, Replace PROVE MergeInv'
    OBVIOUS
<1>1. phase' \in {"conflict", "applied"} BY DEF Replace, Outcome
<1> QED BY <1>1 DEF MergeInv, Replace

(* SyncItem and SyncEnds: what has been written and what is wanted.        *)
LEMMA SyncFacts ==
    ASSUME MergeInv, phase = "sync", Arranged
    PROVE  /\ merge.value = List(merge.value.items) /\ merge.value.items \in Seq(Items0)
           /\ document.items \in Seq(Items0)
           /\ target \in Nat \ {0}
           /\ target <= Len(merge.value.items) + 1 /\ target <= Len(document.items) + 1
           /\ \A i \in 1..(target - 1) : document.items[i] = merge.value.items[i]
<1>1. merge.value \in Wellformed BY MergeRebases DEF MergeInv
<1>2. /\ merge.value = List(merge.value.items) /\ merge.value.items \in Seq(Items0)
      BY <1>1, ArraysFit DEF Arranged
<1>3. document.items \in Seq(Items0) BY ArraysFit DEF MergeInv, Arranged
<1>4. target \in Nat \ {0} BY DEF MergeInv
<1>5. CASE target = 1
  <2>1. Len(merge.value.items) \in Nat /\ Len(document.items) \in Nat BY <1>2, <1>3
  <2>2. 1..(target - 1) = {} BY <1>5
  <2> QED BY <1>2, <1>3, <1>5, <2>1, <2>2
<1>6. CASE target # 1
  <2>1. Written BY <1>6 DEF MergeInv
  <2> QED BY <1>2, <1>3, <1>4, <2>1 DEF Written
<1> QED BY <1>5, <1>6

LEMMA SyncItemStep == MergeInv /\ SyncItem => MergeInv'
<1> SUFFICES ASSUME MergeInv, SyncItem PROVE MergeInv'
    OBVIOUS
<1> DEFINE items == document.items
           wanted == merge.value.items[target]
           found == {i \in DOMAIN items :
                        i >= target /\ Identity(items[i]) = Identity(wanted)}
           first == CHOOSE i \in found : \A j \in found : i <= j
           without == IF found = {} THEN items ELSE RemoveAt(items, first)
           next == InsertAt(without, target, wanted)
<1>1. phase = "sync" /\ Arranged /\ target <= Len(merge.value.items) BY DEF SyncItem
<1>2. /\ merge.value.items \in Seq(Items0) /\ items \in Seq(Items0)
      /\ target \in Nat \ {0} /\ target <= Len(items) + 1
      /\ \A i \in 1..(target - 1) : items[i] = merge.value.items[i]
      BY <1>1, SyncFacts
<1>3. document' = List(next) /\ target' = target + 1 BY DEF SyncItem
<1>4. Len(items) \in Nat /\ DOMAIN items = 1..Len(items) BY <1>2
<1>5. wanted \in Items0
  <2>1. target \in 1..Len(merge.value.items) BY <1>1, <1>2
  <2> QED BY <1>2, <2>1, ElementOfSeq
<1> HIDE DEF items, wanted
<1>6. /\ without \in Seq(Items0) /\ target <= Len(without) + 1
      /\ \A i \in 1..(target - 1) : without[i] = items[i]
  <2>1. CASE found = {} BY <1>2, <2>1
  <2>2. CASE found # {}
    <3>1. \A i \in found : i \in 1..Len(items) /\ i >= target BY <1>4
    <3> HIDE DEF found
    <3>2. first \in found
      <4>1. found \in SUBSET Int /\ \A i \in found : 1 <= i /\ i <= Len(items)
            BY <1>4, <3>1
      <4>2. Min(found) \in found /\ \A j \in found : Min(found) <= j
        <5>1. 1 \in Int /\ Len(items) \in Int BY <1>4
        <5> QED BY <2>2, <4>1, <5>1, Extremes
      <4> QED BY <4>2
    <3> DEFINE k == first
    <3>3. k \in 1..Len(items) /\ k >= target BY <3>1, <3>2
    <3>4. without = RemoveAt(items, k) BY <2>2
    <3> HIDE DEF k, without
    <3>5. /\ without \in Seq(Items0) /\ Len(without) = Len(items) - 1
          /\ \A i \in 1..(k - 1) : without[i] = items[i]
          BY <1>2, <3>3, <3>4, RemovalKeeps
    <3>6. target <= Len(without) + 1 BY <1>2, <1>4, <3>3, <3>5
    <3>7. \A i \in 1..(target - 1) : i \in 1..(k - 1) BY <1>2, <1>4, <3>3
    <3> QED BY <3>5, <3>6, <3>7
  <2> QED BY <2>1, <2>2
<1> HIDE DEF without
<1>7. /\ next \in Seq(Items0) /\ Len(next) = Len(without) + 1 /\ next[target] = wanted
      /\ \A i \in 1..(target - 1) : next[i] = without[i]
  <2>1. Len(without) \in Nat BY <1>6
  <2>2. target \in 1..(Len(without) + 1) BY <1>2, <1>6, <2>1
  <2> HIDE DEF next
  <2> QED BY <1>5, <1>6, <2>2, InsertionKeeps DEF next
<1>8. document' \in Wellformed /\ document'.kind = "array" /\ document'.items = next
  <2> HIDE DEF next
  <2> QED BY <1>3, <1>7 DEF Wellformed, List
<1> HIDE DEF next
<1>9. \A i \in 1..target : next[i] = merge.value.items[i]
  <2> SUFFICES ASSUME NEW i \in 1..target PROVE next[i] = merge.value.items[i]
      OBVIOUS
  <2>1. CASE i = target BY <1>7, <2>1 DEF wanted
  <2>2. CASE i # target
    <3>1. i \in 1..(target - 1) BY <1>2, <2>2
    <3> QED BY <1>2, <1>6, <1>7, <3>1
  <2> QED BY <2>1, <2>2
<1>10. /\ target' \in Nat \ {0} /\ target' - 1 = target
       /\ target' <= Len(merge.value.items) + 1 /\ target' <= Len(next) + 1
  <2>1. Len(without) \in Nat /\ Len(merge.value.items) \in Nat BY <1>2, <1>6
  <2> QED BY <1>1, <1>2, <1>3, <1>6, <1>7, <2>1
<1>11. merge' = merge /\ phase' = phase /\ base' = base /\ user' = user /\ preset' = preset
       BY DEF SyncItem
<1>12. Written'
  <2>1. merge'.value = merge.value BY <1>11
  <2>2. Arranged' BY <1>1, <1>8, <2>1 DEF Arranged
  <2> QED BY <1>8, <1>9, <1>10, <2>1, <2>2 DEF Written
<1> QED BY <1>1, <1>8, <1>10, <1>11, <1>12 DEF MergeInv

LEMMA SyncEndsStep == MergeInv /\ SyncEnds => MergeInv'
<1> SUFFICES ASSUME MergeInv, SyncEnds PROVE MergeInv'
    OBVIOUS
<1> DEFINE items == document.items
           wanted == merge.value.items
           cut == SubSeq(items, 1, Len(wanted))
<1>1. phase = "sync" /\ Arranged /\ target > Len(wanted) BY DEF SyncEnds
<1>2. /\ merge.value = List(wanted) /\ wanted \in Seq(Items0) /\ items \in Seq(Items0)
      /\ target \in Nat \ {0}
      /\ target <= Len(wanted) + 1 /\ target <= Len(items) + 1
      /\ \A i \in 1..(target - 1) : items[i] = wanted[i]
      BY <1>1, SyncFacts
<1>3. document' = List(cut) BY DEF SyncEnds, Truncated
<1> HIDE DEF items, wanted
<1>4. Len(wanted) \in Nat /\ Len(items) \in Nat BY <1>2
<1>5. target - 1 = Len(wanted) /\ Len(wanted) <= Len(items) BY <1>1, <1>2, <1>4
<1>6. cut = wanted
  <2>1. \A i \in 1..Len(wanted) : items[i] = wanted[i] BY <1>2, <1>5
  <2>2. \A i \in 1..Len(wanted) : items[i] \in Items0
    <3>1. \A i \in 1..Len(wanted) : i \in 1..Len(items) BY <1>4, <1>5
    <3> QED BY <1>2, <3>1, ElementOfSeq
  <2>3. /\ cut \in Seq(Items0) /\ Len(cut) = Len(wanted)
        /\ \A i \in 1..Len(wanted) : cut[i] = items[i]
    <3>1. 1 \in Int /\ Len(wanted) \in Int BY <1>4
    <3> QED BY <1>4, <2>2, <3>1, SubSeqProperties
  <2> HIDE DEF cut
  <2> QED BY <1>2, <2>1, <2>3
<1>7. document' = merge.value BY <1>2, <1>3, <1>6
<1>8. phase' \in {"conflict", "applied"} /\ merge' = merge /\ target' = target
      /\ base' = base /\ user' = user /\ preset' = preset
      BY DEF SyncEnds, Outcome
<1> QED BY <1>1, <1>7, <1>8 DEF MergeInv

LEMMA MergeInvKept == MergeInv /\ [PresetMergeNext]_mergeVars => MergeInv'
<1> SUFFICES ASSUME MergeInv, [PresetMergeNext]_mergeVars PROVE MergeInv'
    OBVIOUS
<1>1. CASE UNCHANGED mergeVars BY <1>1 DEF mergeVars, MergeInv, Written, Arranged
<1> QED BY <1>1, MergeStep, ReplaceStep, SyncItemStep, SyncEndsStep DEF PresetMergeNext

LEMMA DocumentKept == MergeInv => DocumentKeepsEdits
BY MergeRebases DEF MergeInv, DocumentKeepsEdits

(* A template of an engine has a value at each of its paths.               *)
Paths(e) == DOMAIN presets(e, 1)
Shaped(e) == [Paths(e) -> Wellformed]
Revision(e) == [template : Shaped(e), preset : Nat, from : Nat]

LEMMA ValuesFit == \A n \in Nat : Value(n) \in Wellformed
BY DEF Wellformed

LEMMA ShippedFits ==
    /\ missing \in Wellformed /\ Placeholder \in Wellformed /\ Own \in Wellformed
    /\ Twice \in Wellformed /\ Shipped \in Wellformed
    /\ Rule(2) \in Items0 /\ Rule(3) \in Items0 /\ Guard \in Items0
    /\ DirectOutbound \in Items0 /\ Blackhole \in Items0 /\ Outbound("block", 2) \in Items0
<1>1. missing \in Wellformed BY DEF Wellformed
<1>2. /\ Placeholder \in Wellformed /\ Own \in Wellformed
      /\ Twice \in Wellformed /\ Shipped \in Wellformed
      BY ValuesFit DEF Placeholder, Own, Twice, Shipped
<1>3. "direct" \in Tag /\ "block" \in Tag BY TemplatesAssumption
<1>4. \A t \in Tag \cup {""} : \A n \in Nat \ {0} : [tag |-> t, body |-> n] \in Items0
      BY DEF Items0
<1>5. Rule(2) \in Items0 /\ Rule(3) \in Items0 /\ Guard \in Items0
  <2>1. "" \in Tag \cup {""} /\ 1 \in Nat \ {0} /\ 2 \in Nat \ {0} /\ 3 \in Nat \ {0}
        OBVIOUS
  <2> QED BY <1>4, <2>1 DEF Rule, Guard
<1>6. /\ DirectOutbound \in Items0 /\ Blackhole \in Items0 /\ Outbound("block", 2) \in Items0
  <2>1. 1 \in Nat \ {0} /\ 2 \in Nat \ {0} /\ 4 \in Nat \ {0} OBVIOUS
  <2> QED BY <1>3, <1>4, <2>1 DEF DirectOutbound, Blackhole, Outbound
<1> QED BY <1>1, <1>2, <1>5, <1>6

LEMMA ListsFit ==
    /\ List(<<>>) \in Wellformed
    /\ \A x \in Items0 : List(<<x>>) \in Wellformed
    /\ \A x, y \in Items0 : List(<<x, y>>) \in Wellformed
    /\ \A x, y, z \in Items0 : List(<<x, y, z>>) \in Wellformed
<1>1. <<>> \in Seq(Items0) BY EmptySeq
<1>2. \A x \in Items0 : <<x>> \in Seq(Items0) OBVIOUS
<1>3. \A x, y \in Items0 : <<x, y>> \in Seq(Items0) OBVIOUS
<1>4. \A x, y, z \in Items0 : <<x, y, z>> \in Seq(Items0) OBVIOUS
<1> QED BY <1>1, <1>2, <1>3, <1>4 DEF Wellformed

LEMMA PresetFits ==
    ASSUME NEW e, NEW D, NEW shipped \in [D -> Wellformed]
    PROVE  Preset(e, shipped) \in [D \cup protectedBlocks[e] -> Wellformed]
BY ShippedFits DEF Preset

(* A preset has the same paths in every version.                           *)
LEMMA PresetsShaped ==
    ASSUME NEW e \in EngineIds, NEW n \in Nat
    PROVE  presets(e, n) \in Shaped(e)
<1>1. ASSUME NEW D, \A k \in Nat : presets(e, k) \in [D -> Wellformed]
      PROVE  presets(e, n) \in Shaped(e)
  <2>1. 1 \in Nat OBVIOUS
  <2>2. presets(e, 1) \in [D -> Wellformed] BY <1>1, <2>1
  <2>3. Paths(e) = D BY <2>2 DEF Paths
  <2> QED BY <1>1, <2>3 DEF Shaped
<1>2. \A k, version : \A v \in Wellformed : Since(k, version, v) \in Wellformed
      BY ShippedFits DEF Since
<1>3. CASE e = "hysteria"
  <2> DEFINE D == {"rules", "masquerade", "speedTest"}
  <2>1. ASSUME NEW k \in Nat
        PROVE  presets(e, k) \in [D \cup protectedBlocks["hysteria"] -> Wellformed]
    <3> DEFINE a == Since(k, 2, List(<<Guard>>))
               b == Since(k, 3, Shipped)
               shipped == [rules |-> a, masquerade |-> Shipped, speedTest |-> b]
    <3>1. a \in Wellformed /\ b \in Wellformed BY <1>2, ShippedFits, ListsFit
    <3>2. presets(e, k) = Preset("hysteria", shipped) BY <1>3 DEF presets, hysteriaPreset
    <3> HIDE DEF a, b
    <3>3. shipped \in [D -> Wellformed] BY <3>1, ShippedFits
    <3> HIDE DEF shipped, D
    <3>4. Preset("hysteria", shipped) \in [D \cup protectedBlocks["hysteria"] -> Wellformed]
          BY <3>3, PresetFits
    <3> QED BY <3>2, <3>4
  <2> QED BY <1>1, <2>1
<1>4. CASE e = "xray"
  <2> DEFINE D == {"log", "outbounds", "rules"}
  <2>1. ASSUME NEW k \in Nat
        PROVE  presets(e, k) \in [D \cup protectedBlocks["xray"] -> Wellformed]
    <3> DEFINE a == List(xrayOutbounds(k))
               b == Since(k, 2, List(<<Guard>>))
               shipped == [log |-> Shipped, outbounds |-> a, rules |-> b]
    <3>1. a \in Wellformed /\ b \in Wellformed
          BY <1>2, ShippedFits, ListsFit DEF xrayOutbounds
    <3>2. presets(e, k) = Preset("xray", shipped) BY <1>4 DEF presets, xrayPreset
    <3> HIDE DEF a, b
    <3>3. shipped \in [D -> Wellformed] BY <3>1, ShippedFits
    <3> HIDE DEF shipped, D
    <3>4. Preset("xray", shipped) \in [D \cup protectedBlocks["xray"] -> Wellformed]
          BY <3>3, PresetFits
    <3> QED BY <3>2, <3>4
  <2> QED BY <1>1, <2>1
<1>5. CASE e = "mihomo"
  <2> DEFINE D == {"rules", "mode", "tun"}
  <2>1. ASSUME NEW k \in Nat
        PROVE  presets(e, k) \in [D \cup protectedBlocks["mihomo"] -> Wellformed]
    <3> DEFINE a == List(<<Rule(3), Guard>>)
               shipped == [rules |-> a, mode |-> Shipped, tun |-> missing]
    <3>1. a \in Wellformed BY ShippedFits, ListsFit
    <3>2. presets(e, k) = Preset("mihomo", shipped) BY <1>5 DEF presets, mihomoPreset
    <3> HIDE DEF a
    <3>3. shipped \in [D -> Wellformed] BY <3>1, ShippedFits
    <3> HIDE DEF shipped, D
    <3>4. Preset("mihomo", shipped) \in [D \cup protectedBlocks["mihomo"] -> Wellformed]
          BY <3>3, PresetFits
    <3> QED BY <3>2, <3>4
  <2> QED BY <1>1, <2>1
<1>6. CASE e = "sing-box"
  <2> DEFINE D == {"services", "log", "rules"}
  <2>1. ASSUME NEW k \in Nat
        PROVE  presets(e, k) \in [D \cup protectedBlocks["sing-box"] -> Wellformed]
    <3> DEFINE a == Since(k, 2, Placeholder)
               b == List(<<Rule(3), Guard>>)
               shipped == [services |-> a, log |-> Shipped, rules |-> b]
    <3>1. a \in Wellformed /\ b \in Wellformed BY <1>2, ShippedFits, ListsFit
    <3>2. presets(e, k) = Preset("sing-box", shipped) BY <1>6 DEF presets, singBoxPreset
    <3> HIDE DEF a, b
    <3>3. shipped \in [D -> Wellformed] BY <3>1, ShippedFits
    <3> HIDE DEF shipped, D
    <3>4. Preset("sing-box", shipped) \in [D \cup protectedBlocks["sing-box"] -> Wellformed]
          BY <3>3, PresetFits
    <3> QED BY <3>2, <3>4
  <2> QED BY <1>1, <2>1
<1>7. CASE e = "amneziawg"
  <2> DEFINE D == {"other"}
             shipped == [other |-> missing]
  <2>1. \A k : presets(e, k) = Preset("amneziawg", shipped)
        BY <1>7 DEF presets, amneziaPreset
  <2>2. shipped \in [D -> Wellformed] BY ShippedFits
  <2> HIDE DEF shipped, D
  <2>3. Preset("amneziawg", shipped) \in [D \cup protectedBlocks["amneziawg"] -> Wellformed]
        BY <2>2, PresetFits
  <2> QED BY <1>1, <2>1, <2>3
<1> QED BY <1>3, <1>4, <1>5, <1>6, <1>7 DEF EngineIds

LEMMA VersionsAreNumbers == \A e \in EngineIds : currentVersion[e] \in Nat
BY DEF currentVersion, EngineIds

(* What an upgrade makes of a template is a template, and it keeps each    *)
(* path's edits.                                                           *)
LEMMA UpgradeRebases ==
    ASSUME NEW e \in EngineIds, NEW t \in Shaped(e), NEW n \in Nat,
           NEW r, r = mergeEnginePreset(e, t, n), ~ r.error
    PROVE  /\ r.template \in Shaped(e)
           /\ \A p \in DOMAIN r.template :
                 Rebased(presets(e, n)[p], t[p], defaultTemplate(e)[p], r.template[p])
<1>1. DOMAIN t = Paths(e) /\ \A p \in Paths(e) : t[p] \in Wellformed BY DEF Shaped
<1>2. \A p \in Paths(e) : presets(e, n)[p] \in Wellformed BY PresetsShaped DEF Shaped
<1>3. \A p \in Paths(e) : defaultTemplate(e)[p] \in Wellformed
      BY PresetsShaped, VersionsAreNumbers DEF Shaped, defaultTemplate
<1>4. Known(e, n) BY DEF mergeEnginePreset
<1>5. CASE n = currentVersion[e]
  <2>1. r.template = t BY <1>4, <1>5 DEF mergeEnginePreset
  <2>2. presets(e, n) = defaultTemplate(e) BY <1>5 DEF defaultTemplate
  <2>3. \A b, u : Rebased(b, u, b, u) BY DEF Rebased, Conflicting, Follows
  <2> QED BY <2>1, <2>2, <2>3
<1>6. CASE n # currentVersion[e]
  <2> DEFINE b == presets(e, n)
             d == defaultTemplate(e)
             new == [path \in DOMAIN t |-> mergeValue(b[path], t[path], d[path]).value]
  <2>1. r.template = new BY <1>4, <1>6 DEF mergeEnginePreset, mergeObject, Base
  <2> HIDE DEF b, d
  <2>2. \A p \in Paths(e) : new[p] \in Wellformed /\ Rebased(b[p], t[p], d[p], new[p])
    <3> SUFFICES ASSUME NEW p \in Paths(e)
                 PROVE  new[p] \in Wellformed /\ Rebased(b[p], t[p], d[p], new[p])
        OBVIOUS
    <3>1. b[p] \in Wellformed /\ t[p] \in Wellformed /\ d[p] \in Wellformed
          BY <1>1, <1>2, <1>3 DEF b, d
    <3>2. new[p] = mergeValue(b[p], t[p], d[p]).value BY <1>1
    <3> HIDE DEF new
    <3> QED BY <3>1, <3>2, MergeRebases
  <2>3. new \in Shaped(e) /\ DOMAIN new = Paths(e) BY <1>1, <2>2 DEF Shaped
  <2> HIDE DEF new
  <2> QED BY <2>1, <2>2, <2>3 DEF b, d
<1> QED BY <1>5, <1>6

(* The revisions of an engine: each has what protects the server, and is   *)
(* what became of the one it was made from.                                *)
MadeFrom(e, history, r) ==
    r.from # 0 =>
        \A p \in DOMAIN r.template :
            Rebased(presets(e, history[r.from].preset)[p], history[r.from].template[p],
                    defaultTemplate(e)[p], r.template[p])

Descends(e, history, i) ==
    validateTemplate(e, history[i].template) /\ MadeFrom(e, history, history[i])

IsHistory(e, history) ==
    /\ history \in Seq(Revision(e))
    /\ \A i \in 2..Len(history) : history[i].from < i /\ Descends(e, history, i)

TemplatesInv ==
    /\ engine \in EngineIds
    /\ IsHistory(engine, revisions)
    /\ ReconciledOrReported

LEMMA HistoryGrows ==
    ASSUME NEW e, NEW history, IsHistory(e, history), NEW r \in Revision(e),
           r.from <= Len(history), validateTemplate(e, r.template),
           MadeFrom(e, history, r)
    PROVE  /\ IsHistory(e, Append(history, r))
           /\ Append(history, r)[Len(Append(history, r))] = r
<1> DEFINE n == Len(history)
           next == Append(history, r)
<1>1. history \in Seq(Revision(e)) /\ n \in Nat BY DEF IsHistory
<1>2. /\ next \in Seq(Revision(e)) /\ Len(next) = n + 1 /\ next[n + 1] = r
      /\ \A i \in 1..n : next[i] = history[i]
      BY <1>1, AppendProperties
<1> HIDE DEF next
<1>3. \A i \in 2..n : history[i].from < i /\ Descends(e, history, i) BY DEF IsHistory
<1>4. r.from \in Nat /\ r.from <= n BY DEF Revision
<1>5. \A i \in 1..n : history[i].from \in Nat
  <2>1. \A i \in 1..n : history[i] \in Revision(e) BY <1>1, ElementOfSeq
  <2> HIDE DEF n
  <2> QED BY <2>1 DEF Revision
<1> HIDE DEF n
<1>6. ASSUME NEW i \in 2..(n + 1) PROVE next[i].from < i /\ Descends(e, next, i)
  <2>1. CASE i = n + 1
    <3>1. next[i] = r BY <1>2, <2>1
    <3>2. r.from < i BY <1>1, <1>4, <2>1
    <3>3. r.from # 0 => next[r.from] = history[r.from] BY <1>1, <1>2, <1>4
    <3> QED BY <3>1, <3>2, <3>3 DEF Descends, MadeFrom
  <2>2. CASE i # n + 1
    <3>1. i \in 2..n /\ i \in 1..n BY <1>1, <2>2
    <3>2. next[i] = history[i] BY <1>2, <3>1
    <3>3. history[i].from < i /\ Descends(e, history, i) BY <1>3, <3>1
    <3>4. history[i].from \in Nat BY <1>5, <3>1
    <3>5. history[i].from # 0 => next[history[i].from] = history[history[i].from]
      <4>1. history[i].from # 0 => history[i].from \in 1..n BY <1>1, <3>1, <3>3, <3>4
      <4> QED BY <1>2, <4>1
    <3> QED BY <3>2, <3>3, <3>5 DEF Descends, MadeFrom
  <2> QED BY <2>1, <2>2
<1> QED BY <1>2, <1>6 DEF IsHistory, next

(* apply(): a revision of the newest preset is added.                      *)
LEMMA AppliedKeeps ==
    ASSUME TemplatesInv, NEW t \in Shaped(engine), NEW from \in 0..Len(revisions),
           Applied(t, from),
           from # 0 =>
               \A p \in DOMAIN t :
                   Rebased(presets(engine, revisions[from].preset)[p],
                           revisions[from].template[p],
                           defaultTemplate(engine)[p], t[p])
    PROVE  /\ engine' \in EngineIds /\ IsHistory(engine', revisions')
           /\ ReconciledOrReported'
<1> DEFINE r == [template |-> t, preset |-> currentVersion[engine], from |-> from]
<1>1. engine' = engine /\ revisions' = Append(revisions, r) /\ validateTemplate(engine, t)
      BY DEF Applied
<1>2. engine \in EngineIds /\ IsHistory(engine, revisions) BY DEF TemplatesInv
<1>3. Len(revisions) \in Nat BY <1>2 DEF IsHistory
<1>4. r \in Revision(engine) BY <1>2, <1>3, VersionsAreNumbers DEF Revision
<1>5. r.from = from /\ r.template = t /\ from <= Len(revisions) BY <1>3
<1>6. r.preset = currentVersion[engine] OBVIOUS
<1>7. r.from <= Len(revisions) /\ validateTemplate(engine, r.template) BY <1>1, <1>5
<1>8. MadeFrom(engine, revisions, r) BY <1>5 DEF MadeFrom
<1> HIDE DEF r
<1>9. IsHistory(engine, revisions') /\ revisions'[Len(revisions')] = r
  <2> DEFINE next == Append(revisions, r)
  <2>1. IsHistory(engine, next) /\ next[Len(next)] = r
    <3>1. IsHistory(engine, revisions) BY <1>2
    <3>2. r.from <= Len(revisions) BY <1>7
    <3>3. validateTemplate(engine, r.template) BY <1>7
    <3> QED BY <1>4, <1>8, <3>1, <3>2, <3>3, HistoryGrows
  <2>2. revisions' = next BY <1>1
  <2> HIDE DEF next
  <2> QED BY <2>1, <2>2
<1>10. ReconciledOrReported' BY <1>1, <1>6, <1>9 DEF ReconciledOrReported, Active
<1> QED BY <1>1, <1>2, <1>9, <1>10

LEMMA EditsShaped ==
    ASSUME engine \in EngineIds, NEW t \in Shaped(engine), NEW u \in Edited(t)
    PROVE  u \in Shaped(engine)
<1>1. PICK p \in DOMAIN t : \E v \in Editable(p) : u = [t EXCEPT ![p] = v] BY DEF Edited
<1>2. PICK v \in Editable(p) : u = [t EXCEPT ![p] = v] BY <1>1
<1>3. v \in Wellformed
  <2>1. CASE p \in protectedBlocks[engine] BY <2>1, ShippedFits DEF Editable
  <2>2. CASE p \notin protectedBlocks[engine] /\ p = "rules"
    <3>1. v \in {missing, Own, List(<<>>), List(<<Guard>>), List(<<Rule(2)>>),
                 List(<<Guard, Rule(2)>>), List(<<Rule(2), Rule(3), Guard>>)}
          BY <2>2 DEF Editable
    <3> QED BY <3>1, ShippedFits, ListsFit
  <2>3. CASE p \notin protectedBlocks[engine] /\ p # "rules" /\ p = "outbounds"
    <3>1. v \in {missing, List(<<DirectOutbound>>), List(<<DirectOutbound, Blackhole>>),
                 List(<<Outbound("block", 2), DirectOutbound>>),
                 List(<<DirectOutbound, Rule(2)>>)}
          BY <2>3 DEF Editable
    <3> QED BY <3>1, ShippedFits, ListsFit
  <2>4. CASE p \notin protectedBlocks[engine] /\ p # "rules" /\ p # "outbounds"
        BY <2>4, ShippedFits DEF Editable
  <2> QED BY <2>1, <2>2, <2>3, <2>4
<1> QED BY <1>2, <1>3 DEF Shaped

LEMMA TemplatesStart == TemplatesInit => TemplatesInv
<1> SUFFICES ASSUME TemplatesInit PROVE TemplatesInv
    OBVIOUS
<1>1. engine \in EngineIds /\ report = "none" BY DEF TemplatesInit
<1>2. ReconciledOrReported BY <1>1 DEF ReconciledOrReported
<1>3. CASE revisions = <<>>
  <2>1. revisions \in Seq(Revision(engine)) /\ Len(revisions) = 0 BY <1>3
  <2> QED BY <1>1, <1>2, <2>1 DEF TemplatesInv, IsHistory
<1>4. CASE \E r \in Earlier(engine) : revisions = <<r>>
  <2>1. PICK r \in Earlier(engine) : revisions = <<r>> BY <1>4
  <2>2. currentVersion[engine] \in Nat BY <1>1, VersionsAreNumbers
  <2>3. PICK n \in 1..(currentVersion[engine] + 1) :
            \E t \in EditedTwice(presets(engine, n)) :
                r = [template |-> t, preset |-> n, from |-> 0]
        BY DEF Earlier
  <2>4. PICK t \in EditedTwice(presets(engine, n)) :
            r = [template |-> t, preset |-> n, from |-> 0]
        BY <2>3
  <2>5. n \in Nat BY <2>2, <2>3
  <2>6. t \in Shaped(engine)
    <3>1. presets(engine, n) \in Shaped(engine) BY <1>1, <2>5, PresetsShaped
    <3>2. PICK once \in Edited(presets(engine, n)) : t \in Edited(once)
          BY <2>4 DEF EditedTwice
    <3>3. once \in Shaped(engine) BY <1>1, <3>1, EditsShaped
    <3> QED BY <1>1, <3>2, <3>3, EditsShaped
  <2>7. r \in Revision(engine) BY <2>4, <2>5, <2>6 DEF Revision
  <2>8. revisions \in Seq(Revision(engine)) /\ Len(revisions) = 1 BY <2>1, <2>7
  <2>9. 2..Len(revisions) = {} BY <2>8
  <2> QED BY <1>1, <1>2, <2>8, <2>9 DEF TemplatesInv, IsHistory
<1> QED BY <1>3, <1>4 DEF TemplatesInit

LEMMA RevisionsFit ==
    ASSUME TemplatesInv, NEW v \in 1..Len(revisions)
    PROVE  /\ revisions[v].template \in Shaped(engine) /\ revisions[v].preset \in Nat
           /\ v \in 0..Len(revisions)
<1>1. revisions \in Seq(Revision(engine)) BY DEF TemplatesInv, IsHistory
<1>2. revisions[v] \in Revision(engine) BY <1>1, ElementOfSeq
<1> QED BY <1>2 DEF Revision

(* reconcilePresets() and rollback().                                      *)
LEMMA UpgradesKeep ==
    ASSUME TemplatesInv, NEW v \in 1..Len(revisions), ~ Upgrade(revisions[v]).error,
           Applied(Upgrade(revisions[v]).template, v)
    PROVE  TemplatesInv'
<1> DEFINE t == revisions[v].template
           n == revisions[v].preset
           r == mergeEnginePreset(engine, t, n)
<1>1. t \in Shaped(engine) /\ n \in Nat /\ v \in 0..Len(revisions) BY RevisionsFit
<1>2. engine \in EngineIds BY DEF TemplatesInv
<1>3. Upgrade(revisions[v]) = r BY DEF Upgrade
<1>4. ~ r.error /\ Applied(r.template, v) BY <1>3
<1>5. /\ r.template \in Shaped(engine)
      /\ \A p \in DOMAIN r.template :
            Rebased(presets(engine, n)[p], t[p], defaultTemplate(engine)[p], r.template[p])
  <2> HIDE DEF t, n, r
  <2> QED BY <1>1, <1>2, <1>4, UpgradeRebases DEF r
<1> HIDE DEF r
<1>6. /\ engine' \in EngineIds /\ IsHistory(engine', revisions')
      /\ ReconciledOrReported'
      BY <1>1, <1>4, <1>5, AppliedKeeps
<1> QED BY <1>6 DEF TemplatesInv

LEMMA EditKeeps ==
    ASSUME TemplatesInv, NEW t \in Shaped(engine), Applied(t, 0)
    PROVE  TemplatesInv'
<1>1. 0 \in 0..Len(revisions) BY DEF TemplatesInv, IsHistory
<1> QED BY <1>1, AppliedKeeps DEF TemplatesInv

LEMMA ApplyStep == TemplatesInv /\ Apply => TemplatesInv'
<1> SUFFICES ASSUME TemplatesInv, Apply PROVE TemplatesInv'
    OBVIOUS
<1>1. PICK shown \in engineState : \E t \in Edited(shown) : Applied(t, 0) BY DEF Apply
<1>2. PICK t \in Edited(shown) : Applied(t, 0) BY <1>1
<1>3. engine \in EngineIds BY DEF TemplatesInv
<1>4. defaultTemplate(engine) \in Shaped(engine)
      BY <1>3, PresetsShaped, VersionsAreNumbers DEF defaultTemplate
<1>5. shown \in Shaped(engine)
  <2>1. CASE revisions = <<>> BY <1>4, <2>1 DEF engineState
  <2>2. CASE revisions # <<>>
    <3> DEFINE n == Len(revisions)
    <3>1. n \in 1..n BY <2>2 DEF TemplatesInv, IsHistory
    <3>2. Active.template \in Shaped(engine) /\ Active.preset \in Nat
          BY <3>1, RevisionsFit DEF Active
    <3>3. Upgrade(Active).template \in Shaped(engine)
      <4> DEFINE r == mergeEnginePreset(engine, Active.template, Active.preset)
      <4>1. Upgrade(Active) = r BY DEF Upgrade
      <4>2. CASE ~ Known(engine, Active.preset)
            BY <3>2, <4>1, <4>2 DEF mergeEnginePreset
      <4>3. CASE Known(engine, Active.preset)
        <5>1. ~ r.error BY <4>3 DEF mergeEnginePreset
        <5> HIDE DEF r
        <5>2. r.template \in Shaped(engine) BY <1>3, <3>2, <5>1, UpgradeRebases DEF r
        <5> QED BY <4>1, <5>2
      <4> QED BY <4>2, <4>3
    <3> QED BY <2>2, <3>2, <3>3 DEF engineState
  <2> QED BY <2>1, <2>2
<1>6. t \in Shaped(engine) BY <1>3, <1>5, EditsShaped
<1> QED BY <1>2, <1>6, EditKeeps

LEMMA TemplatesInvKept == TemplatesInv /\ [TemplatesNext]_templateVars => TemplatesInv'
<1> SUFFICES ASSUME TemplatesInv, [TemplatesNext]_templateVars PROVE TemplatesInv'
    OBVIOUS
<1>1. engine \in EngineIds BY DEF TemplatesInv
<1>2. CASE Apply BY <1>2, ApplyStep
<1>3. CASE Rollback
  <2>1. PICK v \in DOMAIN revisions : /\ ~ Upgrade(revisions[v]).error
                                      /\ Applied(Upgrade(revisions[v]).template, v)
        BY <1>3 DEF Rollback
  <2>2. v \in 1..Len(revisions) BY DEF TemplatesInv, IsHistory
  <2> QED BY <2>1, <2>2, UpgradesKeep
<1>4. CASE FirstPreset
  <2>1. defaultTemplate(engine) \in Shaped(engine)
        BY <1>1, PresetsShaped, VersionsAreNumbers DEF defaultTemplate
  <2>2. Applied(defaultTemplate(engine), 0) BY <1>4 DEF FirstPreset
  <2> QED BY <2>1, <2>2, EditKeeps
<1>5. CASE ReconcilePresets
  <2> DEFINE v == Len(revisions)
  <2>1. revisions # <<>> /\ presetState(Active) = "available"
        /\ Applied(Upgrade(Active).template, v)
        BY <1>5 DEF ReconcilePresets
  <2>2. v \in 1..v BY <2>1 DEF TemplatesInv, IsHistory
  <2>3. ~ Upgrade(Active).error BY <2>1 DEF presetState
  <2>4. Active = revisions[v] BY DEF Active
  <2> HIDE DEF v
  <2>5. ~ Upgrade(revisions[v]).error /\ Applied(Upgrade(revisions[v]).template, v)
        BY <2>1, <2>3, <2>4
  <2> QED BY <2>2, <2>5, UpgradesKeep DEF v
<1>6. CASE LeftToTheOwner
  <2>1. engine' = engine /\ revisions' = revisions BY <1>6 DEF LeftToTheOwner
  <2>2. report' # "applied"
    <3>1. report' \in {"not-installed", "current", "conflict", "invalid"}
          BY <1>6 DEF LeftToTheOwner
    <3> QED BY <3>1
  <2> QED BY <2>1, <2>2 DEF TemplatesInv, ReconciledOrReported
<1>7. CASE EngineAdded \/ UNCHANGED templateVars
  <2>1. engine' = engine /\ revisions' = revisions /\ report' = report
        BY <1>7 DEF EngineAdded, templateVars
  <2> QED BY <2>1 DEF TemplatesInv, ReconciledOrReported, Active
<1> QED BY <1>2, <1>3, <1>4, <1>5, <1>6, <1>7 DEF TemplatesNext

LEMMA HistoryKept == TemplatesInv => RevisionsKeepEdits /\ ReconciledOrReported
<1> SUFFICES ASSUME TemplatesInv PROVE RevisionsKeepEdits /\ ReconciledOrReported
    OBVIOUS
<1>1. \A i \in 2..Len(revisions) : Descends(engine, revisions, i)
      BY DEF TemplatesInv, IsHistory
<1> QED BY <1>1 DEF TemplatesInv, RevisionsKeepEdits, Descends, MadeFrom

(* An upgrade never costs the owner an edit nor the server a guard: the    *)
(* document mergeEnginePreset() and syncYamlDocument() produce is the      *)
(* three-way merge, and so is every revision reconcilePresets() or         *)
(* rollback() makes of an earlier one, along any history of an engine.     *)
THEOREM UpgradesRebase == PresetMergeSpec /\ TemplatesSpec => []UpgradeKeepsEdits
<1>1. PresetMergeSpec => []MergeInv
      BY MergeStarts, MergeInvKept, PTL DEF PresetMergeSpec
<1>2. TemplatesSpec => []TemplatesInv
      BY TemplatesStart, TemplatesInvKept, PTL DEF TemplatesSpec
<1>3. MergeInv /\ TemplatesInv => UpgradeKeepsEdits
      BY DocumentKept, HistoryKept DEF UpgradeKeepsEdits
<1> QED BY <1>1, <1>2, <1>3, PTL

-----------------------------------------------------------------------------
(* The routing rules and their renderers.                                   *)

Ruling == [if : UserCondition \cup LocalNetwork \cup {Everything},
           action : Actions, on : BOOLEAN]

Held(list) == {list[i] : i \in DOMAIN list}

(* Conditions occur once, and what is for everything else is never off.     *)
Distinct(list) ==
    /\ list \in Seq(Ruling)
    /\ \A i, j \in DOMAIN list : list[i].if = list[j].if => i = j
    /\ \A i \in DOMAIN list : list[i].if = Everything => list[i].on

(* That rule is always there.                                               *)
Ruled(list) == Distinct(list) /\ \E rule \in Held(list) : rule.if = Everything

ProfilesInv ==
    /\ Ruled(rules)
    /\ published \in Seq(Seq(Ruling)) /\ published # <<>>
    /\ \A v \in DOMAIN published : Ruled(published[v])
    /\ network \in [ipv6 : BOOLEAN, blockQuic : BOOLEAN]

(* What is left of a list is in its order, without a gap.                   *)
LEMMA ThoseLeft ==
    ASSUME NEW T, NEW list \in Seq(T), NEW places, places \subseteq DOMAIN list,
           NEW L, L = Those(list, places)
    PROVE  /\ L \in Seq(T)
           /\ \E at \in [1..Len(L) -> places] :
                 /\ \A k \in 1..Len(L) : L[k] = list[at[k]]
                 /\ \A m, n \in 1..Len(L) : m < n <=> at[m] < at[n]
                 /\ \A i \in places : \E k \in 1..Len(L) : at[k] = i
<1>1. DOMAIN list = 1..Len(list) /\ Len(list) \in Nat OBVIOUS
<1>2. places \in SUBSET Nat BY <1>1
<1>3. IsFiniteSet(places)
  <2>1. IsFiniteSet(1..Len(list)) BY <1>1, FS_Interval
  <2> QED BY <1>1, <2>1, FS_Subset
<1> DEFINE at == Ascending(places)
<1>4. at = Ascending(places) OBVIOUS
<1> HIDE DEF at
<1>5. /\ at \in Seq(places)
      /\ \A m, n \in 1..Len(at) : m < n <=> at[m] < at[n]
      /\ \A x \in places : \E n \in 1..Len(at) : at[n] = x
  <2>1. at \in Seq(places) BY <1>2, <1>3, <1>4, AscendingLists
  <2>2. \A m, n \in 1..Len(at) : m < n <=> at[m] < at[n]
        BY <1>2, <1>3, <1>4, AscendingLists
  <2>3. \A x \in places : \E n \in 1..Len(at) : at[n] = x
        BY <1>2, <1>3, <1>4, AscendingLists
  <2> QED BY <2>1, <2>2, <2>3
<1>6. L = [k \in DOMAIN at |-> list[at[k]]] BY <1>4 DEF Those
<1>7. DOMAIN at = 1..Len(at) /\ Len(at) \in Nat /\ at \in [1..Len(at) -> places]
      BY <1>5
<1>8. \A k \in 1..Len(at) : list[at[k]] \in T
  <2> TAKE k \in 1..Len(at)
  <2>1. at[k] \in 1..Len(list) BY <1>1, <1>7
  <2> QED BY <2>1
<1>9. L \in Seq(T) /\ Len(L) = Len(at)
  <2>1. L \in [1..Len(at) -> T] BY <1>6, <1>7, <1>8
  <2> QED BY <1>7, <2>1
<1> QED BY <1>5, <1>6, <1>7, <1>9

LEMMA LeastOf ==
    ASSUME NEW S, S \subseteq Nat, S # {}
    PROVE  \E i \in S : \A k \in S : i <= k
<1> DEFINE L == OpToRel(<, Nat)
<1>1. PICK i \in S : \A k \in S : ~ (<<k, i>> \in L)
  BY NatLessThanWellFounded, WFMin
<1>2. \A k \in S : i <= k
  <2> TAKE k \in S
  <2>1. ~ (<<k, i>> \in L)
    <3> HIDE DEF L
    <3> QED BY <1>1
  <2>2. ~ (k < i) BY <2>1 DEF OpToRel
  <2> QED BY <2>2
<1> QED BY <1>2

LEMMA FirstOf ==
    ASSUME NEW hits \in SUBSET Nat, hits # {}
    PROVE  First(hits) \in hits /\ \A j \in hits : First(hits) <= j
<1>1. \E k \in hits : \A j \in hits : k <= j BY LeastOf
<1> QED BY <1>1 DEF First

LEMMA FirstIs ==
    ASSUME NEW hits \in SUBSET Nat, NEW k \in hits,
           \A j \in hits : k <= j
    PROVE  First(hits) = k
<1>1. First(hits) \in hits /\ \A j \in hits : First(hits) <= j BY FirstOf
<1>2. First(hits) \in Nat /\ k \in Nat BY <1>1
<1>3. First(hits) <= k BY <1>1
<1>4. k <= First(hits) BY <1>1
<1> QED BY <1>2, <1>3, <1>4

-----------------------------------------------------------------------------
(* RouteService keeps the rules.                                            *)

LEMMA DistinctThose ==
    ASSUME NEW list, Distinct(list), NEW places, places \subseteq DOMAIN list,
           NEW L, L = Those(list, places)
    PROVE  Distinct(L) /\ Held(L) = {list[i] : i \in places}
<1>1. list \in Seq(Ruling) BY DEF Distinct
<1>2. /\ L \in Seq(Ruling)
      /\ \E at \in [1..Len(L) -> places] :
            /\ \A k \in 1..Len(L) : L[k] = list[at[k]]
            /\ \A m, n \in 1..Len(L) : m < n <=> at[m] < at[n]
            /\ \A i \in places : \E k \in 1..Len(L) : at[k] = i
      BY <1>1, ThoseLeft
<1>3. PICK at \in [1..Len(L) -> places] :
            /\ \A k \in 1..Len(L) : L[k] = list[at[k]]
            /\ \A m, n \in 1..Len(L) : m < n <=> at[m] < at[n]
            /\ \A i \in places : \E k \in 1..Len(L) : at[k] = i
      BY <1>2
<1>4. DOMAIN L = 1..Len(L) /\ Len(L) \in Nat /\ DOMAIN list = 1..Len(list) /\ Len(list) \in Nat
      BY <1>1, <1>2
<1>5. ASSUME NEW m \in DOMAIN L, NEW n \in DOMAIN L, L[m].if = L[n].if PROVE m = n
  <2>1. at[m] \in DOMAIN list /\ at[n] \in DOMAIN list BY <1>3, <1>4
  <2>2. at[m] = at[n] BY <1>3, <1>4, <1>5, <2>1 DEF Distinct
  <2>3. at[m] \in Nat /\ m \in Nat /\ n \in Nat BY <1>4, <2>1
  <2>4. ~ (m < n) /\ ~ (n < m) BY <1>3, <1>4, <2>2, <2>3
  <2> QED BY <2>3, <2>4
<1>6. ASSUME NEW k \in DOMAIN L, L[k].if = Everything PROVE L[k].on
  <2>1. at[k] \in DOMAIN list BY <1>3, <1>4
  <2> QED BY <1>3, <1>4, <1>6, <2>1 DEF Distinct
<1>7. \A k \in DOMAIN L : \E i \in places : L[k] = list[i] BY <1>3, <1>4
<1>8. \A i \in places : \E k \in DOMAIN L : L[k] = list[i] BY <1>3, <1>4
<1>9. Held(L) = {list[i] : i \in places} BY <1>7, <1>8 DEF Held
<1> QED BY <1>2, <1>5, <1>6, <1>9 DEF Distinct

LEMMA DistinctJoined ==
    ASSUME NEW A, Distinct(A), NEW B, Distinct(B),
           \A a \in Held(A), b \in Held(B) : a.if # b.if
    PROVE  Distinct(A \o B) /\ Held(A \o B) = Held(A) \cup Held(B)
<1> DEFINE L == A \o B
<1>1. /\ A \in Seq(Ruling) /\ B \in Seq(Ruling)
      /\ DOMAIN A = 1..Len(A) /\ Len(A) \in Nat /\ DOMAIN B = 1..Len(B) /\ Len(B) \in Nat
      BY DEF Distinct
<1>2. /\ L \in Seq(Ruling) /\ DOMAIN L = 1..(Len(A) + Len(B))
      /\ \A i \in 1..Len(A) : L[i] = A[i]
      /\ \A i \in (Len(A) + 1)..(Len(A) + Len(B)) : L[i] = B[i - Len(A)]
      BY <1>1
<1>3. \A j \in 1..Len(B) : j + Len(A) \in DOMAIN L /\ L[j + Len(A)] = B[j]
      BY <1>1, <1>2
<1>4. \A k \in DOMAIN L : \/ k \in DOMAIN A /\ L[k] = A[k]
                          \/ k > Len(A) /\ k - Len(A) \in DOMAIN B /\ L[k] = B[k - Len(A)]
      BY <1>1, <1>2
<1> HIDE DEF L
<1>5. Held(L) = Held(A) \cup Held(B)
  <2>1. ASSUME NEW x \in Held(L) PROVE x \in Held(A) \cup Held(B)
        BY <1>4, <2>1 DEF Held
  <2>2. ASSUME NEW x \in Held(A) PROVE x \in Held(L)
    <3>1. PICK i \in DOMAIN A : x = A[i] BY DEF Held
    <3>2. i \in DOMAIN L /\ L[i] = x BY <1>1, <1>2, <3>1
    <3> QED BY <3>2 DEF Held
  <2>3. ASSUME NEW x \in Held(B) PROVE x \in Held(L)
    <3>1. PICK i \in DOMAIN B : x = B[i] BY DEF Held
    <3> QED BY <1>1, <1>3, <3>1 DEF Held
  <2> QED BY <2>1, <2>2, <2>3
<1>6. ASSUME NEW m \in DOMAIN L, NEW n \in DOMAIN L, L[m].if = L[n].if PROVE m = n
  <2>1. CASE /\ m \in DOMAIN A /\ L[m] = A[m] /\ n \in DOMAIN A /\ L[n] = A[n]
        BY <1>6, <2>1 DEF Distinct
  <2>2. CASE /\ m > Len(A) /\ m - Len(A) \in DOMAIN B /\ L[m] = B[m - Len(A)]
             /\ n > Len(A) /\ n - Len(A) \in DOMAIN B /\ L[n] = B[n - Len(A)]
    <3>1. m - Len(A) = n - Len(A) BY <1>6, <2>2 DEF Distinct
    <3> QED BY <1>1, <1>2, <3>1
  <2>3. CASE \/ m \in DOMAIN A /\ L[m] = A[m] /\ n - Len(A) \in DOMAIN B /\ L[n] = B[n - Len(A)]
             \/ n \in DOMAIN A /\ L[n] = A[n] /\ m - Len(A) \in DOMAIN B /\ L[m] = B[m - Len(A)]
    <3>1. \/ L[m] \in Held(A) /\ L[n] \in Held(B)
          \/ L[n] \in Held(A) /\ L[m] \in Held(B)
          BY <2>3 DEF Held
    <3> QED BY <1>6, <3>1
  <2> QED BY <1>4, <2>1, <2>2, <2>3
<1>7. ASSUME NEW k \in DOMAIN L, L[k].if = Everything PROVE L[k].on
      BY <1>4, <1>7 DEF Distinct
<1> QED BY <1>2, <1>5, <1>6, <1>7 DEF Distinct, L

(* The first of those that match is the first that matches of those.        *)
LEMMA ThoseFirst ==
    ASSUME NEW list, Distinct(list), NEW places, places \subseteq DOMAIN list,
           NEW L, L = Those(list, places), NEW destination
    PROVE  /\ Hits(L, destination) # {} <=> places \cap Hits(list, destination) # {}
           /\ Hits(L, destination) # {} =>
                 L[First(Hits(L, destination))]
                    = list[First(places \cap Hits(list, destination))]
<1> DEFINE h == Hits(L, destination)
           g == places \cap Hits(list, destination)
<1>1. list \in Seq(Ruling) BY DEF Distinct
<1>2. /\ L \in Seq(Ruling)
      /\ \E at \in [1..Len(L) -> places] :
            /\ \A k \in 1..Len(L) : L[k] = list[at[k]]
            /\ \A m, n \in 1..Len(L) : m < n <=> at[m] < at[n]
            /\ \A i \in places : \E k \in 1..Len(L) : at[k] = i
      BY <1>1, ThoseLeft
<1>3. PICK at \in [1..Len(L) -> places] :
            /\ \A k \in 1..Len(L) : L[k] = list[at[k]]
            /\ \A m, n \in 1..Len(L) : m < n <=> at[m] < at[n]
            /\ \A i \in places : \E k \in 1..Len(L) : at[k] = i
      BY <1>2
<1>4. /\ DOMAIN L = 1..Len(L) /\ Len(L) \in Nat
      /\ DOMAIN list = 1..Len(list) /\ Len(list) \in Nat
      BY <1>1, <1>2
<1>5. \A k \in 1..Len(L) : at[k] \in places /\ at[k] \in DOMAIN list BY <1>3
<1>6. \A k \in 1..Len(L) : k \in h <=> at[k] \in g BY <1>3, <1>4, <1>5 DEF Hits
<1>7. h \subseteq 1..Len(L) /\ g \subseteq places BY <1>4 DEF Hits
<1>8. h \in SUBSET Nat /\ g \in SUBSET Nat BY <1>4, <1>7
<1> HIDE DEF h, g
<1>9. \A j \in g : \E k \in h : at[k] = j BY <1>3, <1>6, <1>7
<1>10. h # {} <=> g # {} BY <1>6, <1>7, <1>9
<1>11. ASSUME h # {} PROVE L[First(h)] = list[First(g)]
  <2>1. First(h) \in h /\ \A j \in h : First(h) <= j BY <1>8, <1>11, FirstOf
  <2>2. First(h) \in 1..Len(L) /\ at[First(h)] \in g BY <1>6, <1>7, <2>1
  <2>3. \A j \in g : at[First(h)] <= j
    <3> TAKE j \in g
    <3>1. PICK m \in h : at[m] = j BY <1>9
    <3>2. m \in 1..Len(L) /\ First(h) <= m BY <1>7, <2>1, <3>1
    <3>3. ~ (m < First(h)) BY <1>4, <2>2, <3>2
    <3>4. ~ (at[m] < at[First(h)]) BY <1>3, <2>2, <3>2, <3>3
    <3>5. j \in Nat /\ at[First(h)] \in Nat BY <1>8, <2>2
    <3> QED BY <3>1, <3>4, <3>5
  <2>4. First(g) = at[First(h)] BY <1>8, <2>2, <2>3, FirstIs
  <2> QED BY <1>3, <2>2, <2>4
<1> QED BY <1>10, <1>11 DEF h, g

LEMMA EditsKept ==
    ASSUME ProfilesInv, NEW list, Ruled(list), Edits(list)
    PROVE  ProfilesInv'
<1>1. rules' = list /\ published' = published /\ network' = network BY DEF Edits
<1> QED BY <1>1 DEF ProfilesInv, Ruled, Distinct, Held

LEMMA AddKept ==
    ASSUME ProfilesInv, NEW condition \in UserCondition, NEW action \in Actions,
           NEW on \in BOOLEAN, AddRoute(condition, action, on)
    PROVE  ProfilesInv'
<1> DEFINE locals == {i \in DOMAIN rules : Local(rules[i])}
           A == Those(rules, locals)
           B == Those(rules, DOMAIN rules \ locals)
           rule == RuleOf(condition, action, on)
<1>1. Ruled(rules) /\ Distinct(rules) BY DEF ProfilesInv, Ruled
<1>2. Edits(A \o <<rule>> \o B) BY DEF AddRoute
<1>3. Distinct(A) /\ Held(A) = {rules[i] : i \in locals} BY <1>1, DistinctThose
<1>4. Distinct(B) /\ Held(B) = {rules[i] : i \in DOMAIN rules \ locals}
      BY <1>1, DistinctThose
<1>5. Distinct(<<rule>>) /\ Held(<<rule>>) = {rule}
  <2>1. rule \in Ruling /\ rule.if = condition /\ rule.if # Everything
        BY ProfilesAssumption DEF RuleOf, Ruling
  <2> HIDE DEF rule
  <2>2. <<rule>> \in Seq(Ruling) /\ DOMAIN <<rule>> = {1} /\ <<rule>>[1] = rule
        BY <2>1
  <2> QED BY <2>1, <2>2 DEF Distinct, Held
<1>6. \A i \in DOMAIN rules : rules[i].if # rule.if
      BY DEF AddRoute, Conditions, RuleOf
<1>7. \A i, j \in DOMAIN rules : rules[i].if = rules[j].if => i = j
      BY <1>1 DEF Distinct
<1>8. locals \subseteq DOMAIN rules OBVIOUS
<1> HIDE DEF A, B, rule, locals
<1>9. /\ Distinct(A \o <<rule>>)
      /\ Held(A \o <<rule>>) = Held(A) \cup {rule}
  <2>1. \A a \in Held(A), b \in Held(<<rule>>) : a.if # b.if BY <1>3, <1>5, <1>6, <1>8
  <2> QED BY <1>3, <1>5, <2>1, DistinctJoined
<1>10. /\ Distinct((A \o <<rule>>) \o B)
       /\ Held((A \o <<rule>>) \o B) = Held(A) \cup {rule} \cup Held(B)
  <2>1. \A a \in Held(A \o <<rule>>), b \in Held(B) : a.if # b.if
        BY <1>3, <1>4, <1>6, <1>7, <1>8, <1>9
  <2> QED BY <1>4, <1>9, <2>1, DistinctJoined
<1>11. Held(rules) \subseteq Held((A \o <<rule>>) \o B)
  <2>1. \A i \in DOMAIN rules : rules[i] \in Held(A) \cup Held(B) BY <1>3, <1>4
  <2> QED BY <1>10, <2>1 DEF Held
<1>12. Ruled((A \o <<rule>>) \o B) BY <1>1, <1>10, <1>11 DEF Ruled
<1> QED BY <1>2, <1>12, EditsKept

LEMMA UpdateKept ==
    ASSUME ProfilesInv, NEW i \in DOMAIN rules, NEW condition \in UserCondition,
           NEW action \in Actions, NEW on \in BOOLEAN,
           UpdateRoute(i, condition, action, on)
    PROVE  ProfilesInv'
<1> DEFINE rule == RuleOf(condition, action, on)
           list == [rules EXCEPT ![i] = rule]
<1>1. Ruled(rules) /\ Distinct(rules) BY DEF ProfilesInv, Ruled
<1>2. /\ rules[i].if \in UserCondition /\ Edits(list)
      /\ condition = rules[i].if \/ condition \notin Conditions(rules)
      BY DEF UpdateRoute
<1>3. rule \in Ruling /\ rule.if = condition /\ rule.if # Everything
      BY ProfilesAssumption DEF RuleOf, Ruling
<1>4. rules \in Seq(Ruling) BY <1>1 DEF Distinct
<1> HIDE DEF rule
<1>5. /\ list \in Seq(Ruling) /\ DOMAIN list = DOMAIN rules /\ list[i] = rule
      /\ \A k \in DOMAIN rules : k # i => list[k] = rules[k]
      BY <1>3, <1>4
<1> HIDE DEF list
<1>6. Distinct(list)
  <2>1. ASSUME NEW m \in DOMAIN list, NEW n \in DOMAIN list, list[m].if = list[n].if
        PROVE  m = n
    <3>1. \A k \in DOMAIN rules : k # i => rules[k].if # condition
          BY <1>1, <1>2 DEF Conditions, Distinct
    <3> QED BY <1>1, <1>3, <1>5, <2>1, <3>1 DEF Distinct
  <2>2. ASSUME NEW m \in DOMAIN list, list[m].if = Everything PROVE list[m].on
        BY <1>1, <1>3, <1>5, <2>2 DEF Distinct
  <2> QED BY <1>5, <2>1, <2>2 DEF Distinct
<1>7. \E r \in Held(list) : r.if = Everything
  <2>1. PICK e \in DOMAIN rules : rules[e].if = Everything BY <1>1 DEF Ruled, Held
  <2>2. e # i BY <1>2, <2>1, ProfilesAssumption
  <2> QED BY <1>5, <2>1, <2>2 DEF Held
<1> QED BY <1>2, <1>6, <1>7, EditsKept DEF Ruled

LEMMA ProtectedKept ==
    ASSUME ProfilesInv, NEW i \in DOMAIN rules, NEW action \in Actions,
           UpdateProtected(i, action)
    PROVE  ProfilesInv'
<1> DEFINE changed(k) == k = i \/ (Local(rules[i]) /\ Local(rules[k]))
           list == [k \in DOMAIN rules |->
                      IF changed(k) THEN [rules[k] EXCEPT !.action = action] ELSE rules[k]]
<1>1. Ruled(rules) /\ Distinct(rules) BY DEF ProfilesInv, Ruled
<1>2. Edits(list) BY DEF UpdateProtected
<1>3. rules \in Seq(Ruling) /\ DOMAIN rules = 1..Len(rules) /\ Len(rules) \in Nat
      BY <1>1 DEF Distinct
<1>4. \A k \in DOMAIN rules : rules[k] \in Ruling BY <1>3, ElementOfSeq
<1> HIDE DEF changed
<1>5. ASSUME NEW k \in DOMAIN rules
      PROVE  /\ list[k] \in Ruling
             /\ list[k].if = rules[k].if /\ list[k].on = rules[k].on
  <2>1. rules[k] \in Ruling BY <1>4
  <2>2. list[k] = rules[k] \/ list[k] = [rules[k] EXCEPT !.action = action] OBVIOUS
  <2> HIDE DEF list
  <2> QED BY <2>1, <2>2 DEF Ruling
<1>6. list \in Seq(Ruling) /\ DOMAIN list = DOMAIN rules
  <2>1. list \in [1..Len(rules) -> Ruling] BY <1>3, <1>5
  <2> QED BY <1>3, <2>1
<1> HIDE DEF list
<1>7. Distinct(list) BY <1>1, <1>5, <1>6 DEF Distinct
<1>8. \E r \in Held(list) : r.if = Everything BY <1>1, <1>5, <1>6 DEF Ruled, Held
<1> QED BY <1>2, <1>7, <1>8, EditsKept DEF Ruled

LEMMA RemoveKept ==
    ASSUME ProfilesInv, NEW i \in DOMAIN rules, RemoveRoute(i)
    PROVE  ProfilesInv'
<1> DEFINE L == Those(rules, DOMAIN rules \ {i})
<1>1. Ruled(rules) /\ Distinct(rules) BY DEF ProfilesInv, Ruled
<1>2. Edits(L) /\ rules[i].if \in UserCondition BY DEF RemoveRoute
<1>3. Distinct(L) /\ Held(L) = {rules[k] : k \in DOMAIN rules \ {i}}
      BY <1>1, DistinctThose
<1>4. PICK e \in DOMAIN rules : rules[e].if = Everything BY <1>1 DEF Ruled, Held
<1>5. e # i BY <1>2, <1>4, ProfilesAssumption
<1> HIDE DEF L
<1>6. Ruled(L) BY <1>3, <1>4, <1>5 DEF Ruled
<1> QED BY <1>2, <1>6, EditsKept

(* A rule that is given twice is listed once, one that is not given is kept. *)
LEMMA ReorderKept ==
    ASSUME ProfilesInv, NEW ids \in [DOMAIN rules -> Conditions(rules)], Reorder(ids)
    PROVE  ProfilesInv'
<1> DEFINE given == {i \in DOMAIN ids : \A k \in DOMAIN ids : k > i => ids[k] # ids[i]}
           listed == Those(ids, given)
           A == [k \in DOMAIN listed |-> RuleFor(listed[k])]
           others == {i \in DOMAIN rules : \A k \in DOMAIN ids : ids[k] # rules[i].if}
           B == Those(rules, others)
<1>1. Ruled(rules) /\ Distinct(rules) BY DEF ProfilesInv, Ruled
<1>2. Edits(A \o B) BY DEF Reorder, Positioned
<1>3. /\ rules \in Seq(Ruling) /\ DOMAIN rules = 1..Len(rules) /\ Len(rules) \in Nat
      /\ \A i \in DOMAIN rules : rules[i] \in Ruling
      BY <1>1, ElementOfSeq DEF Distinct
<1>4. ASSUME NEW c \in Conditions(rules)
      PROVE  RuleFor(c).if = c /\ \E i \in DOMAIN rules : RuleFor(c) = rules[i]
  <2>1. \E rule \in {rules[i] : i \in DOMAIN rules} : rule.if = c BY DEF Conditions
  <2>2. RuleFor(c) \in {rules[i] : i \in DOMAIN rules} /\ RuleFor(c).if = c
        BY <2>1 DEF RuleFor
  <2> QED BY <2>2
<1>5. ids \in Seq(Conditions(rules)) /\ DOMAIN ids = DOMAIN rules BY <1>3
<1>6. given \subseteq DOMAIN ids OBVIOUS
<1>7. /\ listed \in Seq(Conditions(rules))
      /\ \E at \in [1..Len(listed) -> given] :
            /\ \A k \in 1..Len(listed) : listed[k] = ids[at[k]]
            /\ \A m, n \in 1..Len(listed) : m < n <=> at[m] < at[n]
            /\ \A i \in given : \E k \in 1..Len(listed) : at[k] = i
  <2> HIDE DEF given
  <2> QED BY <1>5, <1>6, ThoseLeft
<1>8. PICK at \in [1..Len(listed) -> given] :
            /\ \A k \in 1..Len(listed) : listed[k] = ids[at[k]]
            /\ \A m, n \in 1..Len(listed) : m < n <=> at[m] < at[n]
            /\ \A i \in given : \E k \in 1..Len(listed) : at[k] = i
      BY <1>7
<1>9. /\ DOMAIN listed = 1..Len(listed) /\ Len(listed) \in Nat
      /\ \A k \in DOMAIN listed : listed[k] \in Conditions(rules)
  <2> HIDE DEF listed
  <2>1. listed \in Seq(Conditions(rules)) BY <1>7
  <2> QED BY <2>1, ElementOfSeq
<1>10. \A i, j \in given : ids[i] = ids[j] => i = j BY <1>3, <1>5
<1>11. \A c \in Conditions(rules) :
          (\E k \in DOMAIN ids : ids[k] = c) => \E i \in given : ids[i] = c
  <2> SUFFICES ASSUME NEW c, NEW m \in DOMAIN ids, ids[m] = c
               PROVE  \E i \in given : ids[i] = c
      OBVIOUS
  <2> DEFINE from == {n \in Nat : n <= Len(rules) /\ \E k \in DOMAIN ids : ids[k] = c /\ k + n = Len(rules)}
  <2>1. Len(rules) - m \in from BY <1>3, <1>5
  <2>2. PICK n \in from : \A j \in from : n <= j BY <2>1, LeastOf
  <2>3. PICK k \in DOMAIN ids : ids[k] = c /\ k + n = Len(rules) BY <2>2
  <2>4. ASSUME NEW j \in DOMAIN ids, j > k PROVE ids[j] # c
    <3>1. j \in Nat /\ k \in Nat /\ n \in Nat /\ j <= Len(rules) BY <1>3, <1>5, <2>2
    <3>2. ids[j] = c => Len(rules) - j \in from
      <4>1. /\ Len(rules) - j \in Nat /\ Len(rules) - j <= Len(rules)
            /\ j + (Len(rules) - j) = Len(rules)
            BY <1>3, <3>1
      <4> QED BY <4>1
    <3>3. ~ (n <= Len(rules) - j) BY <1>3, <2>3, <2>4, <3>1
    <3> HIDE DEF from
    <3> QED BY <2>2, <3>2, <3>3
  <2> QED BY <2>3, <2>4
<1> HIDE DEF given
<1>12. \A k \in DOMAIN listed : A[k] = RuleFor(listed[k]) OBVIOUS
<1>13. A \in Seq(Ruling) /\ DOMAIN A = DOMAIN listed
  <2>1. \A k \in DOMAIN listed : A[k] \in Ruling BY <1>3, <1>4, <1>9, <1>12
  <2>2. A \in [1..Len(listed) -> Ruling] BY <1>9, <2>1
  <2> QED BY <1>9, <2>2
<1> HIDE DEF A, listed
<1>14. Distinct(A)
  <2>1. ASSUME NEW m \in DOMAIN A, NEW n \in DOMAIN A, A[m].if = A[n].if PROVE m = n
    <3>1. listed[m] = listed[n] BY <1>4, <1>9, <1>12, <1>13, <2>1
    <3>2. at[m] \in given /\ at[n] \in given BY <1>8, <1>9, <1>13
    <3>3. at[m] = at[n] BY <1>8, <1>9, <1>10, <1>13, <3>1, <3>2
    <3>4. at[m] \in Nat BY <1>3, <1>5, <1>6, <3>2
    <3>5. ~ (m < n) /\ ~ (n < m) BY <1>8, <1>9, <1>13, <3>3, <3>4
    <3> QED BY <1>9, <1>13, <3>5
  <2>2. ASSUME NEW m \in DOMAIN A, A[m].if = Everything PROVE A[m].on
    <3>1. PICK i \in DOMAIN rules : A[m] = rules[i] BY <1>4, <1>9, <1>12, <1>13
    <3> QED BY <1>1, <2>2, <3>1 DEF Distinct
  <2> QED BY <1>13, <2>1, <2>2 DEF Distinct
<1>15. others \subseteq DOMAIN rules OBVIOUS
<1>16. Distinct(B) /\ Held(B) = {rules[i] : i \in others} BY <1>1, <1>15, DistinctThose
<1> HIDE DEF B
<1>17. \A a \in Held(A), b \in Held(B) : a.if # b.if
  <2> SUFFICES ASSUME NEW m \in DOMAIN A, NEW i \in others PROVE A[m].if # rules[i].if
      BY <1>16 DEF Held
  <2>1. A[m].if = ids[at[m]] /\ at[m] \in DOMAIN ids
        BY <1>4, <1>6, <1>8, <1>9, <1>12, <1>13
  <2> QED BY <2>1
<1>18. /\ Distinct(A \o B) /\ Held(A \o B) = Held(A) \cup Held(B)
       BY <1>14, <1>16, <1>17, DistinctJoined
<1>19. \E rule \in Held(A) \cup Held(B) : rule.if = Everything
  <2>1. PICK e \in DOMAIN rules : rules[e].if = Everything BY <1>1 DEF Ruled, Held
  <2>2. CASE e \in others BY <1>16, <2>1, <2>2
  <2>3. CASE e \notin others
    <3>1. \E k \in DOMAIN ids : ids[k] = Everything BY <2>1, <2>3
    <3>2. Everything \in Conditions(rules) BY <2>1 DEF Conditions
    <3>3. PICK i \in given : ids[i] = Everything BY <1>11, <3>1, <3>2
    <3>4. PICK k \in 1..Len(listed) : at[k] = i BY <1>8, <3>3
    <3>5. A[k].if = Everything /\ k \in DOMAIN A
          BY <1>4, <1>8, <1>9, <1>12, <1>13, <3>2, <3>3, <3>4
    <3> QED BY <3>5 DEF Held
  <2> QED BY <2>2, <2>3
<1>20. Ruled(A \o B) BY <1>18, <1>19 DEF Ruled
<1> QED BY <1>2, <1>20, EditsKept

LEMMA PublishKept ==
    ASSUME ProfilesInv, NEW list, Ruled(list), PublishList(list),
           rules' = rules \/ rules' = list
    PROVE  ProfilesInv'
<1>1. published' = Append(published, list) /\ network' = network
      BY DEF PublishList
<1>2. list \in Seq(Ruling) BY DEF Ruled, Distinct
<1>3. /\ published \in Seq(Seq(Ruling)) /\ Len(published) \in Nat
      /\ DOMAIN published = 1..Len(published)
      BY DEF ProfilesInv
<1>4. /\ published' \in Seq(Seq(Ruling)) /\ published' # <<>>
      /\ DOMAIN published' = 1..(Len(published) + 1)
      /\ \A v \in DOMAIN published : published'[v] = published[v]
      /\ published'[Len(published) + 1] = list
      BY <1>1, <1>2, <1>3
<1>5. \A v \in DOMAIN published' : Ruled(published'[v])
  <2> TAKE v \in DOMAIN published'
  <2>1. v \in DOMAIN published \/ v = Len(published) + 1 BY <1>3, <1>4
  <2> QED BY <1>4, <2>1 DEF ProfilesInv
<1>6. Ruled(rules') BY DEF ProfilesInv
<1>7. Ruled(rules)' <=> Ruled(rules') BY DEF Ruled, Distinct, Held
<1>8. (\A v \in DOMAIN published : Ruled(published[v]))'
         <=> \A v \in DOMAIN published' : Ruled(published'[v])
      BY DEF Ruled, Distinct, Held
<1> QED BY <1>1, <1>4, <1>5, <1>6, <1>7, <1>8 DEF ProfilesInv

LEMMA ActiveRuled ==
    ASSUME ProfilesInv PROVE Ruled(ActiveRules)
<1>1. Len(published) \in DOMAIN published BY DEF ProfilesInv
<1> QED BY <1>1 DEF ActiveRules, ProfilesInv

LEMMA ProfilesStep ==
    ASSUME ProfilesInv, [ProfilesNext]_profileVars
    PROVE  ProfilesInv'
<1>1. ASSUME NEW condition \in UserCondition, NEW action \in Actions, NEW on \in BOOLEAN,
             AddRoute(condition, action, on)
      PROVE  ProfilesInv'
      BY <1>1, AddKept
<1>2. ASSUME NEW i \in DOMAIN rules, NEW condition \in UserCondition,
             NEW action \in Actions, NEW on \in BOOLEAN,
             UpdateRoute(i, condition, action, on)
      PROVE  ProfilesInv'
      BY <1>2, UpdateKept
<1>3. ASSUME NEW i \in DOMAIN rules, NEW action \in Actions, UpdateProtected(i, action)
      PROVE  ProfilesInv'
      BY <1>3, ProtectedKept
<1>4. ASSUME NEW i \in DOMAIN rules, RemoveRoute(i) PROVE ProfilesInv'
      BY <1>4, RemoveKept
<1>5. ASSUME NEW ids \in [DOMAIN rules -> Conditions(rules)], Reorder(ids)
      PROVE  ProfilesInv'
      BY <1>5, ReorderKept
<1>6. CASE PublishDraft
  <2>1. PublishList(rules) /\ rules' = rules /\ Ruled(rules)
        BY <1>6 DEF PublishDraft, ProfilesInv
  <2> QED BY <2>1, PublishKept
<1>7. ASSUME NEW version \in DOMAIN published, RollbackTo(version) PROVE ProfilesInv'
  <2>1. /\ PublishList(published[version]) /\ rules' = published[version]
        /\ Ruled(published[version])
        BY <1>7 DEF RollbackTo, ProfilesInv
  <2> QED BY <2>1, PublishKept
<1>8. CASE DiscardDraft
  <2>1. Edits(ActiveRules) /\ Ruled(ActiveRules) BY <1>8, ActiveRuled DEF DiscardDraft
  <2> QED BY <2>1, EditsKept
<1>9. ASSUME NEW ipv6 \in BOOLEAN, NEW blockQuic \in BOOLEAN,
             SetNetwork([ipv6 |-> ipv6, blockQuic |-> blockQuic])
      PROVE  ProfilesInv'
  <2>1. /\ rules' = rules /\ published' = published
        /\ network' = [ipv6 |-> ipv6, blockQuic |-> blockQuic]
        BY <1>9 DEF SetNetwork
  <2>2. network' \in [ipv6 : BOOLEAN, blockQuic : BOOLEAN] BY <2>1
  <2> QED BY <2>1, <2>2 DEF ProfilesInv, Ruled, Distinct, Held
<1>10. CASE UNCHANGED profileVars
  <2>1. rules' = rules /\ published' = published /\ network' = network
        BY <1>10 DEF profileVars
  <2> QED BY <2>1 DEF ProfilesInv, Ruled, Distinct, Held
<1> QED BY <1>1, <1>2, <1>3, <1>4, <1>5, <1>6, <1>7, <1>8, <1>9, <1>10 DEF ProfilesNext

LEMMA TwoAndOne ==
    ASSUME NEW T, NEW two \in [1..2 -> T], NEW x \in T, NEW L, L = two \o <<x>>
    PROVE  /\ L \in Seq(T) /\ DOMAIN L = 1..3
           /\ L[1] = two[1] /\ L[2] = two[2] /\ L[3] = x
<1>1. \E n \in Nat : two \in [1..n -> T]
  <2>1. 2 \in Nat OBVIOUS
  <2> QED BY <2>1, Zenon
<1>2. two \in Seq(T) BY <1>1
<1>3. Len(two) = 2
  <2>1. DOMAIN two = 1..2 OBVIOUS
  <2>2. DOMAIN two = 1..Len(two) /\ Len(two) \in Nat BY <1>2, LenProperties
  <2>3. 2 \in DOMAIN two /\ 3 \notin DOMAIN two BY <2>1
  <2>4. Len(two) >= 2 /\ ~ (Len(two) >= 3) BY <2>2, <2>3
  <2> QED BY <2>2, <2>4
<1>4. <<x>> \in Seq(T) /\ Len(<<x>>) = 1 /\ <<x>>[1] = x OBVIOUS
<1>5. L \in Seq(T) /\ Len(L) = Len(two) + Len(<<x>>)
         /\ \A i \in 1..(Len(two) + Len(<<x>>)) :
               L[i] = IF i <= Len(two) THEN two[i] ELSE <<x>>[i - Len(two)]
      BY <1>2, <1>4, ConcatProperties
<1>6. 1 \in 1..3 /\ 2 \in 1..3 /\ 3 \in 1..3 OBVIOUS
<1>7. L[1] = two[1] /\ L[2] = two[2] /\ L[3] = x BY <1>3, <1>4, <1>5, <1>6
<1>8. DOMAIN L = 1..3 BY <1>3, <1>4, <1>5, LenProperties
<1> QED BY <1>5, <1>7, <1>8

LEMMA ProfilesInitial == ASSUME ProfilesInit PROVE ProfilesInv
<1> DEFINE first == RuleOf("10.0.0.0/8", "DIRECT", TRUE)
           second == RuleOf("192.168.0.0/16", "DIRECT", TRUE)
           last == RuleOf(Everything, "PROXY", TRUE)
<1>1. LocalNetwork = {"10.0.0.0/8", "192.168.0.0/16"}
  <2>1. localNetworks = <<"10.0.0.0/8", "192.168.0.0/16">> BY DEF localNetworks
  <2>2. /\ DOMAIN localNetworks = {1, 2}
        /\ localNetworks[1] = "10.0.0.0/8" /\ localNetworks[2] = "192.168.0.0/16"
        BY <2>1
  <2> QED BY <2>2 DEF LocalNetwork
<1>2. /\ first \in Ruling /\ first.if = "10.0.0.0/8"
      /\ second \in Ruling /\ second.if = "192.168.0.0/16"
      /\ last \in Ruling /\ last.if = Everything /\ last.on = TRUE
      BY <1>1 DEF RuleOf, Ruling, Actions
<1> HIDE DEF first, second, last
<1>3. /\ rules \in Seq(Ruling) /\ DOMAIN rules = 1..3
      /\ rules[1] = first /\ rules[2] = second /\ rules[3] = last
  <2> DEFINE two == [i \in DOMAIN localNetworks |-> RuleOf(localNetworks[i], "DIRECT", TRUE)]
  <2>1. rules = [i \in DOMAIN localNetworks |-> RuleOf(localNetworks[i], "DIRECT", TRUE)]
               \o <<last>>
        BY DEF ProfilesInit, last
  <2>2. /\ DOMAIN localNetworks = 1..2
        /\ localNetworks[1] = "10.0.0.0/8" /\ localNetworks[2] = "192.168.0.0/16"
    <3>1. localNetworks = <<"10.0.0.0/8", "192.168.0.0/16">> BY DEF localNetworks
    <3> QED BY <3>1
  <2>3. DOMAIN two = 1..2 /\ two[1] = first /\ two[2] = second
    <3>1. DOMAIN two = DOMAIN localNetworks OBVIOUS
    <3>2. 1 \in DOMAIN localNetworks /\ 2 \in DOMAIN localNetworks BY <2>2
    <3>3. /\ two[1] = RuleOf(localNetworks[1], "DIRECT", TRUE)
          /\ two[2] = RuleOf(localNetworks[2], "DIRECT", TRUE)
          BY <3>2, Zenon
    <3>4. two[1] = first BY <2>2, <3>3, Zenon DEF first
    <3>5. two[2] = second BY <2>2, <3>3, Zenon DEF second
    <3> QED BY <2>2, <3>1, <3>4, <3>5
  <2>4. two \in [1..2 -> Ruling]
    <3>1. \A i \in {1, 2} : two[i] \in Ruling
      <4> HIDE DEF two
      <4> QED BY <1>2, <2>3
    <3>2. DOMAIN localNetworks = {1, 2} BY <2>2
    <3>3. \A i \in DOMAIN localNetworks : two[i] \in Ruling BY <3>1, <3>2, Zenon
    <3>4. two \in [DOMAIN localNetworks -> Ruling] BY <3>3, Zenon
    <3> QED BY <2>2, <3>4, Zenon
  <2>5. rules = two \o <<last>> BY <2>1, Zenon
  <2> HIDE DEF two
  <2>6. /\ rules \in Seq(Ruling) /\ DOMAIN rules = 1..3
        /\ rules[1] = two[1] /\ rules[2] = two[2] /\ rules[3] = last
        BY <1>2, <2>4, <2>5, TwoAndOne
  <2> QED BY <2>3, <2>6
<1>4. published = <<rules>> /\ network = [ipv6 |-> FALSE, blockQuic |-> TRUE]
      BY DEF ProfilesInit
<1>5. /\ rules \in Seq(Ruling) /\ DOMAIN rules = 1..3
      /\ rules[1] = first /\ rules[2] = second /\ rules[3] = last
      BY <1>3
<1>6. Everything # "10.0.0.0/8" /\ Everything # "192.168.0.0/16" BY DEF Everything
<1>7. Distinct(rules)
  <2>1. \A i, j \in 1..3 : rules[i].if = rules[j].if => i = j BY <1>2, <1>5, <1>6
  <2>2. \A i \in 1..3 : rules[i].if = Everything => rules[i].on BY <1>2, <1>5, <1>6
  <2> QED BY <1>5, <2>1, <2>2 DEF Distinct
<1>8. Ruled(rules)
  <2>1. 3 \in DOMAIN rules /\ rules[3].if = Everything BY <1>2, <1>5
  <2>2. rules[3] \in Held(rules) BY <2>1 DEF Held
  <2> QED BY <1>7, <2>1, <2>2 DEF Ruled
<1>9. published \in Seq(Seq(Ruling)) /\ published # <<>>
      /\ DOMAIN published = {1} /\ published[1] = rules
      BY <1>4, <1>5
<1> QED BY <1>4, <1>8, <1>9 DEF ProfilesInv

-----------------------------------------------------------------------------
(* What the profiles make of the rules.                                     *)

Answer(lines, final, destination) ==
    LET hits == Hits(lines, destination)
    IN IF hits = {} THEN final ELSE lines[First(hits)].to

(* The first line that matches is in the first piece that has one.          *)
LEMMA AnswerOfPieces ==
    ASSUME NEW T, NEW A \in Seq(T), NEW B \in Seq(T), NEW final, NEW destination
    PROVE  Answer(A \o B, final, destination)
              = IF Hits(A, destination) # {} THEN Answer(A, final, destination)
                ELSE Answer(B, final, destination)
<1> DEFINE L == A \o B
           a == Hits(A, destination)
           b == Hits(B, destination)
           l == Hits(L, destination)
<1>1. /\ DOMAIN A = 1..Len(A) /\ Len(A) \in Nat /\ DOMAIN B = 1..Len(B) /\ Len(B) \in Nat
      /\ DOMAIN L = 1..(Len(A) + Len(B))
      /\ \A i \in 1..Len(A) : L[i] = A[i]
      /\ \A i \in 1..Len(B) : L[i + Len(A)] = B[i]
      OBVIOUS
<1> HIDE DEF L
<1>2. \A i \in DOMAIN A : i \in a <=> i \in l BY <1>1 DEF Hits
<1>3. \A i \in DOMAIN B : i \in b <=> (i + Len(A)) \in l BY <1>1 DEF Hits
<1>4. a \subseteq DOMAIN A /\ b \subseteq DOMAIN B /\ l \subseteq DOMAIN L BY DEF Hits
<1>5. a \in SUBSET Nat /\ b \in SUBSET Nat /\ l \in SUBSET Nat BY <1>1, <1>4
<1>6. \A k \in l : k \in a \/ (k > Len(A) /\ k - Len(A) \in b)
  <2> TAKE k \in l
  <2>1. k \in 1..(Len(A) + Len(B)) BY <1>1, <1>4
  <2>2. CASE k <= Len(A) BY <1>1, <1>2, <2>1, <2>2
  <2>3. CASE k > Len(A)
    <3>1. k - Len(A) \in 1..Len(B) /\ (k - Len(A)) + Len(A) = k BY <1>1, <2>1, <2>3
    <3>2. k - Len(A) \in b BY <1>1, <1>3, <3>1
    <3> QED BY <2>3, <3>2
  <2> QED BY <1>1, <2>1, <2>2, <2>3
<1> HIDE DEF a, b, l
<1>7. CASE a # {}
  <2>1. First(a) \in a /\ \A j \in a : First(a) <= j BY <1>5, <1>7, FirstOf
  <2>2. First(a) \in DOMAIN A /\ First(a) \in l BY <1>2, <1>4, <2>1
  <2>3. \A j \in l : First(a) <= j
    <3> TAKE j \in l
    <3>1. First(a) \in 1..Len(A) /\ j \in Nat BY <1>1, <1>5, <2>2
    <3>2. CASE j \in a BY <2>1, <3>2
    <3>3. CASE j > Len(A) BY <1>1, <3>1, <3>3
    <3> QED BY <1>6, <3>2, <3>3
  <2>4. First(l) = First(a) BY <1>5, <2>2, <2>3, FirstIs
  <2>5. L[First(a)] = A[First(a)] BY <1>1, <2>2
  <2> QED BY <1>7, <2>2, <2>4, <2>5 DEF Answer, a, l, L
<1>8. CASE a = {} /\ b # {}
  <2>1. First(b) \in b /\ \A j \in b : First(b) <= j BY <1>5, <1>8, FirstOf
  <2>2. First(b) \in DOMAIN B BY <1>4, <2>1
  <2>3. (First(b) + Len(A)) \in l BY <1>3, <2>1, <2>2
  <2>4. \A j \in l : First(b) + Len(A) <= j
    <3> TAKE j \in l
    <3>1. j > Len(A) /\ j - Len(A) \in b BY <1>6, <1>8
    <3>2. First(b) <= j - Len(A) BY <2>1, <3>1
    <3>3. First(b) \in Nat /\ j \in Nat BY <1>5, <2>1
    <3> QED BY <1>1, <3>2, <3>3
  <2>5. First(l) = First(b) + Len(A) BY <1>5, <2>3, <2>4, FirstIs
  <2>6. L[First(b) + Len(A)] = B[First(b)] BY <1>1, <2>2
  <2> QED BY <1>8, <2>3, <2>5, <2>6 DEF Answer, a, b, l, L
<1>9. CASE a = {} /\ b = {}
  <2>1. l = {} BY <1>6, <1>9
  <2> QED BY <1>9, <2>1 DEF Answer, a, b, l, L
<1> QED BY <1>7, <1>8, <1>9 DEF a

LEMMA HitsOfPieces ==
    ASSUME NEW T, NEW A \in Seq(T), NEW B \in Seq(T), NEW destination
    PROVE  Hits(A \o B, destination) = {} <=>
              Hits(A, destination) = {} /\ Hits(B, destination) = {}
<1> DEFINE L == A \o B
<1>1. /\ DOMAIN A = 1..Len(A) /\ Len(A) \in Nat /\ DOMAIN B = 1..Len(B) /\ Len(B) \in Nat
      /\ DOMAIN L = 1..(Len(A) + Len(B))
      /\ \A i \in 1..Len(A) : L[i] = A[i]
      /\ \A i \in 1..Len(B) : L[i + Len(A)] = B[i]
      OBVIOUS
<1>2. \A k \in DOMAIN L : \/ k \in DOMAIN A /\ L[k] = A[k]
                          \/ k - Len(A) \in DOMAIN B /\ L[k] = B[k - Len(A)]
      BY <1>1
<1>3. \A k \in DOMAIN A : k \in DOMAIN L /\ L[k] = A[k] BY <1>1
<1>4. \A k \in DOMAIN B : (k + Len(A)) \in DOMAIN L /\ L[k + Len(A)] = B[k] BY <1>1
<1> HIDE DEF L
<1>5. Hits(L, destination) = {} <=>
         Hits(A, destination) = {} /\ Hits(B, destination) = {}
      BY <1>2, <1>3, <1>4 DEF Hits
<1> QED BY <1>5 DEF L

Lined == [if : UserCondition \cup LocalNetwork \cup {Everything, "ipv6", "quic"},
          to : {"DIRECT", "PROXY", "REJECT", "direct", "proxy", "reject", "block"}]

Profile == Seq(Lined)

(* The rule for everything else, of the published ones.                     *)
Else == ActiveRules[CHOOSE i \in DOMAIN ActiveRules : Terminal(ActiveRules[i])]

LEMMA ServedRules ==
    ASSUME ProfilesInv
    PROVE  /\ Distinct(ActiveRules)
           /\ Distinct(Ordinary) /\ Held(Ordinary) = {ActiveRules[i] : i \in Owned}
           /\ \A destination :
                 /\ Hits(Ordinary, destination) # {} <=>
                       Owned \cap Hits(ActiveRules, destination) # {}
                 /\ Hits(Ordinary, destination) # {} =>
                       Ordinary[First(Hits(Ordinary, destination))]
                          = ActiveRules[First(Owned \cap Hits(ActiveRules, destination))]
           /\ Distinct(CatchAll) /\ CatchAll # <<>> /\ 1 \in DOMAIN CatchAll
           /\ \A i \in DOMAIN CatchAll : CatchAll[i].if = Everything
           /\ CatchAll[1] = Else
<1> DEFINE every == {i \in Enabled : Terminal(ActiveRules[i])}
<1>1. Ruled(ActiveRules) /\ Distinct(ActiveRules) BY ActiveRuled DEF Ruled
<1>2. Owned \subseteq DOMAIN ActiveRules /\ Ordinary = Those(ActiveRules, Owned)
  <2>1. Owned = {i \in Enabled : ~Terminal(ActiveRules[i])} BY DEF Owned, Enabled
  <2> QED BY <2>1 DEF Ordinary, Owned
<1>3. Distinct(Ordinary) /\ Held(Ordinary) = {ActiveRules[i] : i \in Owned}
      BY <1>1, <1>2, DistinctThose
<1>4. \A destination :
         /\ Hits(Ordinary, destination) # {} <=> Owned \cap Hits(ActiveRules, destination) # {}
         /\ Hits(Ordinary, destination) # {} =>
               Ordinary[First(Hits(Ordinary, destination))]
                  = ActiveRules[First(Owned \cap Hits(ActiveRules, destination))]
      BY <1>1, <1>2, ThoseFirst
<1>5. every \subseteq DOMAIN ActiveRules /\ CatchAll = Those(ActiveRules, every)
      BY DEF CatchAll, Enabled
<1>6. PICK e \in DOMAIN ActiveRules : ActiveRules[e].if = Everything BY <1>1 DEF Ruled, Held
<1>7. e \in every BY <1>1, <1>6 DEF Distinct, Enabled, Terminal
<1>8. \A i \in every : ActiveRules[i].if = Everything BY DEF Terminal
<1> HIDE DEF every
<1>9. Distinct(CatchAll) /\ Held(CatchAll) = {ActiveRules[i] : i \in every}
      BY <1>1, <1>5, DistinctThose
<1>10. DOMAIN CatchAll = 1..Len(CatchAll) /\ Len(CatchAll) \in Nat BY <1>9 DEF Distinct
<1>11. PICK n \in DOMAIN CatchAll : CatchAll[n] = ActiveRules[e] BY <1>7, <1>9 DEF Held
<1>12. 1 \in DOMAIN CatchAll /\ CatchAll # <<>> BY <1>10, <1>11
<1>13. \A i \in DOMAIN CatchAll : CatchAll[i] \in Held(CatchAll) BY DEF Held
<1>14. \A i \in DOMAIN CatchAll : CatchAll[i].if = Everything BY <1>8, <1>9, <1>13
<1>15. CatchAll[1] = Else
  <2>1. PICK i \in every : CatchAll[1] = ActiveRules[i] BY <1>9, <1>12, <1>13
  <2>2. i \in DOMAIN ActiveRules /\ Terminal(ActiveRules[i]) BY <1>5, <1>8, <2>1 DEF Terminal
  <2>3. \A k \in DOMAIN ActiveRules : Terminal(ActiveRules[k]) => k = i
        BY <1>1, <2>2 DEF Distinct, Terminal
  <2>4. (CHOOSE k \in DOMAIN ActiveRules : Terminal(ActiveRules[k])) = i BY <2>2, <2>3
  <2> QED BY <2>1, <2>4 DEF Else
<1> QED BY <1>1, <1>3, <1>4, <1>9, <1>12, <1>14, <1>15

(* Rules that are written line by line are matched as they are.             *)
LEMMA LinesAnswer ==
    ASSUME NEW list, Distinct(list), NEW destination, NEW final, NEW lines \in Profile,
           Len(lines) = Len(list),
           \A k \in DOMAIN list : /\ lines[k].if = list[k].if
                                  /\ Meaning(lines[k].to) = list[k].action
    PROVE  /\ Hits(lines, destination) = Hits(list, destination)
           /\ Hits(list, destination) # {} =>
                 Meaning(Answer(lines, final, destination))
                    = list[First(Hits(list, destination))].action
<1>1. DOMAIN lines = DOMAIN list /\ DOMAIN list \subseteq Nat
      BY DEF Distinct, Profile
<1>2. Hits(lines, destination) = Hits(list, destination) BY <1>1 DEF Hits
<1>3. Hits(list, destination) \subseteq DOMAIN list BY DEF Hits
<1>4. ASSUME Hits(list, destination) # {}
      PROVE  First(Hits(list, destination)) \in DOMAIN list
  <2>1. Hits(list, destination) \in SUBSET Nat BY <1>1, <1>3
  <2>2. First(Hits(list, destination)) \in Hits(list, destination) BY <1>4, <2>1, FirstOf
  <2> QED BY <1>3, <2>2
<1> QED BY <1>2, <1>4 DEF Answer

LEMMA CatchAllAnswers ==
    ASSUME ProfilesInv, NEW destination, NEW final, NEW lines \in Profile,
           Len(lines) = Len(CatchAll),
           \A k \in DOMAIN CatchAll : /\ lines[k].if = CatchAll[k].if
                                      /\ Meaning(lines[k].to) = CatchAll[k].action
    PROVE  Meaning(Answer(lines, final, destination)) = Else.action
<1>1. /\ Distinct(CatchAll) /\ 1 \in DOMAIN CatchAll
      /\ \A i \in DOMAIN CatchAll : CatchAll[i].if = Everything
      BY ServedRules
<1>2. Hits(CatchAll, destination) = DOMAIN CatchAll BY <1>1 DEF Hits
<1>3. DOMAIN CatchAll = 1..Len(CatchAll) /\ Len(CatchAll) \in Nat BY <1>1 DEF Distinct
<1>4. First(DOMAIN CatchAll) = 1
  <2>1. DOMAIN CatchAll \in SUBSET Nat /\ \A j \in DOMAIN CatchAll : 1 <= j BY <1>3
  <2> QED BY <1>1, <2>1, FirstIs
<1>5. /\ Hits(CatchAll, destination) # {} =>
                 Meaning(Answer(lines, final, destination))
                    = CatchAll[First(Hits(CatchAll, destination))].action
      BY <1>1, LinesAnswer
<1> QED BY <1>1, <1>2, <1>4, <1>5, ServedRules

Guarded(destination) ==
    \/ ~network.ipv6 /\ "ipv6" \in destination
    \/ network.blockQuic /\ "quic" \in destination

LEMMA GuardsAnswer ==
    ASSUME ProfilesInv, NEW destination, NEW final, NEW verdict \in {"REJECT", "reject", "block"},
           NEW lines, lines = Guards(verdict)
    PROVE  /\ lines \in Profile
           /\ Hits(lines, destination) # {} <=> Guarded(destination)
           /\ Guarded(destination) => Meaning(Answer(lines, final, destination)) = "BLOCK"
<1> DEFINE six == LineOf("ipv6", verdict)
           quic == LineOf("quic", verdict)
<1>1. network.ipv6 \in BOOLEAN /\ network.blockQuic \in BOOLEAN BY DEF ProfilesInv
<1>2. lines = (IF network.ipv6 THEN <<>> ELSE <<six>>)
              \o (IF network.blockQuic THEN <<quic>> ELSE <<>>)
      BY DEF Guards
<1>3. /\ six.if = "ipv6" /\ six.to = verdict /\ quic.if = "quic" /\ quic.to = verdict
      /\ "ipv6" # Everything /\ "quic" # Everything
      BY DEF LineOf, Everything
<1>4. six \in Lined /\ quic \in Lined BY DEF LineOf, Lined
<1> HIDE DEF six, quic
<1>5. /\ lines \in Seq(Lined)
      /\ \/ ~ network.ipv6 /\ network.blockQuic /\ lines = <<six, quic>>
         \/ ~ network.ipv6 /\ ~ network.blockQuic /\ lines = <<six>>
         \/ network.ipv6 /\ network.blockQuic /\ lines = <<quic>>
         \/ network.ipv6 /\ ~ network.blockQuic /\ lines = <<>>
  <2>1. CASE ~ network.ipv6 /\ network.blockQuic
    <3>1. lines = <<six>> \o <<quic>> BY <1>2, <2>1
    <3>2. /\ lines \in Seq(Lined) /\ Len(lines) = 2
          /\ lines[1] = six /\ lines[2] = quic
          BY <1>4, <3>1
    <3>3. lines = <<six, quic>> BY <3>2
    <3> QED BY <2>1, <3>2, <3>3
  <2>2. CASE ~ network.ipv6 /\ ~ network.blockQuic
    <3>1. lines = <<six>> \o <<>> BY <1>2, <2>2
    <3>2. lines = <<six>> /\ lines \in Seq(Lined) BY <1>4, <3>1
    <3> QED BY <2>2, <3>2
  <2>3. CASE network.ipv6 /\ network.blockQuic
    <3>1. lines = <<>> \o <<quic>> BY <1>2, <2>3
    <3>2. lines = <<quic>> /\ lines \in Seq(Lined) BY <1>4, <3>1
    <3> QED BY <2>3, <3>2
  <2>4. CASE network.ipv6 /\ ~ network.blockQuic
    <3>1. lines = <<>> \o <<>> BY <1>2, <2>4
    <3>2. lines = <<>> /\ lines \in Seq(Lined) BY <3>1
    <3> QED BY <2>4, <3>2
  <2> QED BY <1>1, <2>1, <2>2, <2>3, <2>4
<1>6. \A k \in DOMAIN lines : lines[k].to = verdict BY <1>3, <1>5
<1>7. Hits(lines, destination) # {} <=> Guarded(destination)
  <2>1. CASE ~ network.ipv6 /\ network.blockQuic /\ lines = <<six, quic>>
    <3>1. DOMAIN lines = {1, 2} /\ lines[1] = six /\ lines[2] = quic BY <2>1
    <3> QED BY <1>3, <2>1, <3>1 DEF Hits, Guarded
  <2>2. CASE ~ network.ipv6 /\ ~ network.blockQuic /\ lines = <<six>>
    <3>1. DOMAIN lines = {1} /\ lines[1] = six BY <2>2
    <3> QED BY <1>3, <2>2, <3>1 DEF Hits, Guarded
  <2>3. CASE network.ipv6 /\ network.blockQuic /\ lines = <<quic>>
    <3>1. DOMAIN lines = {1} /\ lines[1] = quic BY <2>3
    <3> QED BY <1>3, <2>3, <3>1 DEF Hits, Guarded
  <2>4. CASE network.ipv6 /\ ~ network.blockQuic /\ lines = <<>>
    <3>1. DOMAIN lines = {} BY <2>4
    <3> QED BY <2>4, <3>1 DEF Hits, Guarded
  <2> QED BY <1>5, <2>1, <2>2, <2>3, <2>4
<1>8. ASSUME Guarded(destination)
      PROVE  Meaning(Answer(lines, final, destination)) = "BLOCK"
  <2>1. Hits(lines, destination) # {} BY <1>7, <1>8
  <2>2. Hits(lines, destination) \subseteq DOMAIN lines /\ DOMAIN lines \subseteq Nat
        BY <1>5 DEF Hits
  <2>3. First(Hits(lines, destination)) \in DOMAIN lines
    <3>1. Hits(lines, destination) \in SUBSET Nat BY <2>2
    <3> QED BY <2>1, <2>2, <3>1, FirstOf
  <2>4. Answer(lines, final, destination) = verdict BY <1>6, <2>1, <2>3 DEF Answer
  <2> QED BY <2>4 DEF Meaning
<1> QED BY <1>5, <1>7, <1>8 DEF Profile

(* A rule of each profile says what the rule says.                          *)
LEMMA RulesWritten ==
    ASSUME NEW rule \in Ruling, NEW line \in {mihomoRule(rule), singBoxRule(rule), xrayRule(rule)}
    PROVE  /\ line \in Lined
           /\ line.if = rule.if /\ Meaning(line.to) = rule.action
<1>1. /\ rule.if \in UserCondition \cup LocalNetwork \cup {Everything}
      /\ rule.action \in {"DIRECT", "PROXY", "BLOCK"}
      BY DEF Ruling, Actions
<1>2. CASE line = mihomoRule(rule)
  <2>1. CASE rule.action = "DIRECT"
        BY <1>1, <1>2, <2>1 DEF mihomoRule, LineOf, Lined, Meaning
  <2>2. CASE rule.action = "PROXY"
        BY <1>1, <1>2, <2>2 DEF mihomoRule, LineOf, Lined, Meaning
  <2>3. CASE rule.action = "BLOCK"
        BY <1>1, <1>2, <2>3 DEF mihomoRule, LineOf, Lined, Meaning
  <2> QED BY <1>1, <2>1, <2>2, <2>3
<1>3. CASE line = singBoxRule(rule)
  <2>1. CASE rule.action = "DIRECT"
        BY <1>1, <1>3, <2>1 DEF singBoxRule, LineOf, Lined, Meaning
  <2>2. CASE rule.action = "PROXY"
        BY <1>1, <1>3, <2>2 DEF singBoxRule, LineOf, Lined, Meaning
  <2>3. CASE rule.action = "BLOCK"
        BY <1>1, <1>3, <2>3 DEF singBoxRule, LineOf, Lined, Meaning
  <2> QED BY <1>1, <2>1, <2>2, <2>3
<1>4. CASE line = xrayRule(rule)
  <2>1. CASE rule.action = "DIRECT"
        BY <1>1, <1>4, <2>1 DEF xrayRule, LineOf, Lined, Meaning
  <2>2. CASE rule.action = "PROXY"
        BY <1>1, <1>4, <2>2 DEF xrayRule, LineOf, Lined, Meaning
  <2>3. CASE rule.action = "BLOCK"
        BY <1>1, <1>4, <2>3 DEF xrayRule, LineOf, Lined, Meaning
  <2> QED BY <1>1, <2>1, <2>2, <2>3
<1> QED BY <1>2, <1>3, <1>4

LEMMA ListsWritten ==
    ASSUME NEW list, Distinct(list),
           NEW lines \in {LineByLine(list, mihomoRule), LineByLine(list, singBoxRule),
                          LineByLine(list, xrayRule)}
    PROVE  /\ lines \in Profile /\ Len(lines) = Len(list)
           /\ \A k \in DOMAIN list : /\ lines[k].if = list[k].if
                                     /\ Meaning(lines[k].to) = list[k].action
<1>1. /\ list \in Seq(Ruling) /\ DOMAIN list = 1..Len(list) /\ Len(list) \in Nat
      /\ \A k \in DOMAIN list : list[k] \in Ruling
      BY ElementOfSeq DEF Distinct
<1>2. /\ DOMAIN lines = DOMAIN list
      /\ \A k \in DOMAIN list :
            lines[k] \in {mihomoRule(list[k]), singBoxRule(list[k]), xrayRule(list[k])}
  <2>1. CASE lines = LineByLine(list, mihomoRule)
    <3>1. lines = [k \in DOMAIN list |-> mihomoRule(list[k])] BY <2>1 DEF LineByLine
    <3> QED BY <3>1
  <2>2. CASE lines = LineByLine(list, singBoxRule)
    <3>1. lines = [k \in DOMAIN list |-> singBoxRule(list[k])] BY <2>2 DEF LineByLine
    <3> QED BY <3>1
  <2>3. CASE lines = LineByLine(list, xrayRule)
    <3>1. lines = [k \in DOMAIN list |-> xrayRule(list[k])] BY <2>3 DEF LineByLine
    <3> QED BY <3>1
  <2> QED BY <2>1, <2>2, <2>3
<1>3. \A k \in DOMAIN list : /\ lines[k] \in Lined /\ lines[k].if = list[k].if
                             /\ Meaning(lines[k].to) = list[k].action
  <2> TAKE k \in DOMAIN list
  <2>1. /\ list[k] \in Ruling
        /\ lines[k] \in {mihomoRule(list[k]), singBoxRule(list[k]), xrayRule(list[k])}
        BY <1>1, <1>2
  <2> QED BY <2>1, RulesWritten
<1>4. lines \in Seq(Lined) /\ Len(lines) = Len(list)
  <2>1. lines = [k \in DOMAIN list |-> lines[k]]
    <3>1. CASE lines = LineByLine(list, mihomoRule) BY <3>1 DEF LineByLine
    <3>2. CASE lines = LineByLine(list, singBoxRule) BY <3>2 DEF LineByLine
    <3>3. CASE lines = LineByLine(list, xrayRule) BY <3>3 DEF LineByLine
    <3> QED BY <3>1, <3>2, <3>3
  <2>2. lines \in [1..Len(list) -> Lined] BY <1>1, <1>3, <2>1
  <2> QED BY <1>1, <2>2
<1> QED BY <1>3, <1>4 DEF Profile

(* The owner's rules, then the settings, then the rule for everything else. *)
LEMMA DecidedAlike ==
    ASSUME ProfilesInv, NEW destination, NEW final,
           NEW lines \in {LineByLine(Ordinary, mihomoRule), LineByLine(Ordinary, singBoxRule),
                          LineByLine(Ordinary, xrayRule)},
           NEW verdict \in {"REJECT", "reject", "block"},
           NEW rest \in Profile,
           Meaning(Answer(rest, final, destination)) = Else.action
    PROVE  Meaning(Answer((lines \o Guards(verdict)) \o rest, final, destination))
              = Decision(destination)
<1> DEFINE G == Guards(verdict)
<1>1. Distinct(Ordinary) BY ServedRules
<1>2. /\ lines \in Profile /\ Len(lines) = Len(Ordinary)
      /\ \A k \in DOMAIN Ordinary : /\ lines[k].if = Ordinary[k].if
                                    /\ Meaning(lines[k].to) = Ordinary[k].action
      BY <1>1, ListsWritten
<1>3. /\ Hits(lines, destination) = Hits(Ordinary, destination)
      /\ Hits(Ordinary, destination) # {} =>
                 Meaning(Answer(lines, final, destination))
                    = Ordinary[First(Hits(Ordinary, destination))].action
      BY <1>1, <1>2, LinesAnswer
<1>4. /\ G \in Profile
      /\ Hits(G, destination) # {} <=> Guarded(destination)
      /\ Guarded(destination) => Meaning(Answer(G, final, destination)) = "BLOCK"
      BY GuardsAnswer
<1> HIDE DEF G
<1>5. lines \in Seq(Lined) /\ G \in Seq(Lined) /\ rest \in Seq(Lined) /\ lines \o G \in Seq(Lined)
      BY <1>2, <1>4 DEF Profile
<1>6. Answer(lines \o G, final, destination)
         = IF Hits(lines, destination) # {} THEN Answer(lines, final, destination)
           ELSE Answer(G, final, destination)
      BY <1>5, AnswerOfPieces
<1>7. Answer((lines \o G) \o rest, final, destination)
         = IF Hits(lines \o G, destination) # {} THEN Answer(lines \o G, final, destination)
           ELSE Answer(rest, final, destination)
  <2> DEFINE front == lines \o G
  <2>1. front \in Seq(Lined) /\ rest \in Seq(Lined) BY <1>5
  <2> HIDE DEF front
  <2>2. Answer(front \o rest, final, destination)
           = IF Hits(front, destination) # {} THEN Answer(front, final, destination)
             ELSE Answer(rest, final, destination)
        BY <2>1, AnswerOfPieces
  <2> QED BY <2>2 DEF front
<1>8. Hits(lines \o G, destination) = {} <=>
         Hits(lines, destination) = {} /\ Hits(G, destination) = {}
      BY <1>5, HitsOfPieces
<1>9. Decision(destination) =
         IF Hits(Ordinary, destination) # {}
         THEN Ordinary[First(Hits(Ordinary, destination))].action
         ELSE IF Guarded(destination) THEN "BLOCK" ELSE Else.action
  <2>1. /\ Hits(Ordinary, destination) # {} <=> Owned \cap Hits(ActiveRules, destination) # {}
        /\ Hits(Ordinary, destination) # {} =>
               Ordinary[First(Hits(Ordinary, destination))]
                  = ActiveRules[First(Owned \cap Hits(ActiveRules, destination))]
        BY ServedRules
  <2>2. Decision(destination) =
           IF Owned \cap Hits(ActiveRules, destination) # {}
           THEN ActiveRules[First(Owned \cap Hits(ActiveRules, destination))].action
           ELSE IF Guarded(destination) THEN "BLOCK" ELSE Else.action
        BY DEF Decision, Guarded, Else
  <2> QED BY <2>1, <2>2
<1>10. CASE Hits(Ordinary, destination) # {}
  <2>1. Answer((lines \o G) \o rest, final, destination) = Answer(lines, final, destination)
        BY <1>3, <1>6, <1>7, <1>8, <1>10
  <2> QED BY <1>3, <1>9, <1>10, <2>1 DEF G
<1>11. CASE Hits(Ordinary, destination) = {} /\ Guarded(destination)
  <2>1. Answer((lines \o G) \o rest, final, destination) = Answer(G, final, destination)
        BY <1>3, <1>4, <1>6, <1>7, <1>8, <1>11
  <2> QED BY <1>4, <1>9, <1>11, <2>1 DEF G
<1>12. CASE Hits(Ordinary, destination) = {} /\ ~ Guarded(destination)
  <2>1. Answer((lines \o G) \o rest, final, destination) = Answer(rest, final, destination)
        BY <1>3, <1>4, <1>7, <1>8, <1>12
  <2> QED BY <1>9, <1>12, <2>1 DEF G
<1> QED BY <1>10, <1>11, <1>12

LEMMA ProfilesServe ==
    ASSUME ProfilesInv, NEW profile \in {mihomo, singBox, xrayJson}, NEW destination
    PROVE  Meaning(Chosen(profile, destination)) = Decision(destination)
<1>1. Chosen(profile, destination) = Answer(profile.lines, profile.final, destination)
      BY DEF Chosen, Answer
<1>2. Distinct(CatchAll) /\ CatchAll # <<>> /\ 1 \in DOMAIN CatchAll BY ServedRules
<1>3. ASSUME NEW rest \in {LineByLine(CatchAll, mihomoRule), LineByLine(CatchAll, xrayRule)}, NEW final
      PROVE  /\ rest \in Profile
             /\ Meaning(Answer(rest, final, destination)) = Else.action
  <2>1. /\ rest \in Profile /\ Len(rest) = Len(CatchAll)
        /\ \A k \in DOMAIN CatchAll : /\ rest[k].if = CatchAll[k].if
                                      /\ Meaning(rest[k].to) = CatchAll[k].action
        BY <1>2, ListsWritten
  <2> QED BY <2>1, CatchAllAnswers
<1>4. CASE profile = mihomo
  <2>1. /\ profile.lines = (LineByLine(Ordinary, mihomoRule) \o Guards("REJECT"))
                           \o LineByLine(CatchAll, mihomoRule)
        BY <1>4 DEF mihomo
  <2>2. Meaning(Answer(profile.lines, profile.final, destination))
           = Decision(destination)
        BY <1>3, <2>1, DecidedAlike
  <2> QED BY <1>1, <2>2
<1>5. CASE profile = xrayJson
  <2>1. /\ profile.lines = (LineByLine(Ordinary, xrayRule) \o Guards("block"))
                           \o LineByLine(CatchAll, xrayRule)
        BY <1>5 DEF xrayJson
  <2>2. Meaning(Answer(profile.lines, profile.final, destination))
           = Decision(destination)
        BY <1>3, <2>1, DecidedAlike
  <2> QED BY <1>1, <2>2
<1>6. CASE profile = singBox
  <2>1. /\ profile.lines = LineByLine(Ordinary, singBoxRule) \o Guards("reject")
        /\ profile.final = singBoxFinal
        BY <1>6 DEF singBox
  <2>2. Meaning(profile.final) = CatchAll[1].action
    <3>1. CatchAll[1].action \in {"DIRECT", "PROXY", "BLOCK"}
      <4>1. CatchAll[1] \in Ruling BY <1>2, ElementOfSeq DEF Distinct
      <4> QED BY <4>1 DEF Ruling, Actions
    <3>2. CASE CatchAll[1].action = "DIRECT" BY <1>2, <2>1, <3>2 DEF singBoxFinal, Meaning
    <3>3. CASE CatchAll[1].action = "PROXY" BY <1>2, <2>1, <3>3 DEF singBoxFinal, Meaning
    <3>4. CASE CatchAll[1].action = "BLOCK" BY <1>2, <2>1, <3>4 DEF singBoxFinal, Meaning
    <3> QED BY <3>1, <3>2, <3>3, <3>4
  <2>3. /\ <<>> \in Profile
        /\ Answer(<<>>, profile.final, destination) = profile.final
        BY DEF Profile, Answer, Hits
  <2>4. Meaning(Answer(profile.lines \o <<>>, profile.final, destination))
           = Decision(destination)
    <3>1. Meaning(Answer(<<>>, profile.final, destination)) = Else.action
          BY <2>2, <2>3, ServedRules
    <3>2. Meaning(Answer((LineByLine(Ordinary, singBoxRule) \o Guards("reject")) \o <<>>,
                         profile.final, destination)) = Decision(destination)
          BY <2>3, <3>1, DecidedAlike
    <3> QED BY <2>1, <3>2
  <2>5. profile.lines \o <<>> = profile.lines
    <3>1. Distinct(Ordinary) BY ServedRules
    <3>2. LineByLine(Ordinary, singBoxRule) \in Profile BY <3>1, ListsWritten
    <3>3. Guards("reject") \in Profile BY GuardsAnswer
    <3>4. profile.lines \in Profile BY <2>1, <3>2, <3>3 DEF Profile
    <3> QED BY <3>4 DEF Profile
  <2> QED BY <1>1, <2>4, <2>5
<1> QED BY <1>4, <1>5, <1>6

LEMMA GroupsServe ==
    ASSUME ProfilesInv, NEW i \in Owned, NEW action \in Actions
    PROVE  ActiveRules[i].if \in linkGroups[action] <=> action = ActiveRules[i].action
<1>1. /\ Distinct(ActiveRules) /\ Owned \subseteq DOMAIN ActiveRules
      /\ Held(Ordinary) = {ActiveRules[k] : k \in Owned}
      BY ServedRules DEF Owned
<1>2. ActiveRules[i] \in Ruling BY <1>1, ElementOfSeq DEF Distinct
<1>3. ActiveRules[i].if # "ipv6"
  <2>1. ActiveRules[i].if \in UserCondition \cup LocalNetwork \cup {Everything}
        BY <1>2 DEF Ruling
  <2>2. "ipv6" \notin UserCondition BY ProfilesAssumption
  <2>3. "ipv6" \notin LocalNetwork
    <3>1. /\ DOMAIN localNetworks = {1, 2}
          /\ localNetworks[1] = "10.0.0.0/8" /\ localNetworks[2] = "192.168.0.0/16"
          BY DEF localNetworks
    <3> QED BY <3>1 DEF LocalNetwork
  <2>4. "ipv6" # Everything BY DEF Everything
  <2> QED BY <2>1, <2>2, <2>3, <2>4
<1>4. ActiveRules[i].if \in linkGroups[action] <=>
         ActiveRules[i].if \in {Ordinary[k].if : k \in {n \in DOMAIN Ordinary : Ordinary[n].action = action}}
      BY <1>3 DEF linkGroups
<1>5. ActiveRules[i].if \in linkGroups[action] <=>
         \E k \in DOMAIN Ordinary : Ordinary[k].action = action /\ Ordinary[k].if = ActiveRules[i].if
      BY <1>4
<1>6. ActiveRules[i].if \in linkGroups[action] <=>
         \E k \in Owned : ActiveRules[k].action = action /\ ActiveRules[k].if = ActiveRules[i].if
  <2>1. ActiveRules[i].if \in linkGroups[action] <=>
           \E rule \in Held(Ordinary) : rule.action = action /\ rule.if = ActiveRules[i].if
        BY <1>5 DEF Held
  <2> QED BY <1>1, <2>1
<1> QED BY <1>1, <1>6 DEF Distinct

LEMMA ProfilesMean == ASSUME ProfilesInv PROVE Agreed
<1>1. \A profile \in {mihomo, singBox, xrayJson} : \A destination \in Destination :
         Meaning(Chosen(profile, destination)) = Decision(destination)
      BY ProfilesServe
<1>2. \A i \in Owned, action \in Actions :
         ActiveRules[i].if \in linkGroups[action] <=> action = ActiveRules[i].action
      BY GroupsServe
<1> QED BY <1>1, <1>2 DEF Agreed

(* Whatever is added, changed, removed, reordered, published, rolled back   *)
(* and discarded, the draft and every revision of RouteService name a       *)
(* condition once, and the rule for everything else is in them and is on:   *)
(* reorder() loses no rule even when it is given one of them twice.         *)
THEOREM ProfilesCorrect == ProfilesSpec => []ProfilesInv
<1>1. ProfilesInit => ProfilesInv BY ProfilesInitial
<1>2. ProfilesInv /\ [ProfilesNext]_profileVars => ProfilesInv' BY ProfilesStep
<1> QED BY <1>1, <1>2, PTL DEF ProfilesSpec

(* The renderers of subscriptions.ts mean what the owner published: each of *)
(* the three full profiles sends every destination where the rules and the  *)
(* network settings send it, although each lists the rules, the guards and  *)
(* the rule for everything else in its own way, and the groups of the       *)
(* limited profile name each enabled rule under its own action only.        *)
THEOREM RenderersAgree == ProfilesSpec => ProfilesAgree
<1>1. ProfilesInv => Agreed BY ProfilesMean
<1>2. ProfilesInv' => Agreed' BY <1>1, PTL
<1>3. ProfilesInv /\ ProfilesInv' /\ [ProfilesNext]_profileVars
         => [<<published, network>>' # <<published, network>> => Agreed']_profileVars
      BY <1>2
<1> QED BY <1>3, ProfilesCorrect, PTL DEF ProfilesSpec, ProfilesAgree
=============================================================================
