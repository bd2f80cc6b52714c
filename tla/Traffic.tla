-------------------------------- MODULE Traffic --------------------------------
(***************************************************************************)
(* Accounting of one user's traffic: collect() of TrafficService reads the *)
(* counters of the engines, recordCumulative() turns them into rows of     *)
(* five minutes, compact() rolls these up into hours and days.             *)
(*                                                                         *)
(* A counter belongs to one session (Mihomo, sing-box) and ends with it,   *)
(* or to the user (Hysteria, Xray, a peer of AmneziaWG) and starts again   *)
(* at zero with its engine.  Upload and download are judged and summed     *)
(* apart, so that one direction is modelled; rows of different engines are *)
(* never merged and are added up by every reader, so that the engine is    *)
(* left out of the key.  Time is counted in fine buckets.                  *)
(***************************************************************************)
EXTENDS Integers, FiniteSets

CONSTANTS Counter,
          Session,              \* counters of sessions
          MaxBytes,             \* bound: what the counters carry together
          Horizon,              \* bound: the last moment
          Hour, Day,            \* lengths of the coarser buckets
          KeepFine, KeepHourly, \* 48 hours and 90 days
          MaxCrashes            \* bound

ASSUME TrafficAssumption ==
    /\ Session \subseteq Counter /\ IsFiniteSet(Counter)
    /\ {MaxBytes, Horizon, KeepFine, KeepHourly, MaxCrashes} \subseteq Nat
    /\ {Hour, Day} \subseteq Nat \ {0}

VARIABLES
    clock,
    alive,      \* the counters an engine reports
    bytes,      \* what they show
    cursor,     \* traffic_cursors: the value counted last, and observed_at
    row,        \* traffic_samples
    poll,       \* collect(): where it is and the snapshots it has not recorded
    due,        \* five minutes have passed since compactedAt
    carried,    \* history: bytes each counter has really carried
    counted,    \* history: bytes recorded for it
    forgotten,  \* history: sessions that outlived their cursor
    torn,       \* history: a crash fell into a compaction
    crashes

trafficVars == <<clock, alive, bytes, cursor, row, poll, due,
                 carried, counted, forgotten, torn, crashes>>

Time == 0..Horizon
Bucket == {"5m", "1h", "1d"}
NoCursor == [bytes |-> -1, at |-> 0]
Compacting == {"roll5m", "roll1h", "drop5m", "drop1h", "dropCursors"}

TrafficTypeOK ==
    /\ clock \in Time /\ alive \in SUBSET Counter
    /\ bytes \in [Counter -> Nat]
    /\ cursor \in [Counter -> [bytes : Nat \cup {-1}, at : Time]]
    /\ row \in [Bucket -> [Time -> Nat]]
    /\ poll.pc \in {"idle", "record"} \cup Compacting
    /\ poll.snap \in [Counter -> Nat \cup {-1}]
    /\ due \in BOOLEAN
    /\ carried \in [Counter -> Nat] /\ counted \in [Counter -> Nat]
    /\ forgotten \in SUBSET Session /\ torn \in BOOLEAN
    /\ crashes \in 0..MaxCrashes

-----------------------------------------------------------------------------
NoSnap == [c \in Counter |-> -1]

(* What f counts at the places of S, unit by unit, so that a sum is the     *)
(* size of a set.                                                          *)
Units(f, S) == UNION {{x} \X (1..f[x]) : x \in S}
Amount(f, S) == Cardinality(Units(f, S))
Total(f) == Amount(f, DOMAIN f)

(* Mutation of Delta: the reading before does not count.                   *)
DeltaFromZero(value, before) == value
(* What a reading adds to the reading before it (-1: there is none).       *)
Delta(value, before) ==
    IF before >= 0 /\ value >= before THEN value - before ELSE value

Floor(t, span) == (t \div span) * span

-----------------------------------------------------------------------------
(* The engines and the clock.  compact() neither waits nor asks an engine: *)
(* what happens during it is as if it happened after it.                   *)

Carry(c) ==
    /\ c \in alive /\ Total(carried) < MaxBytes /\ poll.pc \notin Compacting
    /\ bytes' = [bytes EXCEPT ![c] = @ + 1]
    /\ carried' = [carried EXCEPT ![c] = @ + 1]
    /\ UNCHANGED <<clock, alive, cursor, row, poll, due, counted, forgotten,
                   torn, crashes>>

(* Sessions end; the other counters start again.                           *)
EngineRestarts(c) ==
    /\ c \in alive /\ poll.pc \notin Compacting
    /\ IF c \in Session THEN alive' = alive \ {c} /\ UNCHANGED bytes
                        ELSE bytes' = [bytes EXCEPT ![c] = 0] /\ UNCHANGED alive
    /\ UNCHANGED <<clock, cursor, row, poll, due, carried, counted, forgotten,
                   torn, crashes>>

Tick ==
    /\ clock < Horizon /\ poll.pc = "idle"
    /\ clock' = clock + 1 /\ due' = TRUE
    /\ UNCHANGED <<alive, bytes, cursor, row, poll, carried, counted, forgotten,
                   torn, crashes>>

-----------------------------------------------------------------------------
(* What the collectors of the engines return: the counters as they show,   *)
(* by session, by user or by peer.                                         *)
Snapshot(answered) == [c \in Counter |-> IF c \in answered THEN bytes[c] ELSE -1]

(* collect().  The collectors answer for some of the counters: an engine   *)
(* may fail or not be asked yet.                                           *)
Collect(answered) ==
    /\ poll.pc = "idle"
    /\ poll' = [pc |-> "record", snap |-> Snapshot(answered)]
    /\ UNCHANGED <<clock, alive, bytes, cursor, row, due, carried, counted,
                   forgotten, torn, crashes>>

(* recordCumulative(): cursor and row change in one transaction.           *)
RecordCumulative(c) ==
    /\ poll.pc = "record" /\ poll.snap[c] >= 0
    /\ LET delta == Delta(poll.snap[c], cursor[c].bytes)
       IN /\ row' = [row EXCEPT !["5m"][clock] = @ + delta]
          /\ counted' = [counted EXCEPT ![c] = @ + delta]
    /\ cursor' = [cursor EXCEPT ![c] = [bytes |-> poll.snap[c], at |-> clock]]
    /\ poll' = [poll EXCEPT !.snap[c] = -1]
    /\ UNCHANGED <<clock, alive, bytes, due, carried, forgotten, torn, crashes>>

Goes(pc) == poll' = [poll EXCEPT !.pc = pc]

(* Compaction follows the readings of the same cycle.                      *)
Collected ==
    /\ poll.pc = "record" /\ poll.snap = NoSnap
    /\ Goes(IF due THEN "roll5m" ELSE "idle")
    /\ UNCHANGED <<clock, alive, bytes, cursor, row, due, carried, counted,
                   forgotten, torn, crashes>>

-----------------------------------------------------------------------------
(* compact().  The statements between which the process may die.           *)

(* rollup(): one transaction.                                              *)
Rolled(source, target, before, span) ==
    [row EXCEPT ![target] =
        [t \in Time |-> @[t] + Amount(row[source],
                                  {x \in Time : x < before /\ Floor(x, span) = t})]]

(* Mutation of Dropped: the cutoff itself is deleted.                      *)
DroppedInclusive(source, before) ==
    [row EXCEPT ![source] = [t \in Time |-> IF t <= before THEN 0 ELSE @[t]]]
Dropped(source, before) ==
    [row EXCEPT ![source] = [t \in Time |-> IF t < before THEN 0 ELSE @[t]]]

CompactRows ==
    /\ \/ poll.pc = "roll5m" /\ row' = Rolled("5m", "1h", clock - KeepFine, Hour)
            /\ Goes("roll1h")
       \/ poll.pc = "roll1h" /\ row' = Rolled("1h", "1d", clock - KeepHourly, Day)
            /\ Goes("drop5m")
       \/ poll.pc = "drop5m" /\ row' = Dropped("5m", clock - KeepFine)
            /\ Goes("drop1h")
       \/ poll.pc = "drop1h" /\ row' = Dropped("1h", clock - KeepHourly)
            /\ Goes("dropCursors")
    /\ UNCHANGED <<clock, alive, bytes, cursor, due, carried, counted, forgotten,
                   torn, crashes>>

(* The cursors of sessions that were not read for 48 hours.                *)
CompactCursors ==
    /\ poll.pc = "dropCursors"
    /\ LET old == {c \in Session : cursor[c].bytes >= 0
                                     /\ cursor[c].at < clock - KeepFine}
       IN /\ cursor' = [c \in Counter |-> IF c \in old THEN NoCursor ELSE cursor[c]]
          /\ forgotten' = forgotten \cup (old \cap alive)
    /\ due' = FALSE /\ Goes("idle")
    /\ UNCHANGED <<clock, alive, bytes, row, carried, counted, torn, crashes>>

(* The process dies: snapshots and compactedAt are lost.                   *)
Crash ==
    /\ crashes < MaxCrashes /\ crashes' = crashes + 1
    /\ poll' = [pc |-> "idle", snap |-> NoSnap] /\ due' = TRUE
    /\ torn' = (torn \/ poll.pc \in Compacting)
    /\ UNCHANGED <<clock, alive, bytes, cursor, row, carried, counted, forgotten>>

TrafficNext ==
    \/ Tick \/ Collected \/ CompactRows \/ CompactCursors \/ Crash
    \/ \E c \in Counter : Carry(c) \/ EngineRestarts(c) \/ RecordCumulative(c)
    \/ \E answered \in SUBSET alive : Collect(answered)

TrafficInit ==
    /\ clock = 0 /\ alive = Counter /\ bytes = [c \in Counter |-> 0]
    /\ cursor = [c \in Counter |-> NoCursor]
    /\ row = [b \in Bucket |-> [t \in Time |-> 0]]
    /\ poll = [pc |-> "idle", snap |-> NoSnap] /\ due = TRUE
    /\ carried = [c \in Counter |-> 0] /\ counted = carried
    /\ forgotten = {} /\ torn = FALSE /\ crashes = 0

TrafficSpec == TrafficInit /\ [][TrafficNext]_trafficVars

-----------------------------------------------------------------------------
(* Properties.                                                             *)

(* No counter is recorded for more than it carried, however engines        *)
(* restart, snapshots are lost and polls fail, except for a session that   *)
(* could not be read for 48 hours and went on.                             *)
NeverOvercounted ==
    \A c \in Counter \ forgotten : counted[c] <= carried[c]

(* Compaction moves bytes and neither makes nor loses any: what the rows   *)
(* add up to is what was recorded, unless the process died inside it.      *)
TotalsKept ==
    poll.pc \notin Compacting /\ ~torn =>
        Total(row["5m"]) + Total(row["1h"]) + Total(row["1d"]) = Total(counted)
=============================================================================
