---------------------------- MODULE ConnectionEvents ----------------------------
(***************************************************************************)
(* The transport events of a connection: what an engine writes into the    *)
(* system's journal, and what the root agent makes of it when the panel    *)
(* asks for the last hour (logs.read): lines of the connection are         *)
(* normalised, the errors of streams that only follow from the end of      *)
(* their session are counted with it, and the oldest events are left out.  *)
(***************************************************************************)
EXTENDS Integers, Sequences, FiniteSets, FiniteSetsExt, Lists

CONSTANTS Address,       \* addresses of clients in the engine's messages
          SessionWindow, \* sessionEventWindowMs, in ticks of the journal's clock
          MaxLines,      \* the lines and bytes one answer may read
          EventLimit,    \* events in an answer; the panel asks for 25
          MaxLog         \* bound: lines in the journal

ASSUME ConnectionEventsAssumption ==
    /\ {SessionWindow, MaxLog} \subseteq Nat
    /\ {MaxLines, EventLimit} \subseteq Nat \ {0}

VARIABLES
    log,      \* the engine's lines in the journal, oldest first
    answer    \* what the agent answered, and the log it was made from

eventVars == <<log, answer>>

NoAddress == "none"
Unasked   == [state |-> "none"]

(* A line that is not about this connection, or that does not parse.        *)
Foreign == [mine |-> FALSE]

(* A message of the engine about this connection: its heading, the text of  *)
(* its error, the client's address and when the journal received it.        *)
Line(heading, error, address, at) ==
    [mine |-> TRUE, heading |-> heading, error |-> error, address |-> address,
     at |-> at]

-----------------------------------------------------------------------------
(* normalizeConnectionEvent()                                               *)

IsStream(line) == line.heading \in {"tcp error", "udp error"}

ReasonOf(line) ==
    CASE line.heading = "client connected"    -> "connected"
      [] line.error = "idle"                  -> "idle_timeout"
      [] line.error = "cancelled" /\ IsStream(line) -> "client_cancelled_stream"
      [] line.error = "dial timeout" /\ IsStream(line) -> "upstream_connect_timeout"
      [] line.error = "authentication"        -> "authentication_failed"
      [] line.error = "reset"                 -> "connection_reset"
      [] line.heading = "client disconnected" -> "closed"
      [] OTHER                                -> "transport_error"

TypeOf(line) ==
    CASE line.heading = "client connected"    -> "connected"
      [] line.heading = "client disconnected" -> "disconnected"
      [] OTHER                                -> "error"

Normalized(line) ==
    [type |-> TypeOf(line), reason |-> ReasonOf(line), stream |-> IsStream(line),
     address |-> line.address, at |-> line.at]

-----------------------------------------------------------------------------
(* groupConnectionEvents()                                                  *)

(* Mutant of Epoch: a reconnect does not begin a session.                   *)
EpochOfAll(records, i) == 0

(* The session of a record: how often its address had connected by then.    *)
Epoch(records, i) ==
    Cardinality({k \in 1..i : /\ records[k].type = "connected"
                              /\ records[k].address = records[i].address})

(* The disconnects a record of a stream may be a consequence of.            *)
Roots(records, i) ==
    {k \in DOMAIN records :
        /\ records[k].type = "disconnected" /\ records[k].reason = "idle_timeout"
        /\ records[k].address = records[i].address
        /\ Epoch(records, k) = Epoch(records, i)
        /\ records[i].at - records[k].at \in -SessionWindow..SessionWindow}

(* Two possible disconnects are not guessed between.                        *)
Merged(records) ==
    {i \in DOMAIN records :
        /\ records[i].address # NoAddress /\ records[i].stream
        /\ records[i].reason = "idle_timeout"
        /\ Cardinality(Roots(records, i)) = 1}

(* addRelated(), for all the records merged into this one.                  *)
Event(records, i) ==
    LET others == {j \in Merged(records) : Roots(records, j) = {i}}
        times  == {records[j].at : j \in others \cup {i}}
    IN [type |-> records[i].type, reason |-> records[i].reason,
        at |-> records[i].at, count |-> 1 + Cardinality(others),
        first |-> Min(times), last |-> Max(times), of |-> {i} \cup others]

Grouped(records) ==
    LET kept == Ascending(DOMAIN records \ Merged(records))
    IN [n \in DOMAIN kept |-> Event(records, kept[n])]

-----------------------------------------------------------------------------
(* scanConnectionEvents(): the newest lines, in the order of the journal    *)

Scanned(lines) ==
    LET read    == SubSeq(lines, Max({1, Len(lines) - MaxLines + 1}), Len(lines))
        mine    == Ascending({i \in DOMAIN read : read[i].mine})
        records == [i \in DOMAIN mine |-> Normalized(read[mine[i]])]
        events  == Grouped(records)
    IN [state     |-> "read",
        events    |-> SubSeq(events, Max({1, Len(events) - EventLimit + 1}),
                             Len(events)),
        truncated |-> Len(lines) >= MaxLines \/ Len(events) > EventLimit,
        records   |-> records]

-----------------------------------------------------------------------------
ConnectionEventsInit == log = <<>> /\ answer = Unasked

LastMoment ==
    LET mine == {i \in DOMAIN log : log[i].mine}
    IN IF mine = {} THEN 0 ELSE log[Max(mine)].at

(* The engine writes a line.  The journal's clock may be set back a little. *)
Write ==
    /\ Len(log) < MaxLog
    /\ \/ log' = Append(log, Foreign)
       \/ \E heading \in {"client connected", "client disconnected", "tcp error"},
             error   \in {"idle", "cancelled"},
             address \in Address \cup {NoAddress},
             step    \in {-1, SessionWindow} :
             /\ (heading = "client connected" => error = "cancelled")
             /\ LastMoment + step >= 0
             /\ log' = Append(log, Line(heading, error, address,
                                        LastMoment + step))
    /\ answer' = Unasked

(* readConnectionEvents(), and ConnectionDiagnostics.get(), which answers   *)
(* for this engine alone when the agent fails.                              *)
ReadEvents ==
    /\ answer = Unasked
    /\ answer' \in {Scanned(log), [state |-> "unavailable"]}
    /\ UNCHANGED log

ConnectionEventsNext == Write \/ ReadEvents

-----------------------------------------------------------------------------
(* One session, said of the records themselves: the client did not connect  *)
(* again between the two.                                                   *)
SameSession(records, i, j) ==
    /\ records[i].address = records[j].address
    /\ \A k \in (Min({i, j}) + 1)..Max({i, j}) :
          ~ (/\ records[k].type = "connected"
             /\ records[k].address = records[i].address)

(* The disconnects an error may belong to.                                  *)
MayBelong(records, i) ==
    {k \in DOMAIN records :
        /\ records[k].type = "disconnected" /\ records[k].reason = "idle_timeout"
        /\ SameSession(records, i, k)
        /\ records[i].at <= records[k].at + SessionWindow
        /\ records[k].at <= records[i].at + SessionWindow}

(* An answer counts every line it read once, and an error with a disconnect *)
(* only as the consequence of that one: of the same address, before the     *)
(* client connected again, within the window on either side, with no other  *)
(* disconnect it may belong to.  The newest events are the ones kept        *)
(* (groupConnectionEvents, scanConnectionEvents).                           *)
EventsAreGrouped ==
    answer.state = "read" =>
        LET records == answer.records
            events  == answer.events
            shown   == UNION {events[n].of : n \in DOMAIN events}
        IN /\ \A m, n \in DOMAIN events : m # n => events[m].of \cap events[n].of = {}
           /\ \A n \in DOMAIN events :
                 /\ events[n].count = Cardinality(events[n].of)
                 /\ events[n].last - events[n].first <= 2 * SessionWindow
                 /\ Cardinality(events[n].of) > 1 =>
                       \E root \in events[n].of :
                          /\ events[n].reason = "idle_timeout"
                          /\ \A i \in events[n].of \ {root} :
                                records[i].stream /\ MayBelong(records, i) = {root}
           /\ ~ answer.truncated =>
                 /\ shown = DOMAIN records
                 /\ \A i \in DOMAIN records :
                       records[i].stream /\ records[i].reason = "idle_timeout"
                       /\ records[i].address # NoAddress
                       /\ Cardinality(MayBelong(records, i)) = 1 =>
                             \E n \in DOMAIN events :
                                {i} \cup MayBelong(records, i) \subseteq events[n].of
=============================================================================
