-------------------------------- MODULE Journal --------------------------------
(***************************************************************************)
(* The journal of events: what JournalService.record() appends and list()  *)
(* returns, and the page of the panel that reads it piece by piece, with   *)
(* several requests on their way at once.                                  *)
(*                                                                         *)
(* A collector dates its events when it starts, so that an event may be    *)
(* older than one with a smaller id.                                       *)
(***************************************************************************)
EXTENDS Naturals, Sequences, SequencesExt, Lists

CONSTANTS MaxEvents,   \* bound: events recorded
          MaxTime,     \* bound: moments
          MaxLoads,    \* bound: requests of the page
          PageSize     \* events in an answer; the panel asks for 7

ASSUME JournalAssumption ==
    {MaxEvents, MaxTime, MaxLoads} \subseteq Nat /\ PageSize \in Nat \ {0}

VARIABLES
    entries,  \* the table, in the order of its ids: when and of which class
    today,
    page,     \* the page of the panel: the filter chosen, the rows (ids) it
              \* shows, the cursor of the next piece, whether it is busy
    loads,    \* every request of the page, by number: what it asked, and what
              \* has become of it
    marks     \* history: the filter of the rows, and the events there were
              \* when their first piece was read; "mixed" when a piece was asked
              \* for under another filter than that of the rows

journalVars == <<entries, today, page, loads, marks>>

Class   == {"change", "failure"}
Filter  == {"all", "changes", "errors"}
TheEnd  == 0    \* the cursor of an answer nothing follows, and of a first piece

Query(filter, before) ==
    [filter |-> filter, before |-> before, state |-> "asked",
     rows |-> <<>>, next |-> TheEnd, known |-> {}]
Done == [Query("all", TheEnd) EXCEPT !.state = "done"]

-----------------------------------------------------------------------------
(* list() *)

Matches(filter, id) ==
    \/ filter = "all"
    \/ filter = "changes" /\ entries[id].class = "change"
    \/ filter = "errors" /\ entries[id].class = "failure"

(* ORDER BY occurred_at DESC, id DESC                                       *)
Precedes(i, j) ==
    \/ entries[i].at > entries[j].at
    \/ entries[i].at = entries[j].at /\ i > j

Listed(filter) ==
    LET matching == {i \in DOMAIN entries : Matches(filter, i)}
    IN InOrder(matching, {pair \in matching \X matching : Precedes(pair[1], pair[2])})

(* Mutant of After: the event of the cursor is listed again.                *)
AfterInclusive(list, before) ==
    IF Contains(list, before)
    THEN SelectInSeq(list, LAMBDA id : id = before) - 1 ELSE 0

(* What has been read already: up to the event of the cursor, or nothing    *)
(* when that event is not in the list.                                      *)
After(list, before) == SelectInSeq(list, LAMBDA id : id = before)

PageOf(filter, before) ==
    LET available == SubSeq(Listed(filter), After(Listed(filter), before) + 1,
                            Len(Listed(filter)))
    IN IF Len(available) > PageSize
       THEN [rows |-> SubSeq(available, 1, PageSize), next |-> available[PageSize]]
       ELSE [rows |-> available, next |-> TheEnd]

-----------------------------------------------------------------------------
JournalInit ==
    /\ entries = <<>> /\ today = 1
    /\ page = [filter |-> "all", rows |-> <<>>, next |-> TheEnd, busy |-> FALSE]
    /\ loads = <<>>
    /\ marks = [filter |-> "all", known |-> {}, mixed |-> FALSE]

(* record(): now, or dated with the moment its collector started.           *)
Records(at, class) ==
    /\ Len(entries) < MaxEvents
    /\ entries' = Append(entries, [at |-> at, class |-> class])
    /\ UNCHANGED <<today, page, loads, marks>>

TimePasses ==
    /\ today < MaxTime
    /\ today' = today + 1
    /\ UNCHANGED <<entries, page, loads, marks>>

(* load(): a request that takes the place of every earlier one.             *)
Asks(filter, before) ==
    /\ Len(loads) < MaxLoads
    /\ loads' = Append(loads, Query(filter, before))
    /\ page' = [page EXCEPT !.filter = filter, !.busy = TRUE]

(* choose(), narrow(), a search, or follow(): the panel's revision moved.   *)
AsksAnew(filter) ==
    /\ Asks(filter, TheEnd)
    /\ UNCHANGED <<entries, today, marks>>

(* The button under the rows; it is disabled while the page is busy.        *)
Continues ==
    /\ ~page.busy /\ page.next # TheEnd
    /\ Asks(page.filter, page.next)
    /\ marks' = [marks EXCEPT !.mixed = @ \/ page.filter # marks.filter]
    /\ UNCHANGED <<entries, today>>

(* The server answers; what it answers a request that has been overtaken    *)
(* already is nothing the page will look at.                                *)
Serves(n) ==
    /\ loads[n].state = "asked"
    /\ LET answer == PageOf(loads[n].filter, loads[n].before)
       IN loads' = [loads EXCEPT ![n] =
              IF n < Len(loads) THEN [Query("all", TheEnd) EXCEPT !.state = "served"]
              ELSE [@ EXCEPT !.state = "served", !.rows = answer.rows,
                             !.next = answer.next, !.known = DOMAIN entries]]
    /\ UNCHANGED <<entries, today, page, marks>>

(* The answer arrives; only that of the newest request is looked at.        *)
Receives(n) ==
    /\ loads[n].state = "served"
    /\ loads' = [loads EXCEPT ![n] = Done]
    /\ LET first == loads[n].before = TheEnd
       IN /\ page' = IF n < Len(loads) THEN page
                     ELSE [page EXCEPT
                        !.rows = IF first THEN loads[n].rows ELSE @ \o loads[n].rows,
                        !.next = loads[n].next, !.busy = FALSE]
          /\ marks' = IF n < Len(loads) \/ ~first THEN marks
                      ELSE [filter |-> loads[n].filter, known |-> loads[n].known,
                            mixed |-> FALSE]
    /\ UNCHANGED <<entries, today>>

(* The request fails on its way there or back.                              *)
Breaks(n) ==
    /\ loads[n].state \in {"asked", "served"}
    /\ loads' = [loads EXCEPT ![n] = Done]
    /\ page' = [page EXCEPT !.busy = @ /\ n < Len(loads)]
    /\ UNCHANGED <<entries, today, marks>>

JournalNext ==
    \/ \E at \in 1..today, class \in Class : Records(at, class)
    \/ TimePasses
    \/ \E filter \in Filter : AsksAnew(filter)
    \/ Continues
    \/ \E n \in DOMAIN loads : Serves(n) \/ Receives(n) \/ Breaks(n)

JournalSpec == JournalInit /\ [][JournalNext]_journalVars

-----------------------------------------------------------------------------
(* What the page shows is the journal as far as it has been read: no event  *)
(* twice, none the filter excludes, in the journal's order, and none left   *)
(* out of those there were when its first piece was read -- whatever is     *)
(* recorded, dated back, overtaken or lost between the pieces.  A piece     *)
(* asked for after a failed change of the filter is set aside: the panel    *)
(* adds it to the rows of the old one.                                      *)
JournalIsWhole ==
    marks.mixed \/
    LET shown == {page.rows[i] : i \in DOMAIN page.rows}
    IN /\ \A id \in shown : Matches(marks.filter, id)
       /\ \A i, j \in DOMAIN page.rows : i < j => Precedes(page.rows[i], page.rows[j])
       /\ \A id \in marks.known :
             /\ Matches(marks.filter, id)
             /\ page.next = TheEnd \/ \E last \in shown : Precedes(id, last)
             => id \in shown
=============================================================================
