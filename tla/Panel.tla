--------------------------------- MODULE Panel ---------------------------------
(***************************************************************************)
(* The owner's panel and what keeps it current: DashboardEvents and the    *)
(* stream of revisions, GET /api/v1/dashboard, and the Store of one        *)
(* browser that loads snapshots, listens to the stream and polls when it   *)
(* has none.                                                               *)
(*                                                                         *)
(* What a snapshot shows is abstracted to two counters of changes.  The    *)
(* handler reads the operations and the system before or while it awaits,  *)
(* everything else together with the revision afterwards.                  *)
(***************************************************************************)
EXTENDS Naturals, Sequences

CONSTANTS MaxChanges,    \* bound: changes of what a snapshot shows
          MaxMishaps     \* bound: failures, breaks, restarts, hidden tabs, expiries

ASSUME PanelAssumption == {MaxChanges, MaxMishaps} \subseteq Nat

VARIABLES
    server,     \* the process: which one, its revision, what it would show
    signedIn,   \* the browser's session is valid
    fetching,    \* the dashboard request of the one load in progress
    stream,     \* EventSource: its state and the messages on their way
    panel,      \* Store: data, pending, stale, poll timer; "misjudged": a revision
                \* of this process was compared with data of an earlier one
    shown,      \* the tab is visible and online
    mishaps

panelVars == <<server, signedIn, fetching, stream, panel, shown, mishaps>>

Nothing == [boot |-> 0, revision |-> 0, early |-> 0, late |-> 0, lag |-> FALSE]
NoFetch == [at |-> "none", early |-> 0, ok |-> FALSE, got |-> Nothing]
NoStream == [state |-> "none", messages |-> <<>>]
Ready == 0  \* "ready"; the other messages are revisions, which start at 1

Loading == fetching.at # "none"

Mishap == mishaps < MaxMishaps /\ mishaps' = mishaps + 1

-----------------------------------------------------------------------------
(* The server *)

Sent(revision) ==
    stream' = IF stream.state = "open"
              THEN [stream EXCEPT !.messages = Append(@, revision)] ELSE stream

(* publish(): what it announces is in the state already.                    *)
Announces(changed) ==
    /\ server' = [changed EXCEPT !.revision = @ + 1, !.unannounced = FALSE]
    /\ Sent(server.revision + 1)

Change(part) ==
    /\ server.early + server.late < MaxChanges
    /\ server' = [server EXCEPT ![part] = @ + 1, !.due = TRUE]

(* A handler, a collection or a drain changes something and goes on: it     *)
(* announces the change when it has finished.                               *)
HandlerWrites ==
    /\ \E part \in {"early", "late"} : Change(part)
    /\ UNCHANGED <<signedIn, fetching, stream, panel, shown, mishaps>>

HandlerEnds ==
    /\ server.due
    /\ Announces([server EXCEPT !.due = FALSE])
    /\ UNCHANGED <<signedIn, fetching, panel, shown, mishaps>>

(* dashboardMutation(): a handler that ends with an error announces nothing. *)
HandlerFails ==
    /\ server.due /\ Mishap
    /\ server' = [server EXCEPT !.due = FALSE, !.unannounced = TRUE]
    /\ UNCHANGED <<signedIn, fetching, stream, panel, shown>>

(* OperationService.emit(): row and announcement in one turn.               *)
OperationMoves ==
    /\ server.early + server.late < MaxChanges
    /\ Announces([server EXCEPT !.early = @ + 1])
    /\ UNCHANGED <<signedIn, fetching, panel, shown, mishaps>>

(* A public request (a login, a fetched subscription) announces nothing.    *)
PublicRequest ==
    /\ server.early + server.late < MaxChanges
    /\ server' = [server EXCEPT !.late = @ + 1, !.unannounced = TRUE]
    /\ UNCHANGED <<signedIn, fetching, stream, panel, shown, mishaps>>

(* What was being handled goes with the process; revisions start again.     *)
ServerRestarts ==
    /\ Mishap
    /\ server' = [server EXCEPT !.boot = @ + 1, !.revision = 0, !.due = FALSE,
                                !.unannounced = @ \/ server.due]
    /\ fetching' = IF fetching.at \in {"sent", "awaiting"}
                  THEN [fetching EXCEPT !.at = "back", !.ok = FALSE] ELSE fetching
    /\ stream' = IF stream.state = "open" THEN [NoStream EXCEPT !.state = "broken"] ELSE stream
    /\ UNCHANGED <<signedIn, panel, shown>>

SessionEnds ==
    /\ signedIn /\ Mishap /\ signedIn' = FALSE
    /\ UNCHANGED <<server, fetching, stream, panel, shown>>

(* GET /api/v1/dashboard, up to the await of SystemService.state()...       *)
DashboardBegins ==
    /\ fetching.at = "sent" /\ signedIn
    /\ fetching' = [fetching EXCEPT !.at = "awaiting", !.early = server.early]
    /\ UNCHANGED <<server, signedIn, stream, panel, shown, mishaps>>

(* ... and after it.                                                        *)
DashboardAnswers ==
    /\ fetching.at = "awaiting"
    /\ fetching' = [fetching EXCEPT !.at = "back", !.ok = TRUE, !.got =
          [boot |-> server.boot, revision |-> server.revision, early |-> fetching.early,
           late |-> server.late, lag |-> fetching.early # server.early]]
    /\ UNCHANGED <<server, signedIn, stream, panel, shown, mishaps>>

DashboardFails ==
    /\ fetching.at \in {"sent", "awaiting"} /\ Mishap
    /\ fetching' = [fetching EXCEPT !.at = "back", !.ok = FALSE]
    /\ UNCHANGED <<server, signedIn, stream, panel, shown>>

-----------------------------------------------------------------------------
(* The browser *)

(* Mutant of Load: a load asked for during another is taken for the same.   *)
LoadOnce(after) ==
    /\ panel' = after
    /\ fetching' = IF Loading THEN fetching ELSE [NoFetch EXCEPT !.at = "sent"]

(* load(): a load in progress is followed by another one.                   *)
Load(after) ==
    /\ panel' = [after EXCEPT !.pending = Loading, !.misjudged = FALSE]
    /\ fetching' = IF Loading THEN fetching ELSE [NoFetch EXCEPT !.at = "sent"]

Connected == IF shown /\ stream.state = "none"
             THEN [NoStream EXCEPT !.state = "connecting"] ELSE stream

(* The end of pull(): drain() pulls again when something asked for it.      *)
Drained(after) ==
    /\ panel' = [after EXCEPT !.pending = FALSE]
    /\ fetching' = IF panel.pending THEN [NoFetch EXCEPT !.at = "sent"] ELSE NoFetch

Pulled ==
    /\ fetching.at = "back" /\ fetching.ok
    /\ Drained([panel EXCEPT !.data = fetching.got, !.there = TRUE, !.stale = FALSE])
    /\ stream' = Connected
    /\ UNCHANGED <<server, signedIn, shown, mishaps>>

PullFailed ==
    /\ fetching.at = "back" /\ ~fetching.ok
    /\ Drained([panel EXCEPT !.stale = TRUE])
    /\ UNCHANGED <<server, signedIn, stream, shown, mishaps>>

(* 401, to the load or to any other request: expire() shows the login page. *)
Expired ==
    /\ ~signedIn
    /\ \/ fetching.at = "sent" /\ fetching' = NoFetch
       \/ panel.there /\ UNCHANGED fetching
    /\ stream' = NoStream
    /\ panel' = [panel EXCEPT !.data = Nothing, !.there = FALSE, !.pending = FALSE,
                              !.polling = FALSE]
    /\ UNCHANGED <<server, signedIn, shown, mishaps>>

(* A login: another public request, and goto('/').                          *)
SignsIn ==
    /\ ~signedIn /\ ~panel.there /\ ~Loading /\ shown
    /\ server.early + server.late < MaxChanges
    /\ signedIn' = TRUE
    /\ server' = [server EXCEPT !.late = @ + 1, !.unannounced = TRUE]
    /\ Load(panel)
    /\ UNCHANGED <<stream, shown, mishaps>>

(* A mutation of the owner's, the watcher of an update, or the poll timer.  *)
Reloads ==
    /\ panel.there /\ (panel.polling \/ shown)
    /\ Load(panel)
    /\ UNCHANGED <<server, signedIn, stream, shown, mishaps>>

(* open: the server has subscribed this browser and sent "ready".           *)
StreamOpens ==
    /\ stream.state \in {"connecting", "broken"} /\ signedIn
    /\ stream' = [state |-> "open", messages |-> <<Ready>>]
    /\ panel' = [panel EXCEPT !.polling = FALSE]
    /\ UNCHANGED <<server, signedIn, fetching, shown, mishaps>>

(* error: EventSource connects again after a break, not after an answer     *)
(* that is an error.                                                        *)
StreamBreaks ==
    /\ stream.state = "open" /\ Mishap
    /\ stream' = [NoStream EXCEPT !.state = "broken"]
    /\ panel' = [panel EXCEPT !.polling = TRUE]
    /\ UNCHANGED <<server, signedIn, fetching, shown>>

BreakNoticed ==
    /\ stream.state = "broken" /\ ~panel.polling
    /\ panel' = [panel EXCEPT !.polling = TRUE]
    /\ UNCHANGED <<server, signedIn, fetching, stream, shown, mishaps>>

StreamRefused ==
    /\ stream.state \in {"connecting", "broken"}
    /\ IF signedIn THEN Mishap ELSE UNCHANGED mishaps
    /\ stream' = [NoStream EXCEPT !.state = "refused"]
    /\ panel' = [panel EXCEPT !.polling = TRUE]
    /\ UNCHANGED <<server, signedIn, fetching, shown>>

(* signal()                                                                 *)
Newer(revision) == revision > panel.data.revision

StreamDelivers ==
    /\ stream.state = "open" /\ stream.messages # <<>>
    /\ stream' = [stream EXCEPT !.messages = Tail(@)]
    /\ IF Head(stream.messages) = Ready \/ Newer(Head(stream.messages))
       THEN Load(panel)
       ELSE /\ panel' = [panel EXCEPT !.misjudged =
                  @ \/ (fetching.at = "back" /\ panel.data.boot # server.boot)]
            /\ UNCHANGED fetching
    /\ UNCHANGED <<server, signedIn, shown, mishaps>>

(* stop() and resume(), for a hidden tab and for a lost network.            *)
Hides ==
    /\ shown /\ Mishap
    /\ shown' = FALSE
    /\ stream' = NoStream
    /\ panel' = [panel EXCEPT !.polling = FALSE]
    /\ UNCHANGED <<server, signedIn, fetching>>

Shows ==
    /\ ~shown
    /\ shown' = TRUE
    /\ IF signedIn \/ panel.there
       THEN /\ Load(panel)
            /\ stream' = IF panel.there THEN [NoStream EXCEPT !.state = "connecting"]
                         ELSE NoStream
       ELSE UNCHANGED <<panel, fetching, stream>>
    /\ UNCHANGED <<server, signedIn, mishaps>>

-----------------------------------------------------------------------------
PanelInit ==
    /\ server = [boot |-> 1, revision |-> 0, early |-> 0, late |-> 0,
                 due |-> FALSE, unannounced |-> FALSE]
    /\ signedIn = TRUE /\ shown = TRUE /\ mishaps = 0
    /\ fetching = [NoFetch EXCEPT !.at = "sent"]
    /\ stream = NoStream
    /\ panel = [data |-> Nothing, there |-> FALSE, pending |-> FALSE,
                stale |-> FALSE, polling |-> FALSE, misjudged |-> FALSE]

PanelNext ==
    \/ HandlerWrites \/ HandlerEnds \/ HandlerFails \/ OperationMoves
    \/ PublicRequest \/ ServerRestarts \/ SessionEnds
    \/ DashboardBegins \/ DashboardAnswers \/ DashboardFails
    \/ Pulled \/ PullFailed \/ Expired \/ SignsIn \/ Reloads
    \/ StreamOpens \/ StreamBreaks \/ BreakNoticed \/ StreamRefused \/ StreamDelivers
    \/ Hides \/ Shows

PanelSpec == PanelInit /\ [][PanelNext]_panelVars

-----------------------------------------------------------------------------
(* Properties. *)

Quiet ==
    /\ panel.there /\ ~Loading /\ stream.state = "open" /\ stream.messages = <<>>
    /\ ~server.due

(* A panel that listens, has nothing to load and does not say that its last *)
(* load failed shows what the server holds, as far as that was announced,   *)
(* whatever broke, restarted, expired or overlapped before.  Operations and *)
(* the system may be older when they changed while the answer was awaited,  *)
(* and a revision may be taken for an old one right after a restart.        *)
PanelIsCurrent ==
    Quiet /\ ~panel.stale /\ ~panel.misjudged /\ ~server.unannounced =>
        /\ panel.data.late = server.late
        /\ ~panel.data.lag => panel.data.early = server.early
=============================================================================
