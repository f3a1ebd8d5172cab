---------------------------- MODULE ReceivePath ----------------------------
(***************************************************************************)
(* Receiving end to end: the server of UploadServer and the application    *)
(* of state.rs behind it.  The two share no lock.  The server tells the    *)
(* application what happens over an unbounded event channel, which one     *)
(* task pumps into the prompt and the session list; the application        *)
(* answers over each request's decision channel and calls                  *)
(* Server::cancel_session.  Commands of the interface run on threads of    *)
(* their own, beside the pump and beside the server's handlers.            *)
(*                                                                         *)
(* Every step of the server is a step of UploadServer that also sends its  *)
(* events; UploadServer's free answers become the application's code.      *)
(***************************************************************************)
EXTENDS UploadServer

VARIABLES
    channel,    \* events that the pump has not handled yet
    incoming,   \* the request in the prompt, None without one
    rows,       \* the session list: status of each session, and of its files
    history,    \* the outcomes under which each session is in the history
    cancelling, \* the session a cancel_session command is at work on
    consented   \* history: requests the user said yes to, by click or by auto_accept

appVars == <<channel, incoming, rows, history, cancelling, consented>>

Ends       == {"done", "failed", "cancelled"}
RowStatus  == {"unlisted", "active", "dismissed"} \cup Ends
FileRow    == {"none", "pending", "active", "done", "failed"}
NoRows     == [f \in File |-> "none"]
FileEvent  == {"started", "finished", "failed"}

Event == [kind: {"prepare"}, id: Prep]
    \cup [kind: FileEvent, id: Prep, file: File]
    \cup [kind: {"ended"}, id: Prep, outcome: Outcome]

AppTypeOK ==
    /\ TypeOK
    /\ channel \in Seq(Event)
    /\ incoming \in Prep \cup {None}
    /\ rows \in [Prep -> [status: RowStatus, files: [File -> FileRow]]]
    /\ history \in [Prep -> SUBSET (Ends \cup {"declined"})]
    /\ cancelling \in Prep \cup {None}
    /\ consented \in SUBSET Prep

AppInit ==
    /\ Init
    /\ channel = <<>>
    /\ incoming = None
    /\ rows = [p \in Prep |-> [status |-> "unlisted", files |-> NoRows]]
    /\ history = [p \in Prep |-> {}]
    /\ cancelling = None
    /\ consented = {}

-----------------------------------------------------------------------------
(* The server's side of the channel *)

Sends(events) == channel' = channel \o events
UnchangedApp == UNCHANGED <<incoming, rows, history, cancelling, consented>>

EndEvent(p, outcome) == [kind |-> "ended", id |-> p, outcome |-> outcome]

PrepEvents(p) ==
    IF prep[p] = "claimed" /\ prep'[p] = "waiting"
    THEN <<[kind |-> "prepare", id |-> p]>>
    ELSE <<>>

FileEventOf(u, kind) == <<[kind |-> kind, id |-> job[u].session, file |-> job[u].file]>>

\* UploadStarted, UploadFinished before the file is settled, UploadFailed and
\* SessionEnded after.
UpEvents(u) ==
    CASE up[u] = "admitted" /\ up'[u] = "receiving" -> FileEventOf(u, "started")
      [] up[u] = "receiving" /\ up'[u] = "settle" /\ result'[u] = "ok" ->
             FileEventOf(u, "finished")
      [] up[u] = "report" ->
             (IF result[u] = "ok" THEN <<>> ELSE FileEventOf(u, "failed"))
             \o (IF complete[u] THEN <<EndEvent(job[u].session, "completed")>> ELSE <<>>)
      [] OTHER -> <<>>

PrepRuns(p) == PrepNext(p) /\ Sends(PrepEvents(p)) /\ UnchangedApp
UpRuns(u) == UpNext(u) /\ Sends(UpEvents(u)) /\ UnchangedApp

\* The sender's cancel and the watchdog.
Background == Ctl \ {"cancel_session"}

CtlRuns ==
    /\ \/ \E c \in Background : CtlLock(c) \/ CtlNothing(c)
       \/ CancelPending \/ CancelActive \/ WatchSessions
       \/ GoesQuiet
    /\ UNCHANGED appVars

CtlEnds ==
    \E c \in Background :
        CtlReport(c) /\ Sends(<<EndEvent(victim[c], OutcomeOf(c))>>) /\ UnchangedApp

-----------------------------------------------------------------------------
(* The session list *)

Listed(p) == rows[p].status \notin {"unlisted", "dismissed"}

\* The row pushed for an accepted request.
Row(S) == [status |-> "active", files |-> [f \in File |-> IF f \in S THEN "pending" ELSE "none"]]

\* finish_session: whatever the session was before.
Finish(p, status) ==
    IF Listed(p)
    THEN /\ rows' = [rows EXCEPT ![p].status = status]
         /\ history' = [history EXCEPT ![p] = @ \cup {status}]
    ELSE UNCHANGED <<rows, history>>

\* Sensitivity variant: any answer goes to whatever request is pending.
IsAnyPending(id) == TRUE

\* respond_to_upload: the answer is for the request that is pending.
IsPending(id) == incoming = id

\* The interface shows id, or showed it until a snapshot that is still on its way.
Shown(id) ==
    /\ answer[id].kind # "none"
    /\ \A i \in DOMAIN channel : channel[i] # [kind |-> "prepare", id |-> id]

Respond(id) == Shown(id) /\ incoming # None /\ incoming' = None

\* The prompt has moved on to another request: the command fails, and the other
\* request has already been taken out of the prompt with its decision channel.
RespondStale(id) ==
    /\ Respond(id)
    /\ ~IsPending(id)
    /\ Discard(incoming)
    /\ UNCHANGED <<channel, rows, history, cancelling, consented>>

RespondNo(id) ==
    /\ Respond(id)
    /\ IsPending(id)
    /\ Decline(incoming)
    /\ history' = [history EXCEPT ![incoming] = @ \cup {"declined"}]
    /\ UNCHANGED <<channel, rows, cancelling, consented>>

\* Accepting an empty list of files fails, and drops the request as well.
RespondNothing(id) ==
    /\ Respond(id)
    /\ IsPending(id)
    /\ Discard(incoming)
    /\ UNCHANGED <<channel, rows, history, cancelling, consented>>

\* Sensitivity variant: the session is not listed before its first event.
NotListed(p, S) == UNCHANGED rows

\* "The session exists as soon as the peer is told."
ListedFirst(p, S) == rows' = [rows EXCEPT ![p] = Row(S)]

RespondYes(id, S) ==
    /\ Respond(id)
    /\ IsPending(id)
    /\ consented' = consented \cup {id}
    /\ Accept(incoming, S)
    /\ ListedFirst(incoming, S)
    /\ UNCHANGED <<channel, history, cancelling>>

\* The decision channel is closed when the handler no longer waits.
Hears(p) == prep[p] = "waiting"

\* The rest of respond_to_upload: tell the handler, or fail the session.
SendDecision(p) ==
    /\ SendAccept(p)
    /\ IF Hears(p) THEN UNCHANGED <<rows, history>> ELSE Finish(p, "failed")
    /\ UNCHANGED <<channel, incoming, cancelling, consented>>

DismissTransfer(p) ==
    /\ rows[p].status \in Ends
    /\ rows' = [rows EXCEPT ![p].status = "dismissed"]
    /\ UNCHANGED <<vars, channel, incoming, history, cancelling, consented>>

-----------------------------------------------------------------------------
(* cancel_session of the application, for a received session *)

UserCancels(p) ==
    /\ cancelling = None
    /\ rows[p].status = "active"
    /\ cancelling' = p
    /\ UNCHANGED <<vars, channel, incoming, rows, history, consented>>

CancelTakesLock ==
    /\ cancelling # None
    /\ CtlLock("cancel_session")
    /\ UNCHANGED appVars

\* Sensitivity variant: the server is not asked to give the session up.
CancelsNothing == FALSE

\* Server::cancel_session: only the session it was asked for.
CancelsThis == slot.id = cancelling

CancelFreesSlot ==
    /\ CancelsThis
    /\ CancelSession
    /\ UNCHANGED appVars

Cancelled(events) ==
    /\ cancelling # None
    /\ Sends(events)
    /\ Finish(cancelling, "cancelled")
    /\ cancelling' = None
    /\ UNCHANGED <<incoming, consented>>

\* The slot holds something else; the session is cancelled all the same.
CancelFindsNothing ==
    /\ ~CancelsThis
    /\ CtlNothing("cancel_session")
    /\ Cancelled(<<>>)

CancelReports ==
    /\ CtlReport("cancel_session")
    /\ Cancelled(<<EndEvent(victim["cancel_session"], "cancelled")>>)

-----------------------------------------------------------------------------
(* handle_server_event, one event at a time *)

Pump(kind) == channel # <<>> /\ Head(channel).kind = kind /\ channel' = Tail(channel)

\* Sensitivity variant: the replaced request keeps its decision channel.
KeepsReplaced == FALSE

\* A request that nobody answered is replaced, which drops its decision channel.
Replaces == incoming # None

PumpPrompt ==
    /\ Pump("prepare")
    /\ incoming' = Head(channel).id
    /\ IF Replaces THEN Discard(incoming) ELSE UNCHANGED vars
    /\ UNCHANGED <<rows, history, cancelling, consented>>

\* settings.auto_accept: the session is listed and the handler told at once,
\* whether it still hears it or not.
PumpAutoAccept ==
    LET p == Head(channel).id
    IN  /\ Pump("prepare")
        /\ consented' = consented \cup {p}
        /\ AcceptAtOnce(p, File)
        /\ ListedFirst(p, File)
        /\ UNCHANGED <<incoming, history, cancelling>>

FileRowOf(kind) ==
    CASE kind = "started" -> "active" [] kind = "finished" -> "done" [] OTHER -> "failed"

\* with_file and with_session: a session that is not listed is passed over; a
\* file that starts makes its session active, whatever it was.
PumpFile(kind) ==
    LET e == Head(channel)
        marked == [rows[e.id] EXCEPT !.files[e.file] = FileRowOf(kind)]
    IN  /\ Pump(kind)
        /\ rows' = IF ~Listed(e.id) THEN rows
                   ELSE [rows EXCEPT ![e.id] = IF kind = "started"
                                               THEN [marked EXCEPT !.status = "active"]
                                               ELSE marked]
        /\ UNCHANGED <<vars, incoming, history, cancelling, consented>>

\* Sensitivity variant: every end of a session is a success.
AlwaysDone(outcome) == "done"

\* Sensitivity variant: the server's word is stored as it is.
OutcomeItself(outcome) == outcome

StatusOf(outcome) ==
    CASE outcome = "completed" -> "done"
      [] outcome = "cancelled" -> "cancelled"
      [] outcome = "timedOut" -> "failed"

PumpEnded ==
    /\ Pump("ended")
    /\ Finish(Head(channel).id, StatusOf(Head(channel).outcome))
    /\ UNCHANGED <<vars, incoming, cancelling, consented>>

-----------------------------------------------------------------------------
(* The specification *)

UserNext(p) ==
    \/ RespondStale(p) \/ RespondNo(p) \/ RespondNothing(p)
    \/ \E S \in SUBSET File \ {{}} : RespondYes(p, S)
    \/ DismissTransfer(p) \/ UserCancels(p)

AppRuns ==
    \/ \E p \in Prep : SendDecision(p)
    \/ CancelTakesLock \/ CancelFreesSlot \/ CancelFindsNothing \/ CancelReports
    \/ PumpPrompt \/ PumpAutoAccept
    \/ \E kind \in FileEvent : PumpFile(kind)
    \/ PumpEnded

AppSpecNext ==
    \/ \E p \in Prep : PrepRuns(p) \/ UserNext(p)
    \/ \E u \in Up : UpRuns(u)
    \/ CtlRuns \/ CtlEnds
    \/ AppRuns

AppSpec == AppInit /\ [][AppSpecNext]_<<vars, appVars>>

-----------------------------------------------------------------------------
(* Properties *)

\* An answer goes to the request it was given for: a session is accepted only
\* if the user said yes to that very request, however prompts replace each
\* other under the click (respond_to_upload, state.rs:1260).
YesIsForThis ==
    \A p \in Prep : answer[p].kind \in {"accepting", "accept"} => p \in consented

\* A request still waiting for the user is the one in the prompt or on its way
\* there: no handler waits on an answer nobody can give (incoming_request).
PromptReachable ==
    \A p \in Prep : answer[p].kind = "open" =>
        \/ incoming = p
        \/ \E i \in DOMAIN channel : channel[i] = [kind |-> "prepare", id |-> p]

\* "progress has somewhere to land" (state.rs:1294): when an event of a file is
\* handled, its session was listed, at any speed of the pump and the handlers.
ProgressLands ==
    \A i \in DOMAIN channel :
        channel[i].kind \in FileEvent => rows[channel[i].id].status # "unlisted"

\* While the server receives a session the application shows it as active,
\* as long as no pending request was withdrawn: the session can be seen and
\* cancelled (cancel_session, respond_to_upload).
ReceivingIsShown ==
    withdrawn = {} =>
        \A p \in Prep : slot = Active(p) => rows[p].status = "active"

\* The list says done only of a session that the server completed, and a
\* completed session is never put down as failed.
DoneIsCompleted ==
    \A p \in Prep :
        /\ "done" \in history[p] => \E i \in DOMAIN reported[p] : reported[p][i] = "completed"
        /\ "failed" \in history[p] => \A i \in DOMAIN reported[p] : reported[p][i] # "completed"

\* What the comments say and the code does not keep.

\* is_terminal, "Whether the session will not change any more" (state.rs:252):
\* a session that ended is not active again.
TerminalIsFinal ==
    [][\A p \in Prep : rows[p].status \in Ends => rows'[p].status # "active"]_rows

=============================================================================
