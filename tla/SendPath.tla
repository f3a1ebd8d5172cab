------------------------------ MODULE SendPath ------------------------------
(***************************************************************************)
(* Sending end to end: the send sessions of state.rs (run_send, send_files *)
(* and upload_with_retry) over the HTTP client of client.rs, against the   *)
(* receiving server of UploadServer.  A send session and the              *)
(* prepare-upload call it makes share their name, a member of Prep; each   *)
(* attempt to upload a file is an upload call, a member of Up.             *)
(*                                                                         *)
(* A step of the server is a step of UploadServer that is driven by a call *)
(* and produces its reply; calls and replies can be lost.  The tasks of    *)
(* one session run concurrently with each other, with the commands of the  *)
(* interface (cancel, dismiss) and with other sessions.                    *)
(***************************************************************************)
EXTENDS UploadServer

CONSTANTS
    SenderAttempts,     \* MAX_UPLOAD_ATTEMPTS of state.rs
    UploadConcurrency   \* UPLOAD_CONCURRENCY

\* Two crates, two constants: the sender must not try more often than the
\* receiver lets it in.
ASSUME SenderAssumption ==
    /\ SenderAttempts \in 1 .. MaxUploadAttempts
    /\ UploadConcurrency \in Nat \ {0}

VARIABLES
    send,       \* where the task of each send session is
    verdict,    \* what send_files is about to return
    status,     \* the session in the list
    rows,       \* the status of its files
    known,      \* remote_session_id is set
    stop,       \* the session's CancellationToken was cancelled
    task,       \* upload_with_retry for each file
    want,       \* what each upload call asks for
    reply,      \* what each call got back
    command     \* the cancel_session command of each session

sessionVars == <<send, verdict, status, rows, known, stop>>
callVars    == <<task, want, reply>>
sendVars    == <<sessionVars, callVars, command>>

Terminal      == {"done", "failed", "cancelled", "declined", "busy"}
Cancellable   == {"preparing", "waiting", "active", "pinRequired"}
SessionStatus == {"unlisted", "dismissed"} \cup Terminal \cup Cancellable
PrepReply     == {"ok", "nothing", "pin", "declined", "busy", "error", "lost"}
UpReply       == {"ok", "mismatch", "declined", "error", "lost"}
Silence       == {"silent", "stalled"}
Verdict       == {"none", "cancelled"} \cup PrepReply \cup UpReply
Result        == {"ok", "cancelled", "mismatch", "declined", "error", "lost"}
Queued        == [at |-> "queued", attempts |-> 0, call |-> None]

SendTypeOK ==
    /\ TypeOK
    /\ send \in [Prep -> {"new", "hashing", "offering", "waiting", "granted", "sending",
                          "ending", "over"}]
    /\ verdict \in [Prep -> Verdict]
    /\ status \in [Prep -> SessionStatus]
    /\ rows \in [Prep -> [File -> {"pending", "active", "done", "failed", "skipped"}]]
    /\ known \in [Prep -> BOOLEAN]
    /\ stop \in [Prep -> BOOLEAN]
    /\ task \in [Prep -> [File -> [at: {"queued", "ready", "calling"} \cup Result,
                                   attempts: 0 .. SenderAttempts,
                                   call: Up \cup {None}]]]
    /\ want \in [Up -> [session: Prep, file: File] \cup {NoJob}]
    /\ reply \in [Prep \cup Up -> {"unasked", "awaited"} \cup PrepReply \cup UpReply \cup Silence]
    /\ command \in [Prep -> {"idle", "told", "untold", "posting", "posted", "finishing", "silent"}]

SendInit ==
    /\ Init
    /\ send = [p \in Prep |-> "new"]
    /\ verdict = [p \in Prep |-> "none"]
    /\ status = [p \in Prep |-> "unlisted"]
    /\ rows = [p \in Prep |-> [f \in File |-> "pending"]]
    /\ known = [p \in Prep |-> FALSE]
    /\ stop = [p \in Prep |-> FALSE]
    /\ task = [p \in Prep |-> [f \in File |-> Queued]]
    /\ want = [u \in Up |-> NoJob]
    /\ reply = [c \in Prep \cup Up |-> "unasked"]
    /\ command = [p \in Prep |-> "idle"]

-----------------------------------------------------------------------------
(* The receiving server, driven by the calls of the sender *)

\* The reply goes to a caller that still has a connection.
Replied(c, r) == reply' = IF reply[c] = "awaited" THEN [reply EXCEPT ![c] = r] ELSE reply

Asked(c) == reply[c] # "unasked"

\* A handler returns: 401, 429 or 400 before the slot is looked at, 409, 500,
\* 403 or a closed connection while it waits, 204, 200.
PrepReplies(p) ==
    CASE prep[p] = "new" /\ prep'[p] = "done" -> {"pin", "error"}
      [] prep[p] = "claiming" /\ prep'[p] = "done" -> {"busy"}
      [] prep[p] = "claimed" /\ prep'[p] = "leaving" -> {"error"}
      [] prep[p] = "waiting" /\ prep'[p] = "leaving" -> {"declined", "lost"}
      [] prep[p] = "deciding" /\ prep'[p] = "leaving" -> {"lost"}
      [] prep[p] = "installing" /\ prep'[p] = "leaving" -> {"nothing"}
      [] prep[p] = "installing" /\ prep'[p] = "served" -> {"ok"}
      [] OTHER -> {reply[p]}

PrepRuns(p) ==
    /\ Asked(p)
    /\ PrepNext(p)
    /\ \E r \in PrepReplies(p) : Replied(p, r)
    /\ UNCHANGED <<sessionVars, task, want, command>>

\* The session the call names is the active one.
Matches(u) == slot = Active(want[u].session)

UpHandler(u) ==
    \/ EnterLock(u)
    \/ ~Matches(u) /\ EnterRefused(u)
    \/ Matches(u) /\ ~Admissible(want[u].file) /\ EnterWrongFile(u)
    \/ Matches(u) /\ Admit(u, want[u].file)
    \/ NoDestination(u) \/ StartReceiving(u) \/ BodyEnds(u) \/ DropUpload(u)
    \/ SettleLock(u) \/ SettleGone(u) \/ Settle(u) \/ Report(u)

\* 403 on entry; 200, 422 or 500 from settle_file; no reply from a dropped call.
ReplyTo(u) ==
    CASE up[u] = "entering" /\ up'[u] = "done" -> "declined"
      [] up[u] = "report" -> result[u]
      [] up'[u] = "lost" -> "lost"
      [] OTHER -> reply[u]

UpRuns(u) ==
    /\ Asked(u)
    /\ UpHandler(u)
    /\ Replied(u, ReplyTo(u))
    /\ UNCHANGED <<sessionVars, task, want, command>>

\* The receiving user and the watchdog.
Receiver ==
    /\ \/ \E p \in Prep : AppNext(p)
       \/ \E c \in Ctl \ {"cancel"} : CtlLock(c) \/ CtlNothing(c) \/ CtlReport(c)
       \/ CancelSession \/ WatchSessions \/ GoesQuiet
    /\ UNCHANGED sendVars

\* A call that session p still waits for.
WaitsFor(p, c) ==
    \/ send[p] = "waiting" /\ c = p
    \/ \E f \in File : task[p][f].at = "calling" /\ task[p][f].call = c

AwaitedCall(c) == \E p \in Prep : WaitsFor(p, c)

Connection(c, from, to) ==
    /\ AwaitedCall(c)
    /\ reply[c] \in from
    /\ reply' = [reply EXCEPT ![c] = to]
    /\ UNCHANGED <<vars, sessionVars, task, want, command>>

\* What a handler can answer, and the answers whose body is read.
Replies == (PrepReply \cup UpReply) \ {"lost"}
WithBody(c) == Replies \ (IF c \in Prep THEN {"nothing"} ELSE {"ok"})

\* The connection of a call fails, at once or after a while, whether the call has
\* arrived or not.
ConnectionFails(c) == Connection(c, {"awaited"} \cup Replies, "lost")

\* The peer is gone or answers nothing any more, and its connection never fails:
\* after connecting the client sets no timeout on a call.
FallsSilent(c) == Connection(c, {"awaited"}, "silent")

\* The same between the status of a reply and its body.  The body of a grant or of
\* a refusal is read to its end, and the token not looked at; 204 and the 200 of
\* an upload have none.
BodyStalls(c) == Connection(c, WithBody(c), "stalled")

Network(c) == ConnectionFails(c) \/ FallsSilent(c) \/ BodyStalls(c)

-----------------------------------------------------------------------------
(* run_send and send_files *)

SendStep(p, from, to) == send[p] = from /\ send' = [send EXCEPT ![p] = to]

Listed(p) == status[p] \notin {"unlisted", "dismissed"}

\* with_session: a session that was dismissed is passed over.
SetStatus(p, s) == status' = IF Listed(p) THEN [status EXCEPT ![p] = s] ELSE status

\* finish_session also cancels the token of a session that ends as cancelled.
Finish(p, s) ==
    /\ SetStatus(p, s)
    /\ stop' = [stop EXCEPT ![p] = @ \/ (Listed(p) /\ s = "cancelled")]

Returns(p, v) == verdict' = [verdict EXCEPT ![p] = v]

StartSend(p) ==
    /\ SendStep(p, "new", "hashing")
    /\ status' = [status EXCEPT ![p] = "preparing"]
    /\ UNCHANGED <<vars, verdict, rows, known, stop, callVars, command>>

\* The token is looked at before each file is hashed and while the offer waits;
\* then the connection is dropped.
SeesStop(p) ==
    /\ \/ SendStep(p, "hashing", "ending")
       \/ SendStep(p, "waiting", "ending")
    /\ stop[p] /\ reply[p] # "stalled"
    /\ Returns(p, "cancelled")
    /\ Replied(p, "lost")
    /\ UNCHANGED <<vars, status, rows, known, stop, task, want, command>>

\* No client can be built for the target.
NoClient(p) ==
    /\ SendStep(p, "hashing", "ending")
    /\ Returns(p, "lost")
    /\ UNCHANGED <<vars, status, rows, known, stop, callVars, command>>

\* The token is looked at for the last time, then the last file is hashed.
HashLast(p) ==
    /\ SendStep(p, "hashing", "offering")
    /\ ~stop[p]
    /\ UNCHANGED <<vars, verdict, status, rows, known, stop, callVars, command>>

\* The session waits for the peer, also one that was cancelled meanwhile; then
\* the request goes out.
Offer(p) ==
    /\ SendStep(p, "offering", "waiting")
    /\ SetStatus(p, "waiting")
    /\ reply' = [reply EXCEPT ![p] = IF stop[p] THEN @ ELSE "awaited"]
    /\ UNCHANGED <<vars, verdict, rows, known, stop, task, want, command>>

\* A reply is read when the handler is through with the call.
Hears(p, r) ==
    /\ ~stop[p]
    /\ reply[p] = r
    /\ r = "lost" \/ prep[p] \in {"served", "done"}

Accepts(p) ==
    /\ SendStep(p, "waiting", "granted")
    /\ Hears(p, "ok")
    /\ UNCHANGED <<vars, verdict, status, rows, known, stop, callVars, command>>

\* The body of the reply does not arrive or does not parse.
GrantLost(p) ==
    /\ SendStep(p, "granted", "ending")
    /\ Returns(p, "lost")
    /\ UNCHANGED <<vars, status, rows, known, stop, callVars, command>>

\* 204: send_files finishes the session, and run_send will again.
NothingWanted(p) ==
    /\ SendStep(p, "waiting", "ending")
    /\ Hears(p, "nothing")
    /\ Finish(p, "done")
    /\ Returns(p, "ok")
    /\ UNCHANGED <<vars, rows, known, callVars, command>>

Refused(p) ==
    /\ SendStep(p, "waiting", "ending")
    /\ \E r \in PrepReply \ {"ok", "nothing"} : Hears(p, r) /\ Returns(p, r)
    /\ UNCHANGED <<vars, status, rows, known, stop, callVars, command>>

\* The files the reply holds a token for.
Tokens(p) == answer[p].files

\* The session becomes active, whatever it was by now; the id of the peer's
\* session is known from here on.
Activate(p) ==
    /\ SendStep(p, "granted", "sending")
    /\ SetStatus(p, "active")
    /\ known' = [known EXCEPT ![p] = Listed(p)]
    /\ rows' = [rows EXCEPT ![p] = [f \in File |-> IF f \in Tokens(p) THEN @[f] ELSE "skipped"]]
    /\ UNCHANGED <<vars, verdict, stop, callVars, command>>

-----------------------------------------------------------------------------
(* upload_with_retry, UPLOAD_CONCURRENCY of them at a time *)

TaskStep(p, f, from, to) ==
    /\ send[p] = "sending"
    /\ task[p][f].at = from
    /\ task' = [task EXCEPT ![p][f] = to]

UnchangedSession == UNCHANGED <<vars, send, verdict, status, known, stop, command>>

Running(p) == {f \in File : task[p][f].at \in {"ready", "calling"}}

StartFile(p, f) ==
    /\ f \in Tokens(p)
    /\ Cardinality(Running(p)) < UploadConcurrency
    /\ TaskStep(p, f, "queued", [at |-> "ready", attempts |-> 1, call |-> None])
    /\ rows' = [rows EXCEPT ![p][f] = "active"]
    /\ UnchangedSession /\ UNCHANGED <<want, reply>>

\* The file is opened and the request goes out.
Call(p, f, u) ==
    /\ ~stop[p]
    /\ reply[u] = "unasked"
    /\ TaskStep(p, f, "ready", [task[p][f] EXCEPT !.at = "calling", !.call = u])
    /\ want' = [want EXCEPT ![u] = [session |-> p, file |-> f]]
    /\ reply' = [reply EXCEPT ![u] = "awaited"]
    /\ UnchangedSession /\ UNCHANGED rows

TaskEnds(p, f, from, r) ==
    /\ TaskStep(p, f, from, [task[p][f] EXCEPT !.at = r, !.call = None])
    /\ UnchangedSession /\ UNCHANGED <<rows, want>>

CannotOpen(p, f) == TaskEnds(p, f, "ready", "lost") /\ UNCHANGED reply

\* The reply to the call a task waits for.
Got(p, f) == reply[task[p][f].call]

\* Sensitivity variant: the token is looked at between two calls only.
SeesStopBetween(p, f) == stop[p] /\ TaskEnds(p, f, "ready", "cancelled") /\ UNCHANGED reply

TaskSeesStop(p, f) ==
    /\ stop[p]
    /\ \/ TaskEnds(p, f, "ready", "cancelled") /\ UNCHANGED reply
       \/ /\ task[p][f].at = "calling" /\ Got(p, f) # "stalled"
          /\ TaskEnds(p, f, "calling", "cancelled")
          /\ Replied(task[p][f].call, "lost")

Uploaded(p, f) ==
    /\ ~stop[p]
    /\ task[p][f].at = "calling" /\ Got(p, f) = "ok"
    /\ TaskStep(p, f, "calling", [task[p][f] EXCEPT !.at = "ok", !.call = None])
    /\ rows' = [rows EXCEPT ![p][f] = "done"]
    /\ UnchangedSession /\ UNCHANGED <<want, reply>>

\* Sensitivity variant: a lost call is tried again as well.
RetryOnLoss(p, f) == Got(p, f) \in {"mismatch", "lost"} /\ task[p][f].attempts < SenderAttempts

\* Only a checksum mismatch is tried again.
TriesAgain(p, f) == Got(p, f) = "mismatch" /\ task[p][f].attempts < SenderAttempts

Retry(p, f) ==
    /\ ~stop[p]
    /\ task[p][f].at = "calling" /\ TriesAgain(p, f)
    /\ TaskStep(p, f, "calling", [at |-> "ready", attempts |-> task[p][f].attempts + 1,
                                  call |-> None])
    /\ UnchangedSession /\ UNCHANGED <<rows, want, reply>>

GivesUp(p, f) ==
    /\ ~stop[p]
    /\ task[p][f].at = "calling" /\ Got(p, f) \in Result \ {"ok"} /\ ~TriesAgain(p, f)
    /\ TaskEnds(p, f, "calling", Got(p, f))
    /\ UNCHANGED reply

\* Sensitivity variant: a session fails only when all its files do.
FailuresIfAll(p) ==
    LET bad == {f \in Tokens(p) : task[p][f].at # "ok"}
    IN  IF bad = Tokens(p) THEN bad ELSE {}

\* The files whose upload failed.
Failures(p) == {f \in Tokens(p) : task[p][f].at # "ok"}

\* Every file has its result: the failed ones are marked and the first failure
\* is returned; which one came first is left open.
Collect(p) ==
    /\ SendStep(p, "sending", "ending")
    /\ \A f \in Tokens(p) : task[p][f].at \in Result
    /\ rows' = [rows EXCEPT ![p] = [f \in File |-> IF f \in Failures(p) THEN "failed" ELSE @[f]]]
    /\ IF Failures(p) = {}
       THEN Returns(p, "ok")
       ELSE \E f \in Failures(p) : Returns(p, task[p][f].at)
    /\ UNCHANGED <<vars, status, known, stop, callVars, command>>

\* Sensitivity variant: the verdict is shown as it is.
VerdictItself(p) == verdict[p]

\* What run_send makes of the verdict.
FinalStatus(p) ==
    CASE verdict[p] = "ok" -> IF \E f \in File : rows[p][f] = "failed" THEN "failed" ELSE "done"
      [] verdict[p] = "pin" -> "pinRequired"
      [] verdict[p] \in {"cancelled", "declined", "busy"} -> verdict[p]
      [] OTHER -> "failed"

\* Sensitivity variant: a cancelled session is left to the cancel command.
EndUnlessStopped(p) ==
    /\ SendStep(p, "ending", "over")
    /\ IF stop[p] THEN UNCHANGED <<status, stop>> ELSE Finish(p, FinalStatus(p))
    /\ UNCHANGED <<vars, verdict, rows, known, callVars, command>>

\* run_send finishes the session, also one that the cancel command finished.
EndSend(p) ==
    /\ SendStep(p, "ending", "over")
    /\ Finish(p, FinalStatus(p))
    /\ UNCHANGED <<vars, verdict, rows, known, callVars, command>>

-----------------------------------------------------------------------------
(* Commands of the interface *)

CommandStep(p, from, to) == command[p] = from /\ command' = [command EXCEPT ![p] = to]

\* cancel_session reads whether the peer knows the session.
CancelReads(p) ==
    /\ status[p] \in Cancellable
    /\ CommandStep(p, "idle", IF known[p] THEN "told" ELSE "untold")
    /\ UNCHANGED <<vars, sessionVars, callVars>>

\* Then it cancels the token, which drops the connections of the session.
CancelStops(p) ==
    /\ \/ CommandStep(p, "told", "posting")
       \/ CommandStep(p, "untold", "silent")
    /\ stop' = [stop EXCEPT ![p] = TRUE]
    /\ UNCHANGED <<vars, send, verdict, status, rows, known, callVars>>

\* POST /cancel reaches the server, finds its session or not, and returns.
CancelArrives(p) ==
    /\ CommandStep(p, "posting", "posted")
    /\ CtlLock("cancel")
    /\ UNCHANGED <<sessionVars, callVars>>

CancelHandled(p) ==
    /\ command[p] = "posted"
    /\ \/ slot = Active(p) /\ CancelActive
       \/ slot # Active(p) /\ CtlNothing("cancel")
    /\ command' = [command EXCEPT ![p] = IF slot = Active(p) THEN @ ELSE "finishing"]
    /\ UNCHANGED <<sessionVars, callVars>>

CancelReturns(p) ==
    /\ CommandStep(p, "posted", "finishing")
    /\ CtlReport("cancel")
    /\ UNCHANGED <<sessionVars, callVars>>

\* Best effort: the peer is not reached.
CancelUndelivered(p) ==
    /\ CommandStep(p, "posting", "finishing")
    /\ UNCHANGED <<vars, sessionVars, callVars>>

\* finish_session, whatever the session became meanwhile.
CancelFinishes(p) ==
    /\ CommandStep(p, "finishing", "idle") \/ CommandStep(p, "silent", "idle")
    /\ Finish(p, "cancelled")
    /\ UNCHANGED <<vars, send, verdict, rows, known, callVars>>

Dismiss(p) ==
    /\ status[p] \in Terminal
    /\ status' = [status EXCEPT ![p] = "dismissed"]
    /\ UNCHANGED <<vars, send, verdict, rows, known, stop, callVars, command>>

-----------------------------------------------------------------------------
(* The specification *)

\* What the sending task does on its own.
SessionNext(p) ==
    \/ SeesStop(p) \/ NoClient(p) \/ HashLast(p) \/ Offer(p)
    \/ Accepts(p) \/ GrantLost(p) \/ NothingWanted(p) \/ Refused(p) \/ Activate(p)
    \/ Collect(p) \/ EndSend(p)

FileNext(p, f) ==
    \/ StartFile(p, f) \/ CannotOpen(p, f) \/ TaskSeesStop(p, f)
    \/ Uploaded(p, f) \/ Retry(p, f) \/ GivesUp(p, f)
    \/ \E u \in Up : Call(p, f, u)

CommandNext(p) ==
    \/ CancelReads(p) \/ CancelStops(p) \/ CancelArrives(p) \/ CancelHandled(p)
    \/ CancelReturns(p) \/ CancelUndelivered(p) \/ CancelFinishes(p)

SendNext ==
    \/ \E p \in Prep :
        \/ PrepRuns(p)
        \/ StartSend(p) \/ SessionNext(p)
        \/ \E f \in File : FileNext(p, f)
        \/ CommandNext(p) \/ Dismiss(p)
    \/ \E u \in Up : UpRuns(u)
    \/ \E c \in Prep \cup Up : Network(c)
    \/ Receiver

SendSpec == SendInit /\ [][SendNext]_<<vars, sendVars>>

\* On top of the server's fairness: a request reaches the server, falls silent
\* or its connection fails (CONNECT_TIMEOUT); a reply that has arrived is read; the
\* sender's tasks and commands run.  Nothing is assumed of the two users, nor that
\* a silent connection ever fails, nor that a POST /cancel returns.
Reaches(c) ==
    /\ reply[c] = "awaited"
    /\ \/ c \in Prep /\ prep[c] = "new" /\ (PrepRuns(c) \/ ConnectionFails(c))
       \/ c \in Up /\ up[c] = "new" /\ (UpRuns(c) \/ ConnectionFails(c))

ServerFairness ==
    /\ \A p \in Prep :
        /\ WF_<<vars, sendVars>>(Reaches(p))
        /\ WF_<<vars, sendVars>>(prep[p] \notin {"new", "waiting", "deciding"} /\ PrepRuns(p))
        /\ WF_<<vars, sendVars>>((CancelSeen(p) \/ DecisionTimeout(p)) /\ PrepRuns(p))
        /\ SF_<<vars, sendVars>>(InstallLock(p) /\ PrepRuns(p))
    /\ \A u \in Up :
        /\ WF_<<vars, sendVars>>(Reaches(u))
        /\ WF_<<vars, sendVars>>(up[u] \notin {"new", "settle"} /\ UpRuns(u))
        /\ SF_<<vars, sendVars>>(SettleLock(u) /\ UpRuns(u))
    /\ \A c \in Ctl \ {"cancel"} :
        WF_<<vars, sendVars>>((CtlNothing(c) \/ CtlReport(c)) /\ UNCHANGED sendVars)
    /\ WF_<<vars, sendVars>>(WatchSessions /\ UNCHANGED sendVars)

SenderFairness ==
    \A p \in Prep :
        /\ WF_<<vars, sendVars>>(SessionNext(p))
        /\ \A f \in File : WF_<<vars, sendVars>>(FileNext(p, f))
        /\ WF_<<vars, sendVars>>(CancelStops(p) \/ CancelHandled(p) \/ CancelReturns(p)
                                 \/ CancelFinishes(p))

SendFairSpec == SendSpec /\ ServerFairness /\ SenderFairness

-----------------------------------------------------------------------------
(* Properties *)

\* A file the sender shows as done was stored by an upload of that very file,
\* and a session it shows as done left out no file the receiver had kept,
\* through lost replies, retries and cancellations on both sides (send_files,
\* upload_with_retry, settle_file).
Stored(p, f) == \E u \in Up : want[u] = [session |-> p, file |-> f] /\ result[u] = "ok"
DoneMeansStored ==
    \A p \in Prep :
        /\ \A f \in File : rows[p][f] = "done" => Stored(p, f)
        /\ status[p] = "done" => \A f \in answer[p].files : Stored(p, f)

\* As long as its session is the active one, an upload of this sender is let
\* in: it asks for no file the user did not keep, tries no file again that the
\* receiver has settled, and the retry budgets of the two sides agree
\* (upload_with_retry against upload and settle_file).
NeverTurnedAway ==
    \A u \in Up : up[u] = "entering" /\ Matches(u) => Admissible(want[u].file)

\* When the task of a send session is over the list shows how it ended: whatever
\* a cancellation and the task did to the status in between, no send is left
\* behind as running (run_send, cancel_session).
NoSendLeftRunning ==
    \A p \in Prep :
        send[p] = "over" => status[p] \in Terminal \cup {"pinRequired", "dismissed"}

\* The task of a send session comes to its end, whatever the receiving user,
\* the network and the cancel command do (run_send), or waits for ever for a peer
\* that says nothing and whose connection never fails.
Waits(p, silence) == \E c \in Prep \cup Up : WaitsFor(p, c) /\ reply[c] \in silence
SendEnds == \A p \in Prep : send[p] = "hashing" ~> (send[p] = "over" \/ Waits(p, Silence))

\* The end of that wait is to cancel: a send whose token was cancelled ends whether
\* the peer says anything or not (cancel_session, prepare_upload, upload), all but
\* one that hangs in the body of a reply, where the token is not looked at.
StoppedSendEnds ==
    \A p \in Prep : stop[p] ~> (send[p] = "over" \/ Waits(p, {"stalled"}))

\* What the comments say and the code does not keep.

\* "The peer must not keep waiting for files that never come." (state.rs:1199):
\* a session that the receiver granted over an open connection is not left
\* active there by a send that was cancelled.
PeerNotLeftWaiting ==
    \A p \in Prep :
        /\ send[p] = "over" /\ verdict[p] = "cancelled" /\ ~known[p]
        /\ command[p] = "idle" /\ reply[p] = "ok"
        => slot # Active(p)

=============================================================================
