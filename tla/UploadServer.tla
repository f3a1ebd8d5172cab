---------------------------- MODULE UploadServer ----------------------------
(***************************************************************************)
(* The receiving server of crabsend-core (server.rs): one session slot     *)
(* behind a tokio mutex, claimed by a prepare-upload call, turned into an  *)
(* active session when the user accepts, fed by upload calls, and given up *)
(* by the last settled file, a cancellation or the watchdog.               *)
(*                                                                         *)
(* Every call is a process.  The mutex is explicit: taking it and the      *)
(* critical section that ends by releasing it are two steps, so that the   *)
(* try_lock of PendingGuard::drop can meet a mutex that somebody holds.    *)
(* Between two steps of one call, calls on other runtime threads run.      *)
(* Time is abstract: a timeout may fire whenever it is armed.  Addresses    *)
(* and tokens are abstract too: a call that shows the wrong one takes the  *)
(* refusing disjunct of its handler.                                       *)
(***************************************************************************)
EXTENDS Naturals, Sequences, FiniteSets

CONSTANTS
    Prep,               \* prepare-upload calls; the random session id of a call is the call
    Up,                 \* upload calls
    File,               \* the files every request offers
    MaxUploadAttempts,  \* MAX_UPLOAD_ATTEMPTS
    None                \* neither a call nor a control process

\* Callers that come back for ever: POST /cancel, Server::cancel_session as the
\* application calls it, and the watchdog task.  One call of each kind is in
\* flight at a time.
Ctl == {"cancel", "cancel_session", "watchdog"}

Caller == Prep \cup Up \cup Ctl

ASSUME ConstantsAssumption ==
    /\ MaxUploadAttempts \in 1 .. 255   \* a u8
    /\ Prep \cap Up = {}
    /\ Ctl \cap (Prep \cup Up) = {}
    /\ None \notin Caller

VARIABLES
    lock,       \* the call that holds state.session, None when it is free
    slot,       \* the Option<Session> the mutex protects
    files,      \* files of the active session: status and attempts
    quiet,      \* last_activity of the active session is older than SESSION_IDLE_TIMEOUT
    prep,       \* where each prepare-upload call is
    token,      \* the pending session's CancellationToken was cancelled
    answer,     \* what the application does with each request
    up,         \* where each upload call is
    job,        \* the session and file an upload call was admitted for
    result,     \* how its body ended
    complete,   \* settle_file saw no pending file left
    ctl,        \* where each control process is
    victim,     \* the session a control process ended and has not reported yet
    reported,   \* SessionEnded events sent for each session
    withdrawn   \* history: sessions whose pending claim a cancellation cleared

slotVars == <<lock, slot, files, quiet>>
prepVars == <<prep, token, answer>>
upVars   == <<up, job, result, complete>>
ctlVars  == <<ctl, victim>>
vars == <<slotVars, prepVars, upVars, ctlVars, reported, withdrawn>>

Outcome == {"completed", "cancelled", "timedOut"}
Status  == {"absent", "pending", "finished", "failed"}

NoSession   == [kind |-> "none", id |-> None]
Pending(p)  == [kind |-> "pending", id |-> p]
Active(p)   == [kind |-> "active", id |-> p]
NoJob       == [session |-> None, file |-> None]
NoFiles     == [f \in File |-> [status |-> "absent", attempts |-> 0]]
Unanswered  == [kind |-> "none", files |-> {}]
Answer      == [kind: {"none", "open", "accepting", "accept", "decline", "dropped"},
                files: SUBSET File]

\* Sensitivity variant: the user's choice of files is ignored.
AcceptedAll(S) == [f \in File |-> [status |-> "pending", attempts |-> 0]]

\* What the accepted request stores: the files whose id the user kept.
Accepted(S) == [f \in File |-> [status |-> IF f \in S THEN "pending" ELSE "absent",
                                attempts |-> 0]]

Take(c)  == lock = None /\ lock' = c
Release(c) == lock = c /\ lock' = None
Clear == slot' = NoSession /\ files' = NoFiles /\ quiet' = FALSE

TypeOK ==
    /\ lock \in Caller \cup {None}
    /\ slot \in {NoSession} \cup {Pending(p) : p \in Prep} \cup {Active(p) : p \in Prep}
    /\ files \in [File -> [status: Status, attempts: Nat]]
    /\ quiet \in BOOLEAN
    /\ prep \in [Prep -> {"new", "claiming", "claimed", "waiting", "deciding",
                          "installing", "leaving", "served", "done"}]
    /\ token \in [Prep -> BOOLEAN]
    /\ answer \in [Prep -> Answer]
    /\ up \in [Up -> {"new", "entering", "admitted", "receiving", "settle",
                      "settling", "report", "done", "lost"}]
    /\ job \in [Up -> [session: Prep, file: File] \cup {NoJob}]
    /\ result \in [Up -> {"none", "ok", "mismatch", "error"}]
    /\ complete \in [Up -> BOOLEAN]
    /\ ctl \in [Ctl -> {"idle", "holding", "report"}]
    /\ victim \in [Ctl -> Prep \cup {None}]
    /\ reported \in [Prep -> Seq(Outcome)]
    /\ withdrawn \in SUBSET Prep

Init ==
    /\ lock = None
    /\ slot = NoSession
    /\ files = NoFiles
    /\ quiet = FALSE
    /\ prep = [p \in Prep |-> "new"]
    /\ token = [p \in Prep |-> FALSE]
    /\ answer = [p \in Prep |-> Unanswered]
    /\ up = [u \in Up |-> "new"]
    /\ job = [u \in Up |-> NoJob]
    /\ result = [u \in Up |-> "none"]
    /\ complete = [u \in Up |-> FALSE]
    /\ ctl = [c \in Ctl |-> "idle"]
    /\ victim = [c \in Ctl |-> None]
    /\ reported = [p \in Prep |-> <<>>]
    /\ withdrawn = {}

-----------------------------------------------------------------------------
(* prepare_upload *)

PrepStep(p, from, to) == prep[p] = from /\ prep' = [prep EXCEPT ![p] = to]

\* A wrong PIN, a body that does not parse, no files: refused before the slot
\* is looked at.
RefuseEarly(p) ==
    /\ PrepStep(p, "new", "done")
    /\ UNCHANGED <<slotVars, token, answer, upVars, ctlVars, reported, withdrawn>>

ClaimLock(p) ==
    /\ PrepStep(p, "new", "claiming")
    /\ Take(p)
    /\ UNCHANGED <<slot, files, quiet, token, answer, upVars, ctlVars, reported, withdrawn>>

\* Sensitivity variant: a pending session does not block.
SlotFreeOrUnaccepted == slot.kind # "active"

\* The check that keeps a second sender out.
SlotFree == slot.kind = "none"

\* 409: another session holds the slot.
ClaimRefused(p) ==
    /\ PrepStep(p, "claiming", "done")
    /\ Release(p)
    /\ ~SlotFree
    /\ UNCHANGED <<slot, files, quiet, token, answer, upVars, ctlVars, reported, withdrawn>>

Claim(p) ==
    /\ PrepStep(p, "claiming", "claimed")
    /\ Release(p)
    /\ SlotFree
    /\ slot' = Pending(p)
    /\ UNCHANGED <<files, quiet, token, answer, upVars, ctlVars, reported, withdrawn>>

\* The PrepareUpload event reaches the application, which can now answer.
Raise(p) ==
    /\ PrepStep(p, "claimed", "waiting")
    /\ answer' = [answer EXCEPT ![p].kind = "open"]
    /\ UNCHANGED <<slotVars, token, upVars, ctlVars, reported, withdrawn>>

\* Nobody receives events any more: 500, and the guard drops.
RaiseFailed(p) ==
    /\ PrepStep(p, "claimed", "leaving")
    /\ UNCHANGED <<slotVars, token, answer, upVars, ctlVars, reported, withdrawn>>

\* The biased select looks at the cancellation first.
CancelSeen(p) ==
    /\ PrepStep(p, "waiting", "leaving")
    /\ token[p]
    /\ UNCHANGED <<slotVars, token, answer, upVars, ctlVars, reported, withdrawn>>

\* Sensitivity variant: the select has no timer branch.
NeverTimesOut(p) == CancelSeen(p)

\* Then at the timer, even when an answer has already arrived.
DecisionTimeout(p) ==
    /\ PrepStep(p, "waiting", "leaving")
    /\ ~token[p]
    /\ UNCHANGED <<slotVars, token, answer, upVars, ctlVars, reported, withdrawn>>

\* Declined, or the application dropped the decision channel.
DecideNo(p) ==
    /\ PrepStep(p, "waiting", "leaving")
    /\ ~token[p]
    /\ answer[p].kind \in {"decline", "dropped"}
    /\ UNCHANGED <<slotVars, token, answer, upVars, ctlVars, reported, withdrawn>>

\* Accepted: the handler goes on to wait for the mutex and no longer listens to
\* the cancellation token.
DecideYes(p) ==
    /\ PrepStep(p, "waiting", "deciding")
    /\ ~token[p]
    /\ answer[p].kind = "accept"
    /\ UNCHANGED <<slotVars, token, answer, upVars, ctlVars, reported, withdrawn>>

\* The sender's connection closes, or the server shuts down, while the handler
\* awaits: its future is dropped, and the guard with it.
Disconnect(p) ==
    /\ \/ PrepStep(p, "waiting", "leaving")
       \/ PrepStep(p, "deciding", "leaving")
    /\ UNCHANGED <<slotVars, token, answer, upVars, ctlVars, reported, withdrawn>>

InstallLock(p) ==
    /\ PrepStep(p, "deciding", "installing")
    /\ Take(p)
    /\ UNCHANGED <<slot, files, quiet, token, answer, upVars, ctlVars, reported, withdrawn>>

\* 204: the user kept no file.  The slot is emptied whoever is in it; the guard
\* still drops on return.
InstallNothing(p) ==
    /\ PrepStep(p, "installing", "leaving")
    /\ Release(p)
    /\ answer[p].files = {}
    /\ Clear
    /\ UNCHANGED <<token, answer, upVars, ctlVars, reported, withdrawn>>

\* 200: the slot becomes the active session, whoever is in it; the guard is
\* disarmed.
Install(p) ==
    /\ PrepStep(p, "installing", "served")
    /\ Release(p)
    /\ answer[p].files # {}
    /\ slot' = Active(p)
    /\ files' = Accepted(answer[p].files)
    /\ quiet' = FALSE
    /\ UNCHANGED <<token, answer, upVars, ctlVars, reported, withdrawn>>

\* PendingGuard::drop: only when try_lock succeeds, and only its own claim.
GuardDrop(p) ==
    /\ PrepStep(p, "leaving", "done")
    /\ IF lock = None /\ slot = Pending(p)
       THEN slot' = NoSession
       ELSE UNCHANGED slot
    /\ UNCHANGED <<lock, files, quiet, token, answer, upVars, ctlVars, reported, withdrawn>>

-----------------------------------------------------------------------------
(* The application's answers: external to the server, see state.rs.  The     *)
(* application lists an accepted session before it sends the decision, in    *)
(* one go when it accepts by itself.                                         *)

AnswerStep(p, from, to) ==
    /\ answer[p].kind = from
    /\ answer' = [answer EXCEPT ![p].kind = to]
    /\ UNCHANGED <<slotVars, prep, token, upVars, ctlVars, reported, withdrawn>>

Answered(p, S, to) ==
    /\ answer[p].kind = "open"
    /\ answer' = [answer EXCEPT ![p] = [kind |-> to, files |-> S]]
    /\ UNCHANGED <<slotVars, prep, token, upVars, ctlVars, reported, withdrawn>>

Accept(p, S)       == Answered(p, S, "accepting")
AcceptAtOnce(p, S) == Answered(p, S, "accept")

SendAccept(p) == AnswerStep(p, "accepting", "accept")
Decline(p)    == AnswerStep(p, "open", "decline")
Discard(p)    == AnswerStep(p, "open", "dropped")

-----------------------------------------------------------------------------
(* upload and settle_file *)

UpStep(u, from, to) == up[u] = from /\ up' = [up EXCEPT ![u] = to]

EnterLock(u) ==
    /\ UpStep(u, "new", "entering")
    /\ Take(u)
    /\ UNCHANGED <<slot, files, quiet, prepVars, job, result, complete, ctlVars,
                   reported, withdrawn>>

\* No active session of that id and address: 403.
EnterRefused(u) ==
    /\ UpStep(u, "entering", "done")
    /\ Release(u)
    /\ UNCHANGED <<slot, files, quiet, prepVars, job, result, complete, ctlVars,
                   reported, withdrawn>>

\* The session matches and counts as active again, the token or the state of
\* the file does not: 403.
EnterWrongFile(u) ==
    /\ UpStep(u, "entering", "done")
    /\ Release(u)
    /\ slot.kind = "active"
    /\ quiet' = FALSE
    /\ UNCHANGED <<slot, files, prepVars, job, result, complete, ctlVars,
                   reported, withdrawn>>

\* Sensitivity variant: attempts are not counted.
NotCounted(n) == n

\* attempts.saturating_add(1) on a u8.
SaturatingInc(n) == IF n < 255 THEN n + 1 ELSE n

\* Files an upload is let in for.
Admissible(f) == files[f].status = "pending"

Admit(u, f) ==
    /\ UpStep(u, "entering", "admitted")
    /\ Release(u)
    /\ slot.kind = "active"
    /\ Admissible(f)
    /\ quiet' = FALSE
    /\ files' = [files EXCEPT ![f].attempts = SaturatingInc(@)]
    /\ job' = [job EXCEPT ![u] = [session |-> slot.id, file |-> f]]
    /\ UNCHANGED <<slot, prepVars, result, complete, ctlVars, reported, withdrawn>>

\* No destination or no directory for the file.
NoDestination(u) ==
    /\ UpStep(u, "admitted", "settle")
    /\ result' = [result EXCEPT ![u] = "error"]
    /\ UNCHANGED <<slotVars, prepVars, job, complete, ctlVars, reported, withdrawn>>

\* UploadStarted is sent and the body is streamed to disk.
StartReceiving(u) ==
    /\ UpStep(u, "admitted", "receiving")
    /\ UNCHANGED <<slotVars, prepVars, job, result, complete, ctlVars, reported, withdrawn>>

\* The body ends: stored, refused by the checksum, or cut short by the sender,
\* its size, the disk or the timeout.
BodyEnds(u) ==
    /\ UpStep(u, "receiving", "settle")
    /\ \E r \in {"ok", "mismatch", "error"} : result' = [result EXCEPT ![u] = r]
    /\ UNCHANGED <<slotVars, prepVars, job, complete, ctlVars, reported, withdrawn>>

\* The connection closes behind the complete body, or the server shuts down:
\* the future is dropped and the file is never settled.
DropUpload(u) ==
    /\ \E from \in {"admitted", "receiving", "settle"} : UpStep(u, from, "lost")
    /\ UNCHANGED <<slotVars, prepVars, job, result, complete, ctlVars, reported, withdrawn>>

SettleLock(u) ==
    /\ UpStep(u, "settle", "settling")
    /\ Take(u)
    /\ UNCHANGED <<slot, files, quiet, prepVars, job, result, complete, ctlVars,
                   reported, withdrawn>>

\* Only a checksum mismatch is worth another attempt, and not for ever.
WorthRetry(r, attempts) == r = "mismatch" /\ attempts < MaxUploadAttempts

\* Sensitivity variant: the reply is stored instead of a status.
SettledReply(r, attempts) == r

SettledStatus(r, attempts) ==
    CASE r = "ok" -> "finished"
      [] WorthRetry(r, attempts) -> "pending"
      [] OTHER -> "failed"

\* Sensitivity variant: the first settled file completes the session.
AnySettled(fs) == \E f \in File : fs[f].status \in {"finished", "failed"}

\* No file of the session is left to receive.
AllSettled(fs) == \A f \in File : fs[f].status # "pending"

\* Sensitivity variant: any active session is marked.
AnyActive(u) == slot.kind = "active"

\* The session this upload belongs to still holds the slot.
StillMine(u) == slot = Active(job[u].session)

\* settle_file after the session went away: nothing to mark.
SettleGone(u) ==
    /\ UpStep(u, "settling", "report")
    /\ Release(u)
    /\ ~StillMine(u)
    /\ UNCHANGED <<slot, files, quiet, prepVars, job, result, complete, ctlVars,
                   reported, withdrawn>>

\* settle_file: mark the file, and give the slot up with the last one.
Settle(u) ==
    LET f == job[u].file
        marked == [files EXCEPT ![f].status = SettledStatus(result[u], files[f].attempts)]
    IN  /\ UpStep(u, "settling", "report")
        /\ Release(u)
        /\ StillMine(u)
        /\ complete' = [complete EXCEPT ![u] = AllSettled(marked)]
        /\ IF AllSettled(marked)
           THEN Clear
           ELSE files' = marked /\ UNCHANGED <<slot, quiet>>
        /\ UNCHANGED <<prepVars, job, result, ctlVars, reported, withdrawn>>

\* After the mutex is released: the events, then the reply.
Report(u) ==
    /\ UpStep(u, "report", "done")
    /\ reported' = IF complete[u]
                   THEN [reported EXCEPT ![job[u].session] = Append(@, "completed")]
                   ELSE reported
    /\ UNCHANGED <<slotVars, prepVars, job, result, complete, ctlVars, withdrawn>>

-----------------------------------------------------------------------------
(* cancel, Server::cancel_session, watch_sessions *)

CtlStep(c, from, to) == ctl[c] = from /\ ctl' = [ctl EXCEPT ![c] = to]

CtlLock(c) ==
    /\ CtlStep(c, "idle", "holding")
    /\ Take(c)
    /\ UNCHANGED <<slot, files, quiet, prepVars, upVars, victim, reported, withdrawn>>

\* Sensitivity variant: the watchdog looks at pending sessions.
StaleRequest == slot.kind = "pending" /\ quiet

\* Sessions the watchdog may abandon.
Stale == slot.kind = "active" /\ quiet

\* The call matches no session and changes nothing.
CtlNothing(c) ==
    /\ CtlStep(c, "holding", "idle")
    /\ Release(c)
    /\ c = "watchdog" => ~Stale
    /\ UNCHANGED <<slot, files, quiet, prepVars, upVars, victim, reported, withdrawn>>

\* Sensitivity variant: nobody is told of the session that ended.
EndsSilently(c) ==
    /\ CtlStep(c, "holding", "idle")
    /\ Release(c)
    /\ Clear
    /\ UNCHANGED victim

\* Empties the slot and remembers whom to report once the mutex is released.
EndSession(c) ==
    /\ CtlStep(c, "holding", "report")
    /\ Release(c)
    /\ victim' = [victim EXCEPT ![c] = slot.id]
    /\ Clear

\* POST /cancel from the pending sender's address, with its session id or none.
CancelPending ==
    /\ slot.kind = "pending"
    /\ EndSession("cancel")
    /\ token' = [token EXCEPT ![slot.id] = TRUE]
    /\ withdrawn' = withdrawn \cup {slot.id}
    /\ UNCHANGED <<prep, answer, upVars, reported>>

\* POST /cancel from the active sender's address with its session id.
CancelActive ==
    /\ slot.kind = "active"
    /\ EndSession("cancel")
    /\ UNCHANGED <<prepVars, upVars, reported, withdrawn>>

\* The application cancels a session it lists: one it accepted.  The pending
\* call is not told.
CancelSession ==
    /\ slot.kind # "none"
    /\ answer[slot.id].kind \in {"accepting", "accept"}
    /\ EndSession("cancel_session")
    /\ withdrawn' = IF slot.kind = "pending" THEN withdrawn \cup {slot.id} ELSE withdrawn
    /\ UNCHANGED <<prepVars, upVars, reported>>

WatchSessions ==
    /\ Stale
    /\ EndSession("watchdog")
    /\ UNCHANGED <<prepVars, upVars, reported, withdrawn>>

OutcomeOf(c) == IF c = "watchdog" THEN "timedOut" ELSE "cancelled"

CtlReport(c) ==
    /\ CtlStep(c, "report", "idle")
    /\ reported' = [reported EXCEPT ![victim[c]] = Append(@, OutcomeOf(c))]
    /\ victim' = [victim EXCEPT ![c] = None]
    /\ UNCHANGED <<slotVars, prepVars, upVars, withdrawn>>

\* SESSION_IDLE_TIMEOUT passes since last_activity was set.
GoesQuiet ==
    /\ slot.kind = "active"
    /\ ~quiet
    /\ quiet' = TRUE
    /\ UNCHANGED <<lock, slot, files, prepVars, upVars, ctlVars, reported, withdrawn>>

-----------------------------------------------------------------------------
(* The specification *)

PrepNext(p) ==
    \/ RefuseEarly(p) \/ ClaimLock(p) \/ ClaimRefused(p) \/ Claim(p)
    \/ Raise(p) \/ RaiseFailed(p)
    \/ CancelSeen(p) \/ DecisionTimeout(p) \/ DecideNo(p) \/ DecideYes(p)
    \/ Disconnect(p) \/ InstallLock(p) \/ InstallNothing(p) \/ Install(p)
    \/ GuardDrop(p)

AppNext(p) ==
    \/ \E S \in SUBSET File : Accept(p, S) \/ AcceptAtOnce(p, S)
    \/ SendAccept(p) \/ Decline(p) \/ Discard(p)

UpNext(u) ==
    \/ EnterLock(u) \/ EnterRefused(u) \/ EnterWrongFile(u)
    \/ \E f \in File : Admit(u, f)
    \/ NoDestination(u) \/ StartReceiving(u) \/ BodyEnds(u) \/ DropUpload(u)
    \/ SettleLock(u) \/ SettleGone(u) \/ Settle(u) \/ Report(u)

CtlNext ==
    \/ \E c \in Ctl : CtlLock(c) \/ CtlNothing(c) \/ CtlReport(c)
    \/ CancelPending \/ CancelActive \/ CancelSession \/ WatchSessions

Next ==
    \/ \E p \in Prep : PrepNext(p) \/ AppNext(p)
    \/ \E u \in Up : UpNext(u)
    \/ CtlNext
    \/ GoesQuiet

Spec == Init /\ [][Next]_vars

\* The runtime polls every task that is ready, timers fire (DECISION_TIMEOUT,
\* the body's timeout, the watchdog's sleep, the idle time itself), and the
\* tokio mutex is handed over in the order of arrival, so a caller that waits
\* for it gets it although others come and go: strong fairness.  Nothing is
\* assumed of the user, of a sender or of the application.
PrepFairness(p) ==
    /\ SF_vars(InstallLock(p))
    /\ WF_vars(ClaimRefused(p) \/ Claim(p) \/ Raise(p) \/ RaiseFailed(p)
               \/ InstallNothing(p) \/ Install(p) \/ GuardDrop(p))
    /\ WF_vars(CancelSeen(p) \/ DecisionTimeout(p))

UpFairness(u) ==
    /\ SF_vars(SettleLock(u))
    /\ WF_vars(EnterRefused(u) \/ NoDestination(u) \/ StartReceiving(u) \/ BodyEnds(u)
               \/ SettleGone(u) \/ Settle(u) \/ Report(u))

CtlFairness ==
    /\ \A c \in Ctl : WF_vars(CtlNothing(c)) /\ WF_vars(CtlReport(c))
    /\ SF_vars(CtlLock("watchdog"))
    /\ WF_vars(WatchSessions)
    /\ WF_vars(GoesQuiet)

FairSpec ==
    /\ Spec
    /\ \A p \in Prep : PrepFairness(p)
    /\ \A u \in Up : UpFairness(u)
    /\ CtlFairness

-----------------------------------------------------------------------------
(* Properties *)

\* A session is active, and a file is let in, only when the user accepted that
\* request and kept that file: no timeout, dropped prompt, disconnection or
\* neighbouring session ever stands in for the answer (prepare_upload, upload).
Consent ==
    /\ slot.kind = "active" =>
          /\ answer[slot.id].kind = "accept"
          /\ \A f \in File : files[f].status # "absent" => f \in answer[slot.id].files
    /\ \A u \in Up : job[u] # NoJob =>
          /\ answer[job[u].session].kind = "accept"
          /\ job[u].file \in answer[job[u].session].files

\* From its claim to its answer a request owns the slot, so at most one request
\* is before the user and no accepted session is replaced, as long as nobody
\* cancelled a pending request (server.rs:3-5, PendingGuard).
Undecided == {"claimed", "waiting", "deciding", "installing"}
SingleSession ==
    withdrawn = {} => \A p \in Prep : prep[p] \in Undecided => slot = Pending(p)

\* A session that was not cancelled before its answer ends once: one
\* SessionEnded event, and it never holds the slot again, whichever of the last
\* upload, the sender's cancel, the user's cancel and the watchdog comes first.
EndedOnce ==
    \A p \in Prep \ withdrawn :
        /\ Len(reported[p]) <= 1
        /\ reported[p] # <<>> => slot.id # p

\* No end is forgotten: a session that was served and lost the slot was reported,
\* or whoever took it from the slot is about to report it (settle_file, cancel,
\* cancel_session, watch_sessions), as long as nobody cancelled a pending request.
Reporting(p) ==
    {u \in Up : up[u] = "report" /\ complete[u] /\ job[u].session = p}
    \cup {c \in Ctl : ctl[c] = "report" /\ victim[c] = p}
EndAccounted ==
    withdrawn = {} => \A p \in Prep :
        prep[p] = "served" /\ slot # Active(p) => reported[p] # <<>> \/ Reporting(p) # {}

\* The settled uploads of a file of a session whose checksum did not match.
Settled(p, f) == {u \in Up : job[u] = [session |-> p, file |-> f] /\ up[u] \in {"report", "done"}}
Mismatches(p, f) == {u \in Settled(p, f) : result[u] = "mismatch"}

\* However the uploads of one file overlap, after MAX_UPLOAD_ATTEMPTS checksum
\* mismatches it is not offered for another attempt (settle_file).
RetryBudget ==
    slot.kind = "active" =>
        \A f \in File : files[f].status = "pending" =>
            Cardinality(Mismatches(slot.id, f)) < MaxUploadAttempts

\* Completed is reported only when every file the user kept was settled by an
\* upload of that session (SessionOutcome::Completed).
CompletedAccounts ==
    \A p \in Prep : (\E i \in DOMAIN reported[p] : reported[p][i] = "completed") =>
        \A f \in answer[p].files : Settled(p, f) # {}

\* A request that claimed the slot gets its reply: the user's silence, a lost
\* sender or a busy mutex never hold the handler for ever (prepare_upload).
PrepareReturns ==
    \A p \in Prep : prep[p] = "claimed" ~> prep[p] \in {"served", "done"}

\* An active session does not hold the slot for good, even when its sender
\* walks away or its upload is dropped unsettled (watch_sessions).
ActiveReleased ==
    \A p \in Prep : slot = Active(p) ~> slot # Active(p)

\* What the server promises of its sessions, whatever calls overlap: a session
\* begins once, after the user said yes and with the files the user kept, one at a
\* time; one that began ends once, and each end is told once (server.rs:3, 354).
\* A handler that still waits when its claim is cancelled may yet begin, and then
\* replaces whoever took the slot.
Phase(p) ==
    CASE prep[p] \in {"new", "claiming"} -> "idle"
      [] prep[p] \in Undecided -> "asked"
      [] prep[p] = "served" -> IF slot = Active(p) THEN "active" ELSE "over"
      [] OTHER -> "gone"
SaidTo(p) ==
    CASE answer[p].kind \in {"none", "open"} -> "nothing"
      [] answer[p].kind \in {"accepting", "accept"} -> "yes"
      [] OTHER -> "no"
ToCome == {f \in File : slot.kind = "active" /\ files[f].status = "pending"}
Owing == {u \in Up : up[u] = "report" /\ complete[u]} \cup {c \in Ctl : ctl[c] = "report"}
Owed(t) == IF t \in Up THEN <<t, job[t].session, "completed">>
                       ELSE <<t, victim[t], OutcomeOf(t)>>
Promise == INSTANCE Sessions WITH
    Session <- Prep,
    Teller <- Up \cup Ctl,
    phase <- [p \in Prep |-> Phase(p)],
    said <- [p \in Prep |-> SaidTo(p)],
    kept <- [p \in Prep |-> answer[p].files],
    left <- ToCome,
    owed <- {Owed(t) : t \in Owing},
    told <- reported,
    disturbed <- withdrawn # {}
SessionsKept == Promise!Spec

\* What the comments say and the code does not keep.

\* "a second prepare-upload while one is pending is answered with 409 so two
\* senders cannot interleave their files" (server.rs:4-5): the slot never goes
\* from one session to another without being empty in between.
NoInterleaving ==
    [][slot.kind # "none" /\ slot'.kind # "none" => slot'.id = slot.id]_slot

\* "Whatever happens next ... the slot must not stay claimed" (server.rs:503):
\* a request whose handler has returned does not hold the slot.
NotLeftClaimed == \A p \in Prep : prep[p] = "done" => slot # Pending(p)

\* "a second prepare-upload while one is pending is answered with 409"
\* (server.rs:3-5): as long as a request that nobody cancelled is before the user,
\* the slot is not free for another.
PendingAnswers409 ==
    (\E p \in Prep \ withdrawn : prep[p] = "waiting") => slot.kind # "none"

\* "The session is over." (server.rs:117): a session of which the application was
\* told so is not the active one.
OverIsOver == \A p \in Prep : reported[p] # <<>> => slot # Active(p)

=============================================================================
