--------------------------- MODULE SendPathProofs ---------------------------
(***************************************************************************)
(* The sender of SendPath drives the server of UploadServer: every step of *)
(* the composition is a step of the server or leaves it alone, so what is  *)
(* proved of the server holds of it under this client.  Then the types of  *)
(* the sender, that no send is left behind as running, that what it shows  *)
(* as done is stored, and that none of its uploads is turned away.         *)
(***************************************************************************)
EXTENDS SendPath, UploadServerProofs

Wanted == want \in [Up -> [session: Prep, file: File] \cup {NoJob}]

\* The network changes one reply, to one that says nothing.
LEMMA NetworkMoves ==
  ASSUME NEW c \in Prep \cup Up, Network(c)
  PROVE  /\ UNCHANGED <<vars, sessionVars, task, want, command>>
         /\ reply[c] # "unasked"
         /\ \E to \in {"lost"} \cup Silence : reply' = [reply EXCEPT ![c] = to]
  BY DEF Network, ConnectionFails, FallsSilent, BodyStalls, Connection, Replies, WithBody,
         PrepReply, UpReply, Silence

\* An upload task changes its own state, the file and its call, nothing else.
LEMMA FileSession ==
  ASSUME NEW p \in Prep, NEW f \in File, FileNext(p, f)
  PROVE  UnchangedSession
  <1>1. CASE StartFile(p, f) \/ Uploaded(p, f) \/ Retry(p, f)
    BY <1>1, Zenon DEF StartFile, Uploaded, Retry
  <1>2. CASE CannotOpen(p, f) \/ TaskSeesStop(p, f) \/ GivesUp(p, f)
    BY <1>2, Zenon DEF CannotOpen, TaskSeesStop, GivesUp, TaskEnds
  <1>3. ASSUME NEW u \in Up, Call(p, f, u) PROVE UnchangedSession
    BY <1>3, Zenon DEF Call
  <1> QED
    BY <1>1, <1>2, <1>3 DEF FileNext

\* Every step of the composition is a step of the server, or none.
LEMMA SendServerStep ==
  TypeOK /\ Wanted /\ [SendNext]_<<vars, sendVars>> => [Next]_vars
  <1> SUFFICES ASSUME TypeOK, Wanted, [SendNext]_<<vars, sendVars>> PROVE [Next]_vars
    OBVIOUS
  <1>1. ASSUME NEW p \in Prep, PrepRuns(p) PROVE Next
    BY <1>1 DEF PrepRuns, Next
  <1>2. ASSUME NEW u \in Up, UpRuns(u) PROVE Next
    <2>1. CASE Matches(u) /\ Admit(u, want[u].file)
      <3>1. slot.id \in Prep
        <4>1. slot \in {NoSession} \cup {Pending(p) : p \in Prep} \cup {Active(p) : p \in Prep}
          BY DEF TypeOK
        <4> QED
          BY <2>1, <4>1 DEF Matches, NoSession, Pending, Active
      <3>2. want[u].session \in Prep
        BY <2>1, <3>1 DEF Matches, Active
      <3>3. NoJob.session \notin Prep
        BY ConstantsAssumption DEF NoJob, Caller
      <3>4. want[u].file \in File
        BY <3>2, <3>3 DEF Wanted
      <3> QED
        BY <2>1, <3>4 DEF Next, UpNext
    <2> QED
      BY <1>2, <2>1 DEF UpRuns, UpHandler, Next, UpNext
  <1>3. CASE Receiver
    BY <1>3 DEF Receiver, Next, CtlNext
  <1>4. ASSUME NEW p \in Prep, CommandNext(p) PROVE [Next]_vars
    <2>1. CASE CancelArrives(p) \/ CancelHandled(p) \/ CancelReturns(p)
      BY <2>1 DEF CancelArrives, CancelHandled, CancelReturns, Next, CtlNext, Ctl
    <2>2. CASE CancelReads(p) \/ CancelStops(p) \/ CancelUndelivered(p) \/ CancelFinishes(p)
      BY <2>2 DEF CancelReads, CancelStops, CancelUndelivered, CancelFinishes
    <2> QED
      BY <1>4, <2>1, <2>2 DEF CommandNext
  <1>5. ASSUME NEW p \in Prep, SessionNext(p) \/ StartSend(p) \/ Dismiss(p) PROVE UNCHANGED vars
    <2>1. CASE SeesStop(p) \/ NoClient(p) \/ HashLast(p) \/ Offer(p)
      BY <2>1 DEF SeesStop, NoClient, HashLast, Offer
    <2>2. CASE Accepts(p) \/ GrantLost(p) \/ NothingWanted(p) \/ Refused(p)
      BY <2>2 DEF Accepts, GrantLost, NothingWanted, Refused
    <2>3. CASE Activate(p) \/ Collect(p) \/ EndSend(p) \/ StartSend(p) \/ Dismiss(p)
      BY <2>3 DEF Activate, Collect, EndSend, StartSend, Dismiss
    <2> QED
      BY <1>5, <2>1, <2>2, <2>3 DEF SessionNext
  <1>6. ASSUME NEW p \in Prep, NEW f \in File, FileNext(p, f) PROVE UNCHANGED vars
    BY <1>6, FileSession DEF UnchangedSession
  <1>7. ASSUME NEW c \in Prep \cup Up, Network(c) PROVE UNCHANGED vars
    BY <1>7, NetworkMoves
  <1> QED
    BY <1>1, <1>2, <1>3, <1>4, <1>5, <1>6, <1>7 DEF SendNext

-----------------------------------------------------------------------------
(* The types of the sender.                                                  *)

\* An upload call has the result that its reply is made of.
HasResult == \A u \in Up : up[u] \in {"settle", "settling", "report"} => result[u] # "none"

LEMMA ResultStep == TypeOK /\ HasResult /\ [Next]_vars => HasResult'
  <1> SUFFICES ASSUME TypeOK, HasResult, [Next]_vars PROVE HasResult'
    OBVIOUS
  <1> USE DEF TypeOK, HasResult, slotVars, prepVars, upVars, ctlVars
  <1>1. ASSUME NEW u \in Up, UpNext(u) PROVE HasResult'
    <2>1. CASE EnterLock(u) \/ EnterRefused(u) \/ EnterWrongFile(u) \/ \E f \in File : Admit(u, f)
      BY <2>1 DEF EnterLock, EnterRefused, EnterWrongFile, Admit, UpStep
    <2>2. CASE NoDestination(u) \/ StartReceiving(u) \/ BodyEnds(u) \/ DropUpload(u)
      BY <2>2 DEF NoDestination, StartReceiving, BodyEnds, DropUpload, UpStep
    <2>3. CASE SettleLock(u) \/ SettleGone(u) \/ Settle(u) \/ Report(u)
      BY <2>3 DEF SettleLock, SettleGone, Settle, Report, UpStep
    <2> QED
      BY <1>1, <2>1, <2>2, <2>3 DEF UpNext
  <1>2. CASE UNCHANGED upVars
    BY <1>2
  <1>3. ASSUME NEW p \in Prep, PrepNext(p) \/ AppNext(p) PROVE UNCHANGED upVars
    BY <1>3 DEF PrepNext, RefuseEarly, ClaimLock, ClaimRefused, Claim, Raise, RaiseFailed,
                CancelSeen, DecisionTimeout, DecideNo, DecideYes, Disconnect,
                InstallLock, InstallNothing, Install, GuardDrop,
                AppNext, Accept, AcceptAtOnce, Answered, SendAccept, Decline, Discard, AnswerStep
  <1>4. CtlNext \/ GoesQuiet \/ UNCHANGED vars => UNCHANGED upVars
    BY DEF CtlNext, CtlLock, CtlNothing, CtlReport, CancelPending, CancelActive,
           CancelSession, WatchSessions, GoesQuiet, vars
  <1> QED
    BY <1>1, <1>2, <1>3, <1>4 DEF Next

SendInv == SendTypeOK /\ HasResult

SenderTypes ==
    /\ send \in [Prep -> {"new", "hashing", "offering", "waiting", "granted", "sending",
                          "ending", "over"}]
    /\ verdict \in [Prep -> Verdict]
    /\ status \in [Prep -> SessionStatus]
    /\ rows \in [Prep -> [File -> {"pending", "active", "done", "failed", "skipped"}]]
    /\ known \in [Prep -> BOOLEAN]
    /\ stop \in [Prep -> BOOLEAN]
    /\ command \in [Prep -> {"idle", "told", "untold", "posting", "posted", "finishing", "silent"}]

CallTypes ==
    /\ task \in [Prep -> [File -> [at: {"queued", "ready", "calling"} \cup Result,
                                   attempts: 0 .. SenderAttempts,
                                   call: Up \cup {None}]]]
    /\ Wanted
    /\ reply \in [Prep \cup Up -> {"unasked", "awaited"} \cup PrepReply \cup UpReply \cup Silence]

LEMMA SplitTypes == SendTypeOK <=> TypeOK /\ SenderTypes /\ CallTypes
  BY DEF SendTypeOK, SenderTypes, CallTypes, Wanted

LEMMA FinalStatusType ==
  ASSUME SenderTypes, NEW p \in Prep
  PROVE  FinalStatus(p) \in Terminal \cup {"pinRequired"}
  <1>1. CASE verdict[p] = "ok"
    BY <1>1 DEF FinalStatus, Terminal
  <1>2. CASE verdict[p] = "pin"
    BY <1>2 DEF FinalStatus
  <1>3. CASE verdict[p] \in {"cancelled", "declined", "busy"}
    BY <1>3 DEF FinalStatus, Terminal
  <1>4. CASE verdict[p] \notin {"ok", "pin", "cancelled", "declined", "busy"}
    BY <1>4 DEF FinalStatus, Terminal
  <1> QED
    BY <1>1, <1>2, <1>3, <1>4

LEMMA FinishType ==
  ASSUME SenderTypes, NEW p \in Prep, NEW s \in SessionStatus, Finish(p, s)
  PROVE  status' \in [Prep -> SessionStatus] /\ stop' \in [Prep -> BOOLEAN]
  BY DEF SenderTypes, Finish, SetStatus

LEMMA SessionType ==
  ASSUME SendInv, NEW p \in Prep, SessionNext(p) \/ StartSend(p) \/ Dismiss(p)
  PROVE  SenderTypes' /\ CallTypes'
  <1> USE DEF SendInv
  <1>a. SenderTypes /\ CallTypes
    BY SplitTypes
  <1>b. ASSUME UNCHANGED callVars PROVE CallTypes'
    BY <1>a, <1>b DEF CallTypes, callVars, Wanted
  <1>1. CASE SeesStop(p)
    <2>1. SenderTypes'
      BY <1>1, <1>a DEF SeesStop, SendStep, Returns, SenderTypes, Verdict
    <2>2. reply' \in [Prep \cup Up -> {"unasked", "awaited"} \cup PrepReply \cup UpReply \cup Silence]
      BY <1>1, <1>a DEF SeesStop, Replied, CallTypes, PrepReply
    <2>3. CallTypes'
      BY <1>1, <1>a, <2>2 DEF SeesStop, CallTypes, Wanted
    <2> QED
      BY <2>1, <2>3
  <1>2. CASE NoClient(p) \/ HashLast(p) \/ Accepts(p) \/ GrantLost(p)
    <2>1. SenderTypes'
      BY <1>2, <1>a DEF NoClient, HashLast, Accepts, GrantLost, SendStep, Returns, SenderTypes,
                        Verdict, PrepReply
    <2> QED
      BY <1>2, <2>1, <1>b DEF NoClient, HashLast, Accepts, GrantLost
  <1>3. CASE Offer(p)
    <2>1. SenderTypes'
      BY <1>3, <1>a DEF Offer, SendStep, SetStatus, SenderTypes, SessionStatus, Cancellable
    <2>2. CallTypes'
      BY <1>3, <1>a DEF Offer, CallTypes, Wanted
    <2> QED
      BY <2>1, <2>2
  <1>4. CASE NothingWanted(p)
    <2>1. "done" \in SessionStatus
      BY DEF SessionStatus, Terminal
    <2>2. SenderTypes'
      BY <1>4, <1>a, <2>1, FinishType
      DEF NothingWanted, SendStep, Returns, SenderTypes, Verdict, PrepReply
    <2> QED
      BY <1>4, <2>2, <1>b DEF NothingWanted
  <1>5. CASE Refused(p)
    <2>1. PICK r \in PrepReply : Returns(p, r)
      BY <1>5 DEF Refused
    <2>2. verdict' \in [Prep -> Verdict]
      BY <2>1, <1>a DEF Returns, SenderTypes, Verdict
    <2>3. SenderTypes'
      BY <1>5, <1>a, <2>2 DEF Refused, SendStep, SenderTypes
    <2> QED
      BY <1>5, <2>3, <1>b DEF Refused
  <1>6. CASE Activate(p)
    <2>1. known' \in [Prep -> BOOLEAN]
      BY <1>6, <1>a DEF Activate, SenderTypes, Listed
    <2>2. rows' \in [Prep -> [File -> {"pending", "active", "done", "failed", "skipped"}]]
      BY <1>6, <1>a DEF Activate, SenderTypes
    <2>3. SenderTypes'
      BY <1>6, <1>a, <2>1, <2>2
      DEF Activate, SendStep, SetStatus, SenderTypes, SessionStatus, Cancellable
    <2> QED
      BY <1>6, <2>3, <1>b DEF Activate
  <1>7. CASE Collect(p)
    <2>1. rows' \in [Prep -> [File -> {"pending", "active", "done", "failed", "skipped"}]]
      BY <1>7, <1>a DEF Collect, SenderTypes
    <2>2. verdict' \in [Prep -> Verdict]
      <3>1. CASE Failures(p) = {}
        BY <1>7, <1>a, <3>1 DEF Collect, Returns, SenderTypes, Verdict, PrepReply
      <3>2. CASE Failures(p) # {}
        <4>1. PICK f \in Failures(p) : Returns(p, task[p][f].at)
          BY <1>7, <3>2 DEF Collect
        <4>2. task[p][f].at \in Result
          BY <1>7, <4>1 DEF Collect, Failures
        <4>3. Result \subseteq Verdict
          BY DEF Result, Verdict, PrepReply, UpReply
        <4> QED
          BY <4>1, <4>2, <4>3, <1>a DEF Returns, SenderTypes
      <3> QED
        BY <3>1, <3>2
    <2>3. SenderTypes'
      BY <1>7, <1>a, <2>1, <2>2 DEF Collect, SendStep, SenderTypes
    <2> QED
      BY <1>7, <2>3, <1>b DEF Collect
  <1>8. CASE EndSend(p)
    <2>1. FinalStatus(p) \in SessionStatus
      BY <1>a, FinalStatusType DEF SessionStatus, Cancellable
    <2>2. SenderTypes'
      BY <1>8, <1>a, <2>1, FinishType DEF EndSend, SendStep, SenderTypes
    <2> QED
      BY <1>8, <2>2, <1>b DEF EndSend
  <1>9. CASE StartSend(p) \/ Dismiss(p)
    <2>1. SenderTypes'
      BY <1>9, <1>a DEF StartSend, Dismiss, SendStep, SenderTypes, SessionStatus, Cancellable
    <2> QED
      BY <1>9, <2>1, <1>b DEF StartSend, Dismiss
  <1> QED
    BY <1>1, <1>2, <1>3, <1>4, <1>5, <1>6, <1>7, <1>8, <1>9 DEF SessionNext

LEMMA FileType ==
  ASSUME SendInv, NEW p \in Prep, NEW f \in File, FileNext(p, f)
  PROVE  SenderTypes' /\ CallTypes'
  <1> USE DEF SendInv
  <1>a. SenderTypes /\ CallTypes
    BY SplitTypes
  <1>b. SenderTypes'
    <2>1. rows' \in [Prep -> [File -> {"pending", "active", "done", "failed", "skipped"}]]
      <3>1. CASE StartFile(p, f)
        BY <3>1, <1>a DEF StartFile, SenderTypes
      <3>2. CASE Uploaded(p, f)
        BY <3>2, <1>a DEF Uploaded, SenderTypes
      <3>3. CASE UNCHANGED rows
        BY <3>3, <1>a DEF SenderTypes
      <3>4. CannotOpen(p, f) \/ TaskSeesStop(p, f) \/ GivesUp(p, f) => UNCHANGED rows
        BY Zenon DEF CannotOpen, TaskSeesStop, GivesUp, TaskEnds
      <3>5. Retry(p, f) \/ (\E u \in Up : Call(p, f, u)) => UNCHANGED rows
        BY Zenon DEF Retry, Call
      <3> QED
        BY <3>1, <3>2, <3>3, <3>4, <3>5 DEF FileNext
    <2>2. UnchangedSession
      BY FileSession
    <2> QED
      BY <1>a, <2>1, <2>2 DEF UnchangedSession, SenderTypes
  <1>c. 1 \in 0 .. SenderAttempts /\ SenderAttempts \in Nat
    BY SenderAssumption, ConstantsAssumption
  <1>d. task[p][f] \in [at: {"queued", "ready", "calling"} \cup Result,
                        attempts: 0 .. SenderAttempts, call: Up \cup {None}]
    BY <1>a DEF CallTypes
  <1>e. ASSUME NEW from, NEW to, TaskStep(p, f, from, to),
               to \in [at: {"queued", "ready", "calling"} \cup Result,
                       attempts: 0 .. SenderAttempts, call: Up \cup {None}]
        PROVE  task' \in [Prep -> [File -> [at: {"queued", "ready", "calling"} \cup Result,
                                   attempts: 0 .. SenderAttempts, call: Up \cup {None}]]]
    BY <1>e, <1>a DEF TaskStep, CallTypes
  <1>f. ASSUME NEW from, NEW r \in Result, TaskEnds(p, f, from, r)
        PROVE  /\ task' \in [Prep -> [File -> [at: {"queued", "ready", "calling"} \cup Result,
                                   attempts: 0 .. SenderAttempts, call: Up \cup {None}]]]
               /\ want' = want
    BY <1>f, <1>d, <1>e DEF TaskEnds
  <1>1. CASE StartFile(p, f)
    BY <1>1, <1>a, <1>b, <1>c, <1>e DEF StartFile, CallTypes, Wanted
  <1>2. CASE CannotOpen(p, f)
    BY <1>2, <1>a, <1>b, <1>f DEF CannotOpen, CallTypes, Wanted, Result
  <1>3. CASE TaskSeesStop(p, f)
    <2>1. CASE TaskEnds(p, f, "ready", "cancelled") /\ UNCHANGED reply
      BY <2>1, <1>a, <1>b, <1>f DEF CallTypes, Wanted, Result
    <2>2. CASE TaskEnds(p, f, "calling", "cancelled") /\ Replied(task[p][f].call, "lost")
      <3>1. reply' \in [Prep \cup Up -> {"unasked", "awaited"} \cup PrepReply \cup UpReply \cup Silence]
        BY <2>2, <1>a DEF Replied, CallTypes, PrepReply
      <3> QED
        BY <2>2, <3>1, <1>a, <1>b, <1>f DEF CallTypes, Wanted, Result
    <2> QED
      BY <1>3, <2>1, <2>2 DEF TaskSeesStop
  <1>4. CASE Uploaded(p, f)
    <2>1. [task[p][f] EXCEPT !.at = "ok", !.call = None]
            \in [at: {"queued", "ready", "calling"} \cup Result,
                 attempts: 0 .. SenderAttempts, call: Up \cup {None}]
      BY <1>d DEF Result
    <2> QED
      BY <1>4, <2>1, <1>a, <1>b, <1>e DEF Uploaded, CallTypes, Wanted
  <1>5. CASE Retry(p, f)
    <2>1. task[p][f].attempts + 1 \in 0 .. SenderAttempts
      BY <1>5, <1>c, <1>d DEF Retry, TriesAgain
    <2> QED
      BY <1>5, <2>1, <1>a, <1>b, <1>e DEF Retry, CallTypes, Wanted
  <1>6. CASE GivesUp(p, f)
    BY <1>6, <1>a, <1>b, <1>f DEF GivesUp, CallTypes, Wanted
  <1>7. ASSUME NEW u \in Up, Call(p, f, u) PROVE CallTypes'
    <2>1. [task[p][f] EXCEPT !.at = "calling", !.call = u]
            \in [at: {"queued", "ready", "calling"} \cup Result,
                 attempts: 0 .. SenderAttempts, call: Up \cup {None}]
      BY <1>d
    <2>2. Wanted'
      BY <1>7, <1>a DEF Call, CallTypes, Wanted
    <2>3. reply' \in [Prep \cup Up -> {"unasked", "awaited"} \cup PrepReply \cup UpReply \cup Silence]
      BY <1>7, <1>a DEF Call, CallTypes
    <2> QED
      BY <1>7, <2>1, <2>2, <2>3, <1>e DEF Call, CallTypes
  <1> QED
    BY <1>b, <1>1, <1>2, <1>3, <1>4, <1>5, <1>6, <1>7 DEF FileNext

LEMMA CommandType ==
  ASSUME SendInv, NEW p \in Prep, CommandNext(p)
  PROVE  SenderTypes' /\ CallTypes'
  <1> USE DEF SendInv
  <1>a. SenderTypes /\ CallTypes
    BY SplitTypes
  <1>b. UNCHANGED callVars
    BY DEF CommandNext, CancelReads, CancelStops, CancelArrives, CancelHandled, CancelReturns,
           CancelUndelivered, CancelFinishes
  <1>c. CallTypes'
    BY <1>a, <1>b DEF CallTypes, callVars, Wanted
  <1>1. CASE CancelFinishes(p)
    <2>1. "cancelled" \in SessionStatus
      BY DEF SessionStatus, Terminal
    <2> QED
      BY <1>1, <1>a, <1>c, <2>1, FinishType DEF CancelFinishes, CommandStep, SenderTypes
  <1>2. CASE CancelStops(p)
    BY <1>2, <1>a, <1>c DEF CancelStops, CommandStep, SenderTypes
  <1>3. CASE CancelReads(p) \/ CancelArrives(p) \/ CancelHandled(p) \/ CancelReturns(p)
             \/ CancelUndelivered(p)
    BY <1>3, <1>a, <1>c DEF CancelReads, CancelArrives, CancelHandled, CancelReturns,
                            CancelUndelivered, CommandStep, SenderTypes, sessionVars
  <1> QED
    BY <1>1, <1>2, <1>3 DEF CommandNext

LEMMA ServerSideType ==
  ASSUME SendInv,
         \/ \E p \in Prep : PrepRuns(p)
         \/ \E u \in Up : UpRuns(u)
         \/ Receiver
         \/ \E c \in Prep \cup Up : Network(c)
  PROVE  SenderTypes' /\ CallTypes'
  <1> USE DEF SendInv
  <1>a. SenderTypes /\ CallTypes
    BY SplitTypes
  <1>b. UNCHANGED <<sessionVars, task, want, command>>
    BY NetworkMoves DEF PrepRuns, UpRuns, Receiver, sendVars, callVars
  <1>c. SenderTypes'
    BY <1>a, <1>b DEF SenderTypes, sessionVars
  <1>d. CASE reply' \in [Prep \cup Up -> {"unasked", "awaited"} \cup PrepReply \cup UpReply \cup Silence]
    BY <1>a, <1>b, <1>c, <1>d DEF CallTypes, Wanted
  <1>1. ASSUME NEW p \in Prep, PrepRuns(p) PROVE CallTypes'
    <2>1. PICK r \in PrepReplies(p) : Replied(p, r)
      BY <1>1 DEF PrepRuns
    <2>2. r = reply[p] \/ r \in PrepReply \cup UpReply
      BY <2>1 DEF PrepReplies, PrepReply
    <2>3. CASE r = reply[p]
      BY <2>1, <2>3, <1>a, <1>d DEF Replied, CallTypes
    <2>4. CASE r \in PrepReply \cup UpReply
      BY <2>1, <2>4, <1>a, <1>d DEF Replied, CallTypes
    <2> QED
      BY <2>2, <2>3, <2>4
  <1>2. ASSUME NEW u \in Up, UpRuns(u) PROVE CallTypes'
    <2>1. ReplyTo(u) = reply[u] \/ ReplyTo(u) \in PrepReply \cup UpReply
      <3>1. CASE up[u] = "report"
        <4>1. result[u] \in {"ok", "mismatch", "error"}
          BY <3>1 DEF HasResult, SendTypeOK, TypeOK
        <4> QED
          BY <3>1, <4>1 DEF ReplyTo, UpReply
      <3>2. CASE up[u] # "report"
        BY <3>2 DEF ReplyTo, UpReply
      <3> QED
        BY <3>1, <3>2
    <2>2. Replied(u, ReplyTo(u))
      BY <1>2 DEF UpRuns
    <2> QED
      BY <2>1, <2>2, <1>a, <1>d DEF Replied, CallTypes
  <1>3. CASE Receiver
    BY <1>3, <1>a, <1>d DEF Receiver, sendVars, callVars, CallTypes
  <1>4. ASSUME NEW c \in Prep \cup Up, Network(c) PROVE CallTypes'
    BY <1>4, <1>a, <1>d, NetworkMoves DEF CallTypes, PrepReply, Silence
  <1> QED
    BY <1>c, <1>1, <1>2, <1>3, <1>4

LEMMA SendInvInit == SendInit => SendInv
  <1> SUFFICES ASSUME SendInit PROVE SendInv
    OBVIOUS
  <1>1. TypeOK
    BY InitType DEF SendInit
  <1>2. HasResult
    BY DEF SendInit, Init, HasResult
  <1>3. SenderTypes
    BY DEF SendInit, SenderTypes, Verdict, SessionStatus
  <1>4. Queued \in [at: {"queued", "ready", "calling"} \cup Result,
                    attempts: 0 .. SenderAttempts, call: Up \cup {None}]
    BY SenderAssumption, ConstantsAssumption DEF Queued
  <1>5. CallTypes
    BY <1>4 DEF SendInit, CallTypes, Wanted
  <1> QED
    BY <1>1, <1>2, <1>3, <1>5, SplitTypes DEF SendInv

LEMMA SendInvStep == SendInv /\ [SendNext]_<<vars, sendVars>> => SendInv' /\ [Next]_vars
  <1> SUFFICES ASSUME SendInv, [SendNext]_<<vars, sendVars>> PROVE SendInv' /\ [Next]_vars
    OBVIOUS
  <1>1. [Next]_vars
    BY SplitTypes, SendServerStep DEF SendInv, CallTypes
  <1>2. TypeOK' /\ HasResult'
    BY <1>1, StepType, ResultStep DEF SendInv, SendTypeOK
  <1>3. SenderTypes' /\ CallTypes'
    <2>1. CASE UNCHANGED <<vars, sendVars>>
      BY <2>1, SplitTypes
      DEF SendInv, SenderTypes, CallTypes, Wanted, sendVars, sessionVars, callVars
    <2>2. CASE SendNext
      BY <2>2, SessionType, FileType, CommandType, ServerSideType DEF SendNext
    <2> QED
      BY <2>1, <2>2
  <1>4. SendTypeOK'
    BY <1>2, <1>3 DEF SendTypeOK, SenderTypes, CallTypes, Wanted
  <1> QED
    BY <1>1, <1>2, <1>4 DEF SendInv

\* The types of the sender and of the server behind it, for any number of
\* sends, files and attempts.
THEOREM SendTypeCorrect == SendSpec => []SendTypeOK
  <1>1. SendInv => SendTypeOK
    BY DEF SendInv
  <1> QED
    BY <1>1, SendInvInit, SendInvStep, PTL DEF SendSpec

\* The sender of state.rs never takes the server of server.rs where the server
\* on its own could not go: every behaviour is one of UploadServer.
THEOREM SendImplementsServer == SendSpec => Spec
  <1>1. SendInit => Init
    BY DEF SendInit
  <1> QED
    BY <1>1, SendInvInit, SendInvStep, PTL DEF SendSpec, Spec

\* So is what the server promises any sender: nothing is let in that the user
\* did not keep.
THEOREM SendConsentHolds == SendSpec => []Consent
  BY SendImplementsServer, ConsentHolds, PTL

\* With the client of client.rs on the other side, its losses and retries included,
\* the server still keeps what Sessions promises of every session.
THEOREM SendSessionsKept == SendSpec => SessionsKept
  BY SendImplementsServer, SessionsKeptHolds, PTL

-----------------------------------------------------------------------------
(* No send is left behind as running.                                        *)

\* A send that has started is in the list or was dismissed from it, so that the
\* end of its task finds it there.
StartedListed == \A p \in Prep : send[p] # "new" => status[p] # "unlisted"

EndInv == StartedListed /\ NoSendLeftRunning

\* What a step may do to one session: its task may move on before it is over,
\* its status may be set while the task runs, and be settled at any time.
LEMMA SessionEnds ==
  ASSUME SendInv, EndInv, NEW p \in Prep, SessionNext(p) \/ StartSend(p) \/ Dismiss(p)
  PROVE  EndInv'
  <1> USE DEF EndInv, StartedListed, NoSendLeftRunning
  <1>a. SenderTypes
    BY SplitTypes DEF SendInv
  <1>1. CASE SeesStop(p) \/ NoClient(p) \/ HashLast(p) \/ Accepts(p) \/ GrantLost(p)
             \/ Refused(p) \/ Collect(p)
    <2>1. UNCHANGED status /\ send[p] \notin {"new", "over"} /\ send'[p] \notin {"new", "over"}
          /\ \A q \in Prep : q # p => send'[q] = send[q]
      BY <1>1, <1>a DEF SeesStop, NoClient, HashLast, Accepts, GrantLost, Refused, Collect,
                        SendStep, SenderTypes
    <2> QED
      BY <2>1
  <1>2. CASE Offer(p) \/ Activate(p) \/ NothingWanted(p)
    <2>1. send[p] \notin {"new", "over"} /\ send'[p] \notin {"new", "over"}
          /\ \A q \in Prep : q # p => send'[q] = send[q]
      BY <1>2, <1>a DEF Offer, Activate, NothingWanted, SendStep, SenderTypes
    <2>2. status'[p] # "unlisted" /\ \A q \in Prep : q # p => status'[q] = status[q]
      BY <1>2, <1>a, <2>1 DEF Offer, Activate, NothingWanted, Finish, SetStatus, SenderTypes
    <2> QED
      BY <2>1, <2>2
  <1>3. CASE EndSend(p)
    <2>1. send[p] = "ending" /\ \A q \in Prep : q # p => send'[q] = send[q]
      BY <1>3, <1>a DEF EndSend, SendStep, SenderTypes
    <2>2. /\ status'[p] \in Terminal \cup {"pinRequired", "dismissed"}
          /\ \A q \in Prep : q # p => status'[q] = status[q]
      BY <1>3, <1>a, <2>1, FinalStatusType
      DEF EndSend, Finish, SetStatus, Listed, SenderTypes
    <2>3. "unlisted" \notin Terminal \cup {"pinRequired", "dismissed"}
      BY DEF Terminal
    <2> QED
      BY <2>1, <2>2, <2>3
  <1>4. CASE StartSend(p)
    <2>1. /\ send'[p] = "hashing" /\ status'[p] = "preparing"
          /\ \A q \in Prep : q # p => send'[q] = send[q] /\ status'[q] = status[q]
      BY <1>4, <1>a DEF StartSend, SendStep, SenderTypes
    <2> QED
      BY <2>1
  <1>5. CASE Dismiss(p)
    <2>1. UNCHANGED send /\ status'[p] = "dismissed"
          /\ \A q \in Prep : q # p => status'[q] = status[q]
      BY <1>5, <1>a DEF Dismiss, SenderTypes
    <2> QED
      BY <2>1
  <1> QED
    BY <1>1, <1>2, <1>3, <1>4, <1>5 DEF SessionNext

LEMMA CommandEnds ==
  ASSUME SendInv, EndInv, NEW p \in Prep, CommandNext(p)
  PROVE  EndInv'
  <1> USE DEF EndInv, StartedListed, NoSendLeftRunning
  <1>a. SenderTypes
    BY SplitTypes DEF SendInv
  <1>1. CASE CancelFinishes(p)
    <2>1. UNCHANGED send
      BY <1>1 DEF CancelFinishes
    <2>2. \A q \in Prep : status'[q] = status[q] \/ (Listed(q) /\ status'[q] = "cancelled")
      BY <1>1, <1>a DEF CancelFinishes, Finish, SetStatus, SenderTypes
    <2> QED
      BY <2>1, <2>2 DEF Terminal
  <1>2. CASE CancelReads(p) \/ CancelStops(p) \/ CancelArrives(p) \/ CancelHandled(p)
             \/ CancelReturns(p) \/ CancelUndelivered(p)
    <2>1. UNCHANGED <<send, status>>
      BY <1>2 DEF CancelReads, CancelStops, CancelArrives, CancelHandled, CancelReturns,
                  CancelUndelivered, sessionVars
    <2> QED
      BY <2>1
  <1> QED
    BY <1>1, <1>2 DEF CommandNext

LEMMA EndInvStep == SendInv /\ EndInv /\ [SendNext]_<<vars, sendVars>> => EndInv'
  <1> SUFFICES ASSUME SendInv, EndInv, [SendNext]_<<vars, sendVars>> PROVE EndInv'
    OBVIOUS
  <1>1. CASE UNCHANGED <<send, status>>
    BY <1>1 DEF EndInv, StartedListed, NoSendLeftRunning
  <1>2. CASE UNCHANGED <<vars, sendVars>>
    BY <1>1, <1>2 DEF sendVars, sessionVars
  <1>3. ASSUME NEW p \in Prep, NEW f \in File, FileNext(p, f) PROVE EndInv'
    BY <1>1, <1>3, FileSession DEF UnchangedSession
  <1>4. CASE \/ \E p \in Prep : PrepRuns(p)
             \/ \E u \in Up : UpRuns(u)
             \/ Receiver
             \/ \E c \in Prep \cup Up : Network(c)
    BY <1>1, <1>4, NetworkMoves DEF PrepRuns, UpRuns, Receiver, sendVars, sessionVars
  <1> QED
    BY <1>2, <1>3, <1>4, SessionEnds, CommandEnds DEF SendNext

\* However cancellations and the task of a send race, once the task is over the
\* list shows how the send ended, for any number of sends, files and attempts.
THEOREM NoSendLeftRunningHolds == SendSpec => []NoSendLeftRunning
  <1>1. SendInit => EndInv
    BY DEF SendInit, EndInv, StartedListed, NoSendLeftRunning
  <1>2. EndInv => NoSendLeftRunning
    BY DEF EndInv
  <1> QED
    BY <1>1, <1>2, SendInvInit, SendInvStep, EndInvStep, PTL DEF SendSpec

-----------------------------------------------------------------------------
(* What the sender shows as done is stored.                                  *)

\* A task waits for the call it made; a call that was made has been sent; the
\* reply tells the result, and a result is final.
TaskCalls  == \A p \in Prep, f \in File : task[p][f].at = "calling" =>
                 /\ task[p][f].call \in Up
                 /\ want[task[p][f].call] = [session |-> p, file |-> f]
CallsSent  == \A u \in Up : want[u] # NoJob => reply[u] # "unasked"
RepliesTell == \A u \in Up : reply[u] = "ok" => result[u] = "ok"
ResultLast == \A u \in Up : result[u] # "none" =>
                 up[u] \in {"settle", "settling", "report", "done", "lost"}

\* What a reply to prepare_upload says of the user's answer.
GrantTells == \A p \in Prep :
    /\ reply[p] \in {"ok", "nothing"} => answer[p].kind = "accept"
    /\ reply[p] = "nothing" => answer[p].files = {}

LEMMA ResultStays ==
  ASSUME TypeOK, ResultLast, [Next]_vars
  PROVE  ResultLast' /\ \A u \in Up : result[u] # "none" => result'[u] = result[u]
  <1> USE DEF TypeOK, ResultLast, slotVars, prepVars, upVars, ctlVars, UpStep
  <1>1. ASSUME NEW u \in Up, UpNext(u)
        PROVE  ResultLast' /\ \A v \in Up : result[v] # "none" => result'[v] = result[v]
    <2>1. CASE EnterLock(u) \/ EnterRefused(u) \/ EnterWrongFile(u) \/ \E f \in File : Admit(u, f)
      BY <2>1 DEF EnterLock, EnterRefused, EnterWrongFile, Admit
    <2>2. CASE NoDestination(u) \/ StartReceiving(u) \/ BodyEnds(u) \/ DropUpload(u)
      BY <2>2 DEF NoDestination, StartReceiving, BodyEnds, DropUpload
    <2>3. CASE SettleLock(u) \/ SettleGone(u) \/ Settle(u) \/ Report(u)
      BY <2>3 DEF SettleLock, SettleGone, Settle, Report
    <2> QED
      BY <1>1, <2>1, <2>2, <2>3 DEF UpNext
  <1>2. CASE UNCHANGED upVars
    BY <1>2
  <1>3. ASSUME NEW p \in Prep, PrepNext(p) \/ AppNext(p) PROVE UNCHANGED upVars
    BY <1>3 DEF PrepNext, RefuseEarly, ClaimLock, ClaimRefused, Claim, Raise, RaiseFailed,
                CancelSeen, DecisionTimeout, DecideNo, DecideYes, Disconnect,
                InstallLock, InstallNothing, Install, GuardDrop,
                AppNext, Accept, AcceptAtOnce, Answered, SendAccept, Decline, Discard, AnswerStep
  <1>4. CtlNext \/ GoesQuiet \/ UNCHANGED vars => UNCHANGED upVars
    BY DEF CtlNext, CtlLock, CtlNothing, CtlReport, CancelPending, CancelActive,
           CancelSession, WatchSessions, GoesQuiet, vars
  <1> QED
    BY <1>1, <1>2, <1>3, <1>4 DEF Next

\* An accepted answer is final.
LEMMA AcceptStays ==
  ASSUME TypeOK, ConsentInv, [Next]_vars, NEW p \in Prep, answer[p].kind = "accept"
  PROVE  answer'[p] = answer[p]
  <1> USE DEF TypeOK, slotVars, prepVars, upVars, ctlVars
  <1>1. ASSUME NEW q \in Prep, PrepNext(q) PROVE answer'[p] = answer[p]
    <2>1. CASE Raise(q)
      <3>1. q # p
        BY <2>1 DEF Raise, PrepStep, ConsentInv, Unasked
      <3> QED
        BY <2>1, <3>1 DEF Raise
    <2>2. CASE ~Raise(q)
      BY <1>1, <2>2 DEF PrepNext, RefuseEarly, ClaimLock, ClaimRefused, Claim, RaiseFailed,
                CancelSeen, DecisionTimeout, DecideNo, DecideYes, Disconnect,
                InstallLock, InstallNothing, Install, GuardDrop
    <2> QED
      BY <2>1, <2>2
  <1>2. ASSUME NEW q \in Prep, AppNext(q) PROVE answer'[p] = answer[p]
    <2>1. q # p
      BY <1>2 DEF AppNext, Accept, AcceptAtOnce, Answered, SendAccept, Decline, Discard, AnswerStep
    <2> QED
      BY <1>2, <2>1
      DEF AppNext, Accept, AcceptAtOnce, Answered, SendAccept, Decline, Discard, AnswerStep
  <1>3. ASSUME NEW u \in Up, UpNext(u) PROVE UNCHANGED answer
    BY <1>3 DEF UpNext, EnterLock, EnterRefused, EnterWrongFile, Admit, NoDestination,
           StartReceiving, BodyEnds, DropUpload, SettleLock, SettleGone, Settle, Report
  <1>4. CtlNext \/ GoesQuiet \/ UNCHANGED vars => UNCHANGED answer
    BY DEF CtlNext, CtlLock, CtlNothing, CtlReport, CancelPending, CancelActive,
           CancelSession, WatchSessions, GoesQuiet, vars
  <1> QED
    BY <1>1, <1>2, <1>3, <1>4 DEF Next

\* What a step may do to the reply of an upload call.
UpReplyMoves(u) ==
    \/ reply'[u] = reply[u]
    \/ reply[u] # "unasked" /\ reply'[u] \in {"lost"} \cup Silence
    \/ reply[u] = "unasked" /\ reply'[u] = "awaited"
    \/ reply[u] = "awaited" /\ reply'[u] = "declined"
    \/ reply[u] = "awaited" /\ up[u] = "report" /\ reply'[u] = result[u]

\* And to the reply of a prepare_upload call.
PrepReplyMoves(p) ==
    \/ reply'[p] = reply[p]
    \/ reply'[p] \notin {"ok", "nothing"}
    \/ reply'[p] = "ok" /\ prep[p] = "installing" /\ prep'[p] = "served"
    \/ reply'[p] = "nothing" /\ prep[p] = "installing" /\ answer[p].files = {}

ReplyMoves == (\A u \in Up : UpReplyMoves(u)) /\ (\A p \in Prep : PrepReplyMoves(p))

LEMMA LostMoves ==
  ASSUME CallTypes, NEW c, Replied(c, "lost")
  PROVE  ReplyMoves
  BY DEF CallTypes, Replied, ReplyMoves, UpReplyMoves, PrepReplyMoves

LEMMA RepliesMove ==
  ASSUME SendInv, [SendNext]_<<vars, sendVars>>
  PROVE  ReplyMoves
  <1>a. CallTypes /\ TypeOK
    BY SplitTypes DEF SendInv
  <1>b. \A p \in Prep : p \notin Up
    BY ConstantsAssumption
  <1>1. CASE UNCHANGED reply
    BY <1>1 DEF ReplyMoves, UpReplyMoves, PrepReplyMoves
  <1>2. ASSUME NEW p \in Prep, PrepRuns(p) PROVE ReplyMoves
    <2>1. PICK r \in PrepReplies(p) : Replied(p, r)
      BY <1>2 DEF PrepRuns
    <2>2. \/ r = reply[p] \/ r \notin {"ok", "nothing"}
          \/ r = "ok" /\ prep[p] = "installing" /\ prep'[p] = "served"
          \/ r = "nothing" /\ prep[p] = "installing" /\ prep'[p] = "leaving"
      BY <2>1 DEF PrepReplies
    <2>3. prep[p] = "installing" /\ prep'[p] = "leaving" => answer[p].files = {}
      BY <1>2, <1>a DEF PrepRuns, PrepNext, PrepStep, RefuseEarly, ClaimLock, ClaimRefused,
           Claim, Raise, RaiseFailed, CancelSeen, DecisionTimeout, DecideNo, DecideYes,
           Disconnect, InstallLock, InstallNothing, Install, GuardDrop, TypeOK
    <2>4. \A c \in Prep \cup Up : c # p => reply'[c] = reply[c]
      BY <2>1, <1>a DEF Replied, CallTypes
    <2>5. reply'[p] = reply[p] \/ reply'[p] = r
      BY <2>1, <1>a DEF Replied, CallTypes
    <2> QED
      BY <1>b, <2>2, <2>3, <2>4, <2>5 DEF ReplyMoves, UpReplyMoves, PrepReplyMoves
  <1>3. ASSUME NEW u \in Up, UpRuns(u) PROVE ReplyMoves
    <2>1. Replied(u, ReplyTo(u))
      BY <1>3 DEF UpRuns
    <2>2. \/ ReplyTo(u) = reply[u] \/ ReplyTo(u) \in {"declined", "lost"}
          \/ ReplyTo(u) = result[u] /\ up[u] = "report"
      BY DEF ReplyTo
    <2>3. \A c \in Prep \cup Up : c # u => reply'[c] = reply[c]
      BY <2>1, <1>a DEF Replied, CallTypes
    <2>4. reply'[u] = reply[u] \/ (reply[u] = "awaited" /\ reply'[u] = ReplyTo(u))
      BY <2>1, <1>a DEF Replied, CallTypes
    <2> QED
      BY <1>b, <2>2, <2>3, <2>4 DEF ReplyMoves, UpReplyMoves, PrepReplyMoves
  <1>4. ASSUME NEW c \in Prep \cup Up, Network(c) PROVE ReplyMoves
    BY <1>4, <1>a, NetworkMoves DEF Silence, CallTypes, ReplyMoves, UpReplyMoves, PrepReplyMoves
  <1>5. ASSUME NEW p \in Prep, SessionNext(p) \/ StartSend(p) \/ Dismiss(p) PROVE ReplyMoves
    <2>1. CASE SeesStop(p)
      BY <2>1, <1>a, LostMoves DEF SeesStop
    <2>2. CASE Offer(p)
      BY <2>2, <1>a, <1>b DEF Offer, CallTypes, ReplyMoves, UpReplyMoves, PrepReplyMoves
    <2>3. CASE ~SeesStop(p) /\ ~Offer(p)
      <3>1. UNCHANGED callVars
        BY <1>5, <2>3 DEF SessionNext, NoClient, HashLast, Accepts, GrantLost, NothingWanted,
                          Refused, Activate, Collect, EndSend, StartSend, Dismiss
      <3> QED
        BY <1>1, <3>1 DEF callVars
    <2> QED
      BY <2>1, <2>2, <2>3
  <1>6. ASSUME NEW p \in Prep, NEW f \in File, FileNext(p, f) PROVE ReplyMoves
    <2>1. ASSUME NEW u \in Up, Call(p, f, u) PROVE ReplyMoves
      BY <2>1, <1>a, <1>b DEF Call, CallTypes, ReplyMoves, UpReplyMoves, PrepReplyMoves
    <2>2. CASE TaskSeesStop(p, f)
      BY <2>2, <1>1, <1>a, LostMoves DEF TaskSeesStop
    <2>3. StartFile(p, f) \/ CannotOpen(p, f) \/ Uploaded(p, f) \/ Retry(p, f) \/ GivesUp(p, f)
            => UNCHANGED reply
      BY Zenon DEF StartFile, CannotOpen, Uploaded, Retry, GivesUp
    <2> QED
      BY <1>1, <1>6, <2>1, <2>2, <2>3 DEF FileNext
  <1>7. ASSUME NEW p \in Prep, CommandNext(p) PROVE UNCHANGED reply
    BY <1>7 DEF CommandNext, CancelReads, CancelStops, CancelArrives, CancelHandled,
                CancelReturns, CancelUndelivered, CancelFinishes, callVars
  <1>8. Receiver \/ UNCHANGED <<vars, sendVars>> => UNCHANGED reply
    BY DEF Receiver, sendVars, callVars
  <1> QED
    BY <1>1, <1>2, <1>3, <1>4, <1>5, <1>6, <1>7, <1>8 DEF SendNext

CallInv == CallsSent /\ RepliesTell /\ ResultLast /\ GrantTells

\* A call is asked for once.
LEMMA WantStays ==
  ASSUME SendInv, CallsSent, [SendNext]_<<vars, sendVars>>
  PROVE  /\ \A u \in Up : want[u] # NoJob => want'[u] = want[u]
         /\ \A u \in Up : want'[u] # want[u] => reply'[u] # "unasked"
  <1>a. CallTypes
    BY SplitTypes DEF SendInv
  <1>1. CASE UNCHANGED want
    BY <1>1
  <1>2. ASSUME NEW p \in Prep, NEW f \in File, NEW u \in Up, Call(p, f, u)
        PROVE  /\ \A v \in Up : want[v] # NoJob => want'[v] = want[v]
               /\ \A v \in Up : want'[v] # want[v] => reply'[v] # "unasked"
    BY <1>2, <1>a DEF Call, CallTypes, Wanted, CallsSent
  <1>3. ASSUME NEW p \in Prep, NEW f \in File, FileNext(p, f), ~\E u \in Up : Call(p, f, u)
        PROVE  UNCHANGED want
    BY <1>3, Zenon DEF FileNext, StartFile, CannotOpen, TaskSeesStop, Uploaded, Retry, GivesUp,
                       TaskEnds
  <1>4. ASSUME NEW p \in Prep, SessionNext(p) \/ StartSend(p) \/ Dismiss(p) \/ CommandNext(p)
        PROVE  UNCHANGED want
    BY <1>4 DEF SessionNext, SeesStop, NoClient, HashLast, Offer, Accepts, GrantLost,
                NothingWanted, Refused, Activate, Collect, EndSend, StartSend, Dismiss, CommandNext,
                CancelReads, CancelStops, CancelArrives, CancelHandled, CancelReturns,
                CancelUndelivered, CancelFinishes, callVars
  <1>5. \/ (\E p \in Prep : PrepRuns(p)) \/ (\E u \in Up : UpRuns(u)) \/ Receiver
        \/ (\E c \in Prep \cup Up : Network(c)) \/ UNCHANGED <<vars, sendVars>>
        => UNCHANGED want
    BY NetworkMoves DEF PrepRuns, UpRuns, Receiver, sendVars, callVars
  <1> QED
    BY <1>1, <1>2, <1>3, <1>4, <1>5 DEF SendNext

LEMMA CallStep ==
  ASSUME SendInv, ConsentInv, CallInv, [SendNext]_<<vars, sendVars>>
  PROVE  CallInv'
  <1> USE DEF CallInv
  <1>1. TypeOK /\ [Next]_vars /\ ReplyMoves
    BY SendInvStep, RepliesMove, SplitTypes DEF SendInv
  <1>2. ResultLast' /\ \A u \in Up : result[u] # "none" => result'[u] = result[u]
    BY <1>1, ResultStays
  <1>3. CallsSent'
    <2> SUFFICES ASSUME NEW u \in Up, want'[u] # NoJob PROVE reply'[u] # "unasked"
      BY DEF CallsSent
    <2>1. CASE want'[u] = want[u]
      <3>1. reply[u] # "unasked" /\ UpReplyMoves(u)
        BY <1>1, <2>1 DEF CallsSent, ReplyMoves
      <3> QED
        BY <1>1, <3>1 DEF UpReplyMoves, TypeOK, Silence
    <2>2. CASE want'[u] # want[u]
      BY <2>2, WantStays
    <2> QED
      BY <2>1, <2>2
  <1>4. RepliesTell'
    <2> SUFFICES ASSUME NEW u \in Up, reply'[u] = "ok" PROVE result'[u] = "ok"
      BY DEF RepliesTell
    <2>1. UpReplyMoves(u)
      BY <1>1 DEF ReplyMoves
    <2>2. result[u] = "ok"
      BY <2>1 DEF UpReplyMoves, RepliesTell, Silence
    <2> QED
      BY <1>2, <2>2
  <1>5. GrantTells'
    <2> SUFFICES ASSUME NEW p \in Prep, reply'[p] \in {"ok", "nothing"}
                 PROVE  /\ answer'[p].kind = "accept"
                        /\ reply'[p] = "nothing" => answer'[p].files = {}
      BY DEF GrantTells
    <2>1. PrepReplyMoves(p)
      BY <1>1 DEF ReplyMoves
    <2>2. answer[p].kind = "accept"
      BY <2>1 DEF PrepReplyMoves, GrantTells, ConsentInv, Granted
    <2>3. reply'[p] = "nothing" => answer[p].files = {}
      BY <2>1 DEF PrepReplyMoves, GrantTells
    <2> QED
      BY <1>1, <2>2, <2>3, AcceptStays
  <1> QED
    BY <1>2, <1>3, <1>4, <1>5

LEMMA ConsentKept == ASSUME TypeOK, ConsentInv, [Next]_vars PROVE ConsentInv'
  BY PrepConsent, AppConsent, UpConsent, CtlConsent DEF Next

\* A file that is done, in its task or in the list, is stored; a session that is
\* done left out none that the user kept.
Delivered(p) == answer[p].kind = "accept" /\ \A f \in answer[p].files : Stored(p, f)
KeptInv  == \A p \in Prep, f \in File : task[p][f].at = "ok" \/ rows[p][f] = "done" => Stored(p, f)
GrantInv == \A p \in Prep : send[p] \in {"granted", "sending"} => answer[p].kind = "accept"
DoneInv  == \A p \in Prep : verdict[p] = "ok" \/ status[p] = "done" => Delivered(p)

StoreInv == ConsentInv /\ CallInv /\ TaskCalls /\ KeptInv /\ GrantInv /\ DoneInv

LEMMA StoredStays ==
  ASSUME SendInv, StoreInv, [SendNext]_<<vars, sendVars>>, NEW p \in Prep
  PROVE  /\ answer[p].kind = "accept" => answer'[p] = answer[p]
         /\ \A f \in File : Stored(p, f) => Stored(p, f)'
         /\ Delivered(p) => Delivered(p)'
  <1>1. TypeOK /\ [Next]_vars
    BY SendInvStep, SplitTypes DEF SendInv
  <1>2. answer[p].kind = "accept" => answer'[p] = answer[p]
    BY <1>1, AcceptStays DEF StoreInv
  <1>3. \A f \in File : Stored(p, f) => Stored(p, f)'
    <2> SUFFICES ASSUME NEW f \in File, NEW u \in Up, want[u] = [session |-> p, file |-> f],
                        result[u] = "ok"
                 PROVE  want'[u] = want[u] /\ result'[u] = result[u]
      BY DEF Stored
    <2>1. want[u] # NoJob
      BY ConstantsAssumption DEF NoJob, Caller
    <2> QED
      BY <1>1, <2>1, WantStays, ResultStays DEF StoreInv, CallInv
  <1>4. answer[p].files \subseteq File
    BY <1>1 DEF TypeOK, Answer
  <1> QED
    BY <1>2, <1>3, <1>4 DEF Delivered

\* A step that leaves the task of a send and its files alone.
LEMMA StoreKept ==
  ASSUME SendInv, StoreInv, [SendNext]_<<vars, sendVars>>,
         \A p \in Prep, f \in File :
            task'[p][f].at \in {"ok", "calling"} => task'[p][f] = task[p][f],
         \A p \in Prep, f \in File : rows'[p][f] = "done" => rows[p][f] = "done",
         \A p \in Prep : send'[p] \in {"granted", "sending"} =>
                            send[p] \in {"granted", "sending"} \/ answer[p].kind = "accept",
         \A p \in Prep : verdict'[p] = "ok" => verdict[p] = "ok" \/ Delivered(p),
         \A p \in Prep : status'[p] = "done" => status[p] = "done" \/ Delivered(p)
  PROVE  StoreInv'
  <1>1. CallInv' /\ ConsentInv'
    <2>1. TypeOK /\ [Next]_vars
      BY SendInvStep, SplitTypes DEF SendInv
    <2> QED
      BY <2>1, CallStep, ConsentKept DEF StoreInv
  <1>2. TaskCalls'
    <2> SUFFICES ASSUME NEW p \in Prep, NEW f \in File, task'[p][f].at = "calling"
                 PROVE  /\ task'[p][f].call \in Up
                        /\ want'[task'[p][f].call] = [session |-> p, file |-> f]
      BY DEF TaskCalls
    <2>1. task'[p][f] = task[p][f]
      OBVIOUS
    <2>2. task[p][f].call \in Up /\ want[task[p][f].call] = [session |-> p, file |-> f]
      BY <2>1 DEF StoreInv, TaskCalls
    <2>3. want[task[p][f].call] # NoJob
      BY <2>2, ConstantsAssumption DEF NoJob, Caller
    <2> QED
      BY <2>1, <2>2, <2>3, WantStays DEF StoreInv, CallInv
  <1>3. KeptInv'
    BY StoredStays DEF StoreInv, KeptInv
  <1>4. GrantInv'
    BY StoredStays DEF StoreInv, GrantInv
  <1>5. DoneInv'
    BY StoredStays DEF StoreInv, DoneInv
  <1> QED
    BY <1>1, <1>2, <1>3, <1>4, <1>5 DEF StoreInv

\* The task of a session.
LEMMA SessionStore ==
  ASSUME SendInv, StoreInv, NEW p \in Prep, SessionNext(p) \/ StartSend(p) \/ Dismiss(p)
  PROVE  StoreInv'
  <1>a. SenderTypes /\ CallTypes
    BY SplitTypes DEF SendInv
  <1>b. [SendNext]_<<vars, sendVars>>
    BY DEF SendNext
  <1>c. UNCHANGED task
    BY DEF SessionNext, SeesStop, NoClient, HashLast, Offer, Accepts, GrantLost,
           NothingWanted, Refused, Activate, Collect, EndSend, StartSend, Dismiss, callVars
  <1>d. ASSUME NEW from, NEW to, SendStep(p, from, to)
        PROVE  \A q \in Prep : send'[q] = IF q = p THEN to ELSE send[q]
    BY <1>d, <1>a DEF SendStep, SenderTypes
  <1>e. ASSUME NEW v, Returns(p, v)
        PROVE  \A q \in Prep : verdict'[q] = IF q = p THEN v ELSE verdict[q]
    BY <1>e, <1>a DEF Returns, SenderTypes
  <1>f. ASSUME NEW s, SetStatus(p, s)
        PROVE  \A q \in Prep : status'[q] = status[q] \/ (q = p /\ status'[q] = s)
    BY <1>f, <1>a DEF SetStatus, SenderTypes
  <1>1. CASE SeesStop(p)
    BY <1>1, <1>b, <1>c, <1>d, <1>e, StoreKept DEF SeesStop
  <1>2. CASE NoClient(p) \/ HashLast(p) \/ GrantLost(p)
    BY <1>2, <1>b, <1>c, <1>d, <1>e, StoreKept DEF NoClient, HashLast, GrantLost
  <1>3. CASE Offer(p)
    BY <1>3, <1>b, <1>c, <1>d, <1>f, StoreKept DEF Offer
  <1>4. CASE Accepts(p)
    <2>1. answer[p].kind = "accept"
      BY <1>4 DEF Accepts, Hears, StoreInv, CallInv, GrantTells
    <2> QED
      BY <1>4, <1>b, <1>c, <1>d, <2>1, StoreKept DEF Accepts
  <1>5. CASE NothingWanted(p)
    <2>1. Delivered(p)
      BY <1>5 DEF NothingWanted, Hears, StoreInv, CallInv, GrantTells, Delivered
    <2> QED
      BY <1>5, <1>b, <1>c, <1>d, <1>e, <1>f, <2>1, StoreKept DEF NothingWanted, Finish
  <1>6. CASE Refused(p)
    <2>1. PICK r \in PrepReply \ {"ok", "nothing"} : Returns(p, r)
      BY <1>6 DEF Refused
    <2> QED
      BY <1>6, <1>b, <1>c, <1>d, <1>e, <2>1, StoreKept DEF Refused
  <1>7. CASE Activate(p)
    <2>1. \A q \in Prep, f \in File : rows'[q][f] = "done" => rows[q][f] = "done"
      BY <1>7, <1>a DEF Activate, SenderTypes
    <2> QED
      BY <1>7, <1>b, <1>c, <1>d, <1>f, <2>1, StoreKept DEF Activate, SendStep
  <1>8. CASE Collect(p)
    <2>1. \A q \in Prep, f \in File : rows'[q][f] = "done" => rows[q][f] = "done"
      BY <1>8, <1>a DEF Collect, SenderTypes
    <2>2. \A q \in Prep : verdict'[q] = "ok" => verdict[q] = "ok" \/ Delivered(q)
      <3>1. CASE Failures(p) = {}
        <4>1. answer[p].kind = "accept" /\ answer[p].files \subseteq File
          BY <1>8 DEF Collect, SendStep, StoreInv, GrantInv, SendInv, SendTypeOK, TypeOK, Answer
        <4>2. \A f \in answer[p].files : Stored(p, f)
          BY <3>1, <4>1 DEF Failures, Tokens, StoreInv, KeptInv
        <4>3. Delivered(p)
          BY <4>1, <4>2 DEF Delivered
        <4> QED
          BY <1>8, <1>e, <3>1, <4>3 DEF Collect
      <3>2. CASE Failures(p) # {}
        <4>1. PICK f \in Failures(p) : Returns(p, task[p][f].at)
          BY <1>8, <3>2 DEF Collect
        <4>2. task[p][f].at # "ok"
          BY <4>1 DEF Failures
        <4> QED
          BY <1>e, <4>1, <4>2
      <3> QED
        BY <3>1, <3>2
    <2> QED
      BY <1>8, <1>b, <1>c, <1>d, <2>1, <2>2, StoreKept DEF Collect
  <1>9. CASE EndSend(p)
    <2>1. FinalStatus(p) = "done" => verdict[p] = "ok"
      BY DEF FinalStatus
    <2>2. verdict[p] = "ok" => Delivered(p)
      BY DEF StoreInv, DoneInv
    <2> QED
      BY <1>9, <1>b, <1>c, <1>d, <1>f, <2>1, <2>2, StoreKept DEF EndSend, Finish
  <1>10. CASE StartSend(p)
    <2>1. \A q \in Prep : status'[q] = "done" => status[q] = "done"
      BY <1>10, <1>a DEF StartSend, SenderTypes
    <2> QED
      BY <1>10, <1>b, <1>c, <1>d, <2>1, StoreKept DEF StartSend
  <1>11. CASE Dismiss(p)
    <2>1. \A q \in Prep : status'[q] = "done" => status[q] = "done"
      BY <1>11, <1>a DEF Dismiss, SenderTypes
    <2> QED
      BY <1>11, <1>b, <1>c, <2>1, StoreKept DEF Dismiss
  <1> QED
    BY <1>1, <1>2, <1>3, <1>4, <1>5, <1>6, <1>7, <1>8, <1>9, <1>10, <1>11 DEF SessionNext

\* The upload of a file.
LEMMA FileStore ==
  ASSUME SendInv, StoreInv, NEW p \in Prep, NEW f \in File, FileNext(p, f)
  PROVE  StoreInv'
  <1>a. SenderTypes /\ CallTypes
    BY SplitTypes DEF SendInv
  <1>b. [SendNext]_<<vars, sendVars>>
    BY DEF SendNext
  <1>c. UNCHANGED <<send, verdict, status>>
    BY FileSession DEF UnchangedSession
  <1>e. ASSUME NEW from, NEW r \in Result, r # "ok", TaskEnds(p, f, from, r)
        PROVE  StoreInv'
    <2>1. task'[p][f].at \notin {"ok", "calling"}
      BY <1>e, <1>a DEF TaskEnds, TaskStep, CallTypes, Result
    <2>2. \A q \in Prep, g \in File :
            task'[q][g].at \in {"ok", "calling"} => task'[q][g] = task[q][g]
      BY <1>a, <1>e, <2>1 DEF TaskEnds, TaskStep, CallTypes
    <2> QED
      BY <1>b, <1>c, <1>e, <2>2, StoreKept DEF TaskEnds
  <1>1. CASE StartFile(p, f)
    <2>1. \A q \in Prep, g \in File :
            task'[q][g].at \in {"ok", "calling"} => task'[q][g] = task[q][g]
      BY <1>1, <1>a DEF StartFile, TaskStep, CallTypes
    <2>2. \A q \in Prep, g \in File : rows'[q][g] = "done" => rows[q][g] = "done"
      BY <1>1, <1>a DEF StartFile, SenderTypes
    <2> QED
      BY <1>b, <1>c, <2>1, <2>2, StoreKept
  <1>2. CASE Retry(p, f)
    <2>1. \A q \in Prep, g \in File :
            task'[q][g].at \in {"ok", "calling"} => task'[q][g] = task[q][g]
      BY <1>2, <1>a DEF Retry, TaskStep, CallTypes
    <2> QED
      BY <1>2, <1>b, <1>c, <2>1, StoreKept DEF Retry
  <1>3. CASE CannotOpen(p, f) \/ TaskSeesStop(p, f)
    BY <1>3, <1>e DEF CannotOpen, TaskSeesStop, Result
  <1>4. CASE GivesUp(p, f)
    BY <1>4, <1>e DEF GivesUp
  <1> USE DEF StoreInv
  <1>k. ConsentInv' /\ CallInv' /\ GrantInv' /\ DoneInv'
    <2>1. ConsentInv' /\ CallInv'
      BY <1>b, SendInvStep, SplitTypes, ConsentKept, CallStep DEF SendInv
    <2> QED
      BY <1>b, <1>c, <2>1, StoredStays DEF GrantInv, DoneInv
  <1>5. CASE Uploaded(p, f)
    <2>1. Stored(p, f)
      <3>1. task[p][f].call \in Up /\ want[task[p][f].call] = [session |-> p, file |-> f]
        BY <1>5 DEF Uploaded, TaskCalls
      <3>2. result[task[p][f].call] = "ok"
        BY <1>5, <3>1 DEF Uploaded, Got, CallInv, RepliesTell
      <3> QED
        BY <3>1, <3>2 DEF Stored
    <2>2. \A q \in Prep, g \in File : (q = p /\ g = f) \/ task'[q][g] = task[q][g]
      BY <1>5, <1>a DEF Uploaded, TaskStep, CallTypes
    <2>3. \A q \in Prep, g \in File : (q = p /\ g = f) \/ rows'[q][g] = rows[q][g]
      BY <1>5, <1>a DEF Uploaded, SenderTypes
    <2>4. KeptInv'
      BY <1>b, <2>1, <2>2, <2>3, StoredStays DEF KeptInv
    <2>5. TaskCalls'
      <3>1. task'[p][f].at = "ok"
        BY <1>5, <1>a DEF Uploaded, TaskStep, CallTypes
      <3> QED
        BY <1>5, <2>2, <3>1 DEF TaskCalls, Uploaded
    <2> QED
      BY <1>k, <2>4, <2>5
  <1>6. ASSUME NEW u \in Up, Call(p, f, u) PROVE StoreInv'
    <2>1. \A q \in Prep, g \in File : (q = p /\ g = f) \/ task'[q][g] = task[q][g]
      BY <1>6, <1>a DEF Call, TaskStep, CallTypes
    <2>2. task'[p][f].at = "calling" /\ task'[p][f].call = u
      BY <1>6, <1>a DEF Call, TaskStep, CallTypes
    <2>3. want'[u] = [session |-> p, file |-> f] /\ \A v \in Up : v # u => want'[v] = want[v]
      BY <1>6, <1>a DEF Call, CallTypes, Wanted
    <2>4. KeptInv'
      BY <1>6, <1>b, <2>1, <2>2, StoredStays DEF KeptInv, Call
    <2>5. TaskCalls'
      <3> SUFFICES ASSUME NEW q \in Prep, NEW g \in File, ~(q = p /\ g = f),
                          task'[q][g].at = "calling"
                   PROVE  /\ task'[q][g].call \in Up
                          /\ want'[task'[q][g].call] = [session |-> q, file |-> g]
        BY <2>2, <2>3 DEF TaskCalls
      <3>1. task[q][g].call \in Up /\ want[task[q][g].call] = [session |-> q, file |-> g]
        BY <2>1 DEF TaskCalls
      <3>2. want[task[q][g].call] # NoJob
        BY <3>1, ConstantsAssumption DEF NoJob, Caller
      <3>3. task[q][g].call # u
        BY <1>6, <3>1, <3>2 DEF Call, CallInv, CallsSent
      <3> QED
        BY <2>1, <2>3, <3>1, <3>3
    <2> QED
      BY <1>k, <2>4, <2>5
  <1> QED
    BY <1>1, <1>2, <1>3, <1>4, <1>5, <1>6 DEF FileNext

LEMMA StoreStep == SendInv /\ StoreInv /\ [SendNext]_<<vars, sendVars>> => StoreInv'
  <1> SUFFICES ASSUME SendInv, StoreInv, [SendNext]_<<vars, sendVars>> PROVE StoreInv'
    OBVIOUS
  <1>1. CASE UNCHANGED <<send, verdict, status, rows, task>>
    BY <1>1, StoreKept
  <1>2. ASSUME NEW p \in Prep, CommandNext(p) PROVE StoreInv'
    <2>1. UNCHANGED <<send, verdict, rows, task>>
      BY <1>2 DEF CommandNext, CancelReads, CancelStops, CancelArrives, CancelHandled,
                  CancelReturns, CancelUndelivered, CancelFinishes, sessionVars, callVars
    <2>2. \A q \in Prep : status'[q] = "done" => status[q] = "done"
      <3>1. CASE CancelFinishes(p)
        <4>1. SenderTypes
          BY SplitTypes DEF SendInv
        <4> QED
          BY <3>1, <4>1 DEF CancelFinishes, Finish, SetStatus, SenderTypes
      <3>2. CASE ~CancelFinishes(p)
        BY <1>2, <3>2 DEF CommandNext, CancelReads, CancelStops, CancelArrives, CancelHandled,
                          CancelReturns, CancelUndelivered, sessionVars
      <3> QED
        BY <3>1, <3>2
    <2> QED
      BY <2>1, <2>2, StoreKept
  <1>3. \/ (\E p \in Prep : PrepRuns(p)) \/ (\E u \in Up : UpRuns(u)) \/ Receiver
        \/ (\E c \in Prep \cup Up : Network(c)) \/ UNCHANGED <<vars, sendVars>>
        => UNCHANGED <<send, verdict, status, rows, task>>
    BY NetworkMoves DEF PrepRuns, UpRuns, Receiver, sendVars, sessionVars, callVars
  <1> QED
    BY <1>1, <1>2, <1>3, SessionStore, FileStore DEF SendNext

LEMMA StoreInit == SendInit => StoreInv
  BY ConstantsAssumption
  DEF SendInit, Init, StoreInv, ConsentInv, Consent, Granted, Unasked, NoSession, Unanswered,
      CallInv, CallsSent, RepliesTell, ResultLast, GrantTells, TaskCalls, KeptInv, GrantInv,
      DoneInv, Queued

\* A file the sender shows as done was stored by an upload of that file, and a
\* session shown as done left out none that the user had kept: through lost
\* replies, retries and cancellations on both sides, for any number of them.
THEOREM DoneMeansStoredHolds == SendSpec => []DoneMeansStored
  <1>2. SendInv /\ StoreInv => DoneMeansStored
    <2> SUFFICES ASSUME SendInv, StoreInv PROVE DoneMeansStored
      OBVIOUS
    <2> QED
      BY DEF StoreInv, KeptInv, DoneInv, Delivered, DoneMeansStored
  <1> QED
    BY <1>2, StoreInit, SendInvInit, SendInvStep, StoreStep, PTL DEF SendSpec

-----------------------------------------------------------------------------
(* An upload is let in as long as its session is the active one.             *)

Ahead  == {"new", "entering"}
Behind == {"report", "done"}
Calls(p, f, u) == want[u] = [session |-> p, file |-> f]
SameCalls(p, f) == \A u \in Up : Calls(p, f, u)' <=> Calls(p, f, u)

\* What a step may do to the upload of a file.
Starts(p, f) ==
    /\ task[p][f].at = "queued" /\ task'[p][f].at = "ready" /\ task'[p][f].attempts = 1
    /\ f \in answer[p].files /\ send[p] = "sending"
    /\ SameCalls(p, f)

Ends(p, f) ==
    /\ task[p][f].at \in {"ready", "calling"} /\ task'[p][f].at \in Result
    /\ SameCalls(p, f)

Retries(p, f) ==
    /\ task[p][f].at = "calling" /\ reply[task[p][f].call] = "mismatch"
    /\ task[p][f].attempts < SenderAttempts
    /\ task'[p][f].at = "ready" /\ task'[p][f].attempts = task[p][f].attempts + 1
    /\ SameCalls(p, f)

Asks(p, f, u) ==
    /\ task[p][f].at = "ready" /\ task'[p][f].at = "calling" /\ task'[p][f].call = u
    /\ task'[p][f].attempts = task[p][f].attempts
    /\ \A v \in Up : Calls(p, f, v)' <=> Calls(p, f, v) \/ v = u

FileMoves(p, f) ==
    \/ task'[p][f] = task[p][f] /\ SameCalls(p, f)
    \/ Starts(p, f) \/ Ends(p, f) \/ Retries(p, f)
    \/ \E u \in Up : Asks(p, f, u)

LEMMA OneFileMoves ==
  ASSUME SendInv, CallsSent, NEW p \in Prep, NEW f \in File, FileNext(p, f)
  PROVE  \A q \in Prep, g \in File : FileMoves(q, g)
  <1>a. CallTypes
    BY SplitTypes DEF SendInv
  <1>b. \A r \in Result : r \notin {"queued", "ready", "calling"}
    BY DEF Result
  <1>1. ASSUME NEW u \in Up, Call(p, f, u) PROVE \A q \in Prep, g \in File : FileMoves(q, g)
    <2>1. want[u] = NoJob
      BY <1>1 DEF Call, CallsSent
    <2>2. \A q \in Prep, g \in File : ~Calls(q, g, u)
      BY <2>1, ConstantsAssumption DEF Calls, NoJob, Caller
    <2>3. Asks(p, f, u)
      BY <1>1, <1>a DEF Call, TaskStep, CallTypes, Wanted, Asks, Calls
    <2>4. \A q \in Prep, g \in File : (q = p /\ g = f) \/ (task'[q][g] = task[q][g])
      BY <1>1, <1>a DEF Call, TaskStep, CallTypes
    <2>5. \A q \in Prep, g \in File : (q = p /\ g = f) \/ SameCalls(q, g)
      BY <1>1, <1>a, <2>2 DEF Call, CallTypes, Wanted, SameCalls, Calls
    <2> QED
      BY <2>3, <2>4, <2>5 DEF FileMoves
  <1>2. ASSUME UNCHANGED want PROVE \A q \in Prep, g \in File : SameCalls(q, g)
    BY <1>2 DEF SameCalls, Calls
  <1>3. CASE StartFile(p, f)
    <2>1. Starts(p, f)
      BY <1>2, <1>3, <1>a DEF StartFile, TaskStep, CallTypes, Starts, Tokens
    <2>2. \A q \in Prep, g \in File : (q = p /\ g = f) \/ (task'[q][g] = task[q][g])
      BY <1>3, <1>a DEF StartFile, TaskStep, CallTypes
    <2> QED
      BY <1>2, <1>3, <2>1, <2>2 DEF FileMoves, StartFile
  <1>4. CASE Retry(p, f)
    <2>1. Retries(p, f)
      BY <1>2, <1>4, <1>a DEF Retry, TriesAgain, Got, TaskStep, CallTypes, Retries
    <2>2. \A q \in Prep, g \in File : (q = p /\ g = f) \/ (task'[q][g] = task[q][g])
      BY <1>4, <1>a DEF Retry, TaskStep, CallTypes
    <2> QED
      BY <1>2, <1>4, <2>1, <2>2 DEF FileMoves, Retry
  <1>5. ASSUME NEW from \in {"ready", "calling"}, NEW r \in Result, TaskEnds(p, f, from, r)
        PROVE  \A q \in Prep, g \in File : FileMoves(q, g)
    <2>1. Ends(p, f)
      BY <1>2, <1>5, <1>a DEF TaskEnds, TaskStep, CallTypes, Ends
    <2>2. \A q \in Prep, g \in File : (q = p /\ g = f) \/ (task'[q][g] = task[q][g])
      BY <1>5, <1>a DEF TaskEnds, TaskStep, CallTypes
    <2> QED
      BY <1>2, <1>5, <2>1, <2>2 DEF FileMoves, TaskEnds
  <1>6. CASE Uploaded(p, f)
    <2>1. Ends(p, f)
      BY <1>2, <1>6, <1>a DEF Uploaded, TaskStep, CallTypes, Ends, Result
    <2>2. \A q \in Prep, g \in File : (q = p /\ g = f) \/ (task'[q][g] = task[q][g])
      BY <1>6, <1>a DEF Uploaded, TaskStep, CallTypes
    <2> QED
      BY <1>2, <1>6, <2>1, <2>2 DEF FileMoves, Uploaded
  <1>7. CASE CannotOpen(p, f) \/ TaskSeesStop(p, f)
    BY <1>5, <1>7 DEF CannotOpen, TaskSeesStop, Result
  <1>8. CASE GivesUp(p, f)
    BY <1>5, <1>8 DEF GivesUp
  <1> QED
    BY <1>1, <1>3, <1>4, <1>6, <1>7, <1>8 DEF FileNext

\* A step of the composition is the sender's, and leaves the server alone, or
\* it leaves the uploads of the sender alone.
LEMMA StepMoves ==
  ASSUME SendInv, CallsSent, [SendNext]_<<vars, sendVars>>
  PROVE  \/ UNCHANGED vars /\ \A p \in Prep, f \in File : FileMoves(p, f)
         \/ UNCHANGED <<task, want>>
  <1>1. ASSUME NEW p \in Prep, NEW f \in File, FileNext(p, f)
        PROVE  UNCHANGED vars /\ \A q \in Prep, g \in File : FileMoves(q, g)
    BY <1>1, OneFileMoves, FileSession DEF UnchangedSession
  <1>2. ASSUME NEW p \in Prep, SessionNext(p) \/ StartSend(p) \/ Dismiss(p) \/ CommandNext(p)
        PROVE  UNCHANGED <<task, want>>
    BY <1>2 DEF SessionNext, SeesStop, NoClient, HashLast, Offer, Accepts, GrantLost,
                NothingWanted, Refused, Activate, Collect, EndSend, StartSend, Dismiss, CommandNext,
                CancelReads, CancelStops, CancelArrives, CancelHandled, CancelReturns,
                CancelUndelivered, CancelFinishes, callVars
  <1>3. \/ (\E p \in Prep : PrepRuns(p)) \/ (\E u \in Up : UpRuns(u)) \/ Receiver
        \/ (\E c \in Prep \cup Up : Network(c)) \/ UNCHANGED <<vars, sendVars>>
        => UNCHANGED <<task, want>>
    BY NetworkMoves DEF PrepRuns, UpRuns, Receiver, sendVars, callVars
  <1> QED
    BY <1>1, <1>2, <1>3 DEF SendNext

\* Some things of the server are final.
LEMMA FinalStays ==
  ASSUME TypeOK, [Next]_vars
  PROVE  /\ \A p \in Prep : prep[p] = "served" => prep'[p] = "served"
         /\ \A u \in Up : up[u] \in Behind => up'[u] \in Behind
  <1> USE DEF TypeOK, slotVars, prepVars, upVars, ctlVars, UpStep, PrepStep, Behind
  <1>1. ASSUME NEW u \in Up, UpNext(u)
        PROVE  UNCHANGED prep /\ \A v \in Up : up[v] \in Behind => up'[v] \in Behind
    BY <1>1 DEF UpNext, EnterLock, EnterRefused, EnterWrongFile, Admit, NoDestination,
           StartReceiving, BodyEnds, DropUpload, SettleLock, SettleGone, Settle, Report
  <1>2. ASSUME NEW q \in Prep, PrepNext(q)
        PROVE  UNCHANGED up /\ \A p \in Prep : prep[p] = "served" => prep'[p] = "served"
    BY <1>2 DEF PrepNext, RefuseEarly, ClaimLock, ClaimRefused, Claim, Raise, RaiseFailed,
                CancelSeen, DecisionTimeout, DecideNo, DecideYes, Disconnect,
                InstallLock, InstallNothing, Install, GuardDrop
  <1>3. ASSUME NEW q \in Prep, AppNext(q) PROVE UNCHANGED <<up, prep>>
    BY <1>3 DEF AppNext, Accept, AcceptAtOnce, Answered, SendAccept, Decline, Discard, AnswerStep
  <1>4. CtlNext \/ GoesQuiet \/ UNCHANGED vars => UNCHANGED <<up, prep>>
    BY DEF CtlNext, CtlLock, CtlNothing, CtlReport, CancelPending, CancelActive,
           CancelSession, WatchSessions, GoesQuiet, vars
  <1> QED
    BY <1>1, <1>2, <1>3, <1>4 DEF Next

\* A file is asked for only under the grant, and only if it is in it.
BegunInv == \A p \in Prep :
    /\ reply[p] = "ok" \/ send[p] \in {"granted", "sending"} => prep[p] = "served"
    /\ \A f \in File : task[p][f].at # "queued" =>
          prep[p] = "served" /\ answer[p].kind = "accept" /\ f \in answer[p].files

\* An upload works on what its call asks for; a mismatch is told when it is settled.
WorkInv == \A u \in Up :
    /\ job[u] # NoJob => job[u] = want[u] /\ reply[u] # "unasked"
    /\ reply[u] = "mismatch" => result[u] = "mismatch" /\ up[u] \in Behind

HasJob == \A u \in Up :
    up[u] \in {"admitted", "receiving", "settle", "settling"} => job[u] # NoJob

\* The calls for one file follow each other: one is on its way at a time, and
\* none when the next is about to be made.
TurnsInv == \A p \in Prep, f \in File, u \in Up : Calls(p, f, u) =>
    /\ task[p][f].at # "queued"
    /\ task[p][f].at = "ready" \/ (task[p][f].at = "calling" /\ task[p][f].call # u)
          => up[u] \in Behind
    /\ \A v \in Up : Calls(p, f, v) /\ v # u => up[u] \in Behind \/ up[v] \in Behind

\* The attempts the receiver has counted never get ahead of the sender's own, so
\* a file is not given up on while the sender may come back.
Room(p, f) ==
    /\ task[p][f].at = "queued" => files[f].status = "pending" /\ files[f].attempts = 0
    /\ task[p][f].at = "ready" =>
          files[f].status = "pending" /\ files[f].attempts < task[p][f].attempts
    /\ task[p][f].at = "calling" => \A c \in Up : c = task[p][f].call =>
          /\ files[f].attempts <= task[p][f].attempts
          /\ up[c] \in Ahead => files[f].attempts < task[p][f].attempts
          /\ up[c] \in Behind /\ result[c] = "mismatch" /\ task[p][f].attempts < SenderAttempts
                => files[f].status = "pending"
    /\ \A u \in Up : Calls(p, f, u) /\ up[u] \in Ahead => files[f].status = "pending"

RoomInv == \A p \in Prep : slot = Active(p) => \A f \in answer[p].files : Room(p, f)

TurnInv == StoreInv /\ BegunInv /\ WorkInv /\ TurnsInv /\ RoomInv

LEMMA BegunStep ==
  ASSUME SendInv, TurnInv, [SendNext]_<<vars, sendVars>>
  PROVE  BegunInv'
  <1>a. TypeOK /\ [Next]_vars /\ ReplyMoves /\ SenderTypes
    BY SendInvStep, RepliesMove, SplitTypes DEF SendInv
  <1>1. ASSUME NEW p \in Prep, reply'[p] = "ok" PROVE prep'[p] = "served"
    <2>1. PrepReplyMoves(p)
      BY <1>a DEF ReplyMoves
    <2> QED
      BY <1>1, <1>a, <2>1, FinalStays DEF PrepReplyMoves, TurnInv, BegunInv
  <1>2. ASSUME NEW p \in Prep, send'[p] \in {"granted", "sending"} PROVE prep'[p] = "served"
    <2>1. reply[p] = "ok" \/ send[p] \in {"granted", "sending"}
      <3>1. CASE UNCHANGED send
        BY <1>2, <3>1
      <3>2. ASSUME NEW q \in Prep, SessionNext(q) \/ StartSend(q) \/ Dismiss(q)
            PROVE  reply[p] = "ok" \/ send[p] \in {"granted", "sending"}
        BY <1>2, <1>a, <3>2
        DEF SessionNext, SeesStop, NoClient, HashLast, Offer, Accepts, GrantLost, Hears,
            NothingWanted, Refused, Activate, Collect, EndSend, StartSend, Dismiss,
            SendStep, SenderTypes
      <3>3. ASSUME NEW q \in Prep, NEW f \in File, FileNext(q, f) PROVE UNCHANGED send
        BY <3>3, FileSession DEF UnchangedSession
      <3>4. \/ (\E q \in Prep : PrepRuns(q) \/ CommandNext(q)) \/ (\E u \in Up : UpRuns(u))
            \/ (\E c \in Prep \cup Up : Network(c)) \/ Receiver
            \/ UNCHANGED <<vars, sendVars>>
            => UNCHANGED send
        BY NetworkMoves DEF PrepRuns, UpRuns, Receiver, sendVars, sessionVars, CommandNext,
               CancelReads, CancelStops, CancelArrives, CancelHandled, CancelReturns,
               CancelUndelivered, CancelFinishes
      <3> QED
        BY <3>1, <3>2, <3>3, <3>4 DEF SendNext
    <2> QED
      BY <1>a, <2>1, FinalStays DEF TurnInv, BegunInv
  <1>3. ASSUME NEW p \in Prep, NEW f \in File, task'[p][f].at # "queued"
        PROVE  prep'[p] = "served" /\ answer'[p].kind = "accept" /\ f \in answer'[p].files
    <2>1. CASE task[p][f].at # "queued"
      <3>1. prep[p] = "served" /\ answer[p].kind = "accept" /\ f \in answer[p].files
        BY <2>1 DEF TurnInv, BegunInv
      <3> QED
        BY <1>a, <3>1, AcceptStays, FinalStays DEF TurnInv, StoreInv
    <2>2. CASE task[p][f].at = "queued"
      <3>1. UNCHANGED vars /\ FileMoves(p, f)
        BY <1>3, <2>2, StepMoves DEF TurnInv, StoreInv, CallInv
      <3>2. Starts(p, f)
        BY <1>3, <2>2, <3>1 DEF FileMoves, Ends, Retries, Asks
      <3>3. prep[p] = "served" /\ answer[p].kind = "accept" /\ f \in answer[p].files
        BY <3>2 DEF Starts, TurnInv, BegunInv, StoreInv, GrantInv
      <3> QED
        BY <3>1, <3>3 DEF vars, prepVars
    <2> QED
      BY <2>1, <2>2
  <1> QED
    BY <1>1, <1>2, <1>3 DEF BegunInv

LEMMA WorkStep ==
  ASSUME SendInv, TurnInv, [SendNext]_<<vars, sendVars>>, NEW u \in Up
  PROVE  /\ job'[u] # NoJob => job'[u] = want'[u] /\ reply'[u] # "unasked"
         /\ reply'[u] = "mismatch" => result'[u] = "mismatch" /\ up'[u] \in Behind
  <1>a. TypeOK /\ [Next]_vars /\ ReplyMoves
    BY SendInvStep, RepliesMove, SplitTypes DEF SendInv
  <1>b. UpReplyMoves(u)
    BY <1>a DEF ReplyMoves
  <1>c. result[u] # "none" => result'[u] = result[u]
    BY <1>a, ResultStays DEF TurnInv, StoreInv, CallInv
  <1>1. \/ job'[u] = job[u]
        \/ job'[u] = want[u] /\ reply[u] # "unasked" /\ UNCHANGED want
    <2>1. ASSUME NEW v \in Up, UpRuns(v)
          PROVE  job'[u] = job[u] \/ (job'[u] = want[u] /\ reply[u] # "unasked")
      <3>1. CASE Matches(v) /\ Admit(v, want[v].file)
        <4>1. want[v].session = slot.id
          BY <3>1 DEF Matches, Active
        <4>2. want[v] \in [session: Prep, file: File] \cup {NoJob}
          BY SplitTypes DEF SendInv, CallTypes, Wanted
        <4>3. job' = [job EXCEPT ![v] = want[v]]
          BY <3>1, <4>1, <4>2 DEF Admit, NoJob
        <4> QED
          BY <1>a, <2>1, <4>3 DEF UpRuns, Asked, TypeOK
      <3>2. CASE ~(Matches(v) /\ Admit(v, want[v].file))
        BY <2>1, <3>2 DEF UpRuns, UpHandler, EnterLock, EnterRefused, EnterWrongFile,
           NoDestination, StartReceiving, BodyEnds, DropUpload, SettleLock, SettleGone,
           Settle, Report
      <3> QED
        BY <3>1, <3>2
    <2>2. ASSUME NEW p \in Prep, PrepRuns(p) PROVE UNCHANGED job
      BY <2>2 DEF PrepRuns, PrepNext, RefuseEarly, ClaimLock, ClaimRefused, Claim, Raise,
                RaiseFailed, CancelSeen, DecisionTimeout, DecideNo, DecideYes, Disconnect,
                InstallLock, InstallNothing, Install, GuardDrop, upVars
    <2>3. Receiver => UNCHANGED job
      BY DEF Receiver, AppNext, Accept, AcceptAtOnce, Answered, SendAccept, Decline, Discard,
             AnswerStep, CtlLock, CtlNothing, CtlReport, CancelSession, WatchSessions, GoesQuiet,
             upVars
    <2>4. ASSUME NEW p \in Prep, SessionNext(p) \/ StartSend(p) \/ Dismiss(p) \/ CommandNext(p)
          PROVE  UNCHANGED job
      BY <2>4 DEF SessionNext, SeesStop, NoClient, HashLast, Offer, Accepts, GrantLost,
                NothingWanted, Refused, Activate, Collect, EndSend, StartSend, Dismiss, CommandNext,
                CancelReads, CancelStops, CancelArrives, CancelHandled, CancelReturns,
                CancelUndelivered, CancelFinishes, CtlLock, CtlNothing, CtlReport, CancelActive,
                vars, upVars
    <2>5. ASSUME NEW p \in Prep, NEW f \in File, FileNext(p, f) PROVE UNCHANGED job
      BY <2>5, FileSession DEF UnchangedSession, vars, upVars
    <2>6. (\E c \in Prep \cup Up : Network(c)) \/ UNCHANGED <<vars, sendVars>>
          => UNCHANGED job
      BY NetworkMoves DEF vars, upVars
    <2>7. (\E v \in Up : UpRuns(v)) => UNCHANGED want
      BY DEF UpRuns
    <2> QED
      BY <2>1, <2>2, <2>3, <2>4, <2>5, <2>6, <2>7 DEF SendNext
  <1>2. ASSUME job'[u] # NoJob PROVE job'[u] = want'[u] /\ reply'[u] # "unasked"
    <2>1. reply[u] # "unasked" => reply'[u] # "unasked"
      BY <1>a, <1>b DEF UpReplyMoves, TypeOK, Silence
    <2>2. CASE job'[u] = job[u]
      <3>1. job[u] = want[u] /\ want[u] # NoJob /\ reply[u] # "unasked"
        BY <1>2, <2>2 DEF TurnInv, WorkInv
      <3>2. want'[u] = want[u]
        BY <3>1, WantStays DEF TurnInv, StoreInv, CallInv
      <3> QED
        BY <2>1, <2>2, <3>1, <3>2
    <2> QED
      BY <1>1, <2>1, <2>2
  <1>3. ASSUME reply'[u] = "mismatch" PROVE result'[u] = "mismatch" /\ up'[u] \in Behind
    <2>1. result[u] = "mismatch" /\ up[u] \in Behind
      BY <1>3, <1>b DEF UpReplyMoves, TurnInv, WorkInv, Behind, Silence
    <2> QED
      BY <1>a, <1>c, <2>1, FinalStays
  <1> QED
    BY <1>2, <1>3

LEMMA TurnsStep ==
  ASSUME SendInv, TurnInv, [SendNext]_<<vars, sendVars>>
  PROVE  TurnsInv'
  <1>a. TypeOK /\ [Next]_vars
    BY SendInvStep, SplitTypes DEF SendInv
  <1>b. \A u \in Up : up[u] \in Behind => up'[u] \in Behind
    BY <1>a, FinalStays
  <1>1. CASE UNCHANGED <<task, want>>
    <2> SUFFICES ASSUME NEW p \in Prep, NEW f \in File, NEW u \in Up, Calls(p, f, u)'
                 PROVE  /\ task[p][f].at # "queued"
                        /\ task[p][f].at = "ready"
                           \/ (task[p][f].at = "calling" /\ task[p][f].call # u)
                              => up'[u] \in Behind
                        /\ \A v \in Up : Calls(p, f, v)' /\ v # u
                              => up'[u] \in Behind \/ up'[v] \in Behind
      BY <1>1 DEF TurnsInv, Behind
    <2>1. \A v \in Up : Calls(p, f, v)' <=> Calls(p, f, v)
      BY <1>1 DEF Calls
    <2> QED
      BY <1>b, <2>1 DEF TurnsInv, TurnInv
  <1>2. CASE UNCHANGED vars /\ \A p \in Prep, f \in File : FileMoves(p, f)
    <2> SUFFICES ASSUME NEW p \in Prep, NEW f \in File, NEW u \in Up, Calls(p, f, u)'
                 PROVE  /\ task'[p][f].at # "queued"
                        /\ task'[p][f].at = "ready"
                           \/ (task'[p][f].at = "calling" /\ task'[p][f].call # u)
                              => up[u] \in Behind
                        /\ \A v \in Up : Calls(p, f, v)' /\ v # u
                              => up[u] \in Behind \/ up[v] \in Behind
      BY <1>2 DEF TurnsInv, vars, upVars
    <2>1. CASE task'[p][f] = task[p][f] /\ SameCalls(p, f)
      BY <2>1 DEF SameCalls, TurnInv, TurnsInv
    <2>2. CASE Starts(p, f)
      BY <2>2 DEF Starts, SameCalls, TurnInv, TurnsInv
    <2>3. CASE Ends(p, f)
      <3>1. task'[p][f].at \notin {"queued", "ready", "calling"}
        BY <2>3 DEF Ends, Result
      <3> QED
        BY <2>3, <3>1 DEF Ends, SameCalls, TurnInv, TurnsInv
    <2>4. CASE Retries(p, f)
      <3>1. Calls(p, f, u)
        BY <2>4 DEF Retries, SameCalls
      <3>2. up[u] \in Behind
        BY <2>4, <3>1 DEF Retries, TurnInv, TurnsInv, WorkInv
      <3> QED
        BY <2>4, <3>2 DEF Retries
    <2>5. ASSUME NEW w \in Up, Asks(p, f, w)
          PROVE  /\ task'[p][f].at = "calling" /\ task'[p][f].call = w
                 /\ \A v \in Up : Calls(p, f, v)' /\ v # w => up[v] \in Behind
      BY <2>5 DEF Asks, TurnInv, TurnsInv
    <2>6. CASE \E w \in Up : Asks(p, f, w)
      BY <2>5, <2>6
    <2> QED
      BY <1>2, <2>1, <2>2, <2>3, <2>4, <2>6 DEF FileMoves
  <1> QED
    BY <1>1, <1>2, StepMoves DEF TurnInv, StoreInv, CallInv

\* An upload at work has a job.
LEMMA HasJobStep ==
  ASSUME TypeOK, HasJob, [Next]_vars
  PROVE  HasJob'
  <1> USE DEF TypeOK, HasJob, slotVars, prepVars, upVars, ctlVars, UpStep
  <1>1. ASSUME NEW u \in Up, UpNext(u) PROVE HasJob'
    <2>1. ASSUME NEW f \in File, Admit(u, f) PROVE HasJob'
      <3>1. slot.id # None
        BY <2>1, ConstantsAssumption DEF Admit, NoSession, Pending, Active, Caller
      <3>2. job' = [job EXCEPT ![u] = [session |-> slot.id, file |-> f]]
            /\ up' = [up EXCEPT ![u] = "admitted"]
        BY <2>1 DEF Admit
      <3> QED
        BY <3>1, <3>2 DEF NoJob
    <2>2. CASE ~\E f \in File : Admit(u, f)
      BY <1>1, <2>2 DEF UpNext, EnterLock, EnterRefused, EnterWrongFile, NoDestination,
           StartReceiving, BodyEnds, DropUpload, SettleLock, SettleGone, Settle, Report
    <2> QED
      BY <2>1, <2>2
  <1>2. CASE UNCHANGED upVars
    BY <1>2
  <1>3. ASSUME NEW p \in Prep, PrepNext(p) \/ AppNext(p) PROVE UNCHANGED upVars
    BY <1>3 DEF PrepNext, RefuseEarly, ClaimLock, ClaimRefused, Claim, Raise, RaiseFailed,
                CancelSeen, DecisionTimeout, DecideNo, DecideYes, Disconnect,
                InstallLock, InstallNothing, Install, GuardDrop,
                AppNext, Accept, AcceptAtOnce, Answered, SendAccept, Decline, Discard, AnswerStep
  <1>4. CtlNext \/ GoesQuiet \/ UNCHANGED vars => UNCHANGED upVars
    BY DEF CtlNext, CtlLock, CtlNothing, CtlReport, CancelPending, CancelActive,
           CancelSession, WatchSessions, GoesQuiet, vars
  <1> QED
    BY <1>1, <1>2, <1>3, <1>4 DEF Next

\* The sender moves on with a file.
LEMMA SenderRoom ==
  ASSUME SendInv, TurnInv, UNCHANGED vars, NEW p \in Prep, NEW f \in File,
         FileMoves(p, f), Room(p, f)
  PROVE  Room(p, f)'
  <1> USE DEF vars, slotVars, upVars, prepVars, Room
  <1>a. /\ task[p][f].attempts \in Nat /\ files[f].attempts \in Nat
        /\ task[p][f].at = "calling" => task[p][f].call \in Up
    <2>1. task[p][f].attempts \in 0 .. SenderAttempts /\ files[f].attempts \in Nat
      BY SplitTypes DEF SendInv, CallTypes, TypeOK
    <2>2. 0 .. SenderAttempts \subseteq Nat
      BY SenderAssumption, ConstantsAssumption
    <2> QED
      BY <2>1, <2>2 DEF TurnInv, StoreInv, TaskCalls
  <1>1. CASE task'[p][f] = task[p][f] /\ SameCalls(p, f)
    BY <1>1 DEF SameCalls
  <1>2. CASE Starts(p, f)
    BY <1>2, <1>a DEF Starts, SameCalls
  <1>3. CASE Ends(p, f)
    <2>1. task'[p][f].at \notin {"queued", "ready", "calling"}
      BY <1>3 DEF Ends, Result
    <2> QED
      BY <1>3, <2>1 DEF Ends, SameCalls
  <1>4. CASE Retries(p, f)
    <2>1. PICK c \in Up : c = task[p][f].call
      BY <1>4, <1>a DEF Retries
    <2>2. up[c] \in Behind /\ result[c] = "mismatch"
      BY <1>4, <2>1 DEF Retries, TurnInv, WorkInv
    <2>3. files[f].status = "pending" /\ files[f].attempts < task'[p][f].attempts
      BY <1>4, <1>a, <2>1, <2>2 DEF Retries
    <2> QED
      BY <1>4, <2>3 DEF Retries
  <1>5. ASSUME NEW u \in Up, Asks(p, f, u) PROVE Room(p, f)'
    <2>1. files[f].status = "pending" /\ files[f].attempts < task'[p][f].attempts
      BY <1>5 DEF Asks
    <2>2. files[f].attempts <= task'[p][f].attempts
      BY <1>5, <1>a, <2>1 DEF Asks
    <2> QED
      BY <1>5, <2>1, <2>2 DEF Asks
  <1> QED
    BY <1>1, <1>2, <1>3, <1>4, <1>5 DEF FileMoves

\* The receiver moves on with an upload.
LEMMA ReceiverRoom ==
  ASSUME SendInv, TurnInv, HasJob, WorkInv', UNCHANGED <<task, want>>,
         NEW u \in Up, UpNext(u), NEW p \in Prep, slot = Active(p), slot' = Active(p),
         NEW f \in File, Room(p, f)
  PROVE  Room(p, f)'
  <1> USE DEF TypeOK, upVars, slotVars, UpStep
  <1>a. TypeOK
    BY SplitTypes DEF SendInv
  <1>b. /\ task[p][f].attempts \in Nat /\ files[f].attempts \in Nat
        /\ SenderAttempts \in Nat /\ SenderAttempts <= MaxUploadAttempts
        /\ MaxUploadAttempts \in Nat
    <2>1. task[p][f].attempts \in 0 .. SenderAttempts /\ files[f].attempts \in Nat
      BY SplitTypes DEF SendInv, CallTypes
    <2>2. /\ 0 .. SenderAttempts \subseteq Nat /\ SenderAttempts \in Nat
          /\ SenderAttempts <= MaxUploadAttempts /\ MaxUploadAttempts \in Nat
      BY SenderAssumption, ConstantsAssumption
    <2> QED
      BY <2>1, <2>2
  <1>c. task[p][f].at = "calling" => task[p][f].call \in Up /\ Calls(p, f, task[p][f].call)
    BY DEF TurnInv, StoreInv, TaskCalls, Calls
  <1>d. \A v \in Up : v # u => up'[v] = up[v] /\ result'[v] = result[v]
    BY <1>a DEF UpNext, EnterLock, EnterRefused, EnterWrongFile, Admit, NoDestination,
           StartReceiving, BodyEnds, DropUpload, SettleLock, SettleGone, Settle, Report
  <1>e. \A v \in Up : Calls(p, f, v)' <=> Calls(p, f, v)
    BY DEF Calls
  <1>f. PICK c : c = task[p][f].call
    OBVIOUS
  <1>g. task'[p][f].call = c
    BY <1>f
  \* It is another file's.
  <1>1. ASSUME ~Calls(p, f, u), files'[f] = files[f] PROVE Room(p, f)'
    <2>1. task[p][f].at = "calling" => c # u
      BY <1>1, <1>c, <1>f
    <2> QED
      BY <1>1, <1>c, <1>d, <1>e, <1>f, <1>g, <2>1 DEF Room
  \* It is this file's, and neither the file nor whether it is ahead changes for the worse.
  <1>2. ASSUME files'[f] = files[f],
               up'[u] \in Ahead => up[u] \in Ahead,
               up'[u] \in Behind /\ result'[u] = "mismatch" =>
                  up[u] \in Behind /\ result[u] = "mismatch"
        PROVE  Room(p, f)'
    BY <1>2, <1>c, <1>d, <1>e, <1>f, <1>g DEF Room
  <1>3. ASSUME NEW g \in File, Admit(u, g) PROVE Room(p, f)'
    <2>1. job'[u] = [session |-> p, file |-> g]
      BY <1>3, <1>a DEF Admit, Active
    <2>2. Calls(p, g, u)
      <3>1. job'[u] # NoJob
        BY <2>1, ConstantsAssumption DEF NoJob, Caller
      <3> QED
        BY <2>1, <3>1 DEF WorkInv, Calls
    <2>3. CASE g # f
      BY <1>3, <1>a, <1>1, <2>2, <2>3 DEF Admit, Calls
    <2>4. CASE g = f
      <3>1. up[u] = "entering" /\ up'[u] = "admitted"
        BY <1>3, <1>a DEF Admit
      <3>2. up[u] \notin Behind /\ up[u] \in Ahead /\ up'[u] \notin Ahead \cup Behind
        BY <3>1 DEF Ahead, Behind
      <3>3. task[p][f].at \notin {"queued", "ready"} /\ (task[p][f].at = "calling" => c = u)
        BY <1>f, <2>2, <2>4, <3>2 DEF TurnInv, TurnsInv
      <3>4. files'[f].status = files[f].status /\ files'[f].attempts <= files[f].attempts + 1
        BY <1>3, <1>a, <1>b, <2>4 DEF Admit, SaturatingInc
      <3>5. task[p][f].at = "calling" => files[f].attempts < task[p][f].attempts
        BY <1>f, <3>2, <3>3 DEF Room
      <3>6. files'[f].attempts \in Nat
        BY <1>3, <1>a, <1>b, <2>4 DEF Admit, SaturatingInc
      <3>7. task[p][f].at = "calling" => files'[f].attempts <= task[p][f].attempts
        BY <1>b, <3>4, <3>5, <3>6
      <3>8. files[f].status = "pending"
        BY <2>2, <2>4, <3>2 DEF Room
      <3> QED
        BY <1>c, <1>g, <3>2, <3>3, <3>4, <3>7, <3>8 DEF Room
    <2> QED
      BY <2>3, <2>4
  <1>4. CASE Settle(u)
    <2>1. PICK g : g = job[u].file
      OBVIOUS
    <2>2. job[u] = [session |-> p, file |-> g] /\ g \in File /\ job[u] # NoJob
      BY <1>4, <1>a, <2>1, ConstantsAssumption
      DEF Settle, StillMine, Active, NoJob, Caller
    <2>3. Calls(p, g, u)
      BY <2>2 DEF TurnInv, WorkInv, Calls
    <2>4. files' = [files EXCEPT ![g].status = SettledStatus(result[u], files[g].attempts)]
      <3>1. slot' # NoSession
        BY DEF NoSession, Active
      <3> QED
        BY <1>4, <2>1, <3>1 DEF Settle, Clear
    <2>5. CASE g # f
      BY <1>1, <1>a, <2>3, <2>4, <2>5 DEF Calls
    <2>6. CASE g = f
      <3>1. up[u] = "settling" /\ up'[u] = "report" /\ result'[u] = result[u]
        BY <1>4, <1>a DEF Settle
      <3>2. up[u] \notin Behind /\ up'[u] \in Behind
        BY <3>1 DEF Behind
      <3>3. task[p][f].at \notin {"queued", "ready"} /\ (task[p][f].at = "calling" => c = u)
        BY <1>f, <2>3, <2>6, <3>2 DEF TurnInv, TurnsInv
      <3>4. /\ files'[f].attempts = files[f].attempts
            /\ files'[f].status = SettledStatus(result[u], files[f].attempts)
        BY <1>a, <2>4, <2>6
      <3>5. task[p][f].at = "calling" => files[f].attempts <= task[p][f].attempts
        BY <1>c, <1>f DEF Room
      <3>6. task[p][f].at = "calling" /\ result[u] = "mismatch"
            /\ task[p][f].attempts < SenderAttempts => files'[f].status = "pending"
        <4>1. task[p][f].at = "calling" /\ task[p][f].attempts < SenderAttempts
              => files[f].attempts < MaxUploadAttempts
          BY <1>b, <3>5
        <4> QED
          BY <3>4, <4>1 DEF SettledStatus, WorthRetry
      <3>7. \A v \in Up : Calls(p, f, v) => up'[v] \notin Ahead
        <4> SUFFICES ASSUME NEW v \in Up, Calls(p, f, v) PROVE up'[v] \notin Ahead
          OBVIOUS
        <4>1. CASE v = u
          BY <3>1, <4>1 DEF Ahead
        <4>2. CASE v # u
          <5>1. up[v] \in Behind
            BY <2>3, <2>6, <3>2, <4>2 DEF TurnInv, TurnsInv
          <5> QED
            BY <1>d, <4>2, <5>1 DEF Ahead, Behind
        <4> QED
          BY <4>1, <4>2
      <3>8. up'[u] \notin Ahead
        BY <3>1 DEF Ahead
      <3> QED
        BY <1>e, <1>g, <3>1, <3>3, <3>4, <3>5, <3>6, <3>7, <3>8 DEF Room
    <2> QED
      BY <2>5, <2>6
  <1>5. CASE SettleGone(u)
    <2>1. job[u] # NoJob /\ job[u] \in [session: Prep, file: File]
      BY <1>5, <1>a DEF SettleGone, HasJob
    <2>2. job[u].session # p
      BY <1>5, <2>1 DEF SettleGone, StillMine
    <2>3. ~Calls(p, f, u)
      BY <2>1, <2>2 DEF TurnInv, WorkInv, Calls
    <2> QED
      BY <1>1, <1>5, <2>3 DEF SettleGone
  <1>6. CASE EnterLock(u) \/ EnterRefused(u) \/ EnterWrongFile(u)
    <2>1. result'[u] = result[u] /\ result[u] # "mismatch"
      BY <1>6, <1>a DEF EnterLock, EnterRefused, EnterWrongFile, TurnInv, StoreInv, CallInv,
                        ResultLast
    <2>2. up[u] \in Ahead /\ files' = files
      BY <1>6 DEF EnterLock, EnterRefused, EnterWrongFile, Ahead
    <2> QED
      BY <1>2, <2>1, <2>2
  <1>7. CASE NoDestination(u) \/ StartReceiving(u) \/ BodyEnds(u) \/ DropUpload(u) \/ SettleLock(u)
    <2>1. up'[u] \notin Ahead \cup Behind /\ files' = files
      BY <1>7, <1>a DEF NoDestination, StartReceiving, BodyEnds, DropUpload, SettleLock, Ahead,
                        Behind
    <2> QED
      BY <1>2, <2>1
  <1>8. CASE Report(u)
    <2>1. up[u] \in Behind /\ up'[u] \notin Ahead /\ files' = files /\ result' = result
      BY <1>8, <1>a DEF Report, Ahead, Behind
    <2> QED
      BY <1>2, <2>1
  <1> QED
    BY <1>3, <1>4, <1>5, <1>6, <1>7, <1>8 DEF UpNext

LEMMA RoomStep ==
  ASSUME SendInv, TurnInv, HasJob, WorkInv', [SendNext]_<<vars, sendVars>>
  PROVE  RoomInv'
  <1>a. TypeOK /\ [Next]_vars
    BY SendInvStep, SplitTypes DEF SendInv
  <1> SUFFICES ASSUME NEW p \in Prep, slot' = Active(p), NEW f \in answer'[p].files
               PROVE  Room(p, f)'
    BY DEF RoomInv, Active
  <1>b. f \in File
    <2>1. TypeOK'
      BY SendInvStep DEF SendInv, SendTypeOK
    <2> QED
      BY <2>1 DEF TypeOK, Answer
  <1>c. slot = Active(p) => f \in answer[p].files /\ Room(p, f)
    <2> SUFFICES ASSUME slot = Active(p) PROVE f \in answer[p].files /\ Room(p, f)
      OBVIOUS
    <2>1. answer[p].kind = "accept"
      BY DEF TurnInv, StoreInv, ConsentInv, Consent, Active
    <2>2. answer'[p] = answer[p]
      BY <1>a, <2>1, AcceptStays DEF TurnInv, StoreInv
    <2> QED
      BY <2>2 DEF TurnInv, RoomInv
  <1>1. CASE UNCHANGED vars /\ \A q \in Prep, g \in File : FileMoves(q, g)
    BY <1>1, <1>b, <1>c, SenderRoom DEF vars, slotVars
  <1>2. CASE UNCHANGED <<task, want>>
    <2>1. CASE UNCHANGED <<slot, files, up, result>>
      BY <1>2, <1>c, <2>1 DEF Room, Calls
    <2>2. ASSUME NEW u \in Up, UpNext(u) PROVE Room(p, f)'
      <3>1. slot = Active(p)
        BY <2>2 DEF UpNext, EnterLock, EnterRefused, EnterWrongFile, Admit, NoDestination,
           StartReceiving, BodyEnds, DropUpload, SettleLock, SettleGone, Settle, Report, Clear,
           NoSession, Active, slotVars
      <3> QED
        BY <1>2, <1>b, <1>c, <2>2, <3>1, ReceiverRoom
    <2>3. ASSUME NEW q \in Prep, Install(q) PROVE Room(p, f)'
      <3>1. q = p /\ prep[p] = "installing" /\ UNCHANGED answer
        BY <2>3 DEF Install, PrepStep, Active
      <3>2. files'[f] = [status |-> "pending", attempts |-> 0]
        BY <1>b, <2>3, <3>1 DEF Install, Accepted
      <3>3. task[p][f].at = "queued"
        BY <1>b, <3>1 DEF TurnInv, BegunInv
      <3>4. \A u \in Up : ~Calls(p, f, u)
        BY <1>b, <3>3 DEF TurnInv, TurnsInv
      <3> QED
        BY <1>2, <3>2, <3>3, <3>4 DEF Room, Calls
    <2>4. ASSUME NEW q \in Prep, PrepNext(q), ~Install(q)
          PROVE  UNCHANGED <<slot, files, up, result>>
      <3>1. slot' # NoSession /\ slot' # Pending(q)
        BY DEF Pending, Active, NoSession
      <3> QED
        BY <2>4, <3>1
        DEF PrepNext, RefuseEarly, ClaimLock, ClaimRefused, Claim, Raise, RaiseFailed,
            CancelSeen, DecisionTimeout, DecideNo, DecideYes, Disconnect, InstallLock,
            InstallNothing, GuardDrop, Clear, slotVars, upVars
    <2>5. ASSUME NEW q \in Prep, AppNext(q) PROVE UNCHANGED <<slot, files, up, result>>
      BY <2>5 DEF AppNext, Accept, AcceptAtOnce, Answered, SendAccept, Decline, Discard,
                  AnswerStep, slotVars, upVars
    <2>6. CtlNext => UNCHANGED <<slot, files, up, result>>
      BY DEF CtlNext, CtlLock, CtlNothing, CtlReport, CancelPending, CancelActive,
             CancelSession, WatchSessions, EndSession, Clear, NoSession, Active, slotVars, upVars
    <2>7. GoesQuiet \/ UNCHANGED vars => UNCHANGED <<slot, files, up, result>>
      BY DEF GoesQuiet, vars, slotVars, upVars
    <2> QED
      BY <1>a, <2>1, <2>2, <2>3, <2>4, <2>5, <2>6, <2>7 DEF Next
  <1> QED
    BY <1>1, <1>2, StepMoves DEF TurnInv, StoreInv, CallInv

\* As long as its session is the active one, an upload of this sender is let in:
\* the sender asks for kept files only, one call at a time, and its attempts
\* never run ahead of what the receiver grants, for any number of files,
\* sessions, lost calls and mismatches.
THEOREM NeverTurnedAwayHolds == SendSpec => []NeverTurnedAway
  <1> DEFINE I == SendInv /\ TurnInv /\ HasJob
  <1>1. SendInit => I
    <2> SUFFICES ASSUME SendInit PROVE TurnInv /\ HasJob
      BY SendInvInit
    <2>1. StoreInv
      BY StoreInit
    <2>2. BegunInv /\ WorkInv /\ HasJob
      BY ConstantsAssumption DEF SendInit, Init, BegunInv, WorkInv, HasJob, Queued
    <2>3. \A p \in Prep, f \in File, u \in Up : ~Calls(p, f, u)
      BY ConstantsAssumption DEF SendInit, Calls, NoJob, Caller
    <2>4. TurnsInv /\ RoomInv
      BY <2>3 DEF SendInit, Init, TurnsInv, RoomInv, NoSession, Active
    <2> QED
      BY <2>1, <2>2, <2>4 DEF TurnInv
  <1>2. I /\ [SendNext]_<<vars, sendVars>> => I'
    <2> SUFFICES ASSUME I, [SendNext]_<<vars, sendVars>> PROVE I'
      OBVIOUS
    <2>1. SendInv' /\ HasJob'
      BY SendInvStep, HasJobStep, SplitTypes DEF SendInv
    <2>2. WorkInv'
      BY WorkStep DEF WorkInv
    <2>3. StoreInv' /\ BegunInv' /\ TurnsInv' /\ RoomInv'
      BY <2>2, StoreStep, BegunStep, TurnsStep, RoomStep DEF TurnInv
    <2> QED
      BY <2>1, <2>2, <2>3 DEF TurnInv
  <1>3. I => NeverTurnedAway
    <2> SUFFICES ASSUME SendInv, TurnInv, NEW u \in Up, up[u] = "entering", Matches(u)
                 PROVE  files[want[u].file].status = "pending"
      BY DEF NeverTurnedAway, Admissible
    <2>1. slot = Active(want[u].session) /\ want[u] \in [session: Prep, file: File]
      <3>1. slot \in {NoSession} \cup {Pending(p) : p \in Prep} \cup {Active(p) : p \in Prep}
            /\ want[u] \in [session: Prep, file: File] \cup {NoJob}
        BY SplitTypes DEF SendInv, TypeOK, CallTypes, Wanted
      <3>2. slot = Active(want[u].session) /\ slot.kind = "active"
        BY DEF Matches, Active
      <3>3. want[u].session \in Prep
        BY <3>1, <3>2 DEF Active, Pending, NoSession
      <3>4. NoJob.session \notin Prep
        BY ConstantsAssumption DEF NoJob, Caller
      <3> QED
        BY <3>1, <3>2, <3>3, <3>4
    <2>2. PICK p \in Prep, f \in File : want[u] = [session |-> p, file |-> f]
      BY <2>1
    <2>3. Calls(p, f, u) /\ slot = Active(p)
      BY <2>1, <2>2 DEF Calls
    <2>4. f \in answer[p].files
      BY <2>3 DEF TurnInv, TurnsInv, BegunInv
    <2>5. Room(p, f)
      BY <2>3, <2>4 DEF TurnInv, RoomInv
    <2> QED
      BY <2>2, <2>3, <2>5 DEF Room, Ahead
  <1> QED
    BY <1>1, <1>2, <1>3, PTL DEF SendSpec

=============================================================================
