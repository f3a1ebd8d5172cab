------------------------- MODULE ReceivePathProofs -------------------------
(***************************************************************************)
(* The application of ReceivePath drives the server of UploadServer: every *)
(* step of the composition is a step of the server or leaves the server    *)
(* alone, so what is proved of the server for any application holds of it  *)
(* behind this one.  Then what the application adds: an answer goes to the *)
(* request it was given for, and progress finds its session in the list.   *)
(***************************************************************************)
EXTENDS ReceivePath, UploadServerProofs

Working == {"admitted", "receiving", "settle", "settling", "report"}

\* An upload at work has a session and a file, a control process that reports
\* has a victim.
JobInv == \A u \in Up : up[u] \in Working => job[u] \in [session: Prep, file: File]
VictimInv == \A c \in Ctl : ctl[c] = "report" => victim[c] \in Prep

LEMMA JobStep == ASSUME TypeOK, JobInv, NEW u \in Up, UpNext(u) PROVE JobInv'
  <1> USE DEF TypeOK, JobInv, UpStep, Working
  <1>1. ASSUME NEW f \in File, Admit(u, f) PROVE JobInv'
    <2>1. slot.id \in Prep
      BY <1>1 DEF Admit, NoSession, Pending, Active
    <2> QED
      BY <1>1, <2>1 DEF Admit
  <1>2. CASE EnterLock(u) \/ EnterRefused(u) \/ EnterWrongFile(u)
    BY <1>2 DEF EnterLock, EnterRefused, EnterWrongFile
  <1>3. CASE NoDestination(u) \/ StartReceiving(u) \/ BodyEnds(u) \/ DropUpload(u)
    BY <1>3 DEF NoDestination, StartReceiving, BodyEnds, DropUpload
  <1>4. CASE SettleLock(u) \/ SettleGone(u) \/ Settle(u) \/ Report(u)
    BY <1>4 DEF SettleLock, SettleGone, Settle, Report
  <1> QED
    BY <1>1, <1>2, <1>3, <1>4 DEF UpNext

LEMMA VictimStep == ASSUME TypeOK, VictimInv, CtlNext PROVE VictimInv'
  <1> USE DEF TypeOK, VictimInv, CtlStep
  <1>1. ASSUME NEW c \in Ctl, EndSession(c), slot.kind # "none" PROVE VictimInv'
    <2>1. slot.id \in Prep
      BY <1>1 DEF NoSession, Pending, Active
    <2> QED
      BY <1>1, <2>1 DEF EndSession
  <1>2. ASSUME NEW c \in Ctl, CtlLock(c) \/ CtlNothing(c) \/ CtlReport(c) PROVE VictimInv'
    BY <1>2 DEF CtlLock, CtlNothing, CtlReport
  <1>3. CASE CancelPending \/ CancelActive \/ CancelSession \/ WatchSessions
    BY <1>1, <1>3 DEF CancelPending, CancelActive, CancelSession, WatchSessions, Stale, Ctl
  <1> QED
    BY <1>2, <1>3 DEF CtlNext

\* Together, for every step of the server.
ServerInv == TypeOK /\ JobInv /\ VictimInv

LEMMA StepServer == ServerInv /\ [Next]_vars => ServerInv'
  <1> SUFFICES ASSUME ServerInv, [Next]_vars PROVE ServerInv'
    OBVIOUS
  <1> USE DEF ServerInv, slotVars, prepVars, upVars, ctlVars
  <1>1. TypeOK'
    BY StepType
  <1>2. JobInv'
    <2>1. CASE \E u \in Up : UpNext(u)
      BY <2>1, JobStep
    <2>2. CASE UNCHANGED upVars
      BY <2>2 DEF JobInv
    <2>3. ASSUME NEW p \in Prep, PrepNext(p) \/ AppNext(p) PROVE UNCHANGED upVars
      BY <2>3 DEF PrepNext, RefuseEarly, ClaimLock, ClaimRefused, Claim, Raise, RaiseFailed,
                  CancelSeen, DecisionTimeout, DecideNo, DecideYes, Disconnect,
                  InstallLock, InstallNothing, Install, GuardDrop,
                  AppNext, Accept, AcceptAtOnce, Answered, SendAccept, Decline, Discard, AnswerStep
    <2>4. CtlNext \/ GoesQuiet \/ UNCHANGED vars => UNCHANGED upVars
      BY DEF CtlNext, CtlLock, CtlNothing, CtlReport, CancelPending, CancelActive,
             CancelSession, WatchSessions, GoesQuiet, vars
    <2> QED
      BY <2>1, <2>2, <2>3, <2>4 DEF Next
  <1>3. VictimInv'
    <2>1. CASE CtlNext
      BY <2>1, VictimStep
    <2>2. CASE UNCHANGED ctlVars
      BY <2>2 DEF VictimInv
    <2>3. ASSUME NEW p \in Prep, PrepNext(p) \/ AppNext(p) PROVE UNCHANGED ctlVars
      BY <2>3 DEF PrepNext, RefuseEarly, ClaimLock, ClaimRefused, Claim, Raise, RaiseFailed,
                  CancelSeen, DecisionTimeout, DecideNo, DecideYes, Disconnect,
                  InstallLock, InstallNothing, Install, GuardDrop,
                  AppNext, Accept, AcceptAtOnce, Answered, SendAccept, Decline, Discard, AnswerStep
    <2>4. ASSUME NEW u \in Up, UpNext(u) PROVE UNCHANGED ctlVars
      BY <2>4 DEF UpNext, EnterLock, EnterRefused, EnterWrongFile, Admit, NoDestination,
                  StartReceiving, BodyEnds, DropUpload, SettleLock, SettleGone, Settle, Report
    <2>5. GoesQuiet \/ UNCHANGED vars => UNCHANGED ctlVars
      BY DEF GoesQuiet, vars
    <2> QED
      BY <2>1, <2>2, <2>3, <2>4, <2>5 DEF Next
  <1> QED
    BY <1>1, <1>2, <1>3

-----------------------------------------------------------------------------
(* The types of the application, and the server's steps within its steps.    *)

AppInv == AppTypeOK /\ ServerInv

\* Every step of the composition is a step of the server, or none.
LEMMA ServerStep == AppInv /\ [AppSpecNext]_<<vars, appVars>> => [Next]_vars
  <1> SUFFICES ASSUME AppInv, [AppSpecNext]_<<vars, appVars>> PROVE [Next]_vars
    OBVIOUS
  <1>1. incoming \in Prep \cup {None}
    BY DEF AppInv, AppTypeOK
  <1>2. ASSUME NEW p \in Prep, PrepRuns(p) PROVE Next
    BY <1>2 DEF PrepRuns, Next
  <1>3. ASSUME NEW u \in Up, UpRuns(u) PROVE Next
    BY <1>3 DEF UpRuns, Next
  <1>4. CASE CtlRuns \/ CtlEnds
    BY <1>4 DEF CtlRuns, CtlEnds, Background, Next, CtlNext
  <1>5. ASSUME NEW p \in Prep, UserNext(p) PROVE [Next]_vars
    <2>1. ASSUME NEW S \in SUBSET File, RespondYes(p, S) PROVE Next
      BY <1>1, <2>1 DEF RespondYes, Respond, Next, AppNext
    <2>2. CASE RespondStale(p) \/ RespondNo(p) \/ RespondNothing(p)
      BY <1>1, <2>2 DEF RespondStale, RespondNo, RespondNothing, Respond, Next, AppNext
    <2>3. CASE DismissTransfer(p) \/ UserCancels(p)
      BY <2>3 DEF DismissTransfer, UserCancels
    <2> QED
      BY <1>5, <2>1, <2>2, <2>3 DEF UserNext
  <1>6. ASSUME NEW p \in Prep, SendDecision(p) PROVE Next
    BY <1>6 DEF SendDecision, Next, AppNext
  <1>7. CASE CancelTakesLock \/ CancelFreesSlot \/ CancelFindsNothing \/ CancelReports
    BY <1>7 DEF CancelTakesLock, CancelFreesSlot, CancelFindsNothing, CancelReports,
                Next, CtlNext, Ctl
  <1>8. CASE PumpPrompt
    BY <1>1, <1>8 DEF PumpPrompt, Replaces, Next, AppNext
  <1>9. CASE PumpAutoAccept
    <2>1. Head(channel).id \in Prep
      BY <1>9 DEF PumpAutoAccept, Pump, AppInv, AppTypeOK, Event
    <2> QED
      BY <1>9, <2>1 DEF PumpAutoAccept, Next, AppNext
  <1>10. CASE PumpEnded \/ \E kind \in FileEvent : PumpFile(kind)
    BY <1>10 DEF PumpEnded, PumpFile
  <1> QED
    BY <1>2, <1>3, <1>4, <1>5, <1>6, <1>7, <1>8, <1>9, <1>10 DEF AppSpecNext, AppRuns

\* finish_session keeps the list and the history well formed.
LEMMA FinishType ==
  ASSUME AppTypeOK, NEW p \in Prep, NEW status \in Ends, Finish(p, status)
  PROVE  /\ rows' \in [Prep -> [status: RowStatus, files: [File -> FileRow]]]
         /\ history' \in [Prep -> SUBSET (Ends \cup {"declined"})]
  <1> USE DEF AppTypeOK, Finish
  <1>1. rows' \in [Prep -> [status: RowStatus, files: [File -> FileRow]]]
    <2>1. status \in RowStatus
      BY DEF RowStatus
    <2>2. rows[p] \in [status: RowStatus, files: [File -> FileRow]]
      OBVIOUS
    <2>3. [rows[p] EXCEPT !.status = status] \in [status: RowStatus, files: [File -> FileRow]]
      BY <2>1, <2>2
    <2> QED
      BY <2>3
  <1>2. history' \in [Prep -> SUBSET (Ends \cup {"declined"})]
    OBVIOUS
  <1> QED
    BY <1>1, <1>2

\* The pump takes one event off the channel.
LEMMA PumpType ==
  ASSUME AppTypeOK, NEW kind, Pump(kind)
  PROVE  /\ channel' \in Seq(Event)
         /\ Head(channel) \in Event
         /\ Head(channel).kind = kind
  BY DEF AppTypeOK, Pump

\* The events of a call are events.
LEMMA SentType ==
  ASSUME AppTypeOK, NEW events \in Seq(Event), Sends(events)
  PROVE  channel' \in Seq(Event)
  BY DEF AppTypeOK, Sends

LEMMA UpEventsType ==
  ASSUME ServerInv, NEW u \in Up
  PROVE  UpEvents(u) \in Seq(Event)
  <1>1. ASSUME up[u] \in Working, NEW kind \in FileEvent
        PROVE  FileEventOf(u, kind) \in Seq(Event)
    BY <1>1 DEF FileEventOf, Event, ServerInv, JobInv
  <1>2. ASSUME up[u] \in Working
        PROVE  <<EndEvent(job[u].session, "completed")>> \in Seq(Event)
    BY <1>2 DEF EndEvent, Event, Outcome, ServerInv, JobInv
  <1> QED
    BY <1>1, <1>2 DEF UpEvents, Working, FileEvent

\* A step of the interface keeps the types.
LEMMA UserType == ASSUME AppInv, NEW p \in Prep, UserNext(p) PROVE AppTypeOK'
  <1> USE DEF AppInv, AppTypeOK
  <1>1. TypeOK'
    BY ServerStep, StepType DEF AppSpecNext, ServerInv
  <1>2. CASE RespondStale(p) \/ RespondNothing(p)
    BY <1>1, <1>2 DEF RespondStale, RespondNothing, Respond
  <1>3. CASE RespondNo(p)
    BY <1>1, <1>3 DEF RespondNo, Respond
  <1>4. ASSUME NEW S \in SUBSET File, RespondYes(p, S) PROVE AppTypeOK'
    <2>1. Row(S) \in [status: RowStatus, files: [File -> FileRow]]
      BY DEF Row, RowStatus, FileRow
    <2> QED
      BY <1>1, <1>4, <2>1 DEF RespondYes, Respond, ListedFirst
  <1>5. CASE DismissTransfer(p)
    <2>1. [rows[p] EXCEPT !.status = "dismissed"]
            \in [status: RowStatus, files: [File -> FileRow]]
      BY DEF RowStatus
    <2> QED
      BY <1>1, <1>5, <2>1 DEF DismissTransfer
  <1>6. CASE UserCancels(p)
    BY <1>1, <1>6 DEF UserCancels
  <1> QED
    BY <1>2, <1>3, <1>4, <1>5, <1>6 DEF UserNext

\* A step of the pump keeps the types.
LEMMA PumpsType ==
  ASSUME AppInv,
         PumpPrompt \/ PumpAutoAccept \/ PumpEnded \/ (\E kind \in FileEvent : PumpFile(kind))
  PROVE  AppTypeOK'
  <1>1. TypeOK'
    BY ServerStep, StepType DEF AppSpecNext, AppRuns, ServerInv, AppInv
  <1>2. CASE PumpPrompt
    <2>1. channel' \in Seq(Event) /\ Head(channel).id \in Prep
      BY <1>2, PumpType DEF PumpPrompt, AppInv, Event
    <2> QED
      BY <1>1, <1>2, <2>1 DEF PumpPrompt, AppInv, AppTypeOK
  <1>3. CASE PumpAutoAccept
    <2>1. channel' \in Seq(Event) /\ Head(channel).id \in Prep
      BY <1>3, PumpType DEF PumpAutoAccept, AppInv, Event
    <2>2. Row(File) \in [status: RowStatus, files: [File -> FileRow]]
      BY DEF Row, RowStatus, FileRow
    <2> QED
      BY <1>1, <1>3, <2>1, <2>2 DEF PumpAutoAccept, ListedFirst, AppInv, AppTypeOK
  <1>4. CASE PumpEnded
    <2>1. channel' \in Seq(Event) /\ Head(channel) \in Event /\ Head(channel).kind = "ended"
      BY <1>4, PumpType DEF PumpEnded, AppInv
    <2>2. Head(channel).id \in Prep /\ Head(channel).outcome \in Outcome
      BY <2>1 DEF Event, FileEvent
    <2>3. StatusOf(Head(channel).outcome) \in Ends
      BY <2>2 DEF Outcome, StatusOf, Ends
    <2> QED
      BY <1>1, <1>4, <2>1, <2>2, <2>3, FinishType DEF PumpEnded, AppInv, AppTypeOK
  <1>5. ASSUME NEW kind \in FileEvent, PumpFile(kind) PROVE AppTypeOK'
    <2> DEFINE e == Head(channel)
               marked == [rows[e.id] EXCEPT !.files[e.file] = FileRowOf(kind)]
    <2>1. channel' \in Seq(Event) /\ e \in Event /\ e.kind = kind
      BY <1>5, PumpType DEF PumpFile, AppInv
    <2>2. e.id \in Prep /\ e.file \in File
      BY <2>1 DEF Event, FileEvent
    <2>3. rows[e.id] \in [status: RowStatus, files: [File -> FileRow]]
      BY <2>2 DEF AppInv, AppTypeOK
    <2>4. marked \in [status: RowStatus, files: [File -> FileRow]]
      BY <2>2, <2>3 DEF FileRowOf, FileRow
    <2>5. [marked EXCEPT !.status = "active"] \in [status: RowStatus, files: [File -> FileRow]]
      BY <2>4 DEF RowStatus
    <2>6. rows' \in [Prep -> [status: RowStatus, files: [File -> FileRow]]]
      BY <1>5, <2>2, <2>4, <2>5 DEF PumpFile, AppInv, AppTypeOK
    <2> QED
      BY <1>1, <1>5, <2>1, <2>6 DEF PumpFile, AppInv, AppTypeOK
  <1> QED
    BY <1>2, <1>3, <1>4, <1>5

\* A step of the decision or of the user's cancel keeps the types.
LEMMA CancelType ==
  ASSUME AppInv,
         \/ CancelTakesLock \/ CancelFreesSlot \/ CancelFindsNothing \/ CancelReports
         \/ \E p \in Prep : SendDecision(p)
  PROVE  AppTypeOK'
  <1>1. TypeOK'
    BY ServerStep, StepType DEF AppSpecNext, AppRuns, ServerInv, AppInv
  <1>2. CASE CancelTakesLock \/ CancelFreesSlot
    BY <1>1, <1>2 DEF CancelTakesLock, CancelFreesSlot, appVars, AppInv, AppTypeOK
  <1>3. ASSUME NEW events \in Seq(Event), Cancelled(events) PROVE AppTypeOK'
    <2>1. cancelling \in Prep
      BY <1>3 DEF Cancelled, AppInv, AppTypeOK
    <2>2. channel' \in Seq(Event)
      BY <1>3, SentType DEF Cancelled, AppInv
    <2> QED
      BY <1>1, <1>3, <2>1, <2>2, FinishType DEF Cancelled, Ends, AppInv, AppTypeOK
  <1>4. CASE CancelFindsNothing
    <2>1. <<>> \in Seq(Event)
      OBVIOUS
    <2> QED
      BY <1>3, <1>4, <2>1 DEF CancelFindsNothing
  <1>5. CASE CancelReports
    <2>1. victim["cancel_session"] \in Prep
      BY <1>5 DEF CancelReports, CtlReport, CtlStep, Ctl, AppInv, ServerInv, VictimInv
    <2>2. <<EndEvent(victim["cancel_session"], "cancelled")>> \in Seq(Event)
      BY <2>1 DEF EndEvent, Event, Outcome
    <2> QED
      BY <1>3, <1>5, <2>2 DEF CancelReports
  <1>6. ASSUME NEW p \in Prep, SendDecision(p) PROVE AppTypeOK'
    BY <1>1, <1>6, FinishType DEF SendDecision, Ends, AppInv, AppTypeOK
  <1> QED
    BY <1>2, <1>4, <1>5, <1>6

\* A step of the server keeps the types.
LEMMA RunsType ==
  ASSUME AppInv,
         \/ (\E p \in Prep : PrepRuns(p)) \/ (\E u \in Up : UpRuns(u))
         \/ CtlRuns \/ CtlEnds
  PROVE  AppTypeOK'
  <1>1. TypeOK'
    BY ServerStep, StepType DEF AppSpecNext, ServerInv, AppInv
  <1>2. ASSUME NEW events \in Seq(Event), Sends(events), UnchangedApp PROVE AppTypeOK'
    BY <1>1, <1>2, SentType DEF UnchangedApp, AppInv, AppTypeOK
  <1>3. ASSUME NEW p \in Prep, PrepRuns(p) PROVE AppTypeOK'
    <2> DEFINE raised == [kind |-> "prepare", id |-> p]
    <2>1. raised \in Event
      BY DEF Event
    <2>2. <<>> \in Seq(Event) /\ <<raised>> \in Seq(Event)
      BY <2>1
    <2>3. PrepEvents(p) \in Seq(Event)
      BY <2>2 DEF PrepEvents
    <2> QED
      BY <1>2, <1>3, <2>3 DEF PrepRuns
  <1>4. ASSUME NEW u \in Up, UpRuns(u) PROVE AppTypeOK'
    BY <1>2, <1>4, UpEventsType DEF UpRuns, AppInv
  <1>5. CASE CtlRuns
    BY <1>1, <1>5 DEF CtlRuns, appVars, AppInv, AppTypeOK
  <1>6. ASSUME NEW c \in Background, CtlReport(c), UnchangedApp,
               Sends(<<EndEvent(victim[c], OutcomeOf(c))>>)
        PROVE  AppTypeOK'
    <2>1. victim[c] \in Prep
      BY <1>6 DEF Background, CtlReport, CtlStep, AppInv, ServerInv, VictimInv
    <2>2. <<EndEvent(victim[c], OutcomeOf(c))>> \in Seq(Event)
      BY <2>1 DEF EndEvent, Event, Outcome, OutcomeOf
    <2> QED
      BY <1>2, <1>6, <2>2
  <1> QED
    BY <1>3, <1>4, <1>5, <1>6 DEF CtlEnds

\* The invariant holds from the start and at every step.
LEMMA AppInit0 == AppInit => AppInv
  <1> SUFFICES ASSUME AppInit PROVE AppInv
    OBVIOUS
  <1>1. TypeOK
    BY InitType DEF AppInit
  <1>2. JobInv /\ VictimInv
    BY DEF AppInit, Init, JobInv, VictimInv, Working
  <1>3. rows \in [Prep -> [status: RowStatus, files: [File -> FileRow]]]
    BY DEF AppInit, NoRows, RowStatus, FileRow
  <1> QED
    BY <1>1, <1>2, <1>3 DEF AppInit, AppInv, AppTypeOK, ServerInv

LEMMA AppStep == AppInv /\ [AppSpecNext]_<<vars, appVars>> => AppInv'
  <1> SUFFICES ASSUME AppInv, [AppSpecNext]_<<vars, appVars>> PROVE AppInv'
    OBVIOUS
  <1>1. ServerInv'
    BY ServerStep, StepServer DEF AppInv
  <1>2. CASE AppSpecNext
    BY <1>1, <1>2, UserType, PumpsType, CancelType, RunsType DEF AppSpecNext, AppRuns, AppInv
  <1>3. CASE UNCHANGED <<vars, appVars>>
    BY <1>1, <1>3 DEF appVars, AppInv, AppTypeOK, ServerInv
  <1> QED
    BY <1>2, <1>3

\* The types of the server and of the application, whatever calls and clicks.
THEOREM AppTypeCorrect == AppSpec => []AppTypeOK
  <1>1. AppInv => AppTypeOK
    BY DEF AppInv
  <1> QED
    BY <1>1, AppInit0, AppStep, PTL DEF AppSpec

\* The application of state.rs never takes the server of server.rs where the
\* server on its own could not go: every behaviour is one of UploadServer.
THEOREM ServerImplemented == AppSpec => Spec
  <1>1. AppInit => Init
    BY DEF AppInit
  <1> QED
    BY <1>1, AppInit0, AppStep, ServerStep, PTL DEF AppSpec, Spec

\* So is what the server promises any application: nothing is let in that the
\* user did not keep.
THEOREM AppConsentHolds == AppSpec => []Consent
  BY ServerImplemented, ConsentHolds, PTL

\* With the application of state.rs attached the server still keeps what Sessions
\* promises: a session begins once, as the user agreed, and ends once.
THEOREM AppSessionsKept == AppSpec => SessionsKept
  BY ServerImplemented, SessionsKeptHolds, PTL

-----------------------------------------------------------------------------
(* An answer goes to the request it was given for.                           *)

\* Requests the application has said yes to.
Yes == {"accepting", "accept"}
Agreed(p) == answer[p].kind \in Yes

\* The server never says yes, and never takes it back: a request is raised
\* before it is answered.
LEMMA ServerAgrees ==
  ASSUME TypeOK, ConsentInv, NEW p \in Prep, PrepNext(p), NEW q \in Prep
  PROVE  Agreed(q)' <=> Agreed(q)
  <1>1. CASE Raise(p)
    <2>1. ~Agreed(p)
      BY <1>1 DEF Raise, PrepStep, ConsentInv, Unasked, Agreed, Yes
    <2>2. answer'[p].kind = "open" /\ \A r \in Prep : r # p => answer'[r] = answer[r]
      BY <1>1 DEF Raise, TypeOK, Answer
    <2> QED
      BY <2>1, <2>2 DEF Agreed, Yes
  <1>2. CASE UNCHANGED answer
    BY <1>2 DEF Agreed
  <1> QED
    BY <1>1, <1>2
    DEF PrepNext, RefuseEarly, ClaimLock, ClaimRefused, Claim, RaiseFailed, CancelSeen,
        DecisionTimeout, DecideNo, DecideYes, Disconnect, InstallLock, InstallNothing,
        Install, GuardDrop

LEMMA OthersAgree ==
  ASSUME (\E u \in Up : UpNext(u)) \/ CtlNext \/ GoesQuiet \/ UNCHANGED vars
  PROVE  UNCHANGED answer
  BY DEF UpNext, EnterLock, EnterRefused, EnterWrongFile, Admit, NoDestination,
         StartReceiving, BodyEnds, DropUpload, SettleLock, SettleGone, Settle, Report,
         CtlNext, CtlLock, CtlNothing, CtlReport, CancelPending, CancelActive, CancelSession,
         WatchSessions, GoesQuiet, prepVars, vars

\* A session stays in the list, or has been dismissed from it.
Known(p) == rows[p].status # "unlisted"

LEMMA FinishKnown ==
  ASSUME AppInv, NEW p \in Prep, NEW status \in Ends, Finish(p, status), NEW q \in Prep, Known(q)
  PROVE  Known(q)'
  BY DEF AppInv, AppTypeOK, Finish, Known, Ends

LEMMA StaysKnown ==
  ASSUME AppInv, AppSpecNext, NEW q \in Prep, Known(q)
  PROVE  Known(q)'
  <1> USE DEF AppInv, AppTypeOK, Known
  <1>1. ASSUME NEW p \in Prep, UserNext(p) PROVE Known(q)'
    <2>1. ASSUME NEW S \in SUBSET File, RespondYes(p, S) PROVE Known(q)'
      BY <2>1 DEF RespondYes, ListedFirst, Row
    <2>2. CASE RespondStale(p) \/ RespondNo(p) \/ RespondNothing(p) \/ UserCancels(p)
      BY <2>2 DEF RespondStale, RespondNo, RespondNothing, UserCancels
    <2>3. CASE DismissTransfer(p)
      BY <2>3 DEF DismissTransfer
    <2> QED
      BY <1>1, <2>1, <2>2, <2>3 DEF UserNext
  <1>2. CASE PumpEnded
    <2>1. Head(channel) \in Event /\ Head(channel).kind = "ended"
      BY <1>2, PumpType DEF PumpEnded
    <2>2. Head(channel).id \in Prep /\ Head(channel).outcome \in Outcome
      BY <2>1 DEF Event, FileEvent
    <2>3. StatusOf(Head(channel).outcome) \in Ends
      BY <2>2 DEF Outcome, StatusOf, Ends
    <2> QED
      BY <1>2, <2>2, <2>3, FinishKnown DEF PumpEnded
  <1>3. ASSUME NEW kind \in FileEvent, PumpFile(kind) PROVE Known(q)'
    <2>1. Head(channel) \in Event /\ Head(channel).kind = kind
      BY <1>3, PumpType DEF PumpFile
    <2>2. Head(channel).id \in Prep /\ Head(channel).file \in File
      BY <2>1 DEF Event, FileEvent
    <2> QED
      BY <1>3, <2>2 DEF PumpFile
  <1>4. CASE PumpPrompt \/ PumpAutoAccept
    BY <1>4 DEF PumpPrompt, PumpAutoAccept, ListedFirst, Row
  <1>5. ASSUME NEW events, Cancelled(events) PROVE Known(q)'
    BY <1>5, FinishKnown DEF Cancelled, Ends
  <1>6. ASSUME NEW p \in Prep, SendDecision(p) PROVE Known(q)'
    BY <1>6, FinishKnown DEF SendDecision, Ends
  <1>7. CASE \/ CancelTakesLock \/ CancelFreesSlot \/ CtlRuns \/ CtlEnds
             \/ (\E p \in Prep : PrepRuns(p)) \/ (\E u \in Up : UpRuns(u))
    BY <1>7 DEF CancelTakesLock, CancelFreesSlot, CtlRuns, CtlEnds, PrepRuns, UpRuns,
                UnchangedApp, appVars
  <1> QED
    BY <1>1, <1>2, <1>3, <1>4, <1>5, <1>6, <1>7
    DEF AppSpecNext, AppRuns, CancelFindsNothing, CancelReports

\* A request the application said yes to has the user's yes, and is listed.
AgreeInv == \A p \in Prep : Agreed(p) => p \in consented /\ Known(p)

LEMMA AgreeStep ==
  ASSUME AppInv, ConsentInv, AgreeInv, AppSpecNext
  PROVE  AgreeInv'
  <1> USE DEF AppInv, AppTypeOK
  <1>1. consented \subseteq consented'
    BY DEF AppSpecNext, PrepRuns, UpRuns, CtlRuns, CtlEnds, UnchangedApp, appVars, UserNext,
           RespondStale, RespondNo, RespondNothing, RespondYes, DismissTransfer, UserCancels,
           AppRuns, SendDecision, CancelTakesLock, CancelFreesSlot, CancelFindsNothing,
           CancelReports, Cancelled, PumpPrompt, PumpAutoAccept, PumpFile, PumpEnded
  <1>2. SUFFICES ASSUME NEW q \in Prep, Agreed(q)', ~Agreed(q)
                 PROVE  q \in consented' /\ Known(q)'
    BY <1>1, StaysKnown DEF AgreeInv
  <1>3. ASSUME NEW p \in Prep, NEW S, NEW to \in Yes, Answered(p, S, to), p \in consented',
               ListedFirst(p, S)
        PROVE  q \in consented' /\ Known(q)'
    <2>1. q = p
      BY <1>2, <1>3 DEF Answered, Agreed, TypeOK
    <2> QED
      BY <1>3, <2>1 DEF ListedFirst, Row, Known
  <1>4. ASSUME NEW r \in Prep, NEW to \in {"decline", "dropped"}, AnswerStep(r, "open", to)
        PROVE  FALSE
    BY <1>2, <1>4 DEF AnswerStep, Agreed, Yes, TypeOK, Answer
  <1>5. ASSUME NEW p \in Prep, UserNext(p) PROVE q \in consented' /\ Known(q)'
    <2>1. ASSUME NEW S \in SUBSET File, RespondYes(p, S) PROVE q \in consented' /\ Known(q)'
      <3>1. Answered(p, S, "accepting") /\ p \in consented' /\ ListedFirst(p, S)
        BY <2>1 DEF RespondYes, IsPending, Accept
      <3> QED
        BY <1>3, <3>1 DEF Yes
    <2>2. CASE RespondStale(p) \/ RespondNo(p) \/ RespondNothing(p)
      BY <1>4, <2>2 DEF RespondStale, RespondNo, RespondNothing, Respond, Discard, Decline
    <2>3. CASE DismissTransfer(p) \/ UserCancels(p)
      BY <1>2, <2>3 DEF DismissTransfer, UserCancels, vars, prepVars, Agreed
    <2> QED
      BY <1>5, <2>1, <2>2, <2>3 DEF UserNext
  <1>6. CASE PumpAutoAccept
    <2>1. Head(channel).id \in Prep
      BY <1>6, PumpType DEF PumpAutoAccept, Event
    <2>2. /\ Answered(Head(channel).id, File, "accept")
          /\ Head(channel).id \in consented'
          /\ ListedFirst(Head(channel).id, File)
      BY <1>6 DEF PumpAutoAccept, AcceptAtOnce
    <2> QED
      BY <1>3, <2>1, <2>2 DEF Yes
  <1>7. CASE PumpPrompt
    <2>1. CASE Replaces
      BY <1>4, <1>7, <2>1 DEF PumpPrompt, Replaces, Discard
    <2>2. CASE ~Replaces
      BY <1>2, <1>7, <2>2 DEF PumpPrompt, Agreed, vars, prepVars
    <2> QED
      BY <2>1, <2>2
  <1>8. ASSUME NEW p \in Prep, SendDecision(p) PROVE Agreed(q)
    BY <1>2, <1>8 DEF SendDecision, SendAccept, AnswerStep, Agreed, Yes, TypeOK, Answer
  <1>9. ASSUME NEW p \in Prep, PrepRuns(p) PROVE Agreed(q)
    BY <1>2, <1>9, ServerAgrees DEF PrepRuns, ServerInv
  <1>10. CASE \/ (\E u \in Up : UpRuns(u)) \/ CtlRuns \/ CtlEnds
             \/ CancelTakesLock \/ CancelFreesSlot \/ CancelFindsNothing \/ CancelReports
             \/ PumpEnded \/ (\E kind \in FileEvent : PumpFile(kind))
    <2>1. (\E u \in Up : UpNext(u)) \/ CtlNext \/ GoesQuiet \/ UNCHANGED vars
      BY <1>10 DEF UpRuns, CtlRuns, CtlEnds, Background, CancelTakesLock, CancelFreesSlot,
                  CancelFindsNothing, CancelReports, PumpEnded, PumpFile, CtlNext, Ctl
    <2> QED
      BY <1>2, <2>1, OthersAgree DEF Agreed
  <1> QED
    BY <1>2, <1>5, <1>6, <1>7, <1>8, <1>9, <1>10 DEF AppSpecNext, AppRuns

\* Consent holds at every step, whatever the application does.
LEMMA StepConsent == TypeOK /\ ConsentInv /\ [Next]_vars => ConsentInv'
  BY PrepConsent, AppConsent, UpConsent, CtlConsent DEF Next

LEMMA InitAgree == AppInit => ConsentInv /\ AgreeInv
  BY DEF AppInit, Init, ConsentInv, Consent, Granted, Unasked, NoSession, Unanswered,
         AgreeInv, Agreed, Yes

AgreedInv == AppInv /\ ConsentInv /\ AgreeInv

LEMMA StepAgree == AgreedInv /\ [AppSpecNext]_<<vars, appVars>> => AgreedInv'
  <1> SUFFICES ASSUME AgreedInv, [AppSpecNext]_<<vars, appVars>> PROVE AgreedInv'
    OBVIOUS
  <1>1. AppInv'
    BY AppStep DEF AgreedInv
  <1>2. ConsentInv'
    BY ServerStep, StepConsent DEF AgreedInv, AppInv, ServerInv
  <1>3. AgreeInv'
    <2>1. CASE AppSpecNext
      BY <2>1, AgreeStep DEF AgreedInv
    <2>2. CASE UNCHANGED <<vars, appVars>>
      BY <2>2 DEF AgreedInv, AgreeInv, Agreed, Known, vars, prepVars, appVars
    <2> QED
      BY <2>1, <2>2
  <1> QED
    BY <1>1, <1>2, <1>3 DEF AgreedInv

\* Whatever prompts replace each other under the click, a session is accepted
\* only if the user said yes to that very request (respond_to_upload).
THEOREM YesIsForThisHolds == AppSpec => []YesIsForThis
  <1>1. AppInit => AgreedInv
    BY AppInit0, InitAgree DEF AgreedInv
  <1>2. AgreedInv => YesIsForThis
    BY DEF AgreedInv, AgreeInv, Agreed, Yes, YesIsForThis
  <1> QED
    BY <1>1, <1>2, StepAgree, PTL DEF AppSpec

-----------------------------------------------------------------------------
(* Progress has somewhere to land.                                           *)

\* Events that find their session in the list.
Landing == {e \in Event : e.kind \in FileEvent => rows[e.id].status # "unlisted"}
LandingInv == channel \in Seq(Landing)

\* What is sent about a file is about a session the user accepted.
LEMMA UpEventsLand ==
  ASSUME AgreedInv, NEW u \in Up
  PROVE  UpEvents(u) \in Seq(Landing)
  <1> USE DEF AgreedInv, AppInv, ServerInv
  <1>1. ASSUME up[u] \in Working PROVE rows[job[u].session].status # "unlisted"
    <2>1. job[u] \in [session: Prep, file: File]
      BY <1>1 DEF JobInv
    <2>2. job[u] # NoJob
      BY <2>1, ConstantsAssumption DEF NoJob, Caller
    <2>3. Agreed(job[u].session)
      BY <2>2 DEF ConsentInv, Consent, Agreed, Yes
    <2> QED
      BY <2>1, <2>3 DEF AgreeInv, Known
  <1>2. ASSUME up[u] \in Working, NEW kind \in FileEvent
        PROVE  FileEventOf(u, kind) \in Seq(Landing)
    BY <1>1, <1>2 DEF FileEventOf, Landing, Event, JobInv
  <1>3. ASSUME up[u] \in Working
        PROVE  <<EndEvent(job[u].session, "completed")>> \in Seq(Landing)
    BY <1>3 DEF EndEvent, Landing, Event, FileEvent, Outcome, JobInv
  <1> QED
    BY <1>2, <1>3 DEF UpEvents, Working, FileEvent

LEMMA LandingStep == ASSUME AgreedInv, LandingInv, AppSpecNext PROVE LandingInv'
  <1> USE DEF AgreedInv, AppInv, ServerInv
  <1>1. Landing \subseteq Landing'
    <2> SUFFICES ASSUME NEW e \in Event, e.kind \in FileEvent, rows[e.id].status # "unlisted"
                 PROVE  rows'[e.id].status # "unlisted"
      BY DEF Landing
    <2>1. e.id \in Prep
      BY DEF Event, FileEvent
    <2> QED
      BY <2>1, StaysKnown DEF Known
  <1>2. channel \in Seq(Landing')
    BY <1>1 DEF LandingInv
  <1>3. ASSUME NEW events \in Seq(Landing), Sends(events) PROVE LandingInv'
    <2>1. events \in Seq(Landing')
      BY <1>1
    <2> QED
      BY <1>2, <1>3, <2>1 DEF Sends, LandingInv
  <1>4. ASSUME NEW p \in Prep, PrepRuns(p) PROVE LandingInv'
    <2> DEFINE raised == [kind |-> "prepare", id |-> p]
    <2>1. raised \in Landing
      BY DEF Event, Landing, FileEvent
    <2>2. <<>> \in Seq(Landing) /\ <<raised>> \in Seq(Landing)
      BY <2>1
    <2>3. PrepEvents(p) \in Seq(Landing)
      BY <2>2 DEF PrepEvents
    <2> QED
      BY <1>3, <1>4, <2>3 DEF PrepRuns
  <1>5. ASSUME NEW u \in Up, UpRuns(u) PROVE LandingInv'
    BY <1>3, <1>5, UpEventsLand DEF UpRuns
  <1>6. ASSUME NEW c \in Ctl, victim[c] \in Prep, NEW outcome \in Outcome
        PROVE  <<EndEvent(victim[c], outcome)>> \in Seq(Landing)
    BY <1>6 DEF EndEvent, Landing, Event, FileEvent
  <1>7. CASE CtlEnds
    <2>1. PICK c \in Background : CtlReport(c) /\ Sends(<<EndEvent(victim[c], OutcomeOf(c))>>)
      BY <1>7 DEF CtlEnds
    <2>2. c \in Ctl /\ victim[c] \in Prep /\ OutcomeOf(c) \in Outcome
      BY <2>1 DEF Background, CtlReport, CtlStep, VictimInv, OutcomeOf, Outcome
    <2> QED
      BY <1>3, <1>6, <2>1, <2>2
  <1>8. CASE CancelReports
    <2>1. "cancel_session" \in Ctl /\ victim["cancel_session"] \in Prep
      BY <1>8 DEF CancelReports, CtlReport, CtlStep, Ctl, VictimInv
    <2>2. "cancelled" \in Outcome
      BY DEF Outcome
    <2> QED
      BY <1>3, <1>6, <1>8, <2>1, <2>2 DEF CancelReports, Cancelled
  <1>9. CASE CancelFindsNothing
    <2>1. <<>> \in Seq(Landing) /\ Sends(<<>>)
      BY <1>9 DEF CancelFindsNothing, Cancelled
    <2> QED
      BY <1>3, <2>1
  <1>10. ASSUME NEW kind, Pump(kind) PROVE LandingInv'
    BY <1>2, <1>10 DEF Pump, LandingInv
  <1>11. CASE UNCHANGED channel
    BY <1>2, <1>11 DEF LandingInv
  <1> QED
    BY <1>4, <1>5, <1>7, <1>8, <1>9, <1>10, <1>11
    DEF AppSpecNext, CtlRuns, appVars, UserNext, RespondStale, RespondNo, RespondNothing,
        RespondYes, DismissTransfer, UserCancels, AppRuns, SendDecision, CancelTakesLock,
        CancelFreesSlot, PumpPrompt, PumpAutoAccept, PumpFile, PumpEnded

\* "progress has somewhere to land" (state.rs:1294): no event of a file overtakes
\* the listing of its session, at any speed of the handlers and the pump.
THEOREM ProgressLandsHolds == AppSpec => []ProgressLands
  <1>1. AppInit => AgreedInv
    BY AppInit0, InitAgree DEF AgreedInv
  <1>2. AppInit => LandingInv
    BY DEF AppInit, LandingInv
  <1>3. AgreedInv /\ LandingInv /\ [AppSpecNext]_<<vars, appVars>> => LandingInv'
    <2> SUFFICES ASSUME AgreedInv, LandingInv, UNCHANGED <<vars, appVars>> PROVE LandingInv'
      BY LandingStep
    <2> QED
      BY DEF LandingInv, Landing, appVars
  <1>4. LandingInv => ProgressLands
    BY DEF LandingInv, Landing, ProgressLands
  <1> QED
    BY <1>1, <1>2, <1>3, <1>4, StepAgree, PTL DEF AppSpec

=============================================================================
