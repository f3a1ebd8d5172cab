------------------------- MODULE UploadServerProofs -------------------------
(***************************************************************************)
(* What holds of UploadServer for every number of requests, uploads, files *)
(* and attempts.  Each invariant is inductive on top of TypeOK; the lemmas *)
(* have one step per action of the server.                                 *)
(***************************************************************************)
EXTENDS UploadServer, TLAPS

\* The slot and what a control process carries, step by step, are well formed.
LEMMA InitType == Init => TypeOK
  <1> SUFFICES ASSUME Init PROVE TypeOK
    OBVIOUS
  <1> USE DEF Init
  <1>1. files \in [File -> [status: Status, attempts: Nat]]
    BY DEF NoFiles, Status
  <1>2. answer \in [Prep -> Answer]
    BY DEF Unanswered, Answer
  <1>3. reported \in [Prep -> Seq(Outcome)]
    OBVIOUS
  <1>4. lock \in Caller \cup {None} /\ slot = NoSession /\ quiet \in BOOLEAN
    OBVIOUS
  <1> QED
    BY <1>1, <1>2, <1>3, <1>4 DEF TypeOK

\* What a step leaves alone keeps its type.
LEMMA StutterType == TypeOK /\ UNCHANGED vars => TypeOK'
  BY DEF TypeOK, vars, slotVars, prepVars, upVars, ctlVars, NoSession, Pending, Active

\* A step of prepare_upload keeps the types.
LEMMA PrepType == ASSUME TypeOK, NEW p \in Prep, PrepNext(p) PROVE TypeOK'
  <1> USE DEF TypeOK, PrepStep, slotVars, upVars, ctlVars, Take, Release, Caller
  <1>1. CASE RefuseEarly(p) BY <1>1 DEF RefuseEarly
  <1>2. CASE ClaimLock(p) BY <1>2 DEF ClaimLock
  <1>3. CASE ClaimRefused(p) BY <1>3 DEF ClaimRefused
  <1>4. CASE Claim(p) BY <1>4 DEF Claim
  <1>5. CASE Raise(p) BY <1>5 DEF Raise, Answer
  <1>6. CASE RaiseFailed(p) BY <1>6 DEF RaiseFailed
  <1>7. CASE CancelSeen(p) BY <1>7 DEF CancelSeen
  <1>8. CASE DecisionTimeout(p) BY <1>8 DEF DecisionTimeout
  <1>9. CASE DecideNo(p) BY <1>9 DEF DecideNo
  <1>10. CASE DecideYes(p) BY <1>10 DEF DecideYes
  <1>11. CASE Disconnect(p) BY <1>11 DEF Disconnect
  <1>12. CASE InstallLock(p) BY <1>12 DEF InstallLock
  <1>13. CASE InstallNothing(p) BY <1>13 DEF InstallNothing, Clear, NoFiles, Status
  <1>14. CASE Install(p) BY <1>14 DEF Install, Accepted, Status
  <1>15. CASE GuardDrop(p) BY <1>15 DEF GuardDrop
  <1> QED
    BY <1>1, <1>2, <1>3, <1>4, <1>5, <1>6, <1>7, <1>8, <1>9, <1>10, <1>11, <1>12,
       <1>13, <1>14, <1>15 DEF PrepNext

\* An answer of the application keeps the types.
LEMMA AppType == ASSUME TypeOK, NEW p \in Prep, AppNext(p) PROVE TypeOK'
  <1>1. answer' \in [Prep -> Answer]
    <2>1. answer[p] \in Answer
      BY DEF TypeOK
    <2>2. ASSUME NEW S \in SUBSET File, NEW to \in {"accepting", "accept"}, Answered(p, S, to)
          PROVE  answer' \in [Prep -> Answer]
      BY <2>2 DEF Answered, TypeOK, Answer
    <2>3. ASSUME NEW from, NEW to \in {"accept", "decline", "dropped"}, AnswerStep(p, from, to)
          PROVE  answer' \in [Prep -> Answer]
      <3>1. [answer[p] EXCEPT !.kind = to] \in Answer
        BY <2>1 DEF Answer
      <3> QED
        BY <2>3, <3>1 DEF AnswerStep, TypeOK
    <2> QED
      BY <2>2, <2>3 DEF AppNext, Accept, AcceptAtOnce, SendAccept, Decline, Discard
  <1>2. UNCHANGED <<slotVars, prep, token, upVars, ctlVars, reported, withdrawn>>
    BY DEF AppNext, Accept, AcceptAtOnce, Answered, SendAccept, Decline, Discard, AnswerStep
  <1> QED
    BY <1>1, <1>2 DEF TypeOK, slotVars, upVars, ctlVars

\* A step of upload or settle_file keeps the types.
LEMMA UpType == ASSUME TypeOK, NEW u \in Up, UpNext(u) PROVE TypeOK'
  <1> USE DEF TypeOK, UpStep, slotVars, prepVars, ctlVars, Take, Release, Caller
  <1>1. CASE EnterLock(u) BY <1>1 DEF EnterLock
  <1>2. CASE EnterRefused(u) BY <1>2 DEF EnterRefused
  <1>3. CASE EnterWrongFile(u) BY <1>3 DEF EnterWrongFile
  <1>4. CASE \E f \in File : Admit(u, f)
    <2> PICK f \in File : Admit(u, f)
      BY <1>4
    <2>1. slot.id \in Prep
      BY DEF Admit, NoSession, Pending, Active
    <2>2. job' \in [Up -> [session : Prep, file : File] \cup {NoJob}]
      BY <2>1 DEF Admit
    <2>3. SaturatingInc(files[f].attempts) \in Nat
      BY DEF SaturatingInc
    <2>4. files' \in [File -> [status: Status, attempts: Nat]]
      BY <2>3 DEF Admit
    <2> QED
      BY <2>2, <2>4 DEF Admit
  <1>5. CASE NoDestination(u) BY <1>5 DEF NoDestination
  <1>6. CASE StartReceiving(u) BY <1>6 DEF StartReceiving
  <1>7. CASE BodyEnds(u) BY <1>7 DEF BodyEnds
  <1>8. CASE DropUpload(u) BY <1>8 DEF DropUpload
  <1>9. CASE SettleLock(u) BY <1>9 DEF SettleLock
  <1>10. CASE SettleGone(u) BY <1>10 DEF SettleGone
  <1>11. CASE Settle(u)
    <2> DEFINE f == job[u].file
               marked == [files EXCEPT ![f].status = SettledStatus(result[u], files[f].attempts)]
    <2>1. SettledStatus(result[u], files[f].attempts) \in Status
      BY DEF SettledStatus, Status
    <2>2. marked \in [File -> [status: Status, attempts: Nat]]
      BY <2>1
    <2>3. NoFiles \in [File -> [status: Status, attempts: Nat]]
      BY DEF NoFiles, Status
    <2>4. files' \in [File -> [status: Status, attempts: Nat]]
      BY <1>11, <2>2, <2>3 DEF Settle, Clear
    <2>5. complete' \in [Up -> BOOLEAN]
      BY <1>11 DEF Settle, AllSettled
    <2> QED
      BY <1>11, <2>4, <2>5 DEF Settle, Clear
  <1>12. CASE Report(u)
    <2>1. reported' \in [Prep -> Seq(Outcome)]
      <3>1. CASE job[u].session \in Prep
        <4> DEFINE p == job[u].session
        <4>1. Append(reported[p], "completed") \in Seq(Outcome)
          BY <3>1 DEF Outcome
        <4> QED
          BY <1>12, <3>1, <4>1 DEF Report
      <3>2. CASE job[u].session \notin Prep
        BY <1>12, <3>2 DEF Report
      <3> QED
        BY <3>1, <3>2
    <2> QED
      BY <1>12, <2>1 DEF Report
  <1> QED
    BY <1>1, <1>2, <1>3, <1>4, <1>5, <1>6, <1>7, <1>8, <1>9, <1>10, <1>11, <1>12 DEF UpNext

\* A step of a control process keeps the types.
LEMMA EndType ==
  ASSUME TypeOK, NEW c \in Ctl, EndSession(c), slot.kind # "none"
  PROVE  /\ lock' \in Caller \cup {None}
         /\ slot' = NoSession
         /\ files' \in [File -> [status: Status, attempts: Nat]]
         /\ quiet' \in BOOLEAN
         /\ ctl' \in [Ctl -> {"idle", "holding", "report"}]
         /\ victim' \in [Ctl -> Prep \cup {None}]
         /\ slot.id \in Prep
  <1>1. slot.id \in Prep
    BY DEF TypeOK, NoSession, Pending, Active
  <1>2. files' \in [File -> [status: Status, attempts: Nat]]
    BY DEF EndSession, Clear, NoFiles, Status
  <1> QED
    BY <1>1, <1>2 DEF EndSession, CtlStep, Release, Clear, TypeOK

LEMMA CtlType == ASSUME TypeOK, CtlNext PROVE TypeOK'
  <1> USE DEF slotVars, prepVars, upVars, ctlVars
  <1>1. ASSUME NEW c \in Ctl, CtlLock(c) \/ CtlNothing(c) PROVE TypeOK'
    BY <1>1 DEF CtlLock, CtlNothing, CtlStep, Take, Release, Caller, TypeOK
  <1>2. ASSUME NEW c \in Ctl, CtlReport(c) PROVE TypeOK'
    <2>1. OutcomeOf(c) \in Outcome
      BY DEF OutcomeOf, Outcome
    <2>2. reported' \in [Prep -> Seq(Outcome)]
      <3>1. CASE victim[c] \in Prep
        <4> DEFINE p == victim[c]
        <4>1. Append(reported[p], OutcomeOf(c)) \in Seq(Outcome)
          BY <2>1, <3>1 DEF TypeOK
        <4> QED
          BY <1>2, <3>1, <4>1 DEF CtlReport, TypeOK
      <3>2. CASE victim[c] \notin Prep
        BY <1>2, <3>2 DEF CtlReport, TypeOK
      <3> QED
        BY <3>1, <3>2
    <2> QED
      BY <1>2, <2>2 DEF CtlReport, CtlStep, TypeOK
  <1>3. CASE CancelPending
    <2>1. "cancel" \in Ctl /\ slot.kind # "none" /\ EndSession("cancel")
      BY <1>3 DEF CancelPending, Ctl
    <2>2. token' \in [Prep -> BOOLEAN] /\ withdrawn' \in SUBSET Prep
      BY <1>3, <2>1, EndType DEF CancelPending, TypeOK
    <2> QED
      BY <1>3, <2>1, <2>2, EndType DEF CancelPending, TypeOK
  <1>4. CASE CancelActive
    <2>1. "cancel" \in Ctl /\ slot.kind # "none" /\ EndSession("cancel")
      BY <1>4 DEF CancelActive, Ctl
    <2> QED
      BY <1>4, <2>1, EndType DEF CancelActive, TypeOK
  <1>5. CASE CancelSession
    <2>1. "cancel_session" \in Ctl /\ slot.kind # "none" /\ EndSession("cancel_session")
      BY <1>5 DEF CancelSession, Ctl
    <2>2. withdrawn' \in SUBSET Prep
      BY <1>5, <2>1, EndType DEF CancelSession, TypeOK
    <2> QED
      BY <1>5, <2>1, <2>2, EndType DEF CancelSession, TypeOK
  <1>6. CASE WatchSessions
    <2>1. "watchdog" \in Ctl /\ slot.kind # "none" /\ EndSession("watchdog")
      BY <1>6 DEF WatchSessions, Stale, Ctl
    <2> QED
      BY <1>6, <2>1, EndType DEF WatchSessions, TypeOK
  <1> QED
    BY <1>1, <1>2, <1>3, <1>4, <1>5, <1>6 DEF CtlNext

\* Every step keeps the types.
LEMMA StepType == TypeOK /\ [Next]_vars => TypeOK'
  <1> SUFFICES ASSUME TypeOK, [Next]_vars PROVE TypeOK'
    OBVIOUS
  <1>1. CASE GoesQuiet
    BY <1>1 DEF GoesQuiet, TypeOK, prepVars, upVars, ctlVars
  <1> QED
    BY <1>1, PrepType, AppType, UpType, CtlType, StutterType DEF Next

\* The types of UploadServer's variables, whatever the calls.
THEOREM TypeCorrect == Spec => []TypeOK
  BY InitType, StepType, PTL DEF Spec

-----------------------------------------------------------------------------
(* One session at a time, while nobody cancels a pending request.            *)

\* A prepare-upload step keeps every undecided request in the slot: another
\* request finds the slot taken, and only its own handler can accept or release
\* the one that is in it.
LEMMA PrepSingle ==
  ASSUME TypeOK, SingleSession, NEW p \in Prep, PrepNext(p)
  PROVE  SingleSession'
  <1> SUFFICES ASSUME withdrawn' = {}, NEW q \in Prep, prep'[q] \in Undecided
               PROVE  slot' = Pending(q)
    BY DEF SingleSession
  <1> USE DEF PrepStep, Undecided, slotVars
  <1>1. withdrawn' = withdrawn
    BY DEF PrepNext, RefuseEarly, ClaimLock, ClaimRefused, Claim, Raise, RaiseFailed,
           CancelSeen, DecisionTimeout, DecideNo, DecideYes, Disconnect, InstallLock,
           InstallNothing, Install, GuardDrop
  <1>2. prep[q] \in Undecided => slot = Pending(q)
    BY <1>1 DEF SingleSession
  <1>3. Pending(q).kind = "pending" /\ Pending(q).id = q /\ Pending(p).id = p
    BY DEF Pending
  <1>4. CASE slot' = slot
    <2>1. CASE prep[q] \in Undecided
      BY <1>2, <1>4, <2>1
    <2>2. CASE prep[q] \notin Undecided
      <3>1. Claim(p) /\ p = q
        BY <2>2 DEF PrepNext, RefuseEarly, ClaimLock, ClaimRefused, Claim, Raise,
           RaiseFailed, CancelSeen, DecisionTimeout, DecideNo, DecideYes, Disconnect,
           InstallLock, InstallNothing, Install, GuardDrop, TypeOK
      <3> QED
        BY <3>1 DEF Claim
    <2> QED
      BY <2>1, <2>2
  <1>5. CASE Claim(p)
    <2>1. prep'[q] = IF q = p THEN "claimed" ELSE prep[q]
      BY <1>5 DEF Claim, TypeOK
    <2> QED
      BY <1>2, <1>3, <1>5, <2>1 DEF Claim, SlotFree
  <1>6. CASE InstallNothing(p) \/ Install(p)
    <2>1. prep[p] = "installing" /\ prep'[p] \in {"leaving", "served"}
      BY <1>6 DEF InstallNothing, Install, TypeOK
    <2>2. slot = Pending(p)
      BY <1>1, <2>1 DEF SingleSession
    <2>3. q # p
      BY <2>1
    <2>4. prep[q] \in Undecided
      BY <1>6, <2>3 DEF InstallNothing, Install, TypeOK
    <2> QED
      BY <1>2, <1>3, <2>2, <2>3, <2>4
  <1>7. CASE GuardDrop(p) /\ slot' # slot
    <2>1. slot = Pending(p)
      BY <1>7 DEF GuardDrop
    <2>2. prep'[p] = "done" /\ q # p /\ prep[q] \in Undecided
      BY <1>7 DEF GuardDrop, TypeOK
    <2> QED
      BY <1>2, <1>3, <2>1, <2>2
  <1> QED
    BY <1>4, <1>5, <1>6, <1>7
    DEF PrepNext, RefuseEarly, ClaimLock, ClaimRefused, Raise, RaiseFailed,
        CancelSeen, DecisionTimeout, DecideNo, DecideYes, Disconnect, InstallLock

\* Other callers leave a pending slot alone, or withdraw the request.
LEMMA OtherSingle ==
  ASSUME TypeOK, SingleSession, UNCHANGED prep,
         \/ UNCHANGED <<slot, withdrawn>>
         \/ slot.kind # "pending" /\ UNCHANGED withdrawn
         \/ withdrawn' # {}
  PROVE  SingleSession'
  BY DEF SingleSession, Pending

\* As long as no pending request is cancelled, every request between its claim
\* and its answer owns the slot: for any number of senders and uploads.
THEOREM SingleSessionHolds == Spec => []SingleSession
  <1>1. Init => SingleSession
    BY DEF Init, SingleSession, Undecided
  <1>2. TypeOK /\ SingleSession /\ [Next]_vars => SingleSession'
    <2> SUFFICES ASSUME TypeOK, SingleSession, [Next]_vars PROVE SingleSession'
      OBVIOUS
    <2> USE DEF slotVars, prepVars
    <2>1. ASSUME NEW p \in Prep, PrepNext(p) PROVE SingleSession'
      BY <2>1, PrepSingle
    <2>2. ASSUME NEW p \in Prep, AppNext(p) PROVE SingleSession'
      BY <2>2, OtherSingle
      DEF AppNext, Accept, AcceptAtOnce, Answered, SendAccept, Decline, Discard, AnswerStep
    <2>3. ASSUME NEW u \in Up, UpNext(u) PROVE SingleSession'
      <3>1. CASE Settle(u)
        BY <3>1, OtherSingle DEF Settle, StillMine, Active
      <3>2. CASE UpNext(u) /\ ~Settle(u)
        BY <3>2, OtherSingle
        DEF UpNext, EnterLock, EnterRefused, EnterWrongFile, Admit, NoDestination,
            StartReceiving, BodyEnds, DropUpload, SettleLock, SettleGone, Report
      <3> QED
        BY <2>3, <3>1, <3>2
    <2>4. CASE CtlNext
      <3>1. CASE CancelPending
        BY <3>1, OtherSingle DEF CancelPending
      <3>2. CASE CancelActive \/ WatchSessions
        BY <3>2, OtherSingle DEF CancelActive, WatchSessions, Stale
      <3>3. CASE CancelSession
        BY <3>3, OtherSingle DEF CancelSession
      <3>4. ASSUME NEW c \in Ctl, CtlLock(c) \/ CtlNothing(c) \/ CtlReport(c)
            PROVE  SingleSession'
        BY <3>4, OtherSingle DEF CtlLock, CtlNothing, CtlReport
      <3> QED
        BY <2>4, <3>1, <3>2, <3>3, <3>4 DEF CtlNext
    <2>5. CASE GoesQuiet
      BY <2>5, OtherSingle DEF GoesQuiet
    <2>6. CASE UNCHANGED vars
      BY <2>6, OtherSingle DEF vars
    <2> QED
      BY <2>1, <2>2, <2>3, <2>4, <2>5, <2>6 DEF Next
  <1> QED
    BY TypeCorrect, <1>1, <1>2, PTL DEF Spec

-----------------------------------------------------------------------------
(* Nothing is received without the user's consent.                           *)

\* Consent is not inductive: between the select and the slot the answer lives in
\* the handler alone, and no request is answered before it is raised.
Unasked == \A p \in Prep : prep[p] \in {"new", "claiming", "claimed"} => answer[p].kind = "none"
Granted == \A p \in Prep : prep[p] \in {"deciding", "installing"} => answer[p].kind = "accept"
ConsentInv == Consent /\ Granted /\ Unasked

\* A prepare-upload step installs a session only from an accepted answer.
LEMMA PrepConsent ==
  ASSUME TypeOK, ConsentInv, NEW p \in Prep, PrepNext(p)
  PROVE  ConsentInv'
  <1> USE DEF PrepStep, slotVars, upVars
  <1>1. Granted'
    <2>1. ASSUME NEW q \in Prep, prep'[q] \in {"deciding", "installing"}
          PROVE  answer'[q].kind = "accept"
      <3>1. prep[q] \in {"deciding", "installing"} \/ (q = p /\ DecideYes(p))
        BY <2>1 DEF PrepNext, RefuseEarly, ClaimLock, ClaimRefused, Claim, Raise,
           RaiseFailed, CancelSeen, DecisionTimeout, DecideNo, Disconnect, DecideYes,
           InstallLock, InstallNothing, Install, GuardDrop, TypeOK
      <3>2. CASE Raise(p)
        BY <2>1, <3>1, <3>2 DEF Raise, DecideYes, ConsentInv, Granted, TypeOK
      <3>3. CASE ~Raise(p)
        BY <3>1, <3>3 DEF PrepNext, RefuseEarly, ClaimLock, ClaimRefused, Claim,
           RaiseFailed, CancelSeen, DecisionTimeout, DecideNo, Disconnect, DecideYes,
           InstallLock, InstallNothing, Install, GuardDrop, ConsentInv, Granted
      <3> QED
        BY <3>2, <3>3
    <2> QED
      BY <2>1 DEF Granted
  <1>6. Unasked'
    BY DEF PrepNext, RefuseEarly, ClaimLock, ClaimRefused, Claim, Raise, RaiseFailed,
           CancelSeen, DecisionTimeout, DecideNo, Disconnect, DecideYes, InstallLock,
           InstallNothing, Install, GuardDrop, TypeOK, ConsentInv, Unasked
  <1>2. CASE Install(p)
    <2>1. answer[p].kind = "accept" /\ UNCHANGED <<answer, job>>
      BY <1>2 DEF Install, ConsentInv, Granted
    <2>2. slot'.id = p /\ slot'.kind = "active"
      BY <1>2 DEF Install, Active
    <2>3. \A f \in File : files'[f].status # "absent" => f \in answer[p].files
      BY <1>2 DEF Install, Accepted
    <2> QED
      BY <1>1, <1>6, <2>1, <2>2, <2>3 DEF ConsentInv, Consent
  <1>3. CASE slot'.kind # "active" /\ UNCHANGED <<answer, job>>
    BY <1>1, <1>6, <1>3 DEF ConsentInv, Consent
  <1>4. CASE UNCHANGED <<slot, files, answer, job>>
    BY <1>1, <1>6, <1>4 DEF ConsentInv, Consent
  <1>5. CASE Raise(p)
    <2> SUFFICES ASSUME NEW q \in Prep, answer[q].kind = "accept"
                 PROVE  answer'[q] = answer[q]
      <3>1. UNCHANGED <<slot, files, job>>
        BY <1>5 DEF Raise
      <3>2. slot.kind = "active" => slot.id \in Prep
        BY DEF TypeOK, NoSession, Pending, Active
      <3>3. \A u \in Up : job[u] # NoJob => job[u].session \in Prep
        BY DEF TypeOK
      <3> QED
        BY <1>1, <1>6, <3>1, <3>2, <3>3 DEF ConsentInv, Consent
    <2>1. q # p
      BY <1>5 DEF Raise, ConsentInv, Unasked
    <2> QED
      BY <1>5, <2>1 DEF Raise, TypeOK
  <1> QED
    BY <1>2, <1>3, <1>4, <1>5
    DEF PrepNext, RefuseEarly, ClaimLock, ClaimRefused, Claim, RaiseFailed,
        CancelSeen, DecisionTimeout, DecideNo, DecideYes, Disconnect, InstallLock,
        InstallNothing, GuardDrop, Clear, NoSession, Pending

\* An answer of the application is given once and never taken back.
LEMMA AppConsent ==
  ASSUME TypeOK, ConsentInv, NEW p \in Prep, AppNext(p)
  PROVE  ConsentInv'
  <1>1. UNCHANGED <<slot, files, prep, job>>
    BY DEF AppNext, Accept, AcceptAtOnce, Answered, SendAccept, Decline, Discard, AnswerStep,
           slotVars, upVars
  <1>2. answer[p].kind \in {"open", "accepting"}
    BY DEF AppNext, Accept, AcceptAtOnce, Answered, SendAccept, Decline, Discard, AnswerStep
  <1>3. \E a : answer' = [answer EXCEPT ![p] = a]
    BY DEF AppNext, Accept, AcceptAtOnce, Answered, SendAccept, Decline, Discard, AnswerStep
  <1>4. ASSUME NEW q \in Prep, answer[q].kind = "accept" PROVE answer'[q] = answer[q]
    BY <1>4, <1>2, <1>3 DEF TypeOK
  <1>5. ASSUME NEW q \in Prep, answer[q].kind = "none" PROVE answer'[q] = answer[q]
    BY <1>5, <1>2, <1>3 DEF TypeOK
  <1>6. slot.kind = "active" => slot.id \in Prep
    BY DEF TypeOK, NoSession, Pending, Active
  <1>7. \A u \in Up : job[u] # NoJob => job[u].session \in Prep
    BY DEF TypeOK
  <1> QED
    BY <1>1, <1>4, <1>5, <1>6, <1>7 DEF ConsentInv, Consent, Granted, Unasked

\* An upload is let in for a file of the active session, and settling a file
\* never adds one.
LEMMA UpConsent ==
  ASSUME TypeOK, ConsentInv, NEW u \in Up, UpNext(u)
  PROVE  ConsentInv'
  <1> USE DEF prepVars, slotVars
  <1>1. UNCHANGED <<prep, answer>>
    BY DEF UpNext, EnterLock, EnterRefused, EnterWrongFile, Admit, NoDestination,
           StartReceiving, BodyEnds, DropUpload, SettleLock, SettleGone, Settle, Report
  <1>2. Granted' /\ Unasked'
    BY <1>1 DEF ConsentInv, Granted, Unasked
  <1>3. ASSUME NEW f \in File, Admit(u, f) PROVE Consent'
    <2>1. slot.kind = "active" /\ slot' = slot /\ f \in answer[slot.id].files
      BY <1>3 DEF Admit, Admissible, ConsentInv, Consent
    <2>2. \A g \in File : files'[g].status = files[g].status
      BY <1>3 DEF Admit, TypeOK
    <2>3. \A v \in Up : job'[v] = IF v = u THEN [session |-> slot.id, file |-> f] ELSE job[v]
      BY <1>3 DEF Admit, TypeOK
    <2> QED
      BY <1>1, <2>1, <2>2, <2>3 DEF ConsentInv, Consent
  <1>4. CASE Settle(u)
    <2>1. slot' = NoSession \/ slot' = slot
      BY <1>4 DEF Settle, Clear
    <2>2. slot.kind = "active" /\ slot.id \in Prep /\ slot.id = job[u].session
      BY <1>4 DEF Settle, StillMine, Active, TypeOK, NoSession, Pending
    <2>6. job[u] # NoJob /\ job[u].file \in File
      BY <2>2, ConstantsAssumption DEF NoJob, Caller, TypeOK
    <2>7. slot' = slot =>
            files' = [files EXCEPT ![job[u].file].status =
                        SettledStatus(result[u], files[job[u].file].attempts)]
      BY <1>4, <2>2 DEF Settle, Clear, NoSession
    <2>3. ASSUME NEW g \in File, slot' = slot, files'[g].status # "absent"
          PROVE  files[g].status # "absent" \/ g = job[u].file
      BY <2>3, <2>6, <2>7 DEF TypeOK
    <2>5. UNCHANGED job /\ NoSession.kind # "active"
      BY <1>4 DEF Settle, NoSession
    <2> QED
      BY <1>1, <1>2, <2>1, <2>2, <2>6, <2>3, <2>5 DEF ConsentInv, Consent
  <1>5. CASE UNCHANGED <<slot, files, job>>
    BY <1>1, <1>2, <1>5 DEF ConsentInv, Consent
  <1> QED
    BY <1>2, <1>3, <1>4, <1>5
    DEF UpNext, EnterLock, EnterRefused, EnterWrongFile, NoDestination, ConsentInv,
        StartReceiving, BodyEnds, DropUpload, SettleLock, SettleGone, Report

\* Cancellations and the watchdog only empty the slot.
LEMMA CtlConsent ==
  ASSUME TypeOK, ConsentInv, CtlNext \/ GoesQuiet \/ UNCHANGED vars
  PROVE  ConsentInv'
  <1>1. UNCHANGED <<prep, answer, job>> /\ (UNCHANGED <<slot, files>> \/ slot' = NoSession)
    BY DEF CtlNext, CtlLock, CtlNothing, CtlReport, CancelPending, CancelActive,
           CancelSession, WatchSessions, EndSession, Clear, GoesQuiet, vars,
           slotVars, prepVars, upVars
  <1>2. NoSession.kind # "active"
    BY DEF NoSession
  <1> QED
    BY <1>1, <1>2 DEF ConsentInv, Consent, Granted, Unasked

\* The answers are kept as the handlers need them.
LEMMA ConsentInvHolds == Spec => []ConsentInv
  <1>1. Init => ConsentInv
    BY DEF Init, ConsentInv, Consent, Granted, Unasked, NoSession, Unanswered
  <1>2. TypeOK /\ ConsentInv /\ [Next]_vars => ConsentInv'
    BY PrepConsent, AppConsent, UpConsent, CtlConsent DEF Next
  <1> QED
    BY TypeCorrect, <1>1, <1>2, PTL DEF Spec

\* A session becomes active and an upload is let in only after the user accepted
\* the request and kept the file.
THEOREM ConsentHolds == Spec => []Consent
  <1>1. ConsentInv => Consent
    BY DEF ConsentInv
  <1> QED
    BY ConsentInvHolds, <1>1, PTL

-----------------------------------------------------------------------------
(* A session ends once.                                                      *)

\* Caller x gave the slot up for session p and still has to say so.
Reports(x, p) ==
    \/ x \in Ctl /\ ctl[x] = "report" /\ victim[x] = p
    \/ x \in Up /\ up[x] = "report" /\ complete[x] /\ job[x].session = p

\* A session that was reported, or is about to be, was installed before and has
\* left the slot; one caller reports it, once.
Ended(p) == reported[p] # <<>> \/ \E x \in Ctl \cup Up : Reports(x, p)
EndedFor(p) ==
    /\ Ended(p) => prep[p] = "served" /\ slot.id # p
    /\ reported[p] # <<>> => Len(reported[p]) = 1 /\ \A x \in Ctl \cup Up : ~Reports(x, p)
    /\ \A x, y \in Ctl \cup Up : Reports(x, p) /\ Reports(y, p) => x = y
EndedInv ==
    /\ \A p \in Prep : slot = Active(p) => prep[p] = "served"
    /\ \A p \in Prep \ withdrawn : EndedFor(p)
    /\ \A u \in Up : complete[u] => up[u] \in {"report", "done"}

\* Nothing new is reported for p, and p does not come back.
LEMMA EndedKept ==
  ASSUME NEW p \in Prep, EndedFor(p),
         \A x \in Ctl \cup Up : Reports(x, p)' => Reports(x, p),
         reported'[p] = reported[p],
         prep[p] = "served" => prep'[p] = "served",
         prep[p] = "served" /\ slot.id # p => slot'.id # p
  PROVE  EndedFor(p)'
  BY DEF EndedFor, Ended

\* Caller x takes the installed session p out of the slot.
LEMMA EndedTaken ==
  ASSUME NEW p \in Prep, EndedFor(p), NEW x \in Ctl \cup Up,
         slot.id = p, slot'.id # p, prep'[p] = "served",
         \A y \in Ctl \cup Up : Reports(y, p)' => Reports(y, p) \/ y = x,
         reported'[p] = reported[p]
  PROVE  EndedFor(p)'
  BY DEF EndedFor, Ended

\* Caller x says that p is over.
LEMMA EndedSaid ==
  ASSUME TypeOK, NEW p \in Prep, EndedFor(p), NEW x \in Ctl \cup Up, Reports(x, p),
         NEW o, reported'[p] = Append(reported[p], o),
         \A y \in Ctl \cup Up : Reports(y, p)' => Reports(y, p) /\ y # x,
         UNCHANGED <<slot, prep>>
  PROVE  EndedFor(p)'
  <1>1. reported[p] = <<>>
    BY DEF EndedFor
  <1>2. reported'[p] = <<o>>
    BY <1>1
  <1> QED
    BY <1>2 DEF EndedFor, Ended

\* prepare_upload never brings an ended session back.
LEMMA PrepEnded ==
  ASSUME TypeOK, EndedInv, NEW q \in Prep, PrepNext(q)
  PROVE  EndedInv'
  <1> USE DEF PrepStep, slotVars, upVars, ctlVars
  <1>1. UNCHANGED <<upVars, ctlVars, reported, withdrawn>>
    BY DEF PrepNext, RefuseEarly, ClaimLock, ClaimRefused, Claim, Raise, RaiseFailed,
           CancelSeen, DecisionTimeout, DecideNo, Disconnect, DecideYes, InstallLock,
           InstallNothing, Install, GuardDrop
  <1>2. prep[q] # "served"
    BY DEF PrepNext, RefuseEarly, ClaimLock, ClaimRefused, Claim, Raise, RaiseFailed,
           CancelSeen, DecisionTimeout, DecideNo, Disconnect, DecideYes, InstallLock,
           InstallNothing, Install, GuardDrop
  <1>3. \A p \in Prep : p # q => prep'[p] = prep[p]
    BY DEF PrepNext, RefuseEarly, ClaimLock, ClaimRefused, Claim, Raise, RaiseFailed,
           CancelSeen, DecisionTimeout, DecideNo, Disconnect, DecideYes, InstallLock,
           InstallNothing, Install, GuardDrop, TypeOK
  <1>4. \/ slot' = slot \/ slot' = NoSession \/ slot' = Pending(q)
        \/ slot' = Active(q) /\ prep'[q] = "served"
    BY DEF PrepNext, RefuseEarly, ClaimLock, ClaimRefused, Claim, Raise, RaiseFailed,
           CancelSeen, DecisionTimeout, DecideNo, Disconnect, DecideYes, InstallLock,
           InstallNothing, Install, GuardDrop, Clear, TypeOK
  <1>5. \A p \in Prep : slot' = Active(p) => prep'[p] = "served"
    <2> TAKE p \in Prep
    <2>1. NoSession # Active(p) /\ Pending(q) # Active(p) /\ (Active(q) = Active(p) => q = p)
      BY DEF NoSession, Pending, Active
    <2> QED
      BY <1>2, <1>3, <1>4, <2>1 DEF EndedInv
  <1>6. ASSUME NEW p \in Prep \ withdrawn PROVE EndedFor(p)'
    <2>1. EndedFor(p)
      BY DEF EndedInv
    <2>2. prep[p] = "served" => prep'[p] = "served" /\ p # q
      BY <1>2, <1>3
    <2>3. NoSession.id = None /\ Pending(q).id = q /\ Active(q).id = q /\ None # p
      BY ConstantsAssumption DEF NoSession, Pending, Active, Caller
    <2>4. prep[p] = "served" /\ slot.id # p => slot'.id # p
      BY <1>4, <2>2, <2>3
    <2>5. \A x \in Ctl \cup Up : Reports(x, p)' => Reports(x, p)
      BY <1>1 DEF Reports
    <2> QED
      BY <1>1, <2>1, <2>2, <2>4, <2>5, EndedKept
  <1> QED
    BY <1>1, <1>5, <1>6 DEF EndedInv

\* A step that neither ends a session nor reports one.
LEMMA IdleEnded ==
  ASSUME TypeOK, EndedInv, UNCHANGED <<slot, prep, reported, withdrawn>>,
         \A p \in Prep, x \in Ctl \cup Up : Reports(x, p)' => Reports(x, p),
         \A u \in Up : complete'[u] => up'[u] \in {"report", "done"}
  PROVE  EndedInv'
  <1>1. ASSUME NEW p \in Prep \ withdrawn PROVE EndedFor(p)'
    BY <1>1, EndedKept DEF EndedInv
  <1> QED
    BY <1>1 DEF EndedInv

\* Caller x empties the slot: a pending request becomes withdrawn, an active
\* session is reported by x.
LEMMA TakeEnded ==
  ASSUME TypeOK, EndedInv, NEW q \in Prep, NEW x \in Ctl \cup Up,
         \/ (slot = Active(q) /\ withdrawn' = withdrawn)
         \/ (slot = Pending(q) /\ withdrawn' = withdrawn \cup {q}),
         slot' = NoSession,
         \A p \in Prep, y \in Ctl \cup Up : Reports(y, p)' => Reports(y, p) \/ (y = x /\ p = q),
         UNCHANGED <<prep, reported>>,
         \A u \in Up : complete'[u] => up'[u] \in {"report", "done"}
  PROVE  EndedInv'
  <1>1. slot.id = q /\ slot'.id = None
    BY DEF Active, Pending, NoSession
  <1>2. \A p \in Prep : p # None /\ slot' # Active(p)
    BY ConstantsAssumption DEF Caller, Active, NoSession
  <1>3. ASSUME NEW p \in Prep \ withdrawn' PROVE EndedFor(p)'
    <2>1. EndedFor(p)
      BY DEF EndedInv
    <2>2. CASE p = q
      <3>1. prep[p] = "served"
        BY <2>2 DEF EndedInv
      <3> QED
        BY <1>1, <1>2, <2>1, <2>2, <3>1, EndedTaken
    <2>3. CASE p # q
      BY <1>1, <1>2, <2>1, <2>3, EndedKept
    <2> QED
      BY <2>2, <2>3
  <1> QED
    BY <1>2, <1>3 DEF EndedInv

\* Caller x reports session q.
LEMMA SayEnded ==
  ASSUME TypeOK, EndedInv, NEW q \in Prep, NEW x \in Ctl \cup Up, Reports(x, q), NEW o,
         reported' = [reported EXCEPT ![q] = Append(@, o)],
         \A p \in Prep, y \in Ctl \cup Up : Reports(y, p)' => Reports(y, p) /\ y # x,
         UNCHANGED <<slot, prep, withdrawn>>,
         \A u \in Up : complete'[u] => up'[u] \in {"report", "done"}
  PROVE  EndedInv'
  <1>1. ASSUME NEW p \in Prep \ withdrawn PROVE EndedFor(p)'
    <2>1. EndedFor(p)
      BY DEF EndedInv
    <2>2. CASE p = q
      <3>1. reported'[p] = Append(reported[p], o)
        BY <2>2 DEF TypeOK
      <3> QED
        BY <2>1, <2>2, <3>1, EndedSaid
    <2>3. CASE p # q
      <3>1. reported'[p] = reported[p]
        BY <2>3 DEF TypeOK
      <3> QED
        BY <2>1, <3>1, EndedKept
    <2> QED
      BY <2>2, <2>3
  <1> QED
    BY <1>1 DEF EndedInv

\* An upload ends a session with its last settled file and reports it afterwards.
LEMMA UpEnded ==
  ASSUME TypeOK, EndedInv, NEW u \in Up, UpNext(u)
  PROVE  EndedInv'
  <1> USE DEF UpStep, slotVars, prepVars, ctlVars
  <1>1. u \notin Ctl /\ u \in Ctl \cup Up
    BY ConstantsAssumption
  <1>2. \A v \in Up : complete[v] => up[v] \in {"report", "done"}
    BY DEF EndedInv
  <1>3. \A v \in Up : v # u => up'[v] = up[v]
    BY DEF UpNext, EnterLock, EnterRefused, EnterWrongFile, Admit, NoDestination,
           StartReceiving, BodyEnds, DropUpload, SettleLock, SettleGone, Settle, Report,
           TypeOK
  <1>4. CASE EnterLock(u) \/ EnterRefused(u) \/ EnterWrongFile(u) \/ NoDestination(u)
             \/ StartReceiving(u) \/ BodyEnds(u) \/ DropUpload(u) \/ SettleLock(u)
             \/ SettleGone(u) \/ \E f \in File : Admit(u, f)
    <2>1. up[u] \notin {"report", "done"} /\ UNCHANGED <<slot, prep, ctlVars, complete,
                                                        reported, withdrawn>>
      BY <1>4 DEF EnterLock, EnterRefused, EnterWrongFile, Admit, NoDestination,
           StartReceiving, BodyEnds, DropUpload, SettleLock, SettleGone
    <2>2. \A v \in Up : v # u => job'[v] = job[v]
      BY <1>4 DEF EnterLock, EnterRefused, EnterWrongFile, Admit, NoDestination,
           StartReceiving, BodyEnds, DropUpload, SettleLock, SettleGone, TypeOK
    <2>3. ~complete'[u]
      BY <1>2, <2>1
    <2>4. \A p \in Prep, x \in Ctl \cup Up : Reports(x, p)' => Reports(x, p)
      BY <1>3, <2>1, <2>2, <2>3 DEF Reports
    <2> QED
      BY <1>2, <1>3, <2>1, <2>3, <2>4, IdleEnded
  <1>5. CASE Settle(u)
    <2>1. up[u] = "settling" /\ up'[u] = "report" /\ ~complete[u]
      BY <1>2, <1>5 DEF Settle, TypeOK
    <2>2. UNCHANGED <<prep, ctlVars, job, reported, withdrawn>>
      BY <1>5 DEF Settle
    <2>3. \A v \in Up : v # u => complete'[v] = complete[v]
      BY <1>5 DEF Settle, TypeOK
    <2>4. \A v \in Up : complete'[v] => up'[v] \in {"report", "done"}
      BY <1>2, <1>3, <2>1, <2>3
    <2>5. \A p \in Prep, x \in Ctl \cup Up :
            Reports(x, p)' => Reports(x, p) \/ (x = u /\ p = job[u].session /\ complete'[u])
      BY <1>3, <2>2, <2>3 DEF Reports
    <2>6. CASE slot' = slot /\ ~complete'[u]
      BY <2>2, <2>4, <2>5, <2>6, IdleEnded
    <2>7. CASE slot' = NoSession
      <3>1. slot = Active(job[u].session)
        BY <1>5 DEF Settle, StillMine
      <3>2. job[u].session \in Prep
        <4>1. PICK q \in Prep : slot = Active(q)
          <5>1. slot.kind = "active"
            BY <3>1 DEF Active
          <5> QED
            BY <5>1 DEF TypeOK, NoSession, Pending
        <4> QED
          BY <3>1, <4>1 DEF Active
      <3> QED
        BY <1>1, <2>2, <2>4, <2>5, <2>7, <3>1, <3>2, TakeEnded
    <2>8. slot' = NoSession \/ (slot' = slot /\ ~complete'[u])
      BY <1>5 DEF Settle, Clear, TypeOK
    <2> QED
      BY <2>6, <2>7, <2>8
  <1>6. CASE Report(u)
    <2>1. up[u] = "report" /\ up'[u] = "done"
      BY <1>6 DEF Report, TypeOK
    <2>2. UNCHANGED <<slot, prep, ctlVars, job, complete, withdrawn>>
      BY <1>6 DEF Report
    <2>3. \A v \in Up : complete'[v] => up'[v] \in {"report", "done"}
      BY <1>2, <1>3, <2>1, <2>2
    <2>4. \A p \in Prep, x \in Ctl \cup Up : Reports(x, p)' => Reports(x, p) /\ x # u
      BY <1>1, <1>3, <2>1, <2>2 DEF Reports
    <2>5. CASE complete[u] /\ job[u].session \in Prep
      <3>1. Reports(u, job[u].session)
        BY <2>1, <2>5 DEF Reports
      <3> QED
        BY <1>1, <1>6, <2>2, <2>3, <2>4, <2>5, <3>1, SayEnded DEF Report
    <2>6. CASE ~complete[u] \/ job[u].session \notin Prep
      <3>1. reported' = reported
        BY <1>6, <2>6 DEF Report, TypeOK
      <3> QED
        BY <2>2, <2>3, <2>4, <3>1, IdleEnded
    <2> QED
      BY <2>5, <2>6
  <1> QED
    BY <1>4, <1>5, <1>6 DEF UpNext

\* A control process ends the session it finds and reports that one.
LEMMA EndSessionEnded ==
  ASSUME TypeOK, EndedInv, NEW c \in Ctl, EndSession(c), slot.kind # "none",
         slot.kind = "pending" => withdrawn' = withdrawn \cup {slot.id},
         slot.kind = "active" => withdrawn' = withdrawn,
         UNCHANGED <<prep, upVars, reported>>
  PROVE  EndedInv'
  <1> USE DEF upVars, CtlStep, EndSession
  <1>1. PICK q \in Prep : slot = Active(q) \/ slot = Pending(q)
    BY DEF TypeOK, NoSession
  <1>2. slot.id = q /\ slot' = NoSession
    BY <1>1 DEF Active, Pending, Clear
  <1>3. \/ (slot = Active(q) /\ withdrawn' = withdrawn)
        \/ (slot = Pending(q) /\ withdrawn' = withdrawn \cup {q})
    BY <1>1, <1>2 DEF Active, Pending
  <1>4. c \notin Up /\ c \in Ctl \cup Up
    BY ConstantsAssumption
  <1>5. \A d \in Ctl : d # c => ctl'[d] = ctl[d] /\ victim'[d] = victim[d]
    BY DEF TypeOK
  <1>6. victim'[c] = q
    BY <1>2 DEF TypeOK
  <1>7. \A p \in Prep, y \in Ctl \cup Up :
          Reports(y, p)' => Reports(y, p) \/ (y = c /\ p = q)
    BY <1>4, <1>5, <1>6 DEF Reports
  <1>8. \A u \in Up : complete'[u] => up'[u] \in {"report", "done"}
    BY DEF EndedInv
  <1> QED
    BY <1>2, <1>3, <1>4, <1>7, <1>8, TakeEnded

LEMMA CtlEnded ==
  ASSUME TypeOK, EndedInv, CtlNext
  PROVE  EndedInv'
  <1> USE DEF slotVars, prepVars, upVars
  <1>1. \A u \in Up : complete[u] => up[u] \in {"report", "done"}
    BY DEF EndedInv
  <1>2. ASSUME NEW c \in Ctl, CtlLock(c) \/ CtlNothing(c) PROVE EndedInv'
    <2>1. \A p \in Prep, x \in Ctl \cup Up : Reports(x, p)' => Reports(x, p)
      BY <1>2 DEF Reports, CtlLock, CtlNothing, CtlStep, TypeOK
    <2> QED
      BY <1>1, <1>2, <2>1, IdleEnded DEF CtlLock, CtlNothing
  <1>3. ASSUME NEW c \in Ctl, CtlReport(c) PROVE EndedInv'
    <2>1. c \notin Up /\ c \in Ctl \cup Up
      BY ConstantsAssumption
    <2>2. \A p \in Prep, x \in Ctl \cup Up : Reports(x, p)' => Reports(x, p) /\ x # c
      BY <1>3, <2>1 DEF Reports, CtlReport, CtlStep, TypeOK
    <2>3. CASE victim[c] \in Prep
      <3>1. Reports(c, victim[c])
        BY <1>3 DEF Reports, CtlReport, CtlStep
      <3> QED
        BY <1>1, <1>3, <2>1, <2>2, <2>3, <3>1, SayEnded DEF CtlReport
    <2>4. CASE victim[c] \notin Prep
      <3>1. reported' = reported
        BY <1>3, <2>4 DEF CtlReport, TypeOK
      <3> QED
        BY <1>1, <1>3, <2>2, <3>1, IdleEnded DEF CtlReport
    <2> QED
      BY <2>3, <2>4
  <1>4. CASE CancelPending
    BY <1>4, EndSessionEnded DEF CancelPending, Ctl
  <1>5. CASE CancelActive
    BY <1>5, EndSessionEnded DEF CancelActive, Ctl
  <1>6. CASE CancelSession
    BY <1>6, EndSessionEnded DEF CancelSession, Ctl
  <1>7. CASE WatchSessions
    BY <1>7, EndSessionEnded DEF WatchSessions, Stale, Ctl
  <1> QED
    BY <1>2, <1>3, <1>4, <1>5, <1>6, <1>7 DEF CtlNext

\* The end of every session is accounted for.
LEMMA EndedInvHolds == Spec => []EndedInv
  <1>1. Init => EndedInv
    BY DEF Init, EndedInv, EndedFor, Ended, Reports, NoSession, Active
  <1>2. TypeOK /\ EndedInv /\ [Next]_vars => EndedInv'
    <2> SUFFICES ASSUME TypeOK, EndedInv, [Next]_vars PROVE EndedInv'
      OBVIOUS
    <2>1. CASE (\E p \in Prep : AppNext(p)) \/ GoesQuiet \/ UNCHANGED vars
      <3>1. UNCHANGED <<slot, prep, upVars, ctlVars, reported, withdrawn>>
        BY <2>1 DEF AppNext, Accept, AcceptAtOnce, Answered, SendAccept, Decline, Discard,
                    AnswerStep, GoesQuiet,
                    vars, slotVars, prepVars
      <3>2. \A p \in Prep, x \in Ctl \cup Up : Reports(x, p)' => Reports(x, p)
        BY <3>1 DEF Reports, upVars, ctlVars
      <3> QED
        BY <3>1, <3>2, IdleEnded DEF EndedInv, upVars
    <2> QED
      BY <2>1, PrepEnded, UpEnded, CtlEnded DEF Next
  <1> QED
    BY TypeCorrect, <1>1, <1>2, PTL DEF Spec

\* A session that was not cancelled while it was pending is reported over at most
\* once and never holds the slot again: for every number of uploads racing with
\* the sender's cancel, the user's cancel and the watchdog.
THEOREM EndedOnceHolds == Spec => []EndedOnce
  <1>1. TypeOK /\ EndedInv => EndedOnce
    <2> SUFFICES ASSUME TypeOK, EndedInv, NEW p \in Prep \ withdrawn
                 PROVE  Len(reported[p]) <= 1 /\ (reported[p] # <<>> => slot.id # p)
      BY DEF EndedOnce
    <2>1. EndedFor(p)
      BY DEF EndedInv
    <2>2. CASE reported[p] = <<>>
      BY <2>2
    <2>3. CASE reported[p] # <<>>
      <3>1. Ended(p)
        BY <2>3 DEF Ended
      <3>2. Len(reported[p]) = 1 /\ slot.id # p
        BY <2>1, <2>3, <3>1 DEF EndedFor
      <3> QED
        BY <3>2
    <2> QED
      BY <2>2, <2>3
  <1> QED
    BY TypeCorrect, EndedInvHolds, <1>1, PTL

-----------------------------------------------------------------------------
(* The server keeps what Sessions promises.                                  *)

\* Besides consent and the accounts of the ends, the promise rests on three
\* facts: a claim belongs to a request that was not served, whoever reports a
\* session has one, and an upload at work has a job.
Claims == \A p \in Prep : slot = Pending(p) => prep[p] \notin {"new", "claiming", "served"}
Victims == \A c \in Ctl : ctl[c] = "report" => victim[c] \in Prep
Jobs == \A u \in Up : up[u] \in {"admitted", "receiving", "settle", "settling", "report"}
                          => job[u] # NoJob
PromiseInv == Claims /\ Victims /\ Jobs

LEMMA PrepPromise ==
  ASSUME TypeOK, PromiseInv, NEW q \in Prep, PrepNext(q)
  PROVE  PromiseInv'
  <1> USE DEF PrepStep, slotVars, upVars, ctlVars
  <1>1. UNCHANGED <<up, job, ctl, victim>>
    BY DEF PrepNext, RefuseEarly, ClaimLock, ClaimRefused, Claim, Raise, RaiseFailed,
           CancelSeen, DecisionTimeout, DecideNo, Disconnect, DecideYes, InstallLock,
           InstallNothing, Install, GuardDrop
  <1>2. /\ \A p \in Prep : p # q => prep'[p] = prep[p]
        /\ prep'[q] = "claiming" => prep[q] = "new"
        /\ prep'[q] = "served" => slot' = Active(q)
        /\ prep'[q] # "new"
    BY DEF PrepNext, RefuseEarly, ClaimLock, ClaimRefused, Claim, Raise, RaiseFailed,
           CancelSeen, DecisionTimeout, DecideNo, Disconnect, DecideYes, InstallLock,
           InstallNothing, Install, GuardDrop, TypeOK
  <1>3. \/ slot' = slot \/ slot' = NoSession \/ slot' = Active(q)
        \/ slot' = Pending(q) /\ prep'[q] = "claimed"
    BY DEF PrepNext, RefuseEarly, ClaimLock, ClaimRefused, Claim, Raise, RaiseFailed,
           CancelSeen, DecisionTimeout, DecideNo, Disconnect, DecideYes, InstallLock,
           InstallNothing, Install, GuardDrop, Clear, TypeOK
  <1>4. ASSUME NEW p \in Prep, slot' = Pending(p)
        PROVE  prep'[p] \notin {"new", "claiming", "served"}
    <2>1. slot' # NoSession /\ slot' # Active(q) /\ (slot' = Pending(q) => p = q)
      BY <1>4 DEF NoSession, Pending, Active
    <2>2. CASE slot' = slot
      BY <1>2, <1>4, <2>1, <2>2 DEF PromiseInv, Claims
    <2> QED
      BY <1>3, <2>1, <2>2
  <1> QED
    BY <1>1, <1>4 DEF PromiseInv, Claims, Victims, Jobs

LEMMA UpPromise ==
  ASSUME TypeOK, PromiseInv, NEW u \in Up, UpNext(u)
  PROVE  PromiseInv'
  <1> USE DEF prepVars, slotVars, ctlVars
  <1>1. UNCHANGED <<prep, ctl, victim>> /\ (slot' = slot \/ slot' = NoSession)
    BY DEF UpNext, EnterLock, EnterRefused, EnterWrongFile, Admit, NoDestination,
           StartReceiving, BodyEnds, DropUpload, SettleLock, SettleGone, Settle, Report, Clear
  <1>2. \A p \in Prep : NoSession # Pending(p)
    BY DEF NoSession, Pending
  <1>3. CASE \E f \in File : Admit(u, f)
    <2>1. PICK f \in File : Admit(u, f)
      BY <1>3
    <2>2. \A v \in Up : up'[v] = (IF v = u THEN "admitted" ELSE up[v])
                     /\ job'[v] = (IF v = u THEN [session |-> slot.id, file |-> f] ELSE job[v])
      BY <2>1 DEF Admit, UpStep, TypeOK
    <2>3. slot.id \in Prep
      BY <2>1 DEF Admit, TypeOK, NoSession, Pending, Active
    <2>4. [session |-> slot.id, file |-> f] # NoJob
      BY <2>3, ConstantsAssumption DEF NoJob, Caller
    <2> QED
      BY <1>1, <1>2, <2>2, <2>4 DEF PromiseInv, Claims, Victims, Jobs
  <1>4. CASE ~\E f \in File : Admit(u, f)
    <2>1. UNCHANGED job /\ \A v \in Up : v # u => up'[v] = up[v]
      BY <1>4 DEF UpNext, EnterLock, EnterRefused, EnterWrongFile, NoDestination, UpStep, TypeOK,
             StartReceiving, BodyEnds, DropUpload, SettleLock, SettleGone, Settle, Report
    <2>2. \/ up'[u] \in {"entering", "done", "lost"}
          \/ up[u] \in {"admitted", "receiving", "settle", "settling", "report"}
      BY <1>4 DEF UpNext, EnterLock, EnterRefused, EnterWrongFile, NoDestination, UpStep, TypeOK,
             StartReceiving, BodyEnds, DropUpload, SettleLock, SettleGone, Settle, Report
    <2> QED
      BY <1>1, <1>2, <2>1, <2>2 DEF PromiseInv, Claims, Victims, Jobs
  <1> QED
    BY <1>3, <1>4

LEMMA CtlPromise ==
  ASSUME TypeOK, PromiseInv, CtlNext
  PROVE  PromiseInv'
  <1> USE DEF prepVars, upVars
  <1>1. UNCHANGED <<prep, up, job>> /\ (slot' = slot \/ slot' = NoSession)
    BY DEF CtlNext, CtlLock, CtlNothing, CtlReport, CancelPending, CancelActive,
           CancelSession, WatchSessions, EndSession, Clear, slotVars
  <1>2. \A p \in Prep : NoSession # Pending(p)
    BY DEF NoSession, Pending
  <1>3. ASSUME NEW d \in Ctl, slot.kind # "none", EndSession(d) PROVE Victims'
    <2>1. slot.id \in Prep
      BY <1>3 DEF TypeOK, NoSession, Pending, Active
    <2>2. \A c \in Ctl : c # d => ctl'[c] = ctl[c] /\ victim'[c] = victim[c]
      BY <1>3 DEF EndSession, CtlStep, TypeOK
    <2>3. victim'[d] = slot.id
      BY <1>3 DEF EndSession, TypeOK
    <2> QED
      BY <2>1, <2>2, <2>3 DEF PromiseInv, Victims
  <1>4. ASSUME NEW d \in Ctl, CtlLock(d) \/ CtlNothing(d) \/ CtlReport(d) PROVE Victims'
    BY <1>4 DEF CtlLock, CtlNothing, CtlReport, CtlStep, PromiseInv, Victims, TypeOK
  <1>5. Victims'
    <2>1. CASE CancelPending
      BY <2>1, <1>3 DEF CancelPending, Ctl
    <2>2. CASE CancelActive
      BY <2>2, <1>3 DEF CancelActive, Ctl
    <2>3. CASE CancelSession
      BY <2>3, <1>3 DEF CancelSession, Ctl
    <2>4. CASE WatchSessions
      BY <2>4, <1>3 DEF WatchSessions, Stale, Ctl
    <2> QED
      BY <1>4, <2>1, <2>2, <2>3, <2>4 DEF CtlNext
  <1> QED
    BY <1>1, <1>2, <1>5 DEF PromiseInv, Claims, Jobs

\* The three facts hold.
LEMMA PromiseInvHolds == Spec => []PromiseInv
  <1>1. Init => PromiseInv
    BY DEF Init, PromiseInv, Claims, Victims, Jobs, NoSession, Pending
  <1>2. TypeOK /\ PromiseInv /\ [Next]_vars => PromiseInv'
    <2> SUFFICES ASSUME TypeOK, PromiseInv, [Next]_vars PROVE PromiseInv'
      OBVIOUS
    <2>1. CASE (\E p \in Prep : AppNext(p)) \/ GoesQuiet \/ UNCHANGED vars
      BY <2>1 DEF AppNext, Accept, AcceptAtOnce, Answered, SendAccept, Decline, Discard,
                  AnswerStep, GoesQuiet, vars, slotVars, prepVars, upVars, ctlVars,
                  PromiseInv, Claims, Victims, Jobs
    <2> QED
      BY <2>1, PrepPromise, UpPromise, CtlPromise DEF Next
  <1> QED
    BY TypeCorrect, <1>1, <1>2, PTL DEF Spec

\* How far a session is, by where its call is and what the slot holds.
PhaseFacts == \A p \in Prep :
    /\ prep[p] \in {"new", "claiming"} => Phase(p) = "idle"
    /\ prep[p] \in Undecided => Phase(p) = "asked"
    /\ prep[p] = "served" /\ slot = Active(p) => Phase(p) = "active"
    /\ prep[p] = "served" /\ slot # Active(p) => Phase(p) = "over"
    /\ prep[p] \in {"leaving", "done"} => Phase(p) = "gone"

LEMMA PhaseOf == PhaseFacts /\ PhaseFacts'
  BY DEF PhaseFacts, Phase, Undecided

LEMMA PhaseSame ==
  ASSUME NEW p \in Prep, prep'[p] = prep[p], slot' = Active(p) <=> slot = Active(p)
  PROVE  Phase(p)' = Phase(p)
  BY DEF Phase

\* Who has to tell what: nobody else, x as well, or x no more.
Debts == {Owed(t) : t \in Owing}

LEMMA OwedSame ==
  ASSUME Owing' = Owing, \A t \in Owing : Owed(t)' = Owed(t)
  PROVE  Debts' = Debts
  BY DEF Debts

LEMMA OwedMore ==
  ASSUME NEW x, Owing' = Owing \cup {x}, \A t \in Owing : Owed(t)' = Owed(t)
  PROVE  Debts' = Debts \cup {Owed(x)'}
  BY DEF Debts

LEMMA OwedLess ==
  ASSUME NEW x \in Owing, Owing' = Owing \ {x}, \A t \in Owing \ {x} : Owed(t)' = Owed(t)
  PROVE  Debts' = Debts \ {Owed(x)}
  <1>1. \A t \in Owing : Owed(t)[1] = t
    BY DEF Owed
  <1>2. \A t \in Owing : t # x => Owed(t) # Owed(x)
    BY <1>1
  <1> QED
    BY <1>2 DEF Debts

\* A step that the promise does not see.
Unseen ==
    /\ \A p \in Prep : /\ Phase(p)' = Phase(p)
                       /\ SaidTo(p)' = SaidTo(p)
                       /\ answer'[p].files = answer[p].files
    /\ UNCHANGED <<ToCome, Debts, reported, withdrawn>>

LEMMA UnseenStutters == Unseen => UNCHANGED Promise!vars
  BY DEF Unseen, Promise!vars, Debts

\* Every step of prepare_upload is one of a session's, or is not seen.
LEMMA PrepKept ==
  ASSUME TypeOK, SingleSession, ConsentInv, EndedInv, NEW p \in Prep, PrepNext(p)
  PROVE  [Promise!Next]_(Promise!vars)
  <1> USE DEF PrepStep, slotVars
  <1>1. UNCHANGED <<upVars, ctlVars, reported, withdrawn>>
    BY DEF PrepNext, RefuseEarly, ClaimLock, ClaimRefused, Claim, Raise, RaiseFailed,
           CancelSeen, DecisionTimeout, DecideNo, Disconnect, DecideYes, InstallLock,
           InstallNothing, Install, GuardDrop
  <1>2. Debts' = Debts
    <2>1. Owing' = Owing /\ \A t \in Owing : Owed(t)' = Owed(t)
      BY <1>1 DEF Owing, Owed, upVars, ctlVars
    <2> QED
      BY <2>1, OwedSame
  <1>3. \A q \in Prep : SaidTo(q)' = SaidTo(q) /\ answer'[q].files = answer[q].files
    <2>1. CASE Raise(p)
      <3>1. answer[p].kind = "none"
        BY <2>1 DEF Raise, ConsentInv, Unasked
      <3>2. /\ \A q \in Prep \ {p} : answer'[q] = answer[q]
            /\ answer'[p].kind = "open" /\ answer'[p].files = answer[p].files
        BY <2>1 DEF Raise, TypeOK, Answer
      <3> QED
        BY <3>1, <3>2 DEF SaidTo
    <2>2. CASE ~Raise(p)
      <3>1. UNCHANGED answer
        BY <2>2 DEF PrepNext, RefuseEarly, ClaimLock, ClaimRefused, Claim, RaiseFailed,
               CancelSeen, DecisionTimeout, DecideNo, Disconnect, DecideYes, InstallLock,
               InstallNothing, Install, GuardDrop
      <3> QED
        BY <3>1 DEF SaidTo
    <2> QED
      BY <2>1, <2>2
  <1>4. \A q \in Prep \ {p} : prep'[q] = prep[q]
    BY DEF PrepNext, RefuseEarly, ClaimLock, ClaimRefused, Claim, Raise, RaiseFailed,
           CancelSeen, DecisionTimeout, DecideNo, Disconnect, DecideYes, InstallLock,
           InstallNothing, Install, GuardDrop, TypeOK
  <1>5. CASE ~Install(p) /\ ~InstallNothing(p)
    <2>1. \/ UNCHANGED <<slot, files>>
          \/ slot' = NoSession /\ slot = Pending(p)
          \/ slot' = Pending(p) /\ slot.kind = "none"
      BY <1>5 DEF PrepNext, RefuseEarly, ClaimLock, ClaimRefused, Claim, Raise, RaiseFailed,
             CancelSeen, DecisionTimeout, DecideNo, Disconnect, DecideYes, InstallLock,
             GuardDrop, SlotFree
    <2>2. \A q \in Prep : slot' = Active(q) <=> slot = Active(q)
      BY <2>1 DEF NoSession, Pending, Active
    <2>3. ToCome' = ToCome
      BY <2>1 DEF ToCome, NoSession, Pending
    <2>4. \A q \in Prep \ {p} : Phase(q)' = Phase(q)
      BY <1>4, <2>2, PhaseSame
    <2>5. CASE prep'[p] \in {"claiming", "waiting", "deciding", "installing"}
               \/ GuardDrop(p)
      <3>1. \/ prep[p] = "new" /\ prep'[p] = "claiming"
            \/ prep[p] \in Undecided /\ prep'[p] \in Undecided
            \/ prep[p] = "leaving" /\ prep'[p] = "done"
        BY <1>5, <2>5 DEF PrepNext, RefuseEarly, ClaimLock, ClaimRefused, Claim, Raise, RaiseFailed,
               CancelSeen, DecisionTimeout, DecideNo, Disconnect, DecideYes, InstallLock,
               GuardDrop, Undecided, TypeOK
      <3>2. Phase(p)' = Phase(p)
        BY <3>1, PhaseOf DEF PhaseFacts
      <3> QED
        BY <1>1, <1>2, <1>3, <2>3, <2>4, <3>2, UnseenStutters DEF Unseen
    <2>6. CASE RefuseEarly(p) \/ ClaimRefused(p)
      <3>1. prep[p] \in {"new", "claiming"} /\ prep'[p] = "done"
        BY <2>6 DEF RefuseEarly, ClaimRefused, TypeOK
      <3>2. Phase(p) = "idle" /\ Phase(p)' = "gone"
        BY <3>1, PhaseOf DEF PhaseFacts
      <3>3. Promise!TurnAway(p)
        BY <1>1, <1>2, <1>3, <2>3, <2>4, <3>2 DEF Promise!TurnAway, Promise!Reaches, Debts
      <3> QED
        BY <3>3 DEF Promise!Next
    <2>7. CASE Claim(p)
      <3>1. prep[p] = "claiming" /\ prep'[p] = "claimed" /\ slot.kind = "none"
        BY <2>7 DEF Claim, SlotFree, TypeOK
      <3>2. Phase(p) = "idle" /\ Phase(p)' = "asked"
        BY <3>1, PhaseOf DEF PhaseFacts, Undecided
      <3>3. \A q \in Prep : Phase(q) # "active"
        BY <3>1, PhaseOf DEF PhaseFacts, Phase, Active
      <3>4. withdrawn = {} => \A q \in Prep : Phase(q) # "asked"
        BY <3>1 DEF Phase, SingleSession, Pending
      <3>5. Promise!Ask(p)
        BY <1>1, <1>2, <1>3, <2>3, <2>4, <3>2, <3>3, <3>4 DEF Promise!Ask, Promise!Reaches, Debts
      <3> QED
        BY <3>5 DEF Promise!Next
    <2>8. CASE prep'[p] = "leaving"
      <3>1. prep[p] \in Undecided
        BY <1>5, <2>8 DEF PrepNext, RefuseEarly, ClaimLock, ClaimRefused, Claim, Raise, RaiseFailed,
               CancelSeen, DecisionTimeout, DecideNo, Disconnect, DecideYes, InstallLock,
               GuardDrop, Undecided, TypeOK
      <3>2. Phase(p) = "asked" /\ Phase(p)' = "gone"
        BY <2>8, <3>1, PhaseOf DEF PhaseFacts
      <3>3. Promise!GiveUp(p)
        BY <1>1, <1>2, <1>3, <2>3, <2>4, <3>2 DEF Promise!GiveUp, Promise!Reaches, Debts
      <3> QED
        BY <3>3 DEF Promise!Next
    <2>9. \/ prep'[p] \in {"claiming", "waiting", "deciding", "installing", "leaving"}
          \/ GuardDrop(p) \/ RefuseEarly(p) \/ ClaimRefused(p) \/ Claim(p)
      BY <1>5 DEF PrepNext, ClaimLock, Raise, RaiseFailed,
             CancelSeen, DecisionTimeout, DecideNo, Disconnect, DecideYes, InstallLock, TypeOK
    <2> QED
      BY <2>5, <2>6, <2>7, <2>8, <2>9
  <1>6. CASE Install(p) \/ InstallNothing(p)
    <2>1. prep[p] = "installing" /\ answer[p].kind = "accept"
      BY <1>6 DEF Install, InstallNothing, ConsentInv, Granted
    <2>2. \/ /\ answer[p].files = {} /\ prep'[p] = "leaving"
             /\ slot' = NoSession
          \/ /\ answer[p].files # {} /\ prep'[p] = "served"
             /\ slot' = Active(p) /\ files' = Accepted(answer[p].files)
      BY <1>6 DEF Install, InstallNothing, Clear, TypeOK
    <2>3. answer[p].files \subseteq File
      BY DEF TypeOK, Answer
    <2>4. ToCome' = answer[p].files
      BY <2>2, <2>3 DEF ToCome, Accepted, NoSession, Active
    <2>5. Phase(p) = "asked" /\ SaidTo(p) = "yes"
      BY <2>1 DEF Phase, SaidTo, Undecided
    <2>6. Phase(p)' = IF answer[p].files = {} THEN "gone" ELSE "active"
      BY <2>2, PhaseOf DEF PhaseFacts
    <2>7. ASSUME NEW q \in Prep, q # p
          PROVE  Phase(q)' = IF Phase(q) = "active" THEN "over" ELSE Phase(q)
      <3>1. prep'[q] = prep[q] /\ slot' # Active(q)
        BY <1>4, <2>2, <2>7 DEF NoSession, Active
      <3>2. CASE slot = Active(q)
        <4>1. prep[q] = "served"
          BY <3>2 DEF EndedInv
        <4> QED
          BY <3>1, <3>2, <4>1 DEF Phase
      <3>3. CASE slot # Active(q)
        <4>1. Phase(q) # "active" /\ Phase(q)' = Phase(q)
          BY <3>1, <3>3 DEF Phase
        <4> QED
          BY <4>1
      <3> QED
        BY <3>2, <3>3
    <2>8. withdrawn = {} => \A q \in Prep : Phase(q) # "active"
      BY <2>1 DEF SingleSession, Undecided, Phase, Pending, Active
    <2>9. Promise!Begin(p)
      BY <1>1, <1>2, <1>3, <2>4, <2>5, <2>6, <2>7, <2>8 DEF Promise!Begin, Debts
    <2> QED
      BY <2>9 DEF Promise!Next
  <1> QED
    BY <1>5, <1>6

\* The user's answer is the session's, whichever way the application gives it.
LEMMA AppKept ==
  ASSUME TypeOK, ConsentInv, NEW p \in Prep, AppNext(p)
  PROVE  [Promise!Next]_(Promise!vars)
  <1> USE DEF slotVars, upVars, ctlVars
  <1>1. UNCHANGED <<slot, files, prep, upVars, ctlVars, reported, withdrawn>>
    BY DEF AppNext, Accept, AcceptAtOnce, Answered, SendAccept, Decline, Discard, AnswerStep
  <1>2. Debts' = Debts /\ ToCome' = ToCome
    <2>1. Owing' = Owing /\ \A t \in Owing : Owed(t)' = Owed(t)
      BY <1>1 DEF Owing, Owed
    <2> QED
      BY <1>1, <2>1, OwedSame DEF ToCome
  <1>3. \A q \in Prep : Phase(q)' = Phase(q)
    BY <1>1, PhaseSame
  <1>4. \A q \in Prep \ {p} : SaidTo(q)' = SaidTo(q) /\ answer'[q] = answer[q]
    BY DEF AppNext, Accept, AcceptAtOnce, Answered, SendAccept, Decline, Discard, AnswerStep,
           SaidTo, TypeOK
  <1>5. answer[p].kind = "open" => Phase(p) # "idle" /\ SaidTo(p) = "nothing"
    BY DEF ConsentInv, Unasked, Phase, SaidTo, Undecided
  <1>6. ASSUME NEW S \in SUBSET File, Accept(p, S) \/ AcceptAtOnce(p, S)
        PROVE  Promise!Answer(p)
    <2>1. /\ answer[p].kind = "open"
          /\ answer'[p].kind \in {"accepting", "accept"}
          /\ answer'[p].files = S
      BY <1>6 DEF Accept, AcceptAtOnce, Answered, TypeOK
    <2>2. SaidTo(p)' = "yes"
      BY <2>1 DEF SaidTo
    <2> QED
      BY <1>1, <1>2, <1>3, <1>4, <1>5, <2>1, <2>2 DEF Promise!Answer, Debts
  <1>7. CASE Decline(p) \/ Discard(p)
    <2>1. /\ answer[p].kind = "open"
          /\ answer'[p].kind \in {"decline", "dropped"}
          /\ answer'[p].files = answer[p].files
      BY <1>7 DEF Decline, Discard, AnswerStep, TypeOK, Answer
    <2>2. SaidTo(p)' = "no"
      BY <2>1 DEF SaidTo
    <2>3. Promise!Answer(p)
      BY <1>1, <1>2, <1>3, <1>4, <1>5, <2>1, <2>2 DEF Promise!Answer, Debts
    <2> QED
      BY <2>3 DEF Promise!Next
  <1>8. CASE SendAccept(p)
    <2>1. /\ answer[p].kind = "accepting" /\ answer'[p].kind = "accept"
          /\ answer'[p].files = answer[p].files
      BY <1>8 DEF SendAccept, AnswerStep, TypeOK, Answer
    <2>2. SaidTo(p)' = SaidTo(p)
      BY <2>1 DEF SaidTo
    <2> QED
      BY <1>1, <1>2, <1>3, <1>4, <2>1, <2>2, UnseenStutters DEF Unseen
  <1> QED
    BY <1>6, <1>7, <1>8 DEF AppNext, Promise!Next

\* An upload is seen when it settles a file and when it tells of the end.
LEMMA UpKept ==
  ASSUME TypeOK, ConsentInv, EndedInv, PromiseInv, NEW u \in Up, UpNext(u)
  PROVE  [Promise!Next]_(Promise!vars)
  <1> USE DEF prepVars, ctlVars
  <1>1. UNCHANGED <<prep, answer, ctl, victim, withdrawn>>
    BY DEF UpNext, EnterLock, EnterRefused, EnterWrongFile, Admit, NoDestination,
           StartReceiving, BodyEnds, DropUpload, SettleLock, SettleGone, Settle, Report
  <1>2. \A q \in Prep : SaidTo(q)' = SaidTo(q) /\ answer'[q].files = answer[q].files
    BY <1>1 DEF SaidTo
  <1>3. u \notin Ctl /\ \A v \in Up : v \notin Ctl
    BY ConstantsAssumption
  <1>4. CASE ~Settle(u) /\ ~Report(u)
    <2>1. UNCHANGED slot /\ \A f \in File : files'[f].status = files[f].status
      <3>1. ASSUME NEW g \in File, Admit(u, g)
            PROVE  \A f \in File : files'[f].status = files[f].status
        BY <3>1 DEF Admit, TypeOK
      <3>2. (\E g \in File : Admit(u, g)) \/ UNCHANGED files
        BY <1>4 DEF UpNext, EnterLock, EnterRefused, EnterWrongFile, NoDestination,
               StartReceiving, BodyEnds, DropUpload, SettleLock, SettleGone, slotVars
      <3>3. UNCHANGED slot
        BY <1>4 DEF UpNext, EnterLock, EnterRefused, EnterWrongFile, Admit, NoDestination,
               StartReceiving, BodyEnds, DropUpload, SettleLock, SettleGone, slotVars
      <3> QED
        BY <3>1, <3>2, <3>3
    <2>2. ToCome' = ToCome /\ \A q \in Prep : Phase(q)' = Phase(q)
      BY <1>1, <2>1, PhaseSame DEF ToCome
    <2>3. /\ complete' = complete /\ reported' = reported
          /\ \A v \in Up \ {u} : up'[v] = up[v] /\ job'[v] = job[v]
          /\ up[u] # "report"
          /\ up'[u] = "report" => up[u] = "settling"
      BY <1>4 DEF UpNext, EnterLock, EnterRefused, EnterWrongFile, Admit, NoDestination, UpStep,
             StartReceiving, BodyEnds, DropUpload, SettleLock, SettleGone, slotVars, TypeOK
    <2>4. up[u] = "settling" => ~complete[u]
      BY DEF EndedInv
    <2>5. Owing' = Owing /\ u \notin Owing
      BY <1>1, <1>3, <2>3, <2>4 DEF Owing
    <2>6. \A t \in Owing : Owed(t)' = Owed(t)
      BY <1>1, <2>3, <2>5 DEF Owed, Owing
    <2>7. Debts' = Debts
      BY <2>5, <2>6, OwedSame
    <2> QED
      BY <1>1, <1>2, <2>2, <2>3, <2>7, UnseenStutters DEF Unseen
  <1>5. CASE Report(u)
    <2>1. UNCHANGED <<slot, files, job, complete>>
      BY <1>5 DEF Report, slotVars
    <2>2. ToCome' = ToCome /\ \A q \in Prep : Phase(q)' = Phase(q)
      BY <1>1, <2>1, PhaseSame DEF ToCome
    <2>3. up[u] = "report" /\ up'[u] = "done" /\ \A v \in Up \ {u} : up'[v] = up[v]
      BY <1>5 DEF Report, UpStep, TypeOK
    <2>4. Owing' = Owing \ {u}
      BY <1>1, <1>3, <2>1, <2>3 DEF Owing
    <2>5. \A t \in Owing : Owed(t)' = Owed(t)
      BY <1>1, <2>1 DEF Owed
    <2>6. CASE ~complete[u]
      <3>1. u \notin Owing /\ reported' = reported
        BY <1>3, <1>5, <2>6 DEF Owing, Report
      <3>2. Debts' = Debts
        BY <2>4, <2>5, <3>1, OwedSame
      <3> QED
        BY <1>1, <1>2, <2>2, <3>1, <3>2, UnseenStutters DEF Unseen
    <2>7. CASE complete[u]
      <3>1. u \in Owing
        BY <2>3, <2>7 DEF Owing
      <3>2. Debts' = Debts \ {Owed(u)} /\ Owed(u) \in Debts
        BY <2>4, <2>5, <3>1, OwedLess DEF Debts
      <3>3. Owed(u) = <<u, job[u].session, "completed">>
        BY DEF Owed
      <3>4. job[u].session \in Prep
        BY <2>3 DEF PromiseInv, Jobs, TypeOK
      <3>5. reported' = [reported EXCEPT ![job[u].session] = Append(@, "completed")]
        BY <1>5, <2>7 DEF Report
      <3>6. /\ Owed(u)[2] = job[u].session
            /\ reported' = [reported EXCEPT ![job[u].session] = Append(@, Owed(u)[3])]
        BY <3>3, <3>5
      <3>7. Promise!Tell(job[u].session)
        BY <1>1, <1>2, <2>2, <3>2, <3>6 DEF Promise!Tell, Debts
      <3> QED
        BY <3>4, <3>7 DEF Promise!Next
    <2> QED
      BY <2>6, <2>7
  <1>6. CASE Settle(u)
    <2>1. up[u] = "settling" /\ up'[u] = "report" /\ \A v \in Up \ {u} : up'[v] = up[v]
      BY <1>6 DEF Settle, UpStep, TypeOK
    <2>2. PICK p \in Prep, f \in File : job[u] = [session |-> p, file |-> f] /\ job[u] # NoJob
      BY <2>1 DEF PromiseInv, Jobs, TypeOK
    <2> DEFINE st == SettledStatus(result[u], files[f].attempts)
               marked == [files EXCEPT ![f].status = st]
    <2>3. slot = Active(p) /\ prep[p] = "served"
      BY <1>6, <2>2 DEF Settle, StillMine, EndedInv
    <2>4. f \in answer[p].files
      BY <2>2 DEF ConsentInv, Consent
    <2>5. UNCHANGED <<job, reported>> /\ complete' = [complete EXCEPT ![u] = AllSettled(marked)]
      BY <1>6, <2>2 DEF Settle
    <2>6. u \notin Owing
      BY <1>3, <2>1 DEF Owing
    <2>7. \A t \in Owing : Owed(t)' = Owed(t)
      BY <1>1, <2>5 DEF Owed
    <2>8. /\ \A g \in File \ {f} : marked[g].status = files[g].status
          /\ marked[f].status = st
      BY <2>2 DEF TypeOK
    <2>9. ToCome = {g \in File : files[g].status = "pending"}
      BY <2>3 DEF ToCome, Active
    <2>10. CASE AllSettled(marked)
      <3>1. slot' = NoSession
        BY <1>6, <2>2, <2>10 DEF Settle, Clear
      <3>2. ToCome' = {} /\ ToCome \ {f} = {}
        BY <2>8, <2>9, <2>10, <3>1 DEF ToCome, NoSession, AllSettled
      <3>3. Owing' = Owing \cup {u}
        BY <1>1, <1>3, <2>1, <2>5, <2>10 DEF Owing, TypeOK
      <3>4. Owed(u)' = <<u, p, "completed">>
        BY <2>2, <2>5 DEF Owed
      <3>5. Debts' = Debts \cup {<<u, p, "completed">>}
        BY <2>7, <3>3, <3>4, OwedMore
      <3>6. Phase(p) = "active" /\ Phase(p)' = "over"
        <4>1. prep'[p] = "served" /\ slot' # Active(p)
          BY <1>1, <2>3, <3>1 DEF NoSession, Active
        <4> QED
          BY <1>1, <2>2, <2>3, <2>5, <4>1, PhaseOf DEF PhaseFacts
      <3>7. \A q \in Prep \ {p} : Phase(q)' = Phase(q)
        BY <1>1, <2>3, <3>1, PhaseSame DEF NoSession, Active
      <3>8. Promise!Settle(p)
        <4>1. Promise!Owes(p, "completed")
          BY <3>5 DEF Promise!Owes, Debts
        <4>2. Promise!Reaches(p, "over")
          BY <2>2, <3>6, <3>7 DEF Promise!Reaches
        <4> QED
          BY <2>2, <2>4, <3>2, <4>1, <4>2 DEF Promise!Settle
      <3>9. Promise!Receive(p)
        BY <1>1, <1>2, <2>2, <2>5, <3>6, <3>8 DEF Promise!Receive
      <3> QED
        BY <2>2, <3>9 DEF Promise!Next
    <2>11. CASE ~AllSettled(marked)
      <3>1. UNCHANGED slot /\ files' = marked
        BY <1>6, <2>2, <2>11 DEF Settle
      <3>2. ToCome' = {g \in File : marked[g].status = "pending"}
        BY <2>3, <3>1 DEF ToCome, Active
      <3>3. ToCome' = IF st = "pending" THEN ToCome \cup {f} ELSE ToCome \ {f}
        BY <2>2, <2>8, <2>9, <3>2
      <3>4. ToCome' # {}
        BY <2>11, <3>2 DEF AllSettled
      <3>5. Owing' = Owing
        BY <1>1, <1>3, <2>1, <2>5, <2>11 DEF Owing, TypeOK
      <3>6. Debts' = Debts
        BY <2>7, <3>5, OwedSame
      <3>7. Phase(p) = "active" /\ \A q \in Prep : Phase(q)' = Phase(q)
        BY <1>1, <2>2, <2>3, <3>1, PhaseOf, PhaseSame DEF PhaseFacts
      <3>8. Promise!Settle(p) \/ Promise!PutBack(p)
        BY <2>2, <2>4, <3>3, <3>4, <3>6, <3>7 DEF Promise!Settle, Promise!PutBack, Debts
      <3>9. Promise!Receive(p)
        BY <1>1, <1>2, <2>2, <2>5, <3>7, <3>8 DEF Promise!Receive
      <3> QED
        BY <2>2, <3>9 DEF Promise!Next
    <2> QED
      BY <2>10, <2>11
  <1> QED
    BY <1>4, <1>5, <1>6

\* Caller d empties the slot and owes the word: the active session ends, a
\* pending one is withdrawn.
LEMMA EndKept ==
  ASSUME TypeOK, EndedInv, PromiseInv, NEW d \in Ctl, slot.kind # "none", EndSession(d),
         UNCHANGED <<prep, answer, upVars, reported>>,
         withdrawn' = IF slot.kind = "pending" THEN withdrawn \cup {slot.id} ELSE withdrawn,
         slot.kind = "pending" => OutcomeOf(d) = "cancelled"
  PROVE  Promise!Next
  <1>1. PICK p \in Prep : slot = Pending(p) \/ slot = Active(p)
    BY DEF TypeOK, NoSession
  <1>2. slot' = NoSession
    BY DEF EndSession, Clear
  <1>3. /\ ctl[d] = "holding" /\ ctl'[d] = "report" /\ victim'[d] = p
        /\ \A c \in Ctl \ {d} : ctl'[c] = ctl[c] /\ victim'[c] = victim[c]
    BY <1>1 DEF EndSession, CtlStep, TypeOK, Pending, Active
  <1>4. \A v \in Up : v \notin Ctl
    BY ConstantsAssumption
  <1>5. Debts' = Debts \cup {<<d, p, OutcomeOf(d)>>}
    <2>1. Owing' = Owing \cup {d} /\ d \notin Owing
      BY <1>3, <1>4 DEF Owing, upVars
    <2>2. \A t \in Owing : Owed(t)' = Owed(t)
      BY <1>3, <1>4, <2>1 DEF Owed, Owing, upVars, OutcomeOf
    <2>3. Owed(d)' = <<d, p, OutcomeOf(d)>>
      BY <1>3, <1>4 DEF Owed, OutcomeOf
    <2> QED
      BY <2>1, <2>2, <2>3, OwedMore
  <1>6. /\ \A q \in Prep : SaidTo(q)' = SaidTo(q) /\ answer'[q].files = answer[q].files
        /\ ToCome' = {}
    BY <1>2 DEF SaidTo, ToCome, NoSession
  <1>7. \A q \in Prep \ {p} : Phase(q)' = Phase(q)
    <2>1. \A q \in Prep \ {p} : slot' # Active(q) /\ slot # Active(q)
      BY <1>1, <1>2 DEF NoSession, Pending, Active
    <2> QED
      BY <2>1, PhaseSame
  <1>8. OutcomeOf(d) \in {"cancelled", "timedOut"}
    BY DEF OutcomeOf
  <1>9. CASE slot = Active(p)
    <2>1. prep[p] = "served" /\ prep'[p] = "served" /\ slot' # Active(p)
      BY <1>2, <1>9 DEF EndedInv, NoSession, Active
    <2>2. Phase(p) = "active" /\ Phase(p)' = "over"
      BY <1>9, <2>1, PhaseOf DEF PhaseFacts
    <2>3. Promise!Owes(p, OutcomeOf(d))
      BY <1>5 DEF Promise!Owes, Debts
    <2>4. Promise!Reaches(p, "over")
      BY <1>7, <2>2 DEF Promise!Reaches
    <2>5. Promise!End(p)
      BY <1>6, <1>8, <2>3, <2>4 DEF Promise!End
    <2>6. withdrawn' = withdrawn
      BY <1>9 DEF Active
    <2>7. Promise!Receive(p)
      BY <1>6, <2>2, <2>5, <2>6 DEF Promise!Receive
    <2> QED
      BY <2>7 DEF Promise!Next
  <1>10. CASE slot = Pending(p)
    <2>1. prep[p] \notin {"new", "claiming", "served"} /\ prep'[p] = prep[p]
      BY <1>10 DEF PromiseInv, Claims
    <2>2. Phase(p)' = Phase(p) /\ Phase(p) \in {"asked", "gone"}
      BY <2>1, PhaseOf DEF PhaseFacts, Phase, TypeOK, Undecided
    <2>3. ToCome = {} /\ OutcomeOf(d) = "cancelled" /\ withdrawn' = withdrawn \cup {p}
      BY <1>10 DEF ToCome, Pending
    <2>4. Promise!Owes(p, "cancelled")
      BY <1>5, <2>3 DEF Promise!Owes, Debts
    <2>5. withdrawn' # {}
      BY <2>3
    <2>6. Promise!Withdraw(p)
      BY <1>6, <1>7, <2>2, <2>3, <2>4, <2>5 DEF Promise!Withdraw
    <2> QED
      BY <2>6 DEF Promise!Next
  <1> QED
    BY <1>1, <1>9, <1>10

LEMMA CtlKept ==
  ASSUME TypeOK, EndedInv, PromiseInv, CtlNext
  PROVE  [Promise!Next]_(Promise!vars)
  <1> USE DEF prepVars
  <1>1. CASE CancelPending
    BY <1>1, EndKept DEF CancelPending, OutcomeOf, Ctl, Promise!vars
  <1>2. CASE CancelActive
    BY <1>2, EndKept DEF CancelActive, Ctl, Promise!vars
  <1>3. CASE CancelSession
    BY <1>3, EndKept DEF CancelSession, OutcomeOf, Ctl, Promise!vars
  <1>4. CASE WatchSessions
    BY <1>4, EndKept DEF WatchSessions, Stale, Ctl, Promise!vars
  <1>5. ASSUME NEW c \in Ctl, CtlLock(c) \/ CtlNothing(c)
        PROVE  UNCHANGED Promise!vars
    <2>1. UNCHANGED <<slot, files, prep, answer, upVars, victim, reported, withdrawn>>
      BY <1>5 DEF CtlLock, CtlNothing
    <2>2. \A d \in Ctl : ctl'[d] = "report" <=> ctl[d] = "report"
      BY <1>5 DEF CtlLock, CtlNothing, CtlStep, TypeOK
    <2>3. Owing' = Owing /\ \A t \in Owing : Owed(t)' = Owed(t)
      BY <2>1, <2>2 DEF Owing, Owed, upVars
    <2>4. Debts' = Debts
      BY <2>3, OwedSame
    <2> QED
      BY <2>1, <2>4, UnseenStutters DEF Unseen, Phase, SaidTo, ToCome
  <1>6. ASSUME NEW c \in Ctl, CtlReport(c)
        PROVE  Promise!Next
    <2>1. PICK p \in Prep : victim[c] = p /\ ctl[c] = "report"
      BY <1>6 DEF CtlReport, CtlStep, PromiseInv, Victims
    <2>2. UNCHANGED <<slot, files, prep, answer, upVars, withdrawn>>
      BY <1>6 DEF CtlReport, slotVars
    <2>3. ctl'[c] = "idle" /\ \A d \in Ctl \ {c} : ctl'[d] = ctl[d] /\ victim'[d] = victim[d]
      BY <1>6 DEF CtlReport, CtlStep, TypeOK
    <2>4. \A v \in Up : v \notin Ctl
      BY ConstantsAssumption
    <2>5. c \in Owing /\ Owing' = Owing \ {c}
      BY <2>1, <2>2, <2>3, <2>4 DEF Owing, upVars
    <2>6. \A t \in Owing \ {c} : Owed(t)' = Owed(t)
      BY <2>2, <2>3 DEF Owed, Owing, upVars, OutcomeOf
    <2>7. Debts' = Debts \ {Owed(c)} /\ Owed(c) \in Debts
      BY <2>5, <2>6, OwedLess DEF Debts
    <2>8. Owed(c) = <<c, p, OutcomeOf(c)>>
      BY <2>1, <2>4 DEF Owed
    <2>9. Owed(c)[2] = p /\ reported' = [reported EXCEPT ![p] = Append(@, Owed(c)[3])]
      BY <1>6, <2>1, <2>8 DEF CtlReport
    <2>10. /\ \A q \in Prep : Phase(q)' = Phase(q) /\ SaidTo(q)' = SaidTo(q)
           /\ ToCome' = ToCome
      BY <2>2 DEF Phase, SaidTo, ToCome
    <2>11. Promise!Tell(p)
      BY <2>2, <2>7, <2>9, <2>10 DEF Promise!Tell, Debts
    <2> QED
      BY <2>11 DEF Promise!Next
  <1> QED
    BY <1>1, <1>2, <1>3, <1>4, <1>5, <1>6 DEF CtlNext

LEMMA PromiseInit == Init => Promise!Init
  <1> SUFFICES ASSUME Init PROVE Promise!Init
    OBVIOUS
  <1>1. \A p \in Prep : Phase(p) = "idle" /\ SaidTo(p) = "nothing" /\ answer[p].files = {}
    <2>1. \A p \in Prep : prep[p] = "new" /\ answer[p] = Unanswered
      BY DEF Init
    <2> QED
      BY <2>1, PhaseOf DEF PhaseFacts, SaidTo, Unanswered
  <1>2. ToCome = {} /\ Owing = {}
    BY DEF Init, ToCome, Owing, NoSession
  <1> QED
    BY <1>1, <1>2 DEF Init, Promise!Init

LEMMA PromiseStep ==
  TypeOK /\ SingleSession /\ ConsentInv /\ EndedInv /\ PromiseInv /\ [Next]_vars
    => [Promise!Next]_(Promise!vars)
  <1> SUFFICES ASSUME TypeOK, SingleSession, ConsentInv, EndedInv, PromiseInv, [Next]_vars
               PROVE  [Promise!Next]_(Promise!vars)
    OBVIOUS
  <1>1. CASE GoesQuiet \/ UNCHANGED vars
    <2>1. UNCHANGED <<slot, files, prep, answer, upVars, ctlVars, reported, withdrawn>>
      BY <1>1 DEF GoesQuiet, vars, slotVars, prepVars
    <2>2. Debts' = Debts
      BY <2>1, OwedSame DEF Owing, Owed, upVars, ctlVars
    <2> QED
      BY <2>1, <2>2, UnseenStutters DEF Unseen, Phase, SaidTo, ToCome
  <1> QED
    BY <1>1, PrepKept, AppKept, UpKept, CtlKept DEF Next

\* The server implements Sessions, for any number of calls that overlap and any
\* order in which the runtime runs them: one session at a time, begun once and only
\* as the user agreed, ended once, and its end told once (prepare_upload, upload,
\* settle_file, cancel, cancel_session, watch_sessions).
THEOREM SessionsKeptHolds == Spec => SessionsKept
  BY PromiseInit, PromiseStep, TypeCorrect, SingleSessionHolds, ConsentInvHolds, EndedInvHolds,
     PromiseInvHolds, PTL DEF Spec, SessionsKept, Promise!Spec

-----------------------------------------------------------------------------
(* No end is forgotten, and no sender is replaced.                           *)

\* An end that somebody is about to report stays so until it is reported.
Accounted(p) == reported[p] # <<>> \/ Reporting(p) # {}

LEMMA AppendNotEmpty ==
  ASSUME NEW S, NEW s \in Seq(S), NEW o
  PROVE  Append(s, o) # <<>>
  <1>1. Len(Append(s, o)) = Len(s) + 1 /\ Len(s) \in Nat
    OBVIOUS
  <1>2. Len(s) + 1 # 0
    BY <1>1
  <1>3. Len(<<>>) = 0
    OBVIOUS
  <1> QED
    BY <1>1, <1>2, <1>3, Zenon

LEMMA AccountedKept ==
  ASSUME TypeOK, NEW p \in Prep, Accounted(p), [Next]_vars
  PROVE  Accounted(p)'
  <1>1. CASE UNCHANGED <<upVars, ctlVars, reported>>
    BY <1>1 DEF Accounted, Reporting, upVars, ctlVars
  <1>2. ASSUME NEW q \in Prep, PrepNext(q) \/ AppNext(q)
        PROVE  UNCHANGED <<upVars, ctlVars, reported>>
    BY <1>2 DEF PrepNext, RefuseEarly, ClaimLock, ClaimRefused, Claim, Raise, RaiseFailed,
           CancelSeen, DecisionTimeout, DecideNo, Disconnect, DecideYes, InstallLock,
           InstallNothing, Install, GuardDrop, AppNext, Accept, AcceptAtOnce, Answered,
           SendAccept, Decline, Discard, AnswerStep
  <1>3. ASSUME NEW u \in Up, UpNext(u) PROVE Accounted(p)'
    <2>1. UNCHANGED ctlVars
      BY <1>3 DEF UpNext, EnterLock, EnterRefused, EnterWrongFile, Admit, NoDestination,
             StartReceiving, BodyEnds, DropUpload, SettleLock, SettleGone, Settle, Report
    <2>2. CASE Report(u)
      <3>1. UNCHANGED <<job, complete>> /\ \A v \in Up \ {u} : up'[v] = up[v]
        BY <2>2 DEF Report, UpStep, TypeOK
      <3>2. reported'[p] = reported[p] \/ reported'[p] = Append(reported[p], "completed")
        BY <2>2 DEF Report, TypeOK
      <3>3. reported[p] # <<>> => reported'[p] # <<>>
        BY <3>2 DEF TypeOK
      <3>4. ASSUME complete[u], job[u].session = p PROVE reported'[p] # <<>>
        <4>1. reported'[p] = Append(reported[p], "completed")
          BY <2>2, <3>4 DEF Report, TypeOK
        <4>2. reported[p] \in Seq(Outcome)
          BY DEF TypeOK
        <4> QED
          BY <4>1, <4>2, AppendNotEmpty
      <3>5. \A x \in Reporting(p) : x \in Reporting(p)' \/ (x = u /\ complete[u] /\ job[u].session = p)
        BY <2>1, <3>1, ConstantsAssumption DEF Reporting, ctlVars
      <3> QED
        BY <3>3, <3>4, <3>5 DEF Accounted
    <2>3. CASE ~Report(u)
      <3>1. UNCHANGED reported /\ up[u] # "report"
        BY <1>3, <2>3 DEF UpNext, EnterLock, EnterRefused, EnterWrongFile, Admit, NoDestination,
               UpStep, StartReceiving, BodyEnds, DropUpload, SettleLock, SettleGone, Settle
      <3>2. \A v \in Up \ {u} : up'[v] = up[v] /\ job'[v] = job[v] /\ complete'[v] = complete[v]
        BY <1>3, <2>3 DEF UpNext, EnterLock, EnterRefused, EnterWrongFile, Admit, NoDestination,
               UpStep, StartReceiving, BodyEnds, DropUpload, SettleLock, SettleGone, Settle, TypeOK
      <3>3. Reporting(p) \subseteq Reporting(p)'
        BY <2>1, <3>1, <3>2 DEF Reporting, ctlVars
      <3> QED
        BY <3>1, <3>3 DEF Accounted
    <2> QED
      BY <2>2, <2>3
  <1>4. CASE CtlNext
    <2>1. ASSUME NEW c \in Ctl, CtlReport(c) PROVE Accounted(p)'
      <3>1. UNCHANGED upVars /\ \A d \in Ctl \ {c} : ctl'[d] = ctl[d] /\ victim'[d] = victim[d]
        BY <2>1 DEF CtlReport, CtlStep, TypeOK
      <3>2. reported'[p] = reported[p] \/ reported'[p] = Append(reported[p], OutcomeOf(c))
        BY <2>1 DEF CtlReport, TypeOK
      <3>3. reported[p] # <<>> => reported'[p] # <<>>
        BY <3>2 DEF TypeOK
      <3>4. ASSUME victim[c] = p PROVE reported'[p] # <<>>
        <4>1. reported'[p] = Append(reported[p], OutcomeOf(c))
          BY <2>1, <3>4 DEF CtlReport, TypeOK
        <4>2. reported[p] \in Seq(Outcome)
          BY DEF TypeOK
        <4> QED
          BY <4>1, <4>2, AppendNotEmpty
      <3>5. \A x \in Reporting(p) : x \in Reporting(p)' \/ (x = c /\ victim[c] = p)
        BY <3>1, ConstantsAssumption DEF Reporting, upVars
      <3> QED
        BY <3>3, <3>4, <3>5 DEF Accounted
    <2>2. ASSUME NEW c \in Ctl, CtlLock(c) \/ CtlNothing(c) \/ EndSession(c),
                 UNCHANGED <<upVars, reported>>
          PROVE  Accounted(p)'
      <3>1. ctl[c] # "report" /\ \A d \in Ctl \ {c} : ctl'[d] = ctl[d] /\ victim'[d] = victim[d]
        BY <2>2 DEF CtlLock, CtlNothing, EndSession, CtlStep, TypeOK
      <3>2. Reporting(p) \subseteq Reporting(p)'
        BY <2>2, <3>1 DEF Reporting, upVars
      <3> QED
        BY <2>2, <3>2 DEF Accounted
    <2>3. CASE CancelPending \/ CancelActive \/ CancelSession \/ WatchSessions
      <3>1. \E c \in Ctl : EndSession(c) /\ UNCHANGED <<upVars, reported>>
        BY <2>3 DEF CancelPending, CancelActive, CancelSession, WatchSessions, Ctl
      <3> QED
        BY <2>2, <3>1
    <2>4. ASSUME NEW c \in Ctl, CtlLock(c) \/ CtlNothing(c) PROVE UNCHANGED <<upVars, reported>>
      BY <2>4 DEF CtlLock, CtlNothing
    <2> QED
      BY <1>4, <2>1, <2>2, <2>3, <2>4 DEF CtlNext
  <1>5. CASE GoesQuiet \/ UNCHANGED vars
    BY <1>1, <1>5 DEF GoesQuiet, vars
  <1> QED
    BY <1>1, <1>2, <1>3, <1>4, <1>5 DEF Next

\* The slot changes hands only by one of these.
LEMMA SlotSteps ==
  ASSUME TypeOK, PromiseInv, [Next]_vars, NEW p \in Prep, slot = Active(p), slot' # Active(p)
  PROVE  Accounted(p)' \/ \E q \in Prep : Install(q) \/ InstallNothing(q)
  <1>1. ASSUME NEW d \in Ctl, EndSession(d), UNCHANGED <<upVars, reported>> PROVE Accounted(p)'
    <2>1. ctl'[d] = "report" /\ victim'[d] = p
      BY <1>1 DEF EndSession, CtlStep, TypeOK, Active
    <2>2. d \in Reporting(p)'
      BY <2>1 DEF Reporting
    <2> QED
      BY <2>2 DEF Accounted
  <1>2. ASSUME NEW u \in Up, Settle(u) PROVE Accounted(p)'
    <2>1. AllSettled([files EXCEPT ![job[u].file].status =
                        SettledStatus(result[u], files[job[u].file].attempts)])
      BY <1>2 DEF Settle
    <2>2. up'[u] = "report" /\ complete'[u] /\ job'[u].session = p
      BY <1>2, <2>1 DEF Settle, UpStep, StillMine, Active, TypeOK
    <2>3. u \in Reporting(p)'
      BY <2>2 DEF Reporting
    <2> QED
      BY <2>3 DEF Accounted
  <1>3. \A q \in Prep : GuardDrop(q) => slot' = slot
    BY DEF GuardDrop, Pending, Active
  <1>4. \A q \in Prep : ~Claim(q)
    BY DEF Claim, SlotFree, Active
  <1>5. CASE CancelPending \/ CancelActive \/ CancelSession \/ WatchSessions
    <2>1. \E d \in Ctl : EndSession(d) /\ UNCHANGED <<upVars, reported>>
      BY <1>5 DEF CancelPending, CancelActive, CancelSession, WatchSessions, Ctl
    <2> QED
      BY <1>1, <2>1
  <1>6. ASSUME NEW q \in Prep, PrepNext(q) \/ AppNext(q), ~Install(q), ~InstallNothing(q)
        PROVE  slot' = slot
    BY <1>3, <1>4, <1>6 DEF PrepNext, RefuseEarly, ClaimLock, ClaimRefused, Raise, RaiseFailed,
           CancelSeen, DecisionTimeout, DecideNo, Disconnect, DecideYes, InstallLock,
           AppNext, Accept, AcceptAtOnce, Answered, SendAccept, Decline, Discard, AnswerStep,
           slotVars
  <1>7. ASSUME NEW u \in Up, UpNext(u), ~Settle(u) PROVE slot' = slot
    BY <1>7 DEF UpNext, EnterLock, EnterRefused, EnterWrongFile, Admit, NoDestination,
           StartReceiving, BodyEnds, DropUpload, SettleLock, SettleGone, Report, slotVars
  <1>8. ASSUME NEW c \in Ctl, CtlLock(c) \/ CtlNothing(c) \/ CtlReport(c) PROVE slot' = slot
    BY <1>8 DEF CtlLock, CtlNothing, CtlReport, slotVars
  <1>9. CASE GoesQuiet \/ UNCHANGED vars
    BY <1>9 DEF GoesQuiet, vars, slotVars
  <1> QED
    BY <1>2, <1>5, <1>6, <1>7, <1>8, <1>9 DEF Next, CtlNext

\* What EndAccounted needs of a step that installs: nobody was in the slot.
AccountInv == withdrawn = {} =>
    \A p \in Prep : prep[p] = "served" /\ slot # Active(p) => Accounted(p)

LEMMA AccountStep ==
  TypeOK /\ SingleSession /\ EndedInv /\ PromiseInv /\ AccountInv /\ [Next]_vars => AccountInv'
  <1> SUFFICES ASSUME TypeOK, SingleSession, EndedInv, PromiseInv, AccountInv, [Next]_vars,
                      withdrawn' = {}, NEW p \in Prep, prep'[p] = "served", slot' # Active(p)
               PROVE  Accounted(p)'
    BY DEF AccountInv
  <1>1. withdrawn = {}
    <2>1. withdrawn \subseteq withdrawn'
      BY DEF Next, vars, PrepNext, RefuseEarly, ClaimLock, ClaimRefused, Claim, Raise, RaiseFailed,
             CancelSeen, DecisionTimeout, DecideNo, Disconnect, DecideYes, InstallLock,
             InstallNothing, Install, GuardDrop, AppNext, Accept, AcceptAtOnce, Answered,
             SendAccept, Decline, Discard, AnswerStep, UpNext, EnterLock, EnterRefused,
             EnterWrongFile, Admit, NoDestination, StartReceiving, BodyEnds, DropUpload,
             SettleLock, SettleGone, Settle, Report, CtlNext, CtlLock, CtlNothing, CtlReport,
             CancelPending, CancelActive, CancelSession, WatchSessions, GoesQuiet
    <2> QED
      BY <2>1
  <1>2. CASE prep[p] = "served" /\ slot # Active(p)
    BY <1>1, <1>2, AccountedKept DEF AccountInv
  <1>3. CASE slot = Active(p)
    <2>1. ASSUME NEW q \in Prep, Install(q) \/ InstallNothing(q) PROVE FALSE
      <3>1. slot = Pending(q)
        BY <1>1, <2>1 DEF Install, InstallNothing, PrepStep, SingleSession, Undecided
      <3> QED
        BY <1>3, <3>1 DEF Pending, Active
    <2> QED
      BY <1>3, <2>1, SlotSteps
  <1>4. CASE prep[p] # "served"
    <2>1. ASSUME NEW q \in Prep, PrepNext(q) PROVE q = p /\ slot' = Active(p)
      BY <1>4, <2>1 DEF PrepNext, RefuseEarly, ClaimLock, ClaimRefused, Claim, Raise, RaiseFailed,
             CancelSeen, DecisionTimeout, DecideNo, Disconnect, DecideYes, InstallLock,
             InstallNothing, Install, GuardDrop, PrepStep, TypeOK
    <2>2. (\E q \in Prep : PrepNext(q)) \/ UNCHANGED prep
      BY DEF Next, vars, AppNext, Accept, AcceptAtOnce, Answered, prepVars,
             SendAccept, Decline, Discard, AnswerStep, UpNext, EnterLock, EnterRefused,
             EnterWrongFile, Admit, NoDestination, StartReceiving, BodyEnds, DropUpload,
             SettleLock, SettleGone, Settle, Report, CtlNext, CtlLock, CtlNothing, CtlReport,
             CancelPending, CancelActive, CancelSession, WatchSessions, GoesQuiet
    <2> QED
      BY <1>4, <2>1, <2>2
  <1> QED
    BY <1>2, <1>3, <1>4

\* Every session that ended was reported or is about to be, whoever ended it, as
\* long as no pending request was cancelled: for every number of calls.
THEOREM EndAccountedHolds == Spec => []EndAccounted
  <1>1. Init => AccountInv
    BY DEF Init, AccountInv
  <1>2. AccountInv => EndAccounted
    BY DEF AccountInv, EndAccounted, Accounted
  <1> QED
    BY <1>1, <1>2, AccountStep, TypeCorrect, SingleSessionHolds, EndedInvHolds, PromiseInvHolds,
       PTL DEF Spec

\* The slot goes straight from one session to another only after a cancellation
\* that the handler of a pending request did not see: "two senders cannot interleave
\* their files" (server.rs:5) as long as no pending request was cancelled.
THEOREM InterleavingNeedsCancel ==
  Spec => [][withdrawn = {} /\ slot.kind # "none" /\ slot'.kind # "none" => slot'.id = slot.id]_vars
  <1>1. ASSUME TypeOK, SingleSession, Next, withdrawn = {}, slot.kind # "none", slot'.kind # "none"
        PROVE  slot'.id = slot.id
    <2>1. ASSUME NEW q \in Prep, PrepNext(q) PROVE slot'.id = slot.id
      <3>1. CASE Install(q)
        <4>1. slot = Pending(q) /\ slot' = Active(q)
          BY <1>1, <3>1 DEF Install, PrepStep, SingleSession, Undecided
        <4> QED
          BY <4>1 DEF Pending, Active
      <3>2. CASE ~Install(q)
        BY <1>1, <2>1, <3>2 DEF PrepNext, RefuseEarly, ClaimLock, ClaimRefused, Claim, Raise,
               RaiseFailed, CancelSeen, DecisionTimeout, DecideNo, Disconnect, DecideYes,
               InstallLock, InstallNothing, GuardDrop, SlotFree, Clear, NoSession, slotVars
      <3> QED
        BY <3>1, <3>2
    <2>2. (\E q \in Prep : PrepNext(q)) \/ slot' = slot \/ slot' = NoSession
      BY <1>1 DEF Next, AppNext, Accept, AcceptAtOnce, Answered, slotVars,
             SendAccept, Decline, Discard, AnswerStep, UpNext, EnterLock, EnterRefused,
             EnterWrongFile, Admit, NoDestination, StartReceiving, BodyEnds, DropUpload,
             SettleLock, SettleGone, Settle, Report, CtlNext, CtlLock, CtlNothing, CtlReport,
             CancelPending, CancelActive, CancelSession, WatchSessions, EndSession, Clear, GoesQuiet
    <2> QED
      BY <1>1, <2>1, <2>2 DEF NoSession
  <1> QED
    BY <1>1, TypeCorrect, SingleSessionHolds, PTL DEF Spec

=============================================================================
