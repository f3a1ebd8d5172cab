------------------------------ MODULE RowsProofs ------------------------------
(***************************************************************************)
(* What the user is shown of received sessions, for every number of        *)
(* requests, uploads and events on their way: the prompt reaches every     *)
(* request that waits, the list shows the session that is being received,  *)
(* and the history does not call a failure done or a completed session     *)
(* failed.                                                                 *)
(***************************************************************************)
EXTENDS ReceivePathProofs

(* A request that waits for the user reaches the prompt.                     *)

Raised(p) == [kind |-> "prepare", id |-> p]
Comes(e)  == \E i \in DOMAIN channel : channel[i] = e

\* What is on its way stays on its way, whatever is sent.
LEMMA ComesSent ==
  ASSUME AppTypeOK, NEW events \in Seq(Event), Sends(events), NEW e, Comes(e)
  PROVE  Comes(e)'
  <1>1. PICK i \in DOMAIN channel : channel[i] = e
    BY DEF Comes
  <1>2. i \in DOMAIN channel' /\ channel'[i] = channel[i]
    BY DEF AppTypeOK, Sends
  <1> QED
    BY <1>1, <1>2 DEF Comes

LEMMA ComesAtEnd ==
  ASSUME AppTypeOK, NEW e \in Event, Sends(<<e>>)
  PROVE  Comes(e)'
  <1>1. Len(channel) + 1 \in DOMAIN channel' /\ channel'[Len(channel) + 1] = e
    BY DEF AppTypeOK, Sends
  <1> QED
    BY <1>1 DEF Comes

\* The pump takes the first event and no other.
LEMMA ComesPumped ==
  ASSUME AppTypeOK, NEW kind, Pump(kind), NEW e, Comes(e), e # Head(channel)
  PROVE  Comes(e)'
  <1>1. PICK i \in DOMAIN channel : channel[i] = e
    BY DEF Comes
  <1>2. i # 1 /\ i \in 1 .. Len(channel) /\ channel # <<>>
    BY <1>1 DEF AppTypeOK, Pump
  <1>3. i - 1 \in DOMAIN channel' /\ channel'[i - 1] = channel[i]
    BY <1>2 DEF AppTypeOK, Pump
  <1> QED
    BY <1>1, <1>3 DEF Comes

\* The events of a request.
LEMMA PrepEventsType == ASSUME NEW p \in Prep PROVE PrepEvents(p) \in Seq(Event)
  <1>1. Raised(p) \in Event
    BY DEF Event, Raised
  <1>2. <<>> \in Seq(Event) /\ <<Raised(p)>> \in Seq(Event)
    BY <1>1
  <1> QED
    BY <1>2 DEF PrepEvents, Raised

Waits(p) == answer[p].kind = "open" => incoming = p \/ Comes(Raised(p))

\* A server's step raises the request with its event, and only its own.
LEMMA PrepWaits ==
  ASSUME AppInv, NEW q \in Prep, PrepRuns(q), NEW p \in Prep, Waits(p)
  PROVE  Waits(p)'
  <1> USE DEF AppInv
  <1>1. PrepEvents(q) \in Seq(Event) /\ Sends(PrepEvents(q)) /\ UNCHANGED incoming
    BY PrepEventsType DEF PrepRuns, UnchangedApp
  <1>2. CASE Raise(q) /\ p = q
    <2>1. PrepEvents(q) = <<Raised(q)>>
      BY <1>2 DEF PrepEvents, Raise, PrepStep, Raised, ServerInv, TypeOK
    <2>2. Raised(q) \in Event
      BY DEF Raised, Event
    <2> QED
      BY <1>1, <1>2, <2>1, <2>2, ComesAtEnd DEF Waits, Raised
  <1>3. CASE answer'[p] = answer[p]
    BY <1>1, <1>3, ComesSent DEF Waits, Raised
  <1>4. answer'[p] = answer[p] \/ (Raise(q) /\ p = q)
    BY DEF PrepRuns, PrepNext, RefuseEarly, ClaimLock, ClaimRefused, Claim, RaiseFailed,
           Raise, CancelSeen, DecisionTimeout, DecideNo, DecideYes, Disconnect, InstallLock,
           InstallNothing, Install, GuardDrop, ServerInv, TypeOK
  <1> QED
    BY <1>2, <1>3, <1>4

\* Whoever is taken out of the prompt is answered.
LEMMA PromptLeft ==
  ASSUME AppInv, incoming \in Prep, NEW p \in Prep, Waits(p),
         \/ \E to \in {"decline", "dropped", "accept"} : AnswerStep(incoming, "open", to)
         \/ \E S : Answered(incoming, S, "accepting"),
         Comes(Raised(p)) => Comes(Raised(p))' \/ incoming' = p
  PROVE  Waits(p)'
  <1> USE DEF AppInv, ServerInv, TypeOK
  <1>1. PICK r \in Prep : r = incoming
    OBVIOUS
  <1>2. p # r => answer'[p] = answer[p]
    BY <1>1 DEF AnswerStep, Answered
  <1>3. answer'[r].kind # "open"
    <2>1. ASSUME NEW to \in {"decline", "dropped", "accept"}, AnswerStep(r, "open", to)
          PROVE  answer'[r].kind = to
      BY <2>1 DEF AnswerStep, Answer
    <2>2. ASSUME NEW S, Answered(r, S, "accepting") PROVE answer'[r].kind = "accepting"
      BY <2>2 DEF Answered
    <2> QED
      BY <1>1, <2>1, <2>2
  <1> QED
    BY <1>1, <1>2, <1>3 DEF Waits, Raised

LEMMA UserWaits ==
  ASSUME AppInv, NEW q \in Prep, UserNext(q), NEW p \in Prep, Waits(p)
  PROVE  Waits(p)'
  <1>1. UNCHANGED channel
    BY DEF UserNext, RespondStale, RespondNo, RespondNothing, RespondYes, DismissTransfer,
           UserCancels
  <1>2. Comes(Raised(p)) => Comes(Raised(p))'
    BY <1>1 DEF Comes, Raised
  <1>3. CASE DismissTransfer(q) \/ UserCancels(q)
    BY <1>2, <1>3 DEF DismissTransfer, UserCancels, vars, prepVars, Waits
  <1>4. CASE RespondStale(q) \/ RespondNo(q) \/ RespondNothing(q)
    <2>1. incoming \in Prep
      BY <1>4 DEF RespondStale, RespondNo, RespondNothing, Respond, AppInv, AppTypeOK
    <2>2. \E to \in {"decline", "dropped", "accept"} : AnswerStep(incoming, "open", to)
      BY <1>4 DEF RespondStale, RespondNo, RespondNothing, Discard, Decline
    <2> QED
      BY <1>2, <2>1, <2>2, PromptLeft
  <1>5. ASSUME NEW S \in SUBSET File, RespondYes(q, S) PROVE Waits(p)'
    <2>1. incoming \in Prep
      BY <1>5 DEF RespondYes, Respond, AppInv, AppTypeOK
    <2>2. Answered(incoming, S, "accepting")
      BY <1>5 DEF RespondYes, Accept
    <2> QED
      BY <1>2, <2>1, <2>2, PromptLeft
  <1> QED
    BY <1>3, <1>4, <1>5 DEF UserNext

LEMMA PumpWaits ==
  ASSUME AppInv,
         PumpPrompt \/ PumpAutoAccept \/ PumpEnded \/ (\E kind \in FileEvent : PumpFile(kind)),
         NEW p \in Prep, Waits(p)
  PROVE  Waits(p)'
  <1> USE DEF AppInv
  <1>1. ASSUME NEW kind, Pump(kind), Comes(Raised(p)), Head(channel) # Raised(p)
        PROVE  Comes(Raised(p))'
    BY <1>1, ComesPumped DEF Raised
  <1>2. CASE PumpPrompt
    <2>1. Head(channel) \in Event /\ Head(channel).kind = "prepare"
      BY <1>2, PumpType DEF PumpPrompt
    <2>2. Comes(Raised(p)) => Comes(Raised(p))' \/ incoming' = p
      BY <1>1, <1>2 DEF PumpPrompt, Raised
    <2>3. CASE Replaces
      <3>1. incoming \in Prep
        BY <2>3 DEF Replaces, AppTypeOK
      <3>2. AnswerStep(incoming, "open", "dropped")
        BY <1>2, <2>3 DEF PumpPrompt, Discard
      <3> QED
        BY <2>2, <3>1, <3>2, PromptLeft
    <2>4. CASE ~Replaces
      <3>1. incoming # p
        BY <2>4, ConstantsAssumption DEF Replaces, Caller
      <3>2. UNCHANGED answer
        BY <1>2, <2>4 DEF PumpPrompt, vars, prepVars
      <3> QED
        BY <2>2, <3>1, <3>2 DEF Waits
    <2> QED
      BY <2>3, <2>4
  <1>3. CASE PumpAutoAccept
    <2>1. Head(channel) \in Event /\ Head(channel).kind = "prepare" /\ UNCHANGED incoming
      BY <1>3, PumpType DEF PumpAutoAccept
    <2>2. Head(channel).id \in Prep
      BY <2>1 DEF Event, FileEvent
    <2>3. CASE p = Head(channel).id
      <3>1. answer'[p].kind = "accept"
        BY <1>3, <2>2, <2>3 DEF PumpAutoAccept, AcceptAtOnce, Answered, ServerInv, TypeOK
      <3> QED
        BY <3>1 DEF Waits
    <2>4. CASE p # Head(channel).id
      <3>1. answer'[p] = answer[p]
        BY <1>3, <2>2, <2>4 DEF PumpAutoAccept, AcceptAtOnce, Answered, ServerInv, TypeOK
      <3>2. Comes(Raised(p)) => Comes(Raised(p))'
        BY <1>1, <1>3, <2>4 DEF PumpAutoAccept, Raised
      <3> QED
        BY <2>1, <3>1, <3>2 DEF Waits
    <2> QED
      BY <2>3, <2>4
  <1>4. CASE PumpEnded \/ \E kind \in FileEvent : PumpFile(kind)
    <2>1. UNCHANGED <<answer, incoming>>
      BY <1>4 DEF PumpEnded, PumpFile, vars, prepVars
    <2>2. PICK kind \in FileEvent \cup {"ended"} : Pump(kind)
      BY <1>4 DEF PumpEnded, PumpFile
    <2>3. Comes(Raised(p)) => Comes(Raised(p))'
      BY <1>1, <2>2 DEF Pump, Raised, FileEvent
    <2> QED
      BY <2>1, <2>3 DEF Waits
  <1> QED
    BY <1>2, <1>3, <1>4

\* The rest of the server and of the commands: they answer no open request and
\* take nothing off the channel.
LEMMA RestWaits ==
  ASSUME AppInv,
         \/ (\E u \in Up : UpRuns(u)) \/ CtlRuns \/ CtlEnds
         \/ CancelTakesLock \/ CancelFreesSlot \/ CancelFindsNothing \/ CancelReports
         \/ \E q \in Prep : SendDecision(q),
         NEW p \in Prep, Waits(p)
  PROVE  Waits(p)'
  <1> USE DEF AppInv, ServerInv
  <1>1. ASSUME NEW q \in Prep, SendDecision(q) PROVE Waits(p)'
    <2>1. answer'[p].kind = "open" => answer[p].kind = "open"
      BY <1>1 DEF SendDecision, SendAccept, AnswerStep, TypeOK
    <2> QED
      BY <1>1, <2>1 DEF SendDecision, Waits, Comes, Raised
  <1>2. ASSUME NEW events \in Seq(Event), Sends(events), UNCHANGED <<answer, incoming>>
        PROVE  Waits(p)'
    BY <1>2, ComesSent DEF Waits, Raised
  <1>3. ASSUME NEW u \in Up, UpRuns(u) PROVE Waits(p)'
    <2>1. UNCHANGED answer
      BY <1>3, OthersAgree DEF UpRuns
    <2> QED
      BY <1>2, <1>3, <2>1, UpEventsType DEF UpRuns, UnchangedApp
  <1>4. CASE CtlRuns \/ CancelTakesLock \/ CancelFreesSlot
    <2>1. UNCHANGED <<answer, incoming, channel>>
      BY <1>4, OthersAgree DEF CtlRuns, CancelTakesLock, CancelFreesSlot, appVars, CtlNext,
                              Background, Ctl
    <2> QED
      BY <2>1 DEF Waits, Comes, Raised
  <1>5. ASSUME NEW c \in Ctl, CtlReport(c), NEW o \in Outcome, UNCHANGED incoming,
               Sends(<<EndEvent(victim[c], o)>>)
        PROVE  Waits(p)'
    <2>1. victim[c] \in Prep
      BY <1>5 DEF CtlReport, CtlStep, VictimInv
    <2>2. <<EndEvent(victim[c], o)>> \in Seq(Event)
      BY <2>1 DEF EndEvent, Event
    <2>3. UNCHANGED answer
      BY <1>5, OthersAgree DEF CtlNext
    <2> QED
      BY <1>2, <1>5, <2>2, <2>3
  <1>6. CASE CtlEnds
    BY <1>5, <1>6 DEF CtlEnds, Background, OutcomeOf, Outcome, UnchangedApp
  <1>7. CASE CancelReports
    <2>1. "cancel_session" \in Ctl /\ "cancelled" \in Outcome
      BY DEF Ctl, Outcome
    <2> QED
      BY <1>5, <1>7, <2>1 DEF CancelReports, Cancelled
  <1>8. CASE CancelFindsNothing
    <2>1. <<>> \in Seq(Event) /\ Sends(<<>>) /\ UNCHANGED incoming
      BY <1>8 DEF CancelFindsNothing, Cancelled
    <2>2. UNCHANGED answer
      BY <1>8, OthersAgree DEF CancelFindsNothing, CtlNext, Ctl
    <2> QED
      BY <1>2, <2>1, <2>2
  <1> QED
    BY <1>1, <1>3, <1>4, <1>6, <1>7, <1>8

WaitsInv == \A p \in Prep : Waits(p)

LEMMA WaitsStep == AppInv /\ WaitsInv /\ [AppSpecNext]_<<vars, appVars>> => WaitsInv'
  <1> SUFFICES ASSUME AppInv, WaitsInv, [AppSpecNext]_<<vars, appVars>>, NEW p \in Prep
               PROVE  Waits(p)'
    BY DEF WaitsInv
  <1>1. Waits(p)
    BY DEF WaitsInv
  <1>2. CASE AppSpecNext
    BY <1>1, <1>2, PrepWaits, UserWaits, PumpWaits, RestWaits DEF AppSpecNext, AppRuns
  <1>3. CASE UNCHANGED <<vars, appVars>>
    BY <1>1, <1>3 DEF Waits, Comes, Raised, vars, prepVars, appVars
  <1> QED
    BY <1>2, <1>3

\* No handler waits on an answer that nobody can give: whatever prompts replace
\* each other, a request that is open is in the prompt or on its way there.
THEOREM PromptReachableHolds == AppSpec => []PromptReachable
  <1>1. AppInit => WaitsInv
    BY DEF AppInit, Init, Unanswered, WaitsInv, Waits
  <1>2. WaitsInv => PromptReachable
    BY DEF WaitsInv, Waits, Comes, Raised, PromptReachable
  <1> QED
    BY <1>1, <1>2, AppInit0, AppStep, WaitsStep, PTL DEF AppSpec

-----------------------------------------------------------------------------
(* The server, for sessions that were withdrawn as well: a session that was  *)
(* active ends by completing or by timing out, not by both.                  *)

Said(p, o) == \E i \in DOMAIN reported[p] : reported[p][i] = o
Final == {"completed", "timedOut"}

\* Caller x still has to say that p completed, or that it timed out.
Finishes(x, p) == Reports(x, p) /\ (x \in Up \/ x = "watchdog")

\* Session p was installed and has left the slot.
Gone(p) == prep[p] = "served" /\ slot # Active(p)

FinalFor(p) ==
    /\ \A x \in Ctl \cup Up : Finishes(x, p) =>
          /\ Gone(p)
          /\ \A o \in Final : ~Said(p, o)
          /\ \A y \in Ctl \cup Up : Finishes(y, p) => y = x
    /\ \A o \in Final : Said(p, o) => Gone(p) /\ \A r \in Final : Said(p, r) => r = o

\* A handler that has left does not come back, and one that installed its
\* session has returned.
LEMMA Behind ==
  ASSUME TypeOK, [Next]_vars, NEW p \in Prep
  PROVE  /\ prep[p] \in {"leaving", "done"} => prep'[p] \in {"leaving", "done"}
         /\ prep[p] = "served" => prep'[p] = "served"
  <1>1. ASSUME NEW q \in Prep, PrepNext(q)
        PROVE  \/ prep'[p] = prep[p]
               \/ prep[p] = "leaving" /\ prep'[p] = "done"
               \/ prep[p] \notin {"leaving", "done", "served"}
    BY <1>1 DEF PrepNext, RefuseEarly, ClaimLock, ClaimRefused, Claim, Raise, RaiseFailed,
           CancelSeen, DecisionTimeout, DecideNo, DecideYes, Disconnect, InstallLock,
           InstallNothing, Install, GuardDrop, PrepStep, TypeOK
  <1>2. CASE UNCHANGED prep
    BY <1>2
  <1>3. ASSUME NEW q \in Prep, AppNext(q) PROVE UNCHANGED prep
    BY <1>3 DEF AppNext, Accept, AcceptAtOnce, Answered, SendAccept, Decline, Discard, AnswerStep
  <1>4. ASSUME NEW u \in Up, UpNext(u) PROVE UNCHANGED prep
    BY <1>4 DEF UpNext, EnterLock, EnterRefused, EnterWrongFile, Admit, NoDestination,
           StartReceiving, BodyEnds, DropUpload, SettleLock, SettleGone, Settle, Report, prepVars
  <1>5. CASE CtlNext \/ GoesQuiet \/ UNCHANGED vars
    BY <1>5 DEF CtlNext, CtlLock, CtlNothing, CtlReport, CancelPending, CancelActive,
           CancelSession, WatchSessions, GoesQuiet, prepVars, vars
  <1> QED
    BY <1>1, <1>2, <1>3, <1>4, <1>5 DEF Next

\* No handler installs a session again.
LEMMA StaysGone ==
  ASSUME TypeOK, [Next]_vars, NEW p \in Prep, Gone(p)
  PROVE  Gone(p)'
  <1>1. prep'[p] = "served"
    BY Behind DEF Gone
  <1>2. \/ slot' = slot \/ slot' = NoSession
        \/ \E q \in Prep : slot' = Pending(q)
        \/ \E q \in Prep : prep[q] # "served" /\ slot' = Active(q)
    <2>1. ASSUME NEW q \in Prep, PrepNext(q)
          PROVE  \/ slot' = slot \/ slot' = NoSession \/ slot' = Pending(q)
                 \/ prep[q] # "served" /\ slot' = Active(q)
      BY <2>1 DEF PrepNext, RefuseEarly, ClaimLock, ClaimRefused, Claim, Raise, RaiseFailed,
           CancelSeen, DecisionTimeout, DecideNo, DecideYes, Disconnect, InstallLock,
           InstallNothing, Install, GuardDrop, PrepStep, Clear, slotVars
    <2>2. ASSUME NEW q \in Prep, AppNext(q) PROVE slot' = slot
      BY <2>2 DEF AppNext, Accept, AcceptAtOnce, Answered, SendAccept, Decline, Discard,
                  AnswerStep, slotVars
    <2>3. ASSUME NEW u \in Up, UpNext(u) PROVE slot' = slot \/ slot' = NoSession
      BY <2>3 DEF UpNext, EnterLock, EnterRefused, EnterWrongFile, Admit, NoDestination,
           StartReceiving, BodyEnds, DropUpload, SettleLock, SettleGone, Settle, Report,
           Clear, slotVars
    <2>4. CASE CtlNext \/ GoesQuiet \/ UNCHANGED vars
      BY <2>4 DEF CtlNext, CtlLock, CtlNothing, CtlReport, CancelPending, CancelActive,
           CancelSession, WatchSessions, EndSession, Clear, GoesQuiet, slotVars, vars
    <2> QED
      BY <2>1, <2>2, <2>3, <2>4 DEF Next
  <1>3. /\ NoSession # Active(p)
        /\ \A q \in Prep : Pending(q) # Active(p) /\ (Active(q) = Active(p) => q = p)
    BY DEF NoSession, Pending, Active
  <1> QED
    BY <1>1, <1>2, <1>3 DEF Gone

\* The words that are said in a step: by x of session q, or none.
SaysOnly(x, q, o) ==
    /\ Reports(x, q)
    /\ reported' = [reported EXCEPT ![q] = Append(@, o)]
    /\ \A p \in Prep, y \in Ctl \cup Up : Reports(y, p)' => Reports(y, p) /\ y # x

\* x takes the active session q out of the slot, or nobody does.
Silent(x, q) ==
    /\ reported' = reported
    /\ \A p \in Prep, y \in Ctl \cup Up : Reports(y, p)' =>
          \/ Reports(y, p)
          \/ y = x /\ p = q /\ slot = Active(q) /\ slot' = NoSession
          \/ y \in Ctl \ {"watchdog"}

LEMMA SilentFinal ==
  ASSUME TypeOK, EndedInv, [Next]_vars, NEW x, NEW q, Silent(x, q),
         NEW p \in Prep, FinalFor(p)
  PROVE  FinalFor(p)'
  <1>1. Gone(p) => Gone(p)'
    BY StaysGone
  <1>2. \A o \in Final : Said(p, o)' <=> Said(p, o)
    BY DEF Silent, Said
  <1>3. CASE \A y \in Ctl \cup Up : Finishes(y, p)' => Finishes(y, p)
    BY <1>1, <1>2, <1>3 DEF FinalFor
  <1>4. CASE \E y \in Ctl \cup Up : Finishes(y, p)' /\ ~Finishes(y, p)
    <2>1. \A y \in Ctl \cup Up : Finishes(y, p)' /\ ~Finishes(y, p) =>
            y = x /\ p = q /\ slot = Active(p) /\ slot' = NoSession
      BY ConstantsAssumption DEF Silent, Finishes, Ctl
    <2>2. slot = Active(p) /\ slot' = NoSession
      BY <1>4, <2>1
    <2>3. prep[p] = "served" /\ ~Gone(p)
      BY <2>2 DEF EndedInv, Gone
    <2>4. Gone(p)'
      <3>1. NoSession # Active(p)
        BY DEF NoSession, Active
      <3> QED
        BY <2>2, <2>3, <3>1, Behind DEF Gone
    <2>5. \A y \in Ctl \cup Up : ~Finishes(y, p)
      BY <2>3 DEF FinalFor
    <2>6. \A o \in Final : ~Said(p, o)
      BY <2>3 DEF FinalFor
    <2> QED
      BY <1>2, <2>1, <2>4, <2>5, <2>6 DEF FinalFor
  <1> QED
    BY <1>3, <1>4

LEMMA SaysFinal ==
  ASSUME TypeOK, [Next]_vars, NEW q \in Prep, NEW x \in Ctl \cup Up, NEW o \in Outcome,
         SaysOnly(x, q, o), o \in Final <=> (x \in Up \/ x = "watchdog"),
         NEW p \in Prep, FinalFor(p)
  PROVE  FinalFor(p)'
  <1>1. Gone(p) => Gone(p)'
    BY StaysGone
  <1>2. \A y \in Ctl \cup Up : Finishes(y, p)' => Finishes(y, p) /\ y # x
    BY DEF SaysOnly, Finishes
  <1>3. CASE p = q /\ o \in Final
    <2>1. Finishes(x, p)
      BY <1>3 DEF SaysOnly, Finishes
    <2>2. \A r \in Final : Said(p, r)' => r = o
      <3>1. \A r \in Final : ~Said(p, r)
        BY <2>1 DEF FinalFor
      <3>2. reported'[p] = Append(reported[p], o)
        BY <1>3 DEF SaysOnly, TypeOK
      <3>3. reported[p] \in Seq(Outcome)
        BY DEF TypeOK
      <3> QED
        BY <3>1, <3>2, <3>3 DEF Said
    <2>3. \A y \in Ctl \cup Up : ~Finishes(y, p)'
      BY <1>2, <2>1 DEF FinalFor
    <2>4. Gone(p)'
      BY <1>1, <2>1 DEF FinalFor
    <2> QED
      BY <2>2, <2>3, <2>4 DEF FinalFor
  <1>4. CASE p # q \/ o \notin Final
    <2>1. \A r \in Final : Said(p, r)' => Said(p, r)
      <3>1. reported'[p] = reported[p] \/ (reported'[p] = Append(reported[p], o) /\ o \notin Final)
        BY <1>4 DEF SaysOnly, TypeOK
      <3>2. reported[p] \in Seq(Outcome)
        BY DEF TypeOK
      <3> QED
        BY <3>1, <3>2 DEF Said
    <2> QED
      BY <1>1, <1>2, <2>1 DEF FinalFor
  <1> QED
    BY <1>3, <1>4

\* Every step of the server is silent, or says one word.
Speaks ==
    \/ \E x \in Ctl \cup Up, q \in Prep \cup {None} : Silent(x, q)
    \/ \E x \in Ctl \cup Up, q \in Prep, o \in Outcome :
          SaysOnly(x, q, o) /\ (o \in Final <=> (x \in Up \/ x = "watchdog"))

LEMMA UpSpeaks == ASSUME ServerInv, EndedInv, NEW u \in Up, UpNext(u) PROVE Speaks
  <1> USE DEF ServerInv, TypeOK, UpStep, slotVars, prepVars, ctlVars
  <1>1. u \notin Ctl /\ u \in Ctl \cup Up
    BY ConstantsAssumption
  <1>2. \A v \in Up : v # u => up'[v] = up[v]
    BY DEF UpNext, EnterLock, EnterRefused, EnterWrongFile, Admit, NoDestination,
           StartReceiving, BodyEnds, DropUpload, SettleLock, SettleGone, Settle, Report
  <1>3. CASE EnterLock(u) \/ EnterRefused(u) \/ EnterWrongFile(u) \/ NoDestination(u)
             \/ StartReceiving(u) \/ BodyEnds(u) \/ DropUpload(u) \/ SettleLock(u)
             \/ SettleGone(u) \/ \E f \in File : Admit(u, f)
    <2>1. ~complete[u] /\ UNCHANGED <<ctlVars, complete, reported>>
      BY <1>3 DEF EnterLock, EnterRefused, EnterWrongFile, Admit, NoDestination,
           StartReceiving, BodyEnds, DropUpload, SettleLock, SettleGone, EndedInv
    <2>2. \A v \in Up : v # u => job'[v] = job[v]
      BY <1>3 DEF EnterLock, EnterRefused, EnterWrongFile, Admit, NoDestination,
           StartReceiving, BodyEnds, DropUpload, SettleLock, SettleGone
    <2>3. Silent(u, None)
      BY <1>2, <2>1, <2>2 DEF Silent, Reports
    <2> QED
      BY <1>1, <2>3 DEF Speaks
  <1>4. CASE Settle(u)
    <2>1. job[u].session \in Prep
      BY <1>4 DEF Settle, JobInv, Working
    <2>2. ~complete[u] /\ UNCHANGED <<ctlVars, job, reported>>
      BY <1>4 DEF Settle, EndedInv
    <2>3. \A v \in Up : v # u => complete'[v] = complete[v]
      BY <1>4 DEF Settle
    <2>4. complete'[u] => slot = Active(job[u].session) /\ slot' = NoSession
      BY <1>4 DEF Settle, StillMine, Clear
    <2>5. Silent(u, job[u].session)
      BY <1>2, <2>2, <2>3, <2>4 DEF Silent, Reports
    <2> QED
      BY <1>1, <2>1, <2>5 DEF Speaks
  <1>5. CASE Report(u)
    <2>1. job[u].session \in Prep /\ up[u] = "report" /\ up'[u] = "done"
      BY <1>5 DEF Report, JobInv, Working
    <2>2. \A p \in Prep, y \in Ctl \cup Up : Reports(y, p)' => Reports(y, p) /\ y # u
      BY <1>1, <1>2, <1>5, <2>1 DEF Report, Reports
    <2>3. CASE complete[u]
      <3>1. SaysOnly(u, job[u].session, "completed")
        BY <1>5, <2>1, <2>2, <2>3 DEF Report, SaysOnly, Reports
      <3>2. "completed" \in Outcome /\ "completed" \in Final
        BY DEF Outcome, Final
      <3> QED
        BY <1>1, <2>1, <3>1, <3>2 DEF Speaks
    <2>4. CASE ~complete[u]
      <3>1. Silent(u, None)
        BY <1>5, <2>2, <2>4 DEF Report, Silent
      <3> QED
        BY <1>1, <3>1 DEF Speaks
    <2> QED
      BY <2>3, <2>4
  <1> QED
    BY <1>3, <1>4, <1>5 DEF UpNext

LEMMA CtlSpeaks == ASSUME ServerInv, CtlNext PROVE Speaks
  <1> USE DEF ServerInv, TypeOK, CtlStep, slotVars, prepVars, upVars
  <1>1. \A c \in Ctl : c \in Ctl \cup Up /\ c \notin Up
    BY ConstantsAssumption
  <1>2. ASSUME NEW c \in Ctl, CtlLock(c) \/ CtlNothing(c) PROVE Speaks
    <2>1. Silent(c, None)
      BY <1>2 DEF CtlLock, CtlNothing, Silent, Reports
    <2> QED
      BY <1>1, <2>1 DEF Speaks
  <1>3. ASSUME NEW c \in Ctl, CtlReport(c) PROVE Speaks
    <2>1. victim[c] \in Prep
      BY <1>3 DEF CtlReport, VictimInv
    <2>2. \A p \in Prep, y \in Ctl \cup Up : Reports(y, p)' => Reports(y, p) /\ y # c
      BY <1>1, <1>3 DEF CtlReport, Reports
    <2>3. SaysOnly(c, victim[c], OutcomeOf(c))
      BY <1>3, <2>1, <2>2 DEF CtlReport, SaysOnly, Reports
    <2>4. OutcomeOf(c) \in Outcome /\ (OutcomeOf(c) \in Final <=> c = "watchdog")
      BY DEF OutcomeOf, Outcome, Final
    <2> QED
      BY <1>1, <2>1, <2>3, <2>4 DEF Speaks
  <1>4. ASSUME NEW c \in Ctl, EndSession(c), UNCHANGED <<upVars, reported>>,
               c = "watchdog" => slot.kind = "active"
        PROVE  Speaks
    <2>1. PICK q \in Prep \cup {None} : q = slot.id
      BY DEF NoSession, Pending, Active
    <2>2. c = "watchdog" => slot = Active(q) /\ slot' = NoSession
      BY <1>4, <2>1 DEF EndSession, Clear, NoSession, Pending, Active
    <2>3. \A d \in Ctl : d # c => ctl'[d] = ctl[d] /\ victim'[d] = victim[d]
      BY <1>4 DEF EndSession
    <2>4. victim'[c] = q
      BY <1>4, <2>1 DEF EndSession
    <2>5. Silent(c, q)
      BY <1>1, <1>4, <2>2, <2>3, <2>4 DEF Silent, Reports
    <2> QED
      BY <1>1, <2>5 DEF Speaks
  <1>5. CASE CancelPending \/ CancelActive \/ CancelSession \/ WatchSessions
    BY <1>4, <1>5 DEF CancelPending, CancelActive, CancelSession, WatchSessions, Stale, Ctl
  <1> QED
    BY <1>2, <1>3, <1>5 DEF CtlNext

LEMMA StepSpeaks == ASSUME ServerInv, EndedInv, [Next]_vars PROVE Speaks
  <1>1. CASE UNCHANGED <<upVars, ctlVars, reported>>
    <2>1. Silent("watchdog", None)
      BY <1>1 DEF Silent, Reports, upVars, ctlVars
    <2> QED
      BY <2>1 DEF Speaks, Ctl
  <1>2. ASSUME NEW p \in Prep, PrepNext(p) \/ AppNext(p)
        PROVE  UNCHANGED <<upVars, ctlVars, reported>>
    BY <1>2 DEF PrepNext, RefuseEarly, ClaimLock, ClaimRefused, Claim, Raise, RaiseFailed,
           CancelSeen, DecisionTimeout, DecideNo, DecideYes, Disconnect, InstallLock,
           InstallNothing, Install, GuardDrop,
           AppNext, Accept, AcceptAtOnce, Answered, SendAccept, Decline, Discard, AnswerStep
  <1>3. GoesQuiet \/ UNCHANGED vars => UNCHANGED <<upVars, ctlVars, reported>>
    BY DEF GoesQuiet, vars
  <1> QED
    BY <1>1, <1>2, <1>3, UpSpeaks, CtlSpeaks DEF Next

FinalInv == \A p \in Prep : FinalFor(p)

\* What the server has said of an end stays true.
LEMMA FinalInvHolds == Spec => [](ServerInv /\ EndedInv /\ FinalInv)
  <1>1. Init => ServerInv
    BY InitType DEF Init, ServerInv, JobInv, VictimInv, Working
  <1>2. Init => FinalInv
    BY DEF Init, FinalInv, FinalFor, Finishes, Reports, Said
  <1>3. ServerInv /\ EndedInv /\ FinalInv /\ [Next]_vars => FinalInv'
    <2> SUFFICES ASSUME ServerInv, EndedInv, FinalInv, [Next]_vars, NEW p \in Prep
                 PROVE  FinalFor(p)'
      BY DEF FinalInv
    <2>1. FinalFor(p) /\ Speaks /\ TypeOK
      BY StepSpeaks DEF FinalInv, ServerInv
    <2> QED
      BY <2>1, SilentFinal, SaysFinal DEF Speaks
  <1> QED
    BY <1>1, <1>2, <1>3, StepServer, EndedInvHolds, PTL DEF Spec

\* What was said stays said.
LEMMA StaysSaid ==
  ASSUME ServerInv, EndedInv, [Next]_vars, NEW p \in Prep, NEW o, Said(p, o)
  PROVE  Said(p, o)'
  <1>1. reported'[p] = reported[p] \/ \E r \in Outcome : reported'[p] = Append(reported[p], r)
    BY StepSpeaks DEF Speaks, Silent, SaysOnly, ServerInv, TypeOK
  <1>2. reported[p] \in Seq(Outcome)
    BY DEF ServerInv, TypeOK
  <1> QED
    BY <1>1, <1>2 DEF Said

-----------------------------------------------------------------------------
(* The history.                                                              *)

\* A session that was installed was accepted.
Served == \A p \in Prep : prep[p] = "served" => answer[p].kind = "accept"

LEMMA ServedHolds == Spec => []Served
  <1>1. Init => Served
    BY DEF Init, Served
  <1>2. TypeOK /\ ConsentInv /\ Served /\ [Next]_vars => Served'
    <2> SUFFICES ASSUME TypeOK, ConsentInv, Served, [Next]_vars, NEW p \in Prep, prep'[p] = "served"
                 PROVE  answer'[p].kind = "accept"
      BY DEF Served
    <2>1. CASE UNCHANGED <<prep, answer>>
      BY <2>1 DEF Served
    <2>2. ASSUME NEW q \in Prep, PrepNext(q) PROVE answer'[p].kind = "accept"
      <3>1. answer'[p] = answer[p]
        BY <2>2 DEF PrepNext, RefuseEarly, ClaimLock, ClaimRefused, Claim, Raise, RaiseFailed,
           CancelSeen, DecisionTimeout, DecideNo, DecideYes, Disconnect, InstallLock,
           InstallNothing, Install, GuardDrop, PrepStep, TypeOK
      <3>2. prep[p] = "served" \/ prep[p] = "installing"
        BY <2>2 DEF PrepNext, RefuseEarly, ClaimLock, ClaimRefused, Claim, Raise, RaiseFailed,
           CancelSeen, DecisionTimeout, DecideNo, DecideYes, Disconnect, InstallLock,
           InstallNothing, Install, GuardDrop, PrepStep, TypeOK
      <3> QED
        BY <3>1, <3>2 DEF Served, ConsentInv, Granted
    <2>3. ASSUME NEW q \in Prep, AppNext(q) PROVE answer'[p].kind = "accept"
      <3>1. prep[p] = "served" /\ answer[p].kind = "accept"
        BY <2>3 DEF AppNext, Accept, AcceptAtOnce, Answered, SendAccept, Decline, Discard,
                    AnswerStep, Served
      <3> QED
        BY <2>3, <3>1 DEF AppNext, Accept, AcceptAtOnce, Answered, SendAccept, Decline, Discard,
                    AnswerStep, TypeOK
    <2>4. ASSUME NEW u \in Up, UpNext(u) PROVE UNCHANGED <<prep, answer>>
      BY <2>4 DEF UpNext, EnterLock, EnterRefused, EnterWrongFile, Admit, NoDestination,
           StartReceiving, BodyEnds, DropUpload, SettleLock, SettleGone, Settle, Report, prepVars
    <2>5. CtlNext => UNCHANGED answer /\ UNCHANGED prep
      BY DEF CtlNext, CtlLock, CtlNothing, CtlReport, CancelPending, CancelActive,
             CancelSession, WatchSessions, prepVars
    <2>6. GoesQuiet \/ UNCHANGED vars => UNCHANGED <<prep, answer>>
      BY DEF GoesQuiet, vars, prepVars
    <2> QED
      BY <2>1, <2>2, <2>3, <2>4, <2>5, <2>6 DEF Next
  <1> QED
    BY <1>1, <1>2, TypeCorrect, ConsentInvHolds, PTL DEF Spec

\* What is known of the server behind this application.
BehindInv ==
    AppInv /\ ConsentInv /\ AgreeInv /\ Served /\ EndedInv /\ FinalInv /\ SingleSession

LEMMA BehindInvHolds == AppSpec => []BehindInv
  <1>1. AppInit => AgreedInv
    BY AppInit0, InitAgree DEF AgreedInv
  <1>2. AgreedInv /\ Served /\ EndedInv /\ FinalInv /\ SingleSession => BehindInv
    BY DEF AgreedInv, BehindInv
  <1> QED
    BY <1>1, <1>2, StepAgree, ServerImplemented, FinalInvHolds, ServedHolds,
       SingleSessionHolds, PTL
    DEF AppSpec

\* Events of ends that the server has reported.
Told == {e \in Event : e.kind = "ended" => Said(e.id, e.outcome)}

\* The handler of p left without a session.
Left(p) == prep[p] \in {"leaving", "done"}

HistoryOf(p) ==
    /\ "done" \in history[p] => Said(p, "completed")
    /\ "failed" \in history[p] => Said(p, "timedOut") \/ Left(p)

HistoryInv == channel \in Seq(Told) /\ \A p \in Prep : HistoryOf(p)

LEMMA ToldStays ==
  ASSUME BehindInv, [AppSpecNext]_<<vars, appVars>>
  PROVE  Told \subseteq Told'
  <1> SUFFICES ASSUME NEW e \in Event, e.kind = "ended", Said(e.id, e.outcome)
               PROVE  \E i \in DOMAIN reported'[e.id] : reported'[e.id][i] = e.outcome
    BY DEF Told, Said
  <1>1. PICK p \in Prep, o \in Outcome : p = e.id /\ o = e.outcome
    BY DEF Event, FileEvent
  <1>2. Said(p, o)
    BY <1>1
  <1>3. Said(p, o)'
    BY <1>2, StaysSaid, ServerStep DEF BehindInv, AppInv
  <1> QED
    BY <1>1, <1>3 DEF Said

\* The report of an upload and its event.
LEMMA UpTells ==
  ASSUME ServerInv, NEW u \in Up, UpRuns(u)
  PROVE  UpEvents(u) \in Seq(Told')
  <1> USE DEF ServerInv
  <1>1. ASSUME up[u] \in Working, NEW kind \in FileEvent
        PROVE  FileEventOf(u, kind) \in Seq(Told')
    BY <1>1 DEF FileEventOf, Told, Event, FileEvent, JobInv
  <1>2. ASSUME up[u] = "report", complete[u]
        PROVE  <<EndEvent(job[u].session, "completed")>> \in Seq(Told')
    <2>1. PICK p \in Prep : p = job[u].session
      BY <1>2 DEF JobInv, Working
    <2>2. reported'[p] = Append(reported[p], "completed") /\ reported[p] \in Seq(Outcome)
      BY <1>2, <2>1 DEF UpRuns, UpNext, UpStep, EnterLock, EnterRefused, EnterWrongFile, Admit,
           NoDestination, StartReceiving, BodyEnds, DropUpload, SettleLock, SettleGone, Settle,
           Report, TypeOK
    <2>3. Said(p, "completed")'
      BY <2>2 DEF Said
    <2>4. EndEvent(p, "completed") \in Event
      BY DEF EndEvent, Event, Outcome
    <2>5. EndEvent(p, "completed") \in Told'
      BY <2>3, <2>4 DEF Told, EndEvent, Said
    <2> QED
      BY <2>1, <2>5
  <1>3. <<>> \in Seq(Told')
    OBVIOUS
  <1>4. up[u] = "report" =>
          (IF complete[u] THEN <<EndEvent(job[u].session, "completed")>> ELSE <<>>) \in Seq(Told')
    BY <1>2, <1>3
  <1> QED
    BY <1>1, <1>3, <1>4 DEF UpEvents, Working, FileEvent

\* The report of a control process and its event.
LEMMA CtlTells ==
  ASSUME ServerInv, NEW c \in Ctl, CtlReport(c)
  PROVE  <<EndEvent(victim[c], OutcomeOf(c))>> \in Seq(Told')
  <1> USE DEF ServerInv
  <1>1. PICK p \in Prep, o \in Outcome : p = victim[c] /\ o = OutcomeOf(c)
    BY DEF CtlReport, CtlStep, VictimInv, OutcomeOf, Outcome
  <1>2. reported'[p] = Append(reported[p], o) /\ reported[p] \in Seq(Outcome)
    BY <1>1 DEF CtlReport, TypeOK
  <1>3. Said(p, o)'
    BY <1>2 DEF Said
  <1>4. EndEvent(p, o) \in Event
    BY DEF EndEvent, Event
  <1>5. EndEvent(p, o) \in Told'
    BY <1>3, <1>4 DEF Told, EndEvent, Said
  <1> QED
    BY <1>1, <1>5

\* What is sent of an end is reported in the same step.
LEMMA ChannelTold ==
  ASSUME BehindInv, HistoryInv, [AppSpecNext]_<<vars, appVars>>
  PROVE  channel' \in Seq(Told')
  <1> USE DEF BehindInv, AppInv
  <1>1. channel \in Seq(Told')
    BY ToldStays DEF HistoryInv
  <1>2. ASSUME NEW events \in Seq(Told'), Sends(events) PROVE channel' \in Seq(Told')
    BY <1>1, <1>2 DEF Sends
  <1>3. ASSUME NEW p \in Prep, PrepRuns(p) PROVE channel' \in Seq(Told')
    <2>1. Raised(p) \in Told'
      BY DEF Raised, Told, Event, FileEvent
    <2>2. <<>> \in Seq(Told') /\ <<Raised(p)>> \in Seq(Told')
      BY <2>1
    <2>3. PrepEvents(p) \in Seq(Told')
      BY <2>2 DEF PrepEvents, Raised
    <2> QED
      BY <1>2, <1>3, <2>3 DEF PrepRuns
  <1>4. ASSUME NEW u \in Up, UpRuns(u) PROVE channel' \in Seq(Told')
    BY <1>2, <1>4, UpTells DEF UpRuns
  <1>5. CASE CtlEnds
    BY <1>2, <1>5, CtlTells DEF CtlEnds, Background
  <1>6. CASE CancelReports
    <2>1. "cancel_session" \in Ctl /\ OutcomeOf("cancel_session") = "cancelled"
      BY DEF Ctl, OutcomeOf
    <2>2. <<EndEvent(victim["cancel_session"], "cancelled")>> \in Seq(Told')
      BY <1>6, <2>1, CtlTells DEF CancelReports
    <2> QED
      BY <1>2, <1>6, <2>2 DEF CancelReports, Cancelled
  <1>7. CASE CancelFindsNothing
    <2>1. <<>> \in Seq(Told') /\ Sends(<<>>)
      BY <1>7 DEF CancelFindsNothing, Cancelled
    <2> QED
      BY <1>2, <2>1
  <1>8. ASSUME NEW kind, Pump(kind) PROVE channel' \in Seq(Told')
    BY <1>1, <1>8 DEF Pump
  <1>9. CASE UNCHANGED channel
    BY <1>1, <1>9
  <1> QED
    BY <1>3, <1>4, <1>5, <1>6, <1>7, <1>8, <1>9
    DEF AppSpecNext, CtlRuns, appVars, UserNext, RespondStale, RespondNo, RespondNothing,
        RespondYes, DismissTransfer, UserCancels, AppRuns, SendDecision, CancelTakesLock,
        CancelFreesSlot, PumpPrompt, PumpAutoAccept, PumpFile, PumpEnded

\* A decision that is not heard finds a handler that has left.
LEMMA Unheard ==
  ASSUME BehindInv, NEW p \in Prep, SendDecision(p), ~Hears(p)
  PROVE  Left(p)
  <1>1. answer[p].kind = "accepting"
    BY DEF SendDecision, SendAccept, AnswerStep
  <1>2. prep[p] # "waiting"
    BY DEF Hears
  <1>3. prep[p] # "served"
    BY <1>1 DEF BehindInv, Served
  <1>4. prep[p] \notin {"new", "claiming", "claimed", "deciding", "installing"}
    BY <1>1 DEF BehindInv, ConsentInv, Granted, Unasked
  <1> QED
    BY <1>2, <1>3, <1>4 DEF Left, BehindInv, AppInv, ServerInv, TypeOK

LEMMA StaysLeft ==
  ASSUME BehindInv, [AppSpecNext]_<<vars, appVars>>, NEW p \in Prep, Left(p)
  PROVE  Left(p)'
  BY ServerStep, Behind DEF BehindInv, AppInv, ServerInv, Left

\* An outcome enters the history with the report of the server, or when the
\* decision is not heard.
LEMMA HistoryStep ==
  ASSUME BehindInv, HistoryInv, [AppSpecNext]_<<vars, appVars>>, NEW p \in Prep
  PROVE  HistoryOf(p)'
  <1> USE DEF BehindInv, AppInv, AppTypeOK
  <1>1. \A o : Said(p, o) => Said(p, o)'
    BY ServerStep, StaysSaid
  <1>2. Left(p) => Left(p)'
    BY StaysLeft
  <1>3. CASE \A o \in {"done", "failed"} : o \in history'[p] => o \in history[p]
    BY <1>1, <1>2, <1>3 DEF HistoryInv, HistoryOf
  <1>4. ASSUME NEW q \in Prep, NEW status \in Ends, Finish(q, status)
        PROVE  history'[p] \subseteq history[p] \cup (IF q = p THEN {status} ELSE {})
    BY <1>4 DEF Finish
  <1>5. CASE PumpEnded
    <2>1. Head(channel) \in Event /\ Head(channel).kind = "ended" /\ Head(channel) \in Told
      BY <1>5, PumpType DEF PumpEnded, Pump, HistoryInv
    <2>2. PICK q \in Prep, o \in Outcome : q = Head(channel).id /\ o = Head(channel).outcome
      BY <2>1 DEF Event, FileEvent
    <2>3. Said(q, o)
      BY <2>1, <2>2 DEF Told
    <2>4. /\ StatusOf(o) \in Ends
          /\ StatusOf(o) = "done" => o = "completed"
          /\ StatusOf(o) = "failed" => o = "timedOut"
      BY DEF StatusOf, Outcome, Ends
    <2>5. history'[p] \subseteq history[p] \cup (IF q = p THEN {StatusOf(o)} ELSE {})
      BY <1>4, <1>5, <2>2, <2>4 DEF PumpEnded
    <2> QED
      BY <1>1, <1>2, <2>3, <2>4, <2>5 DEF HistoryInv, HistoryOf
  <1>6. ASSUME NEW q \in Prep, SendDecision(q) PROVE HistoryOf(p)'
    <2>1. CASE Hears(q)
      BY <1>3, <1>6, <2>1 DEF SendDecision
    <2>2. CASE ~Hears(q)
      <3>1. Left(q)
        BY <1>6, <2>2, Unheard
      <3>2. history'[p] \subseteq history[p] \cup (IF q = p THEN {"failed"} ELSE {})
        BY <1>4, <1>6, <2>2 DEF SendDecision, Ends
      <3> QED
        BY <1>1, <1>2, <3>1, <3>2 DEF HistoryInv, HistoryOf
    <2> QED
      BY <2>1, <2>2
  <1>7. CASE CancelFindsNothing \/ CancelReports
    <2>1. cancelling \in Prep /\ Finish(cancelling, "cancelled")
      BY <1>7 DEF CancelFindsNothing, CancelReports, Cancelled
    <2>2. "cancelled" \in Ends
      BY DEF Ends
    <2>3. history'[p] \subseteq history[p] \cup {"cancelled"}
      BY <1>4, <2>1, <2>2
    <2> QED
      BY <1>3, <2>3
  <1>8. ASSUME NEW q \in Prep, RespondNo(q) PROVE HistoryOf(p)'
    <2>1. history'[p] \subseteq history[p] \cup {"declined"}
      BY <1>8 DEF RespondNo, Respond
    <2> QED
      BY <1>3, <2>1
  <1>9. CASE UNCHANGED history
    BY <1>3, <1>9
  <1> QED
    BY <1>5, <1>6, <1>7, <1>8, <1>9
    DEF AppSpecNext, PrepRuns, UpRuns, UnchangedApp, CtlRuns, CtlEnds, appVars, UserNext,
        RespondStale, RespondNothing, RespondYes, DismissTransfer, UserCancels, AppRuns,
        CancelTakesLock, CancelFreesSlot, PumpPrompt, PumpAutoAccept, PumpFile

\* Done is said only of a session that the server completed, and a completed
\* session is never put down as failed, however events and decisions cross.
THEOREM DoneIsCompletedHolds == AppSpec => []DoneIsCompleted
  <1>1. AppInit => HistoryInv
    BY DEF AppInit, HistoryInv, HistoryOf
  <1>2. BehindInv /\ HistoryInv /\ [AppSpecNext]_<<vars, appVars>> => HistoryInv'
    BY ChannelTold, HistoryStep DEF HistoryInv
  <1>3. BehindInv /\ HistoryInv => DoneIsCompleted
    <2> SUFFICES ASSUME BehindInv, HistoryInv, NEW p \in Prep
                 PROVE  /\ "done" \in history[p] => Said(p, "completed")
                        /\ "failed" \in history[p] => ~Said(p, "completed")
      BY DEF DoneIsCompleted, Said
    <2>1. FinalFor(p) /\ HistoryOf(p)
      BY DEF BehindInv, FinalInv, HistoryInv
    <2>2. Said(p, "completed") => prep[p] = "served" /\ ~Said(p, "timedOut")
      BY <2>1 DEF FinalFor, Final, Gone
    <2> QED
      BY <2>1, <2>2 DEF HistoryOf, Left
  <1> QED
    BY <1>1, <1>2, <1>3, BehindInvHolds, PTL DEF AppSpec

-----------------------------------------------------------------------------
(* A session that is received is shown.                                      *)

\* Only a request the application said yes to is listed.
ListedAgreed == \A p \in Prep : Known(p) => Agreed(p)

\* A session that will not be received any more.
Over(p) == Left(p) \/ (prep[p] = "served" /\ slot # Active(p))

\* While no pending request was withdrawn, what the list shows as ended is over.
OverInv ==
    withdrawn = {} => \A p \in Prep : rows[p].status \notin {"unlisted", "active"} => Over(p)

\* The session that is being cancelled is the one the command was given for.
CancelInv == ctl["cancel_session"] = "report" => cancelling = victim["cancel_session"]

ShownInv == ListedAgreed /\ OverInv /\ CancelInv

LEMMA StaysAgreed ==
  ASSUME BehindInv, [AppSpecNext]_<<vars, appVars>>, NEW p \in Prep, Agreed(p)
  PROVE  Agreed(p)'
  <1> USE DEF BehindInv, AppInv, ServerInv, TypeOK, Agreed, Yes
  <1>1. [Next]_vars
    BY ServerStep
  <1>2. ASSUME NEW q \in Prep, PrepNext(q) PROVE Agreed(p)'
    BY <1>2, ServerAgrees
  <1>3. ASSUME NEW q \in Prep, AppNext(q) PROVE Agreed(p)'
    <2>1. ASSUME NEW S, NEW to, Answered(q, S, to) PROVE Agreed(p)'
      BY <2>1 DEF Answered
    <2>2. ASSUME NEW to, AnswerStep(q, "open", to) PROVE Agreed(p)'
      BY <2>2 DEF AnswerStep
    <2>3. CASE SendAccept(q)
      BY <2>3 DEF SendAccept, AnswerStep, Answer
    <2> QED
      BY <1>3, <2>1, <2>2, <2>3 DEF AppNext, Accept, AcceptAtOnce, Decline, Discard
  <1>4. CASE (\E u \in Up : UpNext(u)) \/ CtlNext \/ GoesQuiet \/ UNCHANGED vars
    BY <1>4, OthersAgree
  <1> QED
    BY <1>1, <1>2, <1>3, <1>4 DEF Next

\* A session is listed with the user's yes, and stays what it is or ends.
LEMMA Lists ==
  ASSUME BehindInv, AppSpecNext, NEW p \in Prep
  PROVE  \/ Known(p)' => Known(p)
         \/ Agreed(p)'
  <1> USE DEF BehindInv, AppInv, AppTypeOK, Known
  <1>1. ASSUME NEW q \in Prep, NEW S, NEW to \in Yes, Answered(q, S, to), ListedFirst(q, S)
        PROVE  (Known(p)' => Known(p)) \/ Agreed(p)'
    <2>1. CASE p = q
      BY <1>1, <2>1 DEF Answered, Agreed, ServerInv, TypeOK
    <2>2. CASE p # q
      BY <1>1, <2>2 DEF ListedFirst
    <2> QED
      BY <2>1, <2>2
  <1>2. ASSUME NEW q \in Prep, NEW status, Finish(q, status) PROVE Known(p)' => Known(p)
    BY <1>2 DEF Finish, Listed
  <1>3. ASSUME NEW q \in Prep, UserNext(q) PROVE (Known(p)' => Known(p)) \/ Agreed(p)'
    <2>1. ASSUME NEW S \in SUBSET File, RespondYes(q, S)
          PROVE  (Known(p)' => Known(p)) \/ Agreed(p)'
      <3>1. incoming = q /\ "accepting" \in Yes
        BY <2>1 DEF RespondYes, IsPending, Yes
      <3> QED
        BY <1>1, <2>1, <3>1 DEF RespondYes, Accept
    <2>2. CASE DismissTransfer(q)
      BY <2>2 DEF DismissTransfer, Ends
    <2> QED
      BY <1>3, <2>1, <2>2 DEF UserNext, RespondStale, RespondNo, RespondNothing, UserCancels
  <1>4. CASE PumpAutoAccept
    <2>1. Head(channel).id \in Prep /\ "accept" \in Yes
      BY <1>4, PumpType DEF PumpAutoAccept, Event, Yes
    <2> QED
      BY <1>1, <1>4, <2>1 DEF PumpAutoAccept, AcceptAtOnce
  <1>5. CASE PumpEnded
    <2>1. Head(channel) \in Event /\ Head(channel).kind = "ended"
      BY <1>5, PumpType DEF PumpEnded
    <2>2. Head(channel).id \in Prep
      BY <2>1 DEF Event, FileEvent
    <2> QED
      BY <1>2, <1>5, <2>2 DEF PumpEnded
  <1>6. ASSUME NEW kind \in FileEvent, PumpFile(kind) PROVE Known(p)' => Known(p)
    BY <1>6 DEF PumpFile, Listed
  <1>7. ASSUME NEW q \in Prep, SendDecision(q) PROVE Known(p)' => Known(p)
    BY <1>2, <1>7 DEF SendDecision
  <1>8. CASE CancelFindsNothing \/ CancelReports
    <2>1. cancelling \in Prep /\ Finish(cancelling, "cancelled")
      BY <1>8 DEF CancelFindsNothing, CancelReports, Cancelled
    <2> QED
      BY <1>2, <2>1
  <1> QED
    BY <1>3, <1>4, <1>5, <1>6, <1>7, <1>8
    DEF AppSpecNext, PrepRuns, UpRuns, UnchangedApp, CtlRuns, CtlEnds, appVars, AppRuns,
        CancelTakesLock, CancelFreesSlot, PumpPrompt

\* No withdrawal is forgotten.
LEMMA WithdrawnGrows == [Next]_vars => withdrawn \subseteq withdrawn'
  BY DEF Next, PrepNext, RefuseEarly, ClaimLock, ClaimRefused, Claim, Raise, RaiseFailed,
         CancelSeen, DecisionTimeout, DecideNo, DecideYes, Disconnect, InstallLock,
         InstallNothing, Install, GuardDrop, AppNext, Accept, AcceptAtOnce, Answered,
         SendAccept, Decline, Discard, AnswerStep, UpNext, EnterLock, EnterRefused,
         EnterWrongFile, Admit, NoDestination, StartReceiving, BodyEnds, DropUpload,
         SettleLock, SettleGone, Settle, Report, CtlNext, CtlLock, CtlNothing, CtlReport,
         CancelPending, CancelActive, CancelSession, WatchSessions, GoesQuiet, vars

\* What is over stays over.
LEMMA StaysOver ==
  ASSUME BehindInv, [AppSpecNext]_<<vars, appVars>>, NEW p \in Prep, Over(p)
  PROVE  Over(p)'
  <1>1. CASE Left(p)
    BY <1>1, StaysLeft DEF Over
  <1>2. CASE Gone(p)
    BY <1>2, StaysGone, ServerStep DEF Over, Gone, BehindInv, AppInv, ServerInv
  <1> QED
    BY <1>1, <1>2 DEF Over, Gone

\* A session that was reported, or is about to be, is over.
LEMMA EndedIsOver ==
  ASSUME BehindInv, withdrawn = {}, NEW p \in Prep, Ended(p)
  PROVE  Over(p)
  <1>1. prep[p] = "served" /\ slot.id # p
    BY DEF BehindInv, EndedInv, EndedFor
  <1> QED
    BY <1>1 DEF Over, Active

\* A listed session that does not hold the slot is over.
LEMMA NotInSlotIsOver ==
  ASSUME BehindInv, ShownInv, withdrawn = {}, NEW p \in Prep, Known(p), slot.id # p
  PROVE  Over(p)
  <1>1. answer[p].kind # "none"
    BY DEF ShownInv, ListedAgreed, Agreed, Yes
  <1>2. prep[p] \notin {"new", "claiming", "claimed"}
    BY <1>1 DEF BehindInv, ConsentInv, Unasked
  <1>3. prep[p] \notin {"waiting", "deciding", "installing"}
    BY DEF BehindInv, SingleSession, Undecided, Pending
  <1> QED
    BY <1>2, <1>3 DEF Over, Left, Active, BehindInv, AppInv, ServerInv, TypeOK

\* The list says that a session ended only when it is over.
LEMMA OverStep ==
  ASSUME BehindInv, ShownInv, HistoryInv, AppSpecNext, withdrawn' = {}, NEW p \in Prep,
         rows'[p].status \notin {"unlisted", "active"}
  PROVE  Over(p)'
  <1> USE DEF BehindInv, AppInv, AppTypeOK
  <1>1. withdrawn = {}
    BY ServerStep, WithdrawnGrows
  <1>2. CASE rows[p].status \notin {"unlisted", "active"}
    BY <1>1, <1>2, StaysOver DEF ShownInv, OverInv
  <1>3. CASE Over(p)
    BY <1>3, StaysOver
  <1>4. ASSUME NEW q \in Prep, NEW status, Finish(q, status), p # q PROVE Over(p)'
    BY <1>2, <1>4 DEF Finish
  <1>5. CASE PumpEnded
    <2>1. Head(channel) \in Event /\ Head(channel).kind = "ended" /\ Head(channel) \in Told
      BY <1>5, PumpType DEF PumpEnded, Pump, HistoryInv
    <2>2. PICK q \in Prep, o \in Outcome : q = Head(channel).id /\ o = Head(channel).outcome
      BY <2>1 DEF Event, FileEvent
    <2>3. Said(q, o)
      BY <2>1, <2>2 DEF Told
    <2>4. reported[q] # <<>>
      BY <2>3 DEF Said
    <2>5. Over(q)
      BY <1>1, <2>4, EndedIsOver DEF Ended
    <2> QED
      BY <1>3, <1>4, <1>5, <2>2, <2>5 DEF PumpEnded
  <1>6. ASSUME NEW q \in Prep, SendDecision(q) PROVE Over(p)'
    <2>1. CASE Hears(q)
      BY <1>2, <1>6, <2>1 DEF SendDecision
    <2>2. CASE ~Hears(q)
      <3>1. Over(q)
        BY <1>6, <2>2, Unheard DEF Over
      <3> QED
        BY <1>3, <1>4, <1>6, <2>2, <3>1 DEF SendDecision
    <2> QED
      BY <2>1, <2>2
  <1>7. CASE CancelReports
    <2>1. PICK q \in Prep : q = cancelling /\ Finish(q, "cancelled")
      BY <1>7 DEF CancelReports, Cancelled
    <2>2. Reports("cancel_session", q) /\ "cancel_session" \in Ctl
      BY <1>7, <2>1 DEF CancelReports, CtlReport, CtlStep, Reports, Ctl, ShownInv, CancelInv
    <2>3. Over(q)
      BY <1>1, <2>2, EndedIsOver DEF Ended
    <2> QED
      BY <1>3, <1>4, <2>1, <2>3
  <1>8. CASE CancelFindsNothing
    <2>1. PICK q \in Prep : q = cancelling /\ Finish(q, "cancelled") /\ slot.id # q
      BY <1>8 DEF CancelFindsNothing, CancelsThis, Cancelled
    <2>2. CASE Listed(q)
      <3>1. Over(q)
        BY <1>1, <2>1, <2>2, NotInSlotIsOver DEF Listed, Known
      <3> QED
        BY <1>3, <1>4, <2>1, <3>1
    <2>3. CASE ~Listed(q)
      BY <1>2, <2>1, <2>3 DEF Finish
    <2> QED
      BY <2>2, <2>3
  <1>9. ASSUME NEW q \in Prep, UserNext(q) PROVE Over(p)'
    <2>1. ASSUME NEW S \in SUBSET File, RespondYes(q, S) PROVE Over(p)'
      BY <1>2, <2>1 DEF RespondYes, ListedFirst, Row
    <2>2. CASE DismissTransfer(q)
      BY <1>2, <2>2 DEF DismissTransfer, Ends
    <2> QED
      BY <1>2, <1>9, <2>1, <2>2 DEF UserNext, RespondStale, RespondNo, RespondNothing, UserCancels
  <1>10. CASE PumpAutoAccept
    BY <1>2, <1>10 DEF PumpAutoAccept, ListedFirst, Row
  <1>11. ASSUME NEW kind \in FileEvent, PumpFile(kind) PROVE Over(p)'
    BY <1>2, <1>11 DEF PumpFile, Listed
  <1>12. CASE UNCHANGED rows
    BY <1>2, <1>12
  <1> QED
    BY <1>5, <1>6, <1>7, <1>8, <1>9, <1>10, <1>11, <1>12
    DEF AppSpecNext, PrepRuns, UpRuns, UnchangedApp, CtlRuns, CtlEnds, appVars, AppRuns,
        CancelTakesLock, CancelFreesSlot, PumpPrompt

\* The user's cancel ends the session it was given for.
LEMMA CancelStep ==
  ASSUME BehindInv, ShownInv, AppSpecNext
  PROVE  CancelInv'
  <1> USE DEF BehindInv, AppInv, ServerInv, TypeOK, CtlStep
  <1>1. "cancel_session" \in Ctl /\ "cancel" # "cancel_session" /\ "watchdog" # "cancel_session"
    BY DEF Ctl
  <1>2. CASE UNCHANGED <<ctl, victim>>
    <2>1. cancelling # None /\ cancelling' # cancelling =>
            CancelFindsNothing \/ CancelReports
      BY DEF AppSpecNext, PrepRuns, UpRuns, UnchangedApp, CtlRuns, CtlEnds, appVars, UserNext,
           RespondStale, RespondNo, RespondNothing, RespondYes, DismissTransfer, UserCancels,
           AppRuns, SendDecision, CancelTakesLock, CancelFreesSlot, PumpPrompt, PumpAutoAccept,
           PumpFile, PumpEnded
    <2>2. ctl["cancel_session"] = "report" => cancelling # None
      BY <1>1, ConstantsAssumption DEF ShownInv, CancelInv, VictimInv, Caller
    <2>3. ~CancelFindsNothing /\ ~CancelReports
      BY <1>1, <1>2 DEF CancelFindsNothing, CancelReports, CtlNothing, CtlReport
    <2> QED
      BY <1>2, <2>1, <2>2, <2>3 DEF ShownInv, CancelInv
  <1>3. CASE CancelFreesSlot
    BY <1>1, <1>3 DEF CancelFreesSlot, CancelsThis, CancelSession, EndSession, appVars, CancelInv
  <1>4. CASE CancelFindsNothing \/ CancelReports \/ CancelTakesLock
    BY <1>1, <1>4 DEF CancelFindsNothing, CancelReports, CancelTakesLock, CtlNothing, CtlReport,
                      CtlLock, CancelInv
  <1>5. ASSUME NEW c \in Background, CtlReport(c) \/ CtlLock(c) \/ CtlNothing(c),
               UNCHANGED cancelling
        PROVE  CancelInv'
    BY <1>1, <1>5 DEF Background, CtlReport, CtlLock, CtlNothing, CancelInv, ShownInv
  <1>6. CASE (CancelPending \/ CancelActive \/ WatchSessions) /\ UNCHANGED cancelling
    BY <1>1, <1>6 DEF CancelPending, CancelActive, WatchSessions, EndSession, CancelInv, ShownInv
  <1>7. ASSUME NEW q \in Prep, PrepRuns(q) \/ UserNext(q) PROVE UNCHANGED <<ctl, victim>>
    BY <1>7 DEF PrepRuns, PrepNext, RefuseEarly, ClaimLock, ClaimRefused, Claim, Raise,
           RaiseFailed, CancelSeen, DecisionTimeout, DecideNo, DecideYes, Disconnect,
           InstallLock, InstallNothing, Install, GuardDrop, ctlVars, vars, UserNext,
           RespondStale, RespondNo, RespondNothing, RespondYes, DismissTransfer, UserCancels,
           Accept, Answered, Decline, Discard, AnswerStep
  <1>8. ASSUME NEW u \in Up, UpRuns(u) PROVE UNCHANGED <<ctl, victim>>
    BY <1>8 DEF UpRuns, UpNext, EnterLock, EnterRefused, EnterWrongFile, Admit, NoDestination,
           StartReceiving, BodyEnds, DropUpload, SettleLock, SettleGone, Settle, Report, ctlVars
  <1>9. CASE \/ (\E q \in Prep : SendDecision(q)) \/ PumpPrompt \/ PumpAutoAccept \/ PumpEnded
             \/ (\E kind \in FileEvent : PumpFile(kind)) \/ GoesQuiet
    BY <1>2, <1>9 DEF SendDecision, SendAccept, AnswerStep, PumpPrompt, Discard, PumpAutoAccept,
         AcceptAtOnce, Answered, PumpEnded, PumpFile, GoesQuiet, ctlVars, vars
  <1>10. CtlRuns \/ CtlEnds => UNCHANGED cancelling
    BY DEF CtlRuns, CtlEnds, UnchangedApp, appVars
  <1> QED
    BY <1>2, <1>3, <1>4, <1>5, <1>6, <1>7, <1>8, <1>9, <1>10
    DEF AppSpecNext, AppRuns, CtlRuns, CtlEnds

LEMMA ShownStep ==
  BehindInv /\ HistoryInv /\ ShownInv /\ [AppSpecNext]_<<vars, appVars>> => ShownInv'
  <1> SUFFICES ASSUME BehindInv, HistoryInv, ShownInv, [AppSpecNext]_<<vars, appVars>>
               PROVE  ShownInv'
    OBVIOUS
  <1>1. CASE AppSpecNext
    <2>1. ListedAgreed'
      BY <1>1, Lists, StaysAgreed DEF ShownInv, ListedAgreed
    <2>2. OverInv'
      BY <1>1, OverStep DEF OverInv
    <2> QED
      BY <1>1, <2>1, <2>2, CancelStep DEF ShownInv
  <1>2. CASE UNCHANGED <<vars, appVars>>
    BY <1>2 DEF ShownInv, ListedAgreed, Known, Agreed, OverInv, Over, Left, CancelInv,
                vars, slotVars, prepVars, ctlVars, appVars
  <1> QED
    BY <1>1, <1>2

\* As long as no pending request was withdrawn, a session that the server
\* receives is active in the list, so it can be seen and cancelled, whichever of
\* a late answer, a cancellation and the events of its files is handled first.
THEOREM ReceivingIsShownHolds == AppSpec => []ReceivingIsShown
  <1>1. AppInit => HistoryInv
    BY DEF AppInit, HistoryInv, HistoryOf
  <1>2. BehindInv /\ HistoryInv /\ [AppSpecNext]_<<vars, appVars>> => HistoryInv'
    BY ChannelTold, HistoryStep DEF HistoryInv
  <1>3. AppInit => ShownInv
    BY DEF AppInit, Init, ShownInv, ListedAgreed, Known, OverInv, CancelInv, Ctl
  <1>4. BehindInv /\ ShownInv => ReceivingIsShown
    <2> SUFFICES ASSUME BehindInv, ShownInv, withdrawn = {}, NEW p \in Prep, slot = Active(p)
                 PROVE  rows[p].status = "active"
      BY DEF ReceivingIsShown
    <2>1. slot.kind = "active" /\ slot.id = p
      BY DEF Active
    <2>2. Known(p)
      BY <2>1 DEF BehindInv, ConsentInv, Consent, AgreeInv, Agreed, Yes
    <2>3. ~Over(p)
      BY DEF Over, Left, BehindInv, EndedInv
    <2> QED
      BY <2>2, <2>3 DEF ShownInv, OverInv, Known
  <1> QED
    BY <1>1, <1>2, <1>3, <1>4, ShownStep, BehindInvHolds, PTL DEF AppSpec

=============================================================================
