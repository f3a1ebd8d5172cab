--------------------------- MODULE AccountProofs ---------------------------
(* The accounts that UploadServer keeps of the files of a session, for any     *)
(* number of uploads that overlap: how often a file may be tried, and what     *)
(* "completed" says.                                                           *)
EXTENDS UploadServerProofs, FiniteSetTheorems

AtWork == {"admitted", "receiving", "settle", "settling", "report"}
Over == {"report", "done"}
HasJob(u) == job[u] # NoJob
Job(p, f) == [session |-> p, file |-> f]
Uploads(p, f) == {u \in Up : job[u] = Job(p, f)}

\* An upload has a job from its admission on, in a session that was installed.
JobInv ==
    /\ \A u \in Up : up[u] \in {"new", "entering"} => ~HasJob(u)
    /\ \A u \in Up : up[u] \in AtWork => HasJob(u)
    /\ \A u \in Up : HasJob(u) => prep[job[u].session] = "served"
    /\ \A p \in Prep : slot = Active(p) => prep[p] = "served"

\* Who has a job has it in a session, and an active slot names one.
LEMMA JobFacts ==
    ASSUME TypeOK
    PROVE  /\ \A u \in Up : HasJob(u) => job[u] \in [session : Prep, file : File]
           /\ \A p \in Prep, f \in File : Job(p, f) # NoJob
           /\ slot.kind = "active" => slot.id \in Prep /\ slot = Active(slot.id)
    BY ConstantsAssumption DEF TypeOK, HasJob, Job, NoJob, Caller, NoSession, Pending, Active

\* What a step does to the files and the uploads of the active session.
Installs == \E p \in Prep : Install(p)
Admits == \E u \in Up, f \in File : Admit(u, f)
Settles == \E u \in Up : Settle(u)
Misses == \E u \in Up : SettleGone(u)
Elsewhere ==
    /\ UNCHANGED job
    /\ slot'.kind = "active" => UNCHANGED <<slot, files>>
    /\ \A u \in Up : HasJob(u) => (up'[u] \in Over <=> up[u] \in Over)
    /\ \A u \in Up : up[u] \in Over => result'[u] = result[u]
    /\ \A p \in Prep : prep[p] = "served" => prep'[p] = "served"
    /\ \A u \in Up : up'[u] \in {"new", "entering"} => up[u] \in {"new", "entering"}
    /\ \A u \in Up : up'[u] \in AtWork => up[u] \in AtWork

\* Only an installation, an admission and a settled file change the accounts.
LEMMA Steps ==
    ASSUME TypeOK, JobInv, [Next]_vars
    PROVE  Installs \/ Admits \/ Settles \/ Misses \/ Elsewhere
<1> USE DEF slotVars, prepVars, upVars, ctlVars, AtWork, Over
<1>1. ASSUME NEW p \in Prep, PrepNext(p), ~Install(p) PROVE Elsewhere
    <2>1. UNCHANGED upVars
        BY <1>1 DEF PrepNext, RefuseEarly, ClaimLock, ClaimRefused, Claim, Raise, RaiseFailed,
                    CancelSeen, DecisionTimeout, DecideNo, DecideYes, Disconnect, InstallLock,
                    InstallNothing, GuardDrop
    <2>2. slot'.kind = "active" => UNCHANGED <<slot, files>>
        BY <1>1 DEF PrepNext, RefuseEarly, ClaimLock, ClaimRefused, Claim, Raise, RaiseFailed,
                    CancelSeen, DecisionTimeout, DecideNo, DecideYes, Disconnect, InstallLock,
                    InstallNothing, GuardDrop, Clear, NoSession, Pending
    <2>3. \A q \in Prep : prep[q] = "served" => prep'[q] = "served"
        BY <1>1 DEF PrepNext, RefuseEarly, ClaimLock, ClaimRefused, Claim, Raise, RaiseFailed,
                    CancelSeen, DecisionTimeout, DecideNo, DecideYes, Disconnect, InstallLock,
                    InstallNothing, GuardDrop, PrepStep, TypeOK
    <2> QED
        BY <2>1, <2>2, <2>3 DEF Elsewhere
<1>2. ASSUME NEW p \in Prep, AppNext(p) PROVE Elsewhere
    BY <1>2 DEF AppNext, Accept, AcceptAtOnce, Answered, SendAccept, Decline, Discard,
                AnswerStep, Elsewhere
<1>3. ASSUME NEW u \in Up, UpNext(u) PROVE Admits \/ Settles \/ Misses \/ Elsewhere
    <2>1. CASE EnterLock(u) \/ EnterRefused(u) \/ EnterWrongFile(u) \/ NoDestination(u)
               \/ StartReceiving(u) \/ BodyEnds(u) \/ DropUpload(u) \/ SettleLock(u) \/ Report(u)
        <3>1. UNCHANGED <<job, slot, files, prep>>
            BY <2>1 DEF EnterLock, EnterRefused, EnterWrongFile, NoDestination, StartReceiving,
                        BodyEnds, DropUpload, SettleLock, Report
        <3>2. /\ up[u] \in {"new", "entering"} => up'[u] \in {"entering", "done"}
              /\ up[u] \notin {"new", "entering"} => up'[u] \notin {"new", "entering"}
              /\ up'[u] \in AtWork => up[u] \in AtWork
              /\ HasJob(u) => (up'[u] \in Over <=> up[u] \in Over)
            BY <2>1 DEF EnterLock, EnterRefused, EnterWrongFile, NoDestination, StartReceiving,
                        BodyEnds, DropUpload, SettleLock, Report, UpStep, TypeOK, JobInv
        <3>3. \A v \in Up : v # u => up'[v] = up[v] /\ result'[v] = result[v]
            BY <2>1 DEF EnterLock, EnterRefused, EnterWrongFile, NoDestination, StartReceiving,
                        BodyEnds, DropUpload, SettleLock, Report, UpStep, TypeOK
        <3>4. up[u] \in Over => result'[u] = result[u]
            BY <2>1 DEF EnterLock, EnterRefused, EnterWrongFile, NoDestination, StartReceiving,
                        BodyEnds, DropUpload, SettleLock, Report, UpStep, TypeOK
        <3> QED
            BY <3>1, <3>2, <3>3, <3>4 DEF Elsewhere
    <2> QED
        BY <1>3, <2>1 DEF UpNext, Admits, Settles, Misses
<1>4. CASE CtlNext \/ GoesQuiet
    BY <1>4 DEF CtlNext, CtlLock, CtlNothing, CtlReport, CancelPending, CancelActive, CancelSession,
                WatchSessions, EndSession, Clear, NoSession, GoesQuiet, Elsewhere
<1>5. CASE UNCHANGED vars
    BY <1>5 DEF vars, Elsewhere
<1> QED
    BY <1>1, <1>2, <1>3, <1>4, <1>5 DEF Next, Installs

\* No step takes a job away or gives one for a session that is not there.
LEMMA JobStep == TypeOK /\ JobInv /\ [Next]_vars => JobInv'
<1> SUFFICES ASSUME TypeOK, JobInv, [Next]_vars PROVE JobInv'
    OBVIOUS
<1> USE DEF slotVars, prepVars, upVars, AtWork
<1>1. ASSUME NEW p \in Prep, Install(p) PROVE JobInv'
    BY <1>1, JobFacts DEF JobInv, Install, PrepStep, HasJob, TypeOK, Active
<1>2. ASSUME NEW u \in Up, NEW f \in File, Admit(u, f) PROVE JobInv'
    <2>1. \A v \in Up : v # u => job'[v] = job[v] /\ up'[v] = up[v]
        BY <1>2 DEF Admit, UpStep, TypeOK
    <2>2. up'[u] = "admitted" /\ job'[u] = Job(slot.id, f) /\ UNCHANGED <<slot, prep>>
        BY <1>2 DEF Admit, UpStep, TypeOK, Job
    <2>3. slot.id \in Prep /\ slot = Active(slot.id)
        BY <1>2, JobFacts DEF Admit
    <2> QED
        BY <2>1, <2>2, <2>3, JobFacts DEF JobInv, HasJob, Job
<1>3. ASSUME NEW u \in Up, Settle(u) \/ SettleGone(u) PROVE JobInv'
    <2>1. up[u] = "settling" /\ up'[u] = "report" /\ \A v \in Up : v # u => up'[v] = up[v]
        BY <1>3 DEF Settle, SettleGone, UpStep, TypeOK
    <2>2. UNCHANGED <<job, prep>> /\ (slot' = slot \/ slot' = NoSession)
        BY <1>3 DEF Settle, SettleGone, Clear
    <2>3. \A p \in Prep : NoSession # Active(p)
        BY DEF NoSession, Active
    <2> QED
        BY <2>1, <2>2, <2>3 DEF JobInv, HasJob
<1>4. CASE Elsewhere
    <2>1. \A p \in Prep : slot' = Active(p) => slot = Active(p)
        BY <1>4 DEF Elsewhere, Active
    <2>2. \A u \in Up : HasJob(u) => prep[job[u].session] = "served" /\ job[u].session \in Prep
        BY JobFacts DEF JobInv
    <2>3. UNCHANGED job
        BY <1>4 DEF Elsewhere
    <2> QED
        BY <1>4, <2>1, <2>2, <2>3 DEF Elsewhere, JobInv, HasJob
<1> QED
    BY <1>1, <1>2, <1>3, <1>4, Steps DEF Installs, Admits, Settles, Misses

\* At first no upload has a job.
LEMMA JobInit == Init => JobInv
    BY DEF Init, JobInv, HasJob, AtWork, NoSession, Active

-----------------------------------------------------------------------------
(* How often a file may be tried                                             *)

\* Every attempt of the active session is an upload that was let in, until the u8
\* that counts them is full, and a pending file has one left.
BudgetInv ==
    slot.kind = "active" => \A f \in File :
        /\ IsFiniteSet(Uploads(slot.id, f))
        /\ files[f].attempts < 255 => Cardinality(Uploads(slot.id, f)) = files[f].attempts
        /\ files[f].status = "pending" => Cardinality(Mismatches(slot.id, f)) < MaxUploadAttempts

\* A new session begins with no upload.
LEMMA InstallBudget ==
    ASSUME TypeOK, JobInv, NEW p \in Prep, Install(p) PROVE BudgetInv'
<1>1. slot'.id = p /\ UNCHANGED upVars /\ files' = Accepted(answer[p].files)
    BY DEF Install, Active
<1>2. ASSUME NEW f \in File PROVE Uploads(p, f)' = {} /\ Mismatches(p, f)' = {}
    BY <1>1, JobFacts
    DEF Uploads, Mismatches, Settled, Job, HasJob, JobInv, Install, PrepStep, upVars
<1>3. \A f \in File : files'[f].attempts = 0
    BY <1>1 DEF Accepted
<1> QED
    BY <1>1, <1>2, <1>3, FS_EmptySet, ConstantsAssumption DEF BudgetInv

\* An upload that is let in is one more, and counted.
LEMMA AdmitBudget ==
    ASSUME TypeOK, JobInv, BudgetInv, NEW u \in Up, NEW f \in File, Admit(u, f)
    PROVE  BudgetInv'
<1> DEFINE p == slot.id
<1>1. slot'.kind = "active" /\ slot' = slot /\ UNCHANGED result /\ slot.kind = "active"
    BY DEF Admit
<1>2. job'[u] = Job(p, f) /\ ~HasJob(u) /\ up'[u] = "admitted" /\ up[u] = "entering"
    BY DEF Admit, UpStep, Job, TypeOK, JobInv
<1>3. \A v \in Up : v # u => job'[v] = job[v] /\ up'[v] = up[v]
    BY DEF Admit, UpStep, TypeOK
<1>4. \A g \in File : files'[g].status = files[g].status
    BY DEF Admit, TypeOK
<1>5. \A g \in File : g # f => files'[g].attempts = files[g].attempts
    BY DEF Admit, TypeOK
<1>6. files'[f].attempts = SaturatingInc(files[f].attempts) /\ files[f].attempts \in Nat
    BY DEF Admit, TypeOK
<1>7. ASSUME NEW g \in File PROVE Mismatches(p, g)' = Mismatches(p, g)
    <2>1. \A v \in Up : v # u => (v \in Mismatches(p, g)' <=> v \in Mismatches(p, g))
        BY <1>1, <1>3 DEF Mismatches, Settled
    <2>2. u \notin Mismatches(p, g)' /\ u \notin Mismatches(p, g)
        BY <1>1, <1>2 DEF Mismatches, Settled
    <2>3. Mismatches(p, g) \subseteq Up /\ Mismatches(p, g)' \subseteq Up
        BY DEF Mismatches, Settled
    <2> QED
        BY <2>1, <2>2, <2>3
<1>8. p \in Prep /\ \A g \in File : Job(p, g) # NoJob
    BY <1>1, JobFacts
<1>9. ASSUME NEW g \in File, g # f PROVE Uploads(p, g)' = Uploads(p, g)
    <2>1. Job(p, g) # Job(p, f)
        BY <1>9 DEF Job
    <2>2. u \notin Uploads(p, g)' /\ u \notin Uploads(p, g)
        BY <1>1, <1>2, <1>8, <2>1 DEF Uploads, HasJob, Job
    <2>3. \A v \in Up : v # u => (v \in Uploads(p, g)' <=> v \in Uploads(p, g))
        BY <1>1, <1>3 DEF Uploads, Job
    <2> QED
        BY <2>2, <2>3 DEF Uploads
<1>10. Uploads(p, f)' = Uploads(p, f) \cup {u} /\ u \notin Uploads(p, f)
    <2>1. u \in Uploads(p, f)' /\ u \notin Uploads(p, f)
        BY <1>1, <1>2, <1>8 DEF Uploads, HasJob, Job
    <2>2. \A v \in Up : v # u => (v \in Uploads(p, f)' <=> v \in Uploads(p, f))
        BY <1>1, <1>3 DEF Uploads, Job
    <2> QED
        BY <2>1, <2>2 DEF Uploads
<1>11. IsFiniteSet(Uploads(p, f)')
       /\ Cardinality(Uploads(p, f)') = Cardinality(Uploads(p, f)) + 1
    BY <1>1, <1>10, FS_AddElement DEF BudgetInv
<1>12. files'[f].attempts < 255 => Cardinality(Uploads(p, f)') = files'[f].attempts
    BY <1>1, <1>6, <1>11 DEF BudgetInv, SaturatingInc
<1> QED
    BY <1>1, <1>4, <1>5, <1>7, <1>9, <1>11, <1>12 DEF BudgetInv

\* A settled file is offered again only while an attempt is left, and every
\* mismatch was an attempt.
LEMMA SettleBudget ==
    ASSUME TypeOK, JobInv, BudgetInv, NEW u \in Up, Settle(u) PROVE BudgetInv'
<1>1. UNCHANGED <<job, result>> /\ slot = Active(job[u].session)
    BY DEF Settle, StillMine
<1>2. up[u] = "settling" /\ up'[u] = "report" /\ \A v \in Up : v # u => up'[v] = up[v]
    BY DEF Settle, UpStep, TypeOK
<1>3. PICK p \in Prep, g \in File :
          slot.id = p /\ job[u] = Job(p, g) /\ job[u].file = g /\ slot.kind = "active"
    BY <1>1, <1>2, JobFacts DEF JobInv, AtWork, Active, Job
<1> SUFFICES ASSUME slot'.kind = "active" PROVE BudgetInv'
    BY DEF BudgetInv
<1>4. slot' = slot
      /\ files' = [files EXCEPT ![g].status = SettledStatus(result[u], files[g].attempts)]
    BY <1>3 DEF Settle, Clear, NoSession
<1>5. ASSUME NEW f \in File PROVE Uploads(p, f)' = Uploads(p, f)
    BY <1>1, <1>3, <1>4 DEF Uploads, Job
<1>6. ASSUME NEW f \in File
      PROVE  /\ files'[f].attempts = files[f].attempts
             /\ f # g => files'[f].status = files[f].status
    BY <1>3, <1>4 DEF TypeOK
<1>7. files'[g].status = SettledStatus(result[u], files[g].attempts)
    BY <1>3, <1>4 DEF TypeOK
<1>8. ASSUME NEW f \in File, f # g PROVE Mismatches(p, f)' = Mismatches(p, f)
    <2>1. job[u] # Job(p, f)
        BY <1>3, <1>8 DEF Job
    <2>2. \A v \in Up : v \in Mismatches(p, f)' <=> v \in Mismatches(p, f)
        BY <1>1, <1>2, <1>4, <2>1 DEF Mismatches, Settled, Job
    <2> QED
        BY <2>2 DEF Mismatches, Settled
<1>9. files'[g].status = "pending" => Cardinality(Mismatches(p, g)') < MaxUploadAttempts
    <2> SUFFICES ASSUME files'[g].status = "pending"
                 PROVE  Cardinality(Mismatches(p, g)') < MaxUploadAttempts
        OBVIOUS
    <2>1. files[g].attempts < MaxUploadAttempts
        BY <1>7 DEF SettledStatus, WorthRetry
    <2>2. files[g].attempts < 255 /\ files[g].attempts \in Nat
        BY <1>3, <2>1, ConstantsAssumption DEF TypeOK
    <2>3. IsFiniteSet(Uploads(p, g)) /\ Cardinality(Uploads(p, g)) = files[g].attempts
        BY <1>3, <2>2 DEF BudgetInv
    <2>4. Mismatches(p, g)' \subseteq Uploads(p, g)
        BY <1>1, <1>4 DEF Mismatches, Settled, Uploads, Job
    <2>5. IsFiniteSet(Mismatches(p, g)')
          /\ Cardinality(Mismatches(p, g)') <= Cardinality(Uploads(p, g))
        BY <2>3, <2>4, FS_Subset
    <2>6. Cardinality(Mismatches(p, g)') \in Nat
        BY <2>5, FS_CardinalityType
    <2> QED
        BY <2>1, <2>2, <2>3, <2>5, <2>6, ConstantsAssumption
<1>10. ASSUME NEW f \in File
       PROVE  /\ IsFiniteSet(Uploads(p, f)')
              /\ files'[f].attempts < 255 => Cardinality(Uploads(p, f)') = files'[f].attempts
    BY <1>3, <1>5, <1>6 DEF BudgetInv
<1>11. ASSUME NEW f \in File, files'[f].status = "pending"
       PROVE  Cardinality(Mismatches(p, f)') < MaxUploadAttempts
    <2>1. CASE f = g
        BY <1>9, <1>11, <2>1
    <2>2. CASE f # g
        BY <1>3, <1>6, <1>8, <1>11, <2>2 DEF BudgetInv
    <2> QED
        BY <2>1, <2>2
<1> QED
    BY <1>3, <1>4, <1>10, <1>11 DEF BudgetInv

\* What else happens leaves the accounts of the active session alone.
LEMMA OtherBudget ==
    ASSUME TypeOK, JobInv, BudgetInv, Misses \/ Elsewhere PROVE BudgetInv'
<1> SUFFICES ASSUME slot'.kind = "active" PROVE BudgetInv'
    BY DEF BudgetInv
<1>1. UNCHANGED <<slot, files, job>>
    BY DEF Misses, SettleGone, Elsewhere
<1>2. slot.id \in Prep /\ slot = Active(slot.id)
    BY <1>1, JobFacts
<1>3. ASSUME NEW f \in File PROVE Uploads(slot.id, f)' = Uploads(slot.id, f)
    BY <1>1 DEF Uploads, Job
<1>4. ASSUME NEW f \in File, NEW v \in Up
      PROVE  v \in Mismatches(slot.id, f)' <=> v \in Mismatches(slot.id, f)
    <2>1. CASE Elsewhere
        <3>1. job[v] = Job(slot.id, f) => HasJob(v)
            BY <1>2, JobFacts DEF HasJob
        <3> QED
            BY <1>1, <2>1, <3>1 DEF Elsewhere, Mismatches, Settled, Job, Over
    <2>2. CASE Misses
        <3>1. PICK u \in Up : SettleGone(u)
            BY <2>2 DEF Misses
        <3>2. job[u].session # slot.id
            BY <1>2, <3>1 DEF SettleGone, StillMine
        <3>3. UNCHANGED result /\ \A w \in Up : w # u => up'[w] = up[w]
            BY <3>1 DEF SettleGone, UpStep, TypeOK
        <3> QED
            BY <1>1, <3>2, <3>3 DEF Mismatches, Settled
    <2> QED
        BY <2>1, <2>2
<1>5. ASSUME NEW f \in File PROVE Mismatches(slot.id, f)' = Mismatches(slot.id, f)
    BY <1>4 DEF Mismatches, Settled
<1> QED
    BY <1>1, <1>3, <1>5 DEF BudgetInv

\* For any number of uploads of one file and however they overlap: a file whose
\* attempts are used up is not offered again (settle_file).
THEOREM RetryBudgetHolds == Spec => []RetryBudget
<1>1. Init => BudgetInv
    BY DEF Init, BudgetInv, NoSession
<1>2. TypeOK /\ JobInv /\ BudgetInv /\ [Next]_vars => BudgetInv'
    BY Steps, InstallBudget, AdmitBudget, SettleBudget, OtherBudget DEF Installs, Admits, Settles
<1>3. BudgetInv => RetryBudget
    BY DEF BudgetInv, RetryBudget
<1> QED
    BY TypeCorrect, JobInit, JobStep, <1>1, <1>2, <1>3, PTL DEF Spec

-----------------------------------------------------------------------------
(* What "completed" says                                                     *)

\* Of every file that the user kept, an upload of the session was settled.
Complete(p) ==
    /\ answer[p].kind = "accept"
    /\ \A f \in answer[p].files : Settled(p, f) # {}

\* A kept file is pending until an upload of it is settled, and who completes a
\* session completes that one.
Kept(p) ==
    \A f \in answer[p].files :
        /\ files[f].status # "absent"
        /\ files[f].status \in {"finished", "failed"} => Settled(p, f) # {}
Reported(p) == \E i \in DOMAIN reported[p] : reported[p][i] = "completed"
CompleteInv ==
    \A p \in Prep :
        /\ slot = Active(p) => Kept(p)
        /\ \A u \in Up : complete[u] /\ job[u].session = p => Complete(p)
        /\ Reported(p) => Complete(p)

\* What was settled stays settled, and what was accepted stays as it was.
LEMMA SettledStays ==
    ASSUME TypeOK, JobInv, ConsentInv, [Next]_vars
    PROVE  /\ \A p \in Prep, f \in File : Settled(p, f) \subseteq Settled(p, f)'
           /\ \A p \in Prep : answer[p].kind = "accept" => answer'[p] = answer[p]
           /\ \A u \in Up : HasJob(u) => job'[u] = job[u]
<1>1. ASSUME NEW u \in Up, HasJob(u)
      PROVE  job'[u] = job[u] /\ (up[u] \in Over => up'[u] \in Over)
    <2>1. CASE Installs
        BY <2>1 DEF Installs, Install, upVars
    <2>2. CASE Admits
        BY <1>1, <2>2 DEF Admits, Admit, UpStep, Over, JobInv, TypeOK
    <2>3. CASE Settles \/ Misses
        BY <2>3 DEF Settles, Misses, Settle, SettleGone, UpStep, Over, TypeOK
    <2>4. CASE Elsewhere
        BY <1>1, <2>4 DEF Elsewhere
    <2> QED
        BY <2>1, <2>2, <2>3, <2>4, Steps
<1>2. ASSUME NEW p \in Prep, NEW f \in File, NEW u \in Settled(p, f) PROVE u \in Settled(p, f)'
    BY <1>1, JobFacts DEF Settled, HasJob, Job, Over
<1>3. ASSUME NEW p \in Prep, answer[p].kind = "accept" PROVE answer'[p] = answer[p]
    <2>1. ASSUME NEW q \in Prep, PrepNext(q) PROVE answer'[p] = answer[p]
        <3>1. CASE Raise(q)
            <4>1. q # p
                BY <1>3, <3>1 DEF Raise, PrepStep, ConsentInv, Unasked
            <4> QED
                BY <3>1, <4>1 DEF Raise, TypeOK
        <3>2. CASE ~Raise(q)
            BY <2>1, <3>2 DEF PrepNext, RefuseEarly, ClaimLock, ClaimRefused, Claim, RaiseFailed,
                CancelSeen, DecisionTimeout, DecideNo, DecideYes, Disconnect, InstallLock,
                InstallNothing, Install, GuardDrop
        <3> QED
            BY <3>1, <3>2
    <2>2. ASSUME NEW q \in Prep, AppNext(q) PROVE answer'[p] = answer[p]
        <3>1. answer[q].kind \in {"open", "accepting"}
            BY <2>2 DEF AppNext, Accept, AcceptAtOnce, Answered, SendAccept, Decline, Discard,
                AnswerStep
        <3>2. \E a : answer' = [answer EXCEPT ![q] = a]
            BY <2>2 DEF AppNext, Accept, AcceptAtOnce, Answered, SendAccept, Decline, Discard,
                AnswerStep
        <3> QED
            BY <1>3, <3>1, <3>2 DEF TypeOK
    <2>3. ASSUME NEW u \in Up, UpNext(u) PROVE UNCHANGED answer
        BY <2>3 DEF UpNext, EnterLock, EnterRefused, EnterWrongFile, Admit, NoDestination,
           StartReceiving, BodyEnds, DropUpload, SettleLock, SettleGone, Settle, Report, prepVars
    <2>4. CASE CtlNext \/ GoesQuiet \/ UNCHANGED vars
        BY <2>4 DEF CtlNext, CtlLock, CtlNothing, CtlReport, CancelPending, CancelActive,
           CancelSession, WatchSessions, GoesQuiet, vars, prepVars
    <2> QED
        BY <2>1, <2>2, <2>3, <2>4 DEF Next
<1> QED
    BY <1>1, <1>2, <1>3

\* A complete session stays complete, for its answer and its settled files stay.
LEMMA CompleteStays ==
    ASSUME TypeOK, JobInv, ConsentInv, [Next]_vars, NEW p \in Prep, Complete(p)
    PROVE  Complete(p)'
<1>1. answer'[p] = answer[p] /\ answer[p].files \subseteq File
    BY SettledStays DEF Complete, TypeOK, Answer
<1> QED
    BY <1>1, SettledStays DEF Complete

\* The step by which the last upload settles, or another one than the last.
LEMMA SettleCompletes ==
    ASSUME TypeOK, JobInv, ConsentInv, CompleteInv, NEW u \in Up, Settle(u)
    PROVE  CompleteInv'
<1>1. UNCHANGED <<job, result, reported, answer>> /\ slot = Active(job[u].session)
    BY DEF Settle, StillMine, prepVars
<1>2. up[u] = "settling" /\ up'[u] = "report" /\ \A v \in Up : v # u => up'[v] = up[v]
    BY DEF Settle, UpStep, TypeOK
<1>3. PICK p \in Prep, g \in File :
          /\ slot.id = p /\ slot.kind = "active"
          /\ job[u] = Job(p, g) /\ job[u].file = g /\ job[u].session = p
    BY <1>1, <1>2, JobFacts DEF JobInv, AtWork, Active, Job
<1> DEFINE marked == [files EXCEPT ![g].status = SettledStatus(result[u], files[g].attempts)]
<1>4. answer[p].kind = "accept" /\ answer[p].files \subseteq File
    BY <1>3 DEF ConsentInv, Consent, TypeOK, Answer
<1>5. u \in {v \in Up : job'[v] = Job(p, g) /\ up'[v] \in Over}
    BY <1>1, <1>2, <1>3 DEF Over
<1>6. [Next]_vars
    BY DEF Next, UpNext
<1>7. ASSUME NEW f \in answer[p].files
      PROVE  /\ marked[f].status # "absent"
             /\ marked[f].status # "pending" =>
                    {v \in Up : job'[v] = Job(p, f) /\ up'[v] \in Over} # {}
    <2>1. f \in File
        BY <1>4
    <2>2. CASE f = g
        <3>1. marked[g].status = SettledStatus(result[u], files[g].attempts)
            BY <1>3 DEF TypeOK
        <3>2. SettledStatus(result[u], files[g].attempts) # "absent"
            BY DEF SettledStatus
        <3> QED
            BY <1>5, <2>2, <3>1, <3>2
    <2>3. CASE f # g
        <3>1. marked[f].status = files[f].status /\ files[f].status \in Status
            BY <1>3, <2>1, <2>3 DEF TypeOK
        <3>2. files[f].status # "absent"
              /\ (files[f].status # "pending" => Settled(p, f) # {})
            BY <1>1, <1>3, <3>1 DEF CompleteInv, Kept, Status
        <3>3. Settled(p, f) \subseteq {v \in Up : job'[v] = Job(p, f) /\ up'[v] \in Over}
            BY <1>1, <1>2 DEF Settled, Job, Over
        <3> QED
            BY <3>1, <3>2, <3>3
    <2> QED
        BY <2>2, <2>3
<1>8. slot'.kind = "active" => slot' = slot /\ files' = marked
    BY <1>3 DEF Settle, Clear, NoSession
<1>9. complete'[u] => \A f \in File : marked[f].status # "pending"
    BY <1>3 DEF Settle, AllSettled, TypeOK
<1>10. \A v \in Up : v # u => complete'[v] = complete[v]
    BY DEF Settle, TypeOK
<1>11. complete'[u] => Complete(p)'
    BY <1>1, <1>4, <1>7, <1>9 DEF Complete, Settled, Job, Over
<1>12. \A q \in Prep : Complete(q) => Complete(q)'
    BY <1>6, CompleteStays
<1> SUFFICES ASSUME NEW q \in Prep
             PROVE  /\ slot' = Active(q) => Kept(q)'
                    /\ \A v \in Up : complete'[v] /\ job'[v].session = q => Complete(q)'
                    /\ Reported(q)' => Complete(q)'
    BY DEF CompleteInv
<1>13. ASSUME slot' = Active(q) PROVE Kept(q)'
    <2>1. slot'.kind = "active" /\ slot'.id = q
        BY <1>13 DEF Active
    <2>2. q = p /\ files' = marked
        BY <1>3, <1>8, <2>1
    <2> HIDE DEF marked
    <2> QED
        BY <1>1, <1>7, <2>2 DEF Kept, Settled, Job, Over
<1>14. ASSUME NEW v \in Up, complete'[v], job'[v].session = q PROVE Complete(q)'
    <2>1. job'[v] = job[v]
        BY <1>1
    <2>2. CASE v = u
        BY <1>3, <1>11, <1>14, <2>1, <2>2
    <2>3. CASE v # u
        <3>1. Complete(q)
            BY <1>10, <1>14, <2>1, <2>3 DEF CompleteInv
        <3> QED
            BY <1>12, <3>1
    <2> QED
        BY <2>2, <2>3
<1>15. Reported(q)' => Complete(q)'
    BY <1>1, <1>12 DEF CompleteInv, Reported
<1> QED
    BY <1>13, <1>14, <1>15

\* The other steps: a new session has nothing settled, and a report of "completed"
\* is that of an upload that saw it.
LEMMA CompleteStep ==
    ASSUME TypeOK, JobInv, ConsentInv, EndedInv, CompleteInv, [Next]_vars PROVE CompleteInv'
<1> SUFFICES ASSUME NEW q \in Prep, ~Settles
             PROVE  /\ slot' = Active(q) => Kept(q)'
                    /\ \A v \in Up : complete'[v] /\ job'[v].session = q => Complete(q)'
                    /\ Reported(q)' => Complete(q)'
    BY SettleCompletes DEF CompleteInv, Settles
<1>1. Complete(q) => Complete(q)'
    BY CompleteStays
<1>2. \A v \in Up : complete[v] /\ job[v].session = q => Complete(q)
    BY DEF CompleteInv
<1>3. Reported(q) => Complete(q)
    BY DEF CompleteInv
<1>4. ASSUME slot' = Active(q) PROVE Kept(q)'
    <2>1. slot'.kind = "active" /\ slot'.id = q
        BY <1>4 DEF Active
    <2>2. ASSUME NEW p \in Prep, Install(p) PROVE Kept(q)'
        <3>1. p = q /\ files' = Accepted(answer[q].files) /\ UNCHANGED answer
            BY <2>1, <2>2 DEF Install, Active
        <3>2. answer[q].files \subseteq File
            BY DEF TypeOK, Answer
        <3> QED
            BY <3>1, <3>2 DEF Kept, Accepted
    <2>3. CASE slot' = slot /\ \A f \in File : files'[f].status = files[f].status
        <3>1. Kept(q) /\ answer[q].kind = "accept" /\ answer[q].files \subseteq File
            BY <1>4, <2>1, <2>3 DEF CompleteInv, ConsentInv, Consent, TypeOK, Answer
        <3>2. answer'[q] = answer[q] /\ \A f \in File : Settled(q, f) \subseteq Settled(q, f)'
            BY <3>1, SettledStays
        <3> QED
            BY <2>3, <3>1, <3>2 DEF Kept
    <2>4. CASE Admits
        BY <2>3, <2>4 DEF Admits, Admit, TypeOK
    <2>5. CASE Misses
        BY <2>3, <2>5 DEF Misses, SettleGone
    <2>6. CASE Elsewhere
        BY <2>1, <2>3, <2>6 DEF Elsewhere
    <2> QED
        BY <2>2, <2>4, <2>5, <2>6, Steps DEF Installs
<1>5. ASSUME NEW v \in Up, complete'[v], job'[v].session = q PROVE Complete(q)'
    <2>1. complete' = complete
        BY DEF Next, PrepNext, RefuseEarly, ClaimLock, ClaimRefused, Claim, Raise, RaiseFailed,
           CancelSeen, DecisionTimeout, DecideNo, DecideYes, Disconnect, InstallLock,
           InstallNothing, Install, GuardDrop, AppNext, Accept, AcceptAtOnce, Answered, SendAccept,
           Decline, Discard, AnswerStep, UpNext, EnterLock, EnterRefused, EnterWrongFile, Admit,
           NoDestination, StartReceiving, BodyEnds, DropUpload, SettleLock, SettleGone, Report,
           CtlNext, CtlLock, CtlNothing, CtlReport, CancelPending, CancelActive, CancelSession,
           WatchSessions, GoesQuiet, vars, upVars, Settles
    <2>2. up[v] \in Over
        BY <1>5, <2>1 DEF EndedInv, Over
    <2>3. job'[v] = job[v]
        <3>1. CASE Installs
            BY <3>1 DEF Installs, Install, upVars
        <3>2. CASE Admits
            BY <2>2, <3>2 DEF Admits, Admit, UpStep, Over, TypeOK
        <3>3. CASE Misses
            BY <3>3 DEF Misses, SettleGone
        <3>4. CASE Elsewhere
            BY <3>4 DEF Elsewhere
        <3> QED
            BY <3>1, <3>2, <3>3, <3>4, Steps
    <2> QED
        BY <1>1, <1>2, <1>5, <2>1, <2>3
<1>6. ASSUME Reported(q)' PROVE Complete(q)'
    <2>1. CASE reported' = reported
        BY <1>1, <1>3, <1>6, <2>1 DEF Reported
    <2>2. ASSUME NEW u \in Up, Report(u), reported' # reported PROVE Complete(q)'
        <3>1. complete[u] /\ reported' = [reported EXCEPT ![job[u].session] = Append(@, "completed")]
            BY <2>2 DEF Report
        <3>2. CASE job[u].session = q
            BY <1>1, <1>2, <3>1, <3>2
        <3>3. CASE job[u].session # q
            BY <1>1, <1>3, <1>6, <3>1, <3>3 DEF Reported, TypeOK
        <3> QED
            BY <3>2, <3>3
    <2>3. ASSUME NEW c \in Ctl, CtlReport(c) PROVE Complete(q)'
        <3>1. reported' = [reported EXCEPT ![victim[c]] = Append(@, OutcomeOf(c))]
            BY <2>3 DEF CtlReport
        <3>2. OutcomeOf(c) # "completed"
            BY DEF OutcomeOf
        <3>3. CASE victim[c] = q
            <4>1. reported'[q] = Append(reported[q], OutcomeOf(c)) /\ reported[q] \in Seq(Outcome)
                BY <3>1, <3>3 DEF TypeOK
            <4>2. \A i \in DOMAIN reported'[q] :
                      \/ i \in DOMAIN reported[q] /\ reported'[q][i] = reported[q][i]
                      \/ reported'[q][i] = OutcomeOf(c)
                BY <4>1
            <4>3. Reported(q)
                BY <1>6, <3>2, <4>2 DEF Reported
            <4> QED
                BY <1>1, <1>3, <4>3
        <3>4. CASE victim[c] # q
            BY <1>1, <1>3, <1>6, <3>1, <3>4 DEF Reported, TypeOK
        <3> QED
            BY <3>3, <3>4
    <2>4. \/ reported' = reported
          \/ \E u \in Up : Report(u)
          \/ \E c \in Ctl : CtlReport(c)
        BY DEF Next, PrepNext, RefuseEarly, ClaimLock, ClaimRefused, Claim, Raise, RaiseFailed,
           CancelSeen, DecisionTimeout, DecideNo, DecideYes, Disconnect, InstallLock,
           InstallNothing, Install, GuardDrop, AppNext, Accept, AcceptAtOnce, Answered, SendAccept,
           Decline, Discard, AnswerStep, UpNext, EnterLock, EnterRefused, EnterWrongFile, Admit,
           NoDestination, StartReceiving, BodyEnds, DropUpload, SettleLock, SettleGone, Settle,
           CtlNext, CtlLock, CtlNothing, CancelPending, CancelActive, CancelSession,
           WatchSessions, GoesQuiet, vars
    <2> QED
        BY <2>1, <2>2, <2>3, <2>4
<1> QED
    BY <1>4, <1>5, <1>6

\* "Completed" is reported only of a session of which every kept file was settled
\* by an upload of its own, for any number of uploads and sessions.
THEOREM CompletedAccountsHolds == Spec => []CompletedAccounts
<1>1. Init => CompleteInv
    BY DEF Init, CompleteInv, Reported, NoSession, Active
<1>2. CompleteInv => CompletedAccounts
    BY DEF CompleteInv, CompletedAccounts, Reported, Complete
<1> QED
    BY TypeCorrect, JobInit, JobStep, ConsentInvHolds, EndedInvHolds, CompleteStep, <1>1, <1>2,
       PTL DEF Spec

=============================================================================
