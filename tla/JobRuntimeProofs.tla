-------------------------- MODULE JobRuntimeProofs --------------------------
(* Theorems of JobRuntime for any sets of runs and workers and any bounds.  *)
EXTENDS JobRuntime, TLAPS

\* The live attempt, if there is one, is the last attempt made.
LiveIsLast ==
  \A r \in Runs, n \in Numbers : attempt[r][n] = "running" => n = made[r]

\* A run that is neither running nor timed out has no live attempt.
IdleHasNoLive ==
  \A r \in Runs :
    run[r].status \notin {"running", "timed_out"} =>
      \A n \in Numbers : attempt[r][n] # "running"

\* A run that may be claimed has an execution left in its budget.
BudgetLeft ==
  \A r \in Runs :
    run[r].status \in Claimable \cup {"absent"} => made[r] < MaxAttempts + retries[r]

\* The inductive invariant.
JobInv == TypeOK /\ LiveIsLast /\ IdleHasNoLive /\ AttemptBudget /\ BudgetLeft

-----------------------------------------------------------------------------
\* Every variable keeps its type (prismaJobRepository.js, all operations).
LEMMA TypeInit == Init => TypeOK
<1> SUFFICES ASSUME Init PROVE TypeOK
  OBVIOUS
<1> USE DEF Init
<1>1. run \in [Runs -> Row]
  BY DEF Row
<1>2. made \in [Runs -> 0..AttemptCap] /\ retries \in [Runs -> 0..MaxRetries]
  BY MaxAttemptsAssumption, MaxRetriesAssumption DEF AttemptCap
<1>3. attempt \in [Runs -> [Numbers -> AttemptStatuses \cup {"none"}]]
  OBVIOUS
<1>4. snap \in [Workers -> Snapshot \cup {None}]
  OBVIOUS
<1> QED
  BY <1>1, <1>2, <1>3, <1>4 DEF TypeOK

LEMMA TypeStep == TypeOK /\ [Next]_vars => TypeOK'
<1> SUFFICES ASSUME TypeOK, [Next]_vars PROVE TypeOK'
  OBVIOUS
<1> USE MaxAttemptsAssumption, MaxRetriesAssumption
    DEF TypeOK, Row, Snapshot, RunStatuses, AttemptStatuses, Claimable, sweepVars
<1>1. ASSUME NEW r \in Runs, Enqueue(r) PROVE TypeOK'
  BY ZenonT(30), <1>1 DEF Enqueue
<1>2. ASSUME NEW r \in Runs, NEW copy \in Runs, Rerun(r, copy) PROVE TypeOK'
  BY ZenonT(30), <1>2 DEF Rerun, Enqueue
<1>3. CASE PauseDefinition \/ ResumeDefinition
  BY <1>3 DEF PauseDefinition, ResumeDefinition
<1>4. ASSUME NEW w \in Workers, NEW r \in Runs, ClaimRead(w, r) PROVE TypeOK'
  BY <1>4 DEF ClaimRead
<1>5. ASSUME NEW w \in Workers, ClaimTake(w) PROVE TypeOK'
  <2>1. snap[w].run \in Runs
    BY <1>5 DEF ClaimTake
  <2>2. made[snap[w].run] + 1 \in 0..AttemptCap
    BY <1>5, <2>1 DEF ClaimTake, Numbers, AttemptCap
  <2>3. made' \in [Runs -> 0..AttemptCap]
    BY <1>5, <2>1, <2>2 DEF ClaimTake
  <2>4. run' \in [Runs -> Row]
    BY SMTT(30), <1>5, <2>1 DEF ClaimTake
  <2>5. attempt' \in [Runs -> [Numbers -> AttemptStatuses \cup {"none"}]]
    BY <1>5, <2>1 DEF ClaimTake
  <2>6. snap' \in [Workers -> Snapshot \cup {None}]
    BY <1>5 DEF ClaimTake
  <2> QED
    BY <1>5, <2>3, <2>4, <2>5, <2>6 DEF ClaimTake
<1>6. ASSUME NEW w \in Workers, ClaimLost(w) PROVE TypeOK'
  BY <1>6 DEF ClaimLost
<1>7. ASSUME NEW r \in Runs, NEW n \in Numbers, Lease(r, n) PROVE TypeOK'
  <2>1. CASE Heartbeat(r, n)
    BY <2>1 DEF Heartbeat
  <2>2. CASE Complete(r, n)
    BY ZenonT(30), <2>2 DEF Complete
  <2>3. CASE Fail(r, n)
    BY ZenonT(30), <2>3 DEF Fail
  <2>4. CASE CancelRunning(r, n)
    BY <2>4 DEF CancelRunning
  <2> QED
    BY <1>7, <2>1, <2>2, <2>3, <2>4 DEF Lease
<1>8. ASSUME NEW r \in Runs, RequestCancel(r) PROVE TypeOK'
  <2>1. run[r] \in Row /\ run'[r] \in Row
    BY <1>8 DEF RequestCancel
  <2>2. run' = [run EXCEPT ![r] = run'[r]]
    BY <1>8 DEF RequestCancel
  <2>3. run' \in [Runs -> Row]
    BY <2>1, <2>2
  <2> QED
    BY <1>8, <2>3 DEF RequestCancel
<1>9. ASSUME NEW r \in Runs, RetryDeadLetter(r) PROVE TypeOK'
  <2>0. run[r] \in Row /\ run'[r] \in Row /\ run' = [run EXCEPT ![r] = run'[r]]
    BY <1>9 DEF RetryDeadLetter
  <2>1. run' \in [Runs -> Row]
    BY <2>0
  <2>2. retries' \in [Runs -> 0..MaxRetries]
    BY <1>9 DEF RetryDeadLetter
  <2> QED
    BY <1>9, <2>1, <2>2 DEF RetryDeadLetter
<1>10. CASE SweepSelect
  BY <1>10 DEF SweepSelect
<1>11. ASSUME NEW r \in Runs, SweepAttempts(r) PROVE TypeOK'
  BY <1>11 DEF SweepAttempts
<1>12. CASE SweepRun
  BY <1>12 DEF SweepRun
<1>13. ASSUME NEW r \in Runs, DeadlinePasses(r) \/ BackoffElapses(r) PROVE TypeOK'
  <2>1. CASE DeadlinePasses(r)
    BY ZenonT(30), <2>1 DEF DeadlinePasses
  <2>2. CASE BackoffElapses(r)
    BY ZenonT(30), <2>2 DEF BackoffElapses
  <2> QED
    BY <1>13, <2>1, <2>2
<1>14. CASE UNCHANGED vars
  BY <1>14 DEF vars
<1> QED
  BY <1>1, <1>2, <1>3, <1>4, <1>5, <1>6, <1>7, <1>8, <1>9, <1>10, <1>11, <1>12, <1>13, <1>14
     DEF Next, Claim, Admin, Sweep

THEOREM JobTypeCorrect == Spec => []TypeOK
<1>1. Init => TypeOK
  BY TypeInit
<1>2. TypeOK /\ [Next]_vars => TypeOK'
  BY TypeStep
<1> QED
  BY <1>1, <1>2, PTL DEF Spec

-----------------------------------------------------------------------------
\* What each step does to the rows the invariant relates.
LEMMA InvStep == JobInv /\ [Next]_vars => JobInv'
<1> SUFFICES ASSUME JobInv, [Next]_vars PROVE JobInv'
  OBVIOUS
<1> USE MaxAttemptsAssumption, MaxRetriesAssumption
    DEF LiveIsLast, IdleHasNoLive, AttemptBudget, BudgetLeft, Claimable, sweepVars
<1>0. TypeOK /\ TypeOK'
  BY TypeStep DEF JobInv
<1>a. LiveIsLast /\ IdleHasNoLive /\ AttemptBudget /\ BudgetLeft
  BY DEF JobInv
<1>t. /\ run \in [Runs -> Row]
      /\ made \in [Runs -> Nat]
      /\ attempt \in [Runs -> [Numbers -> AttemptStatuses \cup {"none"}]]
      /\ retries \in [Runs -> Nat]
  BY <1>0 DEF TypeOK, AttemptCap
<1> DEFINE Rest == LiveIsLast /\ IdleHasNoLive /\ AttemptBudget /\ BudgetLeft
<1>1. ASSUME NEW r \in Runs, Enqueue(r) PROVE Rest'
  BY <1>1, <1>a, <1>t DEF Enqueue, Row
<1>2. ASSUME NEW r \in Runs, NEW copy \in Runs, Rerun(r, copy) PROVE Rest'
  BY <1>2, <1>1 DEF Rerun
<1>3. ASSUME PauseDefinition \/ ResumeDefinition PROVE Rest'
  BY <1>3, <1>a DEF PauseDefinition, ResumeDefinition
<1>4. ASSUME NEW w \in Workers, NEW r \in Runs, ClaimRead(w, r) PROVE Rest'
  BY <1>4, <1>a DEF ClaimRead
<1>5. ASSUME NEW w \in Workers, ClaimTake(w) PROVE Rest'
  <2> DEFINE r == snap[w].run
  <2>1. r \in Runs /\ run[r].status \in Claimable
    BY <1>5, <1>0 DEF ClaimTake, CasHolds, TypeOK, Snapshot
  <2>2. /\ run' = [run EXCEPT ![r].status = "running", ![r].late = FALSE]
        /\ made' = [made EXCEPT ![r] = made[r] + 1]
        /\ attempt' = [attempt EXCEPT ![r][made[r] + 1] = "running"]
        /\ retries' = retries
        /\ made[r] + 1 \in Numbers
    BY <1>5 DEF ClaimTake
  <2>3. \A n \in Numbers : attempt[r][n] # "running"
    BY <2>1, <1>a
  <2> HIDE DEF r
  <2>4. LiveIsLast'
    BY <2>1, <2>2, <2>3, <1>a, <1>t
  <2>5. IdleHasNoLive'
    BY <2>1, <2>2, <1>a, <1>t DEF Row
  <2>6. AttemptBudget' /\ BudgetLeft'
    BY <2>1, <2>2, <1>a, <1>t DEF Row
  <2> QED
    BY <2>4, <2>5, <2>6
<1>6. ASSUME NEW w \in Workers, ClaimLost(w) PROVE Rest'
  BY <1>6, <1>a DEF ClaimLost
<1>7. ASSUME NEW r \in Runs, NEW n \in Numbers, Lease(r, n) PROVE Rest'
  <2>1. CASE Heartbeat(r, n)
    BY <2>1, <1>a, <1>t DEF Heartbeat, Row
  <2>2. CASE Complete(r, n)
    BY <2>2, <1>a, <1>t DEF Complete, Row
  <2>3. CASE Fail(r, n)
    <3>1. n = made[r]
      BY <2>3, <1>a DEF Fail
    <3>2. n \in Nat
      BY DEF Numbers
    <3>3. LiveIsLast' /\ IdleHasNoLive'
      BY <2>3, <1>a, <1>t DEF Fail, Row
    <3>4. AttemptBudget' /\ BudgetLeft'
      BY <2>3, <3>1, <3>2, <1>a, <1>t DEF Fail, Row
    <3> QED
      BY <3>3, <3>4
  <2>4. CASE CancelRunning(r, n)
    BY <2>4, <1>a, <1>t DEF CancelRunning, Row
  <2> QED
    BY <1>7, <2>1, <2>2, <2>3, <2>4 DEF Lease
<1>8. ASSUME NEW r \in Runs, RequestCancel(r) PROVE Rest'
  BY <1>8, <1>a, <1>t DEF RequestCancel, Row, Final
<1>9. ASSUME NEW r \in Runs, RetryDeadLetter(r) PROVE Rest'
  BY <1>9, <1>a, <1>t DEF RetryDeadLetter, Row
<1>10. ASSUME SweepSelect PROVE Rest'
  BY <1>10, <1>a DEF SweepSelect
<1>11. ASSUME NEW r \in Runs, SweepAttempts(r) PROVE Rest'
  BY <1>11, <1>a, <1>t DEF SweepAttempts
<1>12. ASSUME SweepRun PROVE Rest'
  BY <1>12, <1>0, <1>a, <1>t DEF SweepRun, TypeOK, Row
<1>13. ASSUME NEW r \in Runs, DeadlinePasses(r) \/ BackoffElapses(r) PROVE Rest'
  <2>1. CASE DeadlinePasses(r)
    BY <2>1, <1>a, <1>t DEF DeadlinePasses, Row
  <2>2. CASE BackoffElapses(r)
    BY <2>2, <1>a, <1>t DEF BackoffElapses, Row
  <2> QED
    BY <1>13, <2>1, <2>2
<1>14. ASSUME UNCHANGED vars PROVE Rest'
  BY <1>14, <1>a DEF vars
<1>15. Rest'
  BY <1>1, <1>2, <1>3, <1>4, <1>5, <1>6, <1>7, <1>8, <1>9, <1>10, <1>11, <1>12, <1>13, <1>14
     DEF Next, Claim, Admin, Sweep
<1> QED
  BY <1>0, <1>15 DEF JobInv

LEMMA InvInit == Init => JobInv
BY TypeInit, MaxAttemptsAssumption, MaxRetriesAssumption
   DEF Init, JobInv, LiveIsLast, IdleHasNoLive, AttemptBudget, BudgetLeft, Claimable

LEMMA InvAlways == Spec => []JobInv
<1>1. Init => JobInv
  BY InvInit
<1>2. JobInv /\ [Next]_vars => JobInv'
  BY InvStep
<1> QED
  BY <1>1, <1>2, PTL DEF Spec

\* No run is ever executed under two accepted tokens: the claim's
\* compare-and-set, the attempt-guarded closes and the sweep keep the live
\* attempt unique (prismaJobRepository.js 55-114, 163-190).
THEOREM JobOneLiveAttempt == Spec => []OneLiveAttempt
<1>1. JobInv => OneLiveAttempt
  BY DEF JobInv, LiveIsLast, OneLiveAttempt, Live
<1> QED
  BY <1>1, InvAlways, PTL

\* A run is executed at most maxAttempts times plus once per administrator
\* retry (fail 100-114, retryDeadLetter 115-120).
THEOREM JobAttemptBudget == Spec => []AttemptBudget
<1>1. JobInv => AttemptBudget
  BY DEF JobInv
<1> QED
  BY <1>1, InvAlways, PTL

-----------------------------------------------------------------------------
\* What the two tables say of each other. A late complete may record a success
\* under a run that the sweep has timed out meanwhile.
Agree ==
  \A r \in Runs :
    /\ run[r].status = "running" /\ closing # r =>
         made[r] \in Numbers /\ attempt[r][made[r]] = "running"
    /\ run[r].status = "succeeded" =>
         made[r] \in Numbers /\ attempt[r][made[r]] = "succeeded"
    /\ \A n \in Numbers : attempt[r][n] = "succeeded" =>
         n = made[r] /\ run[r].status \in {"succeeded", "timed_out"}

\* Every statement on one of the tables keeps them in agreement.
LEMMA AgreeStep == JobInv /\ Agree /\ [Next]_vars => Agree'
<1> SUFFICES ASSUME JobInv, Agree, [Next]_vars PROVE Agree'
  OBVIOUS
<1> USE DEF sweepVars
<1>0. TypeOK /\ LiveIsLast /\ IdleHasNoLive
  BY DEF JobInv
<1>t. /\ run \in [Runs -> Row]
      /\ made \in [Runs -> Nat]
      /\ attempt \in [Runs -> [Numbers -> AttemptStatuses \cup {"none"}]]
      /\ closing \in Runs \cup {None}
  BY <1>0, MaxAttemptsAssumption, MaxRetriesAssumption DEF TypeOK, AttemptCap
<1>1. ASSUME NEW r \in Runs, Enqueue(r) PROVE Agree'
  BY <1>1, <1>t, <1>0 DEF Enqueue, Row, Agree, IdleHasNoLive
<1>2. ASSUME NEW r \in Runs, NEW copy \in Runs, Rerun(r, copy) PROVE Agree'
  BY <1>1, <1>2 DEF Rerun
<1>3. ASSUME PauseDefinition \/ ResumeDefinition PROVE Agree'
  BY <1>3 DEF PauseDefinition, ResumeDefinition, Agree
<1>4. ASSUME NEW w \in Workers, NEW r \in Runs, ClaimRead(w, r) PROVE Agree'
  BY <1>4 DEF ClaimRead, Agree
<1>5. ASSUME NEW w \in Workers, ClaimTake(w) PROVE Agree'
  <2> DEFINE r == snap[w].run
             n == made[r] + 1
  <2>1. r \in Runs /\ run[r].status \in Claimable
    BY <1>5, <1>0 DEF ClaimTake, CasHolds, TypeOK, Snapshot
  <2>2. /\ run' = [run EXCEPT ![r].status = "running", ![r].late = FALSE]
        /\ made' = [made EXCEPT ![r] = n]
        /\ attempt' = [attempt EXCEPT ![r][n] = "running"]
        /\ closing' = closing
        /\ n \in Numbers
    BY <1>5 DEF ClaimTake
  <2> HIDE DEF r, n
  <2>3. \A m \in Numbers : attempt[r][m] # "succeeded"
    BY <2>1 DEF Agree, Claimable
  <2> QED
    BY <2>1, <2>2, <2>3, <1>t DEF Agree, Row
<1>6. ASSUME NEW w \in Workers, ClaimLost(w) PROVE Agree'
  BY <1>6 DEF ClaimLost, Agree
<1>7. ASSUME NEW r \in Runs, NEW n \in Numbers, Lease(r, n) PROVE Agree'
  <2>1. CASE Heartbeat(r, n)
    BY <2>1, <1>t DEF Heartbeat, Row, Agree
  <2>2. attempt[r][n] = "running" => n = made[r] /\ run[r].status \in {"running", "timed_out"}
    BY <1>0 DEF LiveIsLast, IdleHasNoLive
  <2>3. CASE Complete(r, n)
    BY <2>2, <2>3, <1>t DEF Complete, Row, Agree
  <2>4. CASE Fail(r, n)
    BY <2>2, <2>4, <1>t DEF Fail, Row, Agree
  <2>5. CASE CancelRunning(r, n)
    BY <2>2, <2>5, <1>t DEF CancelRunning, Row, Agree
  <2> QED
    BY <1>7, <2>1, <2>3, <2>4, <2>5 DEF Lease
<1>8. ASSUME NEW r \in Runs, RequestCancel(r) PROVE Agree'
  BY <1>8, <1>t DEF RequestCancel, Row, Final, Agree
<1>9. ASSUME NEW r \in Runs, RetryDeadLetter(r) PROVE Agree'
  BY <1>9, <1>t DEF RetryDeadLetter, Row, Agree
<1>10. ASSUME SweepSelect PROVE Agree'
  BY <1>10 DEF SweepSelect, Agree
<1>11. ASSUME NEW r \in Runs, SweepAttempts(r) PROVE Agree'
  <2>1. /\ closing = None /\ closing' = r /\ r # None /\ UNCHANGED <<run, made>>
        /\ attempt' = [attempt EXCEPT ![r] =
             [n \in Numbers |-> IF attempt[r][n] = "running" THEN "timed_out" ELSE attempt[r][n]]]
    BY <1>11, NoneAssumption DEF SweepAttempts
  <2>2. \A n \in Numbers : attempt'[r][n] =
             IF attempt[r][n] = "running" THEN "timed_out" ELSE attempt[r][n]
    BY <2>1, <1>t
  <2>3. \A q \in Runs \ {r} : attempt'[q] = attempt[q] /\ q # closing' /\ q # closing
    BY <2>1, <1>t, NoneAssumption
  <2> QED
    BY <2>1, <2>2, <2>3 DEF Agree
<1>12. ASSUME SweepRun PROVE Agree'
  BY <1>12, <1>t DEF SweepRun, Row, Agree
<1>13. ASSUME NEW r \in Runs, DeadlinePasses(r) \/ BackoffElapses(r) PROVE Agree'
  BY <1>13, <1>t DEF DeadlinePasses, BackoffElapses, Row, Agree
<1>14. ASSUME UNCHANGED vars PROVE Agree'
  BY <1>14 DEF vars, Agree
<1>15. ASSUME NEW w \in Workers, Claim(w) PROVE Agree'
  BY <1>4, <1>5, <1>6, <1>15 DEF Claim
<1>16. ASSUME Sweep PROVE Agree'
  BY <1>10, <1>11, <1>12, <1>16 DEF Sweep
<1>17. ASSUME NEW r \in Runs, Admin(r) PROVE Agree'
  BY <1>8, <1>9, <1>17 DEF Admin
<1> HIDE DEF sweepVars
<1> QED
  BY <1>1, <1>2, <1>3, <1>7, <1>13, <1>14, <1>15, <1>16, <1>17 DEF Next

\* Runs and attempts agree, whatever claims, closes, retries and sweeps come
\* between their statements: a running run can be closed by some token, and a
\* run succeeded is one whose last attempt, and no other, did.
THEOREM JobRunsMatchAttempts == Spec => []RunsMatchAttempts
<1>1. ASSUME Init PROVE Agree
  <2>1. \A r \in Runs : run[r].status = "absent"
    BY <1>1 DEF Init
  <2>2. \A r \in Runs, n \in Numbers : attempt[r][n] = "none"
    BY <1>1 DEF Init
  <2> QED
    BY <2>1, <2>2 DEF Agree
<1>2. JobInv /\ Agree /\ [Next]_vars => Agree'
  BY AgreeStep
<1>3. Agree => RunsMatchAttempts
  BY DEF Agree, RunsMatchAttempts, RunningHasLiveAttempt, SucceededByLastAttempt, Live
<1> QED
  BY <1>1, <1>2, <1>3, InvAlways, PTL DEF Spec

-----------------------------------------------------------------------------
\* Every write of job_runs.status is guarded by a status that is not final.
LEMMA FinalStep ==
  ASSUME TypeOK, [Next]_vars, NEW r \in Runs, run[r].status \in Final
  PROVE  run'[r].status = run[r].status
<1> USE DEF TypeOK, Row, Final
<1>1. ASSUME NEW q \in Runs, Enqueue(q) PROVE run'[r].status = run[r].status
  BY <1>1 DEF Enqueue
<1>2. ASSUME NEW w \in Workers, ClaimTake(w) PROVE run'[r].status = run[r].status
  BY <1>2 DEF ClaimTake, CasHolds, Snapshot, Claimable
<1>3. ASSUME NEW q \in Runs, NEW n \in Numbers, Lease(q, n) PROVE run'[r].status = run[r].status
  BY <1>3 DEF Lease, Heartbeat, Complete, Fail, CancelRunning
<1>4. ASSUME NEW q \in Runs, RequestCancel(q) \/ RetryDeadLetter(q)
      PROVE  run'[r].status = run[r].status
  BY <1>4 DEF RequestCancel, RetryDeadLetter
<1>5. CASE SweepRun
  BY <1>5 DEF SweepRun
<1>6. ASSUME NEW q \in Runs, DeadlinePasses(q) \/ BackoffElapses(q)
      PROVE  run'[r].status = run[r].status
  BY <1>6 DEF DeadlinePasses, BackoffElapses
<1>7. ASSUME UNCHANGED run PROVE run'[r].status = run[r].status
  BY <1>7
<1> QED
  BY <1>1, <1>2, <1>3, <1>4, <1>5, <1>6, <1>7
     DEF Next, Rerun, PauseDefinition, ResumeDefinition, Claim, ClaimRead, ClaimLost,
         Sweep, SweepSelect, SweepAttempts, Admin, vars

\* Only a claim starts a run, and it finds a cancellation in the row it writes.
LEMMA CancelStep ==
  ASSUME TypeOK, [Next]_vars, NEW r \in Runs, run[r].cancel, run[r].status # "running"
  PROVE  run'[r].status # "running"
<1> USE DEF TypeOK, Row
<1>1. ASSUME NEW q \in Runs, Enqueue(q) PROVE run'[r].status # "running"
  BY <1>1 DEF Enqueue
<1>2. ASSUME NEW w \in Workers, ClaimTake(w) PROVE run'[r].status # "running"
  BY <1>2 DEF ClaimTake, CasHolds, Snapshot
<1>3. ASSUME NEW q \in Runs, NEW n \in Numbers, Lease(q, n) PROVE run'[r].status # "running"
  <2>1. CASE Heartbeat(q, n)
    BY <2>1 DEF Heartbeat
  <2>2. CASE Complete(q, n)
    BY <2>2 DEF Complete
  <2>3. CASE Fail(q, n)
    BY <2>3 DEF Fail
  <2>4. CASE CancelRunning(q, n)
    BY <2>4 DEF CancelRunning
  <2> QED
    BY <1>3, <2>1, <2>2, <2>3, <2>4 DEF Lease
<1>4. ASSUME NEW q \in Runs, RequestCancel(q) \/ RetryDeadLetter(q)
      PROVE  run'[r].status # "running"
  <2>1. CASE RequestCancel(q)
    BY <2>1 DEF RequestCancel, Final
  <2>2. CASE RetryDeadLetter(q)
    BY <2>2 DEF RetryDeadLetter
  <2> QED
    BY <1>4, <2>1, <2>2
<1>5. CASE SweepRun
  BY <1>5 DEF SweepRun
<1>6. ASSUME NEW q \in Runs, DeadlinePasses(q) \/ BackoffElapses(q)
      PROVE  run'[r].status # "running"
  BY <1>6 DEF DeadlinePasses, BackoffElapses
<1>7. ASSUME UNCHANGED run PROVE run'[r].status # "running"
  BY <1>7
<1> QED
  BY <1>1, <1>2, <1>3, <1>4, <1>5, <1>6, <1>7
     DEF Next, Rerun, PauseDefinition, ResumeDefinition, Claim, ClaimRead, ClaimLost,
         Sweep, SweepSelect, SweepAttempts, Admin, vars

\* A succeeded, timed out or cancelled run is never moved again by a late
\* complete, fail, sweep, claim or cancellation, and a run that is to be
\* cancelled is not started.
THEOREM JobNoRevival == Spec => NoRevival
<1>1. TypeOK /\ [Next]_vars =>
        [\A r \in Runs :
           /\ run[r].status \in Final => run'[r].status = run[r].status
           /\ run[r].cancel /\ run[r].status # "running" => run'[r].status # "running"]_vars
  BY FinalStep, CancelStep
<1> QED
  BY <1>1, JobTypeCorrect, PTL DEF Spec, NoRevival
=============================================================================
