----------------------------- MODULE JobRuntime -----------------------------
(***************************************************************************)
(* The durable job runtime of server/src/jobs/prismaJobRepository.js: the  *)
(* job_runs and job_attempts tables of one job definition, and every       *)
(* repository call that changes them.  The callers are workers that hold a *)
(* lease token, an administrator, and the timeout sweep.                   *)
(*                                                                         *)
(* A run is named by its idempotency key, an attempt of a run by its       *)
(* attempt number, which also stands for the attempt's lease token: a      *)
(* worker that knows the token may use it at any later moment.             *)
(*                                                                         *)
(* Time is abstracted to what the guards compare: a run is "due" once      *)
(* scheduledAt has passed and "late" once timeoutAt has passed (claim and  *)
(* heartbeat write the same timeoutAt to the run and to the attempt).      *)
(***************************************************************************)
EXTENDS Naturals

CONSTANTS Runs,         \* idempotency keys of the runs of one definition
          Workers,      \* processes that call claim
          MaxAttempts,  \* definition.maxAttempts
          MaxRetries,   \* bound: administrator retries of one run
          None          \* "no row read"

ASSUME MaxAttemptsAssumption == MaxAttempts \in Nat \ {0}
ASSUME MaxRetriesAssumption == MaxRetries \in Nat
ASSUME NoneAssumption == None \notin Runs

VARIABLES paused,    \* definition.pausedAt is set
          run,       \* the job_runs row of each key
          made,      \* number of job_attempts rows of each run
          attempt,   \* status of each attempt
          retries,   \* history: administrator retries granted to each run
          snap,      \* the candidate row each claimer has read
          selected,  \* rows the timeout sweep has selected and not yet closed
          closing    \* row whose sweep has closed the attempts, not yet the run

vars == <<paused, run, made, attempt, retries, snap, selected, closing>>
sweepVars == <<selected, closing>>

RunStatuses == {"queued", "retry_scheduled", "running", "succeeded",
                "timed_out", "cancelled", "dead_lettered"}
AttemptStatuses == {"running", "succeeded", "failed", "timed_out", "cancelled"}
Claimable == {"queued", "retry_scheduled"}
Final == {"succeeded", "timed_out", "cancelled"}
AttemptCap == MaxAttempts + MaxRetries
Numbers == 1..AttemptCap

Row == [status : RunStatuses \cup {"absent"}, cancel : BOOLEAN,
        due : BOOLEAN, late : BOOLEAN]
Snapshot == [run : Runs, status : Claimable]

TypeOK ==
  /\ paused \in BOOLEAN
  /\ run \in [Runs -> Row]
  /\ made \in [Runs -> 0..AttemptCap]
  /\ attempt \in [Runs -> [Numbers -> AttemptStatuses \cup {"none"}]]
  /\ retries \in [Runs -> 0..MaxRetries]
  /\ snap \in [Workers -> Snapshot \cup {None}]
  /\ selected \in SUBSET Runs
  /\ closing \in Runs \cup {None}

Init ==
  /\ paused = FALSE
  /\ run = [r \in Runs |-> [status |-> "absent", cancel |-> FALSE,
                            due |-> FALSE, late |-> FALSE]]
  /\ made = [r \in Runs |-> 0]
  /\ attempt = [r \in Runs |-> [n \in Numbers |-> "none"]]
  /\ retries = [r \in Runs |-> 0]
  /\ snap = [w \in Workers |-> None]
  /\ selected = {}
  /\ closing = None

-----------------------------------------------------------------------------
(* Scheduling. *)

\* enqueue: refused while the definition is paused; the upsert on the
\* idempotency key leaves an existing row alone.
Enqueue(r) ==
  /\ ~paused
  /\ run[r].status = "absent"
  /\ run' = [run EXCEPT ![r].status = "queued", ![r].due = TRUE]
  /\ UNCHANGED <<paused, made, attempt, retries, snap, sweepVars>>

\* rerun: an existing run, in any status, is copied under the rerun key.
Rerun(r, copy) ==
  /\ run[r].status # "absent"
  /\ Enqueue(copy)

PauseDefinition ==
  /\ ~paused
  /\ paused' = TRUE
  /\ UNCHANGED <<run, made, attempt, retries, snap, sweepVars>>

ResumeDefinition ==
  /\ paused
  /\ paused' = FALSE
  /\ UNCHANGED <<run, made, attempt, retries, snap, sweepVars>>

-----------------------------------------------------------------------------
(* claim: the candidate is read first and taken by a compare-and-set on    *)
(* the status that was read; the pause and the schedule are not read again *)

ClaimRead(w, r) ==
  /\ snap[w] = None
  /\ ~paused
  /\ run[r].status \in Claimable
  /\ run[r].due
  /\ ~run[r].cancel
  /\ snap' = [snap EXCEPT ![w] = [run |-> r, status |-> run[r].status]]
  /\ UNCHANGED <<paused, run, made, attempt, retries, sweepVars>>

\* Faulty variants of the compare-and-set: the status, or the cancellation,
\* that was read is not compared again.
CasIgnoresStatus(w) == ~run[snap[w].run].cancel

CasIgnoresCancel(w) == run[snap[w].run].status = snap[w].status

CasHolds(w) ==
  LET r == snap[w].run
  IN  /\ run[r].status = snap[w].status
      /\ ~run[r].cancel

ClaimTake(w) ==
  /\ snap[w] # None
  /\ CasHolds(w)
  /\ LET r == snap[w].run
         n == made[r] + 1
     IN  /\ n \in Numbers
         /\ run' = [run EXCEPT ![r].status = "running", ![r].late = FALSE]
         /\ made' = [made EXCEPT ![r] = n]
         /\ attempt' = [attempt EXCEPT ![r][n] = "running"]
  /\ snap' = [snap EXCEPT ![w] = None]
  /\ UNCHANGED <<paused, retries, sweepVars>>

ClaimLost(w) ==
  /\ snap[w] # None
  /\ ~CasHolds(w)
  /\ snap' = [snap EXCEPT ![w] = None]
  /\ UNCHANGED <<paused, run, made, attempt, retries, sweepVars>>

-----------------------------------------------------------------------------
(* Calls that carry the lease token of attempt n of run r.  Each first     *)
(* closes, or renews, the attempt by a compare-and-set and then the run:   *)
(* the row lock on the attempt orders them, so one step each.              *)

Heartbeat(r, n) ==
  /\ attempt[r][n] = "running"
  /\ ~run[r].late
  /\ run' = [run EXCEPT ![r].late = FALSE]
  /\ UNCHANGED <<paused, made, attempt, retries, snap, sweepVars>>

\* Faulty variant: the run is written whatever its status.
CompleteAnyStatus(r, n) ==
  /\ attempt[r][n] = "running"
  /\ attempt' = [attempt EXCEPT ![r][n] = "succeeded"]
  /\ run' = [run EXCEPT ![r].status = "succeeded"]
  /\ UNCHANGED <<paused, made, retries, snap, sweepVars>>

\* complete: the attempt is closed even when the run is no longer running
\* (the call then returns null without rolling back).
Complete(r, n) ==
  /\ attempt[r][n] = "running"
  /\ attempt' = [attempt EXCEPT ![r][n] = "succeeded"]
  /\ run' = IF run[r].status = "running"
              THEN [run EXCEPT ![r].status = "succeeded"]
              ELSE run
  /\ UNCHANGED <<paused, made, retries, snap, sweepVars>>

\* Faulty variants of fail: one attempt too many; the attempt's status is
\* written to the run.
FailOneTooMany(r, n) ==
  /\ attempt[r][n] = "running"
  /\ run[r].status = "running"
  /\ attempt' = [attempt EXCEPT ![r][n] = "failed"]
  /\ run' = IF n <= MaxAttempts
              THEN [run EXCEPT ![r].status = "retry_scheduled", ![r].due = FALSE]
              ELSE [run EXCEPT ![r].status = "dead_lettered"]
  /\ UNCHANGED <<paused, made, retries, snap, sweepVars>>

FailWritesAttemptStatus(r, n) ==
  /\ attempt[r][n] = "running"
  /\ run[r].status = "running"
  /\ attempt' = [attempt EXCEPT ![r][n] = "failed"]
  /\ run' = [run EXCEPT ![r].status = "failed"]
  /\ UNCHANGED <<paused, made, retries, snap, sweepVars>>

\* fail: the number of the failing attempt decides between retry and DLQ.
Fail(r, n) ==
  /\ attempt[r][n] = "running"
  /\ run[r].status = "running"
  /\ attempt' = [attempt EXCEPT ![r][n] = "failed"]
  /\ run' = IF n < MaxAttempts
              THEN [run EXCEPT ![r].status = "retry_scheduled", ![r].due = FALSE]
              ELSE [run EXCEPT ![r].status = "dead_lettered"]
  /\ UNCHANGED <<paused, made, retries, snap, sweepVars>>

\* cancelRunning: the worker's acknowledgement of a requested cancellation.
CancelRunning(r, n) ==
  /\ attempt[r][n] = "running"
  /\ run[r].status = "running"
  /\ run[r].cancel
  /\ attempt' = [attempt EXCEPT ![r][n] = "cancelled"]
  /\ run' = [run EXCEPT ![r].status = "cancelled"]
  /\ UNCHANGED <<paused, made, retries, snap, sweepVars>>

-----------------------------------------------------------------------------
(* The administrator. *)

RequestCancel(r) ==
  /\ run[r].status \notin Final \cup {"absent"}
  /\ ~run[r].cancel
  /\ run' = IF run[r].status = "queued"
              THEN [run EXCEPT ![r].status = "cancelled", ![r].cancel = TRUE]
              ELSE [run EXCEPT ![r].cancel = TRUE]
  /\ UNCHANGED <<paused, made, attempt, retries, snap, sweepVars>>

RetryDeadLetter(r) ==
  /\ run[r].status = "dead_lettered"
  /\ retries[r] < MaxRetries
  /\ run' = [run EXCEPT ![r].status = "retry_scheduled", ![r].due = TRUE,
                        ![r].cancel = FALSE]
  /\ retries' = [retries EXCEPT ![r] = @ + 1]
  /\ UNCHANGED <<paused, made, attempt, snap, sweepVars>>

-----------------------------------------------------------------------------
(* sweepTimeouts: selects late rows, then closes them one by one with two  *)
(* statements that check the status only.                                  *)

SweepSelect ==
  /\ selected = {} /\ closing = None
  /\ selected' = {r \in Runs : run[r].status = "running" /\ run[r].late}
  /\ selected' # {}
  /\ UNCHANGED <<paused, run, made, attempt, retries, snap, closing>>

SweepAttempts(r) ==
  /\ r \in selected /\ closing = None
  /\ attempt' = [attempt EXCEPT ![r] =
                   [n \in Numbers |-> IF @[n] = "running" THEN "timed_out" ELSE @[n]]]
  /\ selected' = selected \ {r}
  /\ closing' = r
  /\ UNCHANGED <<paused, run, made, retries, snap>>

\* Faulty variant: the second statement is lost.
SweepRunLost ==
  /\ closing # None
  /\ closing' = None
  /\ UNCHANGED <<paused, run, made, attempt, retries, snap, selected>>

SweepRun ==
  /\ closing # None
  /\ run' = IF run[closing].status = "running"
              THEN [run EXCEPT ![closing].status = "timed_out"]
              ELSE run
  /\ closing' = None
  /\ UNCHANGED <<paused, made, attempt, retries, snap, selected>>

-----------------------------------------------------------------------------
(* The passing of time. *)

DeadlinePasses(r) ==
  /\ run[r].status = "running" /\ ~run[r].late
  /\ run' = [run EXCEPT ![r].late = TRUE]
  /\ UNCHANGED <<paused, made, attempt, retries, snap, sweepVars>>

BackoffElapses(r) ==
  /\ run[r].status = "retry_scheduled" /\ ~run[r].due
  /\ run' = [run EXCEPT ![r].due = TRUE]
  /\ UNCHANGED <<paused, made, attempt, retries, snap, sweepVars>>

-----------------------------------------------------------------------------
Claim(w) == ClaimTake(w) \/ ClaimLost(w) \/ \E r \in Runs : ClaimRead(w, r)

Lease(r, n) == Heartbeat(r, n) \/ Complete(r, n) \/ Fail(r, n) \/ CancelRunning(r, n)

Sweep == SweepSelect \/ SweepRun \/ \E r \in Runs : SweepAttempts(r)

Admin(r) == RequestCancel(r) \/ RetryDeadLetter(r)

Next ==
  \/ \E r \in Runs : Enqueue(r) \/ \E copy \in Runs : Rerun(r, copy)
  \/ PauseDefinition \/ ResumeDefinition
  \/ \E w \in Workers : Claim(w)
  \/ \E r \in Runs, n \in Numbers : Lease(r, n)
  \/ \E r \in Runs : Admin(r)
  \/ Sweep
  \/ \E r \in Runs : DeadlinePasses(r) \/ BackoffElapses(r)

Spec == Init /\ [][Next]_vars

\* A worker closes the attempt it holds; claims, sweeps and the clock go on.
Fairness ==
  /\ \A w \in Workers : WF_vars(Claim(w))
  /\ \A r \in Runs, n \in Numbers :
       WF_vars(Complete(r, n) \/ Fail(r, n) \/ CancelRunning(r, n))
  /\ WF_vars(Sweep)
  /\ \A r \in Runs : WF_vars(BackoffElapses(r))

FairSpec == Spec /\ Fairness

-----------------------------------------------------------------------------
Live(r) == {n \in Numbers : attempt[r][n] = "running"}

\* At most one attempt of a run is live, whatever claims, retries, sweeps and
\* late calls interleave: no two workers execute the same run under tokens
\* that are both accepted (claim 55-78, fail 100-114, sweepTimeouts 178-190).
OneLiveAttempt ==
  \A r \in Runs : \A m, n \in Live(r) : m = n

\* A running run has a live attempt, so some token can still close it, except
\* while the sweep stands between its two statements on that run.
RunningHasLiveAttempt ==
  \A r \in Runs : run[r].status = "running" /\ closing # r => Live(r) # {}

\* Attempts are bounded: definition.maxAttempts executions plus one for each
\* retry an administrator granted (fail decides by attemptNumber, claim never
\* looks at maxAttempts, retryDeadLetter does not raise it).
AttemptBudget ==
  \A r \in Runs : made[r] <= MaxAttempts + retries[r]

\* A run is recorded as succeeded exactly when its last attempt succeeded and
\* it never succeeds twice.
SucceededByLastAttempt ==
  \A r \in Runs :
    run[r].status = "succeeded" =>
      {n \in Numbers : attempt[r][n] = "succeeded"} = {made[r]}

\* Runs and attempts, which are two tables, agree.
RunsMatchAttempts == RunningHasLiveAttempt /\ SucceededByLastAttempt

\* A late complete, fail, sweep or claim, computed from what its caller read,
\* never moves a succeeded, timed out or cancelled run, and never starts one
\* whose cancellation was requested since (claim's compare-and-set).
NoRevival ==
  [][\A r \in Runs :
       /\ run[r].status \in Final => run'[r].status = run[r].status
       /\ run[r].cancel /\ run[r].status # "running" => run'[r].status # "running"]_vars

-----------------------------------------------------------------------------
(* What the documentation says and the code does not keep. *)

\* "running runs record a cancellation request and finish": a run that fails
\* after the request is rescheduled and can then never be claimed or closed.
CancelRequestFinishes ==
  \A r \in Runs :
    run[r].status = "running" /\ run[r].cancel
      ~> run[r].status \in Final \cup {"dead_lettered"}
=============================================================================
