--------------------------- MODULE IntervalWorker ---------------------------
(***************************************************************************)
(* The interval workers of server/src/operations/worker.js for one job:    *)
(* on every tick a worker process queues a run of its own, claims a due    *)
(* run (any one), takes the job's operation lease, runs the handler, gives *)
(* the lease back and closes the run it claimed.  The runs are those of    *)
(* JobRuntime, taken through its calls; the lease is the operation_leases  *)
(* row of the job's key.                                                   *)
(*                                                                         *)
(* The row's token is named by its worker: a process holds one lease of a  *)
(* key at a time and a restarted one has no use for the old token.         *)
(* release sets expiresAt to now, so a lease without time left is free,    *)
(* released or not.  sweepTimeouts and heartbeat have no caller in the     *)
(* program and are not called here.                                        *)
(***************************************************************************)
EXTENDS Naturals

CONSTANTS Runs, Workers, MaxAttempts, MaxRetries, None,  \* as in JobRuntime
          TTL  \* ticks of the clock that a lease lasts without renewal

ASSUME TTLAssumption == TTL \in Nat \ {0}
ASSUME NoneIsNoWorker == None \notin Workers

VARIABLES paused, run, made, attempt, retries, snap, selected, closing,
          pc,      \* where each worker is in runOnce
          job,     \* the run and attempt that each worker tracks
          lease,   \* the lease row: holder and time left
          outrun   \* history: holders whose lease ran out under them

Jobs == INSTANCE JobRuntime

jobTables == <<paused, run, made, attempt, retries, snap, selected, closing>>
vars == <<jobTables, pc, job, lease, outrun>>

Acquiring == {"tracked", "updateKnown", "updateNew", "create"}
Holding == {"handling", "handled", "threw"}
Closing == {"closing", "completing", "cancelling", "failing"}
Tracking == Acquiring \cup Holding \cup Closing
Places == {"idle", "enqueued", "claiming"} \cup Tracking
Token == [run : Runs, n : 1..(MaxAttempts + MaxRetries)]

TypeOK ==
  /\ Jobs!TypeOK
  /\ pc \in [Workers -> Places]
  /\ job \in [Workers -> Token \cup {None}]
  /\ lease \in [by : Workers \cup {None}, left : 0..TTL]
  /\ outrun \in SUBSET Workers

Init ==
  /\ Jobs!Init
  /\ pc = [w \in Workers |-> "idle"]
  /\ job = [w \in Workers |-> None]
  /\ lease = [by |-> None, left |-> 0]  \* there is no row yet
  /\ outrun = {}

Go(w, from, to) == pc[w] = from /\ pc' = [pc EXCEPT ![w] = to]

\* The worker is through with its run, or never had one.
Rest(w, from) == Go(w, from, "idle") /\ job' = [job EXCEPT ![w] = None]

-----------------------------------------------------------------------------
(* The tracked run *)

\* The tick queues a run under a new key; a paused definition has none.
Tick(w) ==
  /\ Go(w, "idle", "enqueued")
  /\ \E r \in Runs : Jobs!Enqueue(r)
  /\ UNCHANGED <<job, lease, outrun>>

ClaimRead(w) ==
  /\ Go(w, "enqueued", "claiming")
  /\ \E r \in Runs : Jobs!ClaimRead(w, r)
  /\ UNCHANGED <<job, lease, outrun>>

\* Nothing is due, or the definition was paused meanwhile.
NothingDue(w) ==
  /\ Go(w, "enqueued", "idle")
  /\ paused \/ \A r \in Runs :
       run[r].status \notin {"queued", "retry_scheduled"} \/ ~run[r].due \/ run[r].cancel
  /\ UNCHANGED <<jobTables, job, lease, outrun>>

ClaimTake(w) ==
  /\ Go(w, "claiming", "tracked")
  /\ Jobs!ClaimTake(w)
  /\ job' = [job EXCEPT ![w] = [run |-> snap[w].run, n |-> made'[snap[w].run]]]
  /\ UNCHANGED <<lease, outrun>>

ClaimLost(w) ==
  /\ Go(w, "claiming", "idle")
  /\ Jobs!ClaimLost(w)
  /\ UNCHANGED <<job, lease, outrun>>

\* The run is read once more: a requested cancellation is acknowledged.
FindRun(w) ==
  /\ Go(w, "closing", IF run[job[w].run].cancel THEN "cancelling" ELSE "completing")
  /\ UNCHANGED <<jobTables, job, lease, outrun>>

Complete(w) ==
  /\ Rest(w, "completing")
  /\ Jobs!Complete(job[w].run, job[w].n)
  /\ UNCHANGED <<lease, outrun>>

CancelRunning(w) ==
  /\ Rest(w, "cancelling")
  /\ Jobs!CancelRunning(job[w].run, job[w].n)
  /\ UNCHANGED <<lease, outrun>>

Fail(w) ==
  /\ Rest(w, "failing")
  /\ Jobs!Fail(job[w].run, job[w].n)
  /\ UNCHANGED <<lease, outrun>>

-----------------------------------------------------------------------------
(* The lease *)

\* acquire reads the row, tries to take it over, and else to create it.
AcquireRead(w) ==
  /\ Go(w, "tracked", IF lease.by = None THEN "updateNew" ELSE "updateKnown")
  /\ UNCHANGED <<jobTables, job, lease, outrun>>

Free == lease.by # None /\ lease.left = 0

Taken(w) ==
  /\ lease' = [by |-> w, left |-> TTL]
  /\ outrun' = outrun \ {w}

\* The lease is written before its audit row: when that fails the run fails
\* with the lease held, and nobody releases it.
AcquireUpdate(w) ==
  /\ \E from \in {"updateKnown", "updateNew"}, to \in {"handling", "failing"} : Go(w, from, to)
  /\ Free
  /\ Taken(w)
  /\ UNCHANGED <<jobTables, job>>

\* Held by another: the run is closed with the result "skipped".
Skip(w) ==
  /\ Go(w, "updateKnown", "closing")
  /\ ~Free
  /\ UNCHANGED <<jobTables, job, lease, outrun>>

NoRowToUpdate(w) ==
  /\ Go(w, "updateNew", "create")
  /\ ~Free
  /\ UNCHANGED <<jobTables, job, lease, outrun>>

\* The key is unique: a second create is refused and the run skipped.
Create(w) ==
  /\ UNCHANGED <<jobTables, job>>
  /\ \/ /\ lease.by = None
        /\ Go(w, "create", "handling") \/ Go(w, "create", "failing")
        /\ Taken(w)
     \/ lease.by # None /\ Go(w, "create", "closing") /\ UNCHANGED <<lease, outrun>>

\* The timer's renewal finds no row once the lease ran out or was taken over.
Renew(w) ==
  /\ pc[w] = "handling"
  /\ lease.by = w /\ lease.left \in 1..(TTL - 1)
  /\ lease' = [lease EXCEPT !.left = TTL]
  /\ UNCHANGED <<jobTables, pc, job, outrun>>

HandlerEnds(w) ==
  /\ Go(w, "handling", "handled") \/ Go(w, "handling", "threw")
  /\ UNCHANGED <<jobTables, job, lease, outrun>>

\* Faulty variant: the lease is released by its key alone.
ReleasedByKey(w) == lease' = [lease EXCEPT !.left = 0]

\* A lease that was taken over meanwhile is left alone.
Released(w) == lease' = IF lease.by = w THEN [lease EXCEPT !.left = 0] ELSE lease

\* A release that fails is logged only; the lease then has to run out.
Release(w) ==
  /\ Go(w, "handled", "closing") \/ Go(w, "threw", "failing")
  /\ Released(w) \/ UNCHANGED lease
  /\ UNCHANGED <<jobTables, job, outrun>>

-----------------------------------------------------------------------------
(* Faults and time *)

\* A database call throws: the run is failed, and a fail that throws is
\* logged only.
CallThrows(w) ==
  /\ \/ pc[w] \in Acquiring \cup (Closing \ {"failing"})
        /\ pc' = [pc EXCEPT ![w] = "failing"] /\ UNCHANGED job
     \/ Rest(w, "failing")
  /\ UNCHANGED <<jobTables, lease, outrun>>

\* The process dies and is started again.
Crash(w) ==
  /\ pc[w] # "idle"
  /\ Rest(w, pc[w])
  /\ snap' = [snap EXCEPT ![w] = None]
  /\ UNCHANGED <<paused, run, made, attempt, retries, selected, closing, lease, outrun>>

TimePasses ==
  /\ lease.left > 0
  /\ lease' = [lease EXCEPT !.left = @ - 1]
  /\ outrun' = IF lease.left = 1 THEN outrun \cup {lease.by} ELSE outrun
  /\ UNCHANGED <<jobTables, pc, job>>

Administrator ==
  /\ \/ Jobs!PauseDefinition \/ Jobs!ResumeDefinition
     \/ \E r \in Runs :
          Jobs!RequestCancel(r) \/ Jobs!RetryDeadLetter(r) \/ Jobs!BackoffElapses(r)
  /\ UNCHANGED <<pc, job, lease, outrun>>

-----------------------------------------------------------------------------
Track(w) ==
  \/ Tick(w) \/ ClaimRead(w) \/ NothingDue(w) \/ ClaimTake(w) \/ ClaimLost(w)
  \/ FindRun(w) \/ Complete(w) \/ CancelRunning(w) \/ Fail(w)

RunWithLease(w) ==
  \/ AcquireRead(w) \/ AcquireUpdate(w) \/ Skip(w) \/ NoRowToUpdate(w) \/ Create(w)
  \/ Renew(w) \/ HandlerEnds(w) \/ Release(w)

Next ==
  \/ \E w \in Workers : Track(w) \/ RunWithLease(w) \/ CallThrows(w) \/ Crash(w)
  \/ TimePasses \/ Administrator

Spec == Init /\ [][Next]_vars

-----------------------------------------------------------------------------
(* Properties *)

\* The job's handler runs in one worker at a time, crashes, failed releases
\* and the creation of the row included, unless a lease ran out under a worker
\* that kept running (a failed renewal does not stop the handler); whoever's
\* lease has not run out is the row's holder.
HandlersExclude ==
  \A w \in Workers :
    pc[w] = "handling" /\ w \notin outrun => lease.by = w /\ lease.left > 0

\* While a worker tracks a run, through the lease and the handler, the run is
\* running under its attempt alone, so that the call that closes it will be
\* accepted (only retries of a worker that is through put a run back).
TrackedIsOwn ==
  \A w \in Workers :
    pc[w] \in Tracking =>
      /\ run[job[w].run].status = "running"
      /\ attempt[job[w].run][job[w].n] = "running"
      /\ \A v \in Workers \ {w} : pc[v] \in Tracking => job[v].run # job[w].run
=============================================================================
