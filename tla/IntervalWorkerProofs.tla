------------------------ MODULE IntervalWorkerProofs ------------------------
(***************************************************************************)
(* Proof that the operation lease keeps the handler exclusive, for any     *)
(* number of workers and runs and any length of the lease, and that the    *)
(* run a worker tracks stays its own.                                      *)
(*                                                                         *)
(* HandlersExclude is inductive once the shape of the lease row and of the *)
(* program counters is known; the run tables play no part in it.           *)
(***************************************************************************)
EXTENDS IntervalWorker, TLAPS

\* What the steps need to know of the types.
Shape ==
  /\ pc \in [Workers -> Places]
  /\ lease \in [by : Workers \cup {None}, left : Nat]

IInv == Shape /\ HandlersExclude

LEMMA InitIInv == Init => IInv
  BY DEF Init, IInv, Shape, Places, HandlersExclude

\* A worker moves to a place that exists, and no other worker moves.
LEMMA Moves ==
  ASSUME Shape, NEW w \in Workers, NEW from, NEW to \in Places, Go(w, from, to)
  PROVE  /\ pc[w] = from
         /\ pc' \in [Workers -> Places]
         /\ pc'[w] = to
         /\ \A v \in Workers \ {w} : pc'[v] = pc[v]
  BY DEF Go, Shape

\* A worker that moves anywhere but to its handler, while the lease stays with
\* its holder and its time, disturbs nobody.
LEMMA MovesElsewhere ==
  ASSUME IInv, UNCHANGED <<lease, outrun>>,
         NEW w \in Workers, NEW from, NEW to \in Places \ {"handling"}, Go(w, from, to)
  PROVE  IInv'
  <1>1. /\ pc' \in [Workers -> Places]
        /\ pc'[w] = to
        /\ \A v \in Workers \ {w} : pc'[v] = pc[v]
    BY Moves DEF IInv
  <1> QED
    BY <1>1 DEF IInv, Shape, HandlersExclude

\* The lease is taken only when it has no time left, when therefore no handler
\* runs but under a lease that ran out.
LEMMA TakesLease ==
  ASSUME IInv, NEW w \in Workers, NEW from, NEW to \in {"handling", "failing"}, Go(w, from, to),
         Taken(w), lease.left = 0
  PROVE  IInv'
  <1>1. /\ pc' \in [Workers -> Places]
        /\ \A v \in Workers \ {w} : pc'[v] = pc[v]
    BY Moves DEF IInv, Places, Holding, Closing, Tracking
  <1>2. lease' = [by |-> w, left |-> TTL]
    BY DEF Taken
  <1>3. Shape'
    BY <1>1, <1>2, TTLAssumption DEF Shape
  <1>4. ASSUME NEW v \in Workers, pc'[v] = "handling", v \notin outrun'
        PROVE  lease'.by = v /\ lease'.left > 0
    <2>1. CASE v = w
      BY <1>2, <2>1, TTLAssumption
    <2>2. CASE v # w
      BY <1>1, <1>4, <2>2 DEF Taken, IInv, Shape, HandlersExclude
    <2> QED
      BY <2>1, <2>2
  <1> QED
    BY <1>3, <1>4 DEF IInv, HandlersExclude

\* The row is created only when there is none, and no handler runs then.
LEMMA CreatesLease ==
  ASSUME IInv, NEW w \in Workers, NEW to \in {"handling", "failing"}, Go(w, "create", to),
         Taken(w), lease.by = None
  PROVE  IInv'
  <1>1. /\ pc' \in [Workers -> Places]
        /\ \A v \in Workers \ {w} : pc'[v] = pc[v]
    BY Moves DEF IInv, Places, Holding, Closing, Tracking
  <1>2. lease' = [by |-> w, left |-> TTL]
    BY DEF Taken
  <1>3. Shape'
    BY <1>1, <1>2, TTLAssumption DEF Shape
  <1>4. ASSUME NEW v \in Workers, pc'[v] = "handling", v \notin outrun'
        PROVE  lease'.by = v /\ lease'.left > 0
    <2>1. CASE v = w
      BY <1>2, <2>1, TTLAssumption
    <2>2. CASE v # w
      BY <1>1, <1>4, <2>2, NoneIsNoWorker DEF Taken, IInv, HandlersExclude
    <2> QED
      BY <2>1, <2>2
  <1> QED
    BY <1>3, <1>4 DEF IInv, HandlersExclude

\* Releasing gives back only the worker's own lease.
LEMMA ReleasesLease ==
  ASSUME IInv, NEW w \in Workers, Release(w)
  PROVE  IInv'
  <1>1. PICK to \in {"closing", "failing"} :
          Go(w, "handled", to) \/ Go(w, "threw", to)
    BY DEF Release
  <1>2. /\ pc' \in [Workers -> Places]
        /\ pc'[w] = to
        /\ \A v \in Workers \ {w} : pc'[v] = pc[v]
    BY <1>1, Moves DEF IInv, Places, Closing, Tracking
  <1>3. /\ outrun' = outrun
        /\ lease' = lease \/ (lease.by = w /\ lease' = [lease EXCEPT !.left = 0])
    BY DEF Release, Released
  <1>4. Shape'
    <2>1. /\ [lease EXCEPT !.left = 0] \in [by : Workers \cup {None}, left : Nat]
          /\ lease \in [by : Workers \cup {None}, left : Nat]
      BY DEF IInv, Shape
    <2> QED
      BY <1>2, <1>3, <2>1 DEF Shape
  <1>5. CASE lease' = lease
    BY <1>2, <1>3, <1>4, <1>5 DEF IInv, HandlersExclude
  <1>6. CASE lease.by = w
    BY <1>2, <1>3, <1>4, <1>6 DEF IInv, HandlersExclude
  <1> QED
    BY <1>3, <1>4, <1>5, <1>6

\* Time that runs out marks the holder.
LEMMA TimeRunsOut ==
  ASSUME IInv, TimePasses
  PROVE  IInv'
  <1>1. lease' = [lease EXCEPT !.left = @ - 1] /\ pc' = pc /\ lease.left > 0
    BY DEF TimePasses
  <1>2. lease'.by = lease.by /\ lease'.left = lease.left - 1 /\ Shape'
    BY <1>1 DEF IInv, Shape
  <1>3. lease.left \in Nat
    BY DEF IInv, Shape
  <1>4. outrun \subseteq outrun' /\ (lease.left = 1 => lease.by \in outrun')
    BY DEF TimePasses
  <1> QED
    BY <1>1, <1>2, <1>3, <1>4 DEF IInv, HandlersExclude

LEMMA NextIInv == IInv /\ [Next]_vars => IInv'
  <1> SUFFICES ASSUME IInv, [Next]_vars PROVE IInv'
    OBVIOUS
  <1> USE DEF Places, Acquiring, Holding, Closing, Tracking
  <1>1. CASE UNCHANGED vars
    BY <1>1 DEF vars, IInv, Shape, HandlersExclude
  <1>2. CASE Administrator
    BY <1>2 DEF Administrator, IInv, Shape, HandlersExclude
  <1>3. CASE TimePasses
    BY <1>3, TimeRunsOut
  <1>4. ASSUME NEW w \in Workers, Track(w) PROVE IInv'
    <2>1. /\ UNCHANGED <<lease, outrun>>
          /\ \E from \in Places, to \in Places \ {"handling"} : Go(w, from, to)
      BY <1>4 DEF Track, Tick, ClaimRead, NothingDue, ClaimTake, ClaimLost, FindRun,
                  Complete, CancelRunning, Fail, Rest
    <2> QED
      BY <2>1, MovesElsewhere
  <1>5. ASSUME NEW w \in Workers,
               AcquireRead(w) \/ Skip(w) \/ NoRowToUpdate(w) \/ HandlerEnds(w)
        PROVE  IInv'
    <2>1. /\ UNCHANGED <<lease, outrun>>
          /\ \E from \in Places, to \in Places \ {"handling"} : Go(w, from, to)
      BY <1>5 DEF AcquireRead, Skip, NoRowToUpdate, HandlerEnds
    <2> QED
      BY <2>1, MovesElsewhere
  <1>6. ASSUME NEW w \in Workers, AcquireUpdate(w) PROVE IInv'
    <2>1. lease.left = 0 /\ Taken(w)
      BY <1>6 DEF AcquireUpdate, Free
    <2>2. \E from \in {"updateKnown", "updateNew"}, to \in {"handling", "failing"} : Go(w, from, to)
      BY <1>6 DEF AcquireUpdate
    <2> QED
      BY <2>1, <2>2, TakesLease
  <1>7. ASSUME NEW w \in Workers, Create(w) PROVE IInv'
    <2>1. CASE /\ lease.by = None
               /\ Go(w, "create", "handling") \/ Go(w, "create", "failing")
               /\ Taken(w)
      BY <2>1, CreatesLease
    <2>2. CASE Go(w, "create", "closing") /\ UNCHANGED <<lease, outrun>>
      BY <2>2, MovesElsewhere
    <2> QED
      BY <1>7, <2>1, <2>2 DEF Create
  <1>8. ASSUME NEW w \in Workers, Renew(w) PROVE IInv'
    <2>1. lease' = [lease EXCEPT !.left = TTL] /\ pc' = pc /\ outrun' = outrun
      BY <1>8 DEF Renew
    <2>2. lease'.by = lease.by /\ lease'.left = TTL /\ Shape'
      BY <2>1, TTLAssumption DEF IInv, Shape
    <2> QED
      BY <2>1, <2>2, TTLAssumption DEF IInv, HandlersExclude
  <1>9. ASSUME NEW w \in Workers, CallThrows(w) PROVE IInv'
    <2>1. /\ UNCHANGED <<lease, outrun>>
          /\ \E from \in Places, to \in Places \ {"handling"} : Go(w, from, to)
      BY <1>9 DEF CallThrows, Rest, Go
    <2> QED
      BY <2>1, MovesElsewhere
  <1>10. ASSUME NEW w \in Workers, Crash(w) PROVE IInv'
    <2>1. UNCHANGED <<lease, outrun>> /\ Go(w, pc[w], "idle")
      BY <1>10 DEF Crash, Rest
    <2> QED
      BY <2>1, MovesElsewhere
  <1> QED
    BY <1>1, <1>2, <1>3, <1>4, <1>5, <1>6, <1>7, <1>8, <1>9, <1>10, ReleasesLease
    DEF Next, RunWithLease

\* HandlersExclude of IntervalWorker: whoever runs the handler under a lease
\* that has not run out is the holder of the row, so no two such workers exist,
\* whatever crashed and whichever release or renewal failed.
THEOREM WorkerHandlersExclude == Spec => []HandlersExclude
  <1>1. IInv => HandlersExclude
    BY DEF IInv
  <1> QED
    BY <1>1, InitIInv, NextIInv, PTL DEF Spec

-----------------------------------------------------------------------------
(* The tracked run *)

\* What the steps need to know of the types of the tables.
Tables ==
  /\ run \in [Runs -> Jobs!Row]
  /\ made \in [Runs -> Nat]
  /\ attempt \in [Runs -> [Jobs!Numbers -> Jobs!AttemptStatuses \cup {"none"}]]
  /\ snap \in [Workers -> Jobs!Snapshot \cup {None}]

\* A worker that tracks a run tracks one that is running under its attempt, and
\* no other worker tracks it.
Tracks(w) ==
  pc[w] \in Tracking =>
    /\ job[w] \in Token
    /\ run[job[w].run].status = "running"
    /\ attempt[job[w].run][job[w].n] = "running"
    /\ \A v \in Workers \ {w} : pc[v] \in Tracking => job[v].run # job[w].run

TInv ==
  /\ Tables
  /\ pc \in [Workers -> Places]
  /\ job \in [Workers -> Token \cup {None}]
  /\ \A w \in Workers : Tracks(w)

LEMMA TokenNumbers == Jobs!Numbers = 1..(MaxAttempts + MaxRetries)
  BY DEF Jobs!Numbers, Jobs!AttemptCap

LEMMA InitTInv == Init => TInv
  <1> SUFFICES ASSUME Init PROVE TInv
    OBVIOUS
  <1>1. run \in [Runs -> Jobs!Row]
    BY DEF Init, Jobs!Init, Jobs!Row
  <1>2. made \in [Runs -> Nat]
    BY DEF Init, Jobs!Init
  <1>3. attempt \in [Runs -> [Jobs!Numbers -> Jobs!AttemptStatuses \cup {"none"}]]
    BY DEF Init, Jobs!Init
  <1>4. snap \in [Workers -> Jobs!Snapshot \cup {None}]
    BY DEF Init, Jobs!Init
  <1>5. /\ pc \in [Workers -> Places] /\ job \in [Workers -> Token \cup {None}]
        /\ \A w \in Workers : pc[w] = "idle"
    BY DEF Init, Places
  <1> QED
    BY <1>1, <1>2, <1>3, <1>4, <1>5
    DEF TInv, Tables, Tracks, Tracking, Acquiring, Holding, Closing

\* A step in which nobody begins to track, and which leaves the runs and the
\* attempts of those who still do.
LEMMA KeepsTracked ==
  ASSUME TInv, Tables', pc' \in [Workers -> Places], job' \in [Workers -> Token \cup {None}],
         \A v \in Workers : pc'[v] \in Tracking =>
           /\ pc[v] \in Tracking /\ job'[v] = job[v]
           /\ run'[job[v].run].status = run[job[v].run].status
           /\ attempt'[job[v].run][job[v].n] = attempt[job[v].run][job[v].n]
  PROVE  TInv'
  <1> SUFFICES ASSUME NEW w \in Workers PROVE Tracks(w)'
    BY DEF TInv
  <1>1. Tracks(w)
    BY DEF TInv
  <1> QED
    BY <1>1 DEF Tracks

\* A worker moves, and begins to track in no other way than by a claim.
LEMMA MovesTracked ==
  ASSUME TInv, NEW w \in Workers, NEW from, NEW to \in Places, Go(w, from, to),
         from \in Tracking \/ to \notin Tracking,
         job' = job \/ (to \notin Tracking /\ job' = [job EXCEPT ![w] = None]),
         Tables',
         \A v \in Workers : pc[v] \in Tracking /\ (v = w => to \in Tracking) =>
           /\ run'[job[v].run].status = run[job[v].run].status
           /\ attempt'[job[v].run][job[v].n] = attempt[job[v].run][job[v].n]
  PROVE  TInv'
  <1>1. /\ pc[w] = from /\ pc' \in [Workers -> Places] /\ pc'[w] = to
        /\ \A v \in Workers \ {w} : pc'[v] = pc[v]
    BY DEF Go, TInv
  <1>2. /\ job' \in [Workers -> Token \cup {None}]
        /\ \A v \in Workers : pc'[v] \in Tracking => job'[v] = job[v]
    BY <1>1 DEF TInv
  <1>3. \A v \in Workers : pc'[v] \in Tracking => pc[v] \in Tracking /\ (v = w => to \in Tracking)
    BY <1>1
  <1> QED
    BY <1>1, <1>2, <1>3, KeepsTracked

\* A worker closes its run: no other tracks that one.
LEMMA ClosesTracked ==
  ASSUME TInv, NEW w \in Workers, NEW from \in Tracking, Rest(w, from),
         \/ Jobs!Complete(job[w].run, job[w].n)
         \/ Jobs!CancelRunning(job[w].run, job[w].n)
         \/ Jobs!Fail(job[w].run, job[w].n)
  PROVE  TInv'
  <1> DEFINE r == job[w].run
             n == job[w].n
  <1>1. pc[w] \in Tracking /\ r \in Runs /\ n \in Jobs!Numbers
        /\ \A v \in Workers \ {w} : pc[v] \in Tracking => job[v].run # r
    BY TokenNumbers DEF TInv, Tracks, Rest, Go, Token
  <1>2. /\ made' = made /\ snap' = snap
        /\ \E st \in Jobs!AttemptStatuses : attempt' = [attempt EXCEPT ![r][n] = st]
    BY DEF Jobs!Complete, Jobs!CancelRunning, Jobs!Fail, Jobs!AttemptStatuses
  <1>3. run' \in [Runs -> Jobs!Row] /\ \A q \in Runs \ {r} : run'[q] = run[q]
    <2>1. run[r] \in Jobs!Row
      BY <1>1 DEF TInv, Tables
    <2>2. /\ run'[r] \in Jobs!Row
          /\ run' = [run EXCEPT ![r] = run'[r]]
      <3>1. CASE Jobs!Complete(job[w].run, job[w].n)
        BY <1>1, <2>1, <3>1 DEF Jobs!Complete, TInv, Tables, Jobs!Row, Jobs!RunStatuses
      <3>2. CASE Jobs!CancelRunning(job[w].run, job[w].n)
        BY <1>1, <2>1, <3>2 DEF Jobs!CancelRunning, TInv, Tables, Jobs!Row, Jobs!RunStatuses
      <3>3. CASE Jobs!Fail(job[w].run, job[w].n)
        BY <1>1, <2>1, <3>3 DEF Jobs!Fail, TInv, Tables, Jobs!Row, Jobs!RunStatuses
      <3> QED
        BY <3>1, <3>2, <3>3
    <2> HIDE DEF r
    <2> QED
      BY <1>1, <2>2 DEF TInv, Tables
  <1> HIDE DEF r, n
  <1>4. /\ attempt' \in [Runs -> [Jobs!Numbers -> Jobs!AttemptStatuses \cup {"none"}]]
        /\ \A q \in Runs \ {r} : attempt'[q] = attempt[q]
    BY <1>1, <1>2 DEF TInv, Tables
  <1>5. Tables'
    BY <1>2, <1>3, <1>4 DEF TInv, Tables
  <1>6. \A v \in Workers \ {w} : pc[v] \in Tracking => job[v].run \in Runs \ {r}
    BY <1>1 DEF TInv, Tracks, Token
  <1>7. "idle" \in Places /\ "idle" \notin Tracking
    BY DEF Places, Tracking, Acquiring, Holding, Closing
  <1> QED
    BY ZenonT(30), <1>3, <1>4, <1>5, <1>6, <1>7, MovesTracked DEF Rest

\* A claim begins to track a run that was waiting, which nobody tracks.
LEMMA ClaimTracks ==
  ASSUME TInv, NEW w \in Workers, ClaimTake(w) PROVE TInv'
  <1> DEFINE r == snap[w].run
             n == made[r] + 1
  <1>1. r \in Runs /\ run[r].status \in {"queued", "retry_scheduled"}
    BY DEF ClaimTake, Jobs!ClaimTake, Jobs!CasHolds, TInv, Tables, Jobs!Snapshot, Jobs!Claimable
  <1>2. /\ run' = [run EXCEPT ![r].status = "running", ![r].late = FALSE]
        /\ made' = [made EXCEPT ![r] = n]
        /\ attempt' = [attempt EXCEPT ![r][n] = "running"]
        /\ snap' = [snap EXCEPT ![w] = None]
        /\ n \in Jobs!Numbers
    BY DEF ClaimTake, Jobs!ClaimTake
  <1>3. made'[r] = n /\ made' \in [Runs -> Nat]
    BY <1>1, <1>2 DEF TInv, Tables
  <1>4. job' = [job EXCEPT ![w] = [run |-> r, n |-> n]]
    BY <1>3 DEF ClaimTake
  <1> HIDE DEF r, n
  <1>5. [run |-> r, n |-> n] \in Token
    BY <1>1, <1>2, TokenNumbers DEF Token
  <1>6. /\ run' \in [Runs -> Jobs!Row] /\ run'[r].status = "running"
        /\ \A q \in Runs \ {r} : run'[q] = run[q]
    <2>1. run[r] \in Jobs!Row
      BY <1>1 DEF TInv, Tables
    <2>2. /\ run'[r] \in Jobs!Row /\ run'[r].status = "running"
          /\ run' = [run EXCEPT ![r] = run'[r]]
      BY <1>1, <1>2, <2>1 DEF TInv, Tables, Jobs!Row, Jobs!RunStatuses
    <2> QED
      BY <1>1, <2>2 DEF TInv, Tables
  <1>7. /\ attempt' \in [Runs -> [Jobs!Numbers -> Jobs!AttemptStatuses \cup {"none"}]]
        /\ attempt'[r][n] = "running" /\ \A q \in Runs \ {r} : attempt'[q] = attempt[q]
    BY <1>1, <1>2 DEF TInv, Tables, Jobs!AttemptStatuses
  <1>8. Tables'
    BY <1>2, <1>3, <1>6, <1>7 DEF TInv, Tables
  <1>9. /\ pc' \in [Workers -> Places] /\ pc'[w] = "tracked"
        /\ \A v \in Workers \ {w} : pc'[v] = pc[v]
    BY DEF ClaimTake, Go, TInv, Places, Tracking, Acquiring
  <1>10. /\ job' \in [Workers -> Token \cup {None}] /\ job'[w].run = r /\ job'[w].n = n
         /\ job'[w] \in Token /\ \A v \in Workers \ {w} : job'[v] = job[v]
    BY <1>4, <1>5 DEF TInv
  <1>11. \A v \in Workers : pc[v] \in Tracking => job[v].run \in Runs \ {r}
    BY <1>1 DEF TInv, Tracks, Token
  <1>12. \A v \in Workers : Tracks(v)'
    <2>1. Tracks(w)'
      BY <1>6, <1>7, <1>9, <1>10, <1>11 DEF Tracks
    <2>2. ASSUME NEW v \in Workers \ {w}, pc[v] \in Tracking PROVE Tracks(v)'
      <3>1. /\ job[v] \in Token /\ run[job[v].run].status = "running"
            /\ attempt[job[v].run][job[v].n] = "running" /\ job[v].run \in Runs \ {r}
            /\ \A u \in Workers \ {v} : pc[u] \in Tracking => job[u].run # job[v].run
        BY <1>11, <2>2 DEF Tracks, TInv
      <3>2. \A u \in Workers \ {v} : pc'[u] \in Tracking => job'[u].run # job[v].run
        BY <1>9, <1>10, <3>1
      <3>3. /\ run'[job[v].run] = run[job[v].run] /\ attempt'[job[v].run] = attempt[job[v].run]
            /\ job'[v] = job[v]
        BY <1>6, <1>7, <1>10, <3>1
      <3> QED
        BY <3>1, <3>2, <3>3 DEF Tracks
    <2>3. ASSUME NEW v \in Workers \ {w}, pc[v] \notin Tracking PROVE Tracks(v)'
      BY <1>9, <2>3 DEF Tracks
    <2> QED
      BY <2>1, <2>2, <2>3
  <1> QED
    BY <1>8, <1>9, <1>10, <1>12 DEF TInv

\* What the administrator does to a run leaves a running one running.
LEMMA AdministratorTracked ==
  ASSUME TInv, Administrator PROVE TInv'
  <1>1. UNCHANGED <<pc, job, made, attempt, snap>>
    BY DEF Administrator, Jobs!PauseDefinition, Jobs!ResumeDefinition, Jobs!RequestCancel,
           Jobs!RetryDeadLetter, Jobs!BackoffElapses
  <1>2. /\ run' \in [Runs -> Jobs!Row]
        /\ \A r \in Runs : run[r].status = "running" => run'[r].status = "running"
    <2>1. CASE Jobs!PauseDefinition \/ Jobs!ResumeDefinition
      BY <2>1 DEF Jobs!PauseDefinition, Jobs!ResumeDefinition, TInv, Tables
    <2>2. ASSUME NEW r \in Runs, Jobs!RequestCancel(r)
          PROVE  run'[r] \in Jobs!Row /\ (run[r].status = "running" => run'[r].status = "running")
                 /\ run' = [run EXCEPT ![r] = run'[r]]
      BY <2>2 DEF Jobs!RequestCancel, TInv, Tables, Jobs!Row, Jobs!RunStatuses
    <2>3. ASSUME NEW r \in Runs, Jobs!RetryDeadLetter(r)
          PROVE  run'[r] \in Jobs!Row /\ run[r].status # "running"
                 /\ run' = [run EXCEPT ![r] = run'[r]]
      <3>1. run[r] \in Jobs!Row /\ run[r].status = "dead_lettered"
        BY <2>3 DEF Jobs!RetryDeadLetter, TInv, Tables
      <3> QED
        BY <2>3, <3>1 DEF Jobs!RetryDeadLetter, TInv, Tables, Jobs!Row, Jobs!RunStatuses
    <2>4. ASSUME NEW r \in Runs, Jobs!BackoffElapses(r)
          PROVE  run'[r] \in Jobs!Row /\ run[r].status # "running"
                 /\ run' = [run EXCEPT ![r] = run'[r]]
      BY <2>4 DEF Jobs!BackoffElapses, TInv, Tables, Jobs!Row, Jobs!RunStatuses
    <2>5. ASSUME NEW r \in Runs, run'[r] \in Jobs!Row,
                 run[r].status = "running" => run'[r].status = "running",
                 run' = [run EXCEPT ![r] = run'[r]]
          PROVE  /\ run' \in [Runs -> Jobs!Row]
                 /\ \A q \in Runs : run[q].status = "running" => run'[q].status = "running"
      BY <2>5 DEF TInv, Tables
    <2> QED
      BY <2>1, <2>2, <2>3, <2>4, <2>5 DEF Administrator
  <1>3. Tables'
    BY <1>1, <1>2 DEF TInv, Tables
  <1>4. \A v \in Workers : pc[v] \in Tracking => job[v].run \in Runs /\ run[job[v].run].status = "running"
    BY DEF TInv, Tracks, Token
  <1> QED
    BY <1>1, <1>2, <1>3, <1>4, KeepsTracked DEF TInv

\* A tick queues a run that did not exist, and a claim that is read or lost
\* changes none.
LEMMA TickTracked ==
  ASSUME TInv, NEW w \in Workers, Tick(w) \/ ClaimRead(w) \/ ClaimLost(w) \/ NothingDue(w)
  PROVE  TInv'
  <1>0. {"idle", "enqueued", "claiming"} \subseteq Places
        /\ "idle" \notin Tracking /\ "enqueued" \notin Tracking /\ "claiming" \notin Tracking
    BY DEF Places, Tracking, Acquiring, Holding, Closing
  <1>1. CASE Tick(w)
    <2>1. PICK r \in Runs : Jobs!Enqueue(r)
      BY <1>1 DEF Tick
    <2>2. /\ run[r].status # "running" /\ UNCHANGED <<made, attempt, snap>>
          /\ run' \in [Runs -> Jobs!Row] /\ \A q \in Runs \ {r} : run'[q] = run[q]
      BY ZenonT(30), <2>1 DEF Jobs!Enqueue, TInv, Tables, Jobs!Row, Jobs!RunStatuses
    <2>3. Tables'
      BY <2>2 DEF TInv, Tables
    <2>4. \A v \in Workers : pc[v] \in Tracking => job[v].run \in Runs \ {r}
      BY <2>2 DEF TInv, Tracks, Token
    <2>5. Go(w, "idle", "enqueued") /\ job' = job
      BY <1>1 DEF Tick
    <2> QED
      BY <1>0, <2>2, <2>3, <2>4, <2>5, MovesTracked
  <1>2. CASE ClaimRead(w)
    <2>1. PICK r \in Runs : Jobs!ClaimRead(w, r)
      BY <1>2 DEF ClaimRead
    <2>2. UNCHANGED <<run, made, attempt>> /\ snap' \in [Workers -> Jobs!Snapshot \cup {None}]
      BY <2>1 DEF Jobs!ClaimRead, TInv, Tables, Jobs!Snapshot
    <2>3. Tables'
      BY <2>2 DEF TInv, Tables
    <2>4. Go(w, "enqueued", "claiming") /\ job' = job
      BY <1>2 DEF ClaimRead
    <2> QED
      BY <1>0, <2>2, <2>3, <2>4, MovesTracked
  <1>3. CASE ClaimLost(w)
    <2>1. UNCHANGED <<run, made, attempt>> /\ snap' \in [Workers -> Jobs!Snapshot \cup {None}]
      BY <1>3 DEF ClaimLost, Jobs!ClaimLost, TInv, Tables
    <2>2. Tables'
      BY <2>1 DEF TInv, Tables
    <2>3. Go(w, "claiming", "idle") /\ job' = job
      BY <1>3 DEF ClaimLost
    <2> QED
      BY <1>0, <2>1, <2>2, <2>3, MovesTracked
  <1>4. CASE NothingDue(w)
    <2>1. UNCHANGED <<run, made, attempt, snap>> /\ Go(w, "enqueued", "idle") /\ job' = job
      BY <1>4 DEF NothingDue, jobTables
    <2>2. Tables'
      BY <2>1 DEF TInv, Tables
    <2> QED
      BY <1>0, <2>1, <2>2, MovesTracked
  <1> QED
    BY <1>1, <1>2, <1>3, <1>4

LEMMA NextTInv == TInv /\ [Next]_vars => TInv'
  <1> SUFFICES ASSUME TInv, [Next]_vars PROVE TInv'
    OBVIOUS
  <1>1. ASSUME UNCHANGED <<run, made, attempt, snap>> PROVE Tables'
    BY <1>1 DEF TInv, Tables
  <1>2. CASE UNCHANGED vars \/ TimePasses
    <2>1. UNCHANGED <<run, made, attempt, snap, pc, job>>
      BY <1>2 DEF vars, TimePasses, jobTables
    <2> QED
      BY <1>1, <2>1, KeepsTracked DEF TInv
  <1>3. CASE Administrator
    BY <1>3, AdministratorTracked
  <1>4. ASSUME NEW w \in Workers, Complete(w) \/ CancelRunning(w) \/ Fail(w) PROVE TInv'
    <2>1. {"completing", "cancelling", "failing"} \subseteq Tracking
      BY DEF Tracking, Closing
    <2> QED
      BY <1>4, <2>1, ClosesTracked DEF Complete, CancelRunning, Fail
  <1>5. ASSUME NEW w \in Workers, FindRun(w) \/ RunWithLease(w) PROVE TInv'
    <2>1. CASE Renew(w)
      <3>1. UNCHANGED <<run, made, attempt, snap, pc, job>>
        BY <2>1 DEF Renew, jobTables
      <3> QED
        BY <1>1, <3>1, KeepsTracked DEF TInv
    <2>2. CASE ~Renew(w)
      <3>1. /\ UNCHANGED <<run, made, attempt, snap, job>>
            /\ \E from \in Tracking, to \in Tracking : Go(w, from, to)
        BY <1>5, <2>2 DEF FindRun, RunWithLease, AcquireRead, AcquireUpdate, Skip, NoRowToUpdate,
                          Create, HandlerEnds, Release, jobTables, Tracking, Acquiring, Holding, Closing
      <3>2. Tracking \subseteq Places
        BY DEF Places
      <3> QED
        BY <1>1, <3>1, <3>2, MovesTracked
    <2> QED
      BY <2>1, <2>2
  <1>6. ASSUME NEW w \in Workers, CallThrows(w) PROVE TInv'
    <2>1. UNCHANGED <<run, made, attempt, snap>>
      BY <1>6 DEF CallThrows, jobTables
    <2>2. "idle" \in Places /\ "idle" \notin Tracking /\ "failing" \in Places /\ "failing" \in Tracking
      BY DEF Places, Tracking, Acquiring, Holding, Closing
    <2>3. CASE Rest(w, "failing")
      BY <1>1, <2>1, <2>2, <2>3, MovesTracked DEF Rest
    <2>4. CASE ~Rest(w, "failing")
      <3>1. pc[w] \in Tracking /\ Go(w, pc[w], "failing") /\ job' = job
        BY <1>6, <2>4 DEF CallThrows, Go, Tracking
      <3> QED
        BY <1>1, <2>1, <2>2, <3>1, MovesTracked
    <2> QED
      BY <2>3, <2>4
  <1>7. ASSUME NEW w \in Workers, Crash(w) PROVE TInv'
    <2>1. /\ UNCHANGED <<run, made, attempt>> /\ snap' = [snap EXCEPT ![w] = None]
          /\ Go(w, pc[w], "idle") /\ job' = [job EXCEPT ![w] = None]
      BY <1>7 DEF Crash, Rest
    <2>2. Tables'
      BY <2>1 DEF TInv, Tables
    <2>3. "idle" \in Places /\ "idle" \notin Tracking
      BY DEF Places, Tracking, Acquiring, Holding, Closing
    <2> QED
      BY <2>1, <2>2, <2>3, MovesTracked
  <1>8. ASSUME NEW w \in Workers, Track(w) PROVE TInv'
    BY <1>4, <1>5, <1>8, TickTracked, ClaimTracks DEF Track
  <1> QED
    BY <1>2, <1>3, <1>5, <1>6, <1>7, <1>8 DEF Next

\* TrackedIsOwn of IntervalWorker: the run that a worker tracks is running under
\* its attempt and under no other worker's, so the call that closes it will be
\* accepted, whatever claims, crashes and administrators come between.
THEOREM WorkerTrackedIsOwn == Spec => []TrackedIsOwn
  <1>1. TInv => TrackedIsOwn
    BY DEF TInv, Tracks, TrackedIsOwn
  <1> QED
    BY <1>1, InitTInv, NextTInv, PTL DEF Spec
=============================================================================
