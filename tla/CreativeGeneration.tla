------------------------- MODULE CreativeGeneration -------------------------
(* One AI generation: the requests that carry its idempotency key, the call
   to the provider, the reservations of credits and quota, the provider's
   notices (callbacks, polls, the polling deadline) and cancellations.  All
   of them write the record of the generation and the two reservations.

   A handler in progress is the sequence of the database calls it still has
   to make.  Each call is one step, because every call commits by itself;
   the three ledgers' calls are compare-and-sets, the record's are not.

   The service runs on Prisma or, for development, on a store in memory.  Two
   writes of the record name a column that the Prisma model does not have,
   `sourceKey` when a notice says running and `reasonCode` when a generation
   is cancelled: Prisma refuses them before it sends anything. *)
EXTENDS Naturals, Sequences, FiniteSets

CONSTANTS
  Requests,   \* POSTs with the idempotency key of this generation
  Cancels,    \* calls of cancel, each with a key of its own
  Handlers,   \* processes that take in callbacks or poll the provider
  Sources,    \* the ways a status of the provider comes in
  Stores,     \* the stores that a call may meet, "prisma" and "memory"
  MaxFaults,  \* bound on crashes, failing calls and leases outrun
  None

ASSUME NoneAssumption == None \notin Handlers \cup Cancels
ASSUME MaxFaultsAssumption == MaxFaults \in Nat

VARIABLES
  execution,  \* creative_generation_executions: the claim of the key
  request,    \* Requests -> calls that the POST still has to make
  provider,   \* the provider's job: has it an identity, and its status
  record,     \* creative_generations: status, and does its credit say settled
  credit,     \* creative_credit_ledger
  quota,      \* creative_quota_reservations
  outputs,    \* are the output assets stored
  replay,     \* creative_provider_replay_ledger, a row per idempotency key
  handler,    \* Handlers -> notice in hand, calls to make, calls made
  cancel,     \* Cancels -> calls to make, and was a charge known
  lease,      \* operation lease of the cancellation
  faults,
  dispatches, \* history: calls of the provider adapter
  decided,    \* history: outcomes that some handler set out to record
  billed      \* history: a cancellation that found the provider had charged

books == <<record, credit, quota, outputs>>
claimed == <<execution, request>>
noticed == <<replay, handler>>
cancelling == <<cancel, lease>>
history == <<dispatches, decided, billed>>
vars == <<execution, request, provider, record, credit, quota, outputs, replay,
          handler, cancel, lease, faults, dispatches, decided, billed>>

Open == {"queued", "running"}
Terminal == {"completed", "failed", "cancelled"}

Spoken == {"running", "completed", "failed", "cancelled"}
Deadline == <<"polling", "timeout">>

\* A completion without outputs: a callback that tells of one is refused, a poll is not
Empty == <<"polling", "empty">>
Notices == (Sources \X Spoken) \cup {Deadline, Empty}

Idle == [notice |-> None, todo |-> <<>>, done |-> {}]
NoCancel == [todo |-> <<>>, charged |-> FALSE]

Calls(sequence) == {sequence[i] : i \in DOMAIN sequence}

Refusing == <<"refund_credits", "release_quota">>

\* A call of a plan, unless an earlier claim has made it.
Left(call, done) == IF call \in done THEN <<>> ELSE <<call>>

\* Faulty variant: credits are settled before the outputs are stored.
PlanSettlingFirst(notice, done) ==
  CASE notice[2] = "completed" ->
         Left("settle_credits", done) \o Left("persist_outputs", done)
         \o Left("commit_quota", done) \o Left("complete", done)
    [] OTHER -> Left("refund_credits", done) \o Left("release_quota", done)
                \o Left("fail", done)

\* buildProviderSideEffectPlan: what a notice makes its handler do, in order. Without
\* outputs nothing is stored and no reservation is closed.
Plan(notice, done) ==
  LET status == notice[2]
      refusing == Left("refund_credits", done) \o Left("release_quota", done) IN
  CASE status = "running" -> Left("note_running", done)
    [] status = "completed" ->
         Left("persist_outputs", done) \o Left("settle_credits", done)
         \o Left("commit_quota", done) \o Left("complete", done)
    [] status = "empty" -> Left("complete", done)
    [] status = "cancelled" -> refusing \o Left("cancel", done)
    [] OTHER -> refusing \o Left("fail", done)

\* The outcome that its handler works towards
Outcomes(notice) ==
  CASE notice = Deadline -> {"failed"}
    [] notice = Empty -> {"completed"}
    [] OTHER -> {notice[2]} \ {"running"}

PlanCalls == {"note_running", "persist_outputs", "settle_credits", "commit_quota",
              "complete", "refund_credits", "release_quota", "fail", "cancel"}

\* lifecycleReplay: a notice is ignored by what its handler read of the record.
Ignored(notice) ==
  record.status \in Terminal \/ (record.status = "running" /\ notice[2] = "running")

-----------------------------------------------------------------------------
(* The calls that the three kinds of handlers share. *)

WriteRecord(status) ==
  /\ record' = IF record.status = "absent" THEN record
               ELSE [status |-> status, charged |-> credit = "settled"]
  /\ UNCHANGED <<credit, quota, outputs>>

\* Faulty variant: the ledger row is closed whatever its status.
CloseCreditAgain(result) ==
  credit' = result /\ UNCHANGED <<record, quota, outputs>>

CloseCredit(result) ==
  /\ credit' = IF credit = "reserved" THEN result ELSE credit
  /\ UNCHANGED <<record, quota, outputs>>

CloseQuota(result) ==
  /\ quota' = IF quota = "reserved" THEN result ELSE quota
  /\ UNCHANGED <<record, credit, outputs>>

\* Faulty variant: the record gets the name of the call for a status.
MarkRunningByName ==
  /\ record' = [record EXCEPT !.status = "mark_running"]
  /\ UNCHANGED <<credit, quota, outputs>>

MarkRunning ==
  /\ record' = [record EXCEPT !.status = "running"]
  /\ UNCHANGED <<credit, quota, outputs>>

PersistOutputs == outputs' = TRUE /\ UNCHANGED <<record, credit, quota>>

Misnamed == {"note_running", "cancel"}
Stored(call) == call \in Misnamed => "memory" \in Stores
Refused(call) == call \in Misnamed /\ "prisma" \in Stores

Do(call) ==
  \/ call \in {"mark_running", "note_running"} /\ Stored(call) /\ MarkRunning
  \/ call = "persist_outputs" /\ PersistOutputs
  \/ call = "settle_credits" /\ CloseCredit("settled")
  \/ call = "refund_credits" /\ CloseCredit("refunded")
  \/ call = "commit_quota" /\ CloseQuota("committed")
  \/ call = "release_quota" /\ CloseQuota("released")
  \/ call = "complete" /\ WriteRecord("completed")
  \/ call = "fail" /\ WriteRecord("failed")
  \/ call = "cancel" /\ Stored(call) /\ WriteRecord("cancelled")

Fault == faults < MaxFaults /\ faults' = faults + 1
Fails(call) == IF Refused(call) THEN faults' = faults ELSE Fault

Init ==
  /\ execution = "absent"
  /\ request = [r \in Requests |-> <<>>]
  /\ provider = [job |-> FALSE, status |-> "none"]
  /\ record = [status |-> "absent", charged |-> FALSE]
  /\ credit = "none" /\ quota = "none" /\ outputs = FALSE
  /\ replay = [n \in Notices |-> [state |-> "absent", by |-> None, done |-> {}]]
  /\ handler = [h \in Handlers |-> Idle]
  /\ cancel = [x \in Cancels |-> NoCancel] /\ lease = None
  /\ faults = 0 /\ dispatches = 0 /\ decided = {} /\ billed = FALSE

-----------------------------------------------------------------------------
(* POST /api/creative/generations *)

Proceed(r, calls) == request' = [request EXCEPT ![r] = calls]
Return(r) == Proceed(r, Tail(request[r]))
At(r, call) == request[r] # <<>> /\ Head(request[r]) = call

\* A new key is claimed for good; a known one refuses or answers the request.
Claim(r) ==
  /\ execution = "absent"
  /\ execution' = "claimed"
  /\ Proceed(r, <<"reserve_quota", "dispatch">>)
  /\ UNCHANGED <<provider, books, noticed, cancelling, faults, history>>

ExecutionLapses ==
  /\ execution = "claimed"
  /\ execution' = "lapsed"
  /\ UNCHANGED <<request, provider, books, noticed, cancelling, faults, history>>

\* Faulty variant: a later request takes an expired claim over.
TakeOverLapsed(r) ==
  /\ execution = "lapsed"
  /\ request[r] = <<>>
  /\ Proceed(r, <<"reserve_quota", "dispatch">>)
  /\ execution' = "claimed"
  /\ UNCHANGED <<provider, books, noticed, cancelling, faults, history>>

\* A later request reads an expired claim, and then writes by id.
ClaimLapsed(r) ==
  /\ execution = "lapsed"
  /\ request[r] = <<>>
  /\ Proceed(r, <<"require_recovery">>)
  /\ UNCHANGED <<execution, provider, books, noticed, cancelling, faults, history>>

ResolveRecovery ==
  /\ execution = "recovery_required"
  /\ execution' = "failed"
  /\ UNCHANGED <<request, provider, books, noticed, cancelling, faults, history>>

\* The catch blocks: what is left to do after the call that throws.
Unwind(call) ==
  CASE call \in {"create", "mark_running", "persist_outputs", "settle_credits"} ->
         Refusing \o <<"fail", "execution_fail">>
    [] call \in {"reserve_credit", "commit_quota"} ->
         <<"release_quota", "fail", "execution_fail">>
    [] call = "complete" -> <<"fail", "execution_fail">>
    [] call \in {"execution_fail", "require_recovery"} -> <<>>
    [] OTHER -> <<"execution_fail">>

Unwinds(r, call) ==
  /\ Proceed(r, Unwind(call))
  /\ decided' = decided \cup {o \in {"failed"} : "fail" \in Calls(Unwind(call))}

\* What is left to do after the provider's answer.
Continue(answer) ==
  <<"reserve_credit", "create">>
  \o (IF answer = "queued" THEN <<>> ELSE <<"mark_running">>)
  \o (CASE answer = "completed" ->
             <<"persist_outputs", "settle_credits", "commit_quota", "complete",
               "execution_succeed">>
        [] answer = "failed" -> Refusing \o <<"fail", "execution_fail">>
        [] OTHER -> <<"execution_succeed">>)

ReserveQuota(r) ==
  /\ At(r, "reserve_quota")
  /\ \/ quota' = "reserved" /\ Return(r)
     \/ quota' = quota /\ Proceed(r, <<"execution_fail">>)
  /\ UNCHANGED <<execution, provider, record, credit, outputs, noticed, cancelling,
                 faults, history>>

\* The provider answers at once or takes the job on; or the adapter throws,
\* and the quota is released; or what comes after its answer throws.
Dispatch(r) ==
  /\ At(r, "dispatch")
  /\ dispatches' = dispatches + 1
  /\ \/ \E job \in BOOLEAN, answer \in Open \cup {"completed", "failed"} :
          /\ job \/ answer \notin Open
          /\ provider' = [job |-> job, status |-> answer]
          /\ Proceed(r, Continue(answer))
          /\ decided' = decided \cup ({answer} \ Open)
          /\ faults' = faults
     \/ /\ Proceed(r, <<"release_quota", "execution_fail">>)
        /\ UNCHANGED <<provider, decided, faults>>
     \/ /\ Fault
        /\ Proceed(r, <<"execution_fail">>)
        /\ UNCHANGED <<provider, decided>>
  /\ UNCHANGED <<execution, books, noticed, cancelling, billed>>

ReserveCredit(r) ==
  /\ At(r, "reserve_credit")
  /\ \/ /\ credit' = IF credit = "none" THEN "reserved" ELSE credit
        /\ Return(r)
        /\ decided' = decided
     \/ credit' = credit /\ Unwinds(r, "reserve_credit")
  /\ UNCHANGED <<execution, provider, record, quota, outputs, noticed, cancelling,
                 faults, dispatches, billed>>

Create(r) ==
  /\ At(r, "create")
  /\ record' = IF record.status = "absent"
               THEN [status |-> "queued", charged |-> FALSE] ELSE record
  /\ Return(r)
  /\ UNCHANGED <<execution, provider, credit, quota, outputs, noticed, cancelling,
                 faults, history>>

RequestCall(r) ==
  /\ request[r] # <<>>
  /\ Do(Head(request[r]))
  /\ Return(r)
  /\ UNCHANGED <<execution, provider, noticed, cancelling, faults, history>>

EndExecution(r) ==
  /\ \/ At(r, "execution_succeed") /\ execution' = "succeeded"
     \/ At(r, "execution_fail") /\ execution' = "failed"
     \/ At(r, "require_recovery") /\ execution' = "recovery_required"
  /\ Return(r)
  /\ UNCHANGED <<provider, books, noticed, cancelling, faults, history>>

RequestThrows(r) ==
  /\ request[r] # <<>>
  /\ ~ At(r, "dispatch")
  /\ Fault
  /\ Unwinds(r, Head(request[r]))
  /\ UNCHANGED <<execution, provider, books, noticed, cancelling, dispatches, billed>>

RequestCrashes(r) ==
  /\ request[r] # <<>>
  /\ Fault
  /\ Proceed(r, <<>>)
  /\ UNCHANGED <<execution, provider, books, noticed, cancelling, history>>

-----------------------------------------------------------------------------
(* The provider's notices *)

ProviderMoves ==
  /\ provider.job /\ provider.status \in Open
  /\ \E status \in {"running", "completed", "empty", "failed"} \ {provider.status} :
       provider' = [provider EXCEPT !.status = status]
  /\ UNCHANGED <<claimed, books, noticed, cancelling, faults, history>>

Said(status) ==
  \/ status = provider.status
  \/ status = "running" /\ provider.status # "queued"

Hold(h, notice, calls, done) ==
  handler' = [handler EXCEPT ![h] = [notice |-> notice, todo |-> calls, done |-> done]]
LetGo(h) == handler' = [handler EXCEPT ![h] = Idle]

\* A callback may come late; a poll tells what is, of a record that is open.
\* The two reads of a poll are one step: what the provider says depends on
\* nothing that is written here.  An ignored notice is recorded as applied.
Receive(h, notice) ==
  /\ handler[h] = Idle
  /\ provider.job /\ record.status # "absent"
  /\ IF notice = Deadline THEN record.status \in Open
     ELSE /\ Said(notice[2])
          /\ notice[1] = "polling" =>
               record.status \in Open /\ notice[2] = provider.status
  /\ IF Ignored(notice)
     THEN /\ replay[notice].state = "absent"
          /\ replay' = [replay EXCEPT ![notice].state = "ignored"]
          /\ UNCHANGED handler
     ELSE Hold(h, notice, <<"claim">>, {}) /\ UNCHANGED replay
  /\ UNCHANGED <<claimed, provider, books, cancelling, faults, history>>

Free(row) == row.state \in {"absent", "rejected", "lapsed"}

\* record and claimSideEffects: the compare-and-set is on all that was read.
ClaimEffects(h) ==
  LET notice == handler[h].notice
      row == replay[notice] IN
  /\ handler[h].todo = <<"claim">>
  /\ IF Free(row)
     THEN /\ replay' = [replay EXCEPT ![notice].state = "claimed", ![notice].by = h]
          /\ Hold(h, notice, Append(Plan(notice, row.done), "record"), row.done)
          /\ decided' = decided \cup Outcomes(notice)
     ELSE LetGo(h) /\ UNCHANGED <<replay, decided>>
  /\ UNCHANGED <<claimed, provider, books, cancelling, faults, dispatches, billed>>

HandlerCall(h) ==
  LET now == handler[h] IN
  /\ now.todo # <<>>
  /\ Do(Head(now.todo))
  /\ Hold(h, now.notice, Tail(now.todo), now.done \cup {Head(now.todo)})
  /\ UNCHANGED <<claimed, provider, replay, cancelling, faults, history>>

\* Faulty variant: all calls count as made although one threw.
HandlerThrowsAfter(h) ==
  LET now == handler[h] IN
  /\ Calls(now.todo) \cap PlanCalls # {}
  /\ Fails(Head(now.todo))
  /\ Hold(h, now.notice, <<"record">>, Calls(Plan(now.notice, {})))
  /\ UNCHANGED <<claimed, provider, books, replay, cancelling, history>>

HandlerThrows(h) ==
  LET now == handler[h] IN
  /\ Calls(now.todo) \cap PlanCalls # {}
  /\ Fails(Head(now.todo))
  /\ Hold(h, now.notice, <<"record">>, now.done)
  /\ UNCHANGED <<claimed, provider, books, replay, cancelling, history>>

\* Faulty variant: the result is written without a look at the token.
RecordResultAnyway(h) ==
  LET notice == handler[h].notice
      done == handler[h].done IN
  /\ handler[h].todo = <<"record">>
  /\ replay' = [replay EXCEPT ![notice] =
        [state |-> IF Plan(notice, done) = <<>> THEN "applied" ELSE "rejected",
         by |-> None, done |-> done]]
  /\ LetGo(h)
  /\ UNCHANGED <<claimed, provider, books, cancelling, faults, history>>

\* markSideEffectResult: writes only under the token of the claim.
RecordResult(h) ==
  LET notice == handler[h].notice
      done == handler[h].done
      result == IF Plan(notice, done) = <<>> THEN "applied" ELSE "rejected" IN
  /\ handler[h].todo = <<"record">>
  /\ replay' = IF replay[notice].by # h THEN replay
               ELSE [replay EXCEPT ![notice] =
                       [state |-> result, by |-> None, done |-> done]]
  /\ LetGo(h)
  /\ UNCHANGED <<claimed, provider, books, cancelling, faults, history>>

HandlerCrashes(h) ==
  /\ handler[h] # Idle
  /\ Fault
  /\ LetGo(h)
  /\ UNCHANGED <<claimed, provider, books, replay, cancelling, history>>

\* The lease of a claim runs out: under its holder, which is a fault, or not.
EffectsLapse(notice) ==
  /\ replay[notice].state = "claimed"
  /\ IF handler[replay[notice].by].notice = notice THEN Fault ELSE faults' = faults
  /\ replay' = [replay EXCEPT ![notice].state = "lapsed"]
  /\ UNCHANGED <<claimed, provider, books, handler, cancelling, history>>

-----------------------------------------------------------------------------
(* cancelCreativeGeneration *)

Carry(x, calls, charged) ==
  cancel' = [cancel EXCEPT ![x] = [todo |-> calls, charged |-> charged]]

\* Faulty variant: the record is closed before the reservations.
CancellingRecordFirst(charged) ==
  <<"cancel">> \o (IF charged THEN <<>> ELSE Refusing) \o <<"unlock">>

\* With a charge confirmed the two reservations are left as they are.
Cancelling(charged) ==
  (IF charged THEN <<>> ELSE Refusing) \o <<"cancel", "unlock">>

\* The record is read once; its usage may already tell of a charge.
CancelRead(x) ==
  /\ cancel[x] = NoCancel
  /\ record.status \in Open
  /\ \E cost \in BOOLEAN : Carry(x, <<"lock">>, record.charged \/ cost)
  /\ UNCHANGED <<claimed, provider, books, noticed, lease, faults, history>>

SetOut(x, charged) ==
  /\ Carry(x, Cancelling(charged), charged)
  /\ decided' = decided \cup {"cancelled"}
  /\ billed' = (billed \/ charged)

CancelLock(x) ==
  /\ cancel[x].todo = <<"lock">>
  /\ IF lease # None
     THEN cancel' = [cancel EXCEPT ![x] = NoCancel] /\ UNCHANGED <<lease, decided, billed>>
     ELSE /\ lease' = x
          /\ IF provider.job
             THEN Carry(x, <<"ask">>, cancel[x].charged) /\ UNCHANGED <<decided, billed>>
             ELSE SetOut(x, cancel[x].charged)
  /\ UNCHANGED <<claimed, provider, books, noticed, faults, dispatches>>

\* The adapter confirms, with or without a charge, or it does not.
CancelAsk(x) ==
  /\ cancel[x].todo = <<"ask">>
  /\ \/ /\ provider' = IF provider.status \in Open
                       THEN [provider EXCEPT !.status = "cancelled"] ELSE provider
        /\ \E charge \in BOOLEAN : SetOut(x, cancel[x].charged \/ charge)
     \/ Carry(x, <<"unlock">>, FALSE) /\ UNCHANGED <<provider, decided, billed>>
  /\ UNCHANGED <<claimed, books, noticed, lease, faults, dispatches>>

CancelCall(x) ==
  /\ cancel[x].todo # <<>>
  /\ Do(Head(cancel[x].todo))
  /\ Carry(x, Tail(cancel[x].todo), cancel[x].charged)
  /\ UNCHANGED <<claimed, provider, noticed, lease, faults, history>>

CancelThrows(x) ==
  /\ Calls(cancel[x].todo) \cap PlanCalls # {}
  /\ Fails(Head(cancel[x].todo))
  /\ Carry(x, <<"unlock">>, FALSE)
  /\ UNCHANGED <<claimed, provider, books, noticed, lease, history>>

CancelUnlock(x) ==
  /\ cancel[x].todo = <<"unlock">>
  /\ lease' = IF lease = x THEN None ELSE lease
  /\ cancel' = [cancel EXCEPT ![x] = NoCancel]
  /\ UNCHANGED <<claimed, provider, books, noticed, faults, history>>

CancelCrashes(x) ==
  /\ cancel[x] # NoCancel
  /\ Fault
  /\ cancel' = [cancel EXCEPT ![x] = NoCancel]
  /\ UNCHANGED <<claimed, provider, books, noticed, lease, history>>

CancelLeaseLapses ==
  /\ lease # None
  /\ IF cancel[lease] # NoCancel THEN Fault ELSE faults' = faults
  /\ lease' = None
  /\ UNCHANGED <<claimed, provider, books, noticed, cancel, history>>

-----------------------------------------------------------------------------
Request(r) ==
  \/ Claim(r) \/ ClaimLapsed(r)
  \/ ReserveQuota(r) \/ Dispatch(r) \/ ReserveCredit(r) \/ Create(r)
  \/ RequestCall(r) \/ EndExecution(r) \/ RequestThrows(r) \/ RequestCrashes(r)

Handle(h) ==
  \/ \E notice \in Notices : Receive(h, notice)
  \/ ClaimEffects(h) \/ HandlerCall(h) \/ RecordResult(h)
  \/ HandlerThrows(h) \/ HandlerCrashes(h)

CancelStep(x) ==
  \/ CancelRead(x) \/ CancelLock(x) \/ CancelAsk(x) \/ CancelCall(x)
  \/ CancelUnlock(x) \/ CancelThrows(x) \/ CancelCrashes(x)

Next ==
  \/ \E r \in Requests : Request(r)
  \/ \E h \in Handlers : Handle(h)
  \/ \E x \in Cancels : CancelStep(x)
  \/ \E notice \in Notices : EffectsLapse(notice)
  \/ ExecutionLapses \/ ResolveRecovery \/ ProviderMoves \/ CancelLeaseLapses

Spec == Init /\ [][Next]_vars

-----------------------------------------------------------------------------
Steps == PlanCalls \cup
  {"reserve_quota", "dispatch", "reserve_credit", "create", "mark_running",
   "execution_succeed",
   "execution_fail", "require_recovery", "claim", "record", "lock", "ask", "unlock"}

\* Every variable has its type.
TypeOK ==
  /\ execution \in {"absent", "claimed", "lapsed", "succeeded", "failed", "recovery_required"}
  /\ request \in [Requests -> Seq(Steps)]
  /\ provider \in [job : BOOLEAN, status : Open \cup Terminal \cup {"empty", "none"}]
  /\ record \in [status : Open \cup Terminal \cup {"absent"}, charged : BOOLEAN]
  /\ credit \in {"none", "reserved", "settled", "refunded"}
  /\ quota \in {"none", "reserved", "committed", "released"}
  /\ outputs \in BOOLEAN
  /\ replay \in [Notices ->
       [state : {"absent", "ignored", "claimed", "lapsed", "rejected", "applied"},
        by : Handlers \cup {None}, done : SUBSET PlanCalls]]
  /\ handler \in [Handlers ->
       [notice : Notices \cup {None}, todo : Seq(Steps), done : SUBSET PlanCalls]]
  /\ cancel \in [Cancels -> [todo : Seq(Steps), charged : BOOLEAN]]
  /\ lease \in Cancels \cup {None}
  /\ faults \in 0..MaxFaults
  /\ dispatches \in Nat
  /\ decided \subseteq Terminal
  /\ billed \in BOOLEAN

\* The adapter is called at most once for an idempotency key, whoever crashes:
\* an expired claim asks for recovery and is never taken over
\* (prismaGenerationExecutionRepository.claim).
DispatchedOnce == dispatches <= 1

\* Credits are settled only for outputs that are stored: both the request and
\* the plan of a notice persist first, and a resumed plan skips only what was
\* done (providerSideEffectPlan.js).
SettledHasOutputs == credit = "settled" => outputs

\* A notice of a completion without outputs has been acted upon
Bare == replay[Empty].state \notin {"absent", "ignored"}

\* A record is closed after the reservations of credits and quota, whatever failed, crashed
\* or was resumed on the way. Two handlers alone close it over a reservation that is open: a
\* cancellation that found a charge, and then the record says cancelled, and a notice of a
\* completion without outputs, and then it says completed. It never says failed.
ClosedRecordClosedBooks ==
  record.status \in Terminal /\ "reserved" \in {credit, quota} =>
    \/ record.status = "cancelled" /\ billed
    \/ record.status = "completed" /\ Bare

\* Where all handlers worked towards one outcome, a closed record has it, and the ledgers
\* agree: settled and committed for what was completed with outputs, and for nothing else.
UndisputedBooksAgree ==
  Cardinality(decided) = 1 /\ record.status \in Terminal =>
    /\ record.status \in decided
    /\ (record.status = "completed" /\ ~ Bare) <=> (credit = "settled")
    /\ (record.status = "completed" /\ ~ Bare) <=> (quota = "committed")

\* The ledgers follow the record.
BooksFollowRecord == ClosedRecordClosedBooks /\ UndisputedBooksAgree

\* A replay recorded as applied has closed both reservations and, if it told
\* of a completion, stored the outputs, although several claims may have
\* executed parts of its plan (providerReplayIntegration.js). One that told of
\* a completion without outputs has done neither.
AppliedDidItsWork ==
  \A notice \in Notices :
    replay[notice].state = "applied" /\ notice[2] \notin {"running", "empty"} =>
      /\ credit # "reserved" /\ quota # "reserved"
      /\ notice[2] = "completed" => outputs

\* What was recorded as applied stays so: the handler whose claim was taken
\* over does not write its result over that of its successor.
AppliedIsKept ==
  \A notice \in Notices :
    replay[notice].state = "applied" => replay'[notice] = replay[notice]

AppliedStays == [][AppliedIsKept]_vars

\* A reservation that is closed is never closed the other way, neither by a
\* second notice nor by a cancellation that decided on an older record.
ReservationsCloseOnce ==
  [][/\ credit \in {"settled", "refunded"} => credit' = credit
     /\ quota \in {"committed", "released"} => quota' = quota]_vars

\* An execution that succeeded has its generation, which the route reads for a
\* repeated request ("Completed execution is missing its generation record").
SucceededHasRecord == execution = "succeeded" => record.status # "absent"

\* What says that the work is done, an applied replay or a succeeded execution, is right.
DoneIsDone == AppliedDidItsWork /\ SucceededHasRecord

\* A generation recorded as completed, with its outputs, has its credits settled and its
\* quota committed (the settlement matrix of docs/CREATIVE_ACCOUNTING_POLICY.md).
CompletedIsCharged ==
  record.status = "completed" /\ outputs => credit = "settled" /\ quota = "committed"

=============================================================================
