# MuseFlow AI Studio: verification project

TLA+ modules, TLC configurations and TLAPS proofs for the server of this repository
(`server/src`, Node.js over PostgreSQL through Prisma). The Prisma repositories are the
reference: the in-memory seed repositories are doubles for demonstration and tests.

* [Reading guide](#reading-guide)
* [Inventory of the system](#inventory-of-the-system)
* [How the code is read](#how-the-code-is-read)
* [The modules](#the-modules)
* [Runs](#runs)
* [Fairness](#fairness)
* [Proofs](#proofs)
* [Where the code and its documents disagree](#where-the-code-and-its-documents-disagree)
* [What is only model-checked, and what is left out](#what-is-only-model-checked-and-what-is-left-out)
* [Plan](#plan)

## Reading guide

| module | what it is | proofs |
| --- | --- | --- |
| `TaskMarketplace.tla` | one marketplace task: proposals, delivery, review, disputes, escrow | `TaskMarketplaceProofs.tla` |
| `JobRuntime.tla` | the durable job runtime: runs, attempts, claims, retries, timeout sweep | `JobRuntimeProofs.tla` |
| `IntervalWorker.tla` | the interval workers over `JobRuntime` and the operation leases | `IntervalWorkerProofs.tla` |
| `OrderedEffects.tla` | what the event pipeline promises: effects in order, once | |
| `DomainEvents.tla` | the outbox, the consumer inbox, the order cursor, compensation | `DomainEventsProofs.tla` |
| `CreativeGeneration.tla` | one AI generation: request, provider notices, cancellation, its reservations | `GenerationProofs.tla` |
| `ProviderControl.tla` | what may be sent to a provider: kill switch, circuit, probes, recoveries | `ProviderProofs.tla` |
| `ProviderRetries.tla` | the retries of one generation's status reads | `ProviderProofs.tla` |
| `WebhookDeliveries.tla` | the deliveries of one webhook subscription | `QueueProofs.tla` |
| `NotificationDeliveries.tla` | notifications by e-mail under the channel's configuration | `QueueProofs.tla` |
| `SearchIndex.tla` | the search document of one resource and its queue entry | `QueueProofs.tla` |
| `PointAccount.tla` | one user's points: operations, reconciliation scan, repair under review | `ServicesProofs.tla` |
| `AccountSessions.tla` | the sessions of one account and their chains of refresh tokens | `ServicesProofs.tla` |
| `AccountLinking.tla` | the ways to sign in: passwords, identities, authorization requests | `ServicesProofs.tla` |
| `DataRights.tla` | requests for an export or the deletion of one account | `ServicesProofs.tla` |
| `MC*.tla`, `*.cfg` | the instances that TLC checks; `MCServices` has those of the last seven, `MCCreativeGeneration` those of the generation and the provider | `ServicesProofs.tla`, `GenerationProofs.tla` |

`PROJECT.json` lists the components, the runs with their properties, for each property a
faulty variant of the code that violates it, the source lines of every definition, the
hazards and the theorems. Operators commented *Faulty variant* belong to those checks and
are used by no action.

To check a run: `tlc -config MCJobRuntime.cfg MCJobRuntime.tla`; to check the proofs:
`tlapm JobRuntimeProofs.tla`.

## Inventory of the system

The program is a studio for AI-generated media with a task marketplace: users generate
images, video, music and chat through external providers and pay in credits; publishers
post tasks with a reward held in escrow and creators deliver work. All state is in one
PostgreSQL database. What runs against it at the same time: HTTP handlers, the interval
workers of `operations/worker.js` (any number of processes), the chat stream, provider
callbacks, and administrators. Components interact through shared rows, never through
messages in memory; the only queue between them is the domain event outbox.

| component | state | operations | hard behaviour | what makes it correct |
| --- | --- | --- | --- | --- |
| task marketplace and escrow | `tasks`, `task_proposals`, `task_submissions`, `admin_reviews`, escrow entries | create, bid, accept, claim, submit, review, stale sweep, dispute, resolve, cancel, expire, recover, archive | handlers that decide on rows read before their transaction; two administrators; sweeps against users | the reward leaves escrow once and to the assignee; closed tasks stay closed; one assignee |
| job runtime | `job_definitions`, `job_runs`, `job_attempts` | enqueue, claim, heartbeat, complete, fail, cancel, retry, rerun, pause, timeout sweep | claim reads first and takes later; late tokens; sweep in two statements | one live attempt, bounded attempts, final runs stay final |
| interval workers and leases | process-local run, `operation_leases` | tick, claim, acquire, renew, handle, release, close | crashes, failed renewals, lost releases, a lease that runs out under its holder | one handler at a time while leases last; a tracked run is the worker's own |
| domain events | outbox, publications, inbox, consumptions, attempts, cursor, compensations | enqueue, publish, receive, claim, succeed, fail, retry, replay, backfill, compensate | publication twice and in any order, leases outrun, crash between receipt and mark | effects in order and once; every event settles |
| internal accounting | `internal_accounting_operations`, ledger entries, point accounts | post, reverse, adjust, reconcile | retries with the same key, concurrent debits, a scan whose statements see different states | operations apply once, the balance is what the operations explain |
| creative generation | `creative_generations`, executions, mutations | claim, run, complete, cancel, retry, recover | cancel and recovery against a provider call under way; late answers | one execution per key; terminal records stay; no redispatch of what may have been sent |
| credits, quota, provider costs | reservations and ledgers | reserve, settle, refund, cancel, commit, release | settle against refund | each reservation leaves `reserved` once and agrees with the generation |
| provider control and retries | `creative_provider_control_states`, `creative_provider_circuit_states`, recovery reviews, `creative_provider_retry_states` | disable, ask, claim a probe, record a result, request and decide a recovery; schedule and clear a retry | dispatches that read row by row and bring one token; reviews of what has changed since; pollers that decide on one read | a probe's token is good for one dispatch; nothing recovers on an old request; retries are counted and bounded |
| provider callbacks, polling, ingestion | replays, polling jobs, outputs | receive, replay, poll, time out, ingest | duplicated, late and reordered notices | each replay has its side effects once |
| accounting reconciliation, billing | runs, findings, policies, quotes | compare, publish policy | policy change under a quote | findings match the ledgers |
| sessions | `auth_sessions`, `refresh_tokens` | issue, rotate, revoke, revoke all, dispose, suspend | two refreshes with one token, reuse after rotation, an administrator who decides on an old view | one live token per session; reuse ends the session for good |
| OAuth and linking | `oauth_authorization_requests`, `oauth_accounts`, provider controls | start, callback, link, unlink, revoke | a callback in four steps against unlinking, erasure and the provider's switch | an account keeps a way to sign in, a deleted one has none |
| authorization, login monitor | roles, counters | permission checks; rate limits | a window that rolls over | |
| media, assets | media rows, scan jobs, objects | upload, scan, callback, clean up | scan answers against timeouts; deletion retries | nothing unscanned is public |
| chat | conversations, messages, streams | send, stream, cancel, purge | cancel against the end of a stream | one stream per conversation |
| webhooks | subscriptions, the global control, `webhook_deliveries`, attempts, replays | receive, claim, complete, replay, switch | candidates read before they are claimed, a late answer after the lease, switches meanwhile | one open attempt; a stopped subscription is quiet; replays happen once per key |
| notifications | channel revisions, `notification_deliveries`, attempts | create, claim, send, complete, retry, cancel | the mail goes out between two transactions; a send that throws drops the batch | what is marked sent was accepted; every mail settles |
| search queue | `search_documents`, `search_sync_queue` | enqueue by trigger, claim, project, write, finish, rebuild | a resource that changes while its entry is claimed | the document ends at the newest revision |
| data rights | `data_rights_requests`, receipts, the mark on the account | demand, cancel, process, receipt | two ways to ask for a deletion and to take it back | one deletion, and not one that was taken back |
| configuration, model control, moderation, risk, support, users, developer keys, releases | versioned rows and approvals | draft, approve, publish, hold, execute | approval of a version that has moved | an approved version is the published one |
| audit, observability | hash chain, metrics | append, verify, archive | none of its own | the chain verifies |
| community | posts, likes, follows | interact, moderate | counters | counters equal rows |
| front end, HTTP contracts, schema, scripts | none of their own | | | |

`PROJECT.json` has one entry for each, with its sources and its status; the hazards below
the modelled components and those of the next ones are listed there by source line.

## How the code is read

* **Transactions.** PostgreSQL runs at READ COMMITTED unless a handler asks for
  serializable. A statement `updateMany({where: id and guard})` is a compare-and-set on the
  row, so a handler whose guarded writes check again all that it read is one step. A handler
  that reads before its transaction, or reads in it and then writes by id, is split at the
  point where another transaction can commit. The comments of the modules say which is which.
* **Rows that never meet** are left out: one task, one job definition, one aggregate and one
  consumer, one subscription, one resource, one account stand for all, because no statement of
  these components joins two of them.
* **Serializable handlers** run in `runSerializableTransaction`, which repeats them on a
  conflict, so each is one step. Where a handler reads outside of it, or calls something
  outside the database between two of them, it is split.
* **Time** is what the guards compare: a deadline has passed or not, a backoff has elapsed
  or not, a lease has lapsed or not; only the operation lease, whose renewal depends on the
  time left, has a clock.
* **Names.** A lease token is the number of its attempt where each claim makes one
  (`JobRuntime`, `DomainEvents`, the deliveries) and the worker's name for operation leases.
  Keys, users and
  submissions are model values or small numbers.
* **Left out everywhere**: notifications, audit rows and metrics (nothing reads them back in
  these handlers) except where their failure changes what the caller does, request parsing,
  permissions, formatting, and Prisma's time limit for an interactive transaction.

## The modules

### TaskMarketplace

State: `task` is the row in `tasks` (status, assignee, archived, whether the deadline has
passed, and `metadata.dispute`), `proposal`, `sub` and `review` the rows made for it,
`escrow`, `released` and `paid` the ledger entry of the hold and the two accounting
operations that can end it, `awards` how often the completion reached the profile
statistics. `bidding`, `request` and `desk` are handlers between their read and their write.

| actions | code |
| --- | --- |
| `Create` | `tasks.create`: task, escrow and event in one transaction |
| `BidRead`, `BidWrite` | `tasks.createProposal`: checks, then a write that carries the metadata that was read |
| `AcceptProposal`, `RejectProposal`, `Claim` | `tasks.reviewProposal`, `tasks.claim` |
| `SubmitRead`, `SubmitWrite`, `SubmitLost` | `tasks.submit` and its compare-and-set |
| `Approve`, `Reject`, `RequestChanges` | `tasks.review` |
| `SweepStale`, `Expire` | the worker's two sweeps |
| `OpenDispute` | `tasks.createDispute` |
| `ReviewRead`, `ReviewBegin`, `ReviewWrite` | `adminReviews.review` for a dispute: the check of the decision, the read inside the transaction, the writes by id |
| `Cancel`, `RecoverEscrow`, `Archive`, `Restore`, `EditDeadline` | `prismaTaskLifecycleRecoveryRepository.js`, `prismaTaskAdminRepository.js` |

Notes. The reward is positive. The sources that could bring a task to `draft` or `assigned`
are absent from the repository, so those statuses do not occur. An accounting operation is
keyed by its kind and the task, so repeating one changes nothing; that the ledger does this
belongs to internal accounting. `RejectProposal` is one step because no transaction that
commits between its read and its write depends on a proposal that stays pending.
`OpenDispute` is one step: its writes are ordered by the row lock that its first,
guarded, update takes.

### JobRuntime

State: `run` and `attempt` are the rows of one definition, `made` counts a run's attempts,
`snap` is the candidate row that each claimer has read, `selected` and `closing` are the
position of the timeout sweep, `retries` is a history variable (administrator retries).
Actions are named after the repository calls; `ClaimRead`/`ClaimTake`/`ClaimLost` split
`claim`, `SweepSelect`/`SweepAttempts`/`SweepRun` split `sweepTimeouts`. The order in which
claim prefers runs is abstracted to any due run. `sweepTimeouts`, `enqueueDueCron` and
`heartbeat` have no caller in the program other than the tests; the repository offers them, so the
module has them, and `IntervalWorker` does not call them.

### IntervalWorker

`runOnce` of one job in several processes, over `INSTANCE JobRuntime` (its variables, and
its actions for every job call) and the `operation_leases` row. `pc` is the place in
`runOnce`, `job` the run and attempt the process tracks, `lease` the row with the time left,
`outrun` a history variable: holders whose lease ran out under them. `acquire` has its three
statements (`AcquireRead`, `AcquireUpdate`, `Create`), and both writes can be followed by a
failing audit write, which leaves the lease held by nobody's code. `release` sets the
expiry to now, so a lease without time left is free. `CallThrows` is any failing database
call, `Crash` a process that dies and is restarted. Clocks of different processes are
assumed to agree.

### DomainEvents and OrderedEffects

State: the outbox (`emitted`, `publication`), the consumer's inbox (`inbox`, `attempt`), its
order `cursor` and the committed `effects`, the compensation (`comp`, `compAttempt`,
`undone`), and the leases that workers hold (`publishing`, `running`, `undoing`). The
registry has one producer today (`task.created`), but sequences, cursors and compensation
are written for any number of events of an aggregate, so that is what is checked. Leases
have no clock: a claim may take over a lease whose holder is gone at any time, and one whose
holder still works as a fault, of which a behaviour has at most `MaxFaults`. `succeed`,
`markPublished` and the claims check again what they rely on; `fail` and both ends of a
compensation read the token and then write by id, and are split. A publisher that throws
after the receipt is `MarkFailed`; the receipt of webhook deliveries, which is an upsert that
changes nothing the second time, is `WebhookDeliveries!Receive`.

`OrderedEffects` is the abstract specification: the effects of an aggregate are appended in
sequence, none skipped and none twice, and only an applied effect is compensated. The
property `EffectsInOrder` says that `DomainEvents` implements it.

### CreativeGeneration

State: `execution` is the claim of the idempotency key, `record` the row in
`creative_generations` (status, and whether its credit JSON says settled), `credit` and
`quota` the two reservations, `outputs` whether the files are stored, `replay` the replay
ledger with one row per idempotency key of a notice, `lease` the lease of cancellations,
`provider` the job outside. `request[r]`, `handler[h].todo` and `cancel[x].todo` are handlers
in progress: the calls each still has to make, in order. Every call commits by itself, so
each is a step, and `Do` says what it does.

| actions | code |
| --- | --- |
| `Claim`, `ExecutionLapses`, `ClaimLapsed`, `EndExecution`, `ResolveRecovery` | `prismaGenerationExecutionRepository.js` |
| `ReserveQuota`, `Dispatch`, `ReserveCredit`, `Create`, `RequestCall` | `executeCreativeGeneration`, `runGenerationRequest`; `Continue` and `Unwind` give the calls after the provider's answer and in the catch block |
| `Receive`, `ClaimEffects`, `HandlerCall`, `HandlerThrows`, `RecordResult`, `EffectsLapse` | callback service and polling worker through `applyProviderReplayThroughLedger`; `Plan` is `buildProviderSideEffectPlan` |
| `CancelRead`, `CancelLock`, `CancelAsk`, `CancelCall`, `CancelThrows`, `CancelUnlock`, `CancelLeaseLapses` | `cancelCreativeGeneration` |
| `RequestCrashes`, `HandlerCrashes`, `CancelCrashes`, `ProviderMoves` | processes that die; the provider |

Notes.

* Prisma refuses an update with a key that is no column before it sends it. Two calls have
  such a key: `cancel` (`reasonCode`) and the `markRunning` of a notice (`sourceKey`). The
  store in memory takes both. `Stores` says which of the two a call may meet; the passing
  run lets every call meet either, so that its properties hold for both.
* `record` and `claimSideEffects` of the replay ledger are one step, since the
  compare-and-set of the second is on everything that the first returned. The two reads of a
  poll are one step: what the provider says does not depend on the database.
* A poll may tell of a completion without outputs, which a callback is refused for
  (`replicateCallbackPayload.js:46`). `sideEffectActionsFor` then plans `complete` alone, so
  the record is closed and nothing is stored, settled, refunded, committed or released. It is
  the notice `Empty`, beside the callbacks and the deadline; `Bare` says that one was acted upon.
* `review_required` counts as `completed`, an answer `cancelled` of the adapter as `failed`:
  their calls are the same. The third disjunct of `Dispatch` is a failure after the adapter
  has answered (control plane or cost ledger), which leaves the quota reserved.
* When the request's commit failed, its `fail` writes the credit as it read it. The model
  writes what the ledger says; a reader of the flag cannot tell, as quota and credits are
  closed by then.
* A lease has no clock: it runs out once its holder is gone, and under its holder as a
  fault. `ExecutionLapses` is free, because nothing renews the claim of a key.

### ProviderControl and ProviderRetries

`ProviderControl` has one scope and its circuit: `switch` and `circuit` are the rows,
`dispatch` what each request has read so far, `recovery` the pending reviews; `proved` and
`probes` are history variables, and so is the field `stands` of a review, which says whether
what it was requested for still holds.

| actions | code |
| --- | --- |
| `ReadControls`, `ReadCircuit`, `ClaimProbe` | `assertDispatchAllowed`: `readSnapshot`, whose reads end in any order, `claimProbe` and the circuit read again after it; `Decided` is `evaluateProviderControlSnapshot` |
| `RecordFailure`, `RecordSuccess`, `EndUncounted` | `recordResult` through `recordCircuitEvent`, a compare-and-set that is repeated on a conflict, and the ends of a dispatch that record nothing |
| `Disable` | `setControl` as the disable route calls it |
| `RequestRecovery`, `ApproveEnable`, `ApproveHalfOpen`, `ApproveClosed`, `Reject` | `requestRecovery`, `reviewRecovery` |

`requestRecovery` looks at no row. It stores the version and the reason code that the operator
names, and `reviewRecovery` compares that version with the row's and writes that reason. So
`RequestRecovery` names any version, also one to come (`ahead`), and a reason that may be the
one which stands for a successful probe; versions that the row has left are all alike.

Times are left out, so a failure may find its window ended or not, and a claim may be too late.
A token is named by the version of the circuit that issued it. The service takes a probe's
token (`generationService.js:116`), so a dispatch may bring one, although no route of today
passes it on.

`ProviderRetries` has the retry row of one generation and the pollers that have its status
read: `MayPoll` is `evaluateProviderRetryState`, `FindToSchedule`, `RecordRetry` and
`RecordConflict` are `scheduleProviderRetry`, `FindToClear`, `Clear` and `ClearConflict`
are `clearProviderRetryState`. `failures` is a history variable. The lease of the poll job
keeps pollers apart until it runs out under one of them; the module has any number. The keys of
failures differ, as they contain the time of the answer.

### WebhookDeliveries

State: `control` and `subscription` are the two switches, `delivery`, `attempt` and `replayed`
the three tables, `worker` what each process holds: the candidates it has read and the claims
it still has to send.

| actions | code |
| --- | --- |
| `Receive` | `receive`, which the event publisher calls |
| `ReadControl`, `ReadCandidates`, `FindNothing`, `Claim`, `LoseCandidate` | `claim`: it reads the control, then the candidates, then takes each in a transaction of its own by a compare-and-set on status and version |
| `Complete`, `CompleteLate`, `Stop` | `complete` with and without the lease; a process that dies or a call that throws |
| `UpdateControl`, `TransitionSubscription`, `EraseAccount` | the switches; the deletion of the owner's account closes the subscription and leaves its deliveries |
| `Replay` | `replay` of a dead letter with a new idempotency key |
| `LeaseLapses` | the time |

The owner may edit the subscription's maximum of attempts, so each use takes any value. A
lease may lapse whenever its delivery is processing: whether its holder still works makes no
difference to the properties.

### NotificationDeliveries

State: `channel` holds the revisions of the channel's configuration, the last in force; `mail`
and `mailAttempt` are the tables, `mailer` the claims a process goes through and the relay's
answer to the first of them; `accepted` is a history variable, what the relay took. `Send` is
`emailClient.send` with an answer (the relay may accept a mail whose answer is lost),
`SendThrows` one that throws, which ends the whole round, since nothing catches it in
`runNotificationDeliveryWorkerOnce`. Nothing bounds how often it throws: the client that the
worker makes itself throws on every mail with a recipient (finding 5). `Answers` says which of
these a send may come to: the passing run has all of them, so a behaviour in which each send
throws is one of its behaviours. Its claims go on for ever; the model stops them at `MailClaims`,
a number that crashes, lapses and orders cannot reach, and `MailSettles` says that a delivery
settles or is claimed again up to there. The other actions carry the names of the repository's
calls.

### SearchIndex

State: `source` is the resource (a revision, 0 when it is gone, and its `updated_at`),
`document` the revision its search document shows, `entry` the queue row, `indexer` the place
of each process in `processQueue`. `Enqueued` is the trigger function of migration 0088.
`processQueue` is a sequence of statements: `FindCandidate`, `ClaimEntry`, `Project`,
`WriteDocument`, `Finish`, or `SyncFails`; the transaction of `syncOne` is not serializable,
so what it projects may be old when it is written.

A document shows more than the row it is made of. A change of any row with a trigger for it is
`Change`; one that fires none is `ChangeUnannounced`: the owner's handle, which the documents of
tasks, posts and assets show (`prismaSearchRepository.js:36`, `50`, `92`), while an update of a
profile enqueues the user and the assets of the portfolio only. `announced` remembers the
revision at the last enqueueing, and the properties ask of a document to be as new as that.

An indexer is `overtaken` when the entry is claimed again after it has read the resource; `late`
says that such a one was the last that wrote the document or removed the entry. Both are history
variables. Every other overlap of indexers is inside the properties.

### PointAccount

State: `balance` and `opening` are the account snapshot, `ledger` the user's rows,
`posted` the operation keys, `compensated` the key of the repair with what it moved, `issue`
and `review` the rows of the reconciliation, `scan`, `asking` and `desk` handlers in progress,
`drift` a history variable: what was written to the snapshot by nothing the program knows.
`Post` is `applyPrismaAccountingOperation` with the ledger row its callers add. The scan
(`ScanRows`, `ScanAccounts`, `ScanIssues`, `ScanWrite`), the request of a repair and its review
run at READ COMMITTED and are split at their statements.

### AccountSessions and AccountLinking

`AccountSessions` has the sessions of one account: `session` and `token` are the tables, `login`
the place of each attempt to log in (with a password the check and the session are two
transactions, with an external identity one), `seen` the versions that administrators have
read, `reused` a history variable. Clients keep every token they were given and may present
any of them at any time, so `Rotate` and `Reuse` take any token of the chain.

`AccountLinking` has the accounts and identities themselves: `flow` is an authorization
request with the callback that consumes it, whose four steps (`ConsumeFlow`, `Exchange`,
`CompleteLink`, `CompleteLogin`) meet registration, unlinking by the user or an administrator,
the provider's switch, suspension and erasure. The two modules do not share state: what one
needs of the other, that an account can be suspended or erased at any time, each has itself.

### DataRights

State: `person` is the account's status and deletion mark, `demand` the requests in the order they
were made, `receipts` the backup classes confirmed for each. `past` says that a request is older
than thirty days: a deletion is due then, and `create`, which looks at the requests of the last
thirty days, sees it no longer, neither for its limit nor as an active one (`ThirtyDaysPass`,
`MayDemand`). History variables are `wish`, what the person has last said in time, and `outlived`,
the deletions that were open when the account lost its mark. `CreateDemand`, `CancelDemand`,
`ProcessExport`, `ProcessDeletion` and `RecordBackupReceipt` are the calls of the data rights
repository; `RequestDeletion` and `CancelDeletion` the older calls of the profile, which know the
mark only.

## Runs

Every run is exhaustive within its bounds. Each passing run names a faulty variant of the
code for each of its properties; TLC finds the property violated with it.

| run | instance | shows |
| --- | --- | --- |
| `task_marketplace` | 2 creators, 2 submit requests, 1 administrator, 3 submissions | the reward is held while the task is live and has left escrow when it is closed, a completed task was paid to the assignee, its statistics count once (`SettledByStatus`); closed tasks stay closed when one administrator decides at a time; one assignee for the life of a task, whose submissions are the only ones (`WorkIsAssignees`) |
| `job_runtime` | 2 runs, 2 claimers, 2 attempts, 1 administrator retry | one live attempt, bounded attempts, runs and attempts agree (`RunsMatchAttempts`), final runs stay final, nothing claims a run whose cancellation is requested (`NoRevival`) |
| `interval_worker` | 3 runs, 2 processes, a lease of 2 ticks | handlers of one job exclude each other as long as no lease has run out under its holder; the run a process tracks is its own |
| `domain_events` | 2 events, 2 attempts, 2 faults, 2 administrator orders, the consumer enabled from the start or later | the pipeline implements `OrderedEffects`; one success per event, and later events wait (`CursorIsExact`); every event is settled in the end: consumed, or dead-lettered, or behind one that is |
| `generation` | 2 requests, 2 handlers of callbacks, the deadline and a poll without outputs, 1 cancellation, at most 2 of them in progress, 1 fault; or 2 dispatches at a circuit of 6 versions that opens after 2 failures; or 2 pollers on a row of 8 versions, 3 reads | one dispatch per key; credits settled only with outputs; both reservations closed once; a record is closed after its books but by the two handlers that leave them open, and agrees with them unless handlers disputed the outcome (`BooksFollowRecord`); a resumed replay has done all its work, a succeeded execution has its record (`DoneIsDone`), and a late result does not overwrite it. A probe's token lets one dispatch through (`OneProbe`), recoveries are earned (`RecoveryIsEarned`), retries are counted (`RetryBudget`) |
| `services` | one component of seven in each behaviour, see below | webhooks and mails: one open attempt, answers within their windows, a stopped subscription is quiet, what is sent was accepted, every mail settles or is tried again and again; search: no change that fired a trigger is lost (`StaleIsQueued`), and the index settles; points: the balance is explained; sessions: one live token, reuse ends a session; linking: a way to sign in remains; data rights: one live deletion |
| `task_escrow_twice`, `job_cancel_stuck`, `event_late_failure`, `generation_uncharged`, `notification_unsent`, `deletion_cancelled` | small instances of the same modules | the disagreements below |

`MCServices` instantiates the seven modules that share no state. `part` names the component
that moves; the others rest, since their interleaving with it would add states and no behaviour
of either. In an initial state the resting ones are given one value of what they would choose,
so that fairness asks nothing of them. `MCCreativeGeneration` does the same with the
generation, the control of its dispatch and the retries of its status reads.

Why the bounds are enough to be interesting:

* two creators and two requests are what it takes for a submission by another than the
  assignee, and for two decisions on one submission; the third submission is the one that
  follows a change request and a dispute that was rejected;
* two runs make a claimer that loses one candidate and takes another, two attempts and one
  retry a run that is dead-lettered, retried and dead-lettered again;
* three runs make a second process that finds another run while the first still tracks its
  own, and a lease of two ticks one that is renewed in its last tick and one that is not;
* two events make a gap, an overtaking and a compensation of the first after the second;
  two faults suffice for a lease outrun while its successor crashes;
* two handlers make a claim of a replay that is taken over, two requests a repetition that
  meets the first at any point, one fault a crash, a failing call or a lease outrun.
  `AtMostTwo` lets every two of the five meet in every order and no three at once; `FewEvents`
  has three notices in a behaviour, or two and a fault.
  Callbacks and polls differ in their keys and in how late they come; the run has
  callbacks, which may be arbitrarily late, the deadline of the polls and the poll that
  tells of a completion without outputs;
* six versions of a circuit are an opening by an incident, a half-open period with its probe
  claimed, another opening and another half-open period, so that a claim from the first meets
  the token of the second, or an opening by two failures, a half-open period, its success and
  its end; one pending recovery at a time meets every change of its row and may name any of
  these versions, and three versions of the switch are off and on again, or off for another
  reason. `FewVersions` has the later versions of the circuit with fewer of the switch;
* two pollers and three reads make a failure counted against a stale read, an exhausted budget
  and a success that clears a newer failure;
* two workers on one webhook delivery make a takeover with the first one's answer still to
  come; five claims are a window of two, a takeover, and a replay's second window; two
  switches are off and on again between a read and a claim;
* two mailers on one mail with two attempts and a fault make a lease outrun and throws on top of
  exhausted attempts; one order is a retry, an erasure or a new configuration under way. Five
  claims are one more than those four can come to without a throw. Two mails without faults and
  orders (`part` is `mails` there) make a throw that drops the claim of the other mail;
* two indexers, two changes and a mishap make a change under a claim and one under its
  repetition, with a trigger or without, and a claim released under its holder;
* three operations, two scans, one drift and two reviewers make a torn scan, a repair that is
  overtaken by an operation, and two reviewers who approve the same repair;
* three tokens make a rotation of a rotated session, two logins a revocation of all against
  one in creation, two orders a suspension and its restoration around a login;
* two users, two identities and two flows make a callback against an unlinking of the other
  method, and two callbacks for one identity; one change of the control falls anywhere;
* three requests, of which two are accepted in thirty days, three backup classes and two older
  marks make a deletion that is demanded, cancelled by the other way, and demanded again, within
  the thirty days or after them, when the first one is due and still open.

Bounds in guards: `MaxSubs`, `MaxRetries`, `MaxEvents`, `MaxFaults`, `MaxOrders` (of
`DomainEvents` and `AccountSessions`), `MaxClaims`, `MaxSwitches`, `MailFaults`, `MailOrders`,
`MailClaims`, `Demands`, `MaxChanges`, `MaxRebuilds`, `MaxMishaps`, `MaxScans`, `MaxDrifts`,
`MaxTokens`, `MaxControls`, `MaxMarks`, `ControlVersions`, `CircuitVersions`, `MaxPending`,
`RetryVersions`, and the constraints `AtMostTwo`, `FewEvents` and `FewVersions`; the other
constants are the program's own (`MaxAttempts`, `MailAttempts`, `TTL`, `Threshold`, `MaxReads`,
and `MaxRecent`, which is three in the program). `CHECK_DEADLOCK FALSE` appears where the system
really may stop: a task that is closed and archived, a finite number of events or changes that are
all settled, an account that is deleted. Symmetry permutes creators, requests and administrators,
runs and workers, in runs without liveness only.

`SettledByStatus` and `TerminalStays` pass with one administrator and fail with two whose
decisions on disputes overlap: the second of them writes the task by id and can reopen it (see
below). `TaskSettledByStatus` and `TaskTerminalStays` prove both for any number of
administrators whose decisions do not overlap. That the assignee is chosen once, and that all
work is the assignee's, needs no such proviso.

## Fairness

* `DomainEvents!FairSpec`: weak fairness of the backfill, of claiming and ending a
  publication and of claiming and ending a consumption, for each event. The interval job
  runs the pipeline again and again, claims whatever is due, and a lease that is lost
  can be taken over, so each of these steps is taken if it stays possible. No fairness is
  assumed of faults, administrators or compensations; ending a consumption covers
  success, failure and loss of the worker together, so no outcome is promised.
* `NotificationDeliveries!MailFairness`: claiming a mail, going on with a round that has
  begun, and the lapse of a lease that nobody holds. The interval job calls the worker again
  and again, and time passes. A round goes on by an answer or by a throw; which of them is left open,
  so a behaviour in which each send throws is fair. Nothing is assumed of the relay's answer, of
  crashes or administrators.
* `SearchIndex!SearchFairness`: an indexer that can take a step of `processQueue` takes one,
  and a claim that nobody works on is released, which `processQueue` does when it is called
  five minutes later. Nothing is assumed of changes, failures or crashes, nor that a change
  without a trigger is ever followed by one that has it.
* `JobRuntime!FairSpec` (used by `job_cancel_stuck` only, where stronger fairness makes the
  finding stronger): claimers keep claiming, a claimed attempt is closed in one of its three
  ways, the sweep runs, backoff elapses.

## Proofs

The proofs hold for every value of the constants, under the assumptions that the modules
name: bounds are natural numbers, attempts, submissions, tokens and the lease time positive;
`None`, `Unset` and `Absent` are no user, run, worker, delivery or amount; identities, replay
keys and point operations are finite sets, since rows are counted or summed over them; amounts
are integers. Every invariant and every action property that a passing run checks is a theorem;
the exceptions are under *What is only model-checked*.

| theorem | says | inductive invariant |
| --- | --- | --- |
| `TaskTypeCorrect`, `TaskWorkIsAssignees`, `TaskAssigneeStays` | rows keep their shape; only the assignee has submissions; an accepted proposal is the assignee's; the assignee never changes | `TypeOK /\ AssigneeDelivers /\ AcceptedIsAssignee`. `SubmitWrite` makes its creator the assignee when there is none, so that nobody else has submissions before is what keeps the first part; the last theorem follows because each assignment is guarded by "no assignee" or writes the same one |
| `TaskSettledByStatus`, `TaskTerminalStays`, `TaskEscrowLeavesOnceUnlessUpheld`, `TaskOneAdministrator` | the points follow the task's status, closed tasks stay closed, and points leave escrow once unless a dispute was rejected, provided two administrators do not decide at the same time (`OneDecides`); with one administrator that is always so | `PointsInv`: escrow entries exist from creation on (`EscrowOpened`), what is under review is somebody's (`WorkAssigned`), one submission at most is disputed, and then its task is (`DisputedTask`), and the decision in hand is about an open review and, once begun, a disputed submission (`OpenAtDesk`). It follows that a decision writes a task that is still disputed, so it can neither reopen a closed task nor release what is paid. `OpenAtDesk` is what a second administrator breaks. `ReleasedWhy` adds that only a closed task or a rejected dispute gives points back |
| `JobTypeCorrect`, `JobOneLiveAttempt`, `JobAttemptBudget`, `JobNoRevival` | one live attempt of a run; attempts within `MaxAttempts` plus retries; final runs stay, and a run that is to be cancelled is not started | `TypeOK`, `LiveIsLast` (a live attempt is the newest), `IdleHasNoLive` (a run that can be claimed has none), `AttemptBudget`, `BudgetLeft` (a claimable run has budget). A stale snapshot is harmless because the take compares status and count again |
| `JobRunsMatchAttempts` | a running run has a live attempt, a succeeded one ended with its last | `Agree` on top of the former: the sweep, whose statements are two, closes the attempts of a run it has selected and then the run |
| `WorkerHandlersExclude` | at most one handler whose lease has not run out | `Shape` and `HandlersExclude` itself, which says that such a handler is the owner of a lease with time left; the job runtime's part of the state is not needed |
| `WorkerTrackedIsOwn` | the run a process tracks runs under its attempt alone | `TInv`: the job tables have their types, and each tracking process's run is running under its attempt and tracked by nobody else. Only ticks claim runs here, and a claim takes what is not running |
| `EventsTypeCorrect`, `EventsCompensatedWasApplied`, `EventsImplementOrder` | every behaviour of `DomainEvents` is one of `OrderedEffects` | `TypeOK` and `Chain`: effects are the numbers up to the cursor, what is received was emitted, what succeeded or is compensated lies behind the cursor. `Succeed` compares with the cursor and with the lease token, so it applies the next effect |
| `EventsCursorIsExact` | one success per event once the cursor has passed it, none before; later events wait | `Exact`: the above, and an event in process has its newest attempt open, so that success closes it; a late failure closes an open attempt or nothing |
| `WebhookTypeCorrect`, `WebhookOneOpenAttempt`, `WebhookStoppedIsQuiet`, `WebhookAnswersWithinWindows` | a delivery has an open attempt exactly while it is processing; a stopped subscription has no live delivery; recorded answers fit in the windows of the receipt and the replays | `WebhookInv`: the first two, with what links a worker's candidates to the rows (a candidate whose version still is the row's was not written since), and `RoomIsLeft`: the answers so far and all that the row's maximum still allows fit in its windows, so a replay may raise the maximum by what its key adds |
| `MailTypeCorrect`, `MailRecordHolds` | the same of mails; a mail marked sent was accepted under that very attempt | `MailInv`: with what a round holds: the answer "sent" in hand means that the relay has accepted the first claim |
| `SearchTypeCorrect`, `SearchStaleIsQueued` | a document that misses a change which fired a trigger has a queue entry, unless an overtaken indexer was the last to touch the two | `SearchInv`: what an indexer has read, and what it has written, is current as long as the entry is claimed or gone and nobody has claimed it since (`ReadIsCurrent`); so the removal of an entry by an indexer that was not overtaken leaves a current document |
| `SessionTypeCorrect`, `SessionOneLiveToken`, `SessionReuseEnds` | one live token; reuse ends the session for good | `SessionInv`: for each session, all tokens but the newest are revoked, a revoked session has none, a reused one is compromised |
| `LinkTypeCorrect`, `LinkSignInRemains` | an account that exists has a way to sign in, a deleted one has none | `LinkInv`: `MethodsFollow`, the property with "there is a method" instead of the number of methods (`MethodsCount` says what the comparisons of the number mean), and `ExchangedKnows`: a callback past its exchange has an identity, so completing it links something |
| `RightsTypeCorrect`, `RightsOneLiveDeletion` | an account is deleted exactly when a deletion was processed; of two deletions that are open or processed the earlier one was older than thirty days, and had lost its mark, before the later one was made | `RightsInv`: types and `LiveDeletions`: with the property, requests are made in their order, and an open deletion of an account without its mark is in `outlived`. The mark refuses a new deletion as long as it is there, `RecentDemands` as long as the open one is recent |
| `PointTypeCorrect`, `PointBalanceIsExplained` | the balance is the opening balance, each operation once, one compensation and what was written beside them | `PointInv`: types, nothing has touched an account that is not open (`Unopened`), a reviewer who compensates has seen the account (`AccountSeen`), and the property. A step adds one operation to the set that is summed, and the sum does not depend on the order |
| `ServicesComponents`, `ServicesTypeCorrect` | a behaviour of `MCServices` is, for each component, a behaviour of it; so all theorems of the seven hold of the run | `part` chooses the component that moves, the others stutter |
| `GenerationTypeCorrect`, `GenerationDispatchedOnce`, `GenerationSettledHasOutputs`, `GenerationBooksFollowRecord`, `GenerationDoneIsDone`, `GenerationAppliedStays`, `GenerationReservationsCloseOnce` | one dispatch per key; credits settled only with outputs; the ledgers follow the record, but for the two handlers that leave them open; what is marked done is done and stays so; a reservation is closed once | `GenerationInv`, see below |
| `GenerationComponents`, `GenerationPartsTypeCorrect` | a behaviour of `MCCreativeGeneration` is one of each of its three parts | |
| `ControlTypeCorrect`, `ControlOneProbe` | a probe's token lets one dispatch through | `ControlInv`: no token is newer than the circuit's version (`TokensAreIssued`), the circuit's own is unspent, and a claimed one has one holder, who has not been sent (`TokensAreSpentOnce`) |
| `ControlRecoveryIsEarned` | a scope or a circuit recovers only on a request that nothing has overtaken or that named a version to come, and a circuit closes only with a success in sight, or half opened for a reason that claimed one | `RequestsAreDated` on top: a request for the version that its row has, unless it was made ahead, still stands, and a circuit that shows a success has seen one or was half opened for that reason |
| `RetryTypeCorrect`, `RetryKeepsBudget` | a scheduled retry has counted every failure since the last success, and they are fewer than allowed | `RetryInv`: the row's attempts are the failures (`AttemptsCounted`), and a version stands for one state of the row (`VersionTells`), so that who writes has decided on what is there |

Two arguments are of more than one line.

**The generation.** Requests, handlers and cancellations in progress are sequences of calls, any
number at once, each of which may crash, throw or be overtaken at any call. A proof by cases of
what is left of each sequence would be a proof of the interleavings. Instead `Rank` numbers the
calls in the order in which every handler makes them, `Ordered` says that a sequence follows it,
and `FirstCall` and `JoinScripts` reduce a sequence to its set of calls: the first call is the one
of the lowest rank. `GenerationInv` then says of each set of calls

* in progress, what must hold for it to go on (`Fits`): who is to settle the credits has the
  outputs stored or is to store them before; who is to close the record is to close the
  reservations before, or they are closed; and the outcome it works towards is among those
  `decided`;
* made, what they leave behind (`Shows`): a claim of a replay that takes over skips what its
  predecessors have made because it shows;

of a notice in hand, that a completion, with outputs or without, is what the job ended with
(`Told`; a job only moves `Onward`), so that nobody settles or commits for a job whose completion
came without outputs; and that one request at most gets past the claim of the key (`OneAtWork`),
and what the ledgers imply (`BooksRow`, `ReplayRow`). All of it is about facts that only grow
(`Grows`: stored, closed, decided), so that what a handler relies on is not taken back by another:
a step needs a look at its own sequence only. `GenerationAppliedStays` and
`GenerationReservationsCloseOnce` are step properties under the same invariant.

**Sums.** `AmountOf` sums over a finite set by choosing an element, so what it computes is an
induction over the set. Facts with an operator as their parameter are out of the prover's reach,
so the induction is a smallest counterexample (`LeastNumber`, `LeastSet`, from the library's
`WFMin`, whose parameters are sets): if there were sizes up to which no function satisfies the
recursion, or sets whose sum depends on which element is taken first, there would be a smallest
one, which one step refutes (`SumsExist`, `AmountOfAny`). `AmountOfOneMore` is what the steps use.

## Where the code and its documents disagree

1. **The reward can leave escrow twice** (`task_escrow_twice`, `EscrowLeavesOnce`).
   `tasks.submit` checks the dispute in the task that it read before its transaction
   (`prismaRepository.js:3417`), not in its compare-and-set. A dispute rejected between the
   two releases the escrow; the submission is recorded and can be approved and paid.
   `docs/V1_64_TASK_MARKETPLACE_LIFECYCLE.md:11` promises a release exactly once. No race is
   needed either: `createDispute` takes a rejected submission while a newer one is pending; if
   the newer one goes stale meanwhile and is disputed after the first dispute was rejected, an
   approval of that dispute reopens a task whose escrow is gone. A rejected dispute is part of
   every way to it (`TaskEscrowLeavesOnceUnlessUpheld`).
2. **A cancellation requested on a run that then fails never finishes** (`job_cancel_stuck`,
   `CancelRequestFinishes`). The failure schedules a retry (`prismaJobRepository.js:157`),
   claims skip runs whose cancellation is requested, and nothing else closes the run.
   `docs/API_DESIGN.md:71` expects it to finish.
3. **A late failure reverts an applied event** (`event_late_failure`, `AppliedIsTerminal`).
   `fail` reads the token and then updates by id
   (`prismaDomainEventConsumerRepository.js:150`); the row becomes `retry_scheduled` behind
   the cursor, where no claim reaches it. The effect itself stays applied once:
   `CursorIsExact` and `EffectsInOrder` still hold.
4. **A generation can be completed and not charged** (`generation_uncharged`,
   `CompletedIsCharged`). A cancellation that runs while the request stores the outputs
   refunds the credits; `settle` returns the refunded row, the request takes it for settled
   (`modules/creative/routes.js:541`) and completes the generation.
   `docs/CREATIVE_ACCOUNTING_POLICY.md:18` settles every persisted completed output.
5. **A mail whose sending throws is tried for ever** (`notification_unsent`,
   `ExhaustedIsDead`). The claim of a lapsed lease does not compare `attemptCount` with
   `maxAttempts` (`prismaNotificationDeliveryRepository.js:141`), and a throw leaves the
   delivery `processing`. The built-in client always throws here: it reads `delivery.id` of
   its argument (`notificationDeliveries.js:390`), and the worker passes the claim.
   `docs/NOTIFICATION_DELIVERY_OPERATIONS.md:19` dead-letters exhausted retries. This is why the
   model does not bound throws, and why `MailSettles` allows a mail that is claimed for ever.
6. **A deletion cancelled through the profile is carried out** (`deletion_cancelled`,
   `CancelledIsKept`). `cancelDeletion` takes the mark away (`prismaRepository.js:4605`) and
   leaves the data rights request active, which `process` carries out without a look at the
   mark. `docs/DATA_RIGHTS_LIFECYCLE.md:13` gives a window of thirty days to cancel. It also makes
   way for a second deletion: after thirty days `create` no longer sees the open one
   (`prismaDataRightsRepository.js:197`), and the second may be processed after the first, on an
   account that is deleted (`OneLiveDeletion` says that this is the only way to two).

Seen while modelling, and not stated by a run:

* Two administrators who decide on one dispute: the decision is checked before the
  transaction and the task is written by id (`prismaRepository.js:10322`), so the second
  can reopen a closed task, which `docs/TASK_LIFECYCLE_RECOVERY.md:11` calls terminal. A
  submission that is disputed a second time keeps the decided review of the first dispute,
  and no open one.
* With Prisma a cancellation never closes the generation: its patch names `reasonCode`
  (`generationMutationService.js:209`), which the model `CreativeGeneration` does not have, so
  the update is refused after the credits were refunded and the quota released. A `running`
  notice is rejected each time it comes, for the same reason.
* A process that dies with a tracked run leaves it `running`, since nothing calls
  `sweepTimeouts`; each tick enqueues a run and claims one, so runs that are left behind are
  worked off only by ticks that find their own already claimed; `enqueueDueCron` has no caller.
* An expired lease of a consumption is taken over without a look at `maxAttempts`, so attempts
  that crash are not bounded.
* The provider is called before credits are reserved, so a job whose credits are refused runs
  without a record. A request's `markRunning` can reopen a generation that the polling
  deadline has failed, and the deadline's key is then used up. A repeated request can turn an
  execution that just succeeded into one that requires recovery, since it writes by id.
  Reservations of a generation cancelled with a confirmed charge stay reserved, and so do those
  of a generation that a poll finds completed without outputs: the record says completed, and its
  replay is applied with `complete` alone (`providerLifecycleReplay.js:17`).
* A suspension that falls between the check of a password and the creation of the session
  leaves a session that the suspension has not revoked
  (`docs/USER_ADMIN_OPERATIONS.md:13`); its refresh token is refused until the account is
  restored.
* The reconciliation scan reads the ledger and the accounts in separate statements and may
  report an account that is right; approving its repair then moves points. The review's id is
  the issue's, so a repair that was rejected once cannot be requested again.
* Two indexers that overlap on a resource can leave a stale document with an empty queue: the
  one that read first writes last, and `finish` does not compare who made the claim.
* A profile's handle is shown by the documents of its owner's tasks, posts and assets, and its
  change enqueues the user and the portfolio only (migration 0088, lines 136 to 139). The others
  show the old handle until the next change, or a rebuild, enqueues them.
* `requestRecovery` stores whatever version its caller names (`prismaRepository.js:6611`), so a
  recovery can be requested for the version that the next disabling or failure will produce, and
  is approved then. `reviewRecovery` writes the operator's reason code into the circuit
  (`prismaRepository.js:6717`), and takes the reason `probe_succeeded_pending_recovery` for the
  success of a probe (`prismaRepository.js:6707`): a circuit half opened for that reason can be
  closed without one. `RecoveryIsEarned` names both ways around and holds beside them.
* A provider that is switched off between a callback's check of the control and its
  completion still logs in.
* A circuit closes after "durable successful probe evidence"
  (`docs/V1_PROVIDER_CONTROL_PLANE.md:38`), but `recordCircuitEvent` takes any success while the
  circuit is half open (`prismaRepository.js:6468`), also one of a dispatch that was sent before
  the circuit opened. No caller passes a probe's token, and the route that approves a half-open
  period answers only that there is one (`modules/admin/routes.js:851`), so in the program as it
  is such late successes are the only ones.
* A dispatch that claimed its token in one half-open period and reads the circuit again
  (`prismaRepository.js:6585`) after it opened and was half opened anew is let through, beside
  the probe of the new period; this is why `OneProbe` counts by token. A request that the kill
  switch or the cap refuses has used up the token all the same.
* A poll that succeeded clears the retry row also of a failure that is newer than it, since
  `clearProviderRetryState` reads the row again after a conflict.
* The archive of an export is written before the transaction, and again by a second call of
  `process` even when that call is refused; the stored checksum is of the compact JSON, the
  file is pretty-printed.

## What is only model-checked, and what is left out

Only model-checked: liveness (`EventSettles`, `MailSettles`, `IndexSettles`), which needs
`ENABLED`, and the refutations by the runs that expect a violation. `SettledByStatus` and
`TerminalStays` are proved under the proviso `OneDecides` and false without it. What a
component does is composed with another in `IntervalWorker` and in the two compositions of
the MC modules only; nothing is proved of, for example, a webhook whose event comes from
`DomainEvents`. The modules have no recursive operator; `AmountOf` is a recursive function.

Left out of the modelled components: the order in which claims prefer rows; Prisma's time
limit for interactive transactions; clocks that differ between processes; what the
`PROJECT.json` entry of each component names (signing secrets, preferences, amounts and
windows of quotas, billing policy, roles, the contents of exports). The other components of
the inventory are not modelled; `PROJECT.json` gives the reason for each (generated
contracts, the front end, scripts and schema hold no state of their own at run time).

## Plan

Next, in this order:

1. `MediaScan`; `ConfigChange`; chat
   streams; moderation cases and appeals; the login monitor's counters.
2. Proofs: the escrow entry of `TaskMarketplace` as a refinement of an abstract ledger entry
   that is held, then released or settled, under `OneDecides`; the delivery queues as
   refinements of one abstract lease table.
3. The users of `PointAccount`'s operations as its clients: the escrow of `TaskMarketplace` as
   a refinement of it.
