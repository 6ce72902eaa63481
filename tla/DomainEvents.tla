---------------------------- MODULE DomainEvents ----------------------------
(***************************************************************************)
(* The transactional outbox and the registered consumer of domain events,  *)
(* for one aggregate (rows of two aggregates never meet) and the one       *)
(* consumer of the registry: the publication row, the inbox receipt and    *)
(* its consumption, the attempts, the order cursor and the compensation.   *)
(*                                                                         *)
(* A lease is known by its attempt number, which grows with every claim.   *)
(* Leases are not timed: one whose holder is gone can always be claimed    *)
(* again, one whose holder is only slow as a fault.  A call whose guarded  *)
(* writes check again all that it read is one step; fail and the two ends  *)
(* of a compensation write rows by their id and are split.                 *)
(***************************************************************************)
EXTENDS Integers, Sequences

CONSTANTS MaxEvents,    \* bound: events of the aggregate
          MaxAttempts,  \* attempts that the consumer registry allows
          MaxFaults,    \* bound: crashes, failures and leases outrun
          MaxOrders     \* bound: administrator calls

ASSUME BoundsAssumption ==
  /\ MaxEvents \in Nat /\ MaxAttempts \in Nat \ {0}
  /\ MaxFaults \in Nat /\ MaxOrders \in Nat

VARIABLES emitted,     \* events written to the outbox, numbered from 1
          enabled,     \* the consumer is enabled in the registry
          publication, \* each event's publication row
          inbox,       \* each event's consumption row, "absent" without receipt
          attempt,     \* status of each consumption attempt
          cursor,      \* lastSequence of the consumer's cursor
          effects,     \* events whose handler committed, oldest first
          comp,        \* status of each event's compensation
          compAttempt, \* status of each compensation attempt
          undone,      \* events whose compensation handler committed
          publishing,  \* publications under way
          running,     \* consumptions under way
          undoing,     \* compensations under way
          faults, orders

outbox == <<emitted, enabled, publication, publishing>>
consumption == <<inbox, attempt, cursor, effects, running>>
compensation == <<comp, compAttempt, undone, undoing>>
vars == <<outbox, consumption, compensation, faults, orders>>

Events == 1..MaxEvents
PublicationRow == [status : {"absent", "pending", "claimed", "published", "failed"},
                   tries : Nat]
ConsumptionRow == [status : {"absent", "pending", "processing", "retry_scheduled",
                             "succeeded", "dead_lettered", "compensation_pending",
                             "compensated", "compensation_failed"},
                   max : Nat]
AttemptStatuses == {"running", "succeeded", "failed"}
Lease(stages) == [event : Events, token : Nat, stage : stages]

TypeOK ==
  /\ emitted \in 0..MaxEvents
  /\ enabled \in BOOLEAN
  /\ publication \in [Events -> PublicationRow]
  /\ inbox \in [Events -> ConsumptionRow]
  /\ attempt \in [Events -> Seq(AttemptStatuses)]
  /\ cursor \in 0..MaxEvents
  /\ effects \in Seq(Events)
  /\ comp \in [Events -> {"none", "pending", "processing", "succeeded", "failed"}]
  /\ compAttempt \in [Events -> Seq(AttemptStatuses)]
  /\ undone \in SUBSET Events
  /\ publishing \in SUBSET Lease({"working", "received"})
  /\ running \in SUBSET Lease({"working", "failing", "burying"})
  /\ undoing \in SUBSET Lease({"working", "succeeding", "failing"})
  /\ faults \in 0..MaxFaults
  /\ orders \in 0..MaxOrders

Init ==
  /\ emitted = 0
  /\ enabled \in BOOLEAN
  /\ publication = [e \in Events |-> [status |-> "absent", tries |-> 0]]
  /\ inbox = [e \in Events |-> [status |-> "absent", max |-> MaxAttempts]]
  /\ attempt = [e \in Events |-> <<>>]
  /\ cursor = 0 /\ effects = <<>>
  /\ comp = [e \in Events |-> "none"]
  /\ compAttempt = [e \in Events |-> <<>>]
  /\ undone = {}
  /\ publishing = {} /\ running = {} /\ undoing = {}
  /\ faults = 0 /\ orders = 0

-----------------------------------------------------------------------------
Working(e, k) == [event |-> e, token |-> k, stage |-> "working"]
HeldBy(leases, e, k) == \E l \in leases : l.event = e /\ l.token = k

Fault == faults < MaxFaults /\ faults' = faults + 1

\* The holder of lease k is gone, or is slower than the lease.
LeaseRunsOut(leases, e, k) ==
  IF HeldBy(leases, e, k) THEN Fault ELSE UNCHANGED faults

\* Faulty variant: an attempt status the schema does not know.
NextAttemptExpired(rows, expired) ==
  Append([i \in DOMAIN rows |->
            IF expired /\ rows[i] = "running" THEN "expired" ELSE rows[i]], "running")

\* The running attempts are closed as expired and a new one begins.
NextAttempt(rows, expired) ==
  Append([i \in DOMAIN rows |->
            IF expired /\ rows[i] = "running" THEN "failed" ELSE rows[i]], "running")

\* The open attempt that holds the token is closed; a closed one stays.
CloseAttempt(rows, k, status) ==
  IF rows[k] = "running" THEN [rows EXCEPT ![k] = status] ELSE rows

-----------------------------------------------------------------------------
(* Outbox *)

\* The next sequence number is taken under the lock of the aggregate's row,
\* in the transaction of the fact.
Enqueue ==
  /\ emitted < MaxEvents
  /\ emitted' = emitted + 1
  /\ publication' = [publication EXCEPT ![emitted + 1].status = "pending"]
  /\ UNCHANGED <<enabled, publishing, consumption, compensation, faults, orders>>

\* A release enables the consumer.
EnableConsumer ==
  /\ ~enabled
  /\ enabled' = TRUE
  /\ UNCHANGED <<emitted, publication, publishing, consumption, compensation, faults, orders>>

\* Faulty variant: the publication of a worker that died is not taken over.
ClaimPublicationOnce(e) ==
  LET row == publication[e]
      k == row.tries + 1
  IN  /\ row.status \in {"pending", "failed"}
      /\ publication' = [publication EXCEPT ![e] = [status |-> "claimed", tries |-> k]]
      /\ publishing' = publishing \cup {Working(e, k)}
      /\ UNCHANGED <<emitted, enabled, consumption, compensation, faults, orders>>

ClaimPublication(e) ==
  LET row == publication[e]
      k == row.tries + 1
  IN  /\ \/ row.status \in {"pending", "failed"} /\ UNCHANGED faults
         \/ row.status = "claimed" /\ LeaseRunsOut(publishing, e, row.tries)
      /\ publication' = [publication EXCEPT ![e] = [status |-> "claimed", tries |-> k]]
      /\ publishing' = publishing \cup {Working(e, k)}
      /\ UNCHANGED <<emitted, enabled, consumption, compensation, orders>>

\* consumersForEvent: a receipt for the enabled consumer, unless there is one.
Received(e) ==
  inbox' = IF enabled /\ inbox[e].status = "absent"
             THEN [inbox EXCEPT ![e].status = "pending"] ELSE inbox

\* publishDomainEventBatch: the receipt is committed before the mark; a mark
\* with a token that is not the row's finds no row.
Publish(l) ==
  /\ l.stage = "working"
  /\ Received(l.event)
  /\ publishing' = (publishing \ {l}) \cup {[l EXCEPT !.stage = "received"]}
  /\ UNCHANGED <<emitted, enabled, publication, attempt, cursor, effects, running,
                 compensation, faults, orders>>

Mark(l, status) ==
  /\ publishing' = publishing \ {l}
  /\ publication' =
       IF publication[l.event] = [status |-> "claimed", tries |-> l.token]
         THEN [publication EXCEPT ![l.event].status = status] ELSE publication
  /\ UNCHANGED <<emitted, enabled, consumption, compensation, orders>>

MarkPublished(l) == l.stage = "received" /\ Mark(l, "published") /\ UNCHANGED faults

\* The publisher throws, before or after the receipt.
MarkFailed(l) == Mark(l, "failed") /\ Fault

Replay(e) ==
  /\ orders < MaxOrders
  /\ publication[e].status \in {"published", "failed"}
  /\ publication' = [publication EXCEPT ![e].status = "pending"]
  /\ orders' = orders + 1
  /\ UNCHANGED <<emitted, enabled, publishing, consumption, compensation, faults>>

\* backfillPublished: published while the consumer was not enabled.
Backfill(e) ==
  /\ enabled
  /\ publication[e].status = "published"
  /\ inbox[e].status = "absent"
  /\ Received(e)
  /\ UNCHANGED <<outbox, attempt, cursor, effects, running, compensation, faults, orders>>

-----------------------------------------------------------------------------
(* Consumption *)

\* The cursor check of claim, and the compare-and-set of succeed.
IsNext(e) == e = cursor + 1

Claim(e) ==
  LET tokens == Len(attempt[e])
  IN  /\ enabled /\ IsNext(e)
      /\ \/ inbox[e].status \in {"pending", "retry_scheduled"} /\ UNCHANGED faults
         \/ inbox[e].status = "processing" /\ LeaseRunsOut(running, e, tokens)
      /\ inbox' = [inbox EXCEPT ![e].status = "processing"]
      /\ attempt' = [attempt EXCEPT
           ![e] = NextAttempt(@, inbox[e].status = "processing")]
      /\ running' = running \cup {Working(e, tokens + 1)}
      /\ UNCHANGED <<outbox, cursor, effects, compensation, orders>>

\* Faulty variant: any lease of the event will do.
HoldsAny(l) == inbox[l.event].status = "processing"

\* The row is processing under this token.
Holds(l) ==
  /\ inbox[l.event].status = "processing"
  /\ Len(attempt[l.event]) = l.token

\* Effect, cursor, attempt and state commit together.
Succeed(l) ==
  /\ l.stage = "working"
  /\ Holds(l) /\ IsNext(l.event)
  /\ effects' = Append(effects, l.event)
  /\ cursor' = l.event
  /\ attempt' = [attempt EXCEPT ![l.event] = CloseAttempt(@, l.token, "succeeded")]
  /\ inbox' = [inbox EXCEPT ![l.event].status = "succeeded"]
  /\ running' = running \ {l}
  /\ UNCHANGED <<outbox, compensation, faults, orders>>

\* The handler throws; fail reads the row, and whether it is exhausted.
FailRead(l) ==
  /\ l.stage = "working"
  /\ Holds(l)
  /\ Fault
  /\ running' = (running \ {l}) \cup
       {[l EXCEPT !.stage = IF l.token >= inbox[l.event].max THEN "burying" ELSE "failing"]}
  /\ UNCHANGED <<outbox, inbox, attempt, cursor, effects, compensation, orders>>

\* Faulty variant: a dead letter is skipped.
FailWriteSkips(l) ==
  /\ l.stage \in {"failing", "burying"}
  /\ attempt' = [attempt EXCEPT ![l.event] = CloseAttempt(@, l.token, "failed")]
  /\ inbox' = [inbox EXCEPT ![l.event].status =
                 IF l.stage = "burying" THEN "dead_lettered" ELSE "retry_scheduled"]
  /\ cursor' = IF l.stage = "burying" THEN l.event ELSE cursor
  /\ running' = running \ {l}
  /\ UNCHANGED <<outbox, effects, compensation, faults, orders>>

\* Then it writes the consumption by its id.
FailWrite(l) ==
  /\ l.stage \in {"failing", "burying"}
  /\ attempt' = [attempt EXCEPT ![l.event] = CloseAttempt(@, l.token, "failed")]
  /\ inbox' = [inbox EXCEPT ![l.event].status =
                 IF l.stage = "burying" THEN "dead_lettered" ELSE "retry_scheduled"]
  /\ running' = running \ {l}
  /\ UNCHANGED <<outbox, cursor, effects, compensation, faults, orders>>

\* Both succeed and fail return at once when the token is not the row's.
Drop(l) ==
  /\ l.stage = "working"
  /\ ~Holds(l)
  /\ running' = running \ {l}
  /\ UNCHANGED <<outbox, inbox, attempt, cursor, effects, compensation, faults, orders>>

Retry(e) ==
  /\ orders < MaxOrders
  /\ inbox[e].status = "dead_lettered"
  /\ inbox' = [inbox EXCEPT ![e] = [status |-> "retry_scheduled", max |-> @.max + 1]]
  /\ orders' = orders + 1
  /\ UNCHANGED <<outbox, attempt, cursor, effects, running, compensation, faults>>

-----------------------------------------------------------------------------
(* Compensation *)

\* Faulty variant: a dead letter can be compensated as well.
RequestCompensationOfDead(e) ==
  /\ orders < MaxOrders
  /\ \/ inbox[e].status \in {"succeeded", "dead_lettered"} /\ comp[e] = "none"
     \/ inbox[e].status = "compensation_failed" /\ comp[e] = "failed"
  /\ inbox' = [inbox EXCEPT ![e].status = "compensation_pending"]
  /\ comp' = [comp EXCEPT ![e] = "pending"]
  /\ orders' = orders + 1
  /\ UNCHANGED <<outbox, attempt, cursor, effects, running, compAttempt, undone, undoing,
                 faults>>

RequestCompensation(e) ==
  /\ orders < MaxOrders
  /\ \/ inbox[e].status = "succeeded" /\ comp[e] = "none"
     \/ inbox[e].status = "compensation_failed" /\ comp[e] = "failed"
  /\ inbox' = [inbox EXCEPT ![e].status = "compensation_pending"]
  /\ comp' = [comp EXCEPT ![e] = "pending"]
  /\ orders' = orders + 1
  /\ UNCHANGED <<outbox, attempt, cursor, effects, running, compAttempt, undone, undoing,
                 faults>>

ClaimCompensation(e) ==
  LET tokens == Len(compAttempt[e])
  IN  /\ \/ comp[e] = "pending" /\ UNCHANGED faults
         \/ comp[e] = "processing" /\ LeaseRunsOut(undoing, e, tokens)
      /\ comp' = [comp EXCEPT ![e] = "processing"]
      /\ compAttempt' = [compAttempt EXCEPT ![e] = NextAttempt(@, comp[e] = "processing")]
      /\ undoing' = undoing \cup {Working(e, tokens + 1)}
      /\ UNCHANGED <<outbox, consumption, undone, orders>>

CompHolds(l) ==
  /\ comp[l.event] = "processing"
  /\ Len(compAttempt[l.event]) = l.token

\* succeedCompensation and failCompensation read the token first ...
EndCompensationRead(l, stage) ==
  /\ l.stage = "working"
  /\ CompHolds(l)
  /\ undoing' = (undoing \ {l}) \cup {[l EXCEPT !.stage = stage]}
  /\ IF stage = "failing" THEN Fault ELSE UNCHANGED faults
  /\ UNCHANGED <<outbox, consumption, comp, compAttempt, undone, orders>>

\* ... then close the attempt and write state and consumption by their ids.
SucceedCompensation(l) ==
  /\ l.stage = "succeeding"
  /\ undone' = undone \cup {l.event}
  /\ compAttempt' = [compAttempt EXCEPT ![l.event] = CloseAttempt(@, l.token, "succeeded")]
  /\ comp' = [comp EXCEPT ![l.event] = "succeeded"]
  /\ inbox' = [inbox EXCEPT ![l.event].status = "compensated"]
  /\ undoing' = undoing \ {l}
  /\ UNCHANGED <<outbox, attempt, cursor, effects, running, faults, orders>>

FailCompensation(l) ==
  /\ l.stage = "failing"
  /\ compAttempt' = [compAttempt EXCEPT ![l.event] = CloseAttempt(@, l.token, "failed")]
  /\ comp' = [comp EXCEPT ![l.event] = "failed"]
  /\ inbox' = [inbox EXCEPT ![l.event].status = "compensation_failed"]
  /\ undoing' = undoing \ {l}
  /\ UNCHANGED <<outbox, attempt, cursor, effects, running, undone, faults, orders>>

DropCompensation(l) ==
  /\ l.stage = "working"
  /\ ~CompHolds(l)
  /\ undoing' = undoing \ {l}
  /\ UNCHANGED <<outbox, consumption, comp, compAttempt, undone, faults, orders>>

-----------------------------------------------------------------------------
\* A worker dies; what it had claimed stays claimed, an open transaction is
\* rolled back.
Crash ==
  /\ Fault
  /\ \/ \E l \in publishing : /\ publishing' = publishing \ {l}
                              /\ UNCHANGED <<running, undoing>>
     \/ \E l \in running : running' = running \ {l} /\ UNCHANGED <<publishing, undoing>>
     \/ \E l \in undoing : undoing' = undoing \ {l} /\ UNCHANGED <<publishing, running>>
  /\ UNCHANGED <<emitted, enabled, publication, inbox, attempt, cursor, effects,
                 comp, compAttempt, undone, orders>>

EndPublication(e) ==
  \E l \in publishing : l.event = e /\ (Publish(l) \/ MarkPublished(l) \/ MarkFailed(l))

EndConsumption(e) ==
  \E l \in running :
    l.event = e /\ (Succeed(l) \/ FailRead(l) \/ FailWrite(l) \/ Drop(l))

EndCompensation(e) ==
  \E l \in undoing :
    /\ l.event = e
    /\ \/ \E stage \in {"succeeding", "failing"} : EndCompensationRead(l, stage)
       \/ SucceedCompensation(l) \/ FailCompensation(l) \/ DropCompensation(l)

\* runDomainEventPipelineOnce for one event.
Pipeline(e) ==
  \/ Backfill(e)
  \/ ClaimPublication(e) \/ EndPublication(e)
  \/ Claim(e) \/ EndConsumption(e)
  \/ ClaimCompensation(e) \/ EndCompensation(e)

Administrator(e) == Replay(e) \/ Retry(e) \/ RequestCompensation(e)

Next ==
  \/ Enqueue \/ EnableConsumer \/ Crash
  \/ \E e \in Events : Pipeline(e) \/ Administrator(e)

Spec == Init /\ [][Next]_vars

\* The interval job runs the pipeline again and again.
FairSpec ==
  Spec /\ \A e \in Events :
    /\ WF_vars(Backfill(e)) /\ WF_vars(ClaimPublication(e)) /\ WF_vars(EndPublication(e))
    /\ WF_vars(Claim(e)) /\ WF_vars(EndConsumption(e))

-----------------------------------------------------------------------------
(* Properties *)

Abstract == INSTANCE OrderedEffects
              WITH emitted <- emitted, effects <- effects, undone <- undone

\* The pipeline implements OrderedEffects: with events published, received,
\* claimed, retried and replayed in any order, the effects of an aggregate are
\* applied in sequence and once, and only applied ones are compensated.
EffectsInOrder == Abstract!Spec

\* An event has exactly one successful attempt once the cursor has passed it
\* and none before, however many workers held a lease of it.
OneSuccess ==
  \A e \in Events :
    LET successes == {k \in DOMAIN attempt[e] : attempt[e][k] = "succeeded"}
    IN  IF e <= cursor THEN \E k \in successes : successes = {k} ELSE successes = {}

\* docs/DOMAIN_EVENT_CONSUMERS.md: a failed or dead-lettered sequence blocks
\* later events; they are not even attempted.
LaterWaits == \A e \in Events : attempt[e] # <<>> => e <= cursor + 1

\* The cursor says what was attempted and what succeeded.
CursorIsExact == OneSuccess /\ LaterWaits

\* Only an event whose effect is recorded is in compensation (there is no way
\* around the order, not through requestCompensation either).
CompensatedWasApplied ==
  \A e \in Events :
    comp[e] # "none" \/ inbox[e].status \in {"compensation_pending", "compensated",
                                             "compensation_failed"}
      => e <= cursor

\* Once the consumer is enabled, every event of the outbox is applied or has a
\* dead letter before it, whatever crashed or was replayed on the way.
EventSettles ==
  \A e \in Events :
    enabled /\ e <= emitted
      ~> e <= cursor \/ \E f \in 1..e : inbox[f].status = "dead_lettered"

\* docs/DOMAIN_EVENT_CONSUMERS.md: the cursor advances in the transaction of
\* the effect and the successful terminal state.
AppliedIsTerminal ==
  \A e \in Events :
    e <= cursor => inbox[e].status \in {"succeeded", "compensation_pending", "compensated",
                                        "compensation_failed"}
=============================================================================
