------------------------- MODULE DomainEventsProofs -------------------------
(***************************************************************************)
(* Proof that DomainEvents implements OrderedEffects for any number of     *)
(* events, attempts, faults and administrator calls.                       *)
(*                                                                         *)
(* The inductive invariant follows an event through its rows: nothing is   *)
(* received or leased that is not in the outbox, nothing has succeeded or  *)
(* is compensated that the cursor has not passed, and the effects are the  *)
(* numbers up to the cursor. A second one follows its attempts: they agree *)
(* with the cursor, and an event in process has its newest attempt open.   *)
(***************************************************************************)
EXTENDS DomainEvents, TLAPS

Passed == {"succeeded", "compensation_pending", "compensated", "compensation_failed"}

\* The effects are the numbers up to the cursor, all of them emitted.
EffectsAreCursor ==
  /\ cursor <= emitted
  /\ effects = [i \in 1..cursor |-> i]

\* Rows exist, and leases are held, only for events of the outbox.
FromOutbox ==
  /\ \A e \in Events : publication[e].status # "absent" => e <= emitted
  /\ \A e \in Events : inbox[e].status # "absent" => e <= emitted
  /\ \A l \in publishing : l.event <= emitted
  /\ \A l \in running : l.event <= emitted

\* Success and compensation stay behind the cursor.
BehindCursor ==
  /\ \A e \in Events : inbox[e].status \in Passed => e <= cursor
  /\ \A e \in Events : comp[e] # "none" => e <= cursor
  /\ \A l \in undoing : l.event <= cursor

Chain == EffectsAreCursor /\ FromOutbox /\ BehindCursor

IInv == TypeOK /\ Chain

-----------------------------------------------------------------------------
(* Types *)

\* Taking over and closing attempts keep a sequence of attempts.
LEMMA AttemptRows ==
  ASSUME NEW rows \in Seq(AttemptStatuses)
  PROVE  /\ \A x \in BOOLEAN : NextAttempt(rows, x) \in Seq(AttemptStatuses)
         /\ \A k \in Nat, s \in AttemptStatuses : CloseAttempt(rows, k, s) \in Seq(AttemptStatuses)
         /\ Len(rows) \in Nat
  <1>1. ASSUME NEW x \in BOOLEAN PROVE NextAttempt(rows, x) \in Seq(AttemptStatuses)
    <2> DEFINE closed == [i \in DOMAIN rows |->
                            IF x /\ rows[i] = "running" THEN "failed" ELSE rows[i]]
    <2>1. closed \in [1..Len(rows) -> AttemptStatuses]
      BY DEF AttemptStatuses
    <2>2. closed \in Seq(AttemptStatuses)
      BY <2>1
    <2> QED
      BY <2>2 DEF NextAttempt, AttemptStatuses
  <1>2. ASSUME NEW k \in Nat, NEW s \in AttemptStatuses
        PROVE  CloseAttempt(rows, k, s) \in Seq(AttemptStatuses)
    BY DEF CloseAttempt, AttemptStatuses
  <1> QED
    BY <1>1, <1>2

\* A lease that moves to another stage is the same lease.
LEMMA LeaseStage ==
  ASSUME NEW S, NEW l \in Lease(S), NEW s \in S
  PROVE  /\ [l EXCEPT !.stage = s] \in Lease(S)
         /\ [l EXCEPT !.stage = s].event = l.event
  BY DEF Lease

\* A new lease is at work on its event.
LEMMA NewLease ==
  ASSUME NEW S, "working" \in S, NEW e \in Events, NEW k \in Nat
  PROVE  Working(e, k) \in Lease(S) /\ Working(e, k).event = e
  BY DEF Working, Lease

\* Rows with a new status.
LEMMA RowUpdate ==
  /\ \A r \in ConsumptionRow, s \in {"absent", "pending", "processing", "retry_scheduled",
                                     "succeeded", "dead_lettered", "compensation_pending",
                                     "compensated", "compensation_failed"} :
       [r EXCEPT !.status = s] \in ConsumptionRow
  /\ \A r \in PublicationRow, s \in {"absent", "pending", "claimed", "published", "failed"} :
       [r EXCEPT !.status = s] \in PublicationRow
  BY DEF ConsumptionRow, PublicationRow

\* The initial state has the types.
LEMMA InitType == Init => TypeOK
  <1> SUFFICES ASSUME Init PROVE TypeOK
    OBVIOUS
  <1>1. publication \in [Events -> PublicationRow]
    BY DEF Init, PublicationRow
  <1>2. inbox \in [Events -> ConsumptionRow]
    BY BoundsAssumption DEF Init, ConsumptionRow
  <1>3. attempt \in [Events -> Seq(AttemptStatuses)]
        /\ compAttempt \in [Events -> Seq(AttemptStatuses)]
    BY DEF Init
  <1>4. effects \in Seq(Events)
    BY DEF Init
  <1> QED
    BY <1>1, <1>2, <1>3, <1>4, BoundsAssumption DEF Init, TypeOK, Lease

\* Counting a fault stays within the bound.
LEMMA FaultType ==
  TypeOK /\ (Fault \/ UNCHANGED faults) => faults' \in 0..MaxFaults
  BY BoundsAssumption DEF TypeOK, Fault

\* Every step of the outbox keeps the types.
LEMMA OutboxType ==
  ASSUME TypeOK,
         \/ Enqueue \/ EnableConsumer
         \/ \E e \in Events : Replay(e) \/ Backfill(e) \/ ClaimPublication(e) \/ EndPublication(e)
  PROVE  TypeOK'
  <1>1. CASE Enqueue
    <2>1. publication' \in [Events -> PublicationRow]
      BY <1>1, RowUpdate DEF Enqueue, TypeOK
    <2> QED
      BY <1>1, <2>1, BoundsAssumption DEF Enqueue, TypeOK, consumption, compensation
  <1>2. CASE EnableConsumer
    BY <1>2 DEF EnableConsumer, TypeOK, consumption, compensation
  <1>3. ASSUME NEW e \in Events, Replay(e) PROVE TypeOK'
    <2>1. publication' \in [Events -> PublicationRow]
      BY <1>3, RowUpdate DEF Replay, TypeOK
    <2> QED
      BY <1>3, <2>1, BoundsAssumption DEF Replay, TypeOK, consumption, compensation
  <1>4. ASSUME NEW e \in Events, Received(e) PROVE inbox' \in [Events -> ConsumptionRow]
    BY <1>4, RowUpdate DEF Received, TypeOK
  <1>5. ASSUME NEW e \in Events, Backfill(e) PROVE TypeOK'
    BY <1>5, <1>4 DEF Backfill, TypeOK, outbox, compensation
  <1>6. ASSUME NEW e \in Events, ClaimPublication(e) PROVE TypeOK'
    <2>1. publication[e].tries + 1 \in Nat
      BY DEF TypeOK, PublicationRow
    <2>2. publication' \in [Events -> PublicationRow]
      BY <1>6, <2>1 DEF ClaimPublication, TypeOK, PublicationRow
    <2>3. publishing' \in SUBSET Lease({"working", "received"})
      <3>1. Working(e, publication[e].tries + 1) \in Lease({"working", "received"})
        BY <2>1, NewLease
      <3> QED
        BY <1>6, <3>1 DEF ClaimPublication, TypeOK
    <2>4. faults' \in 0..MaxFaults
      BY <1>6, FaultType DEF ClaimPublication, LeaseRunsOut
    <2> QED
      BY <1>6, <2>2, <2>3, <2>4 DEF ClaimPublication, TypeOK, consumption, compensation
  <1>7. ASSUME NEW e \in Events, EndPublication(e) PROVE TypeOK'
    <2> PICK l \in publishing : l.event = e /\ (Publish(l) \/ MarkPublished(l) \/ MarkFailed(l))
      BY <1>7 DEF EndPublication
    <2>1. l \in Lease({"working", "received"})
      BY DEF TypeOK
    <2>2. CASE Publish(l)
      <3>1. inbox' \in [Events -> ConsumptionRow]
        BY <2>2, <1>4 DEF Publish
      <3>2. publishing' \in SUBSET Lease({"working", "received"})
        <4>1. [l EXCEPT !.stage = "received"] \in Lease({"working", "received"})
          BY <2>1, LeaseStage
        <4> QED
          BY <2>2, <4>1 DEF Publish, TypeOK
      <3> QED
        BY <2>2, <3>1, <3>2 DEF Publish, TypeOK, compensation
    <2>3. ASSUME NEW s \in {"published", "failed"}, Mark(l, s), faults' \in 0..MaxFaults
          PROVE  TypeOK'
      <3>1. publication' \in [Events -> PublicationRow]
        BY <2>3, RowUpdate DEF Mark, TypeOK
      <3> QED
        BY <2>3, <3>1 DEF Mark, TypeOK, consumption, compensation
    <2>4. CASE MarkPublished(l)
      BY <2>3, <2>4, FaultType DEF MarkPublished
    <2>5. CASE MarkFailed(l)
      BY <2>3, <2>5, FaultType DEF MarkFailed
    <2> QED
      BY <2>2, <2>4, <2>5
  <1> QED
    BY <1>1, <1>2, <1>3, <1>5, <1>6, <1>7

\* Every step of the consumption keeps the types.
LEMMA ConsumptionType ==
  ASSUME TypeOK,
         \E e \in Events : Claim(e) \/ EndConsumption(e) \/ Retry(e)
  PROVE  TypeOK'
  <1> DEFINE S == {"working", "failing", "burying"}
  <1>0. /\ \A e \in Events, s \in {"processing", "retry_scheduled", "succeeded", "dead_lettered"} :
             [inbox EXCEPT ![e].status = s] \in [Events -> ConsumptionRow]
        /\ attempt \in [Events -> Seq(AttemptStatuses)]
    BY RowUpdate DEF TypeOK
  <1>1. ASSUME NEW e \in Events, Claim(e) PROVE TypeOK'
    <2>1. inbox' \in [Events -> ConsumptionRow]
      BY <1>0, <1>1 DEF Claim
    <2>2. attempt[e] \in Seq(AttemptStatuses)
      BY <1>0
    <2>3. NextAttempt(attempt[e], inbox[e].status = "processing") \in Seq(AttemptStatuses)
      BY <2>2, AttemptRows
    <2>4. attempt' \in [Events -> Seq(AttemptStatuses)]
      BY <1>0, <1>1, <2>3 DEF Claim
    <2>5. Working(e, Len(attempt[e]) + 1) \in Lease(S)
      BY <2>2, NewLease, AttemptRows
    <2>6. running' \in SUBSET Lease(S)
      BY <1>1, <2>5 DEF Claim, TypeOK
    <2>7. faults' \in 0..MaxFaults
      BY <1>1, FaultType DEF Claim, LeaseRunsOut
    <2> QED
      BY <1>1, <2>1, <2>4, <2>6, <2>7 DEF Claim, TypeOK, outbox, compensation
  <1>2. ASSUME NEW e \in Events, Retry(e) PROVE TypeOK'
    <2>1. inbox[e].max + 1 \in Nat
      BY DEF TypeOK, ConsumptionRow
    <2>2. inbox' \in [Events -> ConsumptionRow]
      BY <1>2, <2>1 DEF Retry, TypeOK, ConsumptionRow
    <2> QED
      BY <1>2, <2>2, BoundsAssumption DEF Retry, TypeOK, outbox, compensation
  <1>3. ASSUME NEW l \in running, NEW s \in AttemptStatuses,
               attempt' = [attempt EXCEPT ![l.event] = CloseAttempt(@, l.token, s)]
        PROVE  attempt' \in [Events -> Seq(AttemptStatuses)]
    <2>1. l.event \in Events /\ l.token \in Nat
      BY DEF TypeOK, Lease
    <2>2. CloseAttempt(attempt[l.event], l.token, s) \in Seq(AttemptStatuses)
      BY <1>0, <2>1, AttemptRows
    <2> QED
      BY <1>0, <1>3, <2>1, <2>2
  <1>4. ASSUME NEW l \in running, Succeed(l) PROVE TypeOK'
    <2>1. l.event \in Events
      BY DEF TypeOK, Lease
    <2>2. attempt' \in [Events -> Seq(AttemptStatuses)]
      BY <1>3, <1>4 DEF Succeed, AttemptStatuses
    <2>3. inbox' \in [Events -> ConsumptionRow]
      BY <1>0, <1>4, <2>1 DEF Succeed
    <2>4. effects' \in Seq(Events) /\ cursor' \in 0..MaxEvents
      BY <1>4, <2>1, BoundsAssumption DEF Succeed, TypeOK, Events
    <2> QED
      BY <1>4, <2>2, <2>3, <2>4 DEF Succeed, TypeOK, outbox, compensation
  <1>5. ASSUME NEW l \in running, FailRead(l) PROVE TypeOK'
    <2>1. \A s \in S : [l EXCEPT !.stage = s] \in Lease(S)
      BY LeaseStage DEF TypeOK
    <2>2. running' \in SUBSET Lease(S)
      BY <1>5, <2>1 DEF FailRead, TypeOK
    <2>3. faults' \in 0..MaxFaults
      BY <1>5, FaultType DEF FailRead
    <2> QED
      BY <1>5, <2>2, <2>3 DEF FailRead, TypeOK, outbox, compensation
  <1>6. ASSUME NEW l \in running, FailWrite(l) PROVE TypeOK'
    <2>1. l.event \in Events
      BY DEF TypeOK, Lease
    <2>2. attempt' \in [Events -> Seq(AttemptStatuses)]
      BY <1>3, <1>6 DEF FailWrite, AttemptStatuses
    <2>3. inbox' \in [Events -> ConsumptionRow]
      BY <1>0, <1>6, <2>1 DEF FailWrite
    <2> QED
      BY <1>6, <2>2, <2>3 DEF FailWrite, TypeOK, outbox, compensation
  <1>7. ASSUME NEW l \in running, Drop(l) PROVE TypeOK'
    BY <1>7 DEF Drop, TypeOK, outbox, compensation
  <1> QED
    BY <1>1, <1>2, <1>4, <1>5, <1>6, <1>7 DEF EndConsumption

\* Every step of a compensation, and a crash, keeps the types.
LEMMA CompensationType ==
  ASSUME TypeOK,
         \/ Crash
         \/ \E e \in Events : RequestCompensation(e) \/ ClaimCompensation(e) \/ EndCompensation(e)
  PROVE  TypeOK'
  <1> DEFINE S == {"working", "succeeding", "failing"}
  <1>0. /\ \A e \in Events, s \in {"compensation_pending", "compensated", "compensation_failed"} :
             [inbox EXCEPT ![e].status = s] \in [Events -> ConsumptionRow]
        /\ compAttempt \in [Events -> Seq(AttemptStatuses)]
    BY RowUpdate DEF TypeOK
  <1>1. CASE Crash
    <2>1. faults' \in 0..MaxFaults
      BY <1>1, FaultType DEF Crash
    <2> QED
      BY <1>1, <2>1 DEF Crash, TypeOK
  <1>2. ASSUME NEW e \in Events, RequestCompensation(e) PROVE TypeOK'
    <2>1. inbox' \in [Events -> ConsumptionRow]
      BY <1>0, <1>2 DEF RequestCompensation
    <2> QED
      BY <1>2, <2>1, BoundsAssumption DEF RequestCompensation, TypeOK, outbox
  <1>3. ASSUME NEW e \in Events, ClaimCompensation(e) PROVE TypeOK'
    <2>1. compAttempt[e] \in Seq(AttemptStatuses)
      BY <1>0
    <2>2. NextAttempt(compAttempt[e], comp[e] = "processing") \in Seq(AttemptStatuses)
      BY <2>1, AttemptRows
    <2>3. compAttempt' \in [Events -> Seq(AttemptStatuses)]
      BY <1>0, <1>3, <2>2 DEF ClaimCompensation
    <2>4. Working(e, Len(compAttempt[e]) + 1) \in Lease(S)
      BY <2>1, NewLease, AttemptRows
    <2>5. undoing' \in SUBSET Lease(S)
      BY <1>3, <2>4 DEF ClaimCompensation, TypeOK
    <2>6. faults' \in 0..MaxFaults
      BY <1>3, FaultType DEF ClaimCompensation, LeaseRunsOut
    <2> QED
      BY <1>3, <2>3, <2>5, <2>6 DEF ClaimCompensation, TypeOK, outbox, consumption
  <1>4. ASSUME NEW l \in undoing, NEW s \in AttemptStatuses,
               compAttempt' = [compAttempt EXCEPT ![l.event] = CloseAttempt(@, l.token, s)]
        PROVE  compAttempt' \in [Events -> Seq(AttemptStatuses)]
    <2>1. l.event \in Events /\ l.token \in Nat
      BY DEF TypeOK, Lease
    <2>2. CloseAttempt(compAttempt[l.event], l.token, s) \in Seq(AttemptStatuses)
      BY <1>0, <2>1, AttemptRows
    <2> QED
      BY <1>0, <1>4, <2>1, <2>2
  <1>5. ASSUME NEW l \in undoing, NEW s \in S, EndCompensationRead(l, s) PROVE TypeOK'
    <2>1. [l EXCEPT !.stage = s] \in Lease(S)
      BY LeaseStage DEF TypeOK
    <2>2. undoing' \in SUBSET Lease(S)
      BY <1>5, <2>1 DEF EndCompensationRead, TypeOK
    <2>3. faults' \in 0..MaxFaults
      BY <1>5, FaultType DEF EndCompensationRead
    <2> QED
      BY <1>5, <2>2, <2>3 DEF EndCompensationRead, TypeOK, outbox, consumption
  <1>6. ASSUME NEW l \in undoing, SucceedCompensation(l) \/ FailCompensation(l) PROVE TypeOK'
    <2>1. l.event \in Events
      BY DEF TypeOK, Lease
    <2>2. compAttempt' \in [Events -> Seq(AttemptStatuses)]
      BY <1>4, <1>6 DEF SucceedCompensation, FailCompensation, AttemptStatuses
    <2>3. inbox' \in [Events -> ConsumptionRow]
      BY ZenonT(30), <1>0, <1>6, <2>1 DEF SucceedCompensation, FailCompensation
    <2> QED
      BY <1>6, <2>1, <2>2, <2>3
      DEF SucceedCompensation, FailCompensation, TypeOK, outbox
  <1>7. ASSUME NEW l \in undoing, DropCompensation(l) PROVE TypeOK'
    BY <1>7 DEF DropCompensation, TypeOK, outbox, consumption
  <1> QED
    BY <1>1, <1>2, <1>3, <1>5, <1>6, <1>7 DEF EndCompensation

\* Every step keeps the types.
LEMMA NextType == TypeOK /\ [Next]_vars => TypeOK'
  <1> SUFFICES ASSUME TypeOK, [Next]_vars PROVE TypeOK'
    OBVIOUS
  <1>1. CASE UNCHANGED vars
    BY <1>1 DEF vars, outbox, consumption, compensation, TypeOK
  <1>2. CASE Next
    BY <1>2, OutboxType, ConsumptionType, CompensationType DEF Next, Pipeline, Administrator
  <1> QED
    BY <1>1, <1>2

\* TypeOK of DomainEvents: every row, attempt, lease and counter of the outbox
\* and the consumer has its type in every reachable state.
THEOREM EventsTypeCorrect == Spec => []TypeOK
  <1> QED
    BY InitType, NextType, PTL DEF Spec

-----------------------------------------------------------------------------
(* Order *)

\* A step that moves none of the rows of the chain keeps it, and a step that
\* only lets go of leases, or moves them to another stage, does too.
LEMMA LeasesMove ==
  ASSUME Chain,
         UNCHANGED <<emitted, publication, inbox, cursor, effects, comp>>,
         \A l \in publishing' : l.event <= emitted,
         \A l \in running' : l.event <= emitted,
         \A l \in undoing' : l.event <= cursor
  PROVE  Chain'
  BY DEF Chain, EffectsAreCursor, FromOutbox, BehindCursor

\* The steps of the outbox keep the chain.
LEMMA OutboxChain ==
  ASSUME TypeOK, Chain,
         \/ Enqueue \/ EnableConsumer
         \/ \E e \in Events : Replay(e) \/ Backfill(e) \/ ClaimPublication(e) \/ EndPublication(e)
  PROVE  Chain'
  <1> USE DEF Chain
  <1>1. CASE Enqueue
    <2>1. emitted + 1 \in Nat /\ cursor \in Nat /\ Events \subseteq Nat
      BY DEF TypeOK, Events
    <2>2. \A e \in Events : publication'[e].status # "absent"
                              => publication[e].status # "absent" \/ e = emitted + 1
      BY <1>1 DEF Enqueue, TypeOK, PublicationRow
    <2>3. /\ \A l \in publishing : l.event \in Nat
          /\ \A l \in running : l.event \in Nat
      BY <2>1 DEF TypeOK, Lease
    <2>4. EffectsAreCursor'
      BY <1>1, <2>1 DEF Enqueue, EffectsAreCursor, TypeOK, consumption
    <2>5. FromOutbox'
      BY <1>1, <2>1, <2>2, <2>3 DEF Enqueue, FromOutbox, TypeOK, consumption
    <2> QED
      BY <1>1, <2>4, <2>5 DEF Enqueue, BehindCursor, consumption, compensation
  <1>2. CASE EnableConsumer
    BY <1>2, LeasesMove
    DEF EnableConsumer, consumption, compensation, FromOutbox, BehindCursor
  <1>3. ASSUME NEW e \in Events, Replay(e) PROVE Chain'
    <2>1. \A f \in Events : publication'[f].status # "absent"
                              => publication[f].status # "absent"
      BY <1>3 DEF Replay, TypeOK, PublicationRow
    <2> QED
      BY <1>3, <2>1
      DEF Replay, EffectsAreCursor, FromOutbox, BehindCursor, consumption, compensation
  <1>4. ASSUME NEW e \in Events, Received(e)
        PROVE  \A f \in Events : \/ inbox'[f].status = inbox[f].status
                                 \/ f = e /\ inbox'[f].status = "pending"
    BY <1>4 DEF Received, TypeOK, ConsumptionRow
  <1>5. ASSUME NEW e \in Events, Backfill(e) PROVE Chain'
    BY <1>5, <1>4
    DEF Backfill, EffectsAreCursor, FromOutbox, BehindCursor, Passed, outbox, compensation
  <1>6. ASSUME NEW e \in Events, ClaimPublication(e) PROVE Chain'
    <2>1. \A f \in Events : publication'[f].status # "absent"
                              => publication[f].status # "absent"
      BY <1>6 DEF ClaimPublication, TypeOK, PublicationRow
    <2>2. e <= emitted
      BY <1>6 DEF ClaimPublication, FromOutbox
    <2>3. \A l \in publishing' : l \in publishing \/ l.event = e
      BY <1>6 DEF ClaimPublication, Working
    <2> QED
      BY <1>6, <2>1, <2>2, <2>3
      DEF ClaimPublication, EffectsAreCursor, FromOutbox, BehindCursor, consumption, compensation
  <1>7. ASSUME NEW e \in Events, EndPublication(e) PROVE Chain'
    <2> PICK l \in publishing : l.event = e /\ (Publish(l) \/ MarkPublished(l) \/ MarkFailed(l))
      BY <1>7 DEF EndPublication
    <2>1. e <= emitted
      BY DEF FromOutbox
    <2>2. CASE Publish(l)
      <3>1. [l EXCEPT !.stage = "received"].event = e
        BY LeaseStage DEF TypeOK
      <3>2. \A m \in publishing' : m \in publishing \/ m.event = e
        BY <2>2, <3>1 DEF Publish
      <3>3. Received(e)
        BY <2>2 DEF Publish
      <3> QED
        BY <2>1, <2>2, <3>2, <3>3, <1>4
        DEF Publish, EffectsAreCursor, FromOutbox, BehindCursor, Passed, compensation
    <2>3. ASSUME NEW s, Mark(l, s) PROVE Chain'
      <3>1. \A f \in Events : publication'[f].status # "absent"
                                => publication[f].status # "absent"
        BY <2>3 DEF Mark, TypeOK, PublicationRow
      <3> QED
        BY <2>3, <3>1
        DEF Mark, EffectsAreCursor, FromOutbox, BehindCursor, consumption, compensation
    <2> QED
      BY <2>2, <2>3 DEF MarkPublished, MarkFailed
  <1> QED
    BY <1>1, <1>2, <1>3, <1>5, <1>6, <1>7

\* The steps of the consumption keep the chain.
LEMMA ConsumptionChain ==
  ASSUME TypeOK, Chain,
         \E e \in Events : Claim(e) \/ EndConsumption(e) \/ Retry(e)
  PROVE  Chain'
  <1> USE DEF Chain
  <1>0. ASSUME NEW l \in running
        PROVE  l.event \in Events /\ l.event <= emitted
    BY DEF TypeOK, Lease, FromOutbox
  <1>1. ASSUME NEW e \in Events, Claim(e) PROVE Chain'
    <2>1. \A f \in Events : \/ inbox'[f].status = inbox[f].status
                            \/ f = e /\ inbox'[f].status = "processing"
      BY <1>1 DEF Claim, TypeOK, ConsumptionRow
    <2>2. e <= emitted
      BY <1>1 DEF Claim, FromOutbox
    <2>3. \A l \in running' : l \in running \/ l.event = e
      BY <1>1 DEF Claim, Working
    <2> QED
      BY <1>1, <2>1, <2>2, <2>3
      DEF Claim, EffectsAreCursor, FromOutbox, BehindCursor, Passed, outbox, compensation
  <1>2. ASSUME NEW e \in Events, Retry(e) PROVE Chain'
    <2>1. \A f \in Events : \/ inbox'[f].status = inbox[f].status
                            \/ f = e /\ inbox'[f].status = "retry_scheduled"
      BY <1>2 DEF Retry, TypeOK, ConsumptionRow
    <2>2. e <= emitted
      BY <1>2 DEF Retry, FromOutbox
    <2> QED
      BY <1>2, <2>1, <2>2
      DEF Retry, EffectsAreCursor, FromOutbox, BehindCursor, Passed, outbox, compensation
  <1>3. ASSUME NEW l \in running, Succeed(l) PROVE Chain'
    <2>1. l.event = cursor + 1 /\ cursor \in Nat /\ emitted \in Nat /\ Events \subseteq Nat
      BY <1>3 DEF Succeed, IsNext, TypeOK, Events
    <2>2. EffectsAreCursor'
      BY <1>0, <1>3, <2>1 DEF Succeed, EffectsAreCursor, outbox
    <2>3. \A f \in Events : \/ inbox'[f].status = inbox[f].status
                            \/ f = l.event /\ inbox'[f].status = "succeeded"
      BY <1>3 DEF Succeed, TypeOK, ConsumptionRow
    <2>4. FromOutbox'
      BY <1>0, <1>3, <2>3 DEF Succeed, FromOutbox, outbox
    <2>5. \A m \in undoing : m.event \in Nat
      BY <2>1 DEF TypeOK, Lease
    <2>6. BehindCursor'
      BY <1>3, <2>1, <2>3, <2>5 DEF Succeed, BehindCursor, compensation
    <2> QED
      BY <2>2, <2>4, <2>6
  <1>4. ASSUME NEW l \in running, FailRead(l) PROVE Chain'
    <2>1. \A s \in {"burying", "failing"} : [l EXCEPT !.stage = s].event = l.event
      BY LeaseStage DEF TypeOK
    <2>2. \A m \in running' : m \in running \/ m.event = l.event
      BY <1>4, <2>1 DEF FailRead
    <2> QED
      BY <1>0, <1>4, <2>2, LeasesMove DEF FailRead, FromOutbox, BehindCursor, outbox, compensation
  <1>5. ASSUME NEW l \in running, FailWrite(l) PROVE Chain'
    <2>1. \A f \in Events : \/ inbox'[f].status = inbox[f].status
                            \/ /\ f = l.event
                               /\ inbox'[f].status \in {"dead_lettered", "retry_scheduled"}
      BY <1>5 DEF FailWrite, TypeOK, ConsumptionRow
    <2> QED
      BY <1>0, <1>5, <2>1
      DEF FailWrite, EffectsAreCursor, FromOutbox, BehindCursor, Passed, outbox, compensation
  <1>6. ASSUME NEW l \in running, Drop(l) PROVE Chain'
    BY <1>6, LeasesMove DEF Drop, FromOutbox, BehindCursor, outbox, compensation
  <1> QED
    BY <1>1, <1>2, <1>3, <1>4, <1>5, <1>6 DEF EndConsumption

\* The steps of a compensation, and a crash, keep the chain.
LEMMA CompensationChain ==
  ASSUME TypeOK, Chain,
         \/ Crash
         \/ \E e \in Events : RequestCompensation(e) \/ ClaimCompensation(e) \/ EndCompensation(e)
  PROVE  Chain'
  <1> USE DEF Chain
  <1>0. ASSUME NEW l \in undoing
        PROVE  l.event \in Events /\ l.event <= cursor /\ l.event <= emitted
    <2>1. l.event \in Events /\ l.event <= cursor
      BY DEF TypeOK, Lease, BehindCursor
    <2> QED
      BY <2>1 DEF EffectsAreCursor, TypeOK, Events
  <1>1. CASE Crash
    BY <1>1, LeasesMove DEF Crash, FromOutbox, BehindCursor
  <1>2. ASSUME NEW e \in Events, RequestCompensation(e) PROVE Chain'
    <2>1. \A f \in Events : \/ inbox'[f].status = inbox[f].status
                            \/ f = e /\ inbox[f].status \in Passed /\ inbox'[f].status # "absent"
      BY <1>2 DEF RequestCompensation, TypeOK, ConsumptionRow, Passed
    <2>2. inbox[e].status \in Passed /\ inbox[e].status # "absent"
      BY <1>2 DEF RequestCompensation, Passed
    <2>3. \A f \in Events : comp'[f] = comp[f] \/ f = e
      BY <1>2 DEF RequestCompensation, TypeOK
    <2> QED
      BY <1>2, <2>1, <2>2, <2>3
      DEF RequestCompensation, EffectsAreCursor, FromOutbox, BehindCursor, outbox
  <1>3. ASSUME NEW e \in Events, ClaimCompensation(e) PROVE Chain'
    <2>1. comp[e] # "none" /\ \A f \in Events : comp'[f] = comp[f] \/ f = e
      BY <1>3 DEF ClaimCompensation, TypeOK
    <2>2. \A l \in undoing' : l \in undoing \/ l.event = e
      BY <1>3 DEF ClaimCompensation, Working
    <2> QED
      BY <1>3, <2>1, <2>2
      DEF ClaimCompensation, EffectsAreCursor, FromOutbox, BehindCursor, outbox, consumption
  <1>4. ASSUME NEW l \in undoing, NEW s \in {"succeeding", "failing"}, EndCompensationRead(l, s)
        PROVE  Chain'
    <2>1. [l EXCEPT !.stage = s].event = l.event
      BY LeaseStage DEF TypeOK
    <2>2. \A m \in undoing' : m \in undoing \/ m.event = l.event
      BY <1>4, <2>1 DEF EndCompensationRead
    <2> QED
      BY <1>0, <1>4, <2>2, LeasesMove
      DEF EndCompensationRead, FromOutbox, BehindCursor, outbox, consumption
  <1>5. ASSUME NEW l \in undoing, SucceedCompensation(l) \/ FailCompensation(l) PROVE Chain'
    <2>1. \A f \in Events : inbox'[f].status = inbox[f].status \/ f = l.event
      BY <1>5 DEF SucceedCompensation, FailCompensation, TypeOK, ConsumptionRow
    <2>2. \A f \in Events : comp'[f] = comp[f] \/ f = l.event
      BY <1>5 DEF SucceedCompensation, FailCompensation, TypeOK
    <2> QED
      BY <1>0, <1>5, <2>1, <2>2
      DEF SucceedCompensation, FailCompensation, EffectsAreCursor, FromOutbox, BehindCursor, outbox
  <1>6. ASSUME NEW l \in undoing, DropCompensation(l) PROVE Chain'
    BY <1>6, LeasesMove DEF DropCompensation, FromOutbox, BehindCursor, outbox, consumption
  <1> QED
    BY <1>1, <1>2, <1>3, <1>4, <1>5, <1>6 DEF EndCompensation

\* Every step keeps the chain.
LEMMA NextChain == TypeOK /\ Chain /\ [Next]_vars => Chain'
  <1> SUFFICES ASSUME TypeOK, Chain, [Next]_vars PROVE Chain'
    OBVIOUS
  <1>1. CASE UNCHANGED vars
    BY <1>1, LeasesMove
    DEF vars, outbox, consumption, compensation, Chain, FromOutbox, BehindCursor
  <1>2. CASE Next
    BY <1>2, OutboxChain, ConsumptionChain, CompensationChain DEF Next, Pipeline, Administrator
  <1> QED
    BY <1>1, <1>2

\* The chain holds at the start.
LEMMA InitChain == Init => Chain
  <1> SUFFICES ASSUME Init PROVE Chain
    OBVIOUS
  <1>1. effects = [i \in 1..cursor |-> i]
    BY DEF Init
  <1> QED
    BY <1>1 DEF Init, Chain, EffectsAreCursor, FromOutbox, BehindCursor, Passed

\* The inductive invariant holds in every reachable state.
LEMMA Invariance == Spec => []IInv
  <1>1. Init => IInv
    BY InitType, InitChain DEF IInv
  <1>2. IInv /\ [Next]_vars => IInv'
    BY NextType, NextChain DEF IInv
  <1> QED
    BY <1>1, <1>2, PTL DEF Spec

\* CompensatedWasApplied of DomainEvents: only an event that the cursor has
\* passed, whose effect is therefore recorded, is ever in compensation, over
\* every order of claims, late failures, retries and administrator calls.
THEOREM EventsCompensatedWasApplied == Spec => []CompensatedWasApplied
  <1>1. IInv => CompensatedWasApplied
    BY DEF IInv, Chain, BehindCursor, CompensatedWasApplied, Passed
  <1> QED
    BY <1>1, Invariance, PTL

-----------------------------------------------------------------------------
(* Attempts and the cursor *)

SucceedsOnce(rows) ==
  \E k \in DOMAIN rows :
    /\ rows[k] = "succeeded"
    /\ \A j \in DOMAIN rows : rows[j] = "succeeded" => j = k

NeverSucceeded(rows) == \A k \in DOMAIN rows : rows[k] # "succeeded"

LastRuns(rows) == rows # <<>> /\ rows[Len(rows)] = "running"

\* What the attempts of an event say agrees with the cursor, and an event in
\* process has an open attempt, its newest, which success will close.
Exact ==
  \A e \in Events :
    /\ e <= cursor => SucceedsOnce(attempt[e])
    /\ e > cursor => NeverSucceeded(attempt[e])
    /\ attempt[e] # <<>> => e <= cursor + 1
    /\ inbox[e].status = "processing" => LastRuns(attempt[e])

\* A new attempt is open and the newest, and none of the old ones turns into a
\* success.
LEMMA NextAttemptRuns ==
  ASSUME NEW rows \in Seq(AttemptStatuses), NEW x \in BOOLEAN
  PROVE  /\ LastRuns(NextAttempt(rows, x))
         /\ NeverSucceeded(rows) => NeverSucceeded(NextAttempt(rows, x))
  <1> DEFINE closed == [i \in DOMAIN rows |->
                          IF x /\ rows[i] = "running" THEN "failed" ELSE rows[i]]
  <1>1. closed \in Seq(AttemptStatuses) /\ Len(closed) = Len(rows) /\ Len(rows) \in Nat
    <2>1. closed \in [1..Len(rows) -> AttemptStatuses]
      BY DEF AttemptStatuses
    <2> QED
      BY <2>1
  <1>2. \A i \in DOMAIN closed : closed[i] = "succeeded" => rows[i] = "succeeded"
    OBVIOUS
  <1>3. NextAttempt(rows, x) = Append(closed, "running")
    BY DEF NextAttempt
  <1> HIDE DEF closed
  <1>4. DOMAIN closed = DOMAIN rows
    BY <1>1
  <1>5. "running" \in AttemptStatuses
    BY DEF AttemptStatuses
  <1>6. LastRuns(Append(closed, "running"))
    BY <1>1, <1>5 DEF LastRuns
  <1>7. NeverSucceeded(rows) => NeverSucceeded(Append(closed, "running"))
    BY <1>1, <1>2, <1>4, <1>5 DEF NeverSucceeded
  <1> QED
    BY <1>3, <1>6, <1>7

\* A failure that comes late closes an open attempt or nothing.
LEMMA CloseFails ==
  ASSUME NEW rows \in Seq(AttemptStatuses), NEW k \in Nat
  PROVE  /\ SucceedsOnce(rows) => SucceedsOnce(CloseAttempt(rows, k, "failed"))
         /\ NeverSucceeded(rows) => NeverSucceeded(CloseAttempt(rows, k, "failed"))
         /\ rows = <<>> => CloseAttempt(rows, k, "failed") = <<>>
  <1> DEFINE closed == CloseAttempt(rows, k, "failed")
  <1>1. /\ DOMAIN closed = DOMAIN rows
        /\ \A i \in DOMAIN rows : closed[i] = "succeeded" <=> rows[i] = "succeeded"
    BY DEF CloseAttempt
  <1>2. rows = <<>> => closed = <<>>
    <2>1. closed \in Seq(AttemptStatuses)
      BY AttemptRows DEF AttemptStatuses
    <2> QED
      BY <1>1, <2>1
  <1> HIDE DEF closed
  <1>3. SucceedsOnce(rows) => SucceedsOnce(closed)
    BY <1>1 DEF SucceedsOnce
  <1>4. NeverSucceeded(rows) => NeverSucceeded(closed)
    BY <1>1 DEF NeverSucceeded
  <1> QED
    BY <1>2, <1>3, <1>4 DEF closed

\* A success that closes the open attempt is the only one.
LEMMA CloseSucceeds ==
  ASSUME NEW rows \in Seq(AttemptStatuses), LastRuns(rows), NeverSucceeded(rows)
  PROVE  SucceedsOnce(CloseAttempt(rows, Len(rows), "succeeded"))
  <1> DEFINE n == Len(rows)
             closed == CloseAttempt(rows, n, "succeeded")
  <1>1. n \in DOMAIN rows /\ rows[n] = "running"
    BY DEF LastRuns
  <1>2. /\ DOMAIN closed = DOMAIN rows
        /\ closed[n] = "succeeded"
        /\ \A i \in DOMAIN rows : i # n => closed[i] = rows[i]
    BY <1>1 DEF CloseAttempt
  <1> HIDE DEF closed, n
  <1>3. SucceedsOnce(closed)
    BY <1>1, <1>2 DEF SucceedsOnce, NeverSucceeded
  <1> QED
    BY <1>3 DEF closed, n

\* A step that moves neither attempts nor cursor, and takes no event into
\* process, keeps them exact.
LEMMA NotAttempted ==
  ASSUME Exact, UNCHANGED <<attempt, cursor>>,
         \A e \in Events : \/ inbox'[e].status = inbox[e].status
                           \/ inbox'[e].status # "processing"
  PROVE  Exact'
  BY DEF Exact

\* The steps of the consumption that move attempts or the cursor.
LEMMA ConsumptionExact ==
  ASSUME TypeOK, Exact,
         \E e \in Events : Claim(e) \/ EndConsumption(e) \/ Retry(e)
  PROVE  Exact'
  <1>0. /\ attempt \in [Events -> Seq(AttemptStatuses)]
        /\ inbox \in [Events -> ConsumptionRow]
        /\ cursor \in Nat /\ Events \subseteq Nat
        /\ \A l \in running : l.event \in Events /\ l.token \in Nat
    BY DEF TypeOK, Lease, Events
  <1>1. ASSUME NEW e \in Events, Claim(e) PROVE Exact'
    <2> DEFINE x == inbox[e].status = "processing"
    <2>1. \A f \in Events : f # e => inbox'[f] = inbox[f] /\ attempt'[f] = attempt[f]
      BY <1>0, <1>1 DEF Claim
    <2>2. attempt'[e] = NextAttempt(attempt[e], x) /\ e = cursor + 1 /\ cursor' = cursor
      BY <1>0, <1>1 DEF Claim, IsNext
    <2>3. LastRuns(attempt'[e]) /\ (NeverSucceeded(attempt[e]) => NeverSucceeded(attempt'[e]))
      <3>1. attempt[e] \in Seq(AttemptStatuses) /\ x \in BOOLEAN
        BY <1>0
      <3> QED
        BY <2>2, <3>1, NextAttemptRuns
    <2>4. NeverSucceeded(attempt[e])
      BY <1>0, <2>2 DEF Exact
    <2> HIDE DEF x
    <2> SUFFICES ASSUME NEW f \in Events
                 PROVE  /\ f <= cursor' => SucceedsOnce(attempt'[f])
                        /\ f > cursor' => NeverSucceeded(attempt'[f])
                        /\ attempt'[f] # <<>> => f <= cursor' + 1
                        /\ inbox'[f].status = "processing" => LastRuns(attempt'[f])
      BY DEF Exact
    <2>5. CASE f = e
      BY <1>0, <2>2, <2>3, <2>4, <2>5
    <2>6. CASE f # e
      BY <2>1, <2>2, <2>6 DEF Exact
    <2> QED
      BY <2>5, <2>6
  <1>2. ASSUME NEW e \in Events, Retry(e) PROVE Exact'
    <2>1. \A f \in Events : \/ inbox'[f].status = inbox[f].status
                            \/ inbox'[f].status # "processing"
      BY <1>0, <1>2 DEF Retry, ConsumptionRow
    <2> QED
      BY <1>2, <2>1, NotAttempted DEF Retry
  <1>3. ASSUME NEW l \in running, Succeed(l) PROVE Exact'
    <2> DEFINE e == l.event
               rows == attempt[e]
    <2>1. e \in Events /\ rows \in Seq(AttemptStatuses)
      BY <1>0
    <2>2. inbox[e].status = "processing" /\ Len(rows) = l.token /\ e = cursor + 1 /\ cursor' = e
      BY <1>3 DEF Succeed, Holds, IsNext
    <2>3. attempt'[e] = CloseAttempt(rows, Len(rows), "succeeded")
      BY <1>0, <1>3, <2>1, <2>2 DEF Succeed
    <2>4. LastRuns(rows) /\ NeverSucceeded(rows)
      BY <1>0, <2>1, <2>2 DEF Exact
    <2>5. SucceedsOnce(attempt'[e])
      BY <2>1, <2>3, <2>4, CloseSucceeds
    <2>6. \A f \in Events : f # e => inbox'[f] = inbox[f] /\ attempt'[f] = attempt[f]
      BY <1>0, <1>3 DEF Succeed
    <2>7. inbox'[e].status = "succeeded"
      BY <1>0, <1>3, <2>1 DEF Succeed, ConsumptionRow
    <2> HIDE DEF e, rows
    <2> SUFFICES ASSUME NEW f \in Events
                 PROVE  /\ f <= cursor' => SucceedsOnce(attempt'[f])
                        /\ f > cursor' => NeverSucceeded(attempt'[f])
                        /\ attempt'[f] # <<>> => f <= cursor' + 1
                        /\ inbox'[f].status = "processing" => LastRuns(attempt'[f])
      BY DEF Exact
    <2>8. CASE f = e
      BY <1>0, <2>1, <2>2, <2>5, <2>7, <2>8
    <2>9. CASE f # e
      <3>1. f \in Nat /\ e \in Nat /\ (f <= cursor' <=> f <= cursor)
        BY <1>0, <2>1, <2>2, <2>9
      <3> QED
        BY <1>0, <2>2, <2>6, <2>9, <3>1 DEF Exact
    <2> QED
      BY <2>8, <2>9
  <1>4. ASSUME NEW l \in running, FailWrite(l) PROVE Exact'
    <2> DEFINE e == l.event
               rows == attempt[e]
    <2>1. e \in Events /\ rows \in Seq(AttemptStatuses) /\ l.token \in Nat
      BY <1>0
    <2>2. attempt'[e] = CloseAttempt(rows, l.token, "failed") /\ cursor' = cursor
      BY <1>0, <1>4, <2>1 DEF FailWrite
    <2>3. \A f \in Events : f # e => inbox'[f] = inbox[f] /\ attempt'[f] = attempt[f]
      BY <1>0, <1>4 DEF FailWrite
    <2>4. inbox'[e].status # "processing"
      BY <1>0, <1>4, <2>1 DEF FailWrite, ConsumptionRow
    <2>5. /\ SucceedsOnce(rows) => SucceedsOnce(attempt'[e])
          /\ NeverSucceeded(rows) => NeverSucceeded(attempt'[e])
          /\ rows = <<>> => attempt'[e] = <<>>
      BY <2>1, <2>2, CloseFails
    <2>6. /\ e <= cursor => SucceedsOnce(rows)
          /\ e > cursor => NeverSucceeded(rows)
          /\ rows # <<>> => e <= cursor + 1
      BY <2>1 DEF Exact
    <2> HIDE DEF e, rows
    <2> SUFFICES ASSUME NEW f \in Events
                 PROVE  /\ f <= cursor' => SucceedsOnce(attempt'[f])
                        /\ f > cursor' => NeverSucceeded(attempt'[f])
                        /\ attempt'[f] # <<>> => f <= cursor' + 1
                        /\ inbox'[f].status = "processing" => LastRuns(attempt'[f])
      BY DEF Exact
    <2>7. CASE f = e
      BY <2>2, <2>4, <2>5, <2>6, <2>7
    <2>8. CASE f # e
      BY <2>2, <2>3, <2>8 DEF Exact
    <2> QED
      BY <2>7, <2>8
  <1>5. ASSUME NEW l \in running, FailRead(l) \/ Drop(l) PROVE Exact'
    BY <1>5, NotAttempted DEF FailRead, Drop
  <1> QED
    BY <1>1, <1>2, <1>3, <1>4, <1>5 DEF EndConsumption

\* The other steps only put events where no claim holds them.
LEMMA OtherExact ==
  ASSUME TypeOK, Exact,
         \/ Enqueue \/ EnableConsumer \/ Crash
         \/ \E e \in Events : \/ Replay(e) \/ Backfill(e) \/ ClaimPublication(e)
                              \/ EndPublication(e)
                              \/ RequestCompensation(e) \/ ClaimCompensation(e)
                              \/ EndCompensation(e)
  PROVE  Exact'
  <1>0. ASSUME UNCHANGED <<inbox, attempt, cursor>> PROVE Exact'
    BY <1>0, NotAttempted
  <1>1. CASE Enqueue \/ EnableConsumer \/ Crash
    BY <1>0, <1>1 DEF Enqueue, EnableConsumer, Crash, consumption
  <1>2. ASSUME NEW e \in Events, Received(e)
        PROVE  \A f \in Events : \/ inbox'[f].status = inbox[f].status
                                 \/ inbox'[f].status # "processing"
    BY <1>2 DEF Received, TypeOK, ConsumptionRow
  <1>3. ASSUME NEW e \in Events, Replay(e) \/ ClaimPublication(e) PROVE Exact'
    BY <1>0, <1>3 DEF Replay, ClaimPublication, consumption
  <1>4. ASSUME NEW e \in Events, Backfill(e) PROVE Exact'
    BY <1>2, <1>4, NotAttempted DEF Backfill
  <1>5. ASSUME NEW e \in Events, EndPublication(e) PROVE Exact'
    <2> PICK l \in publishing : l.event = e /\ (Publish(l) \/ MarkPublished(l) \/ MarkFailed(l))
      BY <1>5 DEF EndPublication
    <2>1. CASE Publish(l)
      BY <1>2, <2>1, NotAttempted DEF Publish
    <2>2. CASE MarkPublished(l) \/ MarkFailed(l)
      BY <1>0, <2>2 DEF MarkPublished, MarkFailed, Mark, consumption
    <2> QED
      BY <2>1, <2>2
  <1>6. ASSUME NEW e \in Events, RequestCompensation(e) PROVE Exact'
    <2>1. \A f \in Events : \/ inbox'[f].status = inbox[f].status
                            \/ inbox'[f].status # "processing"
      BY <1>6 DEF RequestCompensation, TypeOK, ConsumptionRow
    <2> QED
      BY <1>6, <2>1, NotAttempted DEF RequestCompensation
  <1>7. ASSUME NEW e \in Events, ClaimCompensation(e) PROVE Exact'
    BY <1>0, <1>7 DEF ClaimCompensation, consumption
  <1>8. ASSUME NEW l \in undoing, SucceedCompensation(l) \/ FailCompensation(l) PROVE Exact'
    <2>1. \A f \in Events : \/ inbox'[f].status = inbox[f].status
                            \/ inbox'[f].status # "processing"
      <3>1. l.event \in Events /\ inbox \in [Events -> ConsumptionRow]
        BY DEF TypeOK, Lease
      <3>2. \/ inbox' = [inbox EXCEPT ![l.event].status = "compensated"]
            \/ inbox' = [inbox EXCEPT ![l.event].status = "compensation_failed"]
        BY <1>8 DEF SucceedCompensation, FailCompensation
      <3> QED
        BY <3>1, <3>2 DEF ConsumptionRow
    <2>2. UNCHANGED <<attempt, cursor>>
      BY <1>8 DEF SucceedCompensation, FailCompensation
    <2> QED
      BY <2>1, <2>2, NotAttempted
  <1>9. ASSUME NEW l \in undoing, NEW s, EndCompensationRead(l, s) \/ DropCompensation(l)
        PROVE  Exact'
    BY <1>0, <1>9 DEF EndCompensationRead, DropCompensation, consumption
  <1> QED
    BY <1>1, <1>3, <1>4, <1>5, <1>6, <1>7, <1>8, <1>9 DEF EndCompensation

\* Attempts and cursor agree in every reachable state.
LEMMA ExactInvariance == Spec => []Exact
  <1>1. Init => Exact
    BY DEF Init, Exact, NeverSucceeded, Events
  <1>2. TypeOK /\ Exact /\ [Next]_vars => Exact'
    <2> SUFFICES ASSUME TypeOK, Exact, [Next]_vars PROVE Exact'
      OBVIOUS
    <2>1. CASE UNCHANGED vars
      BY <2>1, NotAttempted DEF vars, consumption
    <2>2. CASE Next
      BY <2>2, ConsumptionExact, OtherExact DEF Next, Pipeline, Administrator
    <2> QED
      BY <2>1, <2>2
  <1> QED
    BY <1>1, <1>2, EventsTypeCorrect, PTL DEF Spec

\* CursorIsExact of DomainEvents: an event has one successful attempt once the
\* cursor has passed it and none before, and nothing behind the next event was
\* ever attempted, over lapsed leases, late failures and administrator calls.
THEOREM EventsCursorIsExact == Spec => []CursorIsExact
  <1>1. TypeOK /\ Exact => CursorIsExact
    <2> SUFFICES ASSUME TypeOK, Exact PROVE CursorIsExact
      OBVIOUS
    <2>1. LaterWaits
      BY DEF Exact, LaterWaits
    <2>2. ASSUME NEW e \in Events
          PROVE  LET successes == {k \in DOMAIN attempt[e] : attempt[e][k] = "succeeded"}
                 IN  IF e <= cursor THEN \E k \in successes : successes = {k}
                                    ELSE successes = {}
      <3> DEFINE successes == {k \in DOMAIN attempt[e] : attempt[e][k] = "succeeded"}
      <3>1. CASE e <= cursor
        <4>1. PICK k \in DOMAIN attempt[e] :
                /\ attempt[e][k] = "succeeded"
                /\ \A j \in DOMAIN attempt[e] : attempt[e][j] = "succeeded" => j = k
          BY <3>1 DEF Exact, SucceedsOnce
        <4>2. k \in successes /\ successes = {k}
          BY <4>1
        <4> QED
          BY <3>1, <4>2
      <3>2. CASE ~(e <= cursor)
        <4>1. e > cursor
          BY <3>2 DEF TypeOK, Events
        <4>2. successes = {}
          BY <4>1 DEF Exact, NeverSucceeded
        <4> QED
          BY <3>2, <4>2
      <3> QED
        BY <3>1, <3>2
    <2> QED
      BY <2>1, <2>2 DEF CursorIsExact, OneSuccess
  <1> QED
    BY <1>1, ExactInvariance, EventsTypeCorrect, PTL

-----------------------------------------------------------------------------
(* Refinement *)

\* Each step of the pipeline emits, applies the next effect, compensates an
\* applied one, or changes nothing that the consumer's handler can see.
LEMMA StepSimulation == IInv /\ [Next]_vars => [Abstract!Next]_(Abstract!vars)
  <1> SUFFICES ASSUME IInv, [Next]_vars PROVE [Abstract!Next]_(Abstract!vars)
    OBVIOUS
  <1> USE DEF IInv, Chain, Abstract!vars
  <1>1. CASE UNCHANGED vars
    BY <1>1 DEF vars, outbox, consumption, compensation
  <1>2. CASE Enqueue
    BY <1>2 DEF Enqueue, consumption, compensation, Abstract!Next, Abstract!Emit
  <1>3. CASE EnableConsumer \/ Crash
    BY <1>3 DEF EnableConsumer, Crash, consumption, compensation
  <1>4. ASSUME NEW e \in Events, Replay(e) \/ Backfill(e) \/ ClaimPublication(e) \/ EndPublication(e)
        PROVE  UNCHANGED Abstract!vars
    BY <1>4 DEF Replay, Backfill, ClaimPublication, EndPublication, Publish, MarkPublished,
                MarkFailed, Mark, outbox, consumption, compensation
  <1>5. ASSUME NEW e \in Events, Claim(e) \/ Retry(e)
        PROVE  UNCHANGED Abstract!vars
    BY <1>5 DEF Claim, Retry, outbox, compensation
  <1>6. ASSUME NEW l \in running, FailRead(l) \/ FailWrite(l) \/ Drop(l)
        PROVE  UNCHANGED Abstract!vars
    BY <1>6 DEF FailRead, FailWrite, Drop, outbox, compensation
  <1>7. ASSUME NEW l \in running, Succeed(l) PROVE Abstract!Apply
    <2>1. Len(effects) = cursor
      BY DEF EffectsAreCursor, TypeOK
    <2>2. l.event = cursor + 1 /\ l.event <= emitted /\ cursor < emitted
      BY <1>7 DEF Succeed, IsNext, FromOutbox, TypeOK
    <2> QED
      BY <1>7, <2>1, <2>2 DEF Succeed, outbox, compensation, Abstract!Apply
  <1>8. ASSUME NEW l \in undoing, SucceedCompensation(l) PROVE Abstract!Compensate
    <2>1. l.event \in 1..cursor
      BY DEF BehindCursor, TypeOK, Lease, Events
    <2>2. l.event \in DOMAIN effects /\ effects[l.event] = l.event
      BY <2>1 DEF EffectsAreCursor
    <2> QED
      BY <1>8, <2>2 DEF SucceedCompensation, outbox, Abstract!Compensate
  <1>9. ASSUME NEW e \in Events, RequestCompensation(e) \/ ClaimCompensation(e)
        PROVE  UNCHANGED Abstract!vars
    BY <1>9 DEF RequestCompensation, ClaimCompensation, outbox, consumption
  <1>10. ASSUME NEW l \in undoing, NEW s,
                EndCompensationRead(l, s) \/ FailCompensation(l) \/ DropCompensation(l)
         PROVE  UNCHANGED Abstract!vars
    BY <1>10 DEF EndCompensationRead, FailCompensation, DropCompensation, outbox, consumption
  <1> QED
    BY <1>1, <1>2, <1>3, <1>4, <1>5, <1>6, <1>7, <1>8, <1>9, <1>10
    DEF Next, Pipeline, Administrator, EndConsumption, EndCompensation, Abstract!Next

\* EffectsInOrder of DomainEvents: the outbox and the consumer implement
\* OrderedEffects; the effects of an aggregate are applied in sequence, none
\* skipped and none twice, and only applied ones are compensated.
THEOREM EventsImplementOrder == Spec => EffectsInOrder
  <1>1. Init => Abstract!Init
    BY DEF Init, Abstract!Init
  <1> QED
    BY <1>1, Invariance, StepSimulation, PTL DEF Spec, EffectsInOrder, Abstract!Spec
=============================================================================
