--------------------------- MODULE WebhookDeliveries ---------------------------
(***************************************************************************)
(* The deliveries of one webhook subscription: receipt of domain events,   *)
(* claims under a lease by several workers, the answer of the endpoint,    *)
(* retries, dead letters and their replay, the switches of the owner and   *)
(* of the administrators (webhooks/prismaWebhookRepository.js and          *)
(* webhookDeliveryWorker.js).                                              *)
(*                                                                         *)
(* Every handler is a serializable transaction that is repeated on a       *)
(* conflict, hence one step, except claim: it reads the control, then the  *)
(* candidates, and then takes each candidate in a transaction of its own.  *)
(* A lease has no clock; it may lapse whenever its delivery is processing. *)
(* The owner may change the subscription's maximum of attempts at any      *)
(* time, so each use of it takes any value.                                *)
(***************************************************************************)
EXTENDS Integers, FiniteSets

CONSTANTS
    Workers,      \* worker processes
    Deliveries,   \* one delivery for each event that the subscription gets
    Keys,         \* idempotency keys of replays
    MaxAttempts,  \* largest maximum of attempts of the subscription
    MaxClaims,    \* bound: claims of one delivery
    MaxSwitches,  \* bound: switches of the control and the subscription
    None          \* no delivery

ASSUME WebhookAssumption ==
    /\ IsFiniteSet(Keys)
    /\ MaxAttempts \in Nat
    /\ MaxClaims \in Nat
    /\ MaxSwitches \in Nat
    /\ None \notin Deliveries

VARIABLES
    control,       \* webhook_controls.enabled
    subscription,  \* webhook_subscriptions.status; "erased" is "deleted" by an account deletion
    switches,      \* switches so far
    delivery,      \* webhook_deliveries
    attempt,       \* webhook_delivery_attempts, by delivery and attempt number; a failed one
                   \* whose error code says so is "expired" or "cancelled"
    replayed,      \* webhook_delivery_replays: the delivery each key was used for
    worker         \* what each worker process holds

vars == <<control, subscription, switches, delivery, attempt, replayed, worker>>

Due == {"queued", "retry_scheduled"}
Live == Due \cup {"processing"}
Final == {"succeeded", "cancelled"}

\* token is the number of the attempt whose lease token the row carries, 0 for none
Row == [status: Live \cup Final \cup {"none", "dead_lettered"}, count: 0..MaxClaims,
        max: Nat, token: 0..MaxClaims, lapsed: BOOLEAN, version: Nat]

NoRow == [status |-> "none", count |-> 0, max |-> 0, token |-> 0, lapsed |-> FALSE,
          version |-> 0]

AttemptStatuses == {"none", "processing", "succeeded", "failed", "expired", "cancelled"}

\* What a worker holds: the candidates it has read and the claims it still has to send
Idle == [pc |-> "idle", candidates |-> {}, claims |-> {}]

Round == [pc: {"idle", "enabled", "claiming"}, candidates: SUBSET (Deliveries \X Row),
          claims: SUBSET (Deliveries \X (1..MaxClaims))]

TypeOK ==
    /\ control \in BOOLEAN
    /\ subscription \in {"active", "disabled", "deleted", "erased"}
    /\ switches \in 0..MaxSwitches
    /\ delivery \in [Deliveries -> Row]
    /\ attempt \in [Deliveries -> [1..MaxClaims -> AttemptStatuses]]
    /\ replayed \in [Keys -> Deliveries \cup {None}]
    /\ worker \in [Workers -> Round]

Init ==
    /\ control = TRUE
    /\ subscription = "active"
    /\ switches = 0
    /\ delivery = [d \in Deliveries |-> NoRow]
    /\ attempt = [d \in Deliveries |-> [n \in 1..MaxClaims |-> "none"]]
    /\ replayed = [k \in Keys |-> None]
    /\ worker = [w \in Workers |-> Idle]

\* The row after an update: the version is incremented by every one of them
Written(row, status) == [row EXCEPT !.status = status, !.token = 0, !.lapsed = FALSE,
                                    !.version = @ + 1]

-----------------------------------------------------------------------------
(* The publisher, the owner and the administrators *)

\* receive: the upsert leaves a delivery that exists alone
Receive(d) ==
    /\ control
    /\ subscription = "active"
    /\ delivery[d].status = "none"
    /\ \E m \in 1..MaxAttempts :
        delivery' = [delivery EXCEPT ![d] = [@ EXCEPT !.status = "queued", !.max = m]]
    /\ UNCHANGED <<control, subscription, switches, attempt, replayed, worker>>

\* Faulty variant: the switch cancels only what waits, not what is claimed
CancelDeliveriesWaiting ==
    /\ delivery' = [d \in Deliveries |->
            IF delivery[d].status \in Due THEN Written(delivery[d], "cancelled")
                                          ELSE delivery[d]]
    /\ UNCHANGED attempt

\* cancelDeliveries: all that is live is cancelled, with the attempts under way
CancelDeliveries ==
    /\ delivery' = [d \in Deliveries |->
            IF delivery[d].status \in Live THEN Written(delivery[d], "cancelled")
                                           ELSE delivery[d]]
    /\ attempt' = [d \in Deliveries |-> [n \in 1..MaxClaims |->
            IF delivery[d].status \in Live /\ delivery[d].token = n
               /\ attempt[d][n] = "processing"
            THEN "cancelled" ELSE attempt[d][n]]]

UpdateControl(enabled) ==
    /\ switches < MaxSwitches
    /\ switches' = switches + 1
    /\ control' = enabled
    /\ IF enabled THEN UNCHANGED <<delivery, attempt>> ELSE CancelDeliveries
    /\ UNCHANGED <<subscription, replayed, worker>>

TransitionSubscription(next) ==
    /\ subscription \notin {"deleted", "erased", next}
    /\ switches < MaxSwitches
    /\ switches' = switches + 1
    /\ subscription' = next
    /\ IF next = "active" THEN UNCHANGED <<delivery, attempt>> ELSE CancelDeliveries
    /\ UNCHANGED <<control, replayed, worker>>

\* The account's deletion closes the subscription and leaves the deliveries as they are
EraseAccount ==
    /\ switches < MaxSwitches
    /\ subscription # "erased"
    /\ switches' = switches + 1
    /\ subscription' = "erased"
    /\ UNCHANGED <<control, delivery, attempt, replayed, worker>>

\* Faulty variant: a repeated request with a used key is carried out again
ReplayAgain(d, k) ==
    /\ delivery[d].status = "dead_lettered"
    /\ subscription = "active"
    /\ replayed' = [replayed EXCEPT ![k] = d]
    /\ \E m \in 1..MaxAttempts :
        delivery' = [delivery EXCEPT ![d] =
            [Written(@, "queued") EXCEPT !.max = delivery[d].count + m]]
    /\ UNCHANGED <<control, subscription, switches, attempt, worker>>

\* replay with a new key; a key that was used returns the row or a conflict
Replay(d, k) ==
    /\ replayed[k] = None
    /\ delivery[d].status = "dead_lettered"
    /\ subscription = "active"
    /\ replayed' = [replayed EXCEPT ![k] = d]
    /\ \E m \in 1..MaxAttempts :
        delivery' = [delivery EXCEPT ![d] =
            [Written(@, "queued") EXCEPT !.max = delivery[d].count + m]]
    /\ UNCHANGED <<control, subscription, switches, attempt, worker>>

-----------------------------------------------------------------------------
(* The worker *)

\* claim reads the control and goes on if it is enabled
ReadControl(w) ==
    /\ worker[w].pc = "idle"
    /\ control
    /\ worker' = [worker EXCEPT ![w].pc = "enabled"]
    /\ UNCHANGED <<control, subscription, switches, delivery, attempt, replayed>>

\* Candidates are due or their lease has lapsed. Which of the due rows are due by now and
\* within the limit is left open, so any part of them may be read.
ReadCandidates(w) ==
    /\ worker[w].pc = "enabled"
    /\ subscription = "active"
    /\ \E D \in SUBSET {d \in Deliveries :
                            \/ delivery[d].status \in Due
                            \/ delivery[d].status = "processing" /\ delivery[d].lapsed} :
        /\ D # {}
        /\ worker' = [worker EXCEPT ![w] =
                [@ EXCEPT !.pc = "claiming", !.candidates = {<<d, delivery[d]>> : d \in D}]]
    /\ UNCHANGED <<control, subscription, switches, delivery, attempt, replayed>>

\* There was nothing to claim
FindNothing(w) ==
    /\ worker[w].pc = "enabled"
    /\ worker' = [worker EXCEPT ![w] = Idle]
    /\ UNCHANGED <<control, subscription, switches, delivery, attempt, replayed>>

\* The compare-and-set of a candidate, on the version it was read with
Unchanged(seen, row) == seen.status = row.status /\ seen.version = row.version

\* Faulty variant: the attempt whose lease has lapsed stays open
NextAttemptOnly(seen, d) ==
    [attempt EXCEPT ![d] = [n \in 1..MaxClaims |->
        IF n = delivery[d].count + 1 THEN "processing" ELSE @[n]]]

\* The attempt of the claim, and the end of the attempt whose lease has lapsed
NextAttempt(seen, d) ==
    [attempt EXCEPT ![d] = [n \in 1..MaxClaims |->
        IF n = delivery[d].count + 1 THEN "processing"
        ELSE IF n = seen.token /\ @[n] = "processing" THEN "expired"
        ELSE @[n]]]

Claim(w) ==
    /\ worker[w].pc = "claiming"
    /\ \E c \in worker[w].candidates :
        LET d == c[1]
            n == delivery[d].count + 1
        IN  /\ Unchanged(c[2], delivery[d])
            /\ n <= MaxClaims
            /\ delivery' = [delivery EXCEPT ![d] =
                    [Written(@, "processing") EXCEPT !.count = n, !.token = n]]
            /\ attempt' = NextAttempt(c[2], d)
            /\ worker' = [worker EXCEPT ![w].candidates = @ \ {c},
                                       ![w].claims = @ \cup {<<d, n>>}]
    /\ UNCHANGED <<control, subscription, switches, replayed>>

\* The candidate has been written since it was read
LoseCandidate(w) ==
    /\ worker[w].pc = "claiming"
    /\ \E c \in worker[w].candidates :
        /\ ~Unchanged(c[2], delivery[c[1]])
        /\ worker' = [worker EXCEPT ![w].candidates = @ \ {c}]
    /\ UNCHANGED <<control, subscription, switches, delivery, attempt, replayed>>

\* The rest of the claims is sent after the first; the last one ends the round
Dropped(w, c) ==
    LET left == worker[w].claims \ {c}
    IN  worker' = [worker EXCEPT ![w] = IF left = {} THEN Idle ELSE [@ EXCEPT !.claims = left]]

\* complete writes only under the token of the claim
Holds(c) == delivery[c[1]].status = "processing" /\ delivery[c[1]].token = c[2]

\* The endpoint has answered and complete closes the delivery
Complete(w, outcome) ==
    /\ worker[w].pc = "claiming"
    /\ worker[w].candidates = {}
    /\ \E c \in worker[w].claims :
        LET d == c[1]
            retry == outcome = "retryable_failure" /\ delivery[d].count < delivery[d].max
        IN  /\ Holds(c)
            /\ delivery' = [delivery EXCEPT ![d] = Written(@,
                    IF outcome = "success" THEN "succeeded"
                    ELSE IF retry THEN "retry_scheduled" ELSE "dead_lettered")]
            /\ attempt' = [attempt EXCEPT ![d] = [n \in 1..MaxClaims |->
                    IF n = c[2] /\ @[n] = "processing"
                    THEN IF outcome = "success" THEN "succeeded" ELSE "failed"
                    ELSE @[n]]]
            /\ Dropped(w, c)
    /\ UNCHANGED <<control, subscription, switches, replayed>>

\* The endpoint has answered and the claim is gone
CompleteLate(w) ==
    /\ worker[w].pc = "claiming"
    /\ worker[w].candidates = {}
    /\ \E c \in worker[w].claims : ~Holds(c) /\ Dropped(w, c)
    /\ UNCHANGED <<control, subscription, switches, delivery, attempt, replayed>>

\* The process dies, a call throws, or the round ends with nothing in hand
Stop(w) ==
    /\ worker[w].pc # "idle"
    /\ worker' = [worker EXCEPT ![w] = Idle]
    /\ UNCHANGED <<control, subscription, switches, delivery, attempt, replayed>>

LeaseLapses(d) ==
    /\ delivery[d].status = "processing"
    /\ ~delivery[d].lapsed
    /\ delivery' = [delivery EXCEPT ![d].lapsed = TRUE]
    /\ UNCHANGED <<control, subscription, switches, attempt, replayed, worker>>

-----------------------------------------------------------------------------
Next ==
    \/ \E d \in Deliveries : Receive(d) \/ LeaseLapses(d) \/ \E k \in Keys : Replay(d, k)
    \/ \E enabled \in BOOLEAN : UpdateControl(enabled)
    \/ \E next \in {"active", "disabled", "deleted"} : TransitionSubscription(next)
    \/ EraseAccount
    \/ \E w \in Workers :
        \/ ReadControl(w) \/ ReadCandidates(w) \/ FindNothing(w)
        \/ Claim(w) \/ LoseCandidate(w)
        \/ \E o \in {"success", "retryable_failure", "permanent_failure"} : Complete(w, o)
        \/ CompleteLate(w) \/ Stop(w)

Spec == Init /\ [][Next]_vars

-----------------------------------------------------------------------------
(* Properties *)

\* A delivery has an open attempt exactly while it is processing, and it is the one whose
\* lease token the row carries and the newest: a takeover, a cancellation and a late answer
\* never leave two attempts open, nor one that nobody can close.
OneOpenAttempt ==
    \A d \in Deliveries : \A n \in 1..MaxClaims :
        attempt[d][n] = "processing" <=>
            /\ delivery[d].status = "processing"
            /\ delivery[d].token = n
            /\ delivery[d].count = n

\* The endpoint's answers that are recorded for a delivery stay within one window of
\* attempts for the receipt and one for each idempotency key of a replay, however often
\* workers die or requests are repeated. Attempts whose lease lapsed do not count.
AnswersWithinWindows ==
    \A d \in Deliveries :
        Cardinality({n \in 1..MaxClaims : attempt[d][n] \in {"succeeded", "failed"}})
            <= MaxAttempts * (1 + Cardinality({k \in Keys : replayed[k] = d}))

\* While the owner or an administrator has the subscription disabled or deleted, no
\* delivery of it waits or is processed, whatever workers had read before.
StoppedIsQuiet ==
    subscription \in {"disabled", "deleted"} =>
        \A d \in Deliveries : delivery[d].status \notin Live
=============================================================================
