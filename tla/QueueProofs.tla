------------------------------ MODULE QueueProofs ------------------------------
(***************************************************************************)
(* What is proved of the tables of rows that workers work off under        *)
(* leases, for any sets of workers, rows, replay keys and answers and any  *)
(* bounds: the deliveries of a webhook subscription, the notifications by  *)
(* e-mail, and the queue of the search index.                              *)
(***************************************************************************)
EXTENDS WebhookDeliveries, NotificationDeliveries, SearchIndex, SequenceTheorems,
        FiniteSetTheorems, TLAPS

-----------------------------------------------------------------------------
(* Webhooks *)

\* A candidate was live when it was read, and as long as its version is that of the row,
\* the row carries the same lease token.
CandidatesAreHonest ==
    \A w \in Workers : \A c \in worker[w].candidates :
        /\ c[2].status \in Live
        /\ c[2].version <= delivery[c[1]].version
        /\ c[2].version = delivery[c[1]].version => c[2].token = delivery[c[1]].token

Answered(d) == {n \in 1..MaxClaims : attempt[d][n] \in {"succeeded", "failed"}}
UsedKeys(d) == {k \in Keys : replayed[k] = d}
AnswersOf(d) == Cardinality(Answered(d))
Windows(d) == MaxAttempts * (1 + Cardinality(UsedKeys(d)))

\* A delivery that is due or processed has room in its windows for the answer that comes
\* next and for all that its maximum still allows.
HasRoom(d) ==
    LET row == delivery[d]
    IN  /\ AnswersOf(d) <= Windows(d)
        /\ row.status = "none" => AnswersOf(d) = 0
        /\ row.status \in Live => AnswersOf(d) + 1 <= Windows(d)
        /\ row.status \in Due => AnswersOf(d) + row.max - row.count <= Windows(d)
        /\ row.status = "processing" => AnswersOf(d) + row.max - row.count + 1 <= Windows(d)

RoomIsLeft == \A d \in Deliveries : HasRoom(d)

\* The inductive invariant.
WebhookInv ==
    TypeOK /\ CandidatesAreHonest /\ OneOpenAttempt /\ StoppedIsQuiet /\ RoomIsLeft

-----------------------------------------------------------------------------
(* Types *)

\* A row that is written keeps its type, its count and its place, and its version grows.
LEMMA WrittenFields ==
    ASSUME NEW row \in Row, NEW status \in Live \cup Final \cup {"none", "dead_lettered"}
    PROVE  /\ Written(row, status) \in Row
           /\ Written(row, status).status = status
           /\ Written(row, status).count = row.count
           /\ Written(row, status).max = row.max
           /\ Written(row, status).token = 0
           /\ Written(row, status).version = row.version + 1
<1> DEFINE r1 == [row EXCEPT !.status = status]
           r2 == [r1 EXCEPT !.token = 0]
           r3 == [r2 EXCEPT !.lapsed = FALSE]
           r4 == [r3 EXCEPT !.version = row.version + 1]
<1>1. Written(row, status) = r4
  BY DEF Written
<1>2. r1 \in Row /\ r1.status = status /\ r1.count = row.count /\ r1.max = row.max /\ r1.version = row.version
  BY DEF Row
<1>3. r2 \in Row /\ r2.status = status /\ r2.count = row.count /\ r2.max = row.max /\ r2.version = row.version /\ r2.token = 0
  <2> HIDE DEF r1
  <2> QED BY <1>2, WebhookAssumption DEF Row
<1>4. r3 \in Row /\ r3.status = status /\ r3.count = row.count /\ r3.max = row.max /\ r3.version = row.version /\ r3.token = 0
  <2> HIDE DEF r2
  <2> QED BY <1>3 DEF Row
<1>5. r4 \in Row /\ r4.status = status /\ r4.count = row.count /\ r4.max = row.max /\ r4.version = row.version + 1 /\ r4.token = 0
  <2> HIDE DEF r3
  <2>1. row.version + 1 \in Nat
    BY DEF Row
  <2> QED BY <1>4, <2>1 DEF Row
<1> HIDE DEF r4
<1> QED
  BY <1>1, <1>5

\* A claim numbers the attempt and gives it the token.
LEMMA ClaimedFields ==
    ASSUME NEW row \in Row, NEW n \in 0..MaxClaims
    PROVE  /\ [row EXCEPT !.count = n, !.token = n] \in Row
           /\ [row EXCEPT !.count = n, !.token = n].status = row.status
           /\ [row EXCEPT !.count = n, !.token = n].count = n
           /\ [row EXCEPT !.count = n, !.token = n].token = n
           /\ [row EXCEPT !.count = n, !.token = n].version = row.version
           /\ [row EXCEPT !.count = n, !.token = n].max = row.max
<1> DEFINE r1 == [row EXCEPT !.count = n]
           r2 == [r1 EXCEPT !.token = n]
<1>1. [row EXCEPT !.count = n, !.token = n] = r2
  OBVIOUS
<1>2. r1 \in Row /\ r1.status = row.status /\ r1.count = n /\ r1.max = row.max /\ r1.version = row.version
  BY DEF Row
<1>3. r2 \in Row /\ r2.status = row.status /\ r2.count = n /\ r2.max = row.max /\ r2.version = row.version /\ r2.token = n
  <2> HIDE DEF r1
  <2> QED BY <1>2 DEF Row
<1> HIDE DEF r2
<1> QED
  BY <1>1, <1>3

\* A delivery is queued when it is received.
LEMMA QueuedFields ==
    ASSUME NEW row \in Row, NEW m \in Nat
    PROVE  LET new == [row EXCEPT !.status = "queued", !.max = m]
           IN /\ new \in Row 
              /\ new.status = "queued" /\ new.max = m /\ new.token = row.token /\ new.count = row.count /\ new.version = row.version
<1> DEFINE r1 == [row EXCEPT !.status = "queued"]
           r2 == [r1 EXCEPT !.max = m]
<1>1. [row EXCEPT !.status = "queued", !.max = m] = r2
  OBVIOUS
<1>2. r1 \in Row /\ r1.status = "queued" /\ r1.count = row.count /\ r1.version = row.version /\ r1.token = row.token
  BY DEF Row, Live, Due
<1>3. r2 \in Row /\ r2.status = "queued" /\ r2.max = m /\ r2.count = row.count /\ r2.version = row.version /\ r2.token = row.token
  <2> HIDE DEF r1
  <2> QED BY <1>2 DEF Row
<1> HIDE DEF r2
<1> QED
  BY <1>1, <1>3

\* A replay gives a new maximum.
LEMMA MaxFields ==
    ASSUME NEW row \in Row, NEW m \in Nat
    PROVE  LET new == [row EXCEPT !.max = m]
           IN /\ new \in Row 
              /\ new.status = row.status /\ new.max = m /\ new.token = row.token /\ new.count = row.count /\ new.version = row.version
  BY DEF Row

\* A lease that lapses changes nothing else.
LEMMA LapsedFields ==
    ASSUME NEW row \in Row
    PROVE  LET new == [row EXCEPT !.lapsed = TRUE]
           IN /\ new \in Row 
              /\ new.status = row.status /\ new.max = row.max /\ new.token = row.token /\ new.count = row.count /\ new.version = row.version
  BY DEF Row

\* A worker that has read the control is in a round.
LEMMA EnabledIsRound == ASSUME NEW h \in Round PROVE [h EXCEPT !.pc = "enabled"] \in Round
  BY DEF Round

\* What a worker goes on with.
LEMMA RoundFields ==
    ASSUME NEW h \in Round, NEW C \in SUBSET (Deliveries \X Row),
           NEW N \in SUBSET (Deliveries \X (1..MaxClaims))
    PROVE  /\ [h EXCEPT !.candidates = C] \in Round
           /\ [h EXCEPT !.claims = N] \in Round
           /\ [h EXCEPT !.pc = "claiming", !.candidates = C] \in Round
           /\ [h EXCEPT !.candidates = C, !.claims = N] \in Round
<1>1. /\ [h EXCEPT !.pc = "claiming"] \in Round
      /\ [h EXCEPT !.candidates = C] \in Round
      /\ [h EXCEPT !.claims = N] \in Round
  BY DEF Round
<1>2. [[h EXCEPT !.pc = "claiming"] EXCEPT !.candidates = C] \in Round
  BY <1>1 DEF Round
<1>3. [[h EXCEPT !.candidates = C] EXCEPT !.claims = N] \in Round
  BY <1>1 DEF Round
<1> QED
  BY <1>1, <1>2, <1>3

\* The types hold at the beginning.
LEMMA WebhookTypeInit == Init => TypeOK
<1> SUFFICES ASSUME Init PROVE TypeOK
  OBVIOUS
<1>1. NoRow \in Row
  BY WebhookAssumption DEF NoRow, Row
<1> QED
  BY <1>1, WebhookAssumption DEF Init, TypeOK, Idle, Round, AttemptStatuses

\* Every handler keeps them.
LEMMA WebhookTypeStep == TypeOK /\ [Next]_vars => TypeOK'
<1> SUFFICES ASSUME TypeOK, [Next]_vars PROVE TypeOK'
  OBVIOUS
<1> USE WebhookAssumption DEF TypeOK
<1>1. ASSUME NEW d \in Deliveries, Receive(d) PROVE TypeOK'
  <2>1. PICK m \in 1..MaxAttempts :
          delivery' = [delivery EXCEPT ![d] = [@ EXCEPT !.status = "queued", !.max = m]]
    BY <1>1 DEF Receive
  <2>2. [delivery[d] EXCEPT !.status = "queued", !.max = m] \in Row
    <3>1. m \in Nat /\ delivery[d] \in Row
      OBVIOUS
    <3> QED
      BY <3>1, QueuedFields
  <2>3. delivery' \in [Deliveries -> Row]
    BY <2>1, <2>2
  <2> QED
    BY <1>1, <2>3 DEF Receive
<1>2. ASSUME NEW d \in Deliveries, LeaseLapses(d) PROVE TypeOK'
  <2>1. [delivery[d] EXCEPT !.lapsed = TRUE] \in Row
    BY LapsedFields
  <2>2. delivery' \in [Deliveries -> Row]
    BY <1>2, <2>1 DEF LeaseLapses
  <2> QED
    BY <1>2, <2>2 DEF LeaseLapses
<1>3. ASSUME NEW d \in Deliveries, NEW k \in Keys, Replay(d, k) PROVE TypeOK'
  <2>1. PICK m \in 1..MaxAttempts : delivery' = [delivery EXCEPT ![d] =
            [Written(@, "queued") EXCEPT !.max = delivery[d].count + m]]
    BY <1>3 DEF Replay
  <2>2. Written(delivery[d], "queued") \in Row
    BY WrittenFields DEF Live, Due
  <2>3. delivery[d].count + m \in Nat
    BY DEF Row
  <2>4. [Written(delivery[d], "queued") EXCEPT !.max = delivery[d].count + m] \in Row
    BY <2>2, <2>3, MaxFields
  <2>5. delivery' \in [Deliveries -> Row]
    BY <2>1, <2>4
  <2> QED
    BY <1>3, <2>5 DEF Replay
<1>4. ASSUME CancelDeliveries
      PROVE  /\ delivery' \in [Deliveries -> Row]
             /\ attempt' \in [Deliveries -> [1..MaxClaims -> AttemptStatuses]]
  <2>1. \A d \in Deliveries : Written(delivery[d], "cancelled") \in Row
    BY WrittenFields DEF Final
  <2> QED
    BY <1>4, <2>1 DEF CancelDeliveries, AttemptStatuses
<1>5. ASSUME NEW enabled \in BOOLEAN, UpdateControl(enabled) PROVE TypeOK'
  BY <1>4, <1>5 DEF UpdateControl
<1>6. ASSUME NEW next \in {"active", "disabled", "deleted"}, TransitionSubscription(next)
      PROVE  TypeOK'
  BY <1>4, <1>6 DEF TransitionSubscription
<1>7. CASE EraseAccount
  BY <1>7 DEF EraseAccount
<1>8. ASSUME NEW w \in Workers, ReadControl(w) \/ FindNothing(w) \/ Stop(w) PROVE TypeOK'
  <2>1. Idle \in Round
    BY DEF Idle, Round
  <2> QED
    <3>1. CASE ReadControl(w)
      BY <2>1, <3>1, EnabledIsRound DEF ReadControl
    <3>2. CASE FindNothing(w)
      BY <2>1, <3>2, EnabledIsRound DEF FindNothing
    <3>3. CASE Stop(w)
      BY <2>1, <3>3 DEF Stop
    <3> QED
      BY <1>8, <3>1, <3>2, <3>3
<1>9. ASSUME NEW w \in Workers, ReadCandidates(w) PROVE TypeOK'
  <2>1. PICK D \in SUBSET Deliveries :
          worker' = [worker EXCEPT ![w] =
                [@ EXCEPT !.pc = "claiming", !.candidates = {<<d, delivery[d]>> : d \in D}]]
    BY <1>9 DEF ReadCandidates
  <2>2. {<<d, delivery[d]>> : d \in D} \in SUBSET (Deliveries \X Row)
    OBVIOUS
  <2>3. worker' \in [Workers -> Round]
    BY <2>1, <2>2, RoundFields
  <2> QED
    BY <1>9, <2>3 DEF ReadCandidates
<1>10. ASSUME NEW w \in Workers, Claim(w) PROVE TypeOK'
  <2>1. PICK c \in worker[w].candidates :
          /\ delivery[c[1]].count + 1 <= MaxClaims
          /\ delivery' = [delivery EXCEPT ![c[1]] =
                [Written(@, "processing") EXCEPT !.count = delivery[c[1]].count + 1,
                                                 !.token = delivery[c[1]].count + 1]]
          /\ attempt' = NextAttempt(c[2], c[1])
          /\ worker' = [worker EXCEPT ![w].candidates = @ \ {c},
                        ![w].claims = @ \cup {<<c[1], delivery[c[1]].count + 1>>}]
    BY <1>10 DEF Claim
  <2>2. c[1] \in Deliveries /\ c \in Deliveries \X Row
    BY <2>1 DEF Round
  <2>3. delivery[c[1]].count + 1 \in 1..MaxClaims
    BY <2>1, <2>2 DEF Row
  <2>4. Written(delivery[c[1]], "processing") \in Row
    BY <2>2, WrittenFields DEF Live
  <2>5. [Written(delivery[c[1]], "processing") EXCEPT !.count = delivery[c[1]].count + 1,
                                                      !.token = delivery[c[1]].count + 1] \in Row
    <3>1. delivery[c[1]].count + 1 \in 0..MaxClaims
      BY <2>3
    <3> QED
      BY <2>4, <3>1, ClaimedFields, Zenon
  <2>6. delivery' \in [Deliveries -> Row]
    BY <2>1, <2>2, <2>5
  <2>7. attempt' \in [Deliveries -> [1..MaxClaims -> AttemptStatuses]]
    BY <2>1, <2>2 DEF NextAttempt, AttemptStatuses
  <2>8. worker' \in [Workers -> Round]
    <3>1. worker[w] \in Round
      OBVIOUS
    <3>2. /\ worker[w].candidates \ {c} \in SUBSET (Deliveries \X Row)
          /\ worker[w].claims \cup {<<c[1], delivery[c[1]].count + 1>>}
                \in SUBSET (Deliveries \X (1..MaxClaims))
      BY <2>2, <2>3, <3>1 DEF Round
    <3> DEFINE C == worker[w].candidates \ {c}
               N == worker[w].claims \cup {<<c[1], delivery[c[1]].count + 1>>}
    <3>3. [worker[w] EXCEPT !.candidates = C, !.claims = N] \in Round
      BY <3>1, <3>2, RoundFields
    <3>4. worker' = [worker EXCEPT ![w] = [worker[w] EXCEPT !.candidates = C, !.claims = N]]
      BY <2>1
    <3> QED
      BY <3>3, <3>4
  <2> QED
    BY <1>10, <2>6, <2>7, <2>8 DEF Claim
<1>11. ASSUME NEW w \in Workers, LoseCandidate(w) PROVE TypeOK'
  <2>1. PICK c \in worker[w].candidates : worker' = [worker EXCEPT ![w].candidates = @ \ {c}]
    BY <1>11 DEF LoseCandidate
  <2>2. worker[w].candidates \ {c} \in SUBSET (Deliveries \X Row)
    BY DEF Round
  <2> QED
    BY <1>11, <2>1, <2>2, RoundFields DEF LoseCandidate
<1>12. ASSUME NEW w \in Workers, NEW c \in worker[w].claims, Dropped(w, c)
       PROVE  worker' \in [Workers -> Round]
  <2>1. Idle \in Round
    BY DEF Idle, Round
  <2>2. worker[w].claims \ {c} \in SUBSET (Deliveries \X (1..MaxClaims))
    BY DEF Round
  <2>3. [worker[w] EXCEPT !.claims = worker[w].claims \ {c}] \in Round
    BY <2>2, RoundFields
  <2> QED
    BY <1>12, <2>1, <2>3 DEF Dropped
<1>13. ASSUME NEW w \in Workers, NEW o \in {"success", "retryable_failure", "permanent_failure"},
              Complete(w, o)
       PROVE  TypeOK'
  <2>1. PICK c \in worker[w].claims : /\ Dropped(w, c)
           /\ \E status \in {"succeeded", "retry_scheduled", "dead_lettered"} :
                delivery' = [delivery EXCEPT ![c[1]] = Written(@, status)]
           /\ attempt' = [attempt EXCEPT ![c[1]] = [n \in 1..MaxClaims |->
                    IF n = c[2] /\ @[n] = "processing"
                    THEN IF o = "success" THEN "succeeded" ELSE "failed"
                    ELSE @[n]]]
    BY <1>13 DEF Complete
  <2>2. c[1] \in Deliveries
    BY DEF Round
  <2>3. delivery' \in [Deliveries -> Row]
    BY <2>1, <2>2, WrittenFields DEF Live, Due, Final
  <2>4. attempt' \in [Deliveries -> [1..MaxClaims -> AttemptStatuses]]
    BY <2>1, <2>2 DEF AttemptStatuses
  <2> QED
    BY <1>12, <1>13, <2>1, <2>3, <2>4 DEF Complete
<1>14. ASSUME NEW w \in Workers, CompleteLate(w) PROVE TypeOK'
  BY <1>12, <1>14 DEF CompleteLate
<1>15. CASE UNCHANGED vars
  BY <1>15 DEF vars
<1> QED
  BY <1>1, <1>2, <1>3, <1>5, <1>6, <1>7, <1>8, <1>9, <1>10, <1>11, <1>13, <1>14, <1>15 DEF Next

\* Every row, attempt, switch and worker keeps its type.
THEOREM WebhookTypeCorrect == Spec => []TypeOK
<1>1. Init => TypeOK
  BY WebhookTypeInit
<1>2. TypeOK /\ [Next]_vars => TypeOK'
  BY WebhookTypeStep
<1> QED
  BY <1>1, <1>2, PTL DEF Spec

-----------------------------------------------------------------------------
(* What a step does to the rows *)

\* A row keeps its version and its token, or its version grows.
Advances(d) ==
    \/ delivery'[d].version = delivery[d].version /\ delivery'[d].token = delivery[d].token
    \/ delivery'[d].version = delivery[d].version + 1

LEMMA RowsAdvance == TypeOK /\ [Next]_vars => \A d \in Deliveries : Advances(d)
<1> SUFFICES ASSUME TypeOK, [Next]_vars, NEW e \in Deliveries PROVE Advances(e)
  OBVIOUS
<1>0. delivery \in [Deliveries -> Row] /\ worker \in [Workers -> Round]
  BY DEF TypeOK
<1>1. ASSUME NEW d \in Deliveries, Receive(d) PROVE Advances(e)
  <2>1. PICK m \in 1..MaxAttempts :
          delivery' = [delivery EXCEPT ![d] = [@ EXCEPT !.status = "queued", !.max = m]]
    BY <1>1 DEF Receive
  <2>2. m \in Nat /\ delivery[d] \in Row
    BY <1>0, WebhookAssumption
  <2>3. /\ [delivery[d] EXCEPT !.status = "queued", !.max = m].version = delivery[d].version
        /\ [delivery[d] EXCEPT !.status = "queued", !.max = m].token = delivery[d].token
    BY <2>2, QueuedFields
  <2> QED
    BY <1>0, <2>1, <2>3 DEF Advances
<1>2. ASSUME NEW d \in Deliveries, LeaseLapses(d) PROVE Advances(e)
  BY <1>0, <1>2, LapsedFields DEF LeaseLapses, Advances
<1>3. ASSUME NEW d \in Deliveries, NEW k \in Keys, Replay(d, k) PROVE Advances(e)
  <2>1. PICK m \in 1..MaxAttempts : delivery' = [delivery EXCEPT ![d] =
            [Written(@, "queued") EXCEPT !.max = delivery[d].count + m]]
    BY <1>3 DEF Replay
  <2>2. /\ Written(delivery[d], "queued") \in Row
        /\ Written(delivery[d], "queued").version = delivery[d].version + 1
    BY <1>0, WrittenFields DEF Live, Due
  <2>3. delivery[d].count + m \in Nat
    BY <1>0, WebhookAssumption DEF Row
  <2> QED
    BY <1>0, <2>1, <2>2, <2>3, MaxFields DEF Advances
<1>4. ASSUME CancelDeliveries PROVE Advances(e)
  <2>1. Written(delivery[e], "cancelled").version = delivery[e].version + 1
    BY <1>0, WrittenFields DEF Final
  <2> QED
    BY <1>0, <1>4, <2>1 DEF CancelDeliveries, Advances
<1>5. ASSUME NEW enabled \in BOOLEAN, UpdateControl(enabled) PROVE Advances(e)
  BY <1>4, <1>5 DEF UpdateControl, Advances
<1>6. ASSUME NEW next \in {"active", "disabled", "deleted"}, TransitionSubscription(next)
      PROVE  Advances(e)
  BY <1>4, <1>6 DEF TransitionSubscription, Advances
<1>7. CASE UNCHANGED delivery
  BY <1>7 DEF Advances
<1>8. ASSUME NEW w \in Workers, Claim(w) PROVE Advances(e)
  <2>1. PICK c \in worker[w].candidates :
          /\ delivery[c[1]].count + 1 <= MaxClaims
          /\ delivery' = [delivery EXCEPT ![c[1]] =
                [Written(@, "processing") EXCEPT !.count = delivery[c[1]].count + 1,
                                                 !.token = delivery[c[1]].count + 1]]
    BY <1>8 DEF Claim
  <2>2. c[1] \in Deliveries
    BY <1>0, <2>1 DEF Round
  <2>3. delivery[c[1]].count + 1 \in 0..MaxClaims
    BY <1>0, <2>1, <2>2, WebhookAssumption DEF Row
  <2>4. /\ Written(delivery[c[1]], "processing") \in Row
        /\ Written(delivery[c[1]], "processing").version = delivery[c[1]].version + 1
    BY <1>0, <2>2, WrittenFields DEF Live
  <2>5. delivery'[c[1]].version = delivery[c[1]].version + 1
    BY <1>0, <2>1, <2>2, <2>3, <2>4, ClaimedFields
  <2> QED
    BY <1>0, <2>1, <2>5 DEF Advances
<1>9. ASSUME NEW w \in Workers, NEW o \in {"success", "retryable_failure", "permanent_failure"},
             Complete(w, o)
      PROVE  Advances(e)
  <2>1. PICK c \in worker[w].claims :
           \E status \in {"succeeded", "retry_scheduled", "dead_lettered"} :
                delivery' = [delivery EXCEPT ![c[1]] = Written(@, status)]
    BY <1>9 DEF Complete
  <2>2. c[1] \in Deliveries
    BY <1>0 DEF Round
  <2>3. \A status \in {"succeeded", "retry_scheduled", "dead_lettered"} :
            Written(delivery[c[1]], status).version = delivery[c[1]].version + 1
    BY <1>0, <2>2, WrittenFields DEF Live, Due, Final
  <2> QED
    BY <1>0, <2>1, <2>2, <2>3 DEF Advances
<1> QED
  BY <1>1, <1>2, <1>3, <1>5, <1>6, <1>7, <1>8, <1>9
     DEF Next, EraseAccount, ReadControl, ReadCandidates, FindNothing, LoseCandidate,
         CompleteLate, Stop, vars

\* A candidate that a worker has after a step was one before, or has just been read.
LEMMA CandidatesAreRead ==
    ASSUME TypeOK, [Next]_vars, NEW w \in Workers, NEW c \in worker'[w].candidates
    PROVE  \/ c \in worker[w].candidates
           \/ /\ UNCHANGED delivery
              /\ c[1] \in Deliveries
              /\ c[2] = delivery[c[1]]
              /\ c[2].status \in Live
<1>0. worker \in [Workers -> Round]
  BY DEF TypeOK
<1>1. CASE worker' = worker
  BY <1>1
<1>2. ASSUME NEW v \in Workers, ReadControl(v) \/ FindNothing(v) \/ Stop(v)
      PROVE  c \in worker[w].candidates
  BY <1>0, <1>2 DEF ReadControl, FindNothing, Stop, Idle, Round
<1>3. ASSUME NEW v \in Workers, ReadCandidates(v)
      PROVE  \/ c \in worker[w].candidates
             \/ /\ UNCHANGED delivery
                /\ c[1] \in Deliveries
                /\ c[2] = delivery[c[1]]
                /\ c[2].status \in Live
  <2>1. PICK D \in SUBSET {d \in Deliveries :
                            \/ delivery[d].status \in Due
                            \/ delivery[d].status = "processing" /\ delivery[d].lapsed} :
            worker' = [worker EXCEPT ![v] =
                [@ EXCEPT !.pc = "claiming", !.candidates = {<<d, delivery[d]>> : d \in D}]]
    BY <1>3 DEF ReadCandidates
  <2>2. CASE w # v
    BY <1>0, <2>1, <2>2
  <2>3. CASE w = v
    <3>1. worker'[w].candidates = {<<d, delivery[d]>> : d \in D}
      BY <1>0, <2>1, <2>3 DEF Round
    <3>2. PICK d \in D : c = <<d, delivery[d]>>
      BY <3>1
    <3> QED
      BY <1>3, <3>2 DEF ReadCandidates, Live
  <2> QED
    BY <2>2, <2>3
<1>4. ASSUME NEW v \in Workers, Claim(v) PROVE c \in worker[w].candidates
  BY <1>0, <1>4 DEF Claim, Round
<1>5. ASSUME NEW v \in Workers, LoseCandidate(v) PROVE c \in worker[w].candidates
  BY <1>0, <1>5 DEF LoseCandidate, Round
<1>6. ASSUME NEW v \in Workers, NEW b, Dropped(v, b) PROVE c \in worker[w].candidates
  BY <1>0, <1>6 DEF Dropped, Idle, Round
<1> QED
  BY <1>1, <1>2, <1>3, <1>4, <1>5, <1>6
     DEF Next, Receive, LeaseLapses, Replay, UpdateControl, TransitionSubscription,
         EraseAccount, Complete, CompleteLate, vars

LEMMA CandidatesStep ==
    TypeOK /\ CandidatesAreHonest /\ [Next]_vars => CandidatesAreHonest'
<1> SUFFICES ASSUME TypeOK, CandidatesAreHonest, [Next]_vars,
                    NEW w \in Workers, NEW c \in worker'[w].candidates
             PROVE  /\ c[2].status \in Live
                    /\ c[2].version <= delivery'[c[1]].version
                    /\ c[2].version = delivery'[c[1]].version => c[2].token = delivery'[c[1]].token
  BY DEF CandidatesAreHonest
<1>1. CASE c \in worker[w].candidates
  <2>1. c \in Deliveries \X Row
    BY <1>1 DEF TypeOK, Round
  <2>2. Advances(c[1]) /\ c[2].version \in Nat /\ delivery[c[1]].version \in Nat
    BY <2>1, RowsAdvance DEF TypeOK, Row
  <2>3. /\ c[2].status \in Live
        /\ c[2].version <= delivery[c[1]].version
        /\ c[2].version = delivery[c[1]].version => c[2].token = delivery[c[1]].token
    BY <1>1 DEF CandidatesAreHonest
  <2> QED
    BY <2>2, <2>3 DEF Advances
<1>2. CASE /\ UNCHANGED delivery
           /\ c[1] \in Deliveries
           /\ c[2] = delivery[c[1]]
           /\ c[2].status \in Live
  BY <1>2 DEF TypeOK, Row
<1> QED
  BY <1>1, <1>2, CandidatesAreRead

-----------------------------------------------------------------------------
(* One open attempt *)

\* A delivery whose row is not processed any more and whose attempts are all closed.
Closed(d) ==
    /\ delivery'[d].status # "processing"
    /\ \A n \in 1..MaxClaims : attempt'[d][n] # "processing"

\* A delivery whose attempts, token and count stay, and whether it is processed.
Untouched(d) ==
    /\ \A n \in 1..MaxClaims : attempt'[d][n] = attempt[d][n]
    /\ delivery'[d].token = delivery[d].token
    /\ delivery'[d].count = delivery[d].count
    /\ delivery'[d].status = "processing" <=> delivery[d].status = "processing"

\* The property for one delivery.
OneOpen(d) ==
    \A n \in 1..MaxClaims :
        attempt[d][n] = "processing" <=>
            /\ delivery[d].status = "processing"
            /\ delivery[d].token = n
            /\ delivery[d].count = n

\* What is closed has no open attempt, what is untouched has the one it had.
LEMMA ClosedOrUntouched ==
    ASSUME NEW d, OneOpen(d), Closed(d) \/ Untouched(d)
    PROVE  OneOpen(d)'
BY DEF OneOpen, Closed, Untouched

\* The switches close what they cancel.
LEMMA CancelCloses ==
    ASSUME TypeOK, OneOpenAttempt, CancelDeliveries, NEW d \in Deliveries
    PROVE  /\ Closed(d) \/ Untouched(d)
           /\ delivery'[d].status \notin Live
<1>0. delivery \in [Deliveries -> Row] /\ attempt \in [Deliveries -> [1..MaxClaims -> AttemptStatuses]]
  BY DEF TypeOK
<1>1. Written(delivery[d], "cancelled").status = "cancelled"
  BY <1>0, WrittenFields DEF Final
<1>2. CASE delivery[d].status \in Live
  <2>1. delivery'[d].status = "cancelled"
    BY <1>0, <1>1, <1>2 DEF CancelDeliveries
  <2>2. ASSUME NEW n \in 1..MaxClaims PROVE attempt'[d][n] # "processing"
    <3>1. attempt[d][n] = "processing" => delivery[d].token = n
      BY DEF OneOpenAttempt
    <3> QED
      BY <1>0, <1>2, <3>1 DEF CancelDeliveries
  <2> QED
    BY <2>1, <2>2 DEF Closed, Live, Due
<1>3. CASE delivery[d].status \notin Live
  <2>1. delivery'[d] = delivery[d]
    BY <1>0, <1>3 DEF CancelDeliveries
  <2>2. \A n \in 1..MaxClaims : attempt'[d][n] = attempt[d][n]
    BY <1>0, <1>3 DEF CancelDeliveries
  <2> QED
    BY <1>3, <2>1, <2>2 DEF Untouched
<1> QED
  BY <1>2, <1>3

LEMMA OneOpenStep == WebhookInv /\ [Next]_vars => OneOpenAttempt'
<1> SUFFICES ASSUME WebhookInv, [Next]_vars, NEW e \in Deliveries PROVE OneOpen(e)'
  BY DEF OneOpenAttempt, OneOpen
<1>0. /\ delivery \in [Deliveries -> Row]
      /\ attempt \in [Deliveries -> [1..MaxClaims -> AttemptStatuses]]
      /\ worker \in [Workers -> Round]
      /\ OneOpen(e) /\ TypeOK /\ OneOpenAttempt
  BY DEF WebhookInv, TypeOK, OneOpenAttempt, OneOpen
<1>1. ASSUME NEW d \in Deliveries, Receive(d) PROVE OneOpen(e)'
  <2>1. PICK m \in 1..MaxAttempts :
          delivery' = [delivery EXCEPT ![d] = [@ EXCEPT !.status = "queued", !.max = m]]
    BY <1>1 DEF Receive
  <2>2. m \in Nat /\ delivery[d] \in Row
    BY <1>0, WebhookAssumption
  <2>3. /\ [delivery[d] EXCEPT !.status = "queued", !.max = m].status = "queued"
        /\ [delivery[d] EXCEPT !.status = "queued", !.max = m].token = delivery[d].token
        /\ [delivery[d] EXCEPT !.status = "queued", !.max = m].count = delivery[d].count
    BY <2>2, QueuedFields
  <2>4. Untouched(e)
    BY <1>0, <1>1, <2>1, <2>3 DEF Receive, Untouched
  <2> QED
    BY <1>0, <2>4, ClosedOrUntouched
<1>2. ASSUME NEW d \in Deliveries, LeaseLapses(d) PROVE OneOpen(e)'
  <2>1. Untouched(e)
    BY <1>0, <1>2, LapsedFields DEF LeaseLapses, Untouched
  <2> QED
    BY <1>0, <2>1, ClosedOrUntouched
<1>3. ASSUME NEW d \in Deliveries, NEW k \in Keys, Replay(d, k) PROVE OneOpen(e)'
  <2>1. PICK m \in 1..MaxAttempts : delivery' = [delivery EXCEPT ![d] =
            [Written(@, "queued") EXCEPT !.max = delivery[d].count + m]]
    BY <1>3 DEF Replay
  <2>2. /\ Written(delivery[d], "queued") \in Row
        /\ Written(delivery[d], "queued").status = "queued"
    BY <1>0, WrittenFields DEF Live, Due
  <2>3. delivery[d].count + m \in Nat
    BY <1>0, WebhookAssumption DEF Row
  <2>4. delivery'[d].status = "queued"
    BY <1>0, <2>1, <2>2, <2>3, MaxFields
  <2>5. CASE e = d
    <3>1. Closed(e)
      BY <1>0, <1>3, <2>4, <2>5 DEF Replay, Closed, OneOpen
    <3> QED
      BY <1>0, <3>1, ClosedOrUntouched
  <2>6. CASE e # d
    <3>1. Untouched(e)
      BY <1>0, <1>3, <2>1, <2>6 DEF Replay, Untouched
    <3> QED
      BY <1>0, <3>1, ClosedOrUntouched
  <2> QED
    BY <2>5, <2>6
<1>4. ASSUME NEW enabled \in BOOLEAN, UpdateControl(enabled) PROVE OneOpen(e)'
  <2>1. Closed(e) \/ Untouched(e)
    BY <1>0, <1>4, CancelCloses DEF UpdateControl, Untouched
  <2> QED
    BY <1>0, <2>1, ClosedOrUntouched
<1>5. ASSUME NEW next \in {"active", "disabled", "deleted"}, TransitionSubscription(next)
      PROVE  OneOpen(e)'
  <2>1. Closed(e) \/ Untouched(e)
    BY <1>0, <1>5, CancelCloses DEF TransitionSubscription, Untouched
  <2> QED
    BY <1>0, <2>1, ClosedOrUntouched
<1>6. CASE UNCHANGED <<delivery, attempt>>
  BY <1>0, <1>6 DEF OneOpen
<1>7. ASSUME NEW w \in Workers, Claim(w) PROVE OneOpen(e)'
  <2>1. PICK c \in worker[w].candidates :
          /\ Unchanged(c[2], delivery[c[1]])
          /\ delivery[c[1]].count + 1 <= MaxClaims
          /\ delivery' = [delivery EXCEPT ![c[1]] =
                [Written(@, "processing") EXCEPT !.count = delivery[c[1]].count + 1,
                                                 !.token = delivery[c[1]].count + 1]]
          /\ attempt' = NextAttempt(c[2], c[1])
    BY <1>7 DEF Claim
  <2>2. c[1] \in Deliveries
    BY <1>0, <2>1 DEF Round
  <2> DEFINE d == c[1]
             n == delivery[d].count + 1
  <2>3. CASE e # d
    <3>1. Untouched(e)
      BY <1>0, <2>1, <2>2, <2>3 DEF NextAttempt, Untouched
    <3> QED
      BY <1>0, <3>1, ClosedOrUntouched
  <2>4. CASE e = d
    <3>1. n \in 0..MaxClaims
      BY <1>0, <2>1, <2>2, WebhookAssumption DEF Row
    <3>2. /\ Written(delivery[d], "processing") \in Row
          /\ Written(delivery[d], "processing").status = "processing"
      BY <1>0, <2>2, WrittenFields DEF Live
    <3>3. /\ delivery'[d].status = "processing"
          /\ delivery'[d].token = n
          /\ delivery'[d].count = n
      BY <1>0, <2>1, <2>2, <3>1, <3>2, ClaimedFields
    <3>4. c[2].token = delivery[d].token
      BY <2>1 DEF Unchanged, WebhookInv, CandidatesAreHonest
    <3>5. ASSUME NEW k \in 1..MaxClaims PROVE attempt'[d][k] = "processing" <=> k = n
      <4>1. attempt[d][k] = "processing" => k = c[2].token
        BY <1>0, <2>4, <3>4 DEF OneOpen
      <4>2. attempt'[d][k] = IF k = n THEN "processing"
                             ELSE IF k = c[2].token /\ attempt[d][k] = "processing" THEN "expired"
                             ELSE attempt[d][k]
        BY <1>0, <2>1, <2>2 DEF NextAttempt
      <4> QED
        BY <4>1, <4>2
    <3> QED
      BY <2>4, <3>3, <3>5 DEF OneOpen
  <2> QED
    BY <2>3, <2>4
<1>8. ASSUME NEW w \in Workers, NEW o \in {"success", "retryable_failure", "permanent_failure"},
             Complete(w, o)
      PROVE  OneOpen(e)'
  <2>1. PICK c \in worker[w].claims :
           /\ Holds(c)
           /\ \E status \in {"succeeded", "retry_scheduled", "dead_lettered"} :
                delivery' = [delivery EXCEPT ![c[1]] = Written(@, status)]
           /\ attempt' = [attempt EXCEPT ![c[1]] = [n \in 1..MaxClaims |->
                    IF n = c[2] /\ @[n] = "processing"
                    THEN IF o = "success" THEN "succeeded" ELSE "failed"
                    ELSE @[n]]]
    BY <1>8 DEF Complete
  <2>2. c[1] \in Deliveries
    BY <1>0 DEF Round
  <2>3. CASE e # c[1]
    <3>1. Untouched(e)
      BY <1>0, <2>1, <2>2, <2>3 DEF Untouched
    <3> QED
      BY <1>0, <3>1, ClosedOrUntouched
  <2>4. CASE e = c[1]
    <3>1. \A status \in {"succeeded", "retry_scheduled", "dead_lettered"} :
            Written(delivery[c[1]], status).status = status
      BY <1>0, <2>2, WrittenFields DEF Live, Due, Final
    <3>2. delivery'[e].status # "processing"
      BY <1>0, <2>1, <2>2, <2>4, <3>1
    <3>3. ASSUME NEW n \in 1..MaxClaims PROVE attempt'[e][n] # "processing"
      <4>1. attempt[e][n] = "processing" => n = c[2]
        BY <1>0, <2>1, <2>4 DEF OneOpen, Holds
      <4> QED
        BY <1>0, <2>1, <2>2, <2>4, <4>1
    <3>4. Closed(e)
      BY <3>2, <3>3 DEF Closed
    <3> QED
      BY <1>0, <3>4, ClosedOrUntouched
  <2> QED
    BY <2>3, <2>4
<1> QED
  BY <1>1, <1>2, <1>3, <1>4, <1>5, <1>6, <1>7, <1>8
     DEF Next, EraseAccount, ReadControl, ReadCandidates, FindNothing, LoseCandidate,
         CompleteLate, Stop, vars

-----------------------------------------------------------------------------
(* A subscription that is stopped *)

LEMMA StoppedStep == WebhookInv /\ [Next]_vars => StoppedIsQuiet'
<1> SUFFICES ASSUME WebhookInv, [Next]_vars, subscription' \in {"disabled", "deleted"},
                    NEW e \in Deliveries
             PROVE  delivery'[e].status \notin Live
  BY DEF StoppedIsQuiet
<1>0. /\ delivery \in [Deliveries -> Row]
      /\ worker \in [Workers -> Round]
      /\ TypeOK /\ OneOpenAttempt
  BY DEF WebhookInv, TypeOK
<1>1. CASE subscription' = subscription
  <2>1. \A d \in Deliveries : delivery[d].status \notin Live
    BY <1>1 DEF WebhookInv, StoppedIsQuiet
  <2>2. ASSUME NEW w \in Workers, Claim(w) PROVE FALSE
    <3>1. PICK c \in worker[w].candidates : Unchanged(c[2], delivery[c[1]])
      BY <2>2 DEF Claim
    <3>2. c[1] \in Deliveries /\ c[2].status \in Live
      BY <1>0, <3>1 DEF Round, WebhookInv, CandidatesAreHonest
    <3> QED
      BY <2>1, <3>1, <3>2 DEF Unchanged
  <2>3. ASSUME NEW w \in Workers, NEW o, Complete(w, o) PROVE FALSE
    <3>1. PICK c \in worker[w].claims : Holds(c)
      BY <2>3 DEF Complete
    <3>2. c[1] \in Deliveries
      BY <1>0, <3>1 DEF Round
    <3> QED
      BY <2>1, <3>1, <3>2 DEF Holds, Live
  <2>4. ASSUME NEW enabled \in BOOLEAN, UpdateControl(enabled) PROVE delivery'[e].status \notin Live
    BY <1>0, <2>1, <2>4, CancelCloses DEF UpdateControl
  <2>5. ASSUME NEW next, TransitionSubscription(next) PROVE FALSE
    BY <1>1, <2>5 DEF TransitionSubscription
  <2>6. ASSUME NEW d \in Deliveries, Receive(d) \/ LeaseLapses(d) \/ \E k \in Keys : Replay(d, k)
        PROVE  FALSE
    BY <1>1, <2>1, <2>6 DEF Receive, LeaseLapses, Replay, Live
  <2>7. CASE UNCHANGED delivery
    BY <2>1, <2>7
  <2> QED
    BY <2>2, <2>3, <2>4, <2>5, <2>6, <2>7
       DEF Next, EraseAccount, ReadControl, ReadCandidates, FindNothing, LoseCandidate,
           CompleteLate, Stop, vars
<1>2. CASE subscription' # subscription
  <2>1. CASE EraseAccount
    BY <2>1 DEF EraseAccount
  <2>2. ASSUME NEW next \in {"active", "disabled", "deleted"}, TransitionSubscription(next)
        PROVE  delivery'[e].status \notin Live
    BY <1>0, <2>2, CancelCloses DEF TransitionSubscription
  <2> QED
    BY <1>2, <2>1, <2>2
       DEF Next, Receive, LeaseLapses, Replay, UpdateControl, ReadControl, ReadCandidates,
           FindNothing, Claim, LoseCandidate, Complete, CompleteLate, Stop, vars
<1> QED
  BY <1>1, <1>2

-----------------------------------------------------------------------------
(* How often an endpoint answers *)

LEMMA AnswersFinite ==
    ASSUME NEW S \in SUBSET (1..MaxClaims)
    PROVE  IsFiniteSet(S) /\ Cardinality(S) \in Nat
<1>1. IsFiniteSet(1..MaxClaims)
    BY WebhookAssumption, FS_Interval
<1> QED BY <1>1, FS_Subset, FS_CardinalityType

LEMMA CountTypes ==
    ASSUME NEW d
    PROVE  /\ AnswersOf(d) \in Nat
           /\ Windows(d) \in Nat
           /\ MaxAttempts <= Windows(d)
<1>1. AnswersOf(d) \in Nat
    <2>1. Answered(d) \in SUBSET (1..MaxClaims)
        BY DEF Answered
    <2> QED BY <2>1, AnswersFinite DEF AnswersOf
<1>2. Cardinality(UsedKeys(d)) \in Nat
    BY WebhookAssumption, FS_Subset, FS_CardinalityType DEF UsedKeys
<1>3. ASSUME NEW k \in Nat, NEW m \in Nat PROVE m * (1 + k) \in Nat /\ m <= m * (1 + k)
    <2>1. m * k \in Nat /\ m * (1 + k) = m + m * k
        OBVIOUS
    <2> QED BY <2>1
<1> QED BY <1>1, <1>2, <1>3, WebhookAssumption DEF Windows

\* Fewer answers, or one more.
LEMMA SameAnswers ==
    ASSUME NEW d, Answered(d)' \subseteq Answered(d)
    PROVE  AnswersOf(d)' <= AnswersOf(d) /\ AnswersOf(d)' \in Nat
<1>1. Answered(d) \in SUBSET (1..MaxClaims)
    BY DEF Answered
<1>2. PICK S : S = Answered(d)'
    OBVIOUS
<1>3. IsFiniteSet(S) /\ Cardinality(S) \in Nat /\ Cardinality(S) <= Cardinality(Answered(d))
    BY <1>1, <1>2, AnswersFinite, FS_Subset
<1> QED BY <1>2, <1>3 DEF AnswersOf

LEMMA OneMoreAnswer ==
    ASSUME NEW d, NEW n, Answered(d)' \subseteq Answered(d) \cup {n}
    PROVE  AnswersOf(d)' <= AnswersOf(d) + 1 /\ AnswersOf(d)' \in Nat
<1>1. Answered(d) \in SUBSET (1..MaxClaims)
    BY DEF Answered
<1>2. PICK S : S = Answered(d)'
    OBVIOUS
<1>3. IsFiniteSet(Answered(d)) /\ Cardinality(Answered(d)) \in Nat
    BY <1>1, AnswersFinite
<1>4. /\ IsFiniteSet(Answered(d) \cup {n})
      /\ Cardinality(Answered(d) \cup {n}) <= Cardinality(Answered(d)) + 1
      /\ Cardinality(Answered(d) \cup {n}) \in Nat
    BY <1>3, FS_AddElement, FS_CardinalityType
<1>5. /\ Cardinality(S) \in Nat
      /\ Cardinality(S) <= Cardinality(Answered(d) \cup {n})
    BY <1>2, <1>4, FS_Subset, FS_CardinalityType
<1>6. Cardinality(S) <= Cardinality(Answered(d)) + 1
    BY ONLY <1>3, <1>4, <1>5
<1> QED BY <1>2, <1>5, <1>6 DEF AnswersOf

\* A replay with a new key opens a window.
LEMMA NewWindow ==
    ASSUME TypeOK, NEW d \in Deliveries, NEW k \in Keys, replayed[k] = None,
           replayed' = [replayed EXCEPT ![k] = d]
    PROVE  /\ Windows(d)' = Windows(d) + MaxAttempts
           /\ \A e \in Deliveries \ {d} : Windows(e)' = Windows(e)
<1>1. replayed \in [Keys -> Deliveries \cup {None}]
    BY DEF TypeOK
<1>2. k \notin UsedKeys(d) /\ UsedKeys(d)' = UsedKeys(d) \cup {k}
    BY <1>1, WebhookAssumption DEF UsedKeys
<1>3. \A e \in Deliveries \ {d} : UsedKeys(e)' = UsedKeys(e)
    BY <1>1, WebhookAssumption DEF UsedKeys
<1>4. IsFiniteSet(UsedKeys(d)) /\ Cardinality(UsedKeys(d)) \in Nat
    BY WebhookAssumption, FS_Subset, FS_CardinalityType DEF UsedKeys
<1>5. Cardinality(UsedKeys(d) \cup {k}) = Cardinality(UsedKeys(d)) + 1
    BY <1>2, <1>4, FS_AddElement
<1>6. ASSUME NEW u \in Nat, NEW m \in Nat PROVE m * (1 + (u + 1)) = m * (1 + u) + m
    OBVIOUS
<1>7. Windows(d)' = MaxAttempts * (1 + (Cardinality(UsedKeys(d)) + 1))
    BY <1>2, <1>5 DEF Windows
<1>8. Windows(d)' = Windows(d) + MaxAttempts
    BY <1>4, <1>6, <1>7, WebhookAssumption DEF Windows
<1> QED BY <1>3, <1>8 DEF Windows

\* Without a replay the windows stay, and a row and attempts that stay keep their room.
LEMMA RoomKept ==
    ASSUME NEW d, HasRoom(d), delivery'[d] = delivery[d], Answered(d)' \subseteq Answered(d),
           Windows(d)' = Windows(d), TypeOK, d \in Deliveries
    PROVE  HasRoom(d)'
<1>1. AnswersOf(d)' <= AnswersOf(d) /\ AnswersOf(d)' \in Nat
    BY SameAnswers
<1>2. AnswersOf(d) \in Nat /\ Windows(d) \in Nat
    BY CountTypes
<1>3. delivery[d].count \in Nat /\ delivery[d].max \in Nat
    BY WebhookAssumption DEF TypeOK, Row
<1> QED BY <1>1, <1>2, <1>3 DEF HasRoom

\* A row that is closed needs no room.
LEMMA RoomClosed ==
    ASSUME NEW d, HasRoom(d), delivery'[d].status \notin Live \cup {"none"},
           Answered(d)' \subseteq Answered(d), Windows(d)' = Windows(d)
    PROVE  HasRoom(d)'
<1>1. AnswersOf(d)' <= AnswersOf(d) /\ AnswersOf(d)' \in Nat
    BY SameAnswers
<1>2. AnswersOf(d) \in Nat /\ Windows(d) \in Nat
    BY CountTypes
<1> QED BY <1>1, <1>2 DEF HasRoom, Live, Due

LEMMA RoomCancel ==
    ASSUME TypeOK, CancelDeliveries, NEW d \in Deliveries, HasRoom(d), UNCHANGED replayed
    PROVE  HasRoom(d)'
<1>0. /\ delivery \in [Deliveries -> Row]
      /\ attempt \in [Deliveries -> [1..MaxClaims -> AttemptStatuses]]
    BY DEF TypeOK
<1>1. Answered(d)' \subseteq Answered(d)
    BY <1>0 DEF CancelDeliveries, Answered
<1>2. Windows(d)' = Windows(d)
    BY DEF Windows, UsedKeys
<1>3. CASE delivery[d].status \in Live
    <2>1. delivery'[d].status = "cancelled"
        BY <1>0, <1>3, WrittenFields DEF CancelDeliveries, Final
    <2> QED BY <1>1, <1>2, <2>1, RoomClosed DEF Live, Due
<1>4. CASE delivery[d].status \notin Live
    <2>1. delivery'[d] = delivery[d]
        BY <1>0, <1>4 DEF CancelDeliveries
    <2> QED BY <1>1, <1>2, <2>1, RoomKept
<1> QED BY <1>3, <1>4

LEMMA RoomStep == WebhookInv /\ [Next]_vars => RoomIsLeft'
<1> SUFFICES ASSUME WebhookInv, [Next]_vars, NEW e \in Deliveries PROVE HasRoom(e)'
    BY DEF RoomIsLeft
<1>0. /\ delivery \in [Deliveries -> Row]
      /\ attempt \in [Deliveries -> [1..MaxClaims -> AttemptStatuses]]
      /\ worker \in [Workers -> Round]
      /\ HasRoom(e) /\ TypeOK
    BY DEF WebhookInv, TypeOK, RoomIsLeft
<1>c. /\ AnswersOf(e) \in Nat /\ Windows(e) \in Nat /\ MaxAttempts <= Windows(e)
      /\ delivery[e].count \in Nat /\ delivery[e].max \in Nat
    BY <1>0, CountTypes, WebhookAssumption DEF Row
<1>k. ASSUME delivery'[e] = delivery[e], attempt'[e] = attempt[e], UNCHANGED replayed
      PROVE  HasRoom(e)'
    <2>1. Answered(e)' = Answered(e) /\ Windows(e)' = Windows(e)
        BY <1>k DEF Answered, Windows, UsedKeys
    <2> QED BY <1>0, <1>k, <2>1, RoomKept
<1>1. ASSUME NEW d \in Deliveries, Receive(d) PROVE HasRoom(e)'
    <2>1. PICK m \in 1..MaxAttempts :
            delivery' = [delivery EXCEPT ![d] = [@ EXCEPT !.status = "queued", !.max = m]]
        BY <1>1 DEF Receive
    <2>2. m \in Nat /\ m <= MaxAttempts /\ 1 <= m /\ MaxAttempts \in Nat
        BY WebhookAssumption
    <2>3. CASE d # e
        BY <1>0, <1>1, <1>k, <2>1, <2>3 DEF Receive
    <2>4. CASE d = e
        <3>1. delivery'[e] = [delivery[e] EXCEPT !.status = "queued", !.max = m]
            BY <1>0, <2>1, <2>4
        <3>2. /\ delivery'[e].status = "queued" /\ delivery'[e].max = m
              /\ delivery'[e].count = delivery[e].count
            <4>1. PICK row \in Row : row = delivery[e]
                BY <1>0
            <4>2. LET new == [row EXCEPT !.status = "queued", !.max = m]
                  IN  new.status = "queued" /\ new.max = m /\ new.count = row.count
                BY ONLY <2>2, QueuedFields
            <4> QED BY <3>1, <4>1, <4>2
        <3>3. AnswersOf(e)' = 0 /\ Windows(e)' = Windows(e)
            BY <1>0, <1>1, <2>4 DEF Receive, HasRoom, AnswersOf, Answered, Windows, UsedKeys
        <3> QED BY <1>c, <2>2, <3>2, <3>3 DEF HasRoom
    <2> QED BY <2>3, <2>4
<1>2. ASSUME NEW d \in Deliveries, LeaseLapses(d) PROVE HasRoom(e)'
    <2>1. CASE d # e
        BY <1>0, <1>2, <1>k, <2>1 DEF LeaseLapses
    <2>2. CASE d = e
        <3>1. delivery'[e] = [delivery[e] EXCEPT !.lapsed = TRUE]
            BY <1>0, <1>2, <2>2 DEF LeaseLapses
        <3>2. /\ delivery'[e].status = delivery[e].status
              /\ delivery'[e].max = delivery[e].max /\ delivery'[e].count = delivery[e].count
            BY <1>0, <3>1, LapsedFields
        <3>3. AnswersOf(e)' = AnswersOf(e) /\ Windows(e)' = Windows(e)
            BY <1>2 DEF LeaseLapses, AnswersOf, Answered, Windows, UsedKeys
        <3> QED BY <1>0, <3>2, <3>3 DEF HasRoom
    <2> QED BY <2>1, <2>2
<1>3. ASSUME NEW d \in Deliveries, NEW k \in Keys, Replay(d, k) PROVE HasRoom(e)'
    <2>1. PICK m \in 1..MaxAttempts : delivery' = [delivery EXCEPT ![d] =
              [Written(@, "queued") EXCEPT !.max = delivery[d].count + m]]
        BY <1>3 DEF Replay
    <2>2. m \in Nat /\ m <= MaxAttempts /\ 1 <= m /\ MaxAttempts \in Nat
        BY WebhookAssumption
    <2>3. /\ Windows(d)' = Windows(d) + MaxAttempts
          /\ \A f \in Deliveries \ {d} : Windows(f)' = Windows(f)
        BY <1>0, <1>3, NewWindow DEF Replay
    <2>4. CASE d # e
        <3>1. /\ delivery'[e] = delivery[e] /\ Answered(e)' = Answered(e)
              /\ Windows(e)' = Windows(e)
            BY <1>0, <1>3, <2>1, <2>3, <2>4 DEF Replay, Answered
        <3> QED BY <1>0, <3>1, RoomKept
    <2>5. CASE d = e
        <3> DEFINE row == Written(delivery[e], "queued")
                   max == delivery[e].count + m
        <3>1. delivery'[e] = [row EXCEPT !.max = max]
            BY <1>0, <2>1, <2>5
        <3>2. row \in Row /\ row.status = "queued" /\ row.count = delivery[e].count
            BY <1>0, WrittenFields DEF Live, Due
        <3>3. max \in Nat
            BY <1>c, <2>2
        <3> HIDE DEF row, max
        <3>4. /\ delivery'[e].status = "queued" /\ delivery'[e].max = max
              /\ delivery'[e].count = delivery[e].count
            BY <3>1, <3>2, <3>3, MaxFields
        <3>5. AnswersOf(e)' = AnswersOf(e) /\ Windows(e)' = Windows(e) + MaxAttempts
            BY <1>3, <2>3, <2>5 DEF Replay, AnswersOf, Answered
        <3>6. AnswersOf(e) <= Windows(e)
            BY <1>0 DEF HasRoom
        <3> QED BY <1>c, <2>2, <3>4, <3>5, <3>6 DEF HasRoom, max
    <2> QED BY <2>4, <2>5
<1>4. ASSUME NEW enabled \in BOOLEAN, UpdateControl(enabled) PROVE HasRoom(e)'
    BY <1>0, <1>4, <1>k, RoomCancel DEF UpdateControl
<1>5. ASSUME NEW next \in {"active", "disabled", "deleted"}, TransitionSubscription(next)
      PROVE  HasRoom(e)'
    BY <1>0, <1>5, <1>k, RoomCancel DEF TransitionSubscription
<1>6. CASE UNCHANGED <<delivery, attempt, replayed>>
    BY <1>6, <1>k
<1>7. ASSUME NEW w \in Workers, Claim(w) PROVE HasRoom(e)'
    <2>1. PICK c \in worker[w].candidates :
            /\ Unchanged(c[2], delivery[c[1]])
            /\ delivery[c[1]].count + 1 <= MaxClaims
            /\ delivery' = [delivery EXCEPT ![c[1]] =
                  [Written(@, "processing") EXCEPT !.count = delivery[c[1]].count + 1,
                                                   !.token = delivery[c[1]].count + 1]]
            /\ attempt' = NextAttempt(c[2], c[1])
            /\ replayed' = replayed
        BY <1>7 DEF Claim
    <2>2. c[1] \in Deliveries
        BY <1>0, <2>1 DEF Round
    <2>3. CASE e # c[1]
        BY <1>0, <1>k, <2>1, <2>2, <2>3 DEF NextAttempt
    <2>4. CASE e = c[1]
        <3> DEFINE n == delivery[e].count + 1
                   row == Written(delivery[e], "processing")
        <3>1. n \in 0..MaxClaims
            BY <1>c, <2>1, <2>4, WebhookAssumption
        <3>2. /\ row \in Row /\ row.status = "processing" /\ row.max = delivery[e].max
            BY <1>0, WrittenFields DEF Live
        <3>3. delivery'[e] = [row EXCEPT !.count = n, !.token = n]
            BY <1>0, <2>1, <2>2, <2>4
        <3>4. /\ delivery'[e].status = "processing" /\ delivery'[e].count = delivery[e].count + 1
              /\ delivery'[e].max = delivery[e].max
            <4> HIDE DEF row, n
            <4>1. LET new == [row EXCEPT !.count = n, !.token = n]
                  IN  new.status = row.status /\ new.count = n /\ new.max = row.max
                BY ONLY <3>1, <3>2, ClaimedFields
            <4>2. n = delivery[e].count + 1
                BY DEF n
            <4> QED BY ONLY <3>2, <3>3, <4>1, <4>2
        <3>5. Answered(e)' \subseteq Answered(e)
            <4>1. \A k \in 1..MaxClaims : attempt'[e][k] =
                    IF k = n THEN "processing"
                    ELSE IF k = c[2].token /\ attempt[e][k] = "processing" THEN "expired"
                    ELSE attempt[e][k]
                BY <1>0, <2>1, <2>2, <2>4 DEF NextAttempt
            <4> QED BY <4>1 DEF Answered
        <3>6. Windows(e)' = Windows(e)
            BY <2>1 DEF Windows, UsedKeys
        <3>7. AnswersOf(e)' <= AnswersOf(e) /\ AnswersOf(e)' \in Nat
            BY <3>5, SameAnswers
        <3>8. delivery[e].status \in Live
            BY <2>1, <2>4 DEF WebhookInv, CandidatesAreHonest, Unchanged
        <3>9. /\ AnswersOf(e) + 1 <= Windows(e)
              /\ AnswersOf(e) + delivery[e].max - delivery[e].count <= Windows(e)
            BY <1>0, <1>c, <3>8 DEF HasRoom, Live
        <3> HIDE DEF row, n
        <3> QED BY <1>c, <3>4, <3>6, <3>7, <3>9 DEF HasRoom, Live, Due
    <2> QED BY <2>3, <2>4
<1>8. ASSUME NEW w \in Workers, NEW o \in {"success", "retryable_failure", "permanent_failure"},
             Complete(w, o)
      PROVE  HasRoom(e)'
    <2>1. PICK c \in worker[w].claims :
             /\ Holds(c)
             /\ \E status \in {"succeeded", "retry_scheduled", "dead_lettered"} :
                  /\ delivery' = [delivery EXCEPT ![c[1]] = Written(@, status)]
                  /\ status = "retry_scheduled" =>
                        delivery[c[1]].count < delivery[c[1]].max
             /\ attempt' = [attempt EXCEPT ![c[1]] = [n \in 1..MaxClaims |->
                      IF n = c[2] /\ @[n] = "processing"
                      THEN IF o = "success" THEN "succeeded" ELSE "failed"
                      ELSE @[n]]]
             /\ replayed' = replayed
        BY <1>8 DEF Complete
    <2>2. c[1] \in Deliveries
        BY <1>0 DEF Round
    <2>3. CASE e # c[1]
        BY <1>0, <1>k, <2>1, <2>2, <2>3
    <2>4. CASE e = c[1]
        <3>1. PICK status \in {"succeeded", "retry_scheduled", "dead_lettered"} :
                  /\ delivery'[e] = Written(delivery[e], status)
                  /\ status = "retry_scheduled" => delivery[e].count < delivery[e].max
            BY <1>0, <2>1, <2>4
        <3>2. /\ delivery'[e].status = status /\ delivery'[e].count = delivery[e].count
              /\ delivery'[e].max = delivery[e].max
            BY <1>0, <3>1, WrittenFields DEF Live, Due, Final
        <3>3. Answered(e)' \subseteq Answered(e) \cup {c[2]}
            BY <1>0, <2>1, <2>4 DEF Answered
        <3>4. AnswersOf(e)' <= AnswersOf(e) + 1 /\ AnswersOf(e)' \in Nat
            BY <3>3, OneMoreAnswer
        <3>5. Windows(e)' = Windows(e)
            BY <2>1 DEF Windows, UsedKeys
        <3>6. /\ AnswersOf(e) + 1 <= Windows(e)
              /\ AnswersOf(e) + delivery[e].max - delivery[e].count + 1 <= Windows(e)
            BY <1>0, <2>1, <2>4 DEF HasRoom, Holds, Live
        <3>7. CASE status = "retry_scheduled"
            BY <1>c, <3>1, <3>2, <3>4, <3>5, <3>6, <3>7 DEF HasRoom
        <3>8. CASE status # "retry_scheduled"
            BY <1>c, <3>2, <3>4, <3>5, <3>6, <3>8 DEF HasRoom, Live, Due
        <3> QED BY <3>7, <3>8
    <2> QED BY <2>3, <2>4
<1> QED
  BY <1>1, <1>2, <1>3, <1>4, <1>5, <1>6, <1>7, <1>8
     DEF Next, EraseAccount, ReadControl, ReadCandidates, FindNothing, LoseCandidate,
         CompleteLate, Stop, vars

-----------------------------------------------------------------------------
LEMMA WebhookInvariant == Spec => []WebhookInv
<1>1. Init => WebhookInv
  <2> SUFFICES ASSUME Init PROVE WebhookInv
    OBVIOUS
  <2>1. TypeOK
    BY WebhookTypeInit
  <2>2. CandidatesAreHonest /\ OneOpenAttempt /\ StoppedIsQuiet
    BY DEF Init, Idle, NoRow, CandidatesAreHonest, OneOpenAttempt, StoppedIsQuiet
  <2>3. ASSUME NEW d \in Deliveries PROVE HasRoom(d)
    <3>1. Answered(d) = {}
      BY DEF Init, Answered
    <3>2. AnswersOf(d) = 0
      BY <3>1, FS_EmptySet DEF AnswersOf
    <3>3. delivery[d].status = "none"
      BY DEF Init, NoRow
    <3> QED
      BY <3>2, <3>3, CountTypes DEF HasRoom, Live, Due
  <2> QED
    BY <2>1, <2>2, <2>3 DEF WebhookInv, RoomIsLeft
<1>2. WebhookInv /\ [Next]_vars => WebhookInv'
  BY WebhookTypeStep, CandidatesStep, OneOpenStep, StoppedStep, RoomStep DEF WebhookInv
<1> QED
  BY <1>1, <1>2, PTL DEF Spec

\* The open attempt of a delivery is the newest and the one under its lease token.
THEOREM WebhookOneOpenAttempt == Spec => []OneOpenAttempt
<1>1. WebhookInv => OneOpenAttempt
  BY DEF WebhookInv
<1> QED
  BY <1>1, WebhookInvariant, PTL

\* A disabled or deleted subscription has no delivery that waits or is processed.
THEOREM WebhookStoppedIsQuiet == Spec => []StoppedIsQuiet
<1>1. WebhookInv => StoppedIsQuiet
  BY DEF WebhookInv
<1> QED
  BY <1>1, WebhookInvariant, PTL

\* However often workers die, leases lapse and dead letters are replayed, the answers
\* recorded for a delivery stay within one window of attempts and one for each replay key.
THEOREM WebhookAnswersWithinWindows == Spec => []AnswersWithinWindows
<1>1. WebhookInv => AnswersWithinWindows
  BY DEF WebhookInv, RoomIsLeft, HasRoom, AnswersOf, Answered, Windows, UsedKeys,
         AnswersWithinWindows
<1> QED
  BY <1>1, WebhookInvariant, PTL

-----------------------------------------------------------------------------
(* E-mail notifications *)

\* The claim of a delivery that is processed is the newest, and so is the attempt of one
\* that is sent, whose mail the relay has accepted.
NewestCounts ==
    \A d \in Mails :
        /\ mail[d].status = "processing" => mail[d].token = mail[d].count
        /\ mail[d].status = "sent" => <<d, mail[d].count>> \in accepted

\* A worker that sends has something to send, and an answer "sent" belongs to an attempt
\* whose mail the relay has accepted.
RoundsAreHonest ==
    \A w \in Mailers :
        /\ mailer[w].answer # "" => mailer[w].sending
        /\ mailer[w].sending => mailer[w].claims # <<>>
        /\ mailer[w].answer = "sent" => Head(mailer[w].claims) \in accepted

\* The inductive invariant.
MailInv ==
    MailTypeOK /\ NewestCounts /\ RoundsAreHonest /\ OneOpenMailAttempt /\ SentWasAccepted

-----------------------------------------------------------------------------
(* Rows, rounds *)

LEMMA RowFields ==
    ASSUME NEW row \in MailRow,
           NEW status \in MailDue \cup MailFinal \cup {"none", "processing", "dead_lettered"},
           NEW n \in {0} \cup Tries, NEW m \in 0..MailAttempts
    PROVE  /\ [row EXCEPT !.status = status] \in MailRow
           /\ [row EXCEPT !.lapsed = TRUE] \in MailRow
           /\ [row EXCEPT !.status = status, !.max = m] \in MailRow
           /\ [row EXCEPT !.status = status, !.token = 0, !.lapsed = FALSE] \in MailRow
           /\ [row EXCEPT !.status = status, !.count = n, !.token = n, !.lapsed = FALSE] \in MailRow
<1> DEFINE r1 == [row EXCEPT !.status = status]
           r2 == [r1 EXCEPT !.count = n]
           r3 == [r2 EXCEPT !.token = n]
           r4 == [r3 EXCEPT !.lapsed = FALSE]
           s2 == [r1 EXCEPT !.token = 0]
           s3 == [s2 EXCEPT !.lapsed = FALSE]
           t2 == [r1 EXCEPT !.max = m]
<1>1. r1 \in MailRow /\ [row EXCEPT !.lapsed = TRUE] \in MailRow
  BY DEF MailRow
<1>2. r2 \in MailRow /\ s2 \in MailRow /\ t2 \in MailRow
  <2> HIDE DEF r1
  <2> QED
    BY <1>1 DEF MailRow
<1>3. r3 \in MailRow /\ s3 \in MailRow
  <2> HIDE DEF r2, s2
  <2>1. r3 \in MailRow
    BY ONLY <1>2, n \in {0} \cup Tries DEF r3, MailRow
  <2>2. s3 \in MailRow
    BY ONLY <1>2 DEF s3, MailRow
  <2> QED
    BY <2>1, <2>2
<1>4. r4 \in MailRow
  <2> HIDE DEF r3
  <2> QED
    BY ONLY <1>3 DEF r4, MailRow
<1> QED
  BY <1>1, <1>2, <1>3, <1>4

\* What a worker goes on with.
LEMMA MailRoundFields ==
    ASSUME NEW h \in MailRound, NEW claims \in Seq(Mails \X Tries)
    PROVE  /\ [h EXCEPT !.claims = claims] \in MailRound
           /\ [h EXCEPT !.sending = TRUE] \in MailRound
           /\ [h EXCEPT !.claims = claims, !.answer = ""] \in MailRound
<1> DEFINE g == [h EXCEPT !.claims = claims]
<1>1. g \in MailRound /\ [h EXCEPT !.sending = TRUE] \in MailRound
  BY DEF MailRound
<1>2. [g EXCEPT !.answer = ""] \in MailRound
  <2> HIDE DEF g
  <2> QED
    BY <1>1 DEF MailRound
<1> QED
  BY <1>1, <1>2

LEMMA NoRoundIsRound == NoRound \in MailRound
<1>1. <<>> \in Seq(Mails \X Tries)
  OBVIOUS
<1>2. ASSUME NEW S, <<>> \in S
      PROVE  NoRound \in [sending: BOOLEAN, claims: S, answer: {""} \cup Answers]
  BY <1>2 DEF NoRound
<1> QED
  BY <1>1, <1>2 DEF MailRound

\* The tail of what is longer than one claim is not empty.
LEMMA LongTail ==
    ASSUME NEW S, NEW s \in Seq(S), s # <<>>, Len(s) # 1
    PROVE  Tail(s) \in Seq(S) /\ Tail(s) # <<>>
<1>1. Len(s) \in Nat /\ Len(s) # 0
  BY EmptySeq
<1>2. Len(Tail(s)) = Len(s) - 1 /\ Tail(s) \in Seq(S)
  BY HeadTailProperties
<1>3. Len(Tail(s)) # 0
  BY <1>1, <1>2
<1>4. Len(<<>>) = 0
  BY EmptySeq
<1>5. Tail(s) # <<>>
  BY <1>3, <1>4, Zenon
<1> QED
  BY <1>2, <1>5

\* What is left of a round when its first claim is done.
LEMMA RestIsRound ==
    ASSUME NEW w \in Mailers, mailer[w] \in MailRound, mailer[w].claims # <<>>
    PROVE  /\ Rest(w) \in MailRound
           /\ Rest(w).answer = ""
           /\ Rest(w).sending => Rest(w).claims # <<>>
<1> DEFINE h == mailer[w]
<1>0. h.claims \in Seq(Mails \X Tries)
  BY DEF MailRound
<1>1. CASE Len(h.claims) = 1
  <2>1. Rest(w) = NoRound
    BY <1>1 DEF Rest
  <2>2. ~NoRound.sending /\ NoRound.answer = ""
    BY DEF NoRound
  <2> QED
    BY <2>1, <2>2, NoRoundIsRound
<1>2. CASE Len(h.claims) # 1
  <2> DEFINE t == Tail(h.claims)
  <2>1. t \in Seq(Mails \X Tries) /\ t # <<>>
    BY <1>0, <1>2, LongTail
  <2>2. Rest(w) = [h EXCEPT !.claims = t, !.answer = ""]
    BY <1>2 DEF Rest
  <2> HIDE DEF t
  <2>3. /\ [h EXCEPT !.claims = t, !.answer = ""].claims = t
        /\ [h EXCEPT !.claims = t, !.answer = ""].answer = ""
    BY DEF MailRound
  <2> QED
    BY <2>1, <2>2, <2>3, MailRoundFields
<1> QED
  BY <1>1, <1>2

\* The first claim of a round names a mail and an attempt.
LEMMA FirstClaim ==
    ASSUME NEW w \in Mailers, mailer[w] \in MailRound, mailer[w].claims # <<>>
    PROVE  /\ Head(mailer[w].claims) \in Mails \X Tries
           /\ Head(mailer[w].claims)[1] \in Mails
           /\ Head(mailer[w].claims)[2] \in Tries
<1>1. mailer[w].claims \in Seq(Mails \X Tries)
  BY DEF MailRound
<1>2. Head(mailer[w].claims) \in Mails \X Tries
  BY <1>1
<1> QED
  BY <1>2

-----------------------------------------------------------------------------
(* Types *)

LEMMA MailTypeInit == MailInit => MailTypeOK
<1> SUFFICES ASSUME MailInit PROVE MailTypeOK
  OBVIOUS
<1>1. NoMail \in MailRow /\ NoRound \in MailRound
  BY MailAssumption, NoRoundIsRound DEF NoMail, MailRow
<1>2. PICK m \in 1..MailAttempts : channel = <<[enabled |-> TRUE, max |-> m]>>
  BY DEF MailInit
<1>3. [enabled |-> TRUE, max |-> m] \in Revision
  BY DEF Revision
<1>4. channel \in Seq(Revision) /\ channel # <<>>
  BY <1>2, <1>3
<1>5. mailer \in [Mailers -> MailRound] /\ mail \in [Mails -> MailRow]
  BY <1>1 DEF MailInit
<1> QED
  BY <1>4, <1>5, MailAssumption DEF MailInit, MailTypeOK, MailAttemptStatuses

LEMMA MailTypeStep == MailTypeOK /\ RoundsAreHonest /\ [MailNext]_mailVars => MailTypeOK'
<1> SUFFICES ASSUME MailTypeOK, RoundsAreHonest, [MailNext]_mailVars PROVE MailTypeOK'
  OBVIOUS
<1> USE MailAssumption
<1>0. /\ channel \in Seq(Revision) /\ channel # <<>>
      /\ mail \in [Mails -> MailRow]
      /\ mailAttempt \in [Mails -> [Tries -> MailAttemptStatuses]]
      /\ accepted \subseteq Mails \X Tries
      /\ mailer \in [Mailers -> MailRound]
      /\ mailFaults \in 0..MailFaults
      /\ mailOrders \in 0..MailOrders
  BY DEF MailTypeOK
<1>a. Order => mailOrders' \in 0..MailOrders
  BY <1>0 DEF Order
<1>b. Fault => mailFaults' \in 0..MailFaults
  BY <1>0 DEF Fault
<1>1. ASSUME NEW d \in Mails, CreateForNotification(d) PROVE MailTypeOK'
  <2>1. PICK status \in {"queued", "suppressed"} :
          mail' = [mail EXCEPT ![d] = [@ EXCEPT !.status = status, !.max = Last(channel).max]]
    BY <1>1 DEF CreateForNotification
  <2>2. Last(channel).max \in 0..MailAttempts
    <3>1. Len(channel) \in DOMAIN channel
      BY <1>0
    <3>2. channel[Len(channel)] \in Revision
      BY <1>0, <3>1
    <3> QED
      BY <3>2 DEF Last, Revision
  <2>3. status \in MailDue \cup MailFinal \cup {"none", "processing", "dead_lettered"}
    BY DEF MailDue, MailFinal
  <2>4. [mail[d] EXCEPT !.status = status, !.max = Last(channel).max] \in MailRow
    BY <1>0, <2>2, <2>3, RowFields
  <2>5. mail' \in [Mails -> MailRow]
    BY <1>0, <2>1, <2>4
  <2> QED
    BY <1>0, <1>1, <2>5 DEF CreateForNotification, MailTypeOK
<1>2. CASE UpdateChannelConfig
  <2>1. PICK revision \in Revision : channel' = Append(channel, revision)
    BY <1>2 DEF UpdateChannelConfig
  <2>2. channel' \in Seq(Revision) /\ channel' # <<>>
    BY <1>0, <2>1
  <2> QED
    BY <1>0, <1>a, <1>2, <2>2 DEF UpdateChannelConfig, MailTypeOK
<1>3. CASE RollbackChannelConfig
  <2>1. PICK n \in DOMAIN channel : channel' = Append(channel, channel[n])
    BY <1>3 DEF RollbackChannelConfig
  <2>2. channel[n] \in Revision
    BY <1>0
  <2>3. channel' \in Seq(Revision) /\ channel' # <<>>
    BY <1>0, <2>1, <2>2
  <2> QED
    BY <1>0, <1>a, <1>3, <2>3 DEF RollbackChannelConfig, MailTypeOK
<1>4. ASSUME NEW d \in Mails, RetryMail(d) \/ CancelMail(d) PROVE MailTypeOK'
  <2>1. \A status \in {"retry_scheduled", "cancelled"} : [mail[d] EXCEPT !.status = status] \in MailRow
    <3>1. {"retry_scheduled", "cancelled"} \subseteq
                MailDue \cup MailFinal \cup {"none", "processing", "dead_lettered"}
      BY DEF MailDue, MailFinal
    <3> QED
      BY <1>0, <3>1 DEF MailRow
  <2>2. mail' \in [Mails -> MailRow]
    BY <1>0, <1>4, <2>1 DEF RetryMail, CancelMail
  <2> QED
    BY <1>0, <1>a, <1>4, <2>2 DEF RetryMail, CancelMail, MailTypeOK
<1>5. ASSUME NEW d \in Mails, EraseMail(d) PROVE MailTypeOK'
  <2>1. [NoMail EXCEPT !.status = "gone"] \in MailRow
    <3>1. NoMail \in MailRow
      BY DEF NoMail, MailRow
    <3> QED
      BY <3>1 DEF MailRow, MailFinal
  <2>2. mail' \in [Mails -> MailRow]
    BY <1>0, <1>5, <2>1 DEF EraseMail
  <2>3. mailAttempt' \in [Mails -> [Tries -> MailAttemptStatuses]]
    BY <1>0, <1>5 DEF EraseMail, MailAttemptStatuses
  <2> QED
    BY <1>0, <1>a, <1>5, <2>2, <2>3 DEF EraseMail, MailTypeOK
<1>6. ASSUME NEW d \in Mails, MailLeaseLapses(d) PROVE MailTypeOK'
  <2>1. [mail[d] EXCEPT !.lapsed = TRUE] \in MailRow
    BY <1>0 DEF MailRow
  <2>2. mail' \in [Mails -> MailRow]
    BY <1>0, <1>6, <2>1 DEF MailLeaseLapses
  <2> QED
    BY <1>0, <1>b, <1>6, <2>2 DEF MailLeaseLapses, MailTypeOK
<1>7. ASSUME NEW w \in Mailers, NEW d \in Mails, ClaimMail(w, d) PROVE MailTypeOK'
  <2> DEFINE n == mail[d].count + 1
  <2>1. n \in Tries
    BY <1>7 DEF ClaimMail
  <2>2. [mail[d] EXCEPT !.status = "processing", !.count = n, !.token = n, !.lapsed = FALSE] \in MailRow
    <3>1. mail[d] \in MailRow /\ n \in {0} \cup Tries /\ 0 \in 0..MailAttempts
      BY <1>0, <2>1
    <3> HIDE DEF n
    <3> QED
      BY <3>1, RowFields
  <2>3. mail' \in [Mails -> MailRow]
    BY <1>0, <1>7, <2>2 DEF ClaimMail
  <2>4. mailAttempt' \in [Mails -> [Tries -> MailAttemptStatuses]]
    BY <1>0, <1>7 DEF ClaimMail, AfterClaim, MailAttemptStatuses
  <2>5. mailer' = [mailer EXCEPT ![w].claims = Append(@, <<d, n>>)]
    BY <1>7 DEF ClaimMail
  <2>6. [mailer[w] EXCEPT !.claims = Append(@, <<d, n>>)] \in MailRound
    <3>1. mailer[w] \in MailRound /\ mailer[w].claims \in Seq(Mails \X Tries)
      BY <1>0 DEF MailRound
    <3>2. Append(mailer[w].claims, <<d, n>>) \in Seq(Mails \X Tries)
      BY <2>1, <3>1
    <3> QED
      BY <3>1, <3>2, MailRoundFields
  <2>7. mailer' \in [Mailers -> MailRound]
    BY <1>0, <2>5, <2>6
  <2> QED
    BY <1>0, <1>7, <2>3, <2>4, <2>7 DEF ClaimMail, MailTypeOK
<1>8. ASSUME NEW w \in Mailers, EndClaims(w) PROVE MailTypeOK'
  <2>1. mailer' \in [Mailers -> MailRound]
    BY <1>0, <1>8 DEF EndClaims, MailRound
  <2> QED
    BY <1>0, <1>8, <2>1 DEF EndClaims, MailTypeOK
<1>9. ASSUME NEW w \in Mailers, Send(w) PROVE MailTypeOK'
  <2>1. PICK answer \in Answers : mailer' = [mailer EXCEPT ![w].answer = answer]
    BY <1>9 DEF Send
  <2>2. mailer' \in [Mailers -> MailRound]
    BY <1>0, <2>1 DEF MailRound
  <2>3. Head(mailer[w].claims) \in Mails \X Tries
    <3>1. mailer[w].claims # <<>> /\ mailer[w].claims \in Seq(Mails \X Tries)
      BY <1>0, <1>9 DEF Send, RoundsAreHonest, MailRound
    <3> QED
      BY <3>1
  <2>4. accepted' \subseteq Mails \X Tries
    BY <1>0, <1>9, <2>3 DEF Send
  <2> QED
    BY <1>0, <1>9, <2>2, <2>4 DEF Send, MailTypeOK
<1>10. ASSUME NEW w \in Mailers, SendThrows(w) \/ MailerStops(w) PROVE MailTypeOK'
  <2>1. mailer' \in [Mailers -> MailRound]
    BY <1>0, <1>10, NoRoundIsRound DEF SendThrows, MailerStops
  <2> QED
    BY <1>0, <1>b, <1>10, <2>1 DEF SendThrows, MailerStops, MailTypeOK
<1>11. ASSUME NEW w \in Mailers, CompleteMail(w) PROVE MailTypeOK'
  <2>1. mailer[w] \in MailRound /\ mailer[w].claims # <<>>
    BY <1>0, <1>11 DEF CompleteMail, RoundsAreHonest
  <2> DEFINE c == Head(mailer[w].claims)
             d == c[1]
  <2>2. c \in Mails \X Tries /\ d \in Mails /\ c[2] \in Tries
    BY <2>1, FirstClaim
  <2>3. mailer' \in [Mailers -> MailRound]
    <3>1. mailer' = [mailer EXCEPT ![w] = Rest(w)]
      BY <1>11 DEF CompleteMail
    <3> QED
      BY <1>0, <2>1, <3>1, RestIsRound
  <2>4. Completed(d, mailer[w].answer) \in
                MailDue \cup MailFinal \cup {"none", "processing", "dead_lettered"}
    BY DEF Completed, MailDue, MailFinal
  <2>5. [mail[d] EXCEPT !.status = Completed(d, mailer[w].answer), !.token = 0, !.lapsed = FALSE]
            \in MailRow
    <3>1. mail[d] \in MailRow /\ 0 \in {0} \cup Tries /\ 0 \in 0..MailAttempts
      BY <1>0, <2>2
    <3> QED
      BY <2>4, <3>1, RowFields
  <2>6. mail' \in [Mails -> MailRow]
    BY <1>0, <1>11, <2>5 DEF CompleteMail
  <2>7. mailAttempt' \in [Mails -> [Tries -> MailAttemptStatuses]]
    <3>1. \/ \E x \in MailAttemptStatuses : mailAttempt' = [mailAttempt EXCEPT ![d][c[2]] = x]
          \/ mailAttempt' = mailAttempt
      BY <1>11 DEF CompleteMail, MailAttemptStatuses
    <3> HIDE DEF c, d
    <3>2. mailAttempt \in [Mails -> [Tries -> MailAttemptStatuses]]
      BY <1>0
    <3>3. mailAttempt[d] \in [Tries -> MailAttemptStatuses]
      BY ONLY <2>2, <3>2
    <3>4. \A x \in MailAttemptStatuses :
                [mailAttempt[d] EXCEPT ![c[2]] = x] \in [Tries -> MailAttemptStatuses]
      BY ONLY <2>2, <3>3
    <3> QED
      BY ONLY <2>2, <3>1, <3>2, <3>4
  <2> QED
    BY <1>0, <1>11, <2>3, <2>6, <2>7 DEF CompleteMail, MailTypeOK
<1>12. CASE UNCHANGED mailVars
  BY <1>0, <1>12 DEF mailVars, MailTypeOK
<1> QED
  BY <1>1, <1>2, <1>3, <1>4, <1>5, <1>6, <1>7, <1>8, <1>9, <1>10, <1>11, <1>12 DEF MailNext

-----------------------------------------------------------------------------
(* Rounds *)

LEMMA RoundsStep == MailTypeOK /\ RoundsAreHonest /\ [MailNext]_mailVars => RoundsAreHonest'
<1> DEFINE Honest(w) ==
      /\ mailer[w].answer # "" => mailer[w].sending
      /\ mailer[w].sending => mailer[w].claims # <<>>
      /\ mailer[w].answer = "sent" => Head(mailer[w].claims) \in accepted
<1> SUFFICES ASSUME MailTypeOK, RoundsAreHonest, [MailNext]_mailVars, NEW v \in Mailers
             PROVE  Honest(v)'
  BY DEF RoundsAreHonest
<1>0. mailer \in [Mailers -> MailRound] /\ Honest(v)
  BY DEF MailTypeOK, RoundsAreHonest
<1>1. CASE UNCHANGED <<mailer, accepted>>
  BY <1>0, <1>1
<1>2. ASSUME NEW w \in Mailers, NEW d \in Mails, ClaimMail(w, d) PROVE Honest(v)'
  <2>1. CASE v # w
    BY <1>0, <1>2, <2>1 DEF ClaimMail
  <2>2. CASE v = w
    <3>1. ~mailer[w].sending /\ accepted' = accepted
      BY <1>2 DEF ClaimMail
    <3>2. mailer'[w].sending = mailer[w].sending /\ mailer'[w].answer = mailer[w].answer
      BY <1>0, <1>2 DEF ClaimMail, MailRound
    <3>3. mailer[w].answer = ""
      BY <1>0, <2>2, <3>1
    <3> QED
      BY <2>2, <3>1, <3>2, <3>3
  <2> QED
    BY <2>1, <2>2
<1>3. ASSUME NEW w \in Mailers, EndClaims(w) PROVE Honest(v)'
  BY <1>0, <1>3 DEF EndClaims, MailRound
<1>4. ASSUME NEW w \in Mailers, Send(w) PROVE Honest(v)'
  <2>1. PICK answer \in Answers :
          /\ mailer' = [mailer EXCEPT ![w].answer = answer]
          /\ answer = "sent" => accepted' = accepted \cup {Head(mailer[w].claims)}
          /\ accepted \subseteq accepted'
    BY <1>4 DEF Send
  <2>2. mailer[w].sending
    BY <1>4 DEF Send
  <2> QED
    BY <1>0, <2>1, <2>2 DEF MailRound
<1>5. ASSUME NEW w \in Mailers, SendThrows(w) \/ MailerStops(w) PROVE Honest(v)'
  <2>1. mailer' = [mailer EXCEPT ![w] = NoRound] /\ accepted' = accepted
    BY <1>5 DEF SendThrows, MailerStops
  <2>2. ~NoRound.sending /\ NoRound.answer = ""
    BY DEF NoRound
  <2> QED
    BY <1>0, <2>1, <2>2
<1>6. ASSUME NEW w \in Mailers, CompleteMail(w) PROVE Honest(v)'
  <2>1. mailer[w] \in MailRound /\ mailer[w].claims # <<>>
    BY <1>0, <1>6 DEF CompleteMail, RoundsAreHonest
  <2>2. mailer' = [mailer EXCEPT ![w] = Rest(w)] /\ accepted' = accepted
    BY <1>6 DEF CompleteMail
  <2>3. Rest(w).answer = "" /\ (Rest(w).sending => Rest(w).claims # <<>>)
    BY <2>1, RestIsRound
  <2> QED
    BY <1>0, <2>2, <2>3
<1>7. ASSUME NEW d \in Mails, EraseMail(d) PROVE Honest(v)'
  BY <1>0, <1>7 DEF EraseMail
<1> QED
  BY <1>1, <1>2, <1>3, <1>4, <1>5, <1>6, <1>7
     DEF MailNext, CreateForNotification, RetryMail, CancelMail, MailLeaseLapses,
         UpdateChannelConfig, RollbackChannelConfig, mailVars

-----------------------------------------------------------------------------
(* Attempts *)

\* The parts of the invariant that speak of one delivery.
RowIsRight(d) ==
    /\ mail[d].status = "processing" => mail[d].token = mail[d].count
    /\ mail[d].status = "sent" => <<d, mail[d].count>> \in accepted
    /\ \A n \in Tries :
        /\ mailAttempt[d][n] = "processing" <=>
                mail[d].status = "processing" /\ mail[d].token = n /\ mail[d].count = n
        /\ mailAttempt[d][n] = "sent" <=>
                mail[d].status = "sent" /\ mail[d].count = n /\ <<d, n>> \in accepted

LEMMA RowsAreRight ==
    ASSUME NewestCounts, OneOpenMailAttempt, SentWasAccepted, NEW d \in Mails
    PROVE  RowIsRight(d)
BY DEF NewestCounts, OneOpenMailAttempt, SentWasAccepted, RowIsRight

\* A delivery that is neither processed nor sent before and after a step that leaves its
\* attempts alone stays right.
Resting(d) ==
    /\ mail[d].status \notin {"processing", "sent"}
    /\ mail'[d].status \notin {"processing", "sent"}
    /\ \A n \in Tries : mailAttempt'[d][n] = mailAttempt[d][n]

LEMMA RestingIsRight == ASSUME NEW d, RowIsRight(d), Resting(d) PROVE RowIsRight(d)'
BY DEF RowIsRight, Resting

LEMMA RowStep == MailInv /\ [MailNext]_mailVars => \A d \in Mails : RowIsRight(d)'
<1> SUFFICES ASSUME MailInv, [MailNext]_mailVars, NEW e \in Mails PROVE RowIsRight(e)'
  OBVIOUS
<1>0. /\ mail \in [Mails -> MailRow]
      /\ mailAttempt \in [Mails -> [Tries -> MailAttemptStatuses]]
      /\ mailer \in [Mailers -> MailRound]
      /\ \A d \in Mails : RowIsRight(d)
  BY RowsAreRight DEF MailInv, MailTypeOK
<1>1. CASE UNCHANGED <<mail, mailAttempt, accepted>>
  BY <1>0, <1>1 DEF RowIsRight
<1>2. ASSUME NEW d \in Mails, CreateForNotification(d) PROVE RowIsRight(e)'
  <2>1. PICK status \in {"queued", "suppressed"} :
          mail' = [mail EXCEPT ![d] = [@ EXCEPT !.status = status, !.max = Last(channel).max]]
    BY <1>2 DEF CreateForNotification
  <2>2. mail'[d].status = status
    BY <1>0, <2>1 DEF MailRow
  <2>3. CASE e = d
    <3>1. Resting(e)
      BY <1>2, <2>2, <2>3 DEF CreateForNotification, Resting
    <3> QED
      BY <1>0, <3>1, RestingIsRight
  <2>4. CASE e # d
    BY <1>0, <1>2, <2>1, <2>4 DEF CreateForNotification, RowIsRight
  <2> QED
    BY <2>3, <2>4
<1>3. ASSUME NEW d \in Mails, RetryMail(d) \/ CancelMail(d) PROVE RowIsRight(e)'
  <2>1. CASE e = d
    <3>1. Resting(e)
      BY <1>0, <1>3, <2>1 DEF RetryMail, CancelMail, MailDue, Resting, MailRow
    <3> QED
      BY <1>0, <3>1, RestingIsRight
  <2>2. CASE e # d
    BY <1>0, <1>3, <2>2 DEF RetryMail, CancelMail, RowIsRight
  <2> QED
    BY <2>1, <2>2
<1>4. ASSUME NEW d \in Mails, EraseMail(d) PROVE RowIsRight(e)'
  <2>1. CASE e = d
    <3>1. mail'[e].status = "gone" /\ \A n \in Tries : mailAttempt'[e][n] = "none"
      BY <1>0, <1>4, <2>1 DEF EraseMail, NoMail
    <3> QED
      BY <3>1 DEF RowIsRight
  <2>2. CASE e # d
    BY <1>0, <1>4, <2>2 DEF EraseMail, RowIsRight
  <2> QED
    BY <2>1, <2>2
<1>5. ASSUME NEW d \in Mails, MailLeaseLapses(d) PROVE RowIsRight(e)'
  <2>1. /\ mail'[e].status = mail[e].status
        /\ mail'[e].token = mail[e].token
        /\ mail'[e].count = mail[e].count
    BY <1>0, <1>5 DEF MailLeaseLapses, MailRow
  <2> QED
    BY <1>0, <1>5, <2>1 DEF MailLeaseLapses, RowIsRight
<1>6. ASSUME NEW w \in Mailers, NEW d \in Mails, ClaimMail(w, d) PROVE RowIsRight(e)'
  <2> DEFINE n == mail[d].count + 1
  <2>1. CASE e # d
    BY <1>0, <1>6, <2>1 DEF ClaimMail, AfterClaim, RowIsRight
  <2>2. CASE e = d
    <3>1. /\ mail[d].status \notin {"sent"}
          /\ n \in Tries
          /\ mail' = [mail EXCEPT ![d] = [@ EXCEPT !.status = "processing", !.count = n,
                                                   !.token = n, !.lapsed = FALSE]]
          /\ mailAttempt' = AfterClaim(d)
          /\ accepted' = accepted
      BY <1>6 DEF ClaimMail, Claimable, MailDue
    <3>2. mail'[d].status = "processing" /\ mail'[d].count = n /\ mail'[d].token = n
      BY <1>0, <3>1 DEF MailRow
    <3>3. ASSUME NEW k \in Tries
          PROVE  /\ mailAttempt'[d][k] = "processing" <=> k = n
                 /\ mailAttempt'[d][k] # "sent"
      <4>1. mailAttempt'[d][k] = IF k = n THEN "processing"
                ELSE IF k = mail[d].token /\ mailAttempt[d][k] = "processing" THEN "timed_out"
                ELSE mailAttempt[d][k]
        BY <1>0, <3>1 DEF AfterClaim
      <4>2. /\ mailAttempt[d][k] = "processing" => k = mail[d].token
            /\ mailAttempt[d][k] # "sent"
        BY <1>0, <3>1 DEF RowIsRight
      <4> QED
        BY <4>1, <4>2
    <3> QED
      BY <2>2, <3>2, <3>3 DEF RowIsRight
  <2> QED
    BY <2>1, <2>2
<1>7. ASSUME NEW w \in Mailers, Send(w) PROVE RowIsRight(e)'
  <2>1. UNCHANGED <<mail, mailAttempt>> /\ accepted' \subseteq accepted \cup {Head(mailer[w].claims)}
        /\ accepted \subseteq accepted'
    BY <1>7 DEF Send
  <2> QED
    BY <1>0, <2>1 DEF RowIsRight
<1>8. ASSUME NEW w \in Mailers, CompleteMail(w) PROVE RowIsRight(e)'
  <2>1. mailer[w] \in MailRound /\ mailer[w].claims # <<>>
    BY <1>0, <1>8 DEF CompleteMail, MailInv, RoundsAreHonest
  <2> DEFINE c == Head(mailer[w].claims)
             d == c[1]
             answer == mailer[w].answer
  <2>2. c = <<d, c[2]>> /\ d \in Mails /\ c[2] \in Tries
    BY <2>1, FirstClaim
  <2>3. accepted' = accepted
    BY <1>8 DEF CompleteMail
  <2>4. CASE ~HasLease(c)
    BY <1>1, <1>8, <2>4 DEF CompleteMail
  <2>5. CASE HasLease(c)
    <3>1. /\ mail' = [mail EXCEPT ![d] = [@ EXCEPT
                        !.status = Completed(d, answer), !.token = 0, !.lapsed = FALSE]]
          /\ mailAttempt' = [mailAttempt EXCEPT ![d][c[2]] =
                        IF answer = "sent" THEN "sent" ELSE "failed"]
      BY <1>8, <2>5 DEF CompleteMail
    <3>2. mail[d].status = "processing" /\ mail[d].token = c[2] /\ mail[d].count = c[2]
      BY <1>0, <2>2, <2>5 DEF HasLease, RowIsRight
    <3>3. answer = "sent" => <<d, c[2]>> \in accepted
      BY <2>2 DEF MailInv, RoundsAreHonest
    <3>4. CASE e # d
      BY <1>0, <2>2, <2>3, <3>1, <3>4 DEF RowIsRight
    <3>5. CASE e = d
      <4>1. mail'[d].status = Completed(d, answer) /\ mail'[d].count = c[2]
        BY <1>0, <2>2, <3>1, <3>2 DEF MailRow
      <4>2. /\ Completed(d, answer) # "processing"
            /\ Completed(d, answer) = "sent" <=> answer = "sent"
        BY DEF Completed
      <4>3. ASSUME NEW k \in Tries
            PROVE  mailAttempt'[d][k] = IF k = c[2] THEN IF answer = "sent" THEN "sent" ELSE "failed"
                                        ELSE mailAttempt[d][k]
        BY <1>0, <2>2, <3>1
      <4>4. ASSUME NEW k \in Tries
            PROVE  /\ mailAttempt'[d][k] # "processing"
                   /\ mailAttempt'[d][k] = "sent" <=> (k = c[2] /\ answer = "sent")
        <5>1. /\ mailAttempt[d][k] = "processing" => k = c[2]
              /\ mailAttempt[d][k] # "sent"
          BY <1>0, <2>2, <3>2 DEF RowIsRight
        <5> QED
          BY <4>3, <5>1
      <4> HIDE DEF c, d, answer
      <4> QED
        BY <2>3, <3>3, <3>5, <4>1, <4>2, <4>4 DEF RowIsRight
    <3> QED
      BY <3>4, <3>5
  <2> QED
    BY <2>4, <2>5
<1> QED
  BY <1>1, <1>2, <1>3, <1>4, <1>5, <1>6, <1>7, <1>8
     DEF MailNext, EndClaims, SendThrows, MailerStops, UpdateChannelConfig,
         RollbackChannelConfig, mailVars

-----------------------------------------------------------------------------
LEMMA MailInvariant == MailSpec => []MailInv
<1>1. MailInit => MailInv
  <2> SUFFICES ASSUME MailInit PROVE MailInv
    OBVIOUS
  <2>1. MailTypeOK
    BY MailTypeInit
  <2>2. NewestCounts /\ RoundsAreHonest /\ OneOpenMailAttempt /\ SentWasAccepted
    BY DEF MailInit, NoMail, NoRound, NewestCounts, RoundsAreHonest, OneOpenMailAttempt,
           SentWasAccepted
  <2> QED
    BY <2>1, <2>2 DEF MailInv
<1>2. MailInv /\ [MailNext]_mailVars => MailInv'
  <2> SUFFICES ASSUME MailInv, [MailNext]_mailVars PROVE MailInv'
    OBVIOUS
  <2>1. \A d \in Mails : RowIsRight(d)'
    BY RowStep
  <2>2. NewestCounts' /\ OneOpenMailAttempt' /\ SentWasAccepted'
    BY <2>1 DEF NewestCounts, OneOpenMailAttempt, SentWasAccepted, RowIsRight
  <2>3. MailTypeOK' /\ RoundsAreHonest'
    BY MailTypeStep, RoundsStep DEF MailInv
  <2> QED
    BY <2>2, <2>3 DEF MailInv
<1> QED
  BY <1>1, <1>2, PTL DEF MailSpec

\* Every row, attempt, round and bound keeps its type.
THEOREM MailTypeCorrect == MailSpec => []MailTypeOK
<1>1. MailInv => MailTypeOK
  BY DEF MailInv
<1> QED
  BY <1>1, MailInvariant, PTL

\* The open attempt of a mail is the newest and the one under its lease token, and what is
\* recorded as sent was accepted by the relay, in the attempt that says so.
THEOREM MailRecordHolds == MailSpec => []MailRecordIsTrue
<1>1. MailInv => MailRecordIsTrue
  BY DEF MailInv, MailRecordIsTrue
<1> QED
  BY <1>1, MailInvariant, PTL

-----------------------------------------------------------------------------
(* The search index: a document that misses a change which fired a trigger has an *)
(* entry in the queue, unless an overtaken indexer was the last at work.          *)

\* Every revision and every stamp is due to a change, and what was enqueued last is not
\* ahead of the resource
Bounded ==
    /\ source.revision <= changes + 1 /\ source.stamp <= changes
    /\ announced <= changes + 1
    /\ source.revision # 0 => announced <= source.revision

\* While the entry is as a claim has left it, or is done, an indexer that is not overtaken
\* has read what was enqueued last, and so has the document it wrote
ReadIsCurrent ==
    \A w \in Indexers :
        entry.status \in {"none", "processing"} /\ ~indexer[w].overtaken =>
            /\ indexer[w].pc = "projected" => Current(indexer[w].revision)
            /\ indexer[w].pc = "written" /\ ~late => Current(document)

SearchInv ==
    /\ SearchTypeOK
    /\ Bounded
    /\ ReadIsCurrent
    /\ StaleIsQueued

IndexerStates == [pc: {"idle", "found", "claimed", "projected", "written"},
                  candidate: Entry, revision: Revisions, overtaken: BOOLEAN]

LEMMA IdleIndexerTyped == IdleIndexer \in IndexerStates /\ IdleIndexer.pc = "idle"
BY SearchAssumption DEF IdleIndexer, IndexerStates, NoEntry, Entry, Stamps, Revisions

-----------------------------------------------------------------------------
\* The initial states satisfy the invariant.
LEMMA InitSearchInv == SearchInit => SearchInv
<1> SUFFICES ASSUME SearchInit PROVE SearchInv
    OBVIOUS
<1> USE SearchAssumption DEF SearchInit
<1>1. SearchTypeOK
    <2>1. source \in [revision: Revisions, stamp: Stamps]
        BY DEF Revisions, Stamps
    <2>2. entry \in Entry
        BY DEF Entry, Stamps
    <2>3. indexer \in [Indexers -> IndexerStates]
        BY IdleIndexerTyped
    <2>4. /\ document \in Revisions /\ announced \in Revisions /\ changes \in 0..MaxChanges
          /\ rebuilds \in 0..MaxRebuilds /\ mishaps \in 0..MaxMishaps
        BY DEF Revisions
    <2>5. late \in BOOLEAN
        OBVIOUS
    <2> QED BY <2>1, <2>2, <2>3, <2>4, <2>5 DEF SearchTypeOK, IndexerStates
<1>2. Bounded
    BY DEF Bounded
<1>3. ReadIsCurrent
    BY IdleIndexerTyped DEF ReadIsCurrent
<1>4. StaleIsQueued
    BY DEF StaleIsQueued, Current
<1> QED BY <1>1, <1>2, <1>3, <1>4 DEF SearchInv

\* An entry that a trigger writes is pending and well typed.
LEMMA EnqueuedTyped ==
    ASSUME entry \in Entry, NEW stamp \in Stamps
    PROVE  Enqueued(stamp) \in Entry /\ Enqueued(stamp).status = "pending"
BY SearchAssumption DEF Enqueued, Entry, Stamps, Later

\* A step that leaves every indexer alone and its entry pending keeps the invariant: every
\* change that fires a trigger is one.
LEMMA PendingKeepsInv ==
    ASSUME SearchInv, entry' \in Entry, entry'.status = "pending",
           source' \in [revision: Revisions, stamp: Stamps], announced' \in Revisions,
           document' \in Revisions, changes' \in 0..MaxChanges, rebuilds' \in 0..MaxRebuilds,
           late' \in BOOLEAN, Bounded', UNCHANGED <<indexer, mishaps>>
    PROVE  SearchInv'
<1>1. SearchTypeOK'
    BY DEF SearchInv, SearchTypeOK
<1>2. ReadIsCurrent'
    BY DEF ReadIsCurrent
<1>3. StaleIsQueued'
    BY DEF StaleIsQueued
<1> QED BY <1>1, <1>2, <1>3 DEF SearchInv

-----------------------------------------------------------------------------
\* Changes of the resource and rebuilds keep the invariant.
LEMMA SourceKeepsInv ==
    ASSUME SearchInv,
           Create \/ Change \/ ChangeUnannounced \/ Delete \/ EraseOwner \/ EnqueueRebuild
    PROVE  SearchInv'
<1> USE SearchAssumption
<1>0. /\ entry \in Entry /\ source \in [revision: Revisions, stamp: Stamps]
      /\ source.revision \in Nat /\ source.stamp \in Nat /\ source.stamp \in Stamps
      /\ announced \in Revisions /\ announced \in Nat
      /\ document \in Revisions /\ changes \in 0..MaxChanges /\ rebuilds \in 0..MaxRebuilds
      /\ source.revision <= changes + 1 /\ source.stamp <= changes /\ announced <= changes + 1
      /\ source.revision # 0 => announced <= source.revision
    BY DEF SearchInv, SearchTypeOK, Bounded, Revisions, Stamps
<1>1. CASE Create
    <2>1. source' = [revision |-> 1, stamp |-> source.stamp] /\ announced' = 1
        BY <1>0, <1>1 DEF Create, Enqueue
    <2>2. entry' \in Entry /\ entry'.status = "pending"
        BY <1>0, <1>1, EnqueuedTyped DEF Create, Enqueue
    <2>3. source' \in [revision: Revisions, stamp: Stamps] /\ announced' \in Revisions /\ Bounded'
        BY <1>0, <1>1, <2>1 DEF Create, Bounded, Revisions, Stamps
    <2>4. /\ document' \in Revisions /\ changes' \in 0..MaxChanges
          /\ rebuilds' \in 0..MaxRebuilds /\ UNCHANGED <<indexer, mishaps>>
        BY <1>0, <1>1 DEF Create
    <2>5. late' = FALSE
        BY <1>1 DEF Create, Enqueue
    <2> QED BY <2>2, <2>3, <2>4, <2>5, PendingKeepsInv
<1>2. CASE Change
    <2>1. PICK stamp \in {source.stamp, source.stamp + 1} :
            /\ source' = [revision |-> source.revision + 1, stamp |-> stamp]
            /\ Enqueue(stamp)
        BY <1>2 DEF Change
    <2>2. stamp \in Stamps /\ stamp <= changes'
        BY <1>0, <1>2 DEF Change, Stamps
    <2>3. entry' \in Entry /\ entry'.status = "pending"
        BY <1>0, <2>1, <2>2, EnqueuedTyped DEF Enqueue
    <2>4. announced' = source.revision + 1 /\ late' = FALSE
        BY <2>1 DEF Enqueue
    <2>5. source' \in [revision: Revisions, stamp: Stamps] /\ announced' \in Revisions /\ Bounded'
        BY <1>0, <1>2, <2>1, <2>2, <2>4 DEF Change, Bounded, Revisions
    <2>6. /\ document' \in Revisions /\ changes' \in 0..MaxChanges
          /\ rebuilds' \in 0..MaxRebuilds /\ UNCHANGED <<indexer, mishaps>>
        BY <1>0, <1>2 DEF Change
    <2> QED BY <2>3, <2>4, <2>5, <2>6, PendingKeepsInv
<1>3. CASE Delete
    <2>1. source' = [revision |-> 0, stamp |-> source.stamp] /\ announced' = 0
        BY <1>0, <1>3 DEF Delete, Enqueue
    <2>2. entry' \in Entry /\ entry'.status = "pending"
        BY <1>0, <1>3, EnqueuedTyped DEF Delete, Enqueue
    <2>3. source' \in [revision: Revisions, stamp: Stamps] /\ announced' \in Revisions /\ Bounded'
        BY <1>0, <1>3, <2>1 DEF Delete, Bounded, Revisions, Stamps
    <2>4. /\ document' \in Revisions /\ changes' \in 0..MaxChanges
          /\ rebuilds' \in 0..MaxRebuilds /\ UNCHANGED <<indexer, mishaps>>
        BY <1>0, <1>3 DEF Delete
    <2>5. late' = FALSE
        BY <1>3 DEF Delete, Enqueue
    <2> QED BY <2>2, <2>3, <2>4, <2>5, PendingKeepsInv
<1>4. CASE EraseOwner
    <2>1. source.stamp + 1 \in Stamps
        BY <1>0, <1>4 DEF EraseOwner, Stamps
    <2>2. entry' \in Entry /\ entry'.status = "pending"
        BY <1>0, <1>4, <2>1, EnqueuedTyped DEF EraseOwner, Enqueue
    <2>3. source' = [revision |-> source.revision + 1, stamp |-> source.stamp + 1]
          /\ announced' = source.revision + 1
        BY <1>4 DEF EraseOwner, Enqueue
    <2>4. source' \in [revision: Revisions, stamp: Stamps] /\ announced' \in Revisions /\ Bounded'
        BY <1>0, <1>4, <2>1, <2>3 DEF EraseOwner, Bounded, Revisions
    <2>5. /\ document' \in Revisions /\ changes' \in 0..MaxChanges
          /\ rebuilds' \in 0..MaxRebuilds /\ UNCHANGED <<indexer, mishaps>>
        BY <1>0, <1>4 DEF EraseOwner, Revisions
    <2>6. late' = FALSE
        BY <1>4 DEF EraseOwner, Enqueue
    <2> QED BY <2>2, <2>4, <2>5, <2>6, PendingKeepsInv
<1>5. CASE EnqueueRebuild
    <2>1. /\ UNCHANGED <<source, document, indexer, changes, mishaps>>
          /\ rebuilds' \in 0..MaxRebuilds
        BY <1>0, <1>5 DEF EnqueueRebuild
    <2>2. CASE source.revision # 0 /\ Enqueue(source.stamp)
        <3>1. entry' \in Entry /\ entry'.status = "pending"
            BY <1>0, <2>2, EnqueuedTyped DEF Enqueue
        <3>2. announced' = source.revision /\ late' = FALSE
            BY <2>1, <2>2 DEF Enqueue
        <3>3. announced' \in Revisions /\ Bounded'
            BY <1>0, <2>1, <3>2 DEF Bounded
        <3> QED BY <1>0, <2>1, <3>1, <3>2, <3>3, PendingKeepsInv
    <2>3. CASE /\ entry' = [status |-> "pending", stamp |-> source.stamp]
               /\ UNCHANGED <<announced, late>>
        <3>1. entry' \in Entry /\ entry'.status = "pending"
            BY <1>0, <2>3 DEF Entry
        <3>2. Bounded' /\ late' \in BOOLEAN
            BY <2>1, <2>3 DEF SearchInv, SearchTypeOK, Bounded
        <3> QED BY <1>0, <2>1, <2>3, <3>1, <3>2, PendingKeepsInv
    <2> QED BY <1>5, <2>2, <2>3 DEF EnqueueRebuild
<1>6. CASE ChangeUnannounced
    <2>1. /\ source' = [revision |-> source.revision + 1, stamp |-> source.stamp]
          /\ source.revision # 0 /\ changes' = changes + 1 /\ changes < MaxChanges
          /\ UNCHANGED <<announced, document, entry, indexer, rebuilds, mishaps, late>>
        BY <1>0, <1>6 DEF ChangeUnannounced
    <2>2. source' \in [revision: Revisions, stamp: Stamps]
        BY <1>0, <2>1 DEF Revisions
    <2>3. SearchTypeOK'
        BY <1>0, <2>1, <2>2 DEF SearchInv, SearchTypeOK
    <2>4. Bounded'
        BY <1>0, <2>1 DEF Bounded
    <2>5. source'.revision # 0
        BY <1>0, <2>1
    <2>6. \A revision : Current(revision) => Current(revision)'
        BY <2>1, <2>5 DEF Current
    <2>7. \A revision : Current(revision)' => Current(revision)
        BY <2>1, <2>5 DEF Current
    <2>8. ReadIsCurrent' /\ StaleIsQueued'
        BY <2>1, <2>6, <2>7 DEF SearchInv, ReadIsCurrent, StaleIsQueued
    <2> QED BY <2>3, <2>4, <2>8 DEF SearchInv
<1> QED BY <1>1, <1>2, <1>3, <1>4, <1>5, <1>6

-----------------------------------------------------------------------------
\* A step that only stops an indexer keeps the invariant, whether it leaves the entry as it
\* is or failed.
LEMMA StopKeepsInv ==
    ASSUME SearchInv, NEW w \in Indexers,
           indexer' = [indexer EXCEPT ![w] = IdleIndexer] \/ indexer' = indexer,
           entry' = entry \/ (entry.status # "none" /\ entry' = [entry EXCEPT !.status = "failed"]),
           mishaps' \in 0..MaxMishaps,
           UNCHANGED <<source, announced, document, changes, rebuilds, late>>
    PROVE  SearchInv'
<1> USE SearchAssumption
<1>1. entry' \in Entry /\ (entry' = entry \/ (entry.status # "none" /\ entry'.status = "failed"))
    BY DEF SearchInv, SearchTypeOK, Entry
<1>2. IdleIndexer \in IndexerStates /\ IdleIndexer.pc = "idle"
    BY IdleIndexerTyped
<1>3. \A v \in Indexers : indexer'[v] = indexer[v] \/ indexer'[v] = IdleIndexer
    BY DEF SearchInv, SearchTypeOK
<1>4. SearchTypeOK'
    BY <1>1, <1>2 DEF SearchInv, SearchTypeOK, IndexerStates
<1>5. Bounded'
    BY DEF SearchInv, Bounded
<1>6. ReadIsCurrent'
    BY <1>1, <1>2, <1>3 DEF SearchInv, ReadIsCurrent, Current
<1>7. StaleIsQueued'
    BY <1>1 DEF SearchInv, StaleIsQueued, Current
<1> QED BY <1>4, <1>5, <1>6, <1>7 DEF SearchInv

\* Each step of an indexer keeps the invariant.
LEMMA IndexerKeepsInv ==
    ASSUME SearchInv, NEW w \in Indexers,
           IndexerStep(w) \/ SyncFails(w) \/ IndexerCrashes(w)
    PROVE  SearchInv'
<1> USE SearchAssumption
<1>0. /\ entry \in Entry /\ indexer \in [Indexers -> IndexerStates]
      /\ source.revision \in Revisions /\ announced \in Revisions
      /\ mishaps \in 0..MaxMishaps /\ indexer[w] \in IndexerStates /\ late \in BOOLEAN
    BY DEF SearchInv, SearchTypeOK, IndexerStates
<1>1. CASE FindCandidate(w)
    <2> DEFINE x1 == [indexer[w] EXCEPT !.pc = "found"]
               x2 == [x1 EXCEPT !.candidate = entry]
    <2>1. indexer' = [indexer EXCEPT ![w] = x2]
        BY <1>1 DEF FindCandidate
    <2>2. x1 \in IndexerStates /\ x1.pc = "found"
        BY <1>0 DEF IndexerStates
    <2>3. x2 \in IndexerStates /\ x2.pc = "found"
        BY <1>0, <2>2 DEF IndexerStates
    <2> HIDE DEF x2
    <2>4. \A v \in Indexers : v # w => indexer'[v] = indexer[v]
        BY <1>0, <2>1
    <2>5. indexer'[w].pc = "found"
        BY <1>0, <2>1, <2>3
    <2>6. SearchTypeOK'
        BY <1>0, <1>1, <2>1, <2>3 DEF FindCandidate, SearchInv, SearchTypeOK, IndexerStates
    <2>7. Bounded' /\ StaleIsQueued'
        BY <1>1 DEF FindCandidate, SearchInv, Bounded, StaleIsQueued, Current
    <2>8. ReadIsCurrent'
        BY <1>1, <2>4, <2>5 DEF FindCandidate, SearchInv, ReadIsCurrent, Current
    <2> QED BY <2>6, <2>7, <2>8 DEF SearchInv
<1>2. CASE ClaimEntry(w)
    <2>1. CASE entry = indexer[w].candidate
        <3> DEFINE claims(v) == IF v = w THEN [indexer[w] EXCEPT !.pc = "claimed"]
                                ELSE IF HasRead(v) THEN [indexer[v] EXCEPT !.overtaken = TRUE]
                                ELSE indexer[v]
        <3>1. /\ entry' = [entry EXCEPT !.status = "processing"]
              /\ indexer' = [v \in Indexers |-> claims(v)]
              /\ UNCHANGED <<source, announced, document, changes, rebuilds, mishaps, late>>
              /\ indexer[w].pc = "found"
            BY <1>2, <2>1 DEF ClaimEntry
        <3>2. entry' \in Entry /\ entry'.status = "processing"
            BY <1>0, <3>1 DEF Entry
        <3>3. ASSUME NEW v \in Indexers
              PROVE  /\ claims(v) \in IndexerStates
                     /\ claims(v).pc \in {"projected", "written"} => claims(v).overtaken
            <4>1. indexer[v] \in IndexerStates
                BY <1>0
            <4>2. CASE v = w
                BY <1>0, <4>2 DEF IndexerStates
            <4>3. CASE v # w /\ HasRead(v)
                BY <4>1, <4>3 DEF IndexerStates
            <4>4. CASE v # w /\ ~HasRead(v)
                BY <4>1, <4>4 DEF HasRead
            <4> QED BY <4>2, <4>3, <4>4
        <3>4. /\ indexer' \in [Indexers -> IndexerStates]
              /\ \A v \in Indexers :
                    indexer'[v].pc \in {"projected", "written"} => indexer'[v].overtaken
            BY <3>1, <3>3
        <3> HIDE DEF claims
        <3>5. SearchTypeOK'
            BY <3>1, <3>2, <3>4 DEF SearchInv, SearchTypeOK, IndexerStates
        <3>6. Bounded'
            BY <3>1 DEF SearchInv, Bounded
        <3>7. StaleIsQueued'
            BY <3>2 DEF StaleIsQueued
        <3>8. ReadIsCurrent'
            BY <3>4 DEF ReadIsCurrent
        <3> QED BY <3>5, <3>6, <3>7, <3>8 DEF SearchInv
    <2>2. CASE entry # indexer[w].candidate
        BY <1>0, <1>2, <2>2, StopKeepsInv DEF ClaimEntry
    <2> QED BY <2>1, <2>2
<1>3. CASE Project(w)
    <2> DEFINE x1 == [indexer[w] EXCEPT !.pc = "projected"]
               x2 == [x1 EXCEPT !.revision = source.revision]
    <2>1. indexer' = [indexer EXCEPT ![w] = x2]
        BY <1>3 DEF Project
    <2>2. x1 \in IndexerStates /\ x1.pc = "projected"
        BY <1>0 DEF IndexerStates
    <2>3. x2 \in IndexerStates /\ x2.pc = "projected" /\ x2.revision = source.revision
        BY <1>0, <2>2 DEF IndexerStates
    <2> HIDE DEF x2
    <2>4. \A v \in Indexers : v # w => indexer'[v] = indexer[v]
        BY <1>0, <2>1
    <2>5. indexer'[w].pc = "projected" /\ indexer'[w].revision = source.revision
        BY <1>0, <2>1, <2>3
    <2>6. SearchTypeOK'
        BY <1>0, <1>3, <2>1, <2>3 DEF Project, SearchInv, SearchTypeOK, IndexerStates
    <2>7. Bounded' /\ StaleIsQueued'
        BY <1>3 DEF Project, SearchInv, Bounded, StaleIsQueued, Current
    <2>8. Current(source.revision)
        BY <1>0 DEF SearchInv, Bounded, Current, Revisions
    <2>9. ReadIsCurrent'
        BY <1>3, <2>4, <2>5, <2>8 DEF Project, SearchInv, ReadIsCurrent, Current
    <2> QED BY <2>6, <2>7, <2>9 DEF SearchInv
<1>4. CASE WriteDocument(w)
    <2>1. /\ indexer' = [indexer EXCEPT ![w].pc = "written"] /\ document' = indexer[w].revision
          /\ late' = indexer[w].overtaken /\ indexer[w].pc = "projected"
          /\ UNCHANGED <<source, announced, entry, changes, rebuilds, mishaps>>
        BY <1>4 DEF WriteDocument
    <2>2. /\ indexer' \in [Indexers -> IndexerStates] /\ document' \in Revisions
          /\ late' \in BOOLEAN
        BY <1>0, <2>1 DEF IndexerStates
    <2>3. \A v \in Indexers : v # w => indexer'[v] = indexer[v]
        BY <1>0, <2>1
    <2>4. SearchTypeOK'
        BY <2>1, <2>2 DEF SearchInv, SearchTypeOK, IndexerStates
    <2>5. Bounded'
        BY <2>1 DEF SearchInv, Bounded
    <2>6. \A revision : Current(revision)' <=> Current(revision)
        BY <2>1 DEF Current
    <2>7. ASSUME ~late', entry'.status \in {"none", "processing"} PROVE Current(document)'
        <3>1. Current(indexer[w].revision)
            BY <2>1, <2>7 DEF SearchInv, ReadIsCurrent
        <3> QED BY <2>1, <3>1 DEF Current
    <2>8. StaleIsQueued'
        BY <2>7 DEF StaleIsQueued
    <2>9. ASSUME NEW v \in Indexers, entry'.status \in {"none", "processing"},
                 ~indexer'[v].overtaken, indexer'[v].pc = "projected"
          PROVE  Current(indexer[v].revision) /\ indexer'[v] = indexer[v]
        <3>1. v # w
            BY <1>0, <2>1, <2>9 DEF IndexerStates
        <3> QED BY <2>1, <2>3, <2>9, <3>1 DEF SearchInv, ReadIsCurrent
    <2>10. ReadIsCurrent'
        BY <2>1, <2>7, <2>9 DEF ReadIsCurrent, Current
    <2> QED BY <2>4, <2>5, <2>8, <2>10 DEF SearchInv
<1>5. CASE Finish(w)
    <2>1. CASE StillClaimed(w)
        <3>1. /\ entry' = NoEntry /\ indexer' = [indexer EXCEPT ![w] = IdleIndexer]
              /\ late' = (late \/ indexer[w].overtaken) /\ indexer[w].pc = "written"
              /\ entry.status = "processing"
              /\ UNCHANGED <<source, announced, document, changes, rebuilds, mishaps>>
            BY <1>5, <2>1 DEF Finish, StillClaimed
        <3>2. NoEntry \in Entry /\ NoEntry.status = "none"
            BY DEF NoEntry, Entry, Stamps
        <3>3. indexer'[w].pc = "idle" /\ \A v \in Indexers : v # w => indexer'[v] = indexer[v]
            BY <1>0, <3>1, IdleIndexerTyped
        <3>4. late' \in BOOLEAN
            BY <1>0, <3>1
        <3>5. SearchTypeOK'
            BY <3>1, <3>2, <3>4, IdleIndexerTyped DEF SearchInv, SearchTypeOK, IndexerStates
        <3>6. Bounded'
            BY <3>1 DEF SearchInv, Bounded
        <3>7. ASSUME ~late' PROVE Current(document)'
            <4>1. ~late /\ ~indexer[w].overtaken
                BY <3>1, <3>7
            <4> QED BY <3>1, <4>1 DEF SearchInv, ReadIsCurrent, Current
        <3>8. ASSUME NEW v \in Indexers, ~indexer'[v].overtaken, indexer'[v].pc = "projected"
              PROVE  Current(indexer[v].revision)'
            <4>1. v # w /\ indexer'[v] = indexer[v]
                BY <3>3, <3>8
            <4> QED BY <3>1, <3>8, <4>1 DEF SearchInv, ReadIsCurrent, Current
        <3>9. ReadIsCurrent'
            BY <3>7, <3>8 DEF ReadIsCurrent
        <3> QED BY <3>5, <3>6, <3>7, <3>9 DEF SearchInv, StaleIsQueued
    <2>2. CASE ~StillClaimed(w)
        <3>1. late' = late
            BY <1>0, <1>5, <2>2 DEF Finish
        <3> QED BY <1>0, <1>5, <2>2, <3>1, StopKeepsInv DEF Finish
    <2> QED BY <2>1, <2>2
<1>6. CASE SyncFails(w)
    <2>1. /\ indexer' = [indexer EXCEPT ![w] = IdleIndexer] /\ mishaps' \in 0..MaxMishaps
          /\ UNCHANGED <<source, announced, document, changes, rebuilds, late>>
        BY <1>0, <1>6 DEF SyncFails, Mishap
    <2>2. entry' = entry \/ (entry.status # "none" /\ entry' = [entry EXCEPT !.status = "failed"])
        BY <1>6 DEF SyncFails, StillClaimed
    <2> QED BY <2>1, <2>2, StopKeepsInv
<1>7. CASE IndexerCrashes(w)
    <2>1. /\ indexer' = [indexer EXCEPT ![w] = IdleIndexer] /\ mishaps' \in 0..MaxMishaps
          /\ UNCHANGED <<source, announced, document, entry, changes, rebuilds, late>>
        BY <1>0, <1>7 DEF IndexerCrashes, Mishap
    <2> QED BY <2>1, StopKeepsInv
<1> QED BY <1>1, <1>2, <1>3, <1>4, <1>5, <1>6, <1>7 DEF IndexerStep

\* The release of an old claim keeps the invariant.
LEMMA ReleaseKeepsInv ==
    ASSUME SearchInv, ReleaseOldClaims
    PROVE  SearchInv'
<1> USE SearchAssumption
<1>1. /\ entry.status # "none" /\ entry' = [entry EXCEPT !.status = "failed"]
      /\ UNCHANGED <<source, announced, document, indexer, changes, rebuilds, late>>
      /\ mishaps' \in 0..MaxMishaps
    BY DEF ReleaseOldClaims, Mishap, SearchInv, SearchTypeOK
<1>2. entry' \in Entry /\ entry'.status = "failed"
    BY <1>1 DEF SearchInv, SearchTypeOK, Entry
<1>3. SearchTypeOK' /\ Bounded' /\ StaleIsQueued'
    BY <1>1, <1>2 DEF SearchInv, SearchTypeOK, Bounded, StaleIsQueued
<1>4. ReadIsCurrent'
    BY <1>2 DEF ReadIsCurrent
<1> QED BY <1>3, <1>4 DEF SearchInv

-----------------------------------------------------------------------------
\* The invariant holds of every state that is reached.
LEMMA SearchInvariant == SearchSpec => []SearchInv
<1>1. SearchInv /\ [SearchNext]_searchVars => SearchInv'
    <2> SUFFICES ASSUME SearchInv, [SearchNext]_searchVars PROVE SearchInv'
        OBVIOUS
    <2>1. CASE Create \/ Change \/ ChangeUnannounced \/ Delete \/ EraseOwner \/ EnqueueRebuild
        BY <2>1, SourceKeepsInv
    <2>2. CASE ReleaseOldClaims
        BY <2>2, ReleaseKeepsInv
    <2>3. CASE \E w \in Indexers : IndexerStep(w) \/ SyncFails(w) \/ IndexerCrashes(w)
        BY <2>3, IndexerKeepsInv
    <2>4. CASE UNCHANGED searchVars
        BY <2>4 DEF searchVars, SearchInv, SearchTypeOK, Bounded, ReadIsCurrent,
                    StaleIsQueued, Current
    <2> QED BY <2>1, <2>2, <2>3, <2>4 DEF SearchNext
<1> QED BY <1>1, InitSearchInv, PTL DEF SearchSpec

\* The variables have their types, whatever triggers and indexers do in between: revisions
\* and stamps stay within the bounds of the changes made.
THEOREM SearchTypeCorrect == SearchSpec => []SearchTypeOK
<1>1. SearchInv => SearchTypeOK
    BY DEF SearchInv
<1> QED BY <1>1, SearchInvariant, PTL

\* For any number of indexers, changes and rebuilds, claims released under their holders and
\* crashes: a document that misses a change which fired a trigger has an entry in the queue,
\* unless an indexer overtaken since it read the resource was the last that wrote the
\* document or removed the entry.
THEOREM SearchStaleIsQueued == SearchSpec => []StaleIsQueued
<1>1. SearchInv => StaleIsQueued
    BY DEF SearchInv
<1> QED BY <1>1, SearchInvariant, PTL
================================================================================
