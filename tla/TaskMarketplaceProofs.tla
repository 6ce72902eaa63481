----------------------- MODULE TaskMarketplaceProofs ------------------------
(***************************************************************************)
(* Proofs about TaskMarketplace for any number of creators, submits in     *)
(* flight, administrators and submissions.  The assignee is what the       *)
(* concurrent claim, accept and submit compete for; the inductive          *)
(* invariant says whose work and whose proposal a task can carry.          *)
(***************************************************************************)
EXTENDS TaskMarketplace, TLAPS

Inv == TypeOK /\ AssigneeDelivers /\ AcceptedIsAssignee

-----------------------------------------------------------------------------
(* Types *)

\* A task row with a new status, assignee or dispute is a task row.
LEMMA TaskRowUpdate ==
  ASSUME NEW t \in TaskRow, NEW st \in TaskStatuses, NEW a \in Creators \cup {None},
         NEW d \in {"none", "open", "approve", "reject"}
  PROVE  /\ [t EXCEPT !.status = st] \in TaskRow
         /\ [t EXCEPT !.status = st, !.assignee = a] \in TaskRow
         /\ [t EXCEPT !.status = st, !.assignee = a, !.dispute = d] \in TaskRow
         /\ [t EXCEPT !.status = st, !.dispute = d] \in TaskRow
         /\ [t EXCEPT !.dispute = d, !.status = st] \in TaskRow
  BY DEF TaskRow

\* So is one with a flag set or the dispute forgotten.
LEMMA TaskFlagUpdate ==
  ASSUME NEW t \in TaskRow, NEW b \in BOOLEAN
  PROVE  /\ [t EXCEPT !.archived = b] \in TaskRow
         /\ [t EXCEPT !.due = b] \in TaskRow
         /\ [t EXCEPT !.dispute = "none"] \in TaskRow
  BY DEF TaskRow

\* The initial state has the types.
LEMMA InitType == Init => TypeOK
  <1> SUFFICES ASSUME Init PROVE TypeOK
    OBVIOUS
  <1>1. task \in TaskRow
    BY DEF Init, TaskRow, TaskStatuses
  <1>2. sub \in [Subs -> SubRow]
    BY DEF Init, SubRow, SubStatuses
  <1>3. made \in 0..MaxSubs /\ awards \in Nat
    BY MaxSubsAssumption DEF Init
  <1> QED
    BY <1>1, <1>2, <1>3 DEF Init, TypeOK

\* Every step of the publisher keeps the types.
LEMMA PublisherType == TypeOK /\ Publisher => TypeOK'
  <1> SUFFICES ASSUME TypeOK, Publisher PROVE TypeOK'
    OBVIOUS
  <1>1. CASE Create
    BY <1>1, TaskRowUpdate DEF Create, TypeOK, TaskStatuses, inFlight
  <1>2. CASE Cancel
    BY <1>2, TaskRowUpdate DEF Cancel, ReleaseEscrow, TypeOK, TaskStatuses, inFlight
  <1>3. ASSUME NEW st \in TaskStatuses, NEW ss \in SubStatuses, Decide(st, ss)
        PROVE  task' \in TaskRow /\ sub' \in [Subs -> SubRow]
    <2>1. task' \in TaskRow
      BY <1>3, TaskRowUpdate DEF Decide, TypeOK
    <2>2. \A i \in Subs : [sub[i] EXCEPT !.status = ss] \in SubRow
      BY <1>3 DEF TypeOK, SubRow
    <2> QED
      BY <1>3, <2>1, <2>2 DEF Decide, TypeOK
  <1>4. CASE Approve
    <2>1. task' \in TaskRow /\ sub' \in [Subs -> SubRow]
      BY <1>4, <1>3 DEF Approve, TaskStatuses, SubStatuses
    <2>2. task.assignee \in Creators \cup {None}
      BY DEF TypeOK, TaskRow
    <2> QED
      BY <1>4, <2>1, <2>2 DEF Approve, Decide, PayReward, TypeOK, inFlight
  <1>5. CASE Reject
    <2>1. task' \in TaskRow /\ sub' \in [Subs -> SubRow]
      BY <1>5, <1>3 DEF Reject, TaskStatuses, SubStatuses
    <2> QED
      BY <1>5, <2>1 DEF Reject, Decide, TypeOK, inFlight, books
  <1>6. CASE RequestChanges
    <2>1. task' \in TaskRow /\ sub' \in [Subs -> SubRow]
      BY <1>6, <1>3 DEF RequestChanges, TaskStatuses, SubStatuses
    <2> QED
      BY <1>6, <2>1 DEF RequestChanges, Decide, TypeOK, inFlight, books
  <1> QED
    BY <1>1, <1>2, <1>4, <1>5, <1>6 DEF Publisher

\* Every step of a creator, and the submits under way, keep the types.
LEMMA CreatorType ==
  ASSUME TypeOK, NEW c \in Creators, Creator(c) PROVE TypeOK'
  <1>1. CASE BidRead(c)
    BY <1>1 DEF BidRead, TypeOK, books
  <1>2. CASE BidWrite(c)
    <2>1. task' \in TaskRow
      BY <1>2, TaskFlagUpdate DEF BidWrite, TypeOK
    <2> QED
      BY <1>2, <2>1 DEF BidWrite, TypeOK, books
  <1>3. CASE AcceptProposal(c)
    BY <1>3, TaskRowUpdate DEF AcceptProposal, TypeOK, TaskStatuses, books, inFlight
  <1>4. CASE RejectProposal(c)
    BY <1>4 DEF RejectProposal, TypeOK, books, inFlight
  <1>5. CASE Claim(c)
    BY <1>5, TaskRowUpdate DEF Claim, TypeOK, TaskStatuses, books, inFlight
  <1>6. CASE \E q \in Requests : SubmitRead(q, c)
    BY <1>6 DEF SubmitRead, TypeOK, books
  <1> QED
    BY <1>1, <1>2, <1>3, <1>4, <1>5, <1>6 DEF Creator

LEMMA SubmitType ==
  ASSUME TypeOK, NEW q \in Requests, SubmitWrite(q) \/ SubmitLost(q) PROVE TypeOK'
  <1>1. CASE SubmitWrite(q)
    <2>1. made' \in 0..MaxSubs /\ made + 1 \in Subs
      BY <1>1, MaxSubsAssumption DEF SubmitWrite, TypeOK, Subs
    <2>2. task' \in TaskRow
      BY <1>1, TaskRowUpdate DEF SubmitWrite, TypeOK, TaskStatuses
    <2>3. [by |-> request[q], status |-> "pending_review"] \in SubRow
      BY DEF TypeOK, SubRow, SubStatuses
    <2> QED
      BY <1>1, <2>1, <2>2, <2>3 DEF SubmitWrite, TypeOK, books
  <1>2. CASE SubmitLost(q)
    BY <1>2 DEF SubmitLost, TypeOK, books
  <1> QED
    BY <1>1, <1>2

\* Every step of an administrator who decides disputes keeps the types.
LEMMA OfficeType ==
  ASSUME TypeOK, NEW a \in Admins, Office(a) PROVE TypeOK'
  <1>1. CASE \E i \in Subs : ReviewRead(a, i)
    BY <1>1 DEF ReviewRead, TypeOK, Case, books
  <1>2. CASE ReviewBegin(a)
    <2>1. desk[a] \in Case
      BY <1>2 DEF ReviewBegin, TypeOK
    <2>2. [sub |-> desk[a].sub, begun |-> TRUE] \in Case
      BY <2>1 DEF Case
    <2> QED
      BY <1>2, <2>2 DEF ReviewBegin, TypeOK, books
  <1>3. ASSUME NEW decision \in {"approve", "reject"}, ReviewWrite(a, decision)
        PROVE  TypeOK'
    <2>1. desk[a] \in Case
      BY <1>3 DEF ReviewWrite, TypeOK
    <2> DEFINE i == desk[a].sub
    <2>2. i \in Subs
      BY <2>1 DEF Case
    <2>3. task' \in TaskRow
      BY <1>3, TaskRowUpdate DEF ReviewWrite, TypeOK, TaskStatuses
    <2>4. /\ [sub[i] EXCEPT !.status = "revision_requested"] \in SubRow
          /\ [sub[i] EXCEPT !.status = "rejected"] \in SubRow
      BY <2>2 DEF TypeOK, SubRow, SubStatuses
    <2>5. sub' \in [Subs -> SubRow]
      BY <1>3, <2>2, <2>4 DEF ReviewWrite, TypeOK
    <2>6. review' \in [Subs -> {"none", "open", "approve", "reject"}]
      BY <1>3, <2>2 DEF ReviewWrite, TypeOK
    <2>7. /\ escrow' \in {"none", "pending", "settled", "cancelled"}
          /\ released' \in BOOLEAN
          /\ paid' \in Creators \cup {None}
      BY <1>3 DEF ReviewWrite, ReleaseEscrow, TypeOK, books
    <2> QED
      BY <1>3, <2>3, <2>5, <2>6, <2>7 DEF ReviewWrite, TypeOK
  <1> QED
    BY <1>1, <1>2, <1>3 DEF Office

\* The remaining steps: the workers, disputes and the administration.
LEMMA OtherType ==
  ASSUME TypeOK,
         \/ Worker \/ Archive \/ Restore \/ EditDeadline \/ RecoverEscrow \/ DeadlinePasses
         \/ \E i \in Subs : OpenDispute(i)
  PROVE  TypeOK'
  <1>1. CASE Expire
    BY <1>1, TaskRowUpdate DEF Expire, ReleaseEscrow, TypeOK, TaskStatuses, inFlight
  <1>2. ASSUME NEW i \in Subs, SweepStale(i) PROVE TypeOK'
    <2>1. [sub[i] EXCEPT !.status = "stale"] \in SubRow
      BY DEF TypeOK, SubRow, SubStatuses
    <2> QED
      BY <1>2, <2>1 DEF SweepStale, TypeOK, books, inFlight
  <1>3. ASSUME NEW i \in Subs, OpenDispute(i) PROVE TypeOK'
    <2>1. [sub[i] EXCEPT !.status = "disputed"] \in SubRow
      BY DEF TypeOK, SubRow, SubStatuses
    <2>2. task' \in TaskRow
      BY <1>3, TaskRowUpdate DEF OpenDispute, TypeOK, TaskStatuses
    <2>3. sub' \in [Subs -> SubRow]
      BY <1>3, <2>1 DEF OpenDispute, TypeOK
    <2>4. review' \in [Subs -> {"none", "open", "approve", "reject"}]
      BY <1>3 DEF OpenDispute, TypeOK
    <2> QED
      BY <1>3, <2>2, <2>3, <2>4 DEF OpenDispute, TypeOK, books, inFlight
  <1>4. CASE Archive \/ Restore \/ EditDeadline \/ DeadlinePasses
    BY <1>4, TaskFlagUpdate
    DEF Archive, Restore, EditDeadline, DeadlinePasses, TypeOK, books, inFlight
  <1>5. CASE RecoverEscrow
    BY <1>5 DEF RecoverEscrow, ReleaseEscrow, TypeOK, inFlight
  <1> QED
    BY <1>1, <1>2, <1>3, <1>4, <1>5 DEF Worker

LEMMA NextType == TypeOK /\ [Next]_vars => TypeOK'
  <1>1. ASSUME TypeOK, Next PROVE TypeOK'
    BY <1>1, PublisherType, CreatorType, SubmitType, OfficeType, OtherType DEF Next
  <1>2. ASSUME TypeOK, UNCHANGED vars PROVE TypeOK'
    BY <1>2 DEF vars, books, inFlight, TypeOK
  <1> QED
    BY <1>1, <1>2

\* Every row, request and review keeps its type, and no more submissions are
\* made than rows exist (the tables behind every handler of tasks).
THEOREM TaskTypeCorrect == Spec => []TypeOK
  BY InitType, NextType, PTL DEF Spec

-----------------------------------------------------------------------------
(* Who has the task *)

\* A step that leaves the assignee, the authors of the work and the accepted
\* proposals as they are.
Frame ==
  /\ task'.assignee = task.assignee
  /\ made' = made
  /\ \A i \in Subs : sub'[i].by = sub[i].by
  /\ \A c \in Creators : proposal'[c] = "accepted" => proposal[c] = "accepted"

LEMMA FrameKeeps ==
  ASSUME Inv, Frame PROVE AssigneeDelivers' /\ AcceptedIsAssignee'
  <1>1. AssigneeDelivers'
    <2>1. \A i \in 1..made : i \in Subs
      BY MaxSubsAssumption DEF Inv, TypeOK, Subs
    <2> QED
      BY <2>1 DEF Inv, AssigneeDelivers, Frame
  <1>2. AcceptedIsAssignee'
    BY DEF Inv, AcceptedIsAssignee, Frame
  <1> QED
    BY <1>1, <1>2

\* Only three steps are not framed: those in which a creator takes the task.
LEMMA FramedSteps ==
  ASSUME Inv, Next PROVE
    \/ Frame
    \/ \E c \in Creators : AcceptProposal(c) \/ Claim(c)
    \/ \E q \in Requests : SubmitWrite(q)
  <1> USE DEF Inv, TypeOK
  <1>1. ASSUME Publisher PROVE Frame
    BY <1>1 DEF Publisher, Create, Cancel, Approve, Reject, RequestChanges, Decide,
       TaskRow, SubRow, Frame
  <1>2. ASSUME NEW c \in Creators, BidWrite(c) \/ RejectProposal(c) PROVE Frame
    BY <1>2 DEF BidWrite, RejectProposal, TaskRow, Frame
  <1>3. ASSUME NEW c \in Creators, BidRead(c) \/ \E q \in Requests : SubmitRead(q, c)
        PROVE  Frame
    BY <1>3 DEF BidRead, SubmitRead, Frame
  <1>4. ASSUME NEW q \in Requests, SubmitLost(q) PROVE Frame
    BY <1>4 DEF SubmitLost, Frame
  <1>5. ASSUME Expire \/ Archive \/ Restore \/ EditDeadline \/ RecoverEscrow \/ DeadlinePasses
        PROVE  Frame
    BY <1>5 DEF Expire, Archive, Restore, EditDeadline, RecoverEscrow, DeadlinePasses,
       TaskRow, Frame
  <1>6. ASSUME NEW i \in Subs, SweepStale(i) \/ OpenDispute(i) PROVE Frame
    <2>1. \A st \in SubStatuses : [sub[i] EXCEPT !.status = st].by = sub[i].by
      BY DEF SubRow
    <2>2. CASE SweepStale(i)
      BY <2>1, <2>2 DEF SweepStale, SubStatuses, Frame
    <2>3. CASE OpenDispute(i)
      BY <2>1, <2>3 DEF OpenDispute, SubStatuses, TaskRow, Frame
    <2> QED
      BY <1>6, <2>2, <2>3
  <1>7. ASSUME NEW a \in Admins, Office(a) PROVE Frame
    <2>1. CASE \E i \in Subs : ReviewRead(a, i)
      BY <2>1 DEF ReviewRead, Frame
    <2>2. CASE ReviewBegin(a)
      BY <2>2 DEF ReviewBegin, Frame
    <2>3. ASSUME NEW decision \in {"approve", "reject"}, ReviewWrite(a, decision)
          PROVE  Frame
      BY <2>3 DEF ReviewWrite, TaskRow, SubRow, Frame
    <2> QED
      BY <1>7, <2>1, <2>2, <2>3 DEF Office
  <1> QED
    BY <1>1, <1>2, <1>3, <1>4, <1>5, <1>6, <1>7 DEF Next, Creator, Worker

\* A creator takes a task that nobody has, or delivers again.
LEMMA TakingKeeps ==
  ASSUME Inv,
         \/ \E c \in Creators : AcceptProposal(c) \/ Claim(c)
         \/ \E q \in Requests : SubmitWrite(q)
  PROVE  AssigneeDelivers' /\ AcceptedIsAssignee'
  <1> USE DEF Inv, TypeOK
  <1>1. ASSUME NEW c \in Creators, AcceptProposal(c) \/ Claim(c)
        PROVE  AssigneeDelivers' /\ AcceptedIsAssignee'
    <2>1. task.assignee = None /\ task'.assignee = c /\ made' = made
      BY <1>1 DEF AcceptProposal, Claim, TaskRow
    <2>2. made = 0
      BY <2>1, MaxSubsAssumption DEF AssigneeDelivers
    <2>3. AssigneeDelivers'
      BY <2>1, <2>2 DEF AssigneeDelivers
    <2>4. \A d \in Creators : proposal[d] # "accepted"
      BY <2>1, NoneAssumption DEF AcceptedIsAssignee
    <2>5. \A d \in Creators : proposal'[d] = "accepted" => d = c
      <3>1. CASE AcceptProposal(c)
        BY <2>4, <3>1 DEF AcceptProposal
      <3>2. CASE Claim(c)
        BY <2>4, <3>2 DEF Claim
      <3> QED
        BY <1>1, <3>1, <3>2
    <2> QED
      BY <2>1, <2>3, <2>5 DEF AcceptedIsAssignee
  <1>2. ASSUME NEW q \in Requests, SubmitWrite(q)
        PROVE  AssigneeDelivers' /\ AcceptedIsAssignee'
    <2>1. /\ task.assignee \in {None, request[q]}
          /\ task'.assignee = request[q]
          /\ request[q] \in Creators
          /\ made' = made + 1 /\ made < MaxSubs
          /\ proposal' = proposal
      BY <1>2 DEF SubmitWrite, StillSubmittable, TaskRow
    <2>2. made + 1 \in Subs /\ 1..made \subseteq Subs
      BY <2>1, MaxSubsAssumption DEF Subs
    <2>3. \A i \in 1..made : sub'[i].by = sub[i].by
      <3>1. \A i \in 1..made : i # made + 1
        OBVIOUS
      <3> QED
        BY <1>2, <2>2, <3>1 DEF SubmitWrite
    <2>4. sub'[made + 1].by = request[q]
      BY <1>2, <2>2 DEF SubmitWrite
    <2>5. AssigneeDelivers'
      <3>1. \A i \in 1..made : sub[i].by = request[q]
        BY <2>1, NoneAssumption DEF AssigneeDelivers
      <3>2. \A i \in 1..(made + 1) : i \in 1..made \/ i = made + 1
        OBVIOUS
      <3> QED
        BY <2>1, <2>3, <2>4, <3>1, <3>2, NoneAssumption DEF AssigneeDelivers
    <2>6. AcceptedIsAssignee'
      BY <2>1, NoneAssumption DEF AcceptedIsAssignee
    <2> QED
      BY <2>5, <2>6
  <1> QED
    BY <1>1, <1>2

LEMMA InitInv == Init => Inv
  BY InitType DEF Init, Inv, AssigneeDelivers, AcceptedIsAssignee

LEMMA NextInv == Inv /\ [Next]_vars => Inv'
  <1>1. ASSUME Inv, Next PROVE Inv'
    BY <1>1, NextType, FramedSteps, FrameKeeps, TakingKeeps DEF Inv
  <1>2. ASSUME Inv, UNCHANGED vars PROVE Inv'
    <2>1. Frame
      BY <1>2 DEF vars, Frame
    <2> QED
      BY <1>2, <2>1, NextType, FrameKeeps DEF Inv
  <1> QED
    BY <1>1, <1>2

LEMMA AlwaysInv == Spec => []Inv
  BY InitInv, NextInv, PTL DEF Spec

\* All work recorded for a task is its assignee's, and so is the accepted
\* proposal, whoever claimed, was accepted or submitted at the same moment
\* (tasks.submit, claim and reviewProposal), for any number of submits in
\* flight.
THEOREM TaskWorkIsAssignees == Spec => []WorkIsAssignees
  <1>1. Inv => WorkIsAssignees
    BY DEF Inv, WorkIsAssignees
  <1> QED
    BY <1>1, AlwaysInv, PTL

\* The assignee of a task is chosen once, however many administrators resolve
\* its disputes at once.
THEOREM TaskAssigneeStays == Spec => AssigneeStays
  <1>1. Inv /\ [Next]_vars => [task.assignee # None => task'.assignee = task.assignee]_vars
    <2> SUFFICES ASSUME Inv, Next, task.assignee # None
                 PROVE  task'.assignee = task.assignee
      OBVIOUS
    <2>1. CASE Frame
      BY <2>1 DEF Frame
    <2>2. ASSUME NEW q \in Requests, SubmitWrite(q) PROVE task'.assignee = task.assignee
      BY <2>2 DEF SubmitWrite, StillSubmittable, Inv, TypeOK, TaskRow
    <2>3. ~ \E c \in Creators : AcceptProposal(c) \/ Claim(c)
      BY DEF AcceptProposal, Claim
    <2> QED
      BY <2>1, <2>2, <2>3, FramedSteps
  <1> QED
    BY <1>1, AlwaysInv, PTL DEF Spec, AssigneeStays

-----------------------------------------------------------------------------
(* Where the points are *)

\* The transactions of two administrators' decisions do not overlap.  With
\* the second one open nothing below holds: both may write, one after the
\* other, and the second overwrites what the task has become.
OneDecides == \A a, b \in Admins : desk[a] # None /\ desk[b] # None => a = b

\* Creating the task opens its escrow entry, which never goes away.
EscrowOpened ==
  /\ task.status = "absent" <=> escrow = "none"
  /\ task.status = "absent" => ~released

\* What is under review, disputed or done is somebody's work.
WorkAssigned ==
  task.status \in {"pending_review", "rejected", "disputed", "completed"}
    => task.assignee # None

\* A disputed submission is the only one, and its task waits for the decision.
DisputedTask ==
  \A i \in Subs : sub[i].status = "disputed" =>
    /\ task.status = "disputed"
    /\ \A j \in Subs : sub[j].status = "disputed" => j = i

\* The decision an administrator is at is still to be made, and once the
\* transaction has read the submission it stays disputed until it is written.
OpenAtDesk ==
  \A a \in Admins : desk[a] # None =>
    /\ review[desk[a].sub] = "open"
    /\ desk[a].begun => sub[desk[a].sub].status = "disputed"

PointsInv == /\ TypeOK
             /\ EscrowOpened
             /\ WorkAssigned
             /\ DisputedTask
             /\ OpenAtDesk
             /\ SettledByStatus

\* A step that touches neither status nor assignee, work, points and desks.
Quiet ==
  /\ task'.status = task.status /\ task'.assignee = task.assignee
  /\ UNCHANGED <<sub, review, books, awards, desk>>

LEMMA QuietKeeps == ASSUME PointsInv, Quiet, TypeOK' PROVE PointsInv'
  <1>1. UNCHANGED <<sub, review, escrow, released, paid, awards, desk>>
    BY DEF Quiet, books
  <1>2. EscrowOpened' /\ WorkAssigned'
    BY <1>1 DEF PointsInv, EscrowOpened, WorkAssigned, Quiet
  <1>3. DisputedTask'
    BY <1>1 DEF PointsInv, DisputedTask, Quiet
  <1>4. OpenAtDesk'
    BY <1>1 DEF PointsInv, OpenAtDesk
  <1>5. SettledByStatus'
    BY <1>1 DEF PointsInv, SettledByStatus, HeldWhileLive, UpheldRejection, ClosedReleases,
       PaidWhenCompleted, ReputationOnce, Quiet
  <1> QED
    BY <1>2, <1>3, <1>4, <1>5 DEF PointsInv

LEMMA QuietSteps ==
  ASSUME TypeOK,
         \/ \E c \in Creators : BidRead(c) \/ BidWrite(c) \/ RejectProposal(c)
         \/ \E q \in Requests : SubmitLost(q) \/ \E c \in Creators : SubmitRead(q, c)
         \/ Archive \/ Restore \/ EditDeadline \/ DeadlinePasses
  PROVE  Quiet
  <1>1. task \in TaskRow
    BY DEF TypeOK
  <1>2. CASE \E c \in Creators : BidRead(c) \/ BidWrite(c) \/ RejectProposal(c)
    BY <1>1, <1>2 DEF BidRead, BidWrite, RejectProposal, TaskRow, Quiet, inFlight
  <1>3. CASE \E q \in Requests : SubmitLost(q) \/ \E c \in Creators : SubmitRead(q, c)
    BY <1>3 DEF SubmitLost, SubmitRead, Quiet
  <1>4. CASE Archive \/ Restore \/ EditDeadline \/ DeadlinePasses
    BY <1>1, <1>4
    DEF Archive, Restore, EditDeadline, DeadlinePasses, TaskRow, Quiet, inFlight
  <1> QED
    BY <1>2, <1>3, <1>4

\* The work goes on: the task moves between its live statuses and the points
\* stay where they are.
Working(status) ==
  /\ task.status \notin Terminal \cup {"absent"}
  /\ task'.status = status
  /\ status \notin Terminal \cup {"absent"}
  /\ UNCHANGED <<books, awards>>
  /\ \A i \in Subs : review'[i] = "reject" <=> review[i] = "reject"

LEMMA WorkingKeeps ==
  ASSUME PointsInv, TypeOK', NEW status, Working(status)
  PROVE  EscrowOpened' /\ SettledByStatus'
  <1>1. UNCHANGED <<escrow, released, paid, awards>>
    BY DEF Working, books
  <1>2. UpheldRejection' <=> UpheldRejection
    BY DEF UpheldRejection, Working
  <1>3. EscrowOpened'
    BY <1>1 DEF PointsInv, EscrowOpened, Working
  <1>4. HeldWhileLive'
    BY <1>1, <1>2
    DEF PointsInv, TypeOK, TaskRow, SettledByStatus, HeldWhileLive, Working
  <1>5. ClosedReleases' /\ PaidWhenCompleted' /\ ReputationOnce'
    BY <1>1 DEF PointsInv, SettledByStatus, ClosedReleases, PaidWhenCompleted,
       ReputationOnce, Working, Terminal
  <1> QED
    BY <1>3, <1>4, <1>5 DEF SettledByStatus

\* A task is taken: it was open, and nothing is disputed.
LEMMA TakingPoints ==
  ASSUME PointsInv, TypeOK', NEW c \in Creators, AcceptProposal(c) \/ Claim(c)
  PROVE  PointsInv'
  <1>1. /\ task.status = "open" /\ task'.status = "in_progress"
        /\ UNCHANGED <<sub, review, books, awards, desk>>
    BY DEF AcceptProposal, Claim, inFlight, PointsInv, TypeOK, TaskRow
  <1>2. Working("in_progress")
    BY <1>1 DEF Working, Terminal
  <1>3. WorkAssigned'
    BY <1>1 DEF WorkAssigned
  <1>4. DisputedTask'
    BY <1>1 DEF PointsInv, DisputedTask
  <1>5. OpenAtDesk'
    BY <1>1 DEF PointsInv, OpenAtDesk
  <1> QED
    BY <1>2, <1>3, <1>4, <1>5, WorkingKeeps DEF PointsInv

\* Work is delivered on a row that was not there before.
LEMMA SubmitPoints ==
  ASSUME PointsInv, TypeOK', NEW q \in Requests, SubmitWrite(q)
  PROVE  PointsInv'
  <1>1. /\ task.status \in Submittable /\ task'.status = "pending_review"
        /\ task'.assignee = request[q] /\ request[q] # None
        /\ UNCHANGED <<review, books, awards, desk>>
    BY DEF SubmitWrite, StillSubmittable, PointsInv, TypeOK, TaskRow
  <1>2. Working("pending_review")
    BY <1>1 DEF Working, Terminal, Submittable
  <1>3. WorkAssigned'
    BY <1>1 DEF WorkAssigned
  <1>4. \A i \in Subs : sub[i].status # "disputed"
    BY <1>1 DEF PointsInv, DisputedTask, Submittable
  <1>5. \A i \in Subs : sub'[i].status # "disputed"
    BY <1>4 DEF SubmitWrite, PointsInv, TypeOK
  <1>6. DisputedTask'
    BY <1>5 DEF DisputedTask
  <1>7. ASSUME NEW a \in Admins, desk[a] # None
        PROVE  desk[a].sub \in Subs /\ ~desk[a].begun
    BY <1>4, <1>7 DEF PointsInv, TypeOK, Case, OpenAtDesk
  <1>8. OpenAtDesk'
    BY <1>1, <1>7 DEF PointsInv, OpenAtDesk
  <1> QED
    BY <1>2, <1>3, <1>6, <1>8, WorkingKeeps DEF PointsInv

\* A decision, or the sweep, leaves no submission disputed that was not.
LEMMA DecidePoints ==
  ASSUME PointsInv, TypeOK', NEW st, NEW ss \in {"approved", "rejected", "revision_requested"},
         Decide(st, ss)
  PROVE  /\ task.status = "pending_review" /\ task'.status = st
         /\ task'.assignee = task.assignee /\ task.assignee # None
         /\ DisputedTask' /\ OpenAtDesk'
  <1>1. /\ task.status = "pending_review" /\ task'.status = st
        /\ task'.assignee = task.assignee
        /\ UNCHANGED <<review, desk>>
    BY DEF Decide, inFlight, PointsInv, TypeOK, TaskRow
  <1>2. task.assignee # None
    BY <1>1 DEF PointsInv, WorkAssigned
  <1>3. \A i \in Subs : sub[i].status # "disputed"
    BY <1>1 DEF PointsInv, DisputedTask
  <1>4. \A i \in Subs : [sub[i] EXCEPT !.status = ss].status = ss
    BY DEF PointsInv, TypeOK, SubRow
  <1>5. \A i \in Subs : sub'[i].status \in {sub[i].status, ss}
    BY <1>4 DEF Decide
  <1>6. DisputedTask'
    BY <1>3, <1>5 DEF DisputedTask
  <1>7. ASSUME NEW a \in Admins, desk[a] # None
        PROVE  ~desk[a].begun
    BY <1>3, <1>7 DEF PointsInv, TypeOK, Case, OpenAtDesk
  <1>8. OpenAtDesk'
    BY <1>1, <1>7 DEF PointsInv, OpenAtDesk
  <1> QED
    BY <1>1, <1>2, <1>6, <1>8

LEMMA ReviewedPoints ==
  ASSUME PointsInv, TypeOK', Reject \/ RequestChanges PROVE PointsInv'
  <1>1. CASE Reject
    <2>1. /\ task.status = "pending_review" /\ task'.status = "rejected"
          /\ task'.assignee = task.assignee /\ task.assignee # None
          /\ DisputedTask' /\ OpenAtDesk'
      BY <1>1, DecidePoints DEF Reject
    <2>2. Working("rejected")
      BY <1>1, <2>1 DEF Reject, Decide, Working, Terminal
    <2> QED
      BY <2>1, <2>2, WorkingKeeps DEF PointsInv, WorkAssigned
  <1>2. CASE RequestChanges
    <2>1. /\ task.status = "pending_review" /\ task'.status = "in_progress"
          /\ DisputedTask' /\ OpenAtDesk'
      BY <1>2, DecidePoints DEF RequestChanges
    <2>2. Working("in_progress")
      BY <1>2, <2>1 DEF RequestChanges, Decide, Working, Terminal
    <2> QED
      BY <2>1, <2>2, WorkingKeeps DEF PointsInv, WorkAssigned
  <1> QED
    BY <1>1, <1>2

LEMMA SweepPoints ==
  ASSUME PointsInv, TypeOK', NEW i \in Subs, SweepStale(i) PROVE PointsInv'
  <1>1. UNCHANGED <<task, review, escrow, released, paid, awards, desk>>
    BY DEF SweepStale, books, inFlight
  <1>2. /\ sub[i].status = "pending_review" /\ sub'[i].status = "stale"
        /\ \A j \in Subs \ {i} : sub'[j] = sub[j]
    BY DEF SweepStale, PointsInv, TypeOK, SubRow
  <1>3. \A j \in Subs : sub'[j].status = "disputed" <=> sub[j].status = "disputed"
    BY <1>2
  <1>4. EscrowOpened' /\ WorkAssigned'
    BY <1>1 DEF PointsInv, EscrowOpened, WorkAssigned
  <1>5. DisputedTask'
    BY <1>1, <1>3 DEF PointsInv, DisputedTask
  <1>6. \A a \in Admins : desk[a] # None => desk[a].sub \in Subs
    BY DEF PointsInv, TypeOK, Case
  <1>7. OpenAtDesk'
    BY <1>1, <1>3, <1>6 DEF PointsInv, OpenAtDesk
  <1>8. SettledByStatus'
    BY <1>1 DEF PointsInv, SettledByStatus, HeldWhileLive, UpheldRejection, ClosedReleases,
       PaidWhenCompleted, ReputationOnce
  <1> QED
    BY <1>4, <1>5, <1>7, <1>8 DEF PointsInv

\* A dispute is opened: no other was, so nobody has begun to decide one.
LEMMA DisputePoints ==
  ASSUME PointsInv, TypeOK', NEW i \in Subs, OpenDispute(i) PROVE PointsInv'
  <1>1. /\ task.status \in {"rejected", "pending_review"} /\ task'.status = "disputed"
        /\ task'.assignee = task.assignee
        /\ UNCHANGED <<books, awards, desk>>
    BY DEF OpenDispute, inFlight, PointsInv, TypeOK, TaskRow
  <1>2. \A j \in Subs : sub[j].status # "disputed"
    BY <1>1 DEF PointsInv, DisputedTask
  <1>3. \A j \in Subs \ {i} : sub'[j] = sub[j] /\ review'[j] = review[j]
    BY DEF OpenDispute, PointsInv, TypeOK
  <1>4. review'[i] = IF review[i] = "none" THEN "open" ELSE review[i]
    BY DEF OpenDispute, PointsInv, TypeOK
  <1>5. Working("disputed")
    BY <1>1, <1>3, <1>4 DEF Working, Terminal
  <1>6. WorkAssigned'
    BY <1>1 DEF PointsInv, WorkAssigned
  <1>7. DisputedTask'
    BY <1>1, <1>2, <1>3 DEF DisputedTask
  <1>8. ASSUME NEW a \in Admins, desk[a] # None
        PROVE  desk[a].sub \in Subs /\ review[desk[a].sub] = "open" /\ ~desk[a].begun
    BY <1>2, <1>8 DEF PointsInv, TypeOK, Case, OpenAtDesk
  <1>9. \A j \in Subs : review[j] = "open" => review'[j] = "open"
    BY <1>3, <1>4
  <1>10. OpenAtDesk'
    BY <1>1, <1>8, <1>9 DEF OpenAtDesk
  <1> QED
    BY <1>5, <1>6, <1>7, <1>10, WorkingKeeps DEF PointsInv

\* An administrator opens the case, or begins its transaction.
LEMMA DeskPoints ==
  ASSUME PointsInv, TypeOK', NEW a \in Admins,
         ReviewBegin(a) \/ \E i \in Subs : ReviewRead(a, i)
  PROVE  PointsInv'
  <1>1. UNCHANGED <<task, sub, review, escrow, released, paid, awards>>
    BY DEF ReviewBegin, ReviewRead, books
  <1>2. EscrowOpened' /\ WorkAssigned'
    BY <1>1 DEF PointsInv, EscrowOpened, WorkAssigned
  <1>3. DisputedTask'
    BY <1>1 DEF PointsInv, DisputedTask
  <1>4. \A b \in Admins \ {a} : desk'[b] = desk[b]
    BY DEF ReviewBegin, ReviewRead, PointsInv, TypeOK
  <1>5. desk'[a] # None =>
          /\ review[desk'[a].sub] = "open"
          /\ desk'[a].begun => sub[desk'[a].sub].status = "disputed"
    <2>1. CASE ReviewBegin(a)
      <3>1. /\ desk[a] # None /\ review[desk[a].sub] = "open"
            /\ desk'[a] = IF sub[desk[a].sub].status = "disputed"
                            THEN [sub |-> desk[a].sub, begun |-> TRUE] ELSE None
        BY <2>1 DEF ReviewBegin, PointsInv, TypeOK, OpenAtDesk
      <3> QED
        BY <3>1
    <2>2. ASSUME NEW i \in Subs, ReviewRead(a, i)
          PROVE  review[desk'[a].sub] = "open" /\ ~desk'[a].begun
      BY <2>2 DEF ReviewRead, PointsInv, TypeOK
    <2> QED
      BY <2>1, <2>2
  <1>6. OpenAtDesk'
    BY <1>1, <1>4, <1>5 DEF PointsInv, OpenAtDesk
  <1>7. SettledByStatus'
    BY <1>1 DEF PointsInv, SettledByStatus, HeldWhileLive, UpheldRejection, ClosedReleases,
       PaidWhenCompleted, ReputationOnce
  <1> QED
    BY <1>2, <1>3, <1>6, <1>7 DEF PointsInv

\* The decision of the only open dispute is written; a rejected one gives the
\* points back.
LEMMA WritePoints ==
  ASSUME PointsInv, OneDecides, TypeOK', NEW a \in Admins,
         NEW decision \in {"approve", "reject"}, ReviewWrite(a, decision)
  PROVE  /\ PointsInv'
         /\ task.status = "disputed"
  <1> DEFINE i == desk[a].sub
  <1>1. desk[a] # None /\ desk[a].begun /\ i \in Subs
    BY DEF ReviewWrite, PointsInv, TypeOK, Case
  <1>2. /\ review[i] = "open" /\ sub[i].status = "disputed"
        /\ task.status = "disputed"
        /\ \A j \in Subs : sub[j].status = "disputed" => j = i
    BY <1>1 DEF PointsInv, OpenAtDesk, DisputedTask
  <1>3. /\ task'.status = IF decision = "approve" THEN "in_progress" ELSE "rejected"
        /\ task'.assignee = task.assignee
    BY DEF ReviewWrite, PointsInv, TypeOK, TaskRow
  <1>4. \A j \in Subs : sub'[j].status # "disputed"
    BY <1>1, <1>2 DEF ReviewWrite, PointsInv, TypeOK, SubRow
  <1>5. review' = [review EXCEPT ![i] = decision]
    BY DEF ReviewWrite
  <1>6. WorkAssigned' /\ DisputedTask'
    BY <1>2, <1>3, <1>4 DEF PointsInv, WorkAssigned, DisputedTask
  <1>7. OpenAtDesk'
    <2>1. \A b \in Admins : desk'[b] = None
      BY <1>1 DEF ReviewWrite, OneDecides, PointsInv, TypeOK
    <2> QED
      BY <2>1 DEF OpenAtDesk
  <1>8. EscrowOpened' /\ SettledByStatus'
    <2>1. CASE decision = "approve"
      <3>1. \A j \in Subs : review'[j] = "reject" <=> review[j] = "reject"
        BY <1>1, <1>2, <1>5, <2>1 DEF PointsInv, TypeOK
      <3>2. Working("in_progress")
        BY <1>2, <1>3, <2>1, <3>1 DEF ReviewWrite, Working, Terminal
      <3> QED
        BY <3>2, WorkingKeeps
    <2>2. CASE decision = "reject"
      <3>1. UpheldRejection'
        BY <1>1, <1>5, <2>2 DEF UpheldRejection, PointsInv, TypeOK
      <3>2. /\ task'.status = "rejected"
            /\ escrow' # "none" /\ paid' = paid /\ awards' = awards
        BY <1>2, <1>3, <2>2
        DEF ReviewWrite, ReleaseEscrow, PointsInv, EscrowOpened
      <3>3. EscrowOpened' /\ HeldWhileLive' /\ ClosedReleases'
        BY <3>1, <3>2 DEF EscrowOpened, HeldWhileLive, ClosedReleases
      <3>4. PaidWhenCompleted' /\ ReputationOnce'
        BY <1>2, <3>2 DEF PointsInv, SettledByStatus, PaidWhenCompleted, ReputationOnce
      <3> QED
        BY <3>3, <3>4 DEF SettledByStatus
    <2> QED
      BY <2>1, <2>2
  <1> QED
    BY <1>2, <1>6, <1>7, <1>8 DEF PointsInv

\* The task is created with its escrow entry.
LEMMA CreatePoints == ASSUME PointsInv, TypeOK', Create PROVE PointsInv'
  <1>1. /\ task.status = "absent" /\ task'.status = "open"
        /\ escrow' = "pending"
        /\ UNCHANGED <<sub, review, released, paid, awards, desk>>
    BY DEF Create, inFlight, PointsInv, TypeOK, TaskRow
  <1>2. EscrowOpened' /\ WorkAssigned'
    BY <1>1 DEF EscrowOpened, WorkAssigned
  <1>3. DisputedTask'
    BY <1>1 DEF PointsInv, DisputedTask
  <1>4. OpenAtDesk'
    BY <1>1 DEF PointsInv, OpenAtDesk
  <1>5. ~released /\ paid = None /\ awards = 0
    BY <1>1 DEF PointsInv, EscrowOpened, SettledByStatus, PaidWhenCompleted, ReputationOnce
  <1>6. SettledByStatus'
    BY <1>1, <1>5 DEF SettledByStatus, HeldWhileLive, ClosedReleases, PaidWhenCompleted,
       ReputationOnce
  <1> QED
    BY <1>2, <1>3, <1>4, <1>6 DEF PointsInv

\* A cancelled or expired task gives the points back, however often.
LEMMA ClosePoints ==
  ASSUME PointsInv, TypeOK', Cancel \/ Expire \/ RecoverEscrow PROVE PointsInv'
  <1>1. /\ task.status \in Expirable \cup {"cancelled", "expired"}
        /\ task'.status \in {"cancelled", "expired"}
        /\ UNCHANGED <<sub, review, awards, desk>>
    BY DEF Cancel, Expire, RecoverEscrow, inFlight, Expirable, PointsInv, TypeOK, TaskRow
  <1>2. escrow # "none" /\ paid = None /\ awards = 0
    BY <1>1 DEF PointsInv, EscrowOpened, SettledByStatus, PaidWhenCompleted, ReputationOnce,
       Expirable
  <1>3. escrow' = "cancelled" /\ released' = TRUE /\ paid' = None
    BY <1>2 DEF Cancel, Expire, RecoverEscrow, ReleaseEscrow
  <1>4. EscrowOpened' /\ WorkAssigned'
    BY <1>1, <1>3 DEF EscrowOpened, WorkAssigned
  <1>5. \A i \in Subs : sub[i].status # "disputed"
    BY <1>1 DEF PointsInv, DisputedTask, Expirable
  <1>6. DisputedTask'
    BY <1>1, <1>5 DEF DisputedTask
  <1>7. OpenAtDesk'
    BY <1>1 DEF PointsInv, OpenAtDesk
  <1>8. SettledByStatus'
    BY <1>1, <1>2, <1>3 DEF SettledByStatus, HeldWhileLive, ClosedReleases,
       PaidWhenCompleted, ReputationOnce, Terminal
  <1> QED
    BY <1>4, <1>6, <1>7, <1>8 DEF PointsInv

\* The reward is paid to the assignee, once.
LEMMA ApprovePoints == ASSUME PointsInv, TypeOK', Approve PROVE PointsInv'
  <1>1. /\ task.status = "pending_review" /\ task'.status = "completed"
        /\ task'.assignee = task.assignee /\ task.assignee # None
        /\ DisputedTask' /\ OpenAtDesk'
    BY DecidePoints DEF Approve
  <1>2. escrow # "none" /\ awards = 0
    BY <1>1 DEF PointsInv, EscrowOpened, SettledByStatus, ReputationOnce
  <1>3. escrow' = "settled" /\ paid' = task.assignee /\ awards' = 1
    BY <1>2 DEF Approve, PayReward
  <1>4. EscrowOpened' /\ WorkAssigned'
    BY <1>1, <1>3 DEF EscrowOpened, WorkAssigned
  <1>5. SettledByStatus'
    BY <1>1, <1>3 DEF SettledByStatus, HeldWhileLive, ClosedReleases, PaidWhenCompleted,
       ReputationOnce, Terminal
  <1> QED
    BY <1>1, <1>4, <1>5 DEF PointsInv

LEMMA InitPoints == Init => PointsInv
  <1> SUFFICES ASSUME Init PROVE PointsInv
    OBVIOUS
  <1>1. \A i \in Subs : sub[i].status = "none"
    BY DEF Init
  <1>2. EscrowOpened /\ WorkAssigned /\ DisputedTask /\ OpenAtDesk
    BY <1>1 DEF Init, EscrowOpened, WorkAssigned, DisputedTask, OpenAtDesk
  <1>3. SettledByStatus
    BY DEF Init, SettledByStatus, HeldWhileLive, ClosedReleases, PaidWhenCompleted,
       ReputationOnce
  <1> QED
    BY <1>2, <1>3, InitType DEF PointsInv

LEMMA NextPoints == PointsInv /\ OneDecides /\ [Next]_vars => PointsInv'
  <1> SUFFICES ASSUME PointsInv, OneDecides, [Next]_vars PROVE PointsInv'
    OBVIOUS
  <1>1. TypeOK /\ TypeOK'
    BY NextType DEF PointsInv
  <1>2. CASE UNCHANGED vars
    <2>1. Quiet
      BY <1>2 DEF vars, inFlight, Quiet
    <2> QED
      BY <1>1, <2>1, QuietKeeps
  <1>3. CASE Publisher
    BY <1>1, <1>3, CreatePoints, ClosePoints, ApprovePoints, ReviewedPoints DEF Publisher
  <1>4. CASE Worker
    BY <1>1, <1>4, ClosePoints, SweepPoints DEF Worker
  <1>5. CASE \E c \in Creators : Creator(c)
    BY <1>1, <1>5, QuietSteps, QuietKeeps, TakingPoints DEF Creator
  <1>6. CASE \E q \in Requests : SubmitWrite(q) \/ SubmitLost(q)
    BY <1>1, <1>6, QuietSteps, QuietKeeps, SubmitPoints
  <1>7. CASE \E i \in Subs : OpenDispute(i)
    BY <1>1, <1>7, DisputePoints
  <1>8. CASE \E a \in Admins : Office(a)
    BY <1>1, <1>8, DeskPoints, WritePoints DEF Office
  <1>9. CASE Archive \/ Restore \/ EditDeadline \/ RecoverEscrow \/ DeadlinePasses
    BY <1>1, <1>9, QuietSteps, QuietKeeps, ClosePoints
  <1> QED
    BY <1>2, <1>3, <1>4, <1>5, <1>6, <1>7, <1>8, <1>9 DEF Next

LEMMA AlwaysPoints == Spec /\ []OneDecides => []PointsInv
  BY InitPoints, NextPoints, PTL DEF Spec

\* Points and reputation follow the status of the task, and the reward is held
\* for as long as the work goes on and no rejection was upheld (the handlers of
\* tasks, their escrow operations and adminReviews.review), for any number of
\* creators, submits in flight, submissions and administrators, provided two
\* administrators do not decide at the same time.
THEOREM TaskSettledByStatus == Spec /\ []OneDecides => []SettledByStatus
  <1>1. PointsInv => SettledByStatus
    BY DEF PointsInv
  <1> QED
    BY <1>1, AlwaysPoints, PTL

LEMMA ClosedStays ==
  ASSUME PointsInv, OneDecides, Next, task.status \in Terminal
  PROVE  task'.status = task.status
  <1>1. TypeOK /\ TypeOK'
    BY NextType DEF PointsInv
  <1>2. CASE Publisher
    BY <1>2 DEF Publisher, Create, Cancel, Approve, Reject, RequestChanges, Decide, Terminal
  <1>3. CASE Worker
    BY <1>3 DEF Worker, Expire, SweepStale, Expirable, Terminal
  <1>4. CASE \E c \in Creators : Creator(c)
    <2>1. ASSUME NEW c \in Creators PROVE ~AcceptProposal(c) /\ ~Claim(c)
      BY DEF AcceptProposal, Claim, Terminal
    <2> QED
      BY <1>1, <1>4, <2>1, QuietSteps DEF Creator, Quiet
  <1>5. CASE \E q \in Requests : SubmitWrite(q) \/ SubmitLost(q)
    <2>1. \A q \in Requests : ~SubmitWrite(q)
      BY DEF SubmitWrite, StillSubmittable, Submittable, Terminal
    <2> QED
      BY <1>1, <1>5, <2>1, QuietSteps DEF Quiet
  <1>6. CASE \E i \in Subs : OpenDispute(i)
    BY <1>6 DEF OpenDispute, Terminal
  <1>7. CASE \E a \in Admins : Office(a)
    <2>1. ASSUME NEW a \in Admins, NEW decision \in {"approve", "reject"}
          PROVE  ~ReviewWrite(a, decision)
      BY <1>1, <2>1, WritePoints DEF Terminal
    <2> QED
      BY <1>7, <2>1 DEF Office, ReviewRead, ReviewBegin
  <1>8. CASE RecoverEscrow
    BY <1>8 DEF RecoverEscrow
  <1>9. CASE Archive \/ Restore \/ EditDeadline \/ DeadlinePasses
    BY <1>1, <1>9, QuietSteps DEF Quiet
  <1> QED
    BY <1>2, <1>3, <1>4, <1>5, <1>6, <1>7, <1>8, <1>9 DEF Next

\* A completed, cancelled or expired task stays what it is under the same
\* proviso (docs/TASK_LIFECYCLE_RECOVERY.md): no handler that read it while it
\* was live still reopens it.
THEOREM TaskTerminalStays == Spec /\ []OneDecides => TerminalStays
  <1>1. PointsInv /\ OneDecides /\ [Next]_vars
          => [task.status \in Terminal => task'.status = task.status]_vars
    BY ClosedStays
  <1> QED
    BY <1>1, AlwaysPoints, PTL DEF Spec, TerminalStays

\* A decision that was made stays, and only a closed task or a rejected dispute
\* gives the points back.
ReleasedWhy == released => UpheldRejection \/ task.status \in {"cancelled", "expired"}

LEMMA DecisionStays ==
  ASSUME PointsInv, Next, UpheldRejection PROVE UpheldRejection'
  <1>1. PICK i \in Subs : review[i] = "reject"
    BY DEF UpheldRejection
  <1>2. CASE review' = review
    BY <1>1, <1>2 DEF UpheldRejection
  <1>3. ASSUME NEW j \in Subs, OpenDispute(j) PROVE UpheldRejection'
    <2>1. review'[i] = "reject"
      BY <1>1, <1>3 DEF OpenDispute, PointsInv, TypeOK
    <2> QED
      BY <2>1 DEF UpheldRejection
  <1>4. ASSUME NEW a \in Admins, NEW decision \in {"approve", "reject"},
               ReviewWrite(a, decision)
        PROVE  UpheldRejection'
    <2>1. review[desk[a].sub] = "open"
      BY <1>4 DEF ReviewWrite, PointsInv, OpenAtDesk
    <2>2. review'[i] = "reject"
      BY <1>1, <1>4, <2>1 DEF ReviewWrite, PointsInv, TypeOK
    <2> QED
      BY <2>2 DEF UpheldRejection
  <1>5. \/ review' = review
        \/ \E j \in Subs : OpenDispute(j)
        \/ \E a \in Admins : \E decision \in {"approve", "reject"} : ReviewWrite(a, decision)
    BY DEF Next, Publisher, Create, Cancel, Approve, Reject, RequestChanges, Decide,
       Creator, BidRead, BidWrite, AcceptProposal, RejectProposal, Claim, SubmitRead,
       SubmitWrite, SubmitLost, Worker, Expire, SweepStale, Office, ReviewRead, ReviewBegin,
       Archive, Restore, EditDeadline, RecoverEscrow, DeadlinePasses
  <1> QED
    BY <1>2, <1>3, <1>4, <1>5

LEMMA NextReleasedWhy ==
  PointsInv /\ OneDecides /\ ReleasedWhy /\ [Next]_vars => ReleasedWhy'
  <1> SUFFICES ASSUME PointsInv, OneDecides, ReleasedWhy, [Next]_vars, released'
               PROVE  UpheldRejection' \/ task'.status \in {"cancelled", "expired"}
    BY DEF ReleasedWhy
  <1>1. CASE UNCHANGED vars
    BY <1>1 DEF vars, books, ReleasedWhy, UpheldRejection
  <1>2. CASE Next /\ released
    BY <1>2, DecisionStays, ClosedStays DEF ReleasedWhy, Terminal
  <1>3. CASE Next /\ ~released
    <2>1. \/ Cancel \/ Expire \/ RecoverEscrow
          \/ \E a \in Admins : ReviewWrite(a, "reject")
      <3>1. CASE UNCHANGED books
        BY <1>3, <3>1 DEF books
      <3>2. CASE Create \/ Approve
        BY <1>3, <3>2 DEF Create, Approve, PayReward
      <3>3. \/ UNCHANGED books \/ Create \/ Approve \/ Cancel \/ Expire \/ RecoverEscrow
            \/ \E a \in Admins : ReviewWrite(a, "reject")
        BY <1>3 DEF Next, Publisher, Reject, RequestChanges,
           Creator, BidRead, BidWrite, AcceptProposal, RejectProposal, Claim, SubmitRead,
           SubmitWrite, SubmitLost, Worker, SweepStale, Office, ReviewRead, ReviewBegin,
           ReviewWrite, OpenDispute, Archive, Restore, EditDeadline, DeadlinePasses
      <3> QED
        BY <3>1, <3>2, <3>3
    <2>2. CASE Cancel \/ Expire \/ RecoverEscrow
      BY <2>2 DEF Cancel, Expire, RecoverEscrow, PointsInv, TypeOK, TaskRow
    <2>3. ASSUME NEW a \in Admins, ReviewWrite(a, "reject") PROVE UpheldRejection'
      <3>1. desk[a].sub \in Subs
        BY <2>3 DEF ReviewWrite, PointsInv, TypeOK, Case
      <3>2. review'[desk[a].sub] = "reject"
        BY <2>3, <3>1 DEF ReviewWrite, PointsInv, TypeOK
      <3> QED
        BY <3>1, <3>2 DEF UpheldRejection
    <2> QED
      BY <2>1, <2>2, <2>3
  <1> QED
    BY <1>1, <1>2, <1>3

\* The points in escrow leave it once as long as no dispute was rejected: a
\* rejected dispute that leads to another delivery is the only way to the double
\* payment that docs/V1_64_TASK_MARKETPLACE_LIFECYCLE.md excludes.
THEOREM TaskEscrowLeavesOnceUnlessUpheld ==
  Spec /\ []OneDecides => [](UpheldRejection \/ EscrowLeavesOnce)
  <1>1. Init => ReleasedWhy
    BY DEF Init, ReleasedWhy
  <1>2. PointsInv /\ ReleasedWhy => UpheldRejection \/ EscrowLeavesOnce
    BY DEF PointsInv, ReleasedWhy, SettledByStatus, PaidWhenCompleted, EscrowLeavesOnce
  <1> QED
    BY <1>1, <1>2, NextReleasedWhy, AlwaysPoints, PTL DEF Spec

\* With one administrator, as in the run, the proviso holds by itself.
THEOREM TaskOneAdministrator ==
  ASSUME \A a, b \in Admins : a = b
  PROVE  Spec => []SettledByStatus /\ TerminalStays
  <1>1. OneDecides
    BY DEF OneDecides
  <1> QED
    BY <1>1, TaskSettledByStatus, TaskTerminalStays, PTL
=============================================================================
