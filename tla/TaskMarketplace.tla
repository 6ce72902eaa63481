-------------------------- MODULE TaskMarketplace ---------------------------
(***************************************************************************)
(* The life of one marketplace task: its row in tasks, the proposals and   *)
(* submissions made for it, the dispute review rows, and the points held   *)
(* in escrow for its reward.  Tasks share no row but the users' point      *)
(* accounts, so one task shows every interleaving of its handlers.         *)
(*                                                                         *)
(* Handlers that read the task before their transaction (createProposal,   *)
(* submit, the administrator's review of a dispute) are split where other  *)
(* transactions can commit.  The others check all they rely on again in a  *)
(* compare-and-set, or run serializable, and are one step.                 *)
(***************************************************************************)
EXTENDS Integers

CONSTANTS Creators,  \* users other than the publisher
          Requests,  \* submit requests that may be in flight at once
          Admins,    \* administrators who decide disputes
          MaxSubs,   \* bound: submissions made for the task
          None

ASSUME MaxSubsAssumption == MaxSubs \in Nat \ {0}
ASSUME NoneAssumption == None \notin Creators

VARIABLES task,      \* the tasks row
          proposal,  \* status of each creator's proposal
          sub,       \* the task_submissions rows, numbered by createdAt
          made,      \* how many of them exist
          review,    \* the admin_reviews row of each submission's dispute
          escrow,    \* status of the publisher's task_escrow ledger entry
          released,  \* the task_escrow_release operation was applied
          paid,      \* recipient of the task_escrow_transfer operation
          awards,    \* times the completion was added to the profile stats
          bidding,   \* creators between the read and the write of createProposal
          request,   \* whose submit is between its read and its write
          desk       \* what each administrator is deciding

books == <<escrow, released, paid>>
inFlight == <<bidding, request, desk>>
vars == <<task, proposal, sub, made, review, books, awards, inFlight>>

Subs == 1..MaxSubs
TaskStatuses == {"absent", "open", "in_progress", "pending_review", "rejected",
                 "disputed", "completed", "cancelled", "expired"}
SubStatuses == {"none", "pending_review", "approved", "rejected",
                "revision_requested", "stale", "disputed"}
Terminal == {"completed", "cancelled", "expired"}
Submittable == {"open", "in_progress", "rejected"}
Expirable == {"open", "in_progress", "rejected"}
Archivable == {"open", "completed", "rejected", "cancelled", "expired"}
Disputable == {"rejected", "stale"}

TaskRow == [status : TaskStatuses, assignee : Creators \cup {None},
            archived : BOOLEAN, due : BOOLEAN,
            dispute : {"none", "open", "approve", "reject"}]
SubRow == [by : Creators \cup {None}, status : SubStatuses]
Case == [sub : Subs, begun : BOOLEAN]

TypeOK ==
  /\ task \in TaskRow
  /\ proposal \in [Creators -> {"none", "pending", "accepted", "rejected"}]
  /\ sub \in [Subs -> SubRow]
  /\ made \in 0..MaxSubs
  /\ review \in [Subs -> {"none", "open", "approve", "reject"}]
  /\ escrow \in {"none", "pending", "settled", "cancelled"}
  /\ released \in BOOLEAN
  /\ paid \in Creators \cup {None}
  /\ awards \in Nat
  /\ bidding \in SUBSET Creators
  /\ request \in [Requests -> Creators \cup {None}]
  /\ desk \in [Admins -> Case \cup {None}]

Init ==
  /\ task = [status |-> "absent", assignee |-> None, archived |-> FALSE,
             due |-> FALSE, dispute |-> "none"]
  /\ proposal = [c \in Creators |-> "none"]
  /\ sub = [i \in Subs |-> [by |-> None, status |-> "none"]]
  /\ made = 0
  /\ review = [i \in Subs |-> "none"]
  /\ escrow = "none" /\ released = FALSE /\ paid = None
  /\ awards = 0
  /\ bidding = {}
  /\ request = [q \in Requests |-> None]
  /\ desk = [a \in Admins |-> None]

-----------------------------------------------------------------------------
(* The escrow (the reward is positive; each accounting operation is keyed  *)
(* by its kind and the task, so a repeated one is recovered, not applied)  *)

\* Faulty variant: a status that the ledger entry does not have.
ReleaseEscrowAsReleased ==
  /\ IF escrow = "none"
       THEN UNCHANGED <<escrow, released>>
       ELSE escrow' = "released" /\ released' = TRUE
  /\ UNCHANGED paid

\* finalizeTaskEscrow "reject": cancel the hold, return the points once.
ReleaseEscrow ==
  /\ IF escrow = "none"
       THEN UNCHANGED <<escrow, released>>
       ELSE escrow' = "cancelled" /\ released' = TRUE
  /\ UNCHANGED paid

\* finalizeTaskEscrow "approve" and settleTaskReward: whether the hold was
\* released before is not looked at; a transfer to somebody else conflicts.
PayReward(recipient) ==
  /\ escrow' = IF escrow = "none" THEN "none" ELSE "settled"
  /\ paid \in {None, recipient}
  /\ paid' = recipient
  /\ UNCHANGED released

-----------------------------------------------------------------------------
(* Publishing, administration and closing *)

\* create: the task, its escrow and the task.created event, or nothing.
Create ==
  /\ task.status = "absent"
  /\ task' = [task EXCEPT !.status = "open"]
  /\ escrow' = "pending"
  /\ UNCHANGED <<proposal, sub, made, review, released, paid, awards, inFlight>>

\* Time: the deadline passes.
DeadlinePasses ==
  /\ task.status # "absent" /\ ~task.due
  /\ task' = [task EXCEPT !.due = TRUE]
  /\ UNCHANGED <<proposal, sub, made, review, books, awards, inFlight>>

\* taskAdmin.update: only the deadline matters here, it may be moved or removed.
EditDeadline ==
  /\ task.status = "open" /\ ~task.archived /\ task.due
  /\ task' = [task EXCEPT !.due = FALSE]
  /\ UNCHANGED <<proposal, sub, made, review, books, awards, inFlight>>

Archive ==
  /\ task.status \in Archivable /\ ~task.archived
  /\ task' = [task EXCEPT !.archived = TRUE]
  /\ UNCHANGED <<proposal, sub, made, review, books, awards, inFlight>>

Restore ==
  /\ task.archived
  /\ task' = [task EXCEPT !.archived = FALSE]
  /\ UNCHANGED <<proposal, sub, made, review, books, awards, inFlight>>

\* The publisher's cancellation, and the administrator's, single or in bulk.
Cancel ==
  /\ task.status = "open" /\ ~task.archived
  /\ task' = [task EXCEPT !.status = "cancelled"]
  /\ ReleaseEscrow
  /\ UNCHANGED <<proposal, sub, made, review, awards, inFlight>>

Expire ==
  /\ task.status \in Expirable /\ ~task.archived /\ task.due
  /\ task' = [task EXCEPT !.status = "expired"]
  /\ ReleaseEscrow
  /\ UNCHANGED <<proposal, sub, made, review, awards, inFlight>>

RecoverEscrow ==
  /\ task.status \in {"cancelled", "expired"}
  /\ ReleaseEscrow
  /\ UNCHANGED <<task, proposal, sub, made, review, awards, inFlight>>

-----------------------------------------------------------------------------
(* Finding a creator *)

BidRead(c) ==
  /\ c \notin bidding
  /\ task.status = "open" /\ ~task.archived
  /\ proposal[c] = "none"
  /\ bidding' = bidding \cup {c}
  /\ UNCHANGED <<task, proposal, sub, made, review, books, awards, request, desk>>

\* The proposal is written whatever became of the task, and with it the
\* metadata of the task as it was read: no dispute.
BidWrite(c) ==
  /\ c \in bidding
  /\ proposal' = [proposal EXCEPT ![c] = "pending"]
  /\ task' = [task EXCEPT !.dispute = "none"]
  /\ bidding' = bidding \ {c}
  /\ UNCHANGED <<sub, made, review, books, awards, request, desk>>

AcceptProposal(c) ==
  /\ proposal[c] = "pending"
  /\ task.status = "open" /\ ~task.archived /\ task.assignee = None
  /\ task' = [task EXCEPT !.status = "in_progress", !.assignee = c, !.dispute = "none"]
  /\ proposal' = [d \in Creators |->
                    IF d = c THEN "accepted"
                    ELSE IF proposal[d] = "pending" THEN "rejected" ELSE proposal[d]]
  /\ UNCHANGED <<sub, made, review, books, awards, inFlight>>

\* Nothing that commits between its read and its write depends on a proposal
\* that stays pending, so the two are one step.
RejectProposal(c) ==
  /\ task.status = "open" /\ ~task.archived
  /\ proposal[c] = "pending"
  /\ proposal' = [proposal EXCEPT ![c] = "rejected"]
  /\ UNCHANGED <<task, sub, made, review, books, awards, inFlight>>

Claim(c) ==
  /\ task.status = "open" /\ ~task.archived /\ task.assignee = None
  /\ task' = [task EXCEPT !.status = "in_progress", !.assignee = c]
  /\ UNCHANGED <<proposal, sub, made, review, books, awards, inFlight>>

-----------------------------------------------------------------------------
(* Delivery and review *)

SubmitRead(q, c) ==
  /\ request[q] = None
  /\ ~task.archived
  /\ task.assignee \in {None, c}
  /\ task.status \in Submittable
  /\ task.dispute # "reject"
  /\ request' = [request EXCEPT ![q] = c]
  /\ UNCHANGED <<task, proposal, sub, made, review, books, awards, bidding, desk>>

\* Faulty variant: whoever read the open task may still deliver.
SubmittableByAnyone(c) ==
  /\ ~task.archived
  /\ task.status \in Submittable

\* Faulty variant: the status that was read is trusted.
SubmittableAnyStatus(c) ==
  /\ ~task.archived
  /\ task.assignee \in {None, c}

\* The compare-and-set of submit: the dispute that was read is not in it.
StillSubmittable(c) ==
  /\ ~task.archived
  /\ task.status \in Submittable
  /\ task.assignee \in {None, c}

SubmitWrite(q) ==
  /\ request[q] # None
  /\ StillSubmittable(request[q])
  /\ made < MaxSubs
  /\ task' = [task EXCEPT !.status = "pending_review", !.assignee = request[q],
                          !.dispute = "none"]
  /\ made' = made + 1
  /\ sub' = [sub EXCEPT ![made + 1] = [by |-> request[q], status |-> "pending_review"]]
  /\ request' = [request EXCEPT ![q] = None]
  /\ UNCHANGED <<proposal, review, books, awards, bidding, desk>>

SubmitLost(q) ==
  /\ request[q] # None
  /\ ~StillSubmittable(request[q])
  /\ request' = [request EXCEPT ![q] = None]
  /\ UNCHANGED <<task, proposal, sub, made, review, books, awards, bidding, desk>>

WithStatus(S) == {i \in Subs : sub[i].status \in S}
IsLatest(i, S) == i \in S /\ \A j \in S : j <= i

\* The latest pending submission is decided with the task; there may be none
\* left when the sweep has made it stale.
Decide(status, subStatus) ==
  /\ task.status = "pending_review" /\ ~task.archived
  /\ task' = [task EXCEPT !.status = status]
  /\ LET pending == WithStatus({"pending_review"})
     IN  sub' = [i \in Subs |-> IF IsLatest(i, pending)
                                  THEN [sub[i] EXCEPT !.status = subStatus]
                                  ELSE sub[i]]
  /\ UNCHANGED <<proposal, made, review, inFlight>>

Approve ==
  /\ Decide("completed", "approved")
  /\ PayReward(task.assignee)
  /\ awards' = awards + 1

Reject == Decide("rejected", "rejected") /\ UNCHANGED <<books, awards>>

RequestChanges ==
  Decide("in_progress", "revision_requested") /\ UNCHANGED <<books, awards>>

\* sweepStaleSubmissions: the submission only, the task stays pending_review.
SweepStale(i) ==
  /\ sub[i].status = "pending_review" /\ ~task.archived
  /\ sub' = [sub EXCEPT ![i].status = "stale"]
  /\ UNCHANGED <<task, proposal, made, review, books, awards, inFlight>>

-----------------------------------------------------------------------------
(* Disputes *)

\* createDispute: the latest rejected or stale submission, which need not be
\* the last one; the upsert leaves the decision of an earlier dispute.
OpenDispute(i) ==
  /\ IsLatest(i, WithStatus(Disputable))
  /\ task.status \in {"rejected", "pending_review"} /\ ~task.archived
  /\ task' = [task EXCEPT !.status = "disputed", !.dispute = "open"]
  /\ sub' = [sub EXCEPT ![i].status = "disputed"]
  /\ review' = [review EXCEPT ![i] = IF @ = "none" THEN "open" ELSE @]
  /\ UNCHANGED <<proposal, made, books, awards, inFlight>>

\* adminReviews.review returns early when a decision is recorded.
ReviewRead(a, i) ==
  /\ desk[a] = None
  /\ review[i] = "open"
  /\ desk' = [desk EXCEPT ![a] = [sub |-> i, begun |-> FALSE]]
  /\ UNCHANGED <<task, proposal, sub, made, review, books, awards, bidding, request>>

\* Its transaction reads the submission, then writes every row by its id.
ReviewBegin(a) ==
  /\ desk[a] # None
  /\ ~desk[a].begun
  /\ desk' = [desk EXCEPT ![a] = IF sub[@.sub].status = "disputed"
                                   THEN [sub |-> @.sub, begun |-> TRUE]
                                   ELSE None]
  /\ UNCHANGED <<task, proposal, sub, made, review, books, awards, bidding, request>>

\* Faulty variant: the escrow is released whatever the decision.
ReviewWriteReleases(a, decision) ==
  /\ desk[a] # None
  /\ desk[a].begun
  /\ LET i == desk[a].sub
     IN  /\ sub' = [sub EXCEPT ![i].status =
                      IF decision = "approve" THEN "revision_requested" ELSE "rejected"]
         /\ review' = [review EXCEPT ![i] = decision]
  /\ task' = [task EXCEPT !.dispute = decision,
                !.status = IF decision = "approve" THEN "in_progress" ELSE "rejected"]
  /\ ReleaseEscrow
  /\ desk' = [desk EXCEPT ![a] = None]
  /\ UNCHANGED <<proposal, made, awards, bidding, request>>

ReviewWrite(a, decision) ==
  /\ desk[a] # None
  /\ desk[a].begun
  /\ LET i == desk[a].sub
     IN  /\ sub' = [sub EXCEPT ![i].status =
                      IF decision = "approve" THEN "revision_requested" ELSE "rejected"]
         /\ review' = [review EXCEPT ![i] = decision]
  /\ task' = [task EXCEPT !.dispute = decision,
                !.status = IF decision = "approve" THEN "in_progress" ELSE "rejected"]
  /\ IF decision = "approve" THEN UNCHANGED books ELSE ReleaseEscrow
  /\ desk' = [desk EXCEPT ![a] = None]
  /\ UNCHANGED <<proposal, made, awards, bidding, request>>

-----------------------------------------------------------------------------
Publisher == Create \/ Cancel \/ Approve \/ Reject \/ RequestChanges

Creator(c) ==
  \/ BidRead(c) \/ BidWrite(c) \/ AcceptProposal(c) \/ RejectProposal(c) \/ Claim(c)
  \/ \E q \in Requests : SubmitRead(q, c)

Worker == Expire \/ \E i \in Subs : SweepStale(i)

Office(a) ==
  \/ \E i \in Subs : ReviewRead(a, i)
  \/ ReviewBegin(a)
  \/ \E decision \in {"approve", "reject"} : ReviewWrite(a, decision)

Next ==
  \/ Publisher \/ Worker
  \/ \E c \in Creators : Creator(c)
  \/ \E q \in Requests : SubmitWrite(q) \/ SubmitLost(q)
  \/ \E i \in Subs : OpenDispute(i)
  \/ \E a \in Admins : Office(a)
  \/ Archive \/ Restore \/ EditDeadline \/ RecoverEscrow \/ DeadlinePasses

Spec == Init /\ [][Next]_vars


-----------------------------------------------------------------------------
(* Properties *)

UpheldRejection == \E i \in Subs : review[i] = "reject"

\* Rejection, revision, staleness and dispute keep the reward in escrow: as
\* long as no dispute was rejected, the hold of a live task is untouched.
HeldWhileLive ==
  task.status \in TaskStatuses \ (Terminal \cup {"absent"}) /\ ~UpheldRejection
    => escrow = "pending" /\ ~released /\ paid = None

\* A cancelled or expired task has given its escrow back to the publisher
\* (cancel, expire and recover, whatever bids and submits were under way).
ClosedReleases ==
  task.status \in {"cancelled", "expired"}
    => escrow = "cancelled" /\ released /\ paid = None

\* review "approve" pays exactly one user, the assignee, exactly when the
\* task completes.
PaidWhenCompleted ==
  /\ task.status = "completed" <=> paid # None
  /\ paid # None => paid = task.assignee

\* However often work is rejected, disputed and reopened, the completion is
\* added to the profiles once.
ReputationOnce == awards = IF task.status = "completed" THEN 1 ELSE 0

\* Points and reputation follow the task's status, whatever handlers ran at
\* the same time.
SettledByStatus == HeldWhileLive /\ ClosedReleases /\ PaidWhenCompleted /\ ReputationOnce

\* Two creators may submit to the same open task; all the work ever recorded
\* is the one assignee's.
AssigneeDelivers == \A i \in 1..made : sub[i].by = task.assignee /\ sub[i].by # None

\* At most one proposal is accepted and its creator has the task, whoever
\* claims or submits at the same time.
AcceptedIsAssignee ==
  \A c \in Creators : proposal[c] = "accepted" => task.assignee = c

\* Whoever works on the task is the one it is assigned to.
WorkIsAssignees == AssigneeDelivers /\ AcceptedIsAssignee

\* The assignee of a task is chosen once.
AssigneeStays ==
  [][task.assignee # None => task'.assignee = task.assignee]_vars

\* docs/TASK_LIFECYCLE_RECOVERY.md: expired and cancelled are terminal (so is
\* completed).
TerminalStays ==
  [][task.status \in Terminal => task'.status = task.status]_vars

\* docs/V1_64_TASK_MARKETPLACE_LIFECYCLE.md: acceptance settles the escrow, a
\* rejected dispute releases it; the held points leave the escrow account once.
EscrowLeavesOnce == ~(released /\ paid # None)
=============================================================================
