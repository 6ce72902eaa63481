----------------------------- MODULE PointAccount -----------------------------
(***************************************************************************)
(* One user's points: the account snapshot, the ledger, the accounting     *)
(* operations that move points, and the reconciliation that compares the   *)
(* snapshot with the ledger and repairs it under review                    *)
(* (repositories/prismaRepository.js, accounting/internalAccounting.js).   *)
(*                                                                         *)
(* An operation inserts its key and updates the snapshot under the row's   *)
(* lock until its transaction commits, so it is one step.  The scan, the   *)
(* request of a repair and its review run at the database's default        *)
(* isolation: each of their statements sees what is committed when it runs *)
(* and is a step, or a part of the one in which the transaction commits.   *)
(***************************************************************************)
EXTENDS Integers, Sequences, FiniteSets, SequencesExt

CONSTANTS
    Operations,  \* business calls that move points: escrow, reward, release, adjustment
    Amount,      \* what each of them adds to the account
    Forced,      \* those of them that may leave the balance negative
    Openings,    \* what the ledger may say when the account is introduced
    Reviewers,   \* administrators who decide on the repair
    MaxScans,    \* bound: reconciliation scans
    MaxDrifts,   \* bound: writes of the snapshot that no operation explains
    Absent       \* no row, no key

ASSUME PointAssumption ==
    /\ IsFiniteSet(Operations)
    /\ Amount \in [Operations -> Int]
    /\ Openings \subseteq Int
    /\ MaxScans \in Nat
    /\ Absent \notin Int

VARIABLES
    balance,      \* internal_point_accounts.balance, Absent without the row
    opening,      \* opening_balance, or what it is going to be
    ledger,       \* point_ledger after the opening: who wrote a row and its balance_after
    posted,       \* the operations whose key is taken
    compensated,  \* what the compensation has moved, Absent as long as its key is free
    issue,        \* the account's accounting_reconciliation_issues row
    review,       \* the admin_reviews row of its repair: "none", "pending", "approve", "reject"
    scan,         \* the scan that is running
    asking,       \* a request of the repair has found the issue open
    desk,         \* what each reviewer has read
    scans,
    drift         \* history: what was written to the snapshot by no operation

pointVars == <<balance, opening, ledger, posted, compensated, issue, review, scan, asking,
               desk, scans, drift>>

NoIssue == [status |-> "none", expected |-> 0, actual |-> 0]
NoScan == [pc |-> "idle", expected |-> 0, actual |-> 0, before |-> NoIssue]
EmptyDesk == [pc |-> "idle", issue |-> NoIssue, balance |-> 0]

PointTypeOK ==
    /\ balance \in Int \cup {Absent}
    /\ opening \in Openings
    /\ ledger \in Seq([operation: Operations, after: Int])
    /\ posted \subseteq Operations
    /\ compensated \in Int \cup {Absent}
    /\ issue.status \in {"none", "open", "repair_pending", "resolved"}
    /\ review \in {"none", "pending", "approve", "reject"}
    /\ scan.pc \in {"idle", "rows", "accounts", "issues"}
    /\ asking \in BOOLEAN
    /\ \A r \in Reviewers : desk[r].pc \in {"idle", "read", "account"}
    /\ scans \in 0..MaxScans

PointInit ==
    /\ balance = Absent
    /\ opening \in Openings
    /\ ledger = <<>>
    /\ posted = {}
    /\ compensated = Absent
    /\ issue = NoIssue
    /\ review = "none"
    /\ scan = NoScan
    /\ asking = FALSE
    /\ desk = [r \in Reviewers |-> EmptyDesk]
    /\ scans = 0
    /\ drift = 0

\* The balance_after of the user's last ledger row
Latest == IF ledger = <<>> THEN opening ELSE Last(ledger).after

\* getOrCreatePointAccount opens the account with that
Available == IF balance = Absent THEN Latest ELSE balance

-----------------------------------------------------------------------------
(* Operations *)

\* Faulty variant: the operation key of an earlier call is not looked up
FreshCall(operation) == Len(ledger) < Cardinality(Operations) + 1

\* accountingOperationKey names the business fact, not the call
Fresh(operation) == operation \notin posted

\* applyPrismaAccountingOperation and the ledger row that its callers add. A repeated call
\* finds its row or its key and changes nothing.
Post(operation) ==
    /\ Fresh(operation)
    /\ operation \in Forced \/ Available + Amount[operation] >= 0
    /\ posted' = posted \cup {operation}
    /\ balance' = Available + Amount[operation]
    /\ ledger' = Append(ledger, [operation |-> operation, after |-> balance'])
    /\ UNCHANGED <<opening, compensated, issue, review, scan, asking, desk, scans, drift>>

\* What the reconciliation exists for: something else has written the snapshot
Drift ==
    /\ balance # Absent
    /\ drift \in (1 - MaxDrifts)..(MaxDrifts - 1)
    /\ \E d \in {-1, 1} :
        /\ drift' = drift + d
        /\ balance' = balance + d
    /\ UNCHANGED <<opening, ledger, posted, compensated, issue, review, scan, asking, desk, scans>>

-----------------------------------------------------------------------------
(* The scan *)

ScanRows ==
    /\ scan.pc = "idle"
    /\ scans < MaxScans
    /\ scans' = scans + 1
    /\ scan' = [scan EXCEPT !.pc = "rows", !.expected = Latest]
    /\ UNCHANGED <<balance, opening, ledger, posted, compensated, issue, review, asking, desk, drift>>

ScanAccounts ==
    /\ scan.pc = "rows"
    /\ scan' = [scan EXCEPT !.pc = "accounts", !.actual = balance]
    /\ UNCHANGED <<balance, opening, ledger, posted, compensated, issue, review, asking, desk, scans,
                   drift>>

ScanIssues ==
    /\ scan.pc = "accounts"
    /\ scan' = [scan EXCEPT !.pc = "issues", !.before = issue]
    /\ UNCHANGED <<balance, opening, ledger, posted, compensated, issue, review, asking, desk, scans,
                   drift>>

\* An issue that is detected is opened, unless its repair is pending; one that is not
\* detected any more is resolved
ScanWrite ==
    /\ scan.pc = "issues"
    /\ issue' =
        IF scan.actual # scan.expected
        THEN [status |-> IF scan.before.status = "repair_pending" THEN "repair_pending" ELSE "open",
              expected |-> scan.expected,
              actual |-> IF scan.actual = Absent THEN 0 ELSE scan.actual]
        ELSE IF scan.before.status \in {"open", "repair_pending"}
        THEN [issue EXCEPT !.status = "resolved"]
        ELSE issue
    /\ scan' = NoScan
    /\ UNCHANGED <<balance, opening, ledger, posted, compensated, review, asking, desk, scans, drift>>

-----------------------------------------------------------------------------
(* The repair *)

\* requestRepair reads the issue and looks for the review. The review's id is the issue's,
\* so there is one for good, and a second request finds it.
RequestRead ==
    /\ ~asking
    /\ issue.status \in {"open", "repair_pending"}
    /\ review = "none"
    /\ asking' = TRUE
    /\ UNCHANGED <<balance, opening, ledger, posted, compensated, issue, review, scan, desk, scans,
                   drift>>

\* and then writes both, the issue without a look at what it has become
RequestRepair ==
    /\ asking
    /\ asking' = FALSE
    /\ review' = "pending"
    /\ issue' = [issue EXCEPT !.status = "repair_pending"]
    /\ UNCHANGED <<balance, opening, ledger, posted, compensated, scan, desk, scans, drift>>

\* reviewRepair reads the review and the issue
ReviewRead(r) ==
    /\ desk[r].pc = "idle"
    /\ review = "pending"
    /\ desk' = [desk EXCEPT ![r] = [@ EXCEPT !.pc = "read", !.issue = issue]]
    /\ UNCHANGED <<balance, opening, ledger, posted, compensated, issue, review, scan, asking, scans,
                   drift>>

ReviewReject(r) ==
    /\ desk[r].pc = "read"
    /\ review' = "reject"
    /\ issue' = [issue EXCEPT !.status = "open"]
    /\ desk' = [desk EXCEPT ![r] = EmptyDesk]
    /\ UNCHANGED <<balance, opening, ledger, posted, compensated, scan, asking, scans, drift>>

\* The account is read and compared with the issue; one that has changed, or that needs no
\* compensation, is refused
ReviewAccount(r) ==
    /\ desk[r].pc = "read"
    /\ desk' = [desk EXCEPT ![r] =
            IF /\ balance # Absent
               /\ balance = desk[r].issue.actual /\ balance # desk[r].issue.expected
            THEN [@ EXCEPT !.pc = "account", !.balance = balance] ELSE EmptyDesk]
    /\ UNCHANGED <<balance, opening, ledger, posted, compensated, issue, review, scan, asking, scans,
                   drift>>

\* The compensation, whose key is that of the issue, is added to what the balance is by
\* now. A key that is taken with the same amount counts as applied, one with another amount
\* rolls the review back.
ReviewApprove(r) ==
    /\ desk[r].pc = "account"
    /\ LET delta == desk[r].issue.expected - desk[r].balance
       IN  IF compensated \in {Absent, delta}
           THEN /\ IF compensated = Absent
                   THEN balance' = balance + delta /\ compensated' = delta
                   ELSE UNCHANGED <<balance, compensated>>
                /\ issue' = [issue EXCEPT !.status = "resolved"]
                /\ review' = "approve"
           ELSE UNCHANGED <<balance, compensated, issue, review>>
    /\ desk' = [desk EXCEPT ![r] = EmptyDesk]
    /\ UNCHANGED <<opening, ledger, posted, scan, asking, scans, drift>>

-----------------------------------------------------------------------------
PointNext ==
    \/ \E operation \in Operations : Post(operation)
    \/ Drift
    \/ ScanRows \/ ScanAccounts \/ ScanIssues \/ ScanWrite
    \/ RequestRead \/ RequestRepair
    \/ \E r \in Reviewers :
        ReviewRead(r) \/ ReviewReject(r) \/ ReviewAccount(r) \/ ReviewApprove(r)

PointSpec == PointInit /\ [][PointNext]_pointVars

-----------------------------------------------------------------------------
(* Properties *)

\* What a set of operations moves
AmountOf[S \in SUBSET Operations] ==
    IF S = {} THEN 0
    ELSE LET operation == CHOOSE o \in S : TRUE
         IN  Amount[operation] + AmountOf[S \ {operation}]

\* The balance is the opening balance, the amount of every operation once, the compensation
\* once, and whatever was written beside them: no retry, no concurrent scan and no two
\* reviewers move points a second time.
BalanceIsExplained ==
    balance # Absent =>
        balance = opening + AmountOf[posted] + drift
                    + IF compensated = Absent THEN 0 ELSE compensated
=============================================================================
