---------------------------- MODULE ProviderRetries ----------------------------
(***************************************************************************)
(* The retries of one generation's status reads: pollers that ask whether  *)
(* a read is due, read the provider's status and write the failure or the  *)
(* success to the retry row by compare-and-set, in a loop that reads the   *)
(* row again after a conflict (creative/providerRetryScheduler.js,         *)
(* creativeProviderRetries of repositories/prismaRepository.js).  A lease  *)
(* keeps pollers apart until it lapses, so they meet here.                 *)
(***************************************************************************)
EXTENDS Integers

CONSTANTS
    Pollers,
    MaxReads,      \* maxAttempts of the status_read policy
    RetryVersions  \* bound: versions of the row

ASSUME RetryAssumption == MaxReads \in Nat \ {0} /\ RetryVersions \in Nat

VARIABLES
    retry,     \* creative_provider_retry_states, version 0 when there is no row
    due,       \* nextAttemptAt has come
    poller,    \* where each poller is, and the row it read
    failures   \* history: failures written since a success was, or the beginning

retryVars == <<retry, due, poller, failures>>

RetryRow == [status: {"none", "scheduled", "exhausted", "cleared"},
             attempt: 0..RetryVersions, version: 0..RetryVersions]
NoRetry == [status |-> "none", attempt |-> 0, version |-> 0]

RetryTypeOK ==
    /\ retry \in RetryRow
    /\ due \in BOOLEAN
    /\ poller \in [Pollers -> [pc: {"idle", "polling", "failed", "scheduling", "succeeded",
                                    "clearing"},
                               row: RetryRow]]
    /\ failures \in 0..RetryVersions

RetryInit ==
    /\ retry = NoRetry
    /\ due = FALSE
    /\ poller = [p \in Pollers |-> [pc |-> "idle", row |-> NoRetry]]
    /\ failures = 0

PollerGoes(p, from, to) ==
    poller[p].pc = from /\ poller' = [poller EXCEPT ![p] = [pc |-> to, row |-> NoRetry]]

\* The row is read before it is decided about
PollerReads(p, from, to) ==
    poller[p].pc = from /\ poller' = [poller EXCEPT ![p] = [pc |-> to, row |-> retry]]

-----------------------------------------------------------------------------
\* evaluateProviderRetryState
MayPoll == retry.status \in {"none", "cleared"} \/ (retry.status = "scheduled" /\ due)

Poll(p) ==
    /\ MayPoll
    /\ PollerGoes(p, "idle", "polling")
    /\ UNCHANGED <<retry, due, failures>>

\* The provider answers with a status, does not, or the poller dies before it has heard
PollAnswered(p) ==
    /\ \E to \in {"succeeded", "failed", "idle"} : PollerGoes(p, "polling", to)
    /\ UNCHANGED <<retry, due, failures>>

ComesDue ==
    /\ retry.status = "scheduled" /\ ~due
    /\ due' = TRUE
    /\ UNCHANGED <<retry, poller, failures>>

\* scheduleProviderRetry reads the row, and decides on what it read
FindToSchedule(p) ==
    /\ PollerReads(p, "failed", "scheduling")
    /\ UNCHANGED <<retry, due, failures>>

AttemptAfter(row) == IF row.status \in {"none", "cleared"} THEN 1 ELSE row.attempt + 1

\* buildProviderRetryDecision: the failure may be final, or the time for retries be over
MayBecome(attempt) == {"exhausted"} \cup IF attempt < MaxReads THEN {"scheduled"} ELSE {}

\* Faulty variant: the update is made by the row's key alone
RowUnchangedOrThere(row) == row.version > 0 \/ retry.version = 0

\* The row is as it was read; a row that was not there has been created by nobody else
RowUnchanged(row) == row.version = retry.version

RecordRetry(p) ==
    LET row == poller[p].row
    IN  /\ RowUnchanged(row)
        /\ retry.version < RetryVersions
        /\ \E status \in MayBecome(AttemptAfter(row)) :
            retry' = [status |-> status, attempt |-> AttemptAfter(row),
                      version |-> retry.version + 1]
        /\ due' = FALSE
        /\ failures' = failures + 1
        /\ PollerGoes(p, "scheduling", "idle")

\* Up to five times, after which the call gives up
RecordConflict(p) ==
    /\ ~RowUnchanged(poller[p].row)
    /\ \E to \in {"failed", "idle"} : PollerGoes(p, "scheduling", to)
    /\ UNCHANGED <<retry, due, failures>>

\* clearProviderRetryState
FindToClear(p) ==
    /\ IF retry.status \in {"none", "cleared"} THEN PollerGoes(p, "succeeded", "idle")
       ELSE PollerReads(p, "succeeded", "clearing")
    /\ UNCHANGED <<retry, due, failures>>

Clear(p) ==
    /\ RowUnchanged(poller[p].row)
    /\ retry.version < RetryVersions
    /\ retry' = [retry EXCEPT !.status = "cleared", !.version = @ + 1]
    /\ due' = FALSE
    /\ failures' = 0
    /\ PollerGoes(p, "clearing", "idle")

\* A success that meets a conflict clears what it reads next, be it a newer failure
ClearConflict(p) ==
    /\ ~RowUnchanged(poller[p].row)
    /\ \E to \in {"succeeded", "idle"} : PollerGoes(p, "clearing", to)
    /\ UNCHANGED <<retry, due, failures>>

-----------------------------------------------------------------------------
RetryNext ==
    \/ ComesDue
    \/ \E p \in Pollers :
        \/ Poll(p) \/ PollAnswered(p)
        \/ FindToSchedule(p) \/ RecordRetry(p) \/ RecordConflict(p)
        \/ FindToClear(p) \/ Clear(p) \/ ClearConflict(p)

RetrySpec == RetryInit /\ [][RetryNext]_retryVars

-----------------------------------------------------------------------------
(* Properties *)

\* A retry is scheduled for fewer failures in a row than the policy allows, and none of
\* them is lost, whichever pollers write at the same time (record's compare-and-set).
RetryBudget ==
    retry.status = "scheduled" => retry.attempt = failures /\ failures < MaxReads
=============================================================================
