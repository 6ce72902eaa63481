------------------------------ MODULE DataRights ------------------------------
(***************************************************************************)
(* One person's requests for an export of their data and for the deletion  *)
(* of their account, what operators make of them, and the older way to ask *)
(* for the deletion through the profile, which marks the account and makes *)
(* no request (dataRights/prismaDataRightsRepository.js,                   *)
(* repositories/prismaRepository.js).                                      *)
(*                                                                         *)
(* Every handler is a serializable transaction, hence one step; process    *)
(* compares the version before it, which only lets it refuse more.  The    *)
(* content of an export is left out.                                       *)
(***************************************************************************)
EXTENDS Naturals, FiniteSets

CONSTANTS
    Demands,        \* bound: requests the person makes, numbered as they are made
    MaxRecent,      \* requests that are accepted within thirty days
    BackupClasses,  \* dataRightsRequiredBackupClasses
    MaxMarks        \* bound: uses of the older way

ASSUME DemandAssumption ==
    IsFiniteSet(Demands) /\ Demands \subseteq Nat /\ MaxRecent \in Nat /\ MaxMarks \in Nat

VARIABLES
    person,    \* users.status, and whether deletion_requested_at is set
    demand,    \* data_rights_requests
    receipts,  \* data_rights_backup_expiry_receipts of each request
    marks,
    outlived,  \* history: deletions that were open when the account lost its mark
    wish       \* history: what the person has last said of their account in time

rightsVars == <<person, demand, receipts, marks, outlived, wish>>

\* Nothing writes processing but process, which goes on in the same transaction, and nothing
\* writes blocked
DemandStatuses == {"none", "identity_verified", "primary_completed", "completed", "cancelled"}

RightsTypeOK ==
    /\ person \in [status: {"active", "suspended", "deleted"}, marked: BOOLEAN]
    \* past: made more than thirty days ago, and a deletion is due
    /\ demand \in [Demands -> [type: {"data_export", "account_deletion"},
                               status: DemandStatuses, past: BOOLEAN]]
    /\ receipts \in [Demands -> SUBSET BackupClasses]
    /\ marks \in 0..MaxMarks
    /\ outlived \subseteq Demands
    /\ wish \in {"keep", "delete"}

RightsInit ==
    /\ person = [status |-> "active", marked |-> FALSE]
    /\ demand = [r \in Demands |-> [type |-> "data_export", status |-> "none", past |-> FALSE]]
    /\ receipts = [r \in Demands |-> {}]
    /\ marks = 0
    /\ outlived = {}
    /\ wish = "keep"

OfType(type, S) == {r \in Demands : demand[r].type = type /\ demand[r].status \in S}

\* activeStatuses
ActiveDemands(type) == OfType(type, {"identity_verified", "primary_completed"})

RecentDemands == {r \in Demands : demand[r].status # "none" /\ ~demand[r].past}

OpenDeletions == OfType("account_deletion", {"identity_verified"})

ProcessedDeletions == OfType("account_deletion", {"primary_completed", "completed"})

Unmarked == [person EXCEPT !.marked = FALSE]

-----------------------------------------------------------------------------
(* The person *)

\* Faulty variant: a request of the same type that is active is not looked for
NoneActive(type) == Cardinality(RecentDemands) < MaxRecent

\* A request that is active and older than thirty days is not seen
MayDemand(type) ==
    Cardinality(RecentDemands) < MaxRecent /\ RecentDemands \cap ActiveDemands(type) = {}

\* create, which for a deletion marks the account
CreateDemand(r, type) ==
    /\ demand[r].status = "none" /\ \A q \in Demands : q < r => demand[q].status # "none"
    /\ person.status = "active"
    /\ MayDemand(type)
    /\ demand' = [demand EXCEPT ![r] = [@ EXCEPT !.type = type, !.status = "identity_verified"]]
    /\ IF type = "account_deletion"
       THEN /\ ~person.marked
            /\ person' = [person EXCEPT !.marked = TRUE]
            /\ wish' = "delete"
       ELSE UNCHANGED <<person, wish>>
    /\ UNCHANGED <<receipts, marks, outlived>>

\* cancelOwn
CancelDemand(r) ==
    /\ demand[r].status = "identity_verified"
    /\ person.status = "active"
    /\ demand' = [demand EXCEPT ![r].status = "cancelled"]
    /\ IF demand[r].type = "account_deletion"
       THEN /\ person' = Unmarked
            /\ outlived' = outlived \cup (OpenDeletions \ {r})
            /\ wish' = "keep"
       ELSE UNCHANGED <<person, outlived, wish>>
    /\ UNCHANGED <<receipts, marks>>

\* requestDeletion of the profile
RequestDeletion ==
    /\ marks < MaxMarks
    /\ marks' = marks + 1
    /\ person = [status |-> "active", marked |-> FALSE]
    /\ person' = [person EXCEPT !.marked = TRUE]
    /\ wish' = "delete"
    /\ UNCHANGED <<demand, receipts, outlived>>

\* cancelDeletion of the profile takes the mark away, whatever has set it
CancelDeletion ==
    /\ person = [status |-> "active", marked |-> TRUE]
    /\ person' = Unmarked
    /\ outlived' = outlived \cup OpenDeletions
    /\ wish' = IF \E r \in OpenDeletions : demand[r].past THEN wish ELSE "keep"
    /\ UNCHANGED <<demand, receipts, marks>>

-----------------------------------------------------------------------------
(* Administrators and operators *)

SuspendOrRestorePerson ==
    /\ person.status # "deleted"
    /\ person' = [person EXCEPT !.status = IF @ = "active" THEN "suspended" ELSE "active"]
    /\ UNCHANGED <<demand, receipts, marks, outlived, wish>>

\* A deletion's grace period is over and no later request is compared with this one any more
ThirtyDaysPass(r) ==
    /\ demand[r].status # "none" /\ ~demand[r].past
    /\ \A q \in Demands : q < r => demand[q].past
    /\ demand' = [demand EXCEPT ![r].past = TRUE]
    /\ UNCHANGED <<person, receipts, marks, outlived, wish>>

ProcessExport(r) ==
    /\ r \in OfType("data_export", {"identity_verified"})
    /\ demand' = [demand EXCEPT ![r].status = "completed"]
    /\ UNCHANGED <<person, receipts, marks, outlived, wish>>

\* process and applyPrimaryDeletion. Neither looks at the mark, nor whether the account is
\* deleted already.
ProcessDeletion(r) ==
    /\ r \in OpenDeletions /\ demand[r].past
    /\ demand' = [demand EXCEPT ![r].status = "primary_completed"]
    /\ person' = [status |-> "deleted", marked |-> FALSE]
    /\ UNCHANGED <<receipts, marks, outlived, wish>>

\* One receipt for each class; with the last one the request is completed
RecordBackupReceipt(r, class) ==
    /\ demand[r].status = "primary_completed"
    /\ class \notin receipts[r]
    /\ receipts' = [receipts EXCEPT ![r] = @ \cup {class}]
    /\ demand' = IF receipts'[r] = BackupClasses
                 THEN [demand EXCEPT ![r].status = "completed"] ELSE demand
    /\ UNCHANGED <<person, marks, outlived, wish>>

-----------------------------------------------------------------------------
RightsNext ==
    \/ \E r \in Demands :
        \/ \E type \in {"data_export", "account_deletion"} : CreateDemand(r, type)
        \/ CancelDemand(r) \/ ThirtyDaysPass(r) \/ ProcessExport(r) \/ ProcessDeletion(r)
        \/ \E class \in BackupClasses : RecordBackupReceipt(r, class)
    \/ RequestDeletion \/ CancelDeletion \/ SuspendOrRestorePerson

RightsSpec == RightsInit /\ [][RightsNext]_rightsVars

-----------------------------------------------------------------------------
(* Properties *)

\* An account is deleted if and only if a deletion of it was processed, and only one deletion
\* is live: where there are two, open or processed, the earlier one was older than thirty days
\* and had lost its mark before the later one was made. (The later one may then be processed
\* after the earlier one, on an account that is deleted.)
OneLiveDeletion ==
    /\ person.status = "deleted" <=> ProcessedDeletions # {}
    /\ \A q, r \in OpenDeletions \cup ProcessedDeletions :
        q < r => demand[q].past /\ q \in outlived

\* docs/DATA_RIGHTS_LIFECYCLE.md: "Account deletion has a 30-day cancellation window". The
\* account of a person who has cancelled the deletion in that time, and not asked for it
\* again, is kept.
CancelledIsKept == wish = "keep" => person.status # "deleted"
=============================================================================
