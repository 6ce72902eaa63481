----------------------------- MODULE SearchIndex -----------------------------
(***************************************************************************)
(* The search document of one resource and its entry in the sync queue:    *)
(* database triggers enqueue every change of the resource, indexers claim  *)
(* the entry, read the resource, write the document and delete the entry   *)
(* (search/prismaSearchRepository.js and the migration that defines the    *)
(* triggers).                                                              *)
(*                                                                         *)
(* A change and its trigger are one transaction.  processQueue is a        *)
(* sequence of statements and so is the transaction of syncOne, which is   *)
(* not serializable: what it has read may be old when it is written.       *)
(*                                                                         *)
(* Documents of tasks, posts and assets also show the handle of a profile, *)
(* whose triggers enqueue the user's document and the portfolio only: a    *)
(* change of the handle reaches the others at the next entry made for      *)
(* another reason.                                                         *)
(***************************************************************************)
EXTENDS Integers

CONSTANTS
    Indexers,     \* processes that run processQueue
    MaxChanges,   \* bound: changes of the resource
    MaxRebuilds,  \* bound: rebuilds of the index
    MaxMishaps    \* bound: failures, crashes, claims released under their holder

ASSUME SearchAssumption ==
    /\ MaxChanges \in Nat
    /\ MaxRebuilds \in Nat
    /\ MaxMishaps \in Nat

VARIABLES
    source,      \* the resource: its revision, 0 when it is gone, and its updated_at
    announced,   \* history: its revision when it was enqueued last
    document,    \* the revision that the search document shows, 0 without one
    entry,       \* search_sync_queue
    indexer,     \* where each process is
    changes, rebuilds, mishaps,
    late         \* history: an overtaken indexer wrote the document or removed the entry last

searchVars == <<source, announced, document, entry, indexer, changes, rebuilds, mishaps, late>>

Stamps == 0..MaxChanges
Revisions == 0..MaxChanges + 1

Entry == [status: {"none", "pending", "failed", "processing"}, stamp: Stamps]
NoEntry == [status |-> "none", stamp |-> 0]

\* candidate is the entry that was read, revision what was projected.  overtaken (history):
\* after that the entry has been claimed again
IdleIndexer == [pc |-> "idle", candidate |-> NoEntry, revision |-> 0, overtaken |-> FALSE]

Working(w) == indexer[w].pc \in {"claimed", "projected", "written"}
HasRead(w) == indexer[w].pc \in {"projected", "written"}

SearchTypeOK ==
    /\ source \in [revision: Revisions, stamp: Stamps]
    /\ announced \in Revisions
    /\ document \in Revisions
    /\ entry \in Entry
    /\ indexer \in [Indexers -> [pc: {"idle", "found", "claimed", "projected", "written"},
                                 candidate: Entry, revision: Revisions, overtaken: BOOLEAN]]
    /\ changes \in 0..MaxChanges
    /\ rebuilds \in 0..MaxRebuilds
    /\ mishaps \in 0..MaxMishaps
    /\ late \in BOOLEAN

\* The migration enqueues what exists when the index is introduced
SearchInit ==
    /\ source \in [revision: {0, 1}, stamp: {0}]
    /\ announced = source.revision
    /\ document = 0
    /\ entry = [status |-> IF source.revision = 0 THEN "none" ELSE "pending", stamp |-> 0]
    /\ indexer = [w \in Indexers |-> IdleIndexer]
    /\ changes = 0 /\ rebuilds = 0 /\ mishaps = 0
    /\ late = FALSE

Mishap == mishaps < MaxMishaps /\ mishaps' = mishaps + 1

-----------------------------------------------------------------------------
(* The resource and the triggers *)

Later(a, b) == IF a < b THEN b ELSE a

\* Faulty variant: the trigger leaves an entry that is being processed to its worker
EnqueuedUnlessClaimed(stamp) ==
    IF entry.status = "none" THEN [status |-> "pending", stamp |-> stamp]
    ELSE IF entry.status = "processing" THEN [entry EXCEPT !.stamp = Later(@, stamp)]
    ELSE [status |-> "pending", stamp |-> Later(entry.stamp, stamp)]

\* enqueue_search_resource: a new entry, or the one that is there back to pending
Enqueued(stamp) ==
    [status |-> "pending",
     stamp |-> IF entry.status = "none" THEN stamp ELSE Later(entry.stamp, stamp)]

Enqueue(stamp) ==
    /\ entry' = Enqueued(stamp)
    /\ announced' = source'.revision
    /\ late' = FALSE

Create ==
    /\ source.revision = 0 /\ changes = 0
    /\ changes < MaxChanges
    /\ changes' = changes + 1
    /\ source' = [source EXCEPT !.revision = 1]
    /\ Enqueue(source.stamp)
    /\ UNCHANGED <<document, indexer, rebuilds, mishaps>>

\* Two changes may fall into one millisecond, and what is written to a related row does not
\* always move the stamp
Change ==
    /\ changes < MaxChanges
    /\ changes' = changes + 1
    /\ source.revision # 0
    /\ \E stamp \in {source.stamp, source.stamp + 1} :
        /\ source' = [revision |-> source.revision + 1, stamp |-> stamp]
        /\ Enqueue(stamp)
    /\ UNCHANGED <<document, indexer, rebuilds, mishaps>>

\* Something else that the document shows changes, as the handle in the owner's profile for
\* a task, a post or an asset outside the portfolio: no trigger enqueues the resource
ChangeUnannounced ==
    /\ changes < MaxChanges
    /\ changes' = changes + 1
    /\ source.revision # 0
    /\ source' = [source EXCEPT !.revision = @ + 1]
    /\ UNCHANGED <<announced, document, entry, indexer, rebuilds, mishaps, late>>

\* The trigger of a deletion takes the old row's stamp
Delete ==
    /\ changes < MaxChanges
    /\ changes' = changes + 1
    /\ source.revision # 0
    /\ source' = [source EXCEPT !.revision = 0]
    /\ Enqueue(source.stamp)
    /\ UNCHANGED <<document, indexer, rebuilds, mishaps>>

\* The deletion of the owner's account changes the resource and removes its document
EraseOwner ==
    /\ changes < MaxChanges
    /\ changes' = changes + 1
    /\ source.revision # 0
    /\ source' = [revision |-> source.revision + 1, stamp |-> source.stamp + 1]
    /\ Enqueue(source.stamp + 1)
    /\ document' = 0
    /\ UNCHANGED <<indexer, rebuilds, mishaps>>

\* enqueueRebuild: what exists is enqueued as by a change, a document whose resource is gone
\* only when it has no entry
EnqueueRebuild ==
    /\ rebuilds < MaxRebuilds
    /\ rebuilds' = rebuilds + 1
    /\ UNCHANGED <<source, document, indexer, changes, mishaps>>
    /\ \/ source.revision # 0 /\ Enqueue(source.stamp)
       \/ /\ source.revision = 0 /\ document # 0 /\ entry.status = "none"
          /\ entry' = [status |-> "pending", stamp |-> source.stamp]
          /\ UNCHANGED <<announced, late>>

-----------------------------------------------------------------------------
(* processQueue *)

\* Claims older than five minutes are released; that one is old and its holder still at
\* work is a mishap
ReleaseOldClaims ==
    /\ entry.status = "processing"
    /\ IF \E w \in Indexers : Working(w) THEN Mishap ELSE UNCHANGED mishaps
    /\ entry' = [entry EXCEPT !.status = "failed"]
    /\ UNCHANGED <<source, announced, document, indexer, changes, rebuilds, late>>

FindCandidate(w) ==
    /\ indexer[w].pc = "idle"
    /\ entry.status \in {"pending", "failed"}
    /\ indexer' = [indexer EXCEPT ![w] = [@ EXCEPT !.pc = "found", !.candidate = entry]]
    /\ UNCHANGED <<source, announced, document, entry, changes, rebuilds, mishaps, late>>

\* The compare-and-set on status and stamp; when it fails the loop goes on
ClaimEntry(w) ==
    /\ indexer[w].pc = "found"
    /\ IF entry = indexer[w].candidate
       THEN /\ entry' = [entry EXCEPT !.status = "processing"]
            /\ indexer' = [v \in Indexers |->
                    IF v = w THEN [indexer[w] EXCEPT !.pc = "claimed"]
                    ELSE IF HasRead(v) THEN [indexer[v] EXCEPT !.overtaken = TRUE]
                    ELSE indexer[v]]
       ELSE /\ indexer' = [indexer EXCEPT ![w] = IdleIndexer]
            /\ UNCHANGED entry
    /\ UNCHANGED <<source, announced, document, changes, rebuilds, mishaps, late>>

\* syncOne reads the resource
Project(w) ==
    /\ indexer[w].pc = "claimed"
    /\ indexer' = [indexer EXCEPT ![w] =
            [@ EXCEPT !.pc = "projected", !.revision = source.revision]]
    /\ UNCHANGED <<source, announced, document, entry, changes, rebuilds, mishaps, late>>

\* and then writes its document, or deletes it when the resource is gone
WriteDocument(w) ==
    /\ indexer[w].pc = "projected"
    /\ document' = indexer[w].revision
    /\ late' = indexer[w].overtaken
    /\ indexer' = [indexer EXCEPT ![w].pc = "written"]
    /\ UNCHANGED <<source, announced, entry, changes, rebuilds, mishaps>>

\* Faulty variant: only the stamp of the claim is compared
StillClaimedStamp(w) == entry.status # "none" /\ entry.stamp = indexer[w].candidate.stamp

\* The entry is as the claim has left it. Who claimed it is not compared.
StillClaimed(w) == entry.status = "processing" /\ entry.stamp = indexer[w].candidate.stamp

Finish(w) ==
    /\ indexer[w].pc = "written"
    /\ entry' = IF StillClaimed(w) THEN NoEntry ELSE entry
    /\ late' = (late \/ (StillClaimed(w) /\ indexer[w].overtaken))
    /\ indexer' = [indexer EXCEPT ![w] = IdleIndexer]
    /\ UNCHANGED <<source, announced, document, changes, rebuilds, mishaps>>

\* Anything that throws in between leaves the entry failed, to be claimed again
SyncFails(w) ==
    /\ Working(w)
    /\ Mishap
    /\ entry' = IF StillClaimed(w) THEN [entry EXCEPT !.status = "failed"] ELSE entry
    /\ indexer' = [indexer EXCEPT ![w] = IdleIndexer]
    /\ UNCHANGED <<source, announced, document, changes, rebuilds, late>>

IndexerCrashes(w) ==
    /\ indexer[w].pc # "idle"
    /\ Mishap
    /\ indexer' = [indexer EXCEPT ![w] = IdleIndexer]
    /\ UNCHANGED <<source, announced, document, entry, changes, rebuilds, late>>

-----------------------------------------------------------------------------
IndexerStep(w) ==
    FindCandidate(w) \/ ClaimEntry(w) \/ Project(w) \/ WriteDocument(w) \/ Finish(w)

SearchNext ==
    \/ Create \/ Change \/ ChangeUnannounced \/ Delete \/ EraseOwner
    \/ EnqueueRebuild \/ ReleaseOldClaims
    \/ \E w \in Indexers : IndexerStep(w) \/ SyncFails(w) \/ IndexerCrashes(w)

SearchSpec == SearchInit /\ [][SearchNext]_searchVars

\* The job that calls processQueue is repeated, so old claims are released and every
\* process that has begun goes on
SearchFairness ==
    /\ WF_searchVars(ReleaseOldClaims /\ \A w \in Indexers : ~Working(w))
    /\ \A w \in Indexers : WF_searchVars(IndexerStep(w))

SearchFairSpec == SearchSpec /\ SearchFairness

-----------------------------------------------------------------------------
(* Properties *)

\* The revision shows the resource at least as it was enqueued last
Current(revision) ==
    IF source.revision = 0 THEN revision = 0 ELSE revision >= announced

\* A document that misses a change which fired a trigger, or whose resource is gone, has an
\* entry in the queue: no such change is lost in the time of a claim, by a failure or by an
\* overlap of two indexers.  The one way out is an indexer which is overtaken, by a claim of
\* another after it has read the resource, and yet is the last that writes the document or
\* removes the entry; the next trigger or rebuild mends that.
StaleIsQueued == ~Current(document) /\ ~late => entry.status # "none"

\* Once the resource changes no more its entry is done, and the document shows every change
\* that fired a trigger unless an overtaken indexer was the last.
IndexSettles == <>[](entry.status = "none" /\ (late \/ Current(document)))
=============================================================================
