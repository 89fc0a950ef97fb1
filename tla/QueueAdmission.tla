--------------------------- MODULE QueueAdmission ---------------------------
(***************************************************************************)
(* How a run comes to be on a box: the queue of items, its batches, the    *)
(* runner that admits from it, and the claim that gives a run its slot.    *)
(*                                                                         *)
(* The store's writes are transactions of several statements that wait for *)
(* one another's row locks (create_run, claim_run, close_batch,            *)
(* close_drained_batch, block_if_idle in                                   *)
(* crates/htui-store/src/pg/write.rs); each is modelled by the locks it    *)
(* takes, in their order, and by its commit.  The queue runner (`admit` in *)
(* crates/htui-worker/src/runtime.rs) reads the store one query at a time. *)
(*                                                                         *)
(* One box and one workspace.  Runs are numbered in the order of           *)
(* (queued_at, id).  Walks are reduced to the moves of a run's status.     *)
(***************************************************************************)
EXTENDS Naturals, FiniteSets, RunStatus, RunScope

CONSTANTS
  Items,
  MaxRuns,    \* bound: the runs ever created
  Batches,    \* bound: the batches ever opened
  None,       \* no batch (run.batch_id NULL: the user started the run), no item
  Runners,    \* the processes that execute on the box, each with one sweep at a time
  Users,      \* the processes a user's verbs reach
  Scopes,     \* the scopes an item may resolve to
  Limit,      \* max_concurrent_items
  Stops,      \* whether the workspace may be stopped
  Refusals    \* whether reads, tags, graphs and caps may refuse an entry

ASSUME AdmissionAssumption ==
  /\ MaxRuns \in Nat /\ Limit \in Nat
  /\ None \notin Batches \cup Items
  /\ Runners \cap Users = {}
  /\ Stops \in BOOLEAN /\ Refusals \in BOOLEAN

Runs == 1..MaxRuns
Creators == Runners \cup Users

VARIABLES
  itemStatus,                      \* item.status
  entries,                         \* queue_entry: the queued items
  batchIs,                         \* queue_batch: not yet made, open, or closed by a reason
  stopped,                         \* the workspace_stop row exists
  status, item, batch, scope,      \* the run rows; status "none": not created
  parked,                          \* history: the run has left `running` since its claim
  create, forItem, inBatch,        \* each creator's create_run or block_if_idle in flight
  claim,                           \* each run's claim_run in flight
  pausing,                         \* the batch whose close_batch holds its row
  pc, under, seen, order, free     \* the queue runner: its batch, and what it has read

rows == <<status, item, batch, scope, parked>>
tables == <<itemStatus, entries, batchIs, stopped, rows>>
txs == <<create, forItem, inBatch, claim, pausing>>
sweep == <<pc, under, seen, order, free>>
vars == <<tables, txs, sweep>>

Held == {"running", "awaiting", "stopped"}     \* statuses that keep trees and branches

CreateStages == {"none", "item", "note", "share", "insert"}
ClaimStages == {"none", "run", "admit", "missing"}
RunnerStages == {"idle", "prune", "entries", "ready", "cancelled", "running", "queued",
                 "judge", "admit", "creating", "recheck", "drain", "draining"}

TypeOK ==
  /\ itemStatus \in [Items -> {"open", "blocked", "closed"}]
  /\ entries \subseteq Items
  /\ batchIs \in [Batches -> {"unborn", "open", "paused", "drained"}]
  /\ stopped \in BOOLEAN
  /\ status \in [Runs -> RunStatuses \cup {"none"}]
  /\ item \in [Runs -> Items \cup {None}]
  /\ batch \in [Runs -> Batches \cup {None}]
  /\ scope \in [Runs -> Scopes \cup {None}]
  /\ parked \in [Runs -> BOOLEAN]
  /\ create \in [Creators -> CreateStages]
  /\ forItem \in [Creators -> Items \cup {None}]
  /\ inBatch \in [Creators -> Batches \cup {None}]
  /\ claim \in [Runs -> ClaimStages]
  /\ pausing \in Batches \cup {None}
  /\ pc \in [Runners -> RunnerStages]
  /\ under \in [Runners -> Batches \cup {None}]
  /\ seen \in [Runners -> SUBSET Items]
  /\ order \in [Runners -> SUBSET Items]
  /\ free \in [Runners -> 0..Limit]

Init ==
  /\ itemStatus = [i \in Items |-> "open"]
  /\ entries = {}
  /\ batchIs = [b \in Batches |-> "unborn"]
  /\ stopped = FALSE
  /\ status = [r \in Runs |-> "none"]
  /\ item = [r \in Runs |-> None]
  /\ batch = [r \in Runs |-> None]
  /\ scope = [r \in Runs |-> None]
  /\ parked = [r \in Runs |-> FALSE]
  /\ create = [c \in Creators |-> "none"]
  /\ forItem = [c \in Creators |-> None]
  /\ inBatch = [c \in Creators |-> None]
  /\ claim = [r \in Runs |-> "none"]
  /\ pausing = None
  /\ pc = [p \in Runners |-> "idle"]
  /\ under = [p \in Runners |-> None]
  /\ seen = [p \in Runners |-> {}]
  /\ order = [p \in Runners |-> {}]
  /\ free = [p \in Runners |-> 0]

-----------------------------------------------------------------------------
(***************************************************************************)
(* What the statements read, and the row locks they wait for.              *)
(***************************************************************************)

RunsOf(i) == {r \in Runs : status[r] # "none" /\ item[r] = i}
LiveRun(i) == \E r \in RunsOf(i) : status[r] \in ActiveRun
\* The item's latest graph run, `cancelled` skipped, is `done`.
Finished(i) ==
  \E r \in RunsOf(i) :
    /\ status[r] = "done"
    /\ \A q \in RunsOf(i) : status[q] # "cancelled" => q <= r
\* ready_items: no run but cancelled ones.  The items of the model have no links.
Ready(i) == itemStatus[i] = "open" /\ \A r \in RunsOf(i) : status[r] = "cancelled"
CancelledIn(b) ==
  {i \in Items : \E r \in RunsOf(i) : batch[r] = b /\ status[r] = "cancelled"}
Counted(s) == Cardinality({r \in Runs : status[r] = s})

\* A slip: create_run reads the item without locking it.
ItemUnlocked(i) == FALSE
\* The item row, FOR UPDATE by create_run and block_if_idle.
ItemLocked(i) == \E c \in Creators : create[c] # "none" /\ forItem[c] = i
\* The batch row: FOR SHARE by create_run, FOR UPDATE by the two closes.
ShareHeld(b) == \E c \in Creators : create[c] \in {"share", "insert"} /\ inBatch[c] = b
BatchLocked(b) ==
  pausing = b \/ \E p \in Runners : pc[p] = "draining" /\ under[p] = b
\* The run row, FOR UPDATE by its claim; the box row, FOR UPDATE by the claim that decides,
\* FOR KEY SHARE by a row inserted that names the box.
RunLocked(r) == claim[r] # "none"
BoxLocked == \E r \in Runs : claim[r] \in {"admit", "missing"}
BoxShared == \E c \in Creators : create[c] = "insert"

\* A slip: the live run of the item is not looked for before the insert.
StartableOpen(i) == itemStatus[i] = "open"
Startable(i) == itemStatus[i] = "open" /\ ~LiveRun(i)
\* A run may still be created within the bound.
Spare ==
  Cardinality({c \in Creators : create[c] # "none"}) < Counted("none")

-----------------------------------------------------------------------------
(***************************************************************************)
(* create_run and block_if_idle.                                           *)
(***************************************************************************)

CreateLocks(c, i, b) ==
  /\ create[c] = "none" /\ ~ItemLocked(i) /\ Startable(i) /\ Spare
  /\ create' = [create EXCEPT ![c] = "item"]
  /\ forItem' = [forItem EXCEPT ![c] = i]
  /\ inBatch' = [inBatch EXCEPT ![c] = b]
  /\ UNCHANGED <<tables, claim, pausing>>

Unlocks(c) ==
  /\ create' = [create EXCEPT ![c] = "none"]
  /\ forItem' = [forItem EXCEPT ![c] = None]
  /\ inBatch' = [inBatch EXCEPT ![c] = None]
\* A refused transaction, or one whose connection is lost, rolls back.
CreateEnds(c) == Unlocks(c) /\ UNCHANGED <<tables, claim, pausing>>

\* A run joins only an open batch.
CreateShares(c) ==
  /\ create[c] = "item"
  /\ inBatch[c] # None => ~BatchLocked(inBatch[c]) /\ batchIs[inBatch[c]] = "open"
  /\ create' = [create EXCEPT ![c] = "share"]
  /\ UNCHANGED <<tables, forItem, inBatch, claim, pausing, sweep>>
BatchGone(c) ==
  /\ create[c] = "item" /\ inBatch[c] # None
  /\ ~BatchLocked(inBatch[c]) /\ batchIs[inBatch[c]] # "open"

CreateInserts(c) ==
  /\ create[c] = "share" /\ ~BoxLocked
  /\ create' = [create EXCEPT ![c] = "insert"]
  /\ UNCHANGED <<tables, forItem, inBatch, claim, pausing, sweep>>
CreateCommits(c) ==
  /\ create[c] = "insert" /\ Unlocks(c)
  /\ \E r \in Runs, s \in Scopes :
       /\ status[r] = "none" /\ \A q \in 1..(r - 1) : status[q] # "none"
       /\ status' = [status EXCEPT ![r] = "queued"]
       /\ item' = [item EXCEPT ![r] = forItem[c]]
       /\ batch' = [batch EXCEPT ![r] = inBatch[c]]
       /\ scope' = [scope EXCEPT ![r] = s]
  /\ UNCHANGED <<itemStatus, entries, batchIs, stopped, parked, claim, pausing>>

\* refuse_missing_tags, refuse_rung_four: the item is blocked with a note, unless a run of it
\* has gone live.
BlockLocks(c, i) ==
  /\ Refusals
  /\ create[c] = "none" /\ ~ItemLocked(i) /\ ~LiveRun(i)
  /\ create' = [create EXCEPT ![c] = "note"]
  /\ forItem' = [forItem EXCEPT ![c] = i]
  /\ UNCHANGED <<tables, inBatch, claim, pausing>>
BlockCommits(c) ==
  /\ create[c] = "note" /\ ~BoxLocked /\ Unlocks(c)
  /\ itemStatus' = [itemStatus EXCEPT ![forItem[c]] = IF @ = "open" THEN "blocked" ELSE @]
  /\ UNCHANGED <<entries, batchIs, stopped, rows, claim, pausing>>

-----------------------------------------------------------------------------
(***************************************************************************)
(* claim_run.                                                              *)
(***************************************************************************)

\* A slip: off by one.
SlotFullLate == Counted("running") > Limit
SlotFull == Counted("running") >= Limit
\* A slip: the trees of a parked or stopped run are forgotten.
OverlapsRunning(r) ==
  \E q \in Runs : status[q] = "running" /\ Overlaps(scope[r], scope[q])
OverlapsLive(r) ==
  \E q \in Runs : status[q] \in Held /\ Overlaps(scope[r], scope[q])

ClaimBegins(r) ==
  /\ status[r] = "queued" /\ claim[r] = "none"
  /\ claim' = [claim EXCEPT ![r] = "run"]
  /\ UNCHANGED <<tables, create, forItem, inBatch, pausing, sweep>>

\* A slip: the queued runs, the candidate among them, take the slots too.
VerdictCountsQueued(r) ==
  CASE status[r] # "queued" \/ stopped -> {"none"}
    [] Counted("running") + Counted("queued") >= Limit \/ OverlapsLive(r) -> {"none"}
    [] OTHER -> {"admit"}
\* The box row is locked, and the rest of the verdict read under it.  A refusal writes nothing.
Verdict(r) ==
  CASE status[r] # "queued" \/ stopped -> {"none"}
    [] SlotFull \/ OverlapsLive(r)     -> {"none"} \cup IF Refusals THEN {"missing"} ELSE {}
    [] OTHER                           -> {"admit"} \cup IF Refusals THEN {"missing"} ELSE {}
ClaimDecides(r) ==
  /\ claim[r] = "run" /\ ~BoxLocked /\ ~BoxShared
  /\ \E v \in Verdict(r) : claim' = [claim EXCEPT ![r] = v]
  /\ UNCHANGED <<tables, create, forItem, inBatch, pausing, sweep>>
ClaimCommits(r) ==
  /\ claim[r] = "admit"
  /\ claim' = [claim EXCEPT ![r] = "none"]
  /\ status' = [status EXCEPT ![r] = "running"]
  /\ UNCHANGED <<itemStatus, entries, batchIs, stopped, item, batch, scope, parked,
                 create, forItem, inBatch, pausing, sweep>>
\* MissingTags fails the run and blocks its item, in the same transaction.
ClaimBlocks(r) ==
  /\ claim[r] = "missing" /\ ~ItemLocked(item[r])
  /\ claim' = [claim EXCEPT ![r] = "none"]
  /\ status' = [status EXCEPT ![r] = "failed"]
  /\ itemStatus' = [itemStatus EXCEPT ![item[r]] = IF @ = "open" THEN "blocked" ELSE @]
  /\ UNCHANGED <<entries, batchIs, stopped, item, batch, scope, parked,
                 create, forItem, inBatch, pausing, sweep>>
ClaimAborts(r) ==
  /\ Refusals /\ RunLocked(r)
  /\ claim' = [claim EXCEPT ![r] = "none"]
  /\ UNCHANGED <<tables, create, forItem, inBatch, pausing, sweep>>

-----------------------------------------------------------------------------
(***************************************************************************)
(* The queue runner: `admit`, one read or write a step.                    *)
(***************************************************************************)

Goto(p, l) == pc' = [pc EXCEPT ![p] = l]
At(p, l, next) == pc[p] = l /\ Goto(p, next)
Rest(p) ==
  /\ Goto(p, "idle")
  /\ under' = [under EXCEPT ![p] = None]
  /\ seen' = [seen EXCEPT ![p] = {}]
  /\ order' = [order EXCEPT ![p] = {}]
  /\ free' = [free EXCEPT ![p] = 0]

ReadsBatch(p) ==
  /\ At(p, "idle", "prune")
  /\ \E b \in Batches : batchIs[b] = "open" /\ under' = [under EXCEPT ![p] = b]
  /\ UNCHANGED <<tables, txs, seen, order, free>>
\* prune_finished_entries
Prunes(p) ==
  /\ At(p, "prune", "entries")
  /\ entries' = {i \in entries : itemStatus[i] # "closed" /\ ~Finished(i)}
  /\ UNCHANGED <<itemStatus, batchIs, stopped, rows, txs, under, seen, order, free>>
ReadsEntries(p) ==
  /\ At(p, "entries", IF entries = {} THEN "drain" ELSE "ready")
  /\ seen' = [seen EXCEPT ![p] = entries]
  /\ UNCHANGED <<tables, txs, under, order, free>>
ReadsReady(p) ==
  /\ At(p, "ready", "cancelled")
  /\ order' = [order EXCEPT ![p] = {i \in seen[p] : Ready(i)}]
  /\ UNCHANGED <<tables, txs, under, seen, free>>
\* A slip: what the user cancelled is admitted again.
ReadsNothing(p) ==
  /\ At(p, "cancelled", "running")
  /\ UNCHANGED <<tables, txs, under, seen, order, free>>
ReadsCancelled(p) ==
  /\ At(p, "cancelled", "running")
  /\ order' = [order EXCEPT ![p] = @ \ CancelledIn(under[p])]
  /\ UNCHANGED <<tables, txs, under, seen, free>>
\* A slip: the difference is not saturated.
LessOrNegative(n, m) == n - m
\* free_slots, saturating; its two counts are two queries.
Less(n, m) == IF n > m THEN n - m ELSE 0
CountsRunning(p) ==
  /\ At(p, "running", "queued")
  /\ free' = [free EXCEPT ![p] = Less(Limit, Counted("running"))]
  /\ UNCHANGED <<tables, txs, under, seen, order>>
CountsQueued(p) ==
  /\ At(p, "queued", "judge")
  /\ free' = [free EXCEPT ![p] = Less(@, Counted("queued"))]
  /\ UNCHANGED <<tables, txs, under, seen, order>>
\* A tick without a free slot ends; one with nothing admissible drains the batch.  The spend
\* gate may stop any of the entries.
Judges(p) ==
  /\ pc[p] = "judge"
  /\ \/ free[p] = 0 /\ Rest(p)
     \/ /\ free[p] > 0
        /\ \E ok \in IF Refusals THEN SUBSET order[p] ELSE {order[p]} :
             /\ order' = [order EXCEPT ![p] = ok]
             /\ Goto(p, IF ok = {} THEN "drain" ELSE "admit")
        /\ UNCHANGED <<under, seen, free>>
  /\ UNCHANGED <<tables, txs>>

\* enqueue_in_batch of the next entry (in queue order, any order here).
Enqueues(p) ==
  /\ At(p, "admit", "creating") /\ free[p] > 0
  /\ \E i \in order[p] :
       /\ CreateLocks(p, i, under[p]) \/ BlockLocks(p, i)
       /\ order' = [order EXCEPT ![p] = @ \ {i}]
  /\ UNCHANGED <<under, seen, free>>
\* create_run's refusal (Constraint), seen under the item's lock or before it.
EnqueueRefused(p) ==
  /\ At(p, "admit", "recheck") /\ free[p] > 0
  /\ \E i \in order[p] :
       /\ ~ItemLocked(i) /\ ~Startable(i)
       /\ order' = [order EXCEPT ![p] = @ \ {i}]
  /\ UNCHANGED <<tables, txs, under, seen, free>>
\* A graph that does not resolve, or a read that failed: the next entry is tried.
EnqueueSkips(p) ==
  /\ Refusals /\ pc[p] = "admit" /\ free[p] > 0
  /\ \E i \in order[p] : order' = [order EXCEPT ![p] = @ \ {i}]
  /\ UNCHANGED <<tables, txs, pc, under, seen, free>>
\* The run is admitted; when its commit's answer is lost it is not counted.
Admits(p) ==
  /\ At(p, "creating", "admit")
  /\ CreateCommits(p)
  /\ \E n \in {free[p] - 1} \cup IF Refusals THEN {free[p]} ELSE {} :
       free' = [free EXCEPT ![p] = n]
  /\ UNCHANGED <<under, seen, order>>
Blocks(p) ==
  /\ At(p, "creating", "admit") /\ BlockCommits(p)
  /\ UNCHANGED <<under, seen, order, free>>
AdmitRefused(p) ==
  /\ At(p, "creating", "recheck") /\ BatchGone(p) /\ CreateEnds(p)
  /\ UNCHANGED <<under, seen, order, free>>
AdmitAborts(p) ==
  /\ Refusals
  /\ At(p, "creating", "admit") /\ CreateEnds(p)
  /\ UNCHANGED <<under, seen, order, free>>
Rechecks(p) ==
  /\ pc[p] = "recheck"
  /\ IF batchIs[under[p]] = "open"
     THEN Goto(p, "admit") /\ UNCHANGED <<under, seen, order, free>>
     ELSE Rest(p)
  /\ UNCHANGED <<tables, txs>>
AdmitDone(p) ==
  /\ pc[p] = "admit" /\ (free[p] = 0 \/ order[p] = {})
  /\ Rest(p)
  /\ UNCHANGED <<tables, txs>>

\* A slip: the close looks without waiting for the admissions in flight.
DrainLocksAtOnce(p) ==
  /\ pc[p] = "drain" /\ ~BatchLocked(under[p])
  /\ IF batchIs[under[p]] = "open"
     THEN Goto(p, "draining") /\ UNCHANGED <<under, seen, order, free>>
     ELSE Rest(p)
  /\ UNCHANGED <<tables, txs>>
\* close_drained_batch: the row lock first, in a statement of its own, then the close.
DrainLocks(p) ==
  /\ pc[p] = "drain" /\ ~ShareHeld(under[p]) /\ ~BatchLocked(under[p])
  /\ IF batchIs[under[p]] = "open"
     THEN Goto(p, "draining") /\ UNCHANGED <<under, seen, order, free>>
     ELSE Rest(p)
  /\ UNCHANGED <<tables, txs>>
\* A slip: an entry that cannot be admitted keeps the batch open.
DrainableEmpty(p) ==
  /\ \A r \in Runs : batch[r] = under[p] => status[r] \notin ActiveRun
  /\ entries = {}
Drainable(p) ==
  /\ \A r \in Runs : batch[r] = under[p] => status[r] \notin ActiveRun
  /\ entries \subseteq seen[p]
DrainCloses(p) ==
  /\ pc[p] = "draining"
  /\ Rest(p)
  /\ batchIs' = IF Drainable(p) THEN [batchIs EXCEPT ![under[p]] = "drained"] ELSE batchIs
  /\ UNCHANGED <<itemStatus, entries, stopped, rows, txs>>

\* A failed read, or the end of the process, ends the tick; the runner starts over.
TickFails(p) ==
  /\ Refusals
  /\ pc[p] \notin {"idle", "creating"}
  /\ Rest(p)
  /\ UNCHANGED <<tables, txs>>

-----------------------------------------------------------------------------
(***************************************************************************)
(* The user's verbs, and the walks of the runs.                            *)
(***************************************************************************)

QueueItem(i) ==
  /\ i \notin entries
  /\ entries' = entries \cup {i}
  /\ UNCHANGED <<itemStatus, batchIs, stopped, rows, txs, sweep>>
DequeueItem(i) ==
  /\ i \in entries
  /\ entries' = entries \ {i}
  /\ UNCHANGED <<itemStatus, batchIs, stopped, rows, txs, sweep>>
\* A box has one open batch at most; resuming an open queue answers it.
OpenBatch(b) ==
  /\ batchIs[b] = "unborn"
  /\ \A other \in Batches : batchIs[other] # "open"
  /\ batchIs' = [batchIs EXCEPT ![b] = "open"]
  /\ UNCHANGED <<itemStatus, entries, stopped, rows, txs, sweep>>
\* A slip: the pause does not wait for the admissions in flight.
PauseLocksAtOnce(b) ==
  /\ batchIs[b] = "open" /\ ~BatchLocked(b) /\ pausing = None
  /\ pausing' = b
  /\ UNCHANGED <<tables, create, forItem, inBatch, claim, sweep>>
\* close_batch: the batch row, then its queued runs, cancelled.
PauseLocks(b) ==
  /\ batchIs[b] = "open" /\ ~ShareHeld(b) /\ ~BatchLocked(b) /\ pausing = None
  /\ pausing' = b
  /\ UNCHANGED <<tables, create, forItem, inBatch, claim, sweep>>
QueuedIn(b) == {r \in Runs : status[r] = "queued" /\ batch[r] = b}
PauseCommits ==
  /\ pausing # None
  /\ \A r \in QueuedIn(pausing) : ~RunLocked(r)
  /\ batchIs' = [batchIs EXCEPT ![pausing] = "paused"]
  /\ status' = [r \in Runs |-> IF r \in QueuedIn(pausing) THEN "cancelled" ELSE status[r]]
  /\ pausing' = None
  /\ UNCHANGED <<itemStatus, entries, stopped, item, batch, scope, parked,
                 create, forItem, inBatch, claim, sweep>>
\* StartRun, whose run the user's process or the next sweep claims.
StartRun(u, i) == CreateLocks(u, i, None) /\ UNCHANGED sweep
StartRefused(u, i) == BlockLocks(u, i) /\ UNCHANGED sweep
Started(u) == CreateCommits(u) /\ UNCHANGED sweep
StartBlocks(u) == BlockCommits(u) /\ UNCHANGED sweep
StartAborts(u) == Refusals /\ create[u] # "none" /\ CreateEnds(u) /\ UNCHANGED sweep
Unblock(i) ==
  /\ itemStatus[i] = "blocked" /\ ~ItemLocked(i)
  /\ itemStatus' = [itemStatus EXCEPT ![i] = "open"]
  /\ UNCHANGED <<entries, batchIs, stopped, rows, txs, sweep>>
CloseOut(i) ==
  /\ itemStatus[i] # "closed" /\ ~ItemLocked(i) /\ ~LiveRun(i)
  /\ itemStatus' = [itemStatus EXCEPT ![i] = "closed"]
  /\ UNCHANGED <<entries, batchIs, stopped, rows, txs, sweep>>
StopWorkspace ==
  /\ Stops
  /\ stopped' = ~stopped
  /\ UNCHANGED <<itemStatus, entries, batchIs, rows, txs, sweep>>

MoveRun(r, to) ==
  /\ RunCanMove(status[r], to) /\ ~RunLocked(r)
  /\ status' = [status EXCEPT ![r] = to]
  /\ UNCHANGED <<itemStatus, entries, batchIs, stopped, item, batch, scope, txs, sweep>>
CancelRun(r) ==
  /\ status[r] \in {"queued", "running", "awaiting"}
  /\ MoveRun(r, "cancelled")
  /\ UNCHANGED parked
\* A walk parks or settles its run; adopt_runs settles one of a stopped workspace.
WalkRests(r) ==
  /\ status[r] = "running"
  /\ \E to \in {"awaiting", "done", "failed"} \cup IF stopped THEN {"stopped"} ELSE {} :
       MoveRun(r, to)
  /\ parked' = [parked EXCEPT ![r] = TRUE]
\* An answered gate: the run is running again, whatever runs beside it.
Unpark(r) ==
  /\ status[r] = "awaiting"
  /\ MoveRun(r, "running")
  /\ UNCHANGED parked

CreateStep(c) == CreateShares(c) \/ CreateInserts(c)
UserStep ==
  \/ \E i \in Items : QueueItem(i) \/ DequeueItem(i) \/ Unblock(i) \/ CloseOut(i)
  \/ \E b \in Batches : OpenBatch(b) \/ PauseLocks(b)
  \/ \E u \in Users, i \in Items : StartRun(u, i) \/ StartRefused(u, i)
  \/ \E r \in Runs : CancelRun(r)
  \/ StopWorkspace
UserCommits(u) == CreateStep(u) \/ Started(u) \/ StartBlocks(u) \/ StartAborts(u)
ClaimStep(r) ==
  \/ ClaimBegins(r) \/ ClaimDecides(r) \/ ClaimCommits(r) \/ ClaimBlocks(r) \/ ClaimAborts(r)
RunnerStep(p) ==
  \/ ReadsBatch(p) \/ Prunes(p) \/ ReadsEntries(p) \/ ReadsReady(p) \/ ReadsCancelled(p)
  \/ CountsRunning(p) \/ CountsQueued(p) \/ Judges(p)
  \/ Enqueues(p) \/ EnqueueRefused(p) \/ EnqueueSkips(p) \/ CreateStep(p)
  \/ Admits(p) \/ Blocks(p) \/ AdmitRefused(p) \/ AdmitAborts(p)
  \/ Rechecks(p) \/ AdmitDone(p)
  \/ DrainLocks(p) \/ DrainCloses(p) \/ TickFails(p)

Next ==
  \/ UserStep
  \/ PauseCommits
  \/ \E u \in Users : UserCommits(u)
  \/ \E p \in Runners : RunnerStep(p)
  \/ \E r \in Runs : ClaimStep(r) \/ WalkRests(r) \/ Unpark(r)

Spec == Init /\ [][Next]_vars

(***************************************************************************)
(* The executing process sweeps at every tick of its timer: it admits and  *)
(* then tries to claim every queued run; and a transaction that waits for  *)
(* no lock ends.  Users and walks owe nothing.                             *)
(***************************************************************************)
Fairness ==
  /\ \A p \in Runners : WF_vars(RunnerStep(p))
  /\ \A r \in Runs : WF_vars(ClaimStep(r))
  /\ \A u \in Users : WF_vars(UserCommits(u))
  /\ WF_vars(PauseCommits)
LiveSpec == Spec /\ Fairness

-----------------------------------------------------------------------------
(***************************************************************************)
(* Properties.                                                             *)
(***************************************************************************)

\* An item has one live run at most, whoever creates them at once: the item's row lock alone
\* assures it, and the unique index behind it (uq_run_item_live) never has to refuse.
OneLiveRun ==
  \A r, q \in Runs :
    status[r] \in ActiveRun /\ status[q] \in ActiveRun /\ item[r] = item[q] => r = q

\* Two runs that hold trees on the box, parked and stopped ones included, never overlap,
\* though the overlap is looked at only once, when one of them is claimed.
NoOverlap ==
  \A r, q \in Runs :
    r # q /\ status[r] \in Held /\ status[q] \in Held => ~Overlaps(scope[r], scope[q])

\* The runs running since their claim fit the box's limit (one that was parked and answered
\* since took its slot back unasked).
SlotsByClaim ==
  Cardinality({r \in Runs : status[r] = "running" /\ ~parked[r]}) <= Limit

\* Pausing the queue leaves nothing behind that a sweep could claim: no run of a closed batch
\* is, or ever becomes, queued, however an admission races the pause.
PausedIsEmpty ==
  \A r \in Runs : status[r] = "queued" /\ batch[r] # None => batchIs[batch[r]] = "open"

\* A batch that drained has no live run, and never gets one: the close waits for the admission
\* in flight before it looks.
DrainedIsDone ==
  \A r \in Runs : status[r] \in ActiveRun /\ batch[r] # None => batchIs[batch[r]] # "drained"

\* A batch spends on an item once: an item whose run ended, cancelled or not, is not admitted
\* under the same batch again.  (One runner, whose reads are not one snapshot.)
OncePerBatch ==
  \A r, q \in Runs :
    status[r] # "none" /\ status[q] # "none" /\ item[r] = item[q] /\ batch[r] = batch[q]
      /\ batch[r] # None => r = q

\* The transactions in flight never all wait for one another's row locks.
CreateWaits(c) ==
  \/ create[c] = "item" /\ inBatch[c] # None /\ BatchLocked(inBatch[c])
  \/ create[c] \in {"share", "note"} /\ BoxLocked
ClaimWaits(r) ==
  \/ claim[r] = "run" /\ (BoxLocked \/ BoxShared)
  \/ claim[r] = "missing" /\ ItemLocked(item[r])
PauseWaits == \E r \in QueuedIn(pausing) : RunLocked(r)
SomeoneProceeds ==
  \/ \A c \in Creators : create[c] = "none"
     /\ \A r \in Runs : ~RunLocked(r)
     /\ \A p \in Runners : pc[p] # "draining"
     /\ pausing = None
  \/ \E c \in Creators : create[c] # "none" /\ ~CreateWaits(c)
  \/ \E r \in Runs : RunLocked(r) /\ ~ClaimWaits(r)
  \/ \E p \in Runners : pc[p] = "draining"
  \/ pausing # None /\ ~PauseWaits

\* The tick comes to nothing, the store being left as it is: an entry's enqueue is refused or
\* fails without a trace, or a read of the tick fails (and the tick does not rest of itself).
Falters(p) ==
  \/ EnqueueSkips(p)
  \/ AdmitAborts(p)
  \/ TickFails(p) /\ ~Judges(p) /\ ~Rechecks(p) /\ ~AdmitDone(p) /\ ~DrainLocks(p) /\ ~DrainCloses(p)
\* Once the user leaves the queue alone and no tick falters any more, an open batch is admitted
\* from or closes, whatever the spend gate stops, items are blocked and claims fail: it is not
\* for ever left open with nothing live, for a later entry to spend in.  (Or the bound is reached.)  An
\* entry that falters for ever does keep its batch open: a refused enqueue never closes it.
Drains ==
  <>[][~UserStep /\ \A p \in Runners : ~Falters(p)]_vars =>
    \A b \in Batches :
      []<>(batchIs[b] # "open" \/ ~Spare \/ \E r \in Runs : status[r] \in ActiveRun)

\* A transaction fails and rolls back (a claim that decides to refuse is none of these).
Aborts ==
  \/ \E p \in Runners : AdmitAborts(p)
  \/ \E u \in Users : StartAborts(u)
  \/ \E r \in Runs : ClaimAborts(r) /\ ~ClaimDecides(r)
\* Once transactions do not fail any more, a queued run is claimed, or ends, or something on the
\* box stands in its way, whatever the claims of other runs refuse.
Claimed ==
  <>[][~Aborts]_vars =>
    \A r \in Runs :
      []<>(status[r] # "queued" \/ stopped \/ SlotFull \/ OverlapsLive(r))
=============================================================================
