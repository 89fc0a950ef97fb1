------------------------ MODULE QueueAdmissionProofs ------------------------
(***************************************************************************)
(* The safety of admission, for any items, runs, batches, scopes and       *)
(* limit, and any number of queue runners and users at once.               *)
(***************************************************************************)
EXTENDS QueueAdmission, FiniteSetTheorems, TLAPS

Draining(p, b) == pc[p] = "draining" /\ under[p] = b
Joins(c, b) == create[c] \in {"share", "insert"} /\ inBatch[c] = b
Slots == {r \in Runs : status[r] = "running" /\ ~parked[r]}

\* The item's row lock has one holder, and the item has no live run while it is held.
ItemInv ==
  /\ \A c \in Creators : create[c] # "none" => forItem[c] \in Items
  /\ \A c, d \in Creators :
       create[c] # "none" /\ create[d] # "none" /\ forItem[c] = forItem[d] => c = d
  /\ \A c \in Creators : create[c] # "none" => ~LiveRun(forItem[c])

\* A batch being closed or joined is open, is closed by one transaction, and is not joined
\* while it is closed.
BatchInv ==
  /\ pausing # None => batchIs[pausing] = "open"
  /\ \A p \in Runners, b \in Batches :
       Draining(p, b) => batchIs[b] = "open" /\ pausing # b
  /\ \A p, q \in Runners, b \in Batches : Draining(p, b) /\ Draining(q, b) => p = q
  /\ \A c \in Creators, b \in Batches :
       Joins(c, b) => /\ batchIs[b] = "open" /\ pausing # b
                      /\ \A p \in Runners : ~Draining(p, b)

\* A run being claimed is queued, one claim at a time has the box, and what that claim read of
\* the box still holds when it commits.
ClaimInv ==
  /\ \A r \in Runs : claim[r] # "none" => status[r] = "queued"
  /\ \A r, q \in Runs :
       claim[r] \in {"admit", "missing"} /\ claim[q] \in {"admit", "missing"} => r = q
  /\ \A r \in Runs : claim[r] = "admit" => ~OverlapsLive(r)

\* What the slots are counted by: a run that was answered has been parked.
SlotInv ==
  /\ \A r \in Runs : claim[r] = "admit" => Cardinality(Slots) < Limit
  /\ \A r \in Runs : status[r] = "awaiting" => parked[r]

\* A runner that creates a run has a slot left for it.
CreatingInv == \A p \in Runners : pc[p] = "creating" => free[p] > 0
AdmissionInv ==
  /\ TypeOK /\ CreatingInv
  /\ ItemInv /\ OneLiveRun
  /\ BatchInv /\ PausedIsEmpty /\ DrainedIsDone
  /\ ClaimInv /\ NoOverlap
  /\ SlotInv /\ SlotsByClaim

-----------------------------------------------------------------------------
(* Counts and overlap. *)

\* The runs are finitely many.
LEMMA RunsFinite == IsFiniteSet(Runs)
BY AdmissionAssumption, FS_Interval DEF Runs
\* So a count of runs is a number.
LEMMA CountsAreNat == \A s : Counted(s) \in Nat
<1> SUFFICES ASSUME NEW s PROVE Counted(s) \in Nat
  OBVIOUS
<1>1. IsFiniteSet({r \in Runs : status[r] = s})
  BY RunsFinite, FS_Subset
<1> QED
  BY <1>1, FS_CardinalityType DEF Counted

\* Overlap does not ask which run came first.
LEMMA OverlapsBothWays == \A a, b : Overlaps(a, b) <=> Overlaps(b, a)
BY DEF Overlaps, Collide, Intersect

-----------------------------------------------------------------------------
(* Type correctness, and a slot for each run the runner creates. *)

\* The parts of TypeOK.
RowOK ==
  /\ itemStatus \in [Items -> {"open", "blocked", "closed"}]
  /\ entries \subseteq Items
  /\ batchIs \in [Batches -> {"unborn", "open", "paused", "drained"}]
  /\ stopped \in BOOLEAN
  /\ status \in [Runs -> RunStatuses \cup {"none"}]
  /\ item \in [Runs -> Items \cup {None}]
  /\ batch \in [Runs -> Batches \cup {None}]
  /\ scope \in [Runs -> Scopes \cup {None}]
  /\ parked \in [Runs -> BOOLEAN]
TxOK ==
  /\ create \in [Creators -> CreateStages]
  /\ forItem \in [Creators -> Items \cup {None}]
  /\ inBatch \in [Creators -> Batches \cup {None}]
  /\ claim \in [Runs -> ClaimStages]
  /\ pausing \in Batches \cup {None}
SweepOK ==
  /\ pc \in [Runners -> RunnerStages]
  /\ under \in [Runners -> Batches \cup {None}]
  /\ seen \in [Runners -> SUBSET Items]
  /\ order \in [Runners -> SUBSET Items]
  /\ free \in [Runners -> 0..Limit]

\* TypeOK is its parts, before a step and after it.
LEMMA TypeParts ==
  /\ TypeOK <=> RowOK /\ TxOK /\ SweepOK
  /\ TypeOK' <=> RowOK' /\ TxOK' /\ SweepOK'
BY DEF TypeOK, RowOK, TxOK, SweepOK

\* A transaction's first lock keeps the types of the tables and of the transactions.
LEMMA LockTypes ==
  ASSUME RowOK, TxOK, NEW c \in Creators, NEW i \in Items, NEW b \in Batches \cup {None},
         CreateLocks(c, i, b) \/ BlockLocks(c, i)
  PROVE  RowOK' /\ TxOK'
<1> USE DEF tables, rows, CreateStages
<1>1. CASE CreateLocks(c, i, b)
  BY <1>1 DEF RowOK, TxOK, CreateLocks
<1>2. CASE BlockLocks(c, i)
  BY <1>2 DEF RowOK, TxOK, BlockLocks
<1> QED
  BY <1>1, <1>2

\* So do its later steps, and its end.
LEMMA CreateTypes ==
  ASSUME RowOK, TxOK, NEW c \in Creators,
         \/ CreateEnds(c) \/ CreateShares(c) \/ CreateInserts(c)
         \/ CreateCommits(c) \/ BlockCommits(c)
  PROVE  RowOK' /\ TxOK'
<1> USE DEF tables, rows, CreateStages
<1>1. CASE CreateEnds(c)
  BY <1>1 DEF RowOK, TxOK, CreateEnds, Unlocks
<1>2. CASE CreateShares(c)
  BY <1>2 DEF RowOK, TxOK, CreateShares
<1>3. CASE CreateInserts(c)
  BY <1>3 DEF RowOK, TxOK, CreateInserts
<1>4. CASE CreateCommits(c)
  <2>1. TxOK'
    BY <1>4 DEF TxOK, CreateCommits, Unlocks
  <2>2. "queued" \in RunStatuses
    BY DEF RunStatuses, ActiveRun
  <2> QED
    BY <1>4, <2>1, <2>2 DEF RowOK, TxOK, CreateCommits
<1>5. CASE BlockCommits(c)
  BY <1>5 DEF RowOK, TxOK, BlockCommits, Unlocks
<1> QED
  BY <1>1, <1>2, <1>3, <1>4, <1>5

\* And the steps of a claim.
LEMMA ClaimTypes ==
  ASSUME RowOK, TxOK, NEW r \in Runs, ClaimStep(r)
  PROVE  RowOK' /\ TxOK' /\ UNCHANGED sweep
<1> USE DEF tables, rows, ClaimStages
<1>1. CASE ClaimBegins(r)
  BY <1>1 DEF RowOK, TxOK, ClaimBegins
<1>2. CASE ClaimDecides(r)
  <2>1. Verdict(r) \subseteq ClaimStages
    BY DEF Verdict
  <2> QED
    BY <1>2, <2>1 DEF RowOK, TxOK, ClaimDecides
<1>3. CASE ClaimCommits(r)
  BY <1>3 DEF RowOK, TxOK, ClaimCommits, RunStatuses, ActiveRun
<1>4. CASE ClaimBlocks(r)
  BY <1>4 DEF RowOK, TxOK, ClaimBlocks, RunStatuses, TerminalRun
<1>5. CASE ClaimAborts(r)
  BY <1>5 DEF RowOK, TxOK, ClaimAborts
<1> QED
  BY <1>1, <1>2, <1>3, <1>4, <1>5 DEF ClaimStep

\* So do the user's verbs and the walks.
LEMMA VerbTypes ==
  ASSUME RowOK, TxOK, UserStep \/ PauseCommits \/ \E r \in Runs : WalkRests(r) \/ Unpark(r)
  PROVE  RowOK' /\ TxOK' /\ UNCHANGED sweep
<1> USE DEF tables, rows, txs
<1>1. ASSUME NEW i \in Items, QueueItem(i) \/ DequeueItem(i) \/ Unblock(i) \/ CloseOut(i)
      PROVE  RowOK' /\ TxOK' /\ UNCHANGED sweep
  BY <1>1 DEF RowOK, TxOK, QueueItem, DequeueItem, Unblock, CloseOut
<1>2. ASSUME NEW b \in Batches, OpenBatch(b) \/ PauseLocks(b)
      PROVE  RowOK' /\ TxOK' /\ UNCHANGED sweep
  BY <1>2 DEF RowOK, TxOK, OpenBatch, PauseLocks
<1>3. ASSUME NEW u \in Users, NEW i \in Items, StartRun(u, i) \/ StartRefused(u, i)
      PROVE  RowOK' /\ TxOK' /\ UNCHANGED sweep
  BY <1>3, LockTypes DEF StartRun, StartRefused, Creators
<1>4. ASSUME NEW r \in Runs, NEW to \in RunStatuses, MoveRun(r, to),
             UNCHANGED parked \/ parked' = [parked EXCEPT ![r] = TRUE]
      PROVE  RowOK' /\ TxOK' /\ UNCHANGED sweep
  BY <1>4 DEF RowOK, TxOK, MoveRun
<1>5. ASSUME NEW r \in Runs, CancelRun(r) \/ WalkRests(r) \/ Unpark(r)
      PROVE  RowOK' /\ TxOK' /\ UNCHANGED sweep
  <2>1. {"awaiting", "done", "failed", "stopped", "running", "cancelled"} \subseteq RunStatuses
    BY DEF RunStatuses, ActiveRun, TerminalRun
  <2> QED
    BY <1>4, <1>5, <2>1 DEF CancelRun, WalkRests, Unpark
<1>6. CASE StopWorkspace
  BY <1>6 DEF RowOK, TxOK, StopWorkspace
<1>7. CASE PauseCommits
  BY <1>7 DEF RowOK, TxOK, PauseCommits, RunStatuses, TerminalRun
<1> QED
  BY <1>1, <1>2, <1>3, <1>5, <1>6, <1>7 DEF UserStep
\* A sweep that rests, or moves on, keeps its types.
LEMMA RestTypes ==
  ASSUME SweepOK, NEW p \in Runners, Rest(p)
  PROVE  SweepOK' /\ (CreatingInv => CreatingInv')
<1>1. 0 \in 0..Limit /\ "idle" \in RunnerStages
  BY AdmissionAssumption DEF RunnerStages
<1> QED
  BY <1>1 DEF SweepOK, Rest, Goto, CreatingInv

\* So does the runner, which creates a run only with a slot left for it.
LEMMA RunnerTypes ==
  ASSUME TypeOK, CreatingInv, NEW p \in Runners, RunnerStep(p)
  PROVE  TypeOK' /\ CreatingInv'
<1> USE DEF At, Goto
<1>1. Limit \in Nat /\ p \in Creators
  BY AdmissionAssumption DEF Creators
<1>2. /\ {"idle", "prune", "entries", "ready", "cancelled", "running", "queued", "judge",
          "admit", "creating", "recheck", "drain", "draining"} = RunnerStages
      /\ RowOK /\ TxOK /\ SweepOK
  BY TypeParts DEF RunnerStages
<1>3. SUFFICES (RowOK' /\ TxOK') /\ SweepOK' /\ CreatingInv'
  BY TypeParts
<1>4. ASSUME UNCHANGED <<tables, txs>>
      PROVE  RowOK' /\ TxOK'
  BY <1>2, <1>4 DEF RowOK, TxOK, tables, rows, txs
<1>5. CASE ReadsBatch(p)
  <2>1. RowOK' /\ TxOK'
    BY <1>4, <1>5 DEF ReadsBatch
  <2> QED
    BY <1>2, <1>5, <2>1 DEF ReadsBatch, SweepOK, CreatingInv
<1>6. CASE Prunes(p)
  <2>1. RowOK' /\ TxOK'
    BY <1>2, <1>6 DEF Prunes, RowOK, TxOK, rows, txs
  <2> QED
    BY <1>2, <1>6, <2>1 DEF Prunes, SweepOK, CreatingInv
<1>7. CASE ReadsEntries(p)
  <2>1. RowOK' /\ TxOK'
    BY <1>4, <1>7 DEF ReadsEntries
  <2> QED
    BY <1>2, <1>7, <2>1 DEF ReadsEntries, SweepOK, RowOK, CreatingInv
<1>8. CASE ReadsReady(p)
  <2>1. RowOK' /\ TxOK'
    BY <1>4, <1>8 DEF ReadsReady
  <2> QED
    BY <1>2, <1>8, <2>1 DEF ReadsReady, SweepOK, CreatingInv
<1>9. CASE ReadsCancelled(p)
  <2>1. RowOK' /\ TxOK'
    BY <1>4, <1>9 DEF ReadsCancelled
  <2> QED
    BY <1>2, <1>9, <2>1 DEF ReadsCancelled, SweepOK, CreatingInv
<1>10. \A n \in 0..Limit : \A s : Less(n, Counted(s)) \in 0..Limit
  BY <1>1, CountsAreNat DEF Less
<1>11. CASE CountsRunning(p)
  <2>1. RowOK' /\ TxOK'
    BY <1>4, <1>11 DEF CountsRunning
  <2>2. Less(Limit, Counted("running")) \in 0..Limit
    BY <1>1, <1>10
  <2> QED
    BY <1>2, <1>11, <2>1, <2>2 DEF CountsRunning, SweepOK, CreatingInv
<1>12. CASE CountsQueued(p)
  <2>1. RowOK' /\ TxOK'
    BY <1>4, <1>12 DEF CountsQueued
  <2>2. Less(free[p], Counted("queued")) \in 0..Limit
    BY <1>2, <1>10 DEF SweepOK
  <2> QED
    BY <1>2, <1>12, <2>1, <2>2 DEF CountsQueued, SweepOK, CreatingInv
<1>13. CASE Judges(p)
  <2>1. RowOK' /\ TxOK'
    BY <1>4, <1>13 DEF Judges
  <2>2. CASE Rest(p)
    BY <1>2, <2>1, <2>2, RestTypes
  <2>3. ASSUME NEW ok \in SUBSET order[p], order' = [order EXCEPT ![p] = ok],
               pc' = [pc EXCEPT ![p] = IF ok = {} THEN "drain" ELSE "admit"],
               UNCHANGED <<under, seen, free>>
        PROVE  SweepOK' /\ CreatingInv'
    BY <1>2, <2>3 DEF SweepOK, CreatingInv
  <2> QED
    BY <1>13, <2>1, <2>2, <2>3 DEF Judges
<1>14. CASE Enqueues(p)
  <2>1. PICK i \in order[p] :
          /\ CreateLocks(p, i, under[p]) \/ BlockLocks(p, i)
          /\ order' = [order EXCEPT ![p] = @ \ {i}]
    BY <1>14 DEF Enqueues
  <2>2. i \in Items /\ under[p] \in Batches \cup {None}
    BY <1>2 DEF SweepOK
  <2>3. RowOK' /\ TxOK'
    BY <1>1, <1>2, <2>1, <2>2, LockTypes
  <2> QED
    BY <1>2, <1>14, <2>1, <2>3 DEF Enqueues, SweepOK, CreatingInv
<1>15. CASE EnqueueRefused(p) \/ EnqueueSkips(p)
  <2>1. RowOK' /\ TxOK'
    BY <1>4, <1>15 DEF EnqueueRefused, EnqueueSkips
  <2> QED
    BY <1>2, <1>15, <2>1 DEF EnqueueRefused, EnqueueSkips, SweepOK, CreatingInv
<1>16. CASE CreateStep(p)
  <2>1. RowOK' /\ TxOK'
    BY <1>1, <1>2, <1>16, CreateTypes DEF CreateStep
  <2> QED
    BY <1>2, <1>16, <2>1 DEF CreateStep, CreateShares, CreateInserts, sweep, SweepOK, CreatingInv
<1>17. CASE Admits(p)
  <2>1. RowOK' /\ TxOK'
    BY <1>1, <1>2, <1>17, CreateTypes DEF Admits
  <2>2. free[p] \in 0..Limit /\ free[p] > 0
    BY <1>2, <1>17 DEF Admits, SweepOK, CreatingInv
  <2>3. free[p] - 1 \in 0..Limit
    BY <1>1, <2>2
  <2> QED
    BY <1>2, <1>17, <2>1, <2>2, <2>3 DEF Admits, SweepOK, CreatingInv
<1>18. CASE Blocks(p) \/ AdmitRefused(p) \/ AdmitAborts(p)
  <2>1. RowOK' /\ TxOK'
    BY <1>1, <1>2, <1>18, CreateTypes DEF Blocks, AdmitRefused, AdmitAborts
  <2> QED
    BY <1>2, <1>18, <2>1 DEF Blocks, AdmitRefused, AdmitAborts, SweepOK, CreatingInv
<1>19. CASE Rechecks(p)
  <2>1. RowOK' /\ TxOK'
    BY <1>4, <1>19 DEF Rechecks
  <2>2. CASE Rest(p)
    BY <1>2, <2>1, <2>2, RestTypes
  <2> QED
    BY <1>2, <1>19, <2>1, <2>2 DEF Rechecks, SweepOK, CreatingInv
<1>20. CASE AdmitDone(p) \/ TickFails(p)
  <2>1. RowOK' /\ TxOK' /\ Rest(p)
    BY <1>4, <1>20 DEF AdmitDone, TickFails
  <2> QED
    BY <1>2, <2>1, RestTypes
<1>21. CASE DrainLocks(p)
  <2>1. RowOK' /\ TxOK'
    BY <1>4, <1>21 DEF DrainLocks
  <2>2. CASE Rest(p)
    BY <1>2, <2>1, <2>2, RestTypes
  <2> QED
    BY <1>2, <1>21, <2>1, <2>2 DEF DrainLocks, SweepOK, CreatingInv
<1>22. CASE DrainCloses(p)
  <2>1. Rest(p)
    BY <1>22 DEF DrainCloses
  <2>2. RowOK' /\ TxOK'
    BY <1>2, <1>22 DEF DrainCloses, RowOK, TxOK, rows, txs
  <2> QED
    BY <1>2, <2>1, <2>2, RestTypes
<1> QED
  BY <1>5, <1>6, <1>7, <1>8, <1>9, <1>11, <1>12, <1>13, <1>14, <1>15, <1>16, <1>17, <1>18,
     <1>19, <1>20, <1>21, <1>22 DEF RunnerStep

\* The initial state is of its types.
LEMMA InitTypes == Init => TypeOK /\ CreatingInv
<1> SUFFICES ASSUME Init PROVE TypeOK /\ CreatingInv
  OBVIOUS
<1>1. RowOK
  BY DEF Init, RowOK
<1>2. TxOK
  BY DEF Init, TxOK, CreateStages, ClaimStages
<1>3. SweepOK /\ CreatingInv
  BY AdmissionAssumption DEF Init, SweepOK, CreatingInv, RunnerStages
<1> QED
  BY <1>1, <1>2, <1>3, TypeParts
\* So does every step.
LEMMA TypesKept == TypeOK /\ CreatingInv /\ [Next]_vars => TypeOK' /\ CreatingInv'
<1> SUFFICES ASSUME TypeOK, CreatingInv, [Next]_vars PROVE TypeOK' /\ CreatingInv'
  OBVIOUS
<1>1. RowOK /\ TxOK /\ SweepOK
  BY TypeParts
<1>2. ASSUME RowOK', TxOK', UNCHANGED sweep
      PROVE  TypeOK' /\ CreatingInv'
  <2>1. SweepOK' /\ CreatingInv'
    BY <1>1, <1>2 DEF SweepOK, CreatingInv, sweep
  <2> QED
    BY <1>2, <2>1, TypeParts
<1>3. CASE UserStep \/ PauseCommits \/ \E r \in Runs : WalkRests(r) \/ Unpark(r)
  BY <1>1, <1>2, <1>3, VerbTypes
<1>4. ASSUME NEW u \in Users, UserCommits(u)
      PROVE  TypeOK' /\ CreatingInv'
  <2>1. u \in Creators
    BY DEF Creators
  <2>2. RowOK' /\ TxOK' /\ UNCHANGED sweep
    BY <1>1, <1>4, <2>1, CreateTypes
       DEF UserCommits, CreateStep, CreateShares, CreateInserts, Started, StartBlocks, StartAborts
  <2> QED
    BY <1>2, <2>2
<1>5. ASSUME NEW r \in Runs, ClaimStep(r)
      PROVE  TypeOK' /\ CreatingInv'
  BY <1>1, <1>2, <1>5, ClaimTypes
<1>6. ASSUME NEW p \in Runners, RunnerStep(p)
      PROVE  TypeOK' /\ CreatingInv'
  BY <1>6, RunnerTypes
<1>7. CASE UNCHANGED vars
  BY <1>1, <1>2, <1>7 DEF RowOK, TxOK, vars, tables, rows, txs
<1> QED
  BY <1>3, <1>4, <1>5, <1>6, <1>7 DEF Next
-----------------------------------------------------------------------------
(***************************************************************************)
(* What a step does to the runs, the batches and the transactions: the     *)
(* invariants speak of nothing else, and of the runner only while it       *)
(* closes a batch.                                                         *)
(***************************************************************************)

Quiet == UNCHANGED <<rows, batchIs, txs>>
FewerDrains == \A p \in Runners, b \in Batches : Draining(p, b)' => Draining(p, b)
Ends(c) == Unlocks(c) /\ UNCHANGED <<rows, batchIs, claim, pausing>>
CreatorStep(c) ==
  \/ \E i \in Items, b \in Batches \cup {None} : CreateLocks(c, i, b) \/ BlockLocks(c, i)
  \/ CreateStep(c) \/ CreateCommits(c) \/ Ends(c)
RunStep(r) == ClaimStep(r) \/ CancelRun(r) \/ WalkRests(r) \/ Unpark(r)
BatchStep ==
  \/ PauseCommits
  \/ \E b \in Batches : OpenBatch(b) \/ PauseLocks(b)
  \/ \E p \in Runners : DrainCloses(p)
CoreStep ==
  \/ FewerDrains /\ \/ Quiet
                    \/ \E c \in Creators : CreatorStep(c)
                    \/ \E r \in Runs : RunStep(r)
                    \/ BatchStep
  \/ \E p \in Runners : DrainLocks(p) /\ Quiet

\* Every step is one of these.
LEMMA EveryStep == ASSUME TypeOK, [Next]_vars PROVE CoreStep
<1> USE DEF tables, txs
<1>1. SweepOK /\ Runners \subseteq Creators /\ Users \subseteq Creators
  BY TypeParts DEF Creators
<1>2. ASSUME UNCHANGED sweep PROVE FewerDrains
  BY <1>2 DEF FewerDrains, Draining, sweep
<1>3. CASE UserStep
  <2>1. UNCHANGED sweep
    BY <1>3 DEF UserStep, QueueItem, DequeueItem, Unblock, CloseOut, OpenBatch, PauseLocks,
                StartRun, StartRefused, CancelRun, MoveRun, StopWorkspace
  <2>2. CASE \E i \in Items : QueueItem(i) \/ DequeueItem(i) \/ Unblock(i) \/ CloseOut(i)
    BY <1>2, <2>1, <2>2
       DEF QueueItem, DequeueItem, Unblock, CloseOut, CoreStep, Quiet
  <2>3. CASE \E b \in Batches : OpenBatch(b) \/ PauseLocks(b)
    BY <1>2, <2>1, <2>3 DEF CoreStep, BatchStep
  <2>4. CASE \E u \in Users, i \in Items : StartRun(u, i) \/ StartRefused(u, i)
    BY <1>1, <1>2, <2>1, <2>4 DEF StartRun, StartRefused, CoreStep, CreatorStep
  <2>5. CASE \E r \in Runs : CancelRun(r)
    BY <1>2, <2>1, <2>5 DEF CoreStep, RunStep
  <2>6. CASE StopWorkspace
    BY <1>2, <2>1, <2>6 DEF StopWorkspace, CoreStep, Quiet
  <2> QED
    BY <1>3, <2>2, <2>3, <2>4, <2>5, <2>6 DEF UserStep
<1>4. CASE PauseCommits
  BY <1>2, <1>4 DEF PauseCommits, CoreStep, BatchStep
<1>5. ASSUME NEW c \in Creators, BlockCommits(c) \/ CreateEnds(c) PROVE Ends(c)
  BY <1>5 DEF BlockCommits, CreateEnds, Ends
<1>6. ASSUME NEW u \in Users, UserCommits(u) PROVE CoreStep
  <2>1. UNCHANGED sweep
    BY <1>6 DEF UserCommits, CreateStep, CreateShares, CreateInserts, Started, StartBlocks,
                StartAborts
  <2> QED
    BY <1>1, <1>2, <1>5, <1>6, <2>1
       DEF UserCommits, Started, StartBlocks, StartAborts, CoreStep, CreatorStep
<1>7. ASSUME NEW p \in Runners, RunnerStep(p) PROVE CoreStep
  <2> USE DEF At, Goto, SweepOK, FewerDrains, Draining
  <2>1. ASSUME Rest(p) PROVE FewerDrains
    BY <1>1, <2>1 DEF Rest
  <2>2. CASE ReadsBatch(p) \/ Prunes(p) \/ ReadsEntries(p) \/ ReadsReady(p) \/ ReadsCancelled(p)
    BY <1>1, <2>2
       DEF ReadsBatch, Prunes, ReadsEntries, ReadsReady, ReadsCancelled, CoreStep, Quiet
  <2>3. CASE CountsRunning(p) \/ CountsQueued(p) \/ EnqueueRefused(p) \/ EnqueueSkips(p)
    BY <1>1, <2>3
       DEF CountsRunning, CountsQueued, EnqueueRefused, EnqueueSkips, CoreStep, Quiet
  <2>4. CASE Judges(p) \/ Rechecks(p)
    BY <1>1, <2>1, <2>4 DEF Judges, Rechecks, CoreStep, Quiet
  <2>5. CASE AdmitDone(p) \/ TickFails(p)
    BY <2>1, <2>5 DEF AdmitDone, TickFails, CoreStep, Quiet
  <2>6. CASE Enqueues(p)
    <3>1. FewerDrains
      BY <1>1, <2>6 DEF Enqueues
    <3>2. \E i \in Items, b \in Batches \cup {None} : CreateLocks(p, i, b) \/ BlockLocks(p, i)
      BY <1>1, <2>6 DEF Enqueues
    <3> QED
      BY <1>1, <3>1, <3>2 DEF CoreStep, CreatorStep
  <2>7. CASE CreateStep(p)
    <3>1. FewerDrains
      BY <1>2, <2>7 DEF CreateStep, CreateShares, CreateInserts
    <3> QED
      BY <1>1, <2>7, <3>1 DEF CoreStep, CreatorStep
  <2>8. CASE Admits(p)
    <3>1. FewerDrains
      BY <1>1, <2>8 DEF Admits
    <3> QED
      BY <1>1, <2>8, <3>1 DEF Admits, CoreStep, CreatorStep
  <2>9. CASE Blocks(p) \/ AdmitRefused(p) \/ AdmitAborts(p)
    <3>1. FewerDrains
      BY <1>1, <2>9 DEF Blocks, AdmitRefused, AdmitAborts
    <3>2. Ends(p)
      BY <1>1, <1>5, <2>9 DEF Blocks, AdmitRefused, AdmitAborts
    <3> QED
      BY <1>1, <3>1, <3>2 DEF CoreStep, CreatorStep
  <2>10. CASE DrainLocks(p)
    BY <2>10 DEF DrainLocks, CoreStep, Quiet
  <2>11. CASE DrainCloses(p)
    <3>1. FewerDrains
      BY <2>1, <2>11 DEF DrainCloses
    <3> QED
      BY <2>11, <3>1 DEF CoreStep, BatchStep
  <2> QED
    BY <1>7, <2>2, <2>3, <2>4, <2>5, <2>6, <2>7, <2>8, <2>9, <2>10, <2>11 DEF RunnerStep
<1>8. ASSUME NEW r \in Runs, ClaimStep(r) \/ WalkRests(r) \/ Unpark(r) PROVE CoreStep
  <2>1. UNCHANGED sweep
    BY <1>8 DEF ClaimStep, ClaimBegins, ClaimDecides, ClaimCommits, ClaimBlocks, ClaimAborts,
                WalkRests, Unpark, MoveRun
  <2> QED
    BY <1>2, <1>8, <2>1 DEF CoreStep, RunStep
<1>9. CASE UNCHANGED vars
  BY <1>2, <1>9 DEF vars, CoreStep, Quiet
<1> QED
  BY <1>3, <1>4, <1>6, <1>7, <1>8, <1>9 DEF Next
-----------------------------------------------------------------------------
(* The runs: only create_run adds one; no other step makes a run live, or queued. *)

RunsMove ==
  /\ UNCHANGED <<item, batch, scope>>
  /\ \A r \in Runs : \/ status'[r] = status[r]
                     \/ status[r] \in ActiveRun /\ status'[r] # "queued"
RunAdded(r, c) ==
  /\ status[r] = "none"
  /\ status' = [status EXCEPT ![r] = "queued"]
  /\ item' = [item EXCEPT ![r] = forItem[c]]
  /\ batch' = [batch EXCEPT ![r] = inBatch[c]]
  /\ \A q \in Runs \ {r} : scope'[q] = scope[q]

\* A verb or a walk moves one live run, that no claim has locked.
LEMMA MovesAreLive ==
  ASSUME RowOK, NEW r \in Runs, CancelRun(r) \/ WalkRests(r) \/ Unpark(r)
  PROVE  /\ RunsMove /\ claim[r] = "none"
         /\ UNCHANGED <<batchIs, txs>>
         /\ \E to \in RunStatuses \ {"queued"} : status' = [status EXCEPT ![r] = to]
<1>1. PICK to \in {"awaiting", "done", "failed", "stopped", "running", "cancelled"} : MoveRun(r, to)
  BY DEF CancelRun, WalkRests, Unpark
<1>2. status[r] \in ActiveRun
  BY DEF CancelRun, WalkRests, Unpark, ActiveRun
<1>3. to \in RunStatuses \ {"queued"}
  BY DEF RunStatuses, ActiveRun, TerminalRun
<1> QED
  BY <1>1, <1>2, <1>3 DEF RowOK, RunsMove, MoveRun, RunLocked

\* So does a claim, whose run is queued until it commits.
LEMMA ClaimsAreLive ==
  ASSUME RowOK, ClaimInv, NEW r \in Runs, ClaimStep(r)
  PROVE  RunsMove /\ UNCHANGED <<batchIs, create, forItem, inBatch, pausing>>
<1> USE DEF tables, rows
<1>1. CASE ClaimBegins(r) \/ ClaimDecides(r) \/ ClaimAborts(r)
  BY <1>1 DEF ClaimBegins, ClaimDecides, ClaimAborts, RunsMove
<1>2. CASE ClaimCommits(r) \/ ClaimBlocks(r)
  <2>1. status[r] \in ActiveRun
    BY <1>2 DEF ClaimCommits, ClaimBlocks, ClaimInv, ActiveRun
  <2> QED
    BY <1>2, <2>1 DEF ClaimCommits, ClaimBlocks, RowOK, RunsMove
<1> QED
  BY <1>1, <1>2 DEF ClaimStep

\* A commit of create_run adds one run.
LEMMA CommitsAddOne ==
  ASSUME RowOK, NEW c \in Creators, CreateCommits(c)
  PROVE  \E r \in Runs : RunAdded(r, c)
BY DEF RowOK, CreateCommits, RunAdded

-----------------------------------------------------------------------------
(* One live run an item. *)

\* No other step than create_run's gives an item a live run.
LEMMA NoNewLife ==
  ASSUME RowOK, RunsMove PROVE \A i : LiveRun(i)' => LiveRun(i)
BY DEF RowOK, RunsMove, LiveRun, RunsOf, ActiveRun

\* So two transactions never give an item two live runs.
LEMMA ItemsKept ==
  ASSUME TypeOK, TypeOK', ItemInv, OneLiveRun, ClaimInv, CoreStep
  PROVE  ItemInv' /\ OneLiveRun'
<1>1. RowOK /\ TxOK /\ RowOK' /\ TxOK'
  BY TypeParts
<1>2. ASSUME RunsMove PROVE OneLiveRun'
  BY <1>1, <1>2 DEF RowOK, RunsMove, OneLiveRun, ActiveRun
<1>3. ASSUME RunsMove, UNCHANGED <<create, forItem>> PROVE ItemInv'
  BY <1>1, <1>3, NoNewLife DEF ItemInv
<1>4. ASSUME NEW c \in Creators, CreatorStep(c) PROVE ItemInv' /\ OneLiveRun'
  <2>1. ASSUME NEW i \in Items, NEW s \in {"item", "note"},
               create[c] = "none", ~ItemLocked(i), ~LiveRun(i), UNCHANGED rows,
               create' = [create EXCEPT ![c] = s], forItem' = [forItem EXCEPT ![c] = i]
        PROVE  ItemInv' /\ OneLiveRun'
    <3>1. RunsMove
      BY <2>1 DEF RunsMove, rows
    <3>2. \A d \in Creators : create[d] # "none" => forItem[d] # i
      BY <2>1 DEF ItemLocked
    <3>3. \A d \in Creators \ {c} : create'[d] = create[d] /\ forItem'[d] = forItem[d]
      BY <1>1, <2>1 DEF TxOK
    <3>4. create'[c] # "none" /\ forItem'[c] = i
      BY <1>1, <2>1 DEF TxOK
    <3>5. \A j : LiveRun(j)' => LiveRun(j)
      BY <1>1, <3>1, NoNewLife
    <3> QED
      BY <1>2, <2>1, <3>1, <3>2, <3>3, <3>4, <3>5 DEF ItemInv
  <2>2. CASE \E i \in Items, b \in Batches \cup {None} : CreateLocks(c, i, b) \/ BlockLocks(c, i)
    BY <2>1, <2>2 DEF CreateLocks, BlockLocks, Startable, tables
  <2>3. CASE CreateStep(c)
    <3>1. RunsMove /\ UNCHANGED forItem
      BY <2>3 DEF CreateStep, CreateShares, CreateInserts, RunsMove, tables, rows
    <3>2. \A d \in Creators : create'[d] # "none" => create[d] # "none"
      BY <1>1, <2>3 DEF CreateStep, CreateShares, CreateInserts, TxOK
    <3> QED
      BY <1>1, <1>2, <3>1, <3>2, NoNewLife DEF ItemInv
  <2>4. ASSUME Unlocks(c)
        PROVE  /\ create'[c] = "none"
               /\ \A d \in Creators \ {c} : create'[d] = create[d] /\ forItem'[d] = forItem[d]
    BY <1>1, <2>4 DEF Unlocks, TxOK
  <2>5. CASE Ends(c)
    <3>1. RunsMove /\ Unlocks(c)
      BY <2>5 DEF Ends, RunsMove, rows
    <3> QED
      BY <1>1, <1>2, <2>4, <3>1, NoNewLife DEF ItemInv
  <2>6. CASE CreateCommits(c)
    <3>1. PICK r \in Runs : RunAdded(r, c)
      BY <1>1, <2>6, CommitsAddOne
    <3>2. create[c] = "insert" /\ Unlocks(c)
      BY <2>6 DEF CreateCommits
    <3>3. ~LiveRun(forItem[c])
      BY <3>2 DEF ItemInv
    <3>4. \A j : LiveRun(j)' => LiveRun(j) \/ j = forItem[c]
      BY <1>1, <3>1 DEF RowOK, RunAdded, LiveRun, RunsOf, ActiveRun
    <3>5. ItemInv'
      BY <2>4, <3>2, <3>4 DEF ItemInv
    <3>6. \A q \in Runs : status[q] \in ActiveRun => item[q] # forItem[c]
      BY <3>3 DEF LiveRun, RunsOf, ActiveRun
    <3> QED
      BY <1>1, <3>1, <3>5, <3>6 DEF RowOK, RunAdded, OneLiveRun, ActiveRun
  <2> QED
    BY <1>4, <2>2, <2>3, <2>5, <2>6 DEF CreatorStep
<1>5. CASE Quiet
  BY <1>2, <1>3, <1>5 DEF Quiet, txs, rows, RunsMove
<1>6. ASSUME NEW r \in Runs, RunStep(r) PROVE ItemInv' /\ OneLiveRun'
  <2>1. RunsMove /\ UNCHANGED <<create, forItem>>
    BY <1>1, <1>6, MovesAreLive, ClaimsAreLive DEF RunStep, txs
  <2> QED
    BY <1>2, <1>3, <2>1
<1>7. CASE BatchStep
  <2>1. UNCHANGED <<create, forItem>>
    BY <1>7 DEF BatchStep, PauseCommits, OpenBatch, PauseLocks, DrainCloses, txs
  <2>2. RunsMove
    BY <1>1, <1>7 DEF BatchStep, PauseCommits, OpenBatch, PauseLocks, DrainCloses, tables, rows,
                      QueuedIn, RowOK, RunsMove, ActiveRun
  <2> QED
    BY <1>2, <1>3, <2>1, <2>2
<1> QED
  BY <1>4, <1>5, <1>6, <1>7 DEF CoreStep
-----------------------------------------------------------------------------
(* Batches. *)

\* The runs of a batch, by what its close must not leave behind.
LEMMA BatchesByMove ==
  ASSUME RowOK, RunsMove, PausedIsEmpty, DrainedIsDone,
         \A b \in Batches : \/ batchIs'[b] = batchIs[b]
                            \/ batchIs'[b] = "open"
  PROVE  PausedIsEmpty' /\ DrainedIsDone'
BY DEF RowOK, RunsMove, PausedIsEmpty, DrainedIsDone, ActiveRun

\* While no batch is closed, and no join or close begins, nothing about them changes.
LEMMA BatchesRest ==
  ASSUME BatchInv, FewerDrains, UNCHANGED <<batchIs, pausing>>,
         \A c \in Creators, b \in Batches : Joins(c, b)' => Joins(c, b)
  PROVE  BatchInv'
<1>1. \A p \in Runners, b \in Batches : Draining(p, b)' => Draining(p, b)
  BY DEF FewerDrains
<1> QED
  BY <1>1 DEF BatchInv

\* So a pause or a drain, and what joins its batch, wait for one another.
LEMMA BatchesKept ==
  ASSUME TypeOK, TypeOK', BatchInv, PausedIsEmpty, DrainedIsDone, ClaimInv, CoreStep
  PROVE  BatchInv' /\ PausedIsEmpty' /\ DrainedIsDone'
<1>1. RowOK /\ TxOK /\ RowOK' /\ TxOK' /\ None \notin Batches
  BY TypeParts, AdmissionAssumption
<1>2. ASSUME RunsMove, FewerDrains, UNCHANGED <<batchIs, pausing>>,
             \A c \in Creators, b \in Batches : Joins(c, b)' => Joins(c, b)
      PROVE  BatchInv' /\ PausedIsEmpty' /\ DrainedIsDone'
  BY <1>1, <1>2, BatchesRest, BatchesByMove
<1>3. CASE FewerDrains /\ Quiet
  <2>1. \A c \in Creators, b \in Batches : Joins(c, b)' => Joins(c, b)
    BY <1>3 DEF Quiet, txs, Joins
  <2> QED
    BY <1>2, <1>3, <2>1 DEF Quiet, txs, rows, RunsMove
<1>4. ASSUME FewerDrains, NEW c \in Creators, CreatorStep(c)
      PROVE  BatchInv' /\ PausedIsEmpty' /\ DrainedIsDone'
  <2> USE DEF tables, rows
  <2>1. CASE \/ \E i \in Items, b \in Batches \cup {None} : CreateLocks(c, i, b) \/ BlockLocks(c, i)
             \/ CreateInserts(c) \/ Ends(c)
    <3>1. RunsMove /\ UNCHANGED <<batchIs, pausing>>
      BY <2>1 DEF CreateLocks, BlockLocks, CreateInserts, Ends, RunsMove
    <3>2. \A d \in Creators, b \in Batches : Joins(d, b)' => Joins(d, b)
      BY <1>1, <2>1 DEF CreateLocks, BlockLocks, CreateInserts, Ends, Unlocks, TxOK, Joins
    <3> QED
      BY <1>2, <1>4, <3>1, <3>2
  <2>2. CASE CreateShares(c)
    <3>1. RunsMove /\ UNCHANGED <<batchIs, pausing>>
      BY <2>2 DEF CreateShares, RunsMove
    <3>2. \A d \in Creators, b \in Batches :
            Joins(d, b)' => \/ Joins(d, b)
                            \/ b = inBatch[c] /\ ~BatchLocked(b) /\ batchIs[b] = "open"
      BY <1>1, <2>2 DEF CreateShares, TxOK, Joins
    <3>3. \A p \in Runners, b \in Batches : Draining(p, b) => BatchLocked(b)
      BY DEF Draining, BatchLocked
    <3>4. BatchInv'
      BY <1>4, <3>1, <3>2, <3>3 DEF BatchInv, FewerDrains, BatchLocked
    <3> QED
      BY <1>1, <3>1, <3>4, BatchesByMove
  <2>3. CASE CreateCommits(c)
    <3>1. PICK r \in Runs : RunAdded(r, c)
      BY <1>1, <2>3, CommitsAddOne
    <3>2. UNCHANGED <<batchIs, pausing>> /\ create[c] = "insert" /\ Unlocks(c)
      BY <2>3 DEF CreateCommits
    <3>3. \A d \in Creators, b \in Batches : Joins(d, b)' => Joins(d, b)
      BY <1>1, <3>2 DEF Unlocks, TxOK, Joins
    <3>4. BatchInv'
      BY <1>4, <3>2, <3>3, BatchesRest
    <3>5. inBatch[c] # None => batchIs[inBatch[c]] = "open"
      BY <1>1, <3>2 DEF BatchInv, Joins, TxOK
    <3> QED
      BY <1>1, <3>1, <3>2, <3>4, <3>5 DEF RowOK, RunAdded, PausedIsEmpty, DrainedIsDone
  <2> QED
    BY <1>4, <2>1, <2>2, <2>3 DEF CreatorStep, CreateStep
<1>5. ASSUME FewerDrains, NEW r \in Runs, RunStep(r)
      PROVE  BatchInv' /\ PausedIsEmpty' /\ DrainedIsDone'
  <2>1. RunsMove /\ UNCHANGED <<batchIs, create, inBatch, pausing>>
    BY <1>1, <1>5, MovesAreLive, ClaimsAreLive DEF RunStep, txs
  <2>2. \A c \in Creators, b \in Batches : Joins(c, b)' => Joins(c, b)
    BY <2>1 DEF Joins
  <2> QED
    BY <1>2, <1>5, <2>1, <2>2
<1>6. ASSUME FewerDrains, NEW b \in Batches, OpenBatch(b)
      PROVE  BatchInv' /\ PausedIsEmpty' /\ DrainedIsDone'
  <2>1. RunsMove /\ UNCHANGED <<create, inBatch, pausing>>
    BY <1>6 DEF OpenBatch, RunsMove, rows, txs
  <2>2. \A a \in Batches : batchIs'[a] = batchIs[a] \/ batchIs'[a] = "open"
    BY <1>1, <1>6 DEF OpenBatch, RowOK
  <2>3. \A c \in Creators, a \in Batches : Joins(c, a)' <=> Joins(c, a)
    BY <2>1 DEF Joins
  <2>4. BatchInv'
    BY <1>1, <1>6, <2>1, <2>2, <2>3 DEF BatchInv, FewerDrains, TxOK
  <2> QED
    BY <1>1, <2>1, <2>2, <2>4, BatchesByMove
<1>7. ASSUME FewerDrains, NEW b \in Batches, PauseLocks(b)
      PROVE  BatchInv' /\ PausedIsEmpty' /\ DrainedIsDone'
  <2>1. RunsMove /\ UNCHANGED <<batchIs, create, inBatch>> /\ pausing' = b
    BY <1>7 DEF PauseLocks, RunsMove, tables, rows
  <2>2. \A p \in Runners : ~Draining(p, b)
    BY <1>7 DEF PauseLocks, BatchLocked, Draining
  <2>3. \A c \in Creators : ~Joins(c, b)
    BY <1>7 DEF PauseLocks, ShareHeld, Joins
  <2>4. \A c \in Creators, a \in Batches : Joins(c, a)' <=> Joins(c, a)
    BY <2>1 DEF Joins
  <2>5. BatchInv'
    BY <1>7, <2>1, <2>2, <2>3, <2>4 DEF BatchInv, FewerDrains, PauseLocks
  <2> QED
    BY <1>1, <2>1, <2>5, BatchesByMove
<1>8. CASE FewerDrains /\ PauseCommits
  <2> DEFINE b == pausing
  <2>1. b \in Batches /\ batchIs[b] = "open"
    BY <1>1, <1>8 DEF PauseCommits, TxOK, BatchInv
  <2>2. /\ batchIs' = [batchIs EXCEPT ![b] = "paused"]
        /\ status' = [r \in Runs |-> IF r \in QueuedIn(b) THEN "cancelled" ELSE status[r]]
        /\ pausing' = None /\ UNCHANGED <<create, inBatch, batch>>
    BY <1>8 DEF PauseCommits
  <2>3. \A c \in Creators, a \in Batches : Joins(c, a)' <=> Joins(c, a)
    BY <2>2 DEF Joins
  <2>4. \A p \in Runners : ~Draining(p, b)
    BY <2>1 DEF BatchInv
  <2>5. \A c \in Creators : ~Joins(c, b)
    BY <2>1 DEF BatchInv
  <2>6. BatchInv'
    BY <1>1, <1>8, <2>1, <2>2, <2>3, <2>4, <2>5 DEF BatchInv, FewerDrains, RowOK
  <2>7. PausedIsEmpty'
    BY <1>1, <2>1, <2>2 DEF RowOK, PausedIsEmpty, QueuedIn
  <2>8. DrainedIsDone'
    BY <1>1, <2>1, <2>2 DEF RowOK, DrainedIsDone, ActiveRun
  <2> QED
    BY <2>6, <2>7, <2>8
<1>9. ASSUME FewerDrains, NEW p \in Runners, DrainCloses(p)
      PROVE  BatchInv' /\ PausedIsEmpty' /\ DrainedIsDone'
  <2>1. RunsMove /\ UNCHANGED <<create, inBatch, pausing, rows>>
    BY <1>9 DEF DrainCloses, RunsMove, rows, txs
  <2>2. \A c \in Creators, a \in Batches : Joins(c, a)' <=> Joins(c, a)
    BY <2>1 DEF Joins
  <2>3. CASE UNCHANGED batchIs
    BY <1>2, <1>9, <2>1, <2>2, <2>3
  <2>4. ASSUME NEW b \in Batches, under[p] = b, Drainable(p),
               batchIs' = [batchIs EXCEPT ![b] = "drained"]
        PROVE  BatchInv' /\ PausedIsEmpty' /\ DrainedIsDone'
    <3>1. Draining(p, b)
      BY <1>9, <2>4 DEF DrainCloses, Draining
    <3>2. \A q \in Runners : ~Draining(q, b)'
      <4>1. ~Draining(p, b)'
        BY <1>9, TypeParts DEF DrainCloses, Rest, Goto, Draining, SweepOK
      <4> QED
        BY <1>9, <2>4, <3>1, <4>1 DEF BatchInv, FewerDrains
    <3>3. pausing # b /\ \A c \in Creators : ~Joins(c, b)
      BY <2>4, <3>1 DEF BatchInv
    <3>4. BatchInv'
      BY <1>1, <1>9, <2>1, <2>2, <2>4, <3>2, <3>3 DEF BatchInv, FewerDrains, RowOK, TxOK
    <3>5. \A r \in Runs : batch[r] = b => status[r] \notin ActiveRun
      BY <2>4 DEF Drainable
    <3>6. PausedIsEmpty' /\ DrainedIsDone'
      BY <1>1, <2>1, <2>4, <3>5 DEF RowOK, rows, PausedIsEmpty, DrainedIsDone, ActiveRun
    <3> QED
      BY <3>4, <3>6
  <2>5. under[p] \notin Batches => UNCHANGED batchIs
    BY <1>1, <1>9 DEF DrainCloses, RowOK
  <2> QED
    BY <1>9, <2>3, <2>4, <2>5 DEF DrainCloses
<1>10. ASSUME NEW p \in Runners, DrainLocks(p), Quiet
       PROVE  BatchInv' /\ PausedIsEmpty' /\ DrainedIsDone'
  <2>1. RunsMove /\ UNCHANGED <<batchIs, create, inBatch, pausing>>
    BY <1>10 DEF Quiet, txs, rows, RunsMove
  <2>2. \A c \in Creators, a \in Batches : Joins(c, a)' <=> Joins(c, a)
    BY <2>1 DEF Joins
  <2>3. CASE batchIs[under[p]] = "open"
    <3>1. /\ pc' = [pc EXCEPT ![p] = "draining"] /\ under' = under
          /\ ~ShareHeld(under[p]) /\ ~BatchLocked(under[p])
      BY <1>10, <2>3 DEF DrainLocks, Goto
    <3>2. \A q \in Runners, b \in Batches :
            Draining(q, b)' => Draining(q, b) \/ (q = p /\ b = under[p])
      BY <3>1, TypeParts DEF Draining, SweepOK
    <3>3. \A q \in Runners : ~Draining(q, under[p])
      BY <3>1 DEF BatchLocked, Draining
    <3>4. pausing # under[p] /\ \A c \in Creators : ~Joins(c, under[p])
      BY <3>1 DEF ShareHeld, BatchLocked, Joins
    <3>5. BatchInv'
      BY <2>1, <2>2, <2>3, <3>2, <3>3, <3>4 DEF BatchInv
    <3> QED
      BY <1>1, <2>1, <3>5, BatchesByMove
  <2>4. CASE batchIs[under[p]] # "open"
    <3>1. FewerDrains
      BY <1>10, <2>4, TypeParts DEF DrainLocks, Rest, Goto, FewerDrains, Draining, SweepOK
    <3> QED
      BY <1>2, <2>1, <2>2, <3>1
  <2> QED
    BY <2>3, <2>4
<1> QED
  BY <1>3, <1>4, <1>5, <1>6, <1>7, <1>8, <1>9, <1>10 DEF CoreStep, BatchStep
-----------------------------------------------------------------------------
(* Claims, the trees they are given and the slots they take. *)

\* What every step but a claim's commit does: no run comes to hold trees or a slot.
Steady ==
  \A r \in Runs :
    /\ status[r] # "none" => scope'[r] = scope[r]
    /\ status'[r] \in Held => status[r] \in Held
    /\ status'[r] = "running" /\ ~parked'[r] => status[r] = "running" /\ ~parked[r]
    /\ status'[r] = "awaiting" => parked'[r]
    /\ claim[r] # "none" => claim'[r] = "none" \/ status'[r] = "queued"
ClaimsEnd == \A r \in Runs : claim'[r] = claim[r] \/ claim'[r] = "none"

\* The counted slots are finitely many.
LEMMA SlotsFinite ==
  IsFiniteSet(Slots) /\ IsFiniteSet(Slots') /\ Cardinality(Slots) \in Nat
<1>1. Slots \subseteq Runs /\ Slots' \subseteq Runs
  BY DEF Slots
<1> QED
  BY <1>1, RunsFinite, FS_Subset, FS_CardinalityType

\* A steady step takes no slot.
LEMMA SteadySlots ==
  ASSUME Steady
  PROVE  /\ Cardinality(Slots') \in Nat
         /\ Cardinality(Slots') <= Cardinality(Slots)
<1>1. Slots' \subseteq Slots
  BY DEF Steady, Slots
<1> QED
  BY <1>1, SlotsFinite, FS_Subset, FS_CardinalityType

\* Nor does it bring two scopes together.
LEMMA SteadyScopes ==
  ASSUME RowOK, NoOverlap, Steady PROVE NoOverlap'
<1>1. \A r \in Runs : status'[r] \in Held => status[r] \in Held /\ scope'[r] = scope[r]
  BY DEF Steady, Held
<1> QED
  BY <1>1 DEF NoOverlap

\* And while no claim begins or decides, what the deciding one has read still holds.
LEMMA SteadyClaims ==
  ASSUME RowOK, ClaimInv, Steady, ClaimsEnd PROVE ClaimInv'
<1>1. \A r \in Runs : claim'[r] # "none" => claim'[r] = claim[r]
  BY DEF ClaimsEnd
<1>2. \A r \in Runs : claim'[r] # "none" => status'[r] = "queued" /\ scope'[r] = scope[r]
  BY <1>1 DEF ClaimInv, Steady
<1>3. \A r \in Runs : status'[r] \in Held => status[r] \in Held /\ scope'[r] = scope[r]
  BY DEF Steady, Held
<1> QED
  BY <1>1, <1>2, <1>3 DEF ClaimInv, OverlapsLive

\* Every step but a claim's is steady.
LEMMA SteadySteps ==
  ASSUME TypeOK, ClaimInv, SlotInv, CoreStep, \A r \in Runs : ~ClaimStep(r)
  PROVE  Steady /\ ClaimsEnd
<1> USE DEF tables, rows, txs
<1>1. RowOK /\ TxOK
  BY TypeParts
<1>2. ASSUME UNCHANGED <<rows, claim>> PROVE Steady /\ ClaimsEnd
  BY <1>2 DEF Steady, ClaimsEnd, ClaimInv, SlotInv
<1>3. CASE Quiet
  BY <1>2, <1>3 DEF Quiet
<1>4. ASSUME NEW c \in Creators, CreatorStep(c) PROVE Steady /\ ClaimsEnd
  <2>1. CASE CreateCommits(c)
    <3>1. PICK r \in Runs : RunAdded(r, c)
      BY <1>1, <2>1, CommitsAddOne
    <3>2. UNCHANGED <<parked, claim>>
      BY <2>1 DEF CreateCommits
    <3> QED
      BY <1>1, <3>1, <3>2 DEF RowOK, RunAdded, Steady, ClaimsEnd, ClaimInv, SlotInv, Held
  <2>2. CASE ~CreateCommits(c)
    <3>1. UNCHANGED <<rows, claim>>
      BY <1>4, <2>2 DEF CreatorStep, CreateLocks, BlockLocks, CreateStep, CreateShares,
                        CreateInserts, Ends
    <3> QED
      BY <1>2, <3>1
  <2> QED
    BY <2>1, <2>2
<1>5. ASSUME NEW r \in Runs, CancelRun(r) \/ WalkRests(r) \/ Unpark(r)
      PROVE  Steady /\ ClaimsEnd
  <2>1. /\ claim[r] = "none" /\ UNCHANGED <<claim, scope>>
        /\ \A q \in Runs \ {r} : status'[q] = status[q]
    BY <1>1, <1>5, MovesAreLive DEF RowOK, RunsMove
  <2>2. \A q \in Runs \ {r} : parked'[q] = parked[q]
    BY <1>1, <1>5 DEF CancelRun, WalkRests, Unpark, RowOK
  <2>3. CASE CancelRun(r)
    <3>1. status'[r] = "cancelled"
      BY <1>1, <2>3 DEF CancelRun, MoveRun, RowOK
    <3> QED
      BY <2>1, <2>2, <3>1 DEF Steady, ClaimsEnd, ClaimInv, SlotInv, Held
  <2>4. CASE WalkRests(r)
    <3>1. status[r] = "running" /\ parked'[r] = TRUE
      BY <1>1, <2>4 DEF WalkRests, RowOK
    <3> QED
      BY <2>1, <2>2, <3>1 DEF Steady, ClaimsEnd, ClaimInv, SlotInv, Held
  <2>5. CASE Unpark(r)
    <3>1. status[r] = "awaiting" /\ status'[r] = "running" /\ parked'[r] = parked[r]
      BY <1>1, <2>5 DEF Unpark, MoveRun, RowOK
    <3> QED
      BY <2>1, <2>2, <3>1 DEF Steady, ClaimsEnd, ClaimInv, SlotInv, Held
  <2> QED
    BY <1>5, <2>3, <2>4, <2>5
<1>6. CASE PauseCommits
  <2>1. \A r \in Runs : status'[r] = status[r] \/ (status'[r] = "cancelled" /\ claim[r] = "none")
    BY <1>6 DEF PauseCommits, QueuedIn, RunLocked
  <2>2. UNCHANGED <<scope, parked, claim>>
    BY <1>6 DEF PauseCommits
  <2> QED
    BY <2>1, <2>2 DEF Steady, ClaimsEnd, ClaimInv, SlotInv, Held
<1>7. CASE BatchStep /\ ~PauseCommits
  BY <1>2, <1>7 DEF BatchStep, OpenBatch, PauseLocks, DrainCloses
<1> QED
  BY <1>3, <1>4, <1>5, <1>6, <1>7 DEF CoreStep, RunStep

\* A verdict that admits has seen a free slot, and nothing that overlaps.
LEMMA VerdictAdmits ==
  ASSUME NEW r \in Runs, "admit" \in Verdict(r) PROVE ~SlotFull /\ ~OverlapsLive(r)
BY DEF Verdict

\* A free slot by the box's count is one by the claims' count.
LEMMA SlotsByCount ==
  ASSUME ~SlotFull PROVE Cardinality(Slots) < Limit
<1>1. IsFiniteSet({r \in Runs : status[r] = "running"})
  BY RunsFinite, FS_Subset
<1>2. Slots \subseteq {r \in Runs : status[r] = "running"}
  BY DEF Slots
<1>3. Cardinality(Slots) <= Counted("running")
  BY <1>1, <1>2, FS_Subset DEF Counted
<1> QED
  BY <1>3, CountsAreNat, SlotsFinite, AdmissionAssumption DEF SlotFull

\* So the claims, and what they have read, keep the box's promises.
LEMMA ClaimsKept ==
  ASSUME TypeOK, ClaimInv, NoOverlap, SlotInv, SlotsByClaim, CoreStep
  PROVE  ClaimInv' /\ NoOverlap' /\ SlotInv' /\ SlotsByClaim'
<1> USE DEF tables, rows
<1>1. RowOK /\ TxOK /\ Limit \in Nat
  BY TypeParts, AdmissionAssumption
<1>2. ASSUME Steady PROVE NoOverlap' /\ SlotsByClaim'
  <2>1. Cardinality(Slots) <= Limit
    BY DEF SlotsByClaim, Slots
  <2>2. Cardinality(Slots') <= Limit
    BY <1>1, <1>2, <2>1, SteadySlots, SlotsFinite
  <2> QED
    BY <1>1, <1>2, <2>2, SteadyScopes DEF SlotsByClaim, Slots
<1>3. ASSUME Steady, ClaimsEnd PROVE SlotInv'
  <2>1. \A r \in Runs : claim'[r] = "admit" => Cardinality(Slots') < Limit
    BY <1>1, <1>3, SteadySlots, SlotsFinite DEF ClaimsEnd, SlotInv
  <2> QED
    BY <1>3, <2>1 DEF SlotInv, Steady
<1>4. CASE \A r \in Runs : ~ClaimStep(r)
  BY <1>1, <1>2, <1>3, <1>4, SteadySteps, SteadyClaims
<1>5. ASSUME NEW r \in Runs, ClaimAborts(r) \/ ClaimBlocks(r)
      PROVE  ClaimInv' /\ NoOverlap' /\ SlotInv' /\ SlotsByClaim'
  <2>1. /\ claim' = [claim EXCEPT ![r] = "none"] /\ UNCHANGED <<scope, parked>>
        /\ \/ UNCHANGED status
           \/ status' = [status EXCEPT ![r] = "failed"]
    BY <1>5 DEF ClaimAborts, ClaimBlocks
  <2>2. Steady /\ ClaimsEnd
    BY <1>1, <2>1 DEF RowOK, TxOK, Steady, ClaimsEnd, ClaimInv, SlotInv, Held
  <2> QED
    BY <1>1, <1>2, <1>3, <2>2, SteadyClaims
<1>6. ASSUME UNCHANGED rows
      PROVE  Steady /\ Slots' = Slots /\ NoOverlap' /\ SlotsByClaim'
  <2>1. Steady /\ Slots' = Slots
    BY <1>6 DEF Steady, ClaimInv, SlotInv, Slots
  <2> QED
    BY <1>2, <2>1
<1>7. ASSUME NEW r \in Runs, ClaimBegins(r)
      PROVE  ClaimInv' /\ NoOverlap' /\ SlotInv' /\ SlotsByClaim'
  <2>1. UNCHANGED rows /\ status[r] = "queued" /\ claim' = [claim EXCEPT ![r] = "run"]
    BY <1>7 DEF ClaimBegins
  <2>2. \A q \in Runs : claim'[q] = claim[q] \/ (q = r /\ claim'[q] = "run")
    BY <1>1, <2>1 DEF TxOK
  <2>3. \A q \in Runs : OverlapsLive(q)' <=> OverlapsLive(q)
    BY <2>1 DEF OverlapsLive
  <2>4. ClaimInv'
    BY <2>1, <2>2, <2>3 DEF ClaimInv
  <2>5. SlotInv'
    BY <1>6, <2>1, <2>2 DEF SlotInv
  <2> QED
    BY <1>6, <2>1, <2>4, <2>5
<1>8. ASSUME NEW r \in Runs, ClaimDecides(r)
      PROVE  ClaimInv' /\ NoOverlap' /\ SlotInv' /\ SlotsByClaim'
  <2>1. UNCHANGED rows /\ claim[r] = "run" /\ ~BoxLocked
    BY <1>8 DEF ClaimDecides
  <2>2. PICK v \in Verdict(r) : claim' = [claim EXCEPT ![r] = v]
    BY <1>8 DEF ClaimDecides
  <2>3. \A q \in Runs : (q # r => claim'[q] = claim[q]) /\ claim[q] \notin {"admit", "missing"}
    BY <1>1, <2>1, <2>2 DEF TxOK, BoxLocked
  <2>4. claim'[r] = v
    BY <1>1, <2>2 DEF TxOK
  <2>5. \A q \in Runs : OverlapsLive(q)' <=> OverlapsLive(q)
    BY <2>1 DEF OverlapsLive
  <2>6. v = "admit" => ~OverlapsLive(r) /\ Cardinality(Slots) < Limit
    BY <2>2, VerdictAdmits, SlotsByCount
  <2>7. ClaimInv'
    BY <2>1, <2>3, <2>4, <2>5, <2>6 DEF ClaimInv
  <2>8. SlotInv'
    BY <1>6, <2>1, <2>3, <2>4, <2>6 DEF SlotInv
  <2> QED
    BY <1>6, <2>1, <2>7, <2>8
<1>9. ASSUME NEW r \in Runs, ClaimCommits(r)
      PROVE  ClaimInv' /\ NoOverlap' /\ SlotInv' /\ SlotsByClaim'
  <2>1. /\ claim[r] = "admit" /\ UNCHANGED <<scope, parked>>
        /\ claim' = [claim EXCEPT ![r] = "none"]
        /\ status' = [status EXCEPT ![r] = "running"]
    BY <1>9 DEF ClaimCommits
  <2>2. \A q \in Runs : claim'[q] # "none" => q # r /\ claim'[q] = claim[q]
    BY <1>1, <2>1 DEF TxOK
  <2>3. \A q \in Runs : claim'[q] # "admit" /\ claim'[q] # "missing"
    BY <2>1, <2>2 DEF ClaimInv
  <2>4. status'[r] = "running" /\ \A q \in Runs \ {r} : status'[q] = status[q]
    BY <1>1, <2>1 DEF RowOK
  <2>5. ClaimInv'
    BY <2>2, <2>3, <2>4 DEF ClaimInv
  <2>6. \A q \in Runs : status[q] \in Held => /\ ~Overlaps(scope[r], scope[q])
                                              /\ ~Overlaps(scope[q], scope[r])
    BY <2>1, OverlapsBothWays DEF ClaimInv, OverlapsLive
  <2>7. NoOverlap'
    BY <2>1, <2>4, <2>6 DEF NoOverlap
  <2>8. SlotInv'
    BY <2>1, <2>3, <2>4 DEF SlotInv
  <2>9. Slots' \subseteq Slots \cup {r}
    BY <2>1, <2>4 DEF Slots
  <2>10. Cardinality(Slots) < Limit
    BY <2>1 DEF SlotInv
  <2>11. /\ IsFiniteSet(Slots \cup {r})
         /\ Cardinality(Slots \cup {r}) <= Cardinality(Slots) + 1
         /\ Cardinality(Slots \cup {r}) \in Nat
    <3>1. /\ IsFiniteSet(Slots \cup {r})
          /\ Cardinality(Slots \cup {r}) = IF r \in Slots THEN Cardinality(Slots)
                                                          ELSE Cardinality(Slots) + 1
      BY SlotsFinite, FS_AddElement
    <3> QED
      BY <3>1, SlotsFinite
  <2>12. Cardinality(Slots') <= Cardinality(Slots \cup {r}) /\ Cardinality(Slots') \in Nat
    BY <2>9, <2>11, FS_Subset, SlotsFinite, FS_CardinalityType
  <2>13. Cardinality(Slots') <= Limit
    BY <1>1, <2>10, <2>11, <2>12, SlotsFinite
  <2> QED
    BY <2>5, <2>7, <2>8, <2>13 DEF SlotsByClaim, Slots
<1> QED
  BY <1>4, <1>5, <1>7, <1>8, <1>9 DEF ClaimStep

-----------------------------------------------------------------------------
(* The invariant, and the theorems. *)

\* The invariant holds in the initial state.
LEMMA InitHolds == Init => AdmissionInv
<1> SUFFICES ASSUME Init PROVE AdmissionInv
  OBVIOUS
<1>1. TypeOK /\ CreatingInv
  BY InitTypes
<1>2. ItemInv /\ OneLiveRun
  BY DEF Init, ItemInv, OneLiveRun, ActiveRun
<1>3. BatchInv /\ PausedIsEmpty /\ DrainedIsDone
  BY DEF Init, BatchInv, Draining, Joins, PausedIsEmpty, DrainedIsDone, ActiveRun
<1>4. ClaimInv /\ NoOverlap
  BY DEF Init, ClaimInv, NoOverlap, Held
<1>5. Slots = {}
  BY DEF Init, Slots
<1>6. Cardinality(Slots) <= Limit
  BY <1>5, FS_EmptySet, AdmissionAssumption
<1>7. SlotInv /\ SlotsByClaim
  BY <1>6 DEF Init, SlotInv, SlotsByClaim, Slots
<1> QED
  BY <1>1, <1>2, <1>3, <1>4, <1>7 DEF AdmissionInv

\* The invariant is inductive.
LEMMA InvKept == AdmissionInv /\ [Next]_vars => AdmissionInv'
<1> SUFFICES ASSUME AdmissionInv, [Next]_vars PROVE AdmissionInv'
  OBVIOUS
<1>1. TypeOK /\ TypeOK' /\ CreatingInv' /\ CoreStep
  BY TypesKept, EveryStep DEF AdmissionInv
<1>2. ItemInv' /\ OneLiveRun'
  BY <1>1, ItemsKept DEF AdmissionInv
<1>3. BatchInv' /\ PausedIsEmpty' /\ DrainedIsDone'
  BY <1>1, BatchesKept DEF AdmissionInv
<1>4. ClaimInv' /\ NoOverlap' /\ SlotInv' /\ SlotsByClaim'
  BY <1>1, ClaimsKept DEF AdmissionInv
<1> QED
  BY <1>1, <1>2, <1>3, <1>4 DEF AdmissionInv

\* It holds in every behaviour of the store, the runners and the users.
THEOREM AdmissionInvHolds == Spec => []AdmissionInv
BY InitHolds, InvKept, PTL DEF Spec

\* Every variable keeps its type, the runner's free slots among them.
THEOREM AdmissionTypes == Spec => []TypeOK
<1>1. AdmissionInv => TypeOK
  BY DEF AdmissionInv
<1> QED
  BY <1>1, AdmissionInvHolds, PTL

\* The item's row lock alone keeps an item at one live run, whoever creates runs of it.
THEOREM OneRunAnItem == Spec => []OneLiveRun
<1>1. AdmissionInv => OneLiveRun
  BY DEF AdmissionInv
<1> QED
  BY <1>1, AdmissionInvHolds, PTL

\* Runs that hold trees on the box never overlap, whatever their scopes and whoever claims.
THEOREM TreesApart == Spec => []NoOverlap
<1>1. AdmissionInv => NoOverlap
  BY DEF AdmissionInv
<1> QED
  BY <1>1, AdmissionInvHolds, PTL

\* Claims never give out more slots than the box has.
THEOREM SlotsFit == Spec => []SlotsByClaim
<1>1. AdmissionInv => SlotsByClaim
  BY DEF AdmissionInv
<1> QED
  BY <1>1, AdmissionInvHolds, PTL

\* A paused batch has no queued run, however many admissions raced the pause.
THEOREM PauseEmpties == Spec => []PausedIsEmpty
<1>1. AdmissionInv => PausedIsEmpty
  BY DEF AdmissionInv
<1> QED
  BY <1>1, AdmissionInvHolds, PTL

\* A drained batch has no live run, however many runners drain and admit at once.
THEOREM DrainIsFinal == Spec => []DrainedIsDone
<1>1. AdmissionInv => DrainedIsDone
  BY DEF AdmissionInv
<1> QED
  BY <1>1, AdmissionInvHolds, PTL

-----------------------------------------------------------------------------
(* Nobody waits for ever: the locks are taken in an order without a cycle. *)

\* A claim that fails its run never waits for the item's row: whoever holds it has made sure
\* that the item has no live run, and the claimed run is one.
LEMMA ClaimGetsItem ==
  ASSUME ItemInv, ClaimInv, NEW r \in Runs, claim[r] # "none"
  PROVE  ~ItemLocked(item[r])
<1>1. LiveRun(item[r])
  BY DEF ClaimInv, LiveRun, RunsOf, ActiveRun
<1> QED
  BY <1>1 DEF ItemInv, ItemLocked

\* So a claim that holds the box's row ends; with the box free its waiters go on; with no
\* claim in flight a pause goes on, and with no close in flight a transaction that joins one.
LEMMA LocksUntangle == TypeOK /\ ItemInv /\ ClaimInv => SomeoneProceeds
<1> SUFFICES ASSUME TypeOK, ItemInv, ClaimInv, ~SomeoneProceeds PROVE FALSE
  OBVIOUS
<1>1. ~BoxLocked
  <2>1. \A r \in Runs : claim[r] \in {"admit", "missing"} => RunLocked(r) /\ ~ClaimWaits(r)
    BY ClaimGetsItem DEF RunLocked, ClaimWaits
  <2> QED
    BY <2>1 DEF SomeoneProceeds, BoxLocked
<1>2. \A c \in Creators : create[c] # "none" => create[c] = "item"
  BY <1>1 DEF SomeoneProceeds, CreateWaits
<1>3. \A r \in Runs : ~RunLocked(r)
  <2>1. ~BoxShared
    BY <1>2 DEF BoxShared
  <2>2. \A r \in Runs : RunLocked(r) => ~ClaimWaits(r)
    BY <1>1, <2>1, ClaimGetsItem DEF RunLocked, ClaimWaits
  <2> QED
    BY <2>2 DEF SomeoneProceeds
<1>4. pausing = None
  BY <1>3 DEF SomeoneProceeds, PauseWaits, QueuedIn
<1>5. \A p \in Runners : pc[p] # "draining"
  BY DEF SomeoneProceeds
<1>6. \A c \in Creators : create[c] = "none"
  <2>1. \A c \in Creators : create[c] = "item" => ~CreateWaits(c)
    BY <1>4, <1>5 DEF CreateWaits, BatchLocked
  <2> QED
    BY <1>2, <2>1 DEF SomeoneProceeds
<1> QED
  BY <1>3, <1>4, <1>5, <1>6 DEF SomeoneProceeds

\* The transactions of the store's writes never deadlock on one another's rows, however many
\* runners, users and claims there are at once.
THEOREM NobodyDeadlocks == Spec => []SomeoneProceeds
<1>1. AdmissionInv => SomeoneProceeds
  BY LocksUntangle DEF AdmissionInv
<1> QED
  BY <1>1, AdmissionInvHolds, PTL

-----------------------------------------------------------------------------
(***************************************************************************)
(* Once a batch: the box's runner reads what is ready, and then what the   *)
(* batch has cancelled, and it alone creates runs in a batch.  So what it  *)
(* may still admit has no run in the batch, though its reads are not one   *)
(* snapshot.                                                               *)
(***************************************************************************)

\* The batch's runs of the item, cancelled ones included.
Spent(i, b) == {r \in Runs : status[r] # "none" /\ item[r] = i /\ batch[r] = b /\ b # None}
Judging == {"running", "queued", "judge", "admit", "creating", "recheck"}

\* A runner's transaction is for an item it has struck off, in its batch; the items left to it
\* have no run in the batch, or, before it has read the cancelled ones, only those.
Fresh(p) ==
  /\ create[p] # "none" => pc[p] = "creating"
  /\ pc[p] # "creating" => inBatch[p] = None
  /\ pc[p] = "cancelled" =>
       \A i \in order[p] : \A r \in Spent(i, under[p]) : status[r] = "cancelled"
  /\ pc[p] \in Judging => \A i \in order[p] : Spent(i, under[p]) = {}
  /\ pc[p] = "creating" =>
       /\ inBatch[p] \in {None, under[p]}
       /\ Spent(forItem[p], under[p]) = {} /\ forItem[p] \notin order[p]
FreshInv ==
  /\ \A u \in Users : inBatch[u] = None
  /\ \A p \in Runners : Fresh(p)
OneRunner == \A p, q \in Runners : p = q

\* A batch's runs of an item: none is added, and a cancelled one stays cancelled.
NoneAdded ==
  /\ \A i, b : Spent(i, b)' \subseteq Spent(i, b)
  /\ \A r \in Runs : status[r] = "cancelled" => status'[r] = "cancelled"

\* Steps that create no run add none.
LEMMA MovesAddNone ==
  ASSUME RowOK, RunsMove PROVE NoneAdded /\ (OncePerBatch => OncePerBatch')
<1>1. \A r \in Runs : /\ status'[r] # "none" => status[r] # "none"
                      /\ status[r] = "cancelled" => status'[r] = "cancelled"
  BY DEF RunsMove, ActiveRun
<1> QED
  BY <1>1 DEF RunsMove, NoneAdded, Spent, OncePerBatch

\* Nor does a run outside every batch.
LEMMA UsersAddNone ==
  ASSUME RowOK, NEW c \in Creators, NEW r \in Runs, RunAdded(r, c), inBatch[c] = None
  PROVE  NoneAdded /\ (OncePerBatch => OncePerBatch')
<1>1. \A q \in Runs \ {r} : status'[q] = status[q] /\ item'[q] = item[q] /\ batch'[q] = batch[q]
  BY DEF RowOK, RunAdded
<1>2. batch'[r] = None /\ status[r] = "none"
  BY DEF RowOK, RunAdded
<1> QED
  BY <1>1, <1>2 DEF NoneAdded, Spent, OncePerBatch

\* A step of anyone else leaves the runner's reads and its transaction alone.
Aside ==
  /\ UNCHANGED sweep
  /\ \A p \in Runners : create'[p] = create[p] /\ inBatch'[p] = inBatch[p] /\ forItem'[p] = forItem[p]
  /\ \A u \in Users : inBatch'[u] = None
  /\ RunsMove \/ \E u \in Users : CreateCommits(u)

LEMMA OthersStepAside ==
  ASSUME TypeOK, ClaimInv, FreshInv, [Next]_vars, \A p \in Runners : ~RunnerStep(p)
  PROVE  Aside
<1> USE DEF tables, txs
<1>1. /\ RowOK /\ TxOK /\ Users \subseteq Creators /\ Runners \subseteq Creators
      /\ \A p \in Runners, u \in Users : p # u
  BY TypeParts, AdmissionAssumption DEF Creators
<1>2. ASSUME UNCHANGED <<sweep, create, forItem, inBatch>>, RunsMove PROVE Aside
  BY <1>2 DEF Aside, FreshInv
<1>3. ASSUME NEW u \in Users, UNCHANGED sweep, RunsMove \/ CreateCommits(u),
             NEW e, NEW i, NEW b, b = None,
             create' = [create EXCEPT ![u] = e], forItem' = [forItem EXCEPT ![u] = i],
             inBatch' = [inBatch EXCEPT ![u] = b]
      PROVE  Aside
  BY <1>1, <1>3 DEF Aside, TxOK, FreshInv
<1>4. CASE \/ PauseCommits \/ StopWorkspace \/ UNCHANGED vars
           \/ \E i \in Items : QueueItem(i) \/ DequeueItem(i) \/ Unblock(i) \/ CloseOut(i)
           \/ \E b \in Batches : OpenBatch(b) \/ PauseLocks(b)
  <2>1. UNCHANGED <<sweep, create, forItem, inBatch>>
    BY <1>4 DEF PauseCommits, vars, QueueItem, DequeueItem, Unblock, CloseOut, OpenBatch, PauseLocks,
                StopWorkspace
  <2>2. RunsMove
    BY <1>1, <1>4 DEF PauseCommits, vars, QueueItem, DequeueItem, Unblock, CloseOut, OpenBatch,
                PauseLocks, StopWorkspace, rows, QueuedIn, RowOK, RunsMove, ActiveRun
  <2> QED
    BY <1>2, <2>1, <2>2
<1>5. ASSUME NEW r \in Runs, ClaimStep(r) \/ CancelRun(r) \/ WalkRests(r) \/ Unpark(r) PROVE Aside
  <2>1. UNCHANGED sweep
    BY <1>5 DEF ClaimStep, ClaimBegins, ClaimDecides, ClaimCommits, ClaimBlocks, ClaimAborts,
                CancelRun, WalkRests, Unpark, MoveRun
  <2>2. RunsMove /\ UNCHANGED <<create, forItem, inBatch>>
    BY <1>1, <1>5, MovesAreLive, ClaimsAreLive
  <2> QED
    BY <1>2, <2>1, <2>2
<1>6. ASSUME NEW u \in Users, NEW i \in Items, StartRun(u, i) \/ StartRefused(u, i) PROVE Aside
  <2>1. RunsMove /\ UNCHANGED sweep
    BY <1>6 DEF StartRun, StartRefused, CreateLocks, BlockLocks, RunsMove, rows
  <2>2. CASE CreateLocks(u, i, None)
    BY <1>3, <2>1, <2>2 DEF CreateLocks
  <2>3. CASE BlockLocks(u, i)
    BY <1>1, <2>1, <2>3 DEF BlockLocks, Aside, TxOK, FreshInv
  <2> QED
    BY <1>6, <2>2, <2>3 DEF StartRun, StartRefused
<1>7. ASSUME NEW u \in Users, UserCommits(u) PROVE Aside
  <2>1. UNCHANGED sweep
    BY <1>7 DEF UserCommits, CreateStep, CreateShares, CreateInserts, Started, StartBlocks,
                StartAborts
  <2>2. CASE CreateStep(u)
    BY <1>1, <2>1, <2>2 DEF CreateStep, CreateShares, CreateInserts, Aside, TxOK, FreshInv, RunsMove,
                              rows
  <2>3. CASE Started(u) \/ StartBlocks(u) \/ StartAborts(u)
    <3>1. RunsMove \/ CreateCommits(u)
      BY <2>3 DEF Started, StartBlocks, StartAborts, BlockCommits, CreateEnds, RunsMove, rows
    <3>2. Unlocks(u)
      BY <2>3 DEF Started, StartBlocks, StartAborts, BlockCommits, CreateEnds, CreateCommits
    <3> QED
      BY <1>3, <2>1, <3>1, <3>2 DEF Unlocks
  <2> QED
    BY <1>7, <2>2, <2>3 DEF UserCommits
<1>8. CASE UserStep
  BY <1>4, <1>5, <1>6, <1>8 DEF UserStep
<1> QED
  BY <1>4, <1>5, <1>7, <1>8 DEF Next

\* So nobody else makes the runner's reads stale.
LEMMA AsideKeeps ==
  ASSUME RowOK, TxOK, FreshInv, OncePerBatch, Aside
  PROVE  FreshInv' /\ OncePerBatch'
<1>1. NoneAdded /\ OncePerBatch'
  <2>1. CASE RunsMove
    BY <2>1, MovesAddNone
  <2>2. ASSUME NEW u \in Users, CreateCommits(u) PROVE NoneAdded /\ OncePerBatch'
    BY <2>2, CommitsAddOne, UsersAddNone DEF FreshInv, Creators
  <2> QED
    BY <2>1, <2>2 DEF Aside
<1>2. \A i, b : \A r \in Spent(i, b)' : r \in Spent(i, b) /\ r \in Runs
  BY <1>1 DEF NoneAdded, Spent
<1> QED
  BY <1>1, <1>2 DEF Aside, FreshInv, Fresh, NoneAdded, sweep

\* The runner's own steps: it reads the batch's cancelled runs after the ready items, and what
\* it begins to create it strikes off.
LEMMA RunnerKeeps ==
  ASSUME TypeOK, TypeOK', FreshInv, OncePerBatch, OneRunner,
         NEW p \in Runners, RunnerStep(p)
  PROVE  FreshInv' /\ OncePerBatch'
<1> USE DEF tables, txs
<1>1. /\ RowOK /\ TxOK /\ SweepOK /\ Runners \subseteq Creators /\ Users \subseteq Creators
      /\ p \in Creators /\ p \notin Users
  BY TypeParts, AdmissionAssumption DEF Creators
<1>2. ASSUME Fresh(p)', \A u \in Users : inBatch'[u] = inBatch[u] PROVE FreshInv'
  BY <1>2 DEF FreshInv, OneRunner
<1>3. ASSUME UNCHANGED rows
      PROVE  OncePerBatch' /\ \A i, b : Spent(i, b)' = Spent(i, b)
  BY <1>3 DEF OncePerBatch, Spent, rows
<1>4. Fresh(p)
  BY DEF FreshInv
\* Outside the reads that count.
<1>5. ASSUME UNCHANGED <<rows, txs>>, pc[p] # "creating",
             pc'[p] \in {"idle", "prune", "entries", "ready", "drain", "draining"}
      PROVE  FreshInv' /\ OncePerBatch'
  <2>1. Fresh(p)'
    BY <1>4, <1>5 DEF Fresh, Judging
  <2> QED
    BY <1>2, <1>3, <1>5, <2>1
<1>6. CASE \/ ReadsBatch(p) \/ Prunes(p) \/ ReadsEntries(p) \/ AdmitDone(p)
           \/ DrainLocks(p) \/ DrainCloses(p) \/ TickFails(p)
  <2>1. UNCHANGED <<rows, txs>> /\ pc[p] # "creating"
    BY <1>6 DEF ReadsBatch, Prunes, ReadsEntries, AdmitDone, DrainLocks, DrainCloses, TickFails, At
  <2>2. pc'[p] \in {"idle", "prune", "entries", "ready", "drain", "draining"}
    BY <1>1, <1>6 DEF ReadsBatch, Prunes, ReadsEntries, AdmitDone, DrainLocks, DrainCloses,
                      TickFails, At, Goto, Rest, SweepOK
  <2> QED
    BY <1>5, <2>1, <2>2
\* What is ready has cancelled runs only; what has none of the batch is fresh.
<1>7. CASE ReadsReady(p)
  <2>1. /\ UNCHANGED <<rows, txs, under>> /\ pc[p] = "ready" /\ pc'[p] = "cancelled"
        /\ order'[p] = {i \in seen[p] : Ready(i)}
    BY <1>1, <1>7 DEF ReadsReady, At, Goto, SweepOK
  <2>2. \A i \in order'[p] : \A r \in Spent(i, under[p]) : status[r] = "cancelled"
    BY <2>1 DEF Ready, RunsOf, Spent
  <2>3. Fresh(p)'
    BY <1>3, <1>4, <2>1, <2>2 DEF Fresh, Judging, rows
  <2> QED
    BY <1>2, <1>3, <2>1, <2>3
<1>8. CASE ReadsCancelled(p)
  <2>1. /\ UNCHANGED <<rows, txs, under>> /\ pc[p] = "cancelled" /\ pc'[p] = "running"
        /\ order'[p] = order[p] \ CancelledIn(under[p]) /\ order[p] \subseteq Items
    BY <1>1, <1>8 DEF ReadsCancelled, At, Goto, SweepOK
  <2>2. \A i \in order'[p] : Spent(i, under[p]) = {}
    BY <1>4, <2>1 DEF Fresh, Spent, CancelledIn, RunsOf
  <2>3. Fresh(p)'
    BY <1>3, <1>4, <2>1, <2>2 DEF Fresh, Judging
  <2> QED
    BY <1>2, <1>3, <2>1, <2>3
\* The order only shrinks from here.
<1>9. ASSUME UNCHANGED <<rows, txs, under>>, pc[p] \in Judging \ {"creating"},
             pc'[p] \in Judging \ {"creating"}, order'[p] \subseteq order[p]
      PROVE  FreshInv' /\ OncePerBatch'
  <2>1. Fresh(p)'
    BY <1>3, <1>4, <1>9 DEF Fresh, Judging
  <2> QED
    BY <1>2, <1>3, <1>9, <2>1
<1>10. CASE CountsRunning(p) \/ CountsQueued(p) \/ EnqueueRefused(p) \/ EnqueueSkips(p)
  BY <1>1, <1>9, <1>10
     DEF CountsRunning, CountsQueued, EnqueueRefused, EnqueueSkips, At, Goto, SweepOK, Judging
<1>11. CASE Judges(p) \/ Rechecks(p)
  <2>1. UNCHANGED <<rows, txs>> /\ pc[p] \in {"judge", "recheck"}
    BY <1>11 DEF Judges, Rechecks
  <2>2. CASE pc'[p] \in {"idle", "drain"}
    BY <1>5, <2>1, <2>2
  <2>3. CASE pc'[p] = "admit"
    <3>1. ~Rest(p)
      BY <1>1, <2>3 DEF Rest, Goto, SweepOK
    <3>2. UNCHANGED under /\ order'[p] \subseteq order[p]
      BY <1>1, <1>11, <3>1 DEF Judges, Rechecks, SweepOK
    <3> QED
      BY <1>9, <2>1, <2>3, <3>2 DEF Judging
  <2>4. pc'[p] \in {"idle", "drain", "admit"}
    BY <1>1, <1>11 DEF Judges, Rechecks, Rest, Goto, SweepOK
  <2> QED
    BY <2>2, <2>3, <2>4
<1>12. CASE Enqueues(p)
  <2>1. /\ UNCHANGED <<rows, under>> /\ pc[p] = "admit" /\ pc'[p] = "creating"
        /\ \A u \in Users : inBatch'[u] = inBatch[u]
    BY <1>1, <1>12 DEF Enqueues, CreateLocks, BlockLocks, At, Goto, SweepOK, TxOK
  <2>2. PICK i \in order[p] : /\ CreateLocks(p, i, under[p]) \/ BlockLocks(p, i)
                              /\ order' = [order EXCEPT ![p] = @ \ {i}]
    BY <1>12 DEF Enqueues
  <2>3. order'[p] = order[p] \ {i} /\ forItem'[p] = i
    BY <1>1, <2>2 DEF CreateLocks, BlockLocks, SweepOK, TxOK
  <2>4. inBatch'[p] \in {None, under[p]}
    <3>1. CASE CreateLocks(p, i, under[p])
      BY <1>1, <3>1 DEF CreateLocks, TxOK
    <3>2. CASE BlockLocks(p, i)
      BY <1>4, <2>1, <3>2 DEF BlockLocks, Fresh
    <3> QED
      BY <2>2, <3>1, <3>2
  <2>5. \A j \in order[p] : Spent(j, under[p]) = {}
    BY <1>4, <2>1 DEF Fresh, Judging
  <2>6. Fresh(p)'
    BY <1>3, <2>1, <2>3, <2>4, <2>5 DEF Fresh, Judging
  <2> QED
    BY <1>2, <1>3, <2>1, <2>6
<1>13. CASE CreateStep(p)
  <2>1. UNCHANGED <<rows, forItem, inBatch, sweep>> /\ create[p] # "none"
    BY <1>13 DEF CreateStep, CreateShares, CreateInserts
  <2>2. Fresh(p)'
    BY <1>3, <1>4, <2>1 DEF Fresh, Judging, sweep
  <2> QED
    BY <1>2, <1>3, <2>1, <2>2
\* The transaction ends.
<1>14. ASSUME Unlocks(p), UNCHANGED <<under, order>>, pc[p] = "creating",
              pc'[p] \in {"admit", "recheck"},
              \A i \in order[p] : Spent(i, under[p])' = {}
       PROVE  FreshInv'
  <2>1. /\ create'[p] = "none" /\ inBatch'[p] = None
        /\ \A u \in Users : inBatch'[u] = inBatch[u]
    BY <1>1, <1>14 DEF Unlocks, TxOK
  <2>2. Fresh(p)'
    BY <1>14, <2>1 DEF Fresh, Judging
  <2> QED
    BY <1>2, <2>1, <2>2
<1>15. CASE Blocks(p) \/ AdmitRefused(p) \/ AdmitAborts(p)
  <2>1. /\ Unlocks(p) /\ UNCHANGED <<rows, under, order>> /\ pc[p] = "creating"
        /\ pc'[p] \in {"admit", "recheck"}
    BY <1>1, <1>15 DEF Blocks, AdmitRefused, AdmitAborts, BlockCommits, CreateEnds, At, Goto, SweepOK
  <2>2. \A i \in order[p] : Spent(i, under[p])' = {}
    BY <1>3, <1>4, <2>1 DEF Fresh, Judging
  <2> QED
    BY <1>3, <1>14, <2>1, <2>2
<1>16. CASE Admits(p)
  <2>1. /\ CreateCommits(p) /\ Unlocks(p) /\ UNCHANGED <<under, order>> /\ pc[p] = "creating"
        /\ pc'[p] \in {"admit", "recheck"}
    BY <1>1, <1>16 DEF Admits, CreateCommits, At, Goto, SweepOK
  <2>2. PICK r \in Runs : RunAdded(r, p)
    BY <1>1, <2>1, CommitsAddOne
  <2>3. /\ \A q \in Runs \ {r} : status'[q] = status[q] /\ item'[q] = item[q] /\ batch'[q] = batch[q]
        /\ item'[r] = forItem[p] /\ batch'[r] = inBatch[p] /\ status[r] = "none"
    BY <1>1, <2>2 DEF RowOK, RunAdded
  <2>4. /\ inBatch[p] \in {None, under[p]} /\ Spent(forItem[p], under[p]) = {}
        /\ forItem[p] \notin order[p] /\ \A i \in order[p] : Spent(i, under[p]) = {}
    BY <1>4, <2>1 DEF Fresh, Judging
  <2>5. \A i \in order[p] : Spent(i, under[p])' = {}
    BY <2>1, <2>3, <2>4 DEF Spent
  <2>6. \A q \in Runs \ {r} : status[q] # "none" /\ item[q] = forItem[p]
                                /\ batch[q] = inBatch[p] => inBatch[p] = None
    BY <2>4 DEF Spent
  <2>7. OncePerBatch'
    BY <2>3, <2>6 DEF OncePerBatch
  <2> QED
    BY <1>14, <2>1, <2>5, <2>7
<1> QED
  BY <1>6, <1>7, <1>8, <1>10, <1>11, <1>12, <1>13, <1>15, <1>16 DEF RunnerStep

\* Where one process executes on the box, a batch never has two runs of an item: what the user
\* cancelled stays cancelled, whatever else happens between the runner's reads.
THEOREM AdmittedOnce ==
  ASSUME OneRunner PROVE Spec => []OncePerBatch
<1>1. Init => FreshInv /\ OncePerBatch
  BY AdmissionAssumption DEF Init, FreshInv, Fresh, Judging, OncePerBatch, Creators
<1>2. AdmissionInv /\ AdmissionInv' /\ FreshInv /\ OncePerBatch /\ [Next]_vars
        => FreshInv' /\ OncePerBatch'
  <2> SUFFICES ASSUME AdmissionInv, AdmissionInv', FreshInv, OncePerBatch, [Next]_vars
               PROVE  FreshInv' /\ OncePerBatch'
    OBVIOUS
  <2>1. TypeOK /\ TypeOK' /\ ClaimInv
    BY DEF AdmissionInv
  <2>2. CASE \E p \in Runners : RunnerStep(p)
    BY <2>1, <2>2, RunnerKeeps
  <2>3. CASE \A p \in Runners : ~RunnerStep(p)
    BY <2>1, <2>3, OthersStepAside, AsideKeeps, TypeParts
  <2> QED
    BY <2>2, <2>3
<1> QED
  BY <1>1, <1>2, AdmissionInvHolds, PTL DEF Spec
=============================================================================
