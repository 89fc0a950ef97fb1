# A verification of htui's orchestration

htui runs AI agents over work items. A person plans items in a terminal UI;
a *run* walks an item through the phases of a graph, each phase a *step* with an
agent session, a verification and a gate that a person may have to answer. Several
processes, on several hosts ("boxes"), share one Postgres: terminals, headless
workers, restarts of both. This directory holds a TLA+ model of the part of that
program where the processes meet, the TLC runs that check it on small instances,
and the theorems that hold for all of them.

Line references are to the files under `src/`.

## 1. The system, and what each part must get right

### The parts, their state and their operations

| Part | Source | State | Operations |
|---|---|---|---|
| Run leases | `htui-orch/engine.rs`, `recover.rs`; `htui-worker/runtime.rs`; `htui-store/pg/write.rs` | the run row's `status`, `lease_owner`, `lease_expires_at`; per process a lock per run, walks and their heartbeats, dead walks, the sweep's list, waiting resumes | claim, take, refresh, release, adopt, walk, rest, preempt, abandon, sweep, crash |
| Status law | `htui-core/model/run.rs` | none | `can_move_to` of runs and steps |
| Admission and the queue | `htui-worker/runtime.rs` (`admit`), `pg/write.rs`, `pg/read.rs`, `model/overlap.rs`, `model/queue.rs` | items, queue entries, batches, run rows; row locks of the transactions in flight; the runner's reads | queue, dequeue, resume, pause, admit, drain, start, claim, block, close out |
| Step walk | `htui-orch/engine.rs`, `gate.rs`, `status.rs`, `fanout.rs`, `recover.rs` | the steps of a run: status, attempt, fan-out index, gate, fence | phases, gates, retries, loop backs, fan-out and selection, classification of an interrupted step |
| Relay: cancels, permissions, follow-ups | `pg/relay.rs`, `htui-agent/record/relay.rs`, `engine.rs`, `htui-worker/runtime.rs` | durable rows that a terminal writes and the executor polls, a window per session | enqueue, claim, close, ask, answer, cancel, clean up after a dropped walk |
| Command queue | `pg/write.rs`, `htui-mcp/tools/command.rs` | a row per build or test command of a box and class, the process that runs it | enqueue, claim, beat, reap, finish, cancel, crash |
| Isolation | `htui-orch/isolate*` | work trees, branches, guards | prepare, reconcile, merge, clean up |
| Sessions and recorder | `htui-agent` | child processes, their events | start, send, record, end |
| MCP host, model and prompts, cache and search, terminal UI, provisioning and secrets | `htui-mcp`, `htui-core`, `htui-store`, `htui`, `htui-secrets` | no shared protocol state | - |

### How they interact

- **Calls to the store.** Every change of shared state is one SQL statement or one
  transaction. Some statements compare and set (`transition_run`: the status alone),
  some check the owner (`refresh_lease`), some are fenced by lease and step
  (`finish_step`, `park_step`). A transaction of several statements waits for row
  locks between them.
- **Tasks within a process.** The runtime spawns a task per verb, resume or claim.
  A lock per run (`RunLocks`) serialises those of one run; a command may *preempt* a
  walk, first gracefully, then by dropping its future wherever it stands.
- **Time.** A walk races its heartbeat, which refreshes the lease and fences the
  walk off by the process's monotonic clock; the store stamps the lease with its own.
- **The sweep.** The process whose role matches the box's executor (rule I-1)
  ticks: pending cancels, dead walks given back, lapsed leases adopted, the queue
  admitted from, queued runs claimed.

### What is hard

Two processes around the instant a lease lapses; a refresh that answers late or
never; a write that landed although its call failed; a process that dies, or whose
host sleeps; a command that takes a run from its own process's walk; a queue runner
whose reads are not a snapshot; transactions that take the same locks in two orders;
a pause or a drain against an admission in flight; steps and attempts that are
created in several writes; a command whose guard was read before another one's writes; a
follow-up queued while its session closes; a claim that reaps the rows it waits behind.
`PROJECT.json` lists each at its line, under `hazards`.

### What makes each part correct

- *Leases*: two processes never walk one run; the process's clock never overstates
  what the store grants; a run is parked or settled only by the walk that owns it;
  a running run is never left to nobody; a live lease is never taken from its owner.
- *Admission*: one live run an item; no overlapping runs on a box; no more claims
  than slots; a paused batch leaves nothing to claim; a drained batch has no live
  run; a batch spends once on an item; locks never form a cycle; an open queue ends;
  a claimable run is claimed.
- *Step walk*: attempts neither overlap nor exceed their budget, and no merge is
  lost, over a crash anywhere; a fan-out group has one winner; a run that ended has no
  unsettled step; a running run comes to rest.
- *Relay*: a follow-up is sent or refused and never both; none waits for a session
  that closed its window; a request a person may answer is heard; a cancel is carried
  out or refused, whoever owns the run by then.
- *Command queue*: the commands of a class fit its slots; what an agent is told a
  command came to is its row; a row ends once; a waiter is served.

## 2. Modules

    RunStatus      the status law (pure)
    RunScope       what a run may touch, and overlap (pure)
    LeaseLock      abstract: a lock with an expiry
    RunLease       the lease protocol            EXTENDS RunStatus, implements LeaseLock
    RunLeaseProofs theorems about RunLease       EXTENDS RunLease, TLAPS
    MCRunLease     instances for TLC
    QueueAdmission the queue and the claim       EXTENDS RunStatus, RunScope
    QueueAdmissionProofs theorems about it       EXTENDS QueueAdmission, TLAPS
    MCQueueAdmission instances for TLC
    PhaseRun       abstract: the phases a run passes
    StepWalk       the walk of one run           EXTENDS RunStatus, implements PhaseRun
    StepWalkProofs theorems about its rows       EXTENDS StepWalk, TLAPS
    StepFrontProofs theorems about its front     EXTENDS StepWalkProofs
    StepBudgetProofs theorems about its attempts EXTENDS StepFrontProofs
    StepWholeProofs about its merges and phases  EXTENDS StepFrontProofs
    MCStepWalk     its graphs, instances for TLC
    RunRelay       cancels, permissions, follow-ups of one run
    RunRelayProofs theorems about it             EXTENDS RunRelay, TLAPS
    MCRunRelay     instances for TLC
    SlotPool       abstract: jobs that take slots
    CommandQueue   the queue of one box and class, implements SlotPool
    CommandQueueProofs theorems about it         EXTENDS CommandQueue, TLAPS
    MCCommandQueue instances for TLC

### RunLease

One box, its processes and its runs, all of one workspace. The row is three
variables: `status`, `owner` and `lease`, a countdown in the store's clock where 0
means NULL or lapsed. For each process and run, `stage` and `kind` say which task
holds the run's lock and how far it is:

| `stage` | code |
|---|---|
| `claiming` | `Engine::claim`, its `claim_run` in flight |
| `taking` | `take_lease` in flight (resume, command, sweep-driven recovery) |
| `window` | `Engine::leased_window`: a command's reads and writes under the lease it took, without heartbeat |
| `walk` | `Engine::heartbeaten`: the walk, raced against `heartbeat` |
| `reread` | the walk has moved the run, and reads it back |
| `cancelled`, `abandoning` | the walk's future was dropped; `Engine::abandoned` |
| `releasing` | `release_lease` in flight, the lock still held |

`rem` is what the process believes is left of its lease, counted from the sending of
the call that wrote it; `beat` and `beatRem` are the refresh in flight; `late` the
refreshes whose caller has gone but which may still reach the store; `dead`, `todo`,
`resumes` and `loose` are the runtime's `DeadWalks`, the adopted runs the sweep has
not reached, resumes that wait for the lock, and releases sent without it.

A call that the program awaits is two steps, the sending and the landing, so time
passes and others act in between. `Faulty` lets a call answer an error whether or not
its write landed. `Tick` passes time for every clock and is held back only while a
timer is more than `Lag` overdue; `Suspend` passes time for the store alone.

`LeaseLock` says what the store promises on its own, whatever its clients do: a live
lease leaves its owner only by the owner's release. `IsLeaseLock` maps `owner` and
`lease` to themselves.

### QueueAdmission

One box, one workspace. `create_run`, `claim_run`, `block_if_idle`, `close_batch` and
`close_drained_batch` are split at the row locks they wait for; a statement that waits
for nothing is joined to the next. The locks are derived from the transactions in
flight:

| lock | held by | predicate |
|---|---|---|
| item, FOR UPDATE | `create_run`, `block_if_idle` | `ItemLocked` |
| batch, FOR SHARE / FOR UPDATE | `create_run` / the two closes | `ShareHeld` / `BatchLocked` |
| run, FOR UPDATE | `claim_run` | `RunLocked` |
| box, FOR UPDATE / FOR KEY SHARE | `claim_run` / a row inserted that names the box | `BoxLocked` / `BoxShared` |

The queue runner's `admit` is a program counter with one read or write a step
(`prune` ... `draining`); it works from what it read (`seen`, `order`, `free`) while
users, walks and other runners move the store. A run's scope is any of `Scopes`, and
overlap is `RunScope!Overlaps`. Walks are the moves of the status they make.

Abstracted: the order of admission (any order, so `move_queue_entry` has no
action), the spend gate (`Refusals`: any entry may be stopped), which tags are
missing (`Refusals`), the links between items, chat runs, and which process executes
a claim (a claim in flight belongs to its run).

### StepWalk

One run, its graph and its rows. The engine reads the rows, decides, and writes its
decision one row at a time. `todo` is a stack of instructions: at its head what the lease's
holder does now, under it what it goes back to.

| model | code |
|---|---|
| an instruction at the head of `todo` | a handler at its next store write, session or decision: what it has read is in the instruction |
| an action (`Accepts`, `Retires`, ...) | that write, with the instruction that comes next (`Then`), a return to the caller (`Over`) or a return of the walk (`Ends`) |
| `Pass` at the bottom | the loop of `run_to_rest` |
| `Retire`, `Create`, `Refuse`, `land`, `cancels` | loops over rows: the rows left to do are in the instruction, and one is written a step |
| `Drops` | the walk's future dropped, or its process gone, between two writes: `todo` is lost |
| `asked[h]` | a person's command whose guard (`command.rs`) was read and whose lease is not taken yet |
| `Takes` | `take_lease`; the command is then carried out as it was decided |
| `tails` | `Tails::Walk` or `Tails::HandBack` (`engine.rs:425`) |

A row's key is its position, attempt and fan-out index (the judge's is -1). `Cursor` is
`status.rs`'s cursor, read off the rows; `Frontier` is `recover.rs`'s. A session's outcome is one of
`Works`, read as the gate reads it. One `todo` is enough because a lease has one holder: that is what
`OneWalk` of `RunLease` proves.

Four variables are history, and only the properties read them. `old` and `late`: a command's guard was overtaken by
another's writes, and the command was carried out all the same. `torn`: a walk was stopped inside a rejection's
retirement. `blind`: a walk was taken up in a state whose merge `Frontier` cannot see (section 6).

`PhaseRun` is what the walk promises whoever looks at the run as a whole: one phase is tried at a time, the one after those
passed, an attempt each; it is passed once tried; the run goes back only from a review, to the phase it judges and only while
that one's attempts are within its limit; and it is done only with every phase passed. The refinement (`Phased`) reads all of it off
the rows: the attempts are the latest of each phase (`Last`), and the phases passed are those before the first that has no winner
whose trees are merged (`Passed`). Groups, gates, recoveries, retries and commands are stutters of it or tries. Once `late`, `torn` or
`blind` the run is astray and nothing is promised.

### RunRelay

One run, the sessions of its steps, the processes that may execute it. The transactions of `pg/relay.rs` are
split where another can come between: an enqueue into its snapshot, its insert under `FOR SHARE`, its commit;
a close into the statement that locks the window and the one that refuses what it holds. `job` is what a process
does on the run (`walk`, the clean-ups `drop`, `dropping`, `stale`, the hand-back `release`, the `cancel`), `at`
how far a session of it is in `drive()`. The lease is that of RunLease without its clocks: `live` may turn FALSE
whenever RunLease lets a lease lapse.

### CommandQueue

The rows of one box and class, a call of `command_run` each. `claim_command` is one transaction of several statements:
it locks its row and beats it, waits for the pair's advisory lock, reaps, judges and commits, a step each.
`fresh` says that the last beat is younger than `COMMAND_STALE_AFTER`; time is `GoesStale`. `SlotPool` is what the queue
promises: a job takes a slot once, only while fewer than its limit are held, and leaves for good. The refinement maps
waiting, holding and over to the queued, running and ended rows.

## 3. The runs

Each passing run explores its instance completely. TLC evaluates the assumptions on
the constants in each.

| run | instance | shows |
|---|---|---|
| `lease_handover` | 2 executors, 1 run, TTL 3, Refresh 1; one may crash and one is commanded, calls may fail | `OneWalk`, `LeaseInv`, `ClockIsSafe`, `OnlyOwnerRests` |
| `lease_attended` | 2 executors, one of which may crash, no faults, fairness | `Tended`, `Attended` |
| `lease_is_lock` | an executor and a commander, workspace stop, faults, suspended clocks and backed-off resumes | `IsLeaseLock` |
| `queue_ticks` | 1 runner, 2 items, 1 batch, 2 runs, 1 slot, scopes that do not overlap unless equal; refusals, workspace stop | `OncePerBatch`, `SlotsByClaim`, `NoOverlap` |
| `queue_races` | 2 runners and 1 user, 1 item, 1 batch, 2 runs, 1 slot; refusals | `OneLiveRun`, `PausedIsEmpty`, `DrainedIsDone`, `SomeoneProceeds` |
| `queue_live` | 1 runner, 2 items, 1 batch, 2 runs, 1 slot, every two runs overlap; refusals, fairness | `Drains`, `Claimed` |
| `step_walk` | 6 graphs of one to three phases, both kinds of box, 2 people; 2 events of: a command, a cancel, one dropped walk; fairness | `Whole`, `OneWinner`, `OneFront`, `EndedIsSettled`, `Budgeted`, `Rests`, `IsPhaseRun` |
| `relay_rows` | 2 processes, 1 session, 1 follow-up; calls fail, refreshes are late | `ClosedIsQuiet`, `RefusedIsNotSent` |
| `relay_settles` | 2 processes, one of which may crash, 1 session, 1 follow-up, a cancel; fairness | `OverIsQuiet`, `Settles`, `Cancelled` |
| `relay_asks` | 2 processes, one of which may crash, a session and a judge that ask | `GhostsWereLent`, `AskingIsKept` |
| `command_slots` | 3 calls with limits 2, 0 and 1; crashes, drops, lost answers; fairness | `SlotsHold`, `ChildInSlot`, `AnswerIsRow`, `EndsOnce`, `IsSlotPool`, `Served` |

The run `step_retire` checks one statement of the repository that the code does not keep (section 6).

**Why these bounds.** *Leases.* The processes of one run interact only through its
row, and those of different runs only through the sweep's list, which takes one run
at a time; two processes are enough for every handover (old owner, new owner), and a
third can only repeat one of them. `3 * Refresh <= TTL` is the code's own rule
(`LeaseTimes`); TTL 3 is the least at which a lease can be refreshed, fenced and lapse
at three different instants. `Lag` 0 is the sharpest timer; the theorems cover any
`Lag` below `Refresh`. *Queue.* A race over an item needs two creators and two runs; a
race over a batch needs the one it closes (a batch that follows is another row that no
transaction of the first one touches); a cycle of locks needs one creator and one claim; a slot needs a run that has it and one that wants it.
`MaxRuns` bounds the runs ever created and `Batches` the batches; at the bound
creation is disabled, which `Drains` names (`Spare`).
*Step walk.* A phase's neighbours are what its cursor can see, so two phases, and a third between a review
and its target, give every cursor; two candidates are a winner and a loser; two people with a command each
are the race, and a command and a drop the crash of a command's walk. `MaxEvents` bounds commands, drops and the cancel
together, `MaxDrops` the drops. All fifteen graphs of two phases (every pair of gates with a review; every gate with a group, judged or not)
were explored once under the same bounds without the liveness property: 3.6 million states, no violation.
*Relay.* A session's rows are its own, and a step has one follow-up pending at most, so one shows every race over a row (the theorems have any number); a second process is any other.
*Commands.* The limits 2, 0 and 1 are several slots, the zero that reads as one, and callers whose settings differ; the third
call is the one that waits behind two.
Deadlock checking is off, but in `command_slots`: a model whose users owe nothing may rest, and one whose runs
are used up does.

**Symmetry** is used for safety only: items and batches in the queue's runs.

**Fairness, and why the code justifies it.** *Leases:* weak fairness of time, of the
sweep (a timer in the executing process, `spawn_sweep`), of a resume that waits for the
lock and of a task whose call is answered; strong fairness of a take that is answered
within its lease, that is, the store is not slower than a lease for ever. Only
processes outside `Mortal` have it. Walks, commands and crashes have none. *Queue:* weak
fairness of the runner, of every claim (the sweep's claim scan lists every queued run
at every tick), of a creator's transaction and of a pause once begun. Postgres queues
lock waiters, so a transaction whose wait ends proceeds. The user and the walks have none;
`Drains` is claimed from when the user stops and no tick falters any more (`Falters`: an enqueue refused or lost
without a trace, a failed read), `Claimed` from when no transaction fails any more (`Aborts`): nothing in the code bounds either. *Step walk:* weak fairness of the holder's next step
(its process is scheduled and sessions have deadlines), of the sweep and of the poll for a cancel; people and
drops have none. The first is written out (`FairSpec`), which is the same since the holder has a step exactly while `todo` is not empty.
*Relay:* weak fairness of every call's return, of the end of a turn (a step has a deadline), of sweeps
and polls and of the lapse of a lease nobody renews; strong fairness of taking up a cancel, since a poll comes round several
times within a lease. A process in `Mortal` may crash all the same. *Commands:* weak fairness of each
statement, of a child's end (its timeout), of the ask a waiter repeats each second and of time for a row
nobody beats; strong fairness of the pair's lock, which Postgres grants in the order it is asked for.

**What the less obvious properties say.**

- `LeaseInv` is the reason for `OneWalk`. The process's clock understates the
  store's: the lease a walk counts on was sent before it was stamped, and a refresh in
  flight was sent later still.
- `Tended`: while a live process's name is on a running run, a task of it works on the
  run, or will, or the run is among its dead walks. A process's own sweep never adopts
  its own runs, so a run that falls out of these is stuck until the process ends.
- `PausedIsEmpty` and `DrainedIsDone`: the two closes must wait for admissions in flight
  *before* they look. The mutants that drop the wait show it is the lock that does it.
- `SomeoneProceeds`: a claim that finds tags missing writes the item under the box's
  lock, while `create_run` locks the item and then shares the box: opposite orders. They
  never meet only because the claimed run is live and so its item's creators and blockers
  are refused before they ask for the box. The mutant that drops that check deadlocks.
- `OncePerBatch` holds for one runner, although its reads are not a snapshot: ready
  items are read before the cancelled ones, and a run only this runner creates under the
  batch cannot appear in between.
- `Drains` needs its second premise. An enqueue that is refused without a change of state never closes the batch (section 6), so an entry
  that is refused at every tick keeps it open with nothing live. What the premise leaves in are the spend gate, the notes that block an
  item, claims that fail for missing tags or abort, and refusals and faults for as long as they last. The mutant closes only an empty queue.
- `Claimed`: a claim refused once is made again by a later sweep, and its wait for the box's lock ends although other claims and
  admissions take that lock in turns. In the mutant the candidate takes a slot from itself.
- `SlotsByClaim` counts the runs running since their claim; of all running runs it does not hold (section 6).
- `Whole`: reconciling the trees is a write of its own after the row's. A walk dropped in between, a park over a conflict
  or a person's pick leaves it owed, and only `Frontier` says so to whoever comes next. The mutant, which counts retired
  rows as later steps, loses a merge after a rejected review. It is claimed while no walk was `torn` or `blind`: section 6 has the traces.
- `Whole`, `OneFront`, `EndedIsSettled`, `Budgeted` and `IsPhaseRun` are claimed until a command is carried out whose guard another
  command has overtaken (`late`), unless its first write is a compare-and-set on the row that waits: those are safe. Section 6 says what
  the others do. All but `Budgeted` are claimed while no walk was stopped inside a rejection's retirement (`torn`).
- `Rests` needs `Rederives`: a park writes its step before its run in the automatic rejection, and a walk dropped there leaves
  a running run on which no walk can move.
- `GhostsWereLent`: a permission that is listed has a session behind it that hears the answer, or a clean-up that takes it off is owed;
  but for a run whose lease another process had in between.
- `ClosedIsQuiet`: an enqueue whose snapshot saw the window open may insert after the close began; the share lock and the
  close's second snapshot are what catches it, and the mutant without the lock loses the follow-up.
- `ChildInSlot`: a child may outlive its slot only when its row was reaped for a late beat. `AnswerIsRow` and `EndsOnce` are
  about the three that may end one row: its call, the guard's cancel and another call's reap.

Every property of a passing run has a mutant: a named slip of the code (in the module,
above the definition it would replace) under which TLC finds the property violated.

## 4. The theorems

`RunLeaseProofs`, checked by TLAPS for any processes, runs and lease times with
`Lag < Refresh` and `3 * Refresh <= TTL`:

| theorem | assumes | states |
|---|---|---|
| `TypeCorrect` | | `Spec => []TypeOK` |
| `LeaseInvHolds` | no suspended host, no process that backs off | `Spec => []LeaseInv` |
| `ClockSafety` | the same | `Spec => []ClockIsSafe` |
| `MutualExclusion` | the same | `Spec => []OneWalk` |
| `RestsUnderLease` | the same | `Spec => OnlyOwnerRests` |
| `LeasesAreLocks` | | `Spec => IsLeaseLock` |
| `RunsAreTended` | `Benign`: no fault, no suspended host, no process that backs off, no command | `Spec => []Tended` |

*The argument.* `OneWalk` is not inductive: a walk is alone because its clock says its
lease has time left, and so the store's row names it. That is `ClockIsSafe`, which is
not inductive either, since a refresh in flight may change both sides: `LeaseInv` adds
that only a walk beats, that what the refresh will leave by the process's clock is at
least what it counts on now, that a row the store has refreshed has at least that, that
a queued run has no owner (a claim overwrites the lease without looking), and that no release is under way
without the run's lock. The proof looks at each process and run apart (`PairInv`): an
action changes its own pair, which is looked at action by action; every other pair
follows from what a store statement may do to a row that another process owns with time left
(`RowKeeps`): nothing. The assumptions are needed:
section 6 has the counterexample with a process that backs off, and a host suspended past its
lease comes back to walk a run that another process has adopted. Faults, crashes, late refreshes,
preempts and stops are all within the theorem.

`LeasesAreLocks` needs neither, since it speaks of the store alone: every action makes one
of the store's statements or none (`StoreStep`), and each is a step of `LeaseLock` or leaves its
variables unchanged, given that a queued run is nobody's.

`RunsAreTended` looks at the pairs of a process and a run once more. `TendedInv` adds to `Tended` the stages whose task may end without a
release (`Ending`): there the run is not running under the process's name, unless it is noted for a sweep or a resume; and that no refresh meets a
stranger's lease. A resume whose take fails falls out of it (section 6), which is why `Benign` leaves faults out.

`QueueAdmissionProofs`, for any items, runs, batches, scopes and limit, and for any number of
runners and users at once; the only assumption is the module's `AdmissionAssumption`, but for `AdmittedOnce`:

| theorem | states |
|---|---|
| `AdmissionInvHolds` | `Spec => []AdmissionInv`, the inductive invariant |
| `AdmissionTypes` | `Spec => []TypeOK` |
| `OneRunAnItem` | `Spec => []OneLiveRun` |
| `TreesApart` | `Spec => []NoOverlap` |
| `SlotsFit` | `Spec => []SlotsByClaim` |
| `PauseEmpties` | `Spec => []PausedIsEmpty` |
| `DrainIsFinal` | `Spec => []DrainedIsDone` |
| `NobodyDeadlocks` | `Spec => []SomeoneProceeds` |
| `AdmittedOnce` | `OneRunner`: `Spec => []OncePerBatch` |

*The argument.* None of these is inductive, since each transaction acts on what it read some
steps ago; `AdmissionInv` adds what the row locks keep true in between. `ItemInv`: the
item's lock has one holder, and the item it found idle is idle until it commits.
`BatchInv`: a batch being joined or closed is open, has one closer, and is not joined while
it is closed. `ClaimInv`: the run being claimed is queued, one claim has the box, and nothing it
found clear of overlaps overlaps yet, for runs come to hold trees by a claim alone (and overlap
does not ask which run came first). `SlotInv`: a slot free at the verdict is free at the commit, for
an answered gate's run has been parked and so is not counted. `CreatingInv`: a runner creates
only with a slot left, so its count stays a natural number. The proof first reduces every
step to what it does to runs, batches and transactions (`CoreStep`, `EveryStep`), then
looks at each part of the invariant under each kind of step. The runner's reads occur nowhere in it:
these theorems rest on the store's locks, not on what a runner believes.

`NobodyDeadlocks`: of the claims one has the box, and that claim never waits for the item it may fail on, since its run is live and
whoever gets that item's lock is refused before it asks for another row (`ItemInv`). So the holder of the box or, if there is none, any creator or
close proceeds (`LocksUntangle`). `AdmittedOnce` is about the reads: `FreshInv` says that an item which the runner may still admit has no run of
the batch yet, from the read of the cancelled runs to the commit, because only a runner creates runs under a batch (`OthersStepAside`). With a
second runner it fails, as section 6 says.

`CommandQueueProofs`, for any finite set of calls and any limits:

| theorem | states |
|---|---|
| `QueueInvHolds` | `Spec => []QueueInv`, the inductive invariant |
| `QueueTypes` | `Spec => []TypeOK` |
| `SlotsAreHeld` | `Spec => []SlotsHold` |
| `ChildrenInSlots` | `Spec => []ChildInSlot` |
| `AnswersAreRows` | `Spec => []AnswerIsRow` |
| `EndsAreFinal` | `Spec => EndsOnce` |
| `QueueIsSlotPool` | `Spec => IsSlotPool`, the refinement |

*The argument.* A claim counts the running rows in one statement and admits in another. What makes the count still true at the
commit is that only a claim admits, that one claim at a time is past the pair's lock, and that the rows it has reaped stay locked until
it commits; in between rows only end, so the count can only shrink. `QueueInv` states each for the stages of the claim.

`RunRelayProofs`, for any processes, sessions and follow-ups; `Calm` is that no store call fails, crashes and late refreshes included all the same:

| theorem | assumes | states |
|---|---|---|
| `RelayTypes` | | `Spec => []TypeOK` |
| `CloseIsFinal` | | `Spec => []ClosedIsQuiet` |
| `RefusalIsFinal` | | `Spec => RefusedIsNotSent` |
| `AsksAreKept` | `Calm` | `Spec => AskingIsKept` |
| `OverRunsAreQuiet` | `Calm` | `Spec => []OverIsQuiet` |
| `GhostsAreLent` | `Calm` | `Spec => []GhostsWereLent` |

*The argument.* `ClosedIsQuiet` is inductive with the two facts the locks keep: an enqueue that has inserted keeps its window open and
out of reach of any close (`SharedInv`), and a window is opened once (`WindowInv`). For `RefusedIsNotSent`, a row not applied has never been
sent (`SentInv`).
The other three rest on `CalmInv`: while no call fails, a process that cleans up before it goes on, or cancels, keeps its lease (`LeaseKept`), so the requests it
lists are its own sessions', none of which is driven; and a run that ended stays its last owner's until its windows are closed and emptied
(`OverInv`). `GhostInv` says what covers a request whose session is gone: its process has the lease and a clean-up before it, or has given the lease
back with the run running, so that the next owner is an adopter, which cleans up or is another process.

`StepWalkProofs`, for any graphs the resolver lets through, any number of people, commands, crashes and cancels, late commands and
torn retirements included:

| theorem | states |
|---|---|
| `ShapeHolds` | `Spec => []ShapeInv`, the inductive invariant |
| `TypeHolds` | `Spec => []TypeOK` |
| `OneWinnerHolds` | `Spec => []OneWinner` |

*The argument.* A step of the walk is safe to take only because of what an earlier step put into its instruction, perhaps long before and with
another command in between. `ShapeInv` says what each instruction may be about (`TodoInv`: a row that exists, a slot the graph has, a status a
write can be decided on) and what it may have under it in the stack; the same of the commands on their way; and that the rows are such as
`create_step` makes. Every action is then looked at through the three forms its end may take (`Then`, `Over`, `Ends`), and what each may do to the rows
(`MovesKeep`, `RowWritten`, `RowCreated`). `OneWinner` needs, beside, that no judge is selected: a selection takes the mark from every candidate of
its group, so that two selections of one group in a row leave one, whatever was read before the second.

`StepFrontProofs`, under the same assumptions, for what no overtaken command (`late`) and no torn retirement (`torn`) came before:

| theorem | states |
|---|---|
| `FrontHolds` | `Spec => []FrontInv`, the inductive invariant |
| `OneFrontHolds` | `Spec => []OneFront` |
| `EndedIsSettledHolds` | `Spec => []EndedIsSettled` |

*The argument.* Neither property is inductive: whether a write starts a second front depends on what was decided some writes before. `FrontInv`
has two halves. `RowsAt` says what the rows look like between any two writes: an overtaken attempt is settled (`OldRows`); beyond the first
position nobody won everything is gone (`Beyond`); a position that was won has nothing in flight (`WonIsIdle`); a judge's row is there only
with all candidates settled (`Judged`); a parked run has nothing running and an ended one nothing in flight (`RunIsQuiet`). `Pre` says of each
instruction what the rows are when its turn comes: an `admit`, say, that its position is the front, that it asks for the attempt after the latest,
and that nothing is in flight. Each action is shown to leave the rows so and its successor's `Pre` true (`StepGoes`, `GroupGoes`, `ServesGoes`). The one
exception to `Beyond` is the set a rejection is still retiring (`Retiring`), and this is where a walk cut short would tear it: a new walk would
start from rows that are not `RowsAt({})`. A command on its way has a `Pre` too (`AskedFresh`), claimed while nothing overtook it; for one that starts with a
compare-and-set none is needed, which is the difference between the guarded and the other plans. The proof of `EndedIsSettled` is then `RunIsQuiet`;
of `OneFront`, that rows in flight are at a position which is both the first open one and of its latest attempt (`InFlightIsFront`, `OneFrontOnly`).

`StepBudgetProofs`, under the same assumptions, torn retirements included, for what no overtaken command (`late`) and no cancel came before:

| theorem | states |
|---|---|
| `BudgetHolds` | `Spec => []BudgetInv`, the inductive invariant |
| `BudgetedHolds` | `Spec => []Budgeted` |

*The argument.* `may_attempt` is asked at one place and the attempt created some writes later, perhaps by another walk. `BudgetInv` says of each
phase outside the review loops (`Within`) that it is within its budget, that it has room for one more attempt where all rows of the latest are gone,
which is where a cursor would admit one, or where one of them has a note, which lets recovery or a person admit one without asking; and that no
overtaken candidate is in flight. `Need` says of each instruction that leads to an attempt that the room is there when its turn comes: an `admit` or a
`create` asks for an attempt within the budget, a `readmit` finds room and the latest attempt at rest, a retirement retires nothing in flight that its
attempt would not replace. Most steps bring no row into flight and take no note away, so that budgets only grow (`Narrows`, `Spares`); creating a row is the
only one that moves the latest attempt, and is looked at by itself. A retry on its way keeps its need whatever overtakes it (`RetryNeed`), as it begins with a
compare-and-set on the row. The proof does without the front: a torn retirement spends no attempt.

`StepWholeProofs`, under the same assumptions, for what no overtaken command (`late`), no torn retirement (`torn`) and no frontier that failed to tell
(`blind`, section 6) came before:

| theorem | states |
|---|---|
| `WholeInvHolds` | `Spec => []WholeInv`, the inductive invariant |
| `WholeHolds` | `Spec => []Whole` |
| `WalkIsPhaseRun` | `Spec => IsPhaseRun`, the refinement |

*The merges.* A merge is owed from the write of its winner until the write of its trees, and meanwhile the walk may park, be dropped, be picked from or
be resumed by somebody who knows the rows alone. `Owing` says what the rows then look like: the winner is the last there is, every row of a latest attempt
behind it is gone and no group behind it was left without a choice. That is what lets `Frontier` name it (`FrontierTells`), but for the rows `Overlooks`
describes, which `blind` records. `WholeNeed` says of each instruction which of two things it may count on: either no merge is owed (`Clean`), or it makes
the one that is (`MergeNeed`), leads to it, or ends the walk (`Dirty`). So a `create`, an `admit` or a candidate's end find nothing owed, which is the second
half of `Whole`; and a `finish` of a done run finds all phases merged, which is the first. Whoever serves a command on a worker's box merges nothing and leaves
it to the next sweep: there nothing may stand in the stack under the writes that bring it about (`HandsBack`), and a resume on its way finds the run waiting
(`ResumeNeed`). A row in flight is at the front, as `FrontInv` has it, and the phase at the front has no winner, so that `Clean` follows wherever a row
runs (`FlightIsClean`); most steps win nothing and undo no merge, and are looked at through that alone (`WinsNone`).

*The phases.* `PhaseMoves` says what a step may do to the phases passed and the attempts: leave both, pass one phase (a merge), try the one that is open
once more (a created row), or go back. A retirement takes many writes and the run goes back with one of them: its rows are gone through from the
target up, so the first takes the winner of the target itself, and `Passed` falls to the phase before it; with any other order the run would pass back through
the phases between, which is what the mutant of `IsPhaseRun` shows. That a retirement begins so, and that only a review or a judge rejects, no step knows by
itself: `PhaseNeed` says it of the instruction whose turn it is, and that a `create` asks for the attempt after the latest at
most; `PhaseInv` is that and that only reviews have rejecting work (`Reviews`). It is inductive beside `ShapeInv`, `FrontInv`, `OneWinner` and `WholeInv`. That the phase before the merged one is passed when a merge lands is `WholeInv` (what owes a merge is
the last winner), and that the run is tried at the open phase alone is `Clean` with the front.

With it every safety property a passing run checks is a theorem; `TypeOK` of `StepWalk` is one that no run repeats. **Only model-checked:** the liveness properties `Attended`,
`Drains`, `Claimed`, `Rests`, `Settles`, `Cancelled` and `Served`, which are outside the prover's reach.

## 5. What is not modelled

- **Writes in flight when their walk is dropped.** `RunLease` lets a walk's rest land with the step that decides it and
  `StepWalk` drops a walk between two writes; a write that lands after its walk was dropped (`runtime.rs:783`) is in neither.
- **Of the step walk:** answers to a judge's row, `promote` and `accept_artifact`, the parks for a missing topology or a
  tampered tree, the refusal of a group whose retired rows name no single base (`GroupBase`, `engine.rs:4122`), which leaves a run running at its fan, `stop`, `close_out`, the cap on the iterations of one walk; a review with a fan-out, which the resolver refuses.
- **Of the queue:** the set in which a process keeps the runs whose claim it was refused (`claim_queued`), tried again when one of its
  walks rests, and the sweep that skips its claim scan while repositories have moved under a live walk. The retry of a claim is the weak
  fairness of `ClaimStep`, which stands for the scan of every sweep (`runtime.rs:2146`).
- **Of the leases:** `Tended` and `Attended` are checked, and `Tended` proved, without commands and faults, so a sweep that finds the lock of a lapsed run
  held by a command of its own process is exercised in `lease_handover` alone.
- **`stop_run`** has no caller in the program; **`record_command_run`** inserts rows that have already ended.
- **Isolation**: git and file-system plumbing; its guards follow the stages of a run.
- **Sessions, MCP host, prompts, search, UI, provisioning, secrets**: I/O with other programs
  or pure functions of rows; they keep no state two processes contend for.
- **Several boxes.** Leases, slots, overlap and the queue are per box; a run is bound to
  the box that claimed it.

## 6. Where the code and its documents differ

`step_retire` ends with a counterexample to the comment at `recover.rs:361`, that a live row after the last winner means there is nothing left
to merge. `retire_slot` (`gate.rs:1001`) retires the latest attempt of a slot alone. A review that failed and was attempted again leaves its failed row
for good; when the second review rejects and the next attempt of the implementation is done, a walk dropped before the merge leaves it to the
sweep, and the sweep's `frontier` (`recover.rs:365`) stops at the failed review. Nothing is merged, the third review judges trees without the
attempt, and the run ends done. `Whole` makes an exception for it (`blind`).

Met while modelling, with traces of the models at other bounds or with the property named, but not kept as runs:

- *A resume* whose `take_lease` fails returns with the run's lease still in its process's name and the run not noted as
  a dead walk (`engine.rs:3174`); no later sweep of that process adopts it (`Attended` with `Faulty`).
- *An entry whose enqueue is refused without a change of state* (its graph does not resolve, say) is judged admissible again at every
  tick, and a refusal never closes the batch (`runtime.rs:2172`): the batch stays open with nothing live until the cause changes, for a later
  entry to spend in. `model/queue.rs:353` names it as a known limit. `Drains` with `EnqueueSkips` taken out of `Falters` has the trace.
- *A command's window*, between its take and its walk, has no heartbeat; if it outlasts the lease, the command moves a run
  another process has adopted, since the writes compare the status alone. `docs/htui-worker.md:93-95` says the second process's writes are refused.
- *A resume cancelled while it backs off* gives the lease back without the run's lock, under the command that has just taken both
  (`runtime.rs:2601`, against the comment at `runtime.rs:658`): `OneWalk` with a process in `BacksOff`.
- *Two processes ticking one box* admit an item again under the batch whose run the user cancelled (`OncePerBatch` with two
  runners); `pg/read.rs:2648` says a cancel sticks.
- *An answered gate* moves its run to running whatever runs beside it, so more runs than the box's limit run;
  `docs/REQUIREMENTS.md:554` says up to the limit.
- *A permission listed without a session:* while another process has the lease, its renewal may fail and the first process, whose walk
  is gone, takes it back; its old request is listed again. `GhostsWereLent` excepts it.
- *A clean-up that comes late* lists the requests of whoever owns the lease by then and stales those (`engine.rs:2303`) if calls failed
  on the way; and a process that dies between ending a run and closing its windows leaves follow-ups nobody settles: `Settles` excepts it.
- *Commands that were overtaken* (`late`). A retry of a failed step has no compare-and-set: it readmits beyond the budget, or
  beside what another command started. A resume that finds the run running walks on without the merge that is owed, against the comment at
  `engine.rs:3352`. A pick selects again and unparks a run that was parked elsewhere. A retry of a group still retires the slot a pick
  has settled, and the run goes back behind phases it has done.
- *A rejection's retirement cut short* (`torn`). `retire` (`gate.rs:988`) goes from the loop's target up to the review, a write each, and the review comes
  last; `recover.rs:359` says the retirement comes before the target's next attempt. A walk dropped after the first write leaves the rejected review standing
  while the cursor creates that attempt; when it is done the walk comes to rest on the old rejection and loops back, or escalates, on a review that never saw it. If a
  person retries the old review instead, its next attempt and the implementation's are in flight together (`OneFront`), and a run may end over one that waits
  (`EndedIsSettled`).
- *A cancel dropped midway* leaves cancelled rows under a running run until it is taken up again; the cursor may meanwhile
  create them anew beyond the budget.

## 7. The plan

Done, in this order: RunLease and LeaseLock; QueueAdmission and RunScope; CommandQueue and SlotPool; RunRelay; StepWalk and PhaseRun.
Next, most important first:

1. **LeasedWalk**: RunLease's handover composed with StepWalk's writes, for which the fenced writes of a dropped walk (`finish_step`,
   `park_step`) are refused and the others may land late.
2. **StepWalk**: promotion and the artifact's acceptance, a write at a time.
3. **Isolation's guards**: the shared-tree guard per repository, taken and released by step rows and by the run's clean-up.
