------------------------------ MODULE RunLease ------------------------------
(***************************************************************************)
(* The lease of a run: which process of a box may walk it.                 *)
(*                                                                         *)
(* The row (status, lease_owner, lease_expires_at) is in Postgres and is   *)
(* moved by claim_run, take_lease, refresh_lease, adopt_runs and           *)
(* release_lease (crates/htui-store/src/pg/write.rs).  Each process of the *)
(* box has an engine (crates/htui-orch/src/engine.rs) whose walks race a   *)
(* heartbeat (crates/htui-orch/src/recover.rs), and a runtime              *)
(* (crates/htui-worker/src/runtime.rs) that serialises the tasks of a run  *)
(* by a lock per run and sweeps the runs nobody walks.                     *)
(*                                                                         *)
(* Time is modelled by countdowns: `lease` by the store's clock, `rem` and *)
(* `beatRem` by the process's monotonic clock.  A call's answer span is    *)
(* counted from the instant the call was SENT, so time may pass before the *)
(* store stamps its own.                                                   *)
(***************************************************************************)
EXTENDS Naturals, RunStatus

CONSTANTS
  Procs,      \* process incarnations on the box: a restart is a new owner uuid
  Runs,       \* graph runs targeted at the box, all of one workspace
  Nobody,     \* lease_owner NULL
  TTL,        \* LeaseTimes::ttl
  Refresh,    \* LeaseTimes::refresh: the margin between the self-fence and the lapse
  Lag,        \* how late a process's timer may fire
  Executors,  \* the processes whose role executes on the box (rule I-1)
  Commanders, \* the processes a user's verbs reach
  Mortal,     \* the processes that may crash
  Suspends,   \* whether the host may be suspended: its monotonic clock stalls
  BacksOff,   \* the processes that delay a resume that keeps failing (Role::Worker)
  Stops,      \* whether the workspace may be stopped
  Faulty      \* whether a store call may answer an error, its write landed or not

ASSUME TimesAssumption ==
  /\ TTL \in Nat /\ Refresh \in Nat /\ Lag \in Nat
  /\ Lag < Refresh /\ 3 * Refresh <= TTL
ASSUME ProcsAssumption ==
  /\ Nobody \notin Procs
  /\ Executors \subseteq Procs /\ Commanders \subseteq Procs /\ Mortal \subseteq Procs
  /\ BacksOff \subseteq Procs
  /\ Suspends \in BOOLEAN /\ Stops \in BOOLEAN /\ Faulty \in BOOLEAN

VARIABLES
  status, owner, lease,   \* the run rows; lease = 0 is a NULL or lapsed expiry
  stopped,                \* the workspace_stop row exists
  up,                     \* the processes alive
  stage, kind,            \* the task holding a process's lock of a run, and whose it is
  rem,                    \* time left, by the process's clock, of the lease it last wrote
  beat, beatRem,          \* the refresh in flight, and what it will leave if it lands
  late,                   \* refreshes dropped by their process that may still land
  dead,                   \* DeadWalks
  todo,                   \* the adopted runs the sweep has not reached
  resumes, loose          \* resumes waiting for the lock; releases sent without the lock

db == <<status, owner, lease, stopped>>
heart == <<rem, beat, beatRem>>
vars == <<status, owner, lease, stopped, up, stage, kind, rem, beat, beatRem, late,
          dead, todo, resumes, loose>>

Stages == {"free", "claiming", "taking", "window", "walk", "reread",
           "cancelled", "abandoning", "releasing"}
Kinds == {"none", "claim", "resume", "command", "sweep", "dropped"}
Beats == {"asleep", "sent", "yes", "no"}

TypeOK ==
  /\ status \in [Runs -> RunStatuses]
  /\ owner \in [Runs -> Procs \cup {Nobody}]
  /\ lease \in [Runs -> 0..TTL]
  /\ stopped \in BOOLEAN
  /\ up \subseteq Procs
  /\ stage \in [Procs -> [Runs -> Stages]]
  /\ kind \in [Procs -> [Runs -> Kinds]]
  /\ rem \in [Procs -> [Runs -> 0..TTL]]
  /\ beat \in [Procs -> [Runs -> Beats]]
  /\ beatRem \in [Procs -> [Runs -> 0..TTL]]
  /\ late \in [Procs -> SUBSET Runs]
  /\ dead \in [Procs -> SUBSET Runs]
  /\ todo \in [Procs -> SUBSET Runs]
  /\ resumes \in [Procs -> SUBSET Runs]
  /\ loose \in [Procs -> SUBSET Runs]

Init ==
  /\ status = [r \in Runs |-> "queued"]
  /\ owner = [r \in Runs |-> Nobody]
  /\ lease = [r \in Runs |-> 0]
  /\ stopped = FALSE
  /\ up = Procs
  /\ stage = [p \in Procs |-> [r \in Runs |-> "free"]]
  /\ kind = [p \in Procs |-> [r \in Runs |-> "none"]]
  /\ rem = [p \in Procs |-> [r \in Runs |-> 0]]
  /\ beat = [p \in Procs |-> [r \in Runs |-> "asleep"]]
  /\ beatRem = [p \in Procs |-> [r \in Runs |-> 0]]
  /\ late = [p \in Procs |-> {}]
  /\ dead = [p \in Procs |-> {}]
  /\ todo = [p \in Procs |-> {}]
  /\ resumes = [p \in Procs |-> {}]
  /\ loose = [p \in Procs |-> {}]

-----------------------------------------------------------------------------
(***************************************************************************)
(* The store's lease writes, each one statement or one transaction.        *)
(***************************************************************************)

Leasable == {"running", "awaiting"}

\* Slips in the store's statements, which the properties catch: a live lease taken, and
\* one prolonged from its expiry instead of from now.
TakeableLive(p, r) == status[r] \in Leasable
RefreshProlongs(p, r) ==
  /\ lease' = IF owner[r] = p THEN [lease EXCEPT ![r] = @ + TTL] ELSE lease
  /\ UNCHANGED <<status, owner, stopped>>

\* take_lease's predicate; every process here is on the run's executing box.
Takeable(p, r) ==
  /\ status[r] \in Leasable
  /\ owner[r] \in {p, Nobody} \/ lease[r] = 0

WriteLease(p, r) ==
  /\ owner' = [owner EXCEPT ![r] = p]
  /\ lease' = [lease EXCEPT ![r] = TTL]

\* take_lease, refresh_lease and release_lease as their statement lands: a no-op when
\* the predicate matches no row.
TakeLands(p, r) ==
  /\ IF Takeable(p, r) THEN WriteLease(p, r) ELSE UNCHANGED <<owner, lease>>
  /\ UNCHANGED <<status, stopped>>
RefreshLands(p, r) ==
  /\ lease' = IF owner[r] = p THEN [lease EXCEPT ![r] = TTL] ELSE lease
  /\ UNCHANGED <<status, owner, stopped>>
ReleaseLands(p, r) ==
  /\ IF owner[r] = p
     THEN /\ owner' = [owner EXCEPT ![r] = Nobody]
          /\ lease' = [lease EXCEPT ![r] = 0]
     ELSE UNCHANGED <<owner, lease>>
  /\ UNCHANGED <<status, stopped>>

MoveRun(r, to) ==
  /\ RunCanMove(status[r], to)
  /\ status' = [status EXCEPT ![r] = to]
  /\ UNCHANGED <<owner, lease, stopped>>

-----------------------------------------------------------------------------
(***************************************************************************)
(* A task of process p on run r: it holds p's lock of r from here to the   *)
(* stage "free".                                                           *)
(***************************************************************************)

Enter(p, r, s, k) ==
  /\ p \in up /\ stage[p][r] = "free"
  /\ stage' = [stage EXCEPT ![p][r] = s]
  /\ kind' = [kind EXCEPT ![p][r] = k]

\* The clock of a lease is of no use to the task once it neither holds a window nor walks.
Go(p, r, s) ==
  /\ stage' = [stage EXCEPT ![p][r] = s]
  /\ kind' = IF s = "free" THEN [kind EXCEPT ![p][r] = "none"] ELSE kind
  /\ rem' = IF s \in {"window", "walk"} THEN rem ELSE [rem EXCEPT ![p][r] = 0]

\* The heartbeat is dropped with its walk; a refresh it had sent may still land.
DropBeat(p, r) ==
  /\ beat' = [beat EXCEPT ![p][r] = "asleep"]
  /\ beatRem' = [beatRem EXCEPT ![p][r] = 0]
  /\ late' = IF beat[p][r] = "sent" THEN [late EXCEPT ![p] = @ \cup {r}] ELSE late

\* A dropped task has `abandoned` left to run, and is dropped no further.
Drop(p, r) ==
  /\ stage' = [stage EXCEPT ![p][r] = "abandoning"]
  /\ kind' = [kind EXCEPT ![p][r] = "dropped"]
  /\ rem' = [rem EXCEPT ![p][r] = 0]

\* A take or a claim is sent: the lease it will write lasts at least TTL from here.
Send(p, r) ==
  /\ rem' = [rem EXCEPT ![p][r] = TTL]
  /\ UNCHANGED <<db, up, beat, beatRem, late>>

ClaimSend(p, r) ==
  /\ p \in Executors
  /\ status[r] = "queued"
  /\ Enter(p, r, "claiming", "claim")
  /\ Send(p, r)
  /\ UNCHANGED <<dead, todo, resumes, loose>>

\* A slip: a walk that begins whatever its lease has left.
BeginAnyhow(p, r, d) == Go(p, r, "walk") /\ dead' = d /\ UNCHANGED late

\* A walk that begins past its self-fence is expired while its first call is unanswered,
\* its last refresh sent and given up: it writes nothing.  `d` is the dead walks so far.
Begin(p, r, d) ==
  IF rem[p][r] > Refresh
  THEN Go(p, r, "walk") /\ dead' = d /\ UNCHANGED late
  ELSE /\ Go(p, r, "free")
       /\ dead' = [d EXCEPT ![p] = @ \cup {r}]
       /\ late' = [late EXCEPT ![p] = @ \cup {r}]

\* claim_run.  NotClaimable, a stopped workspace, a full box and an overlapping scope
\* leave the run as it was; missing tags fail it.
Admitted(p, r) ==
  /\ status[r] = "queued" /\ ~stopped
  /\ status' = [status EXCEPT ![r] = "running"]
  /\ WriteLease(p, r)
  /\ UNCHANGED stopped
ClaimRun(p, r) ==
  /\ stage[p][r] = "claiming"
  /\ \/ Admitted(p, r) /\ Begin(p, r, dead)
     \/ /\ \/ status[r] = "queued" /\ ~stopped /\ MoveRun(r, "failed")
           \/ UNCHANGED db
           \/ Faulty /\ Admitted(p, r)
        /\ Go(p, r, "free")
        /\ UNCHANGED <<late, dead>>
  /\ UNCHANGED <<up, beat, beatRem, todo, resumes, loose>>

\* A verb on a live run (answer, retry, select, promote, cancel, unblock), its guard passed.
Command(p, r) ==
  /\ p \in Commanders
  /\ status[r] \in Leasable
  /\ Enter(p, r, "taking", "command")
  /\ Send(p, r)
  /\ UNCHANGED <<dead, todo, resumes, loose>>

\* cancel_queued: a compare-and-set on `queued`, no lease.
CancelQueued(p, r) ==
  /\ p \in up /\ stage[p][r] = "free"
  /\ status[r] = "queued"
  /\ MoveRun(r, "cancelled")
  /\ UNCHANGED <<up, stage, kind, heart, late, dead, todo, resumes, loose>>

\* renew_lease / take_lease.  A run taken leaves the dead walks.  A refused or failed take
\* ends the task with nothing released; only the sweep releases after a failed one.
TakeLease(p, r) ==
  /\ stage[p][r] = "taking"
  /\ \/ /\ Takeable(p, r)
        /\ TakeLands(p, r)
        /\ IF kind[p][r] = "sweep"
           THEN Begin(p, r, [dead EXCEPT ![p] = @ \ {r}])
           ELSE /\ Go(p, r, "window")
                /\ dead' = [dead EXCEPT ![p] = @ \ {r}]
                /\ UNCHANGED late
     \/ /\ ~Takeable(p, r)
        /\ Go(p, r, "free")
        /\ UNCHANGED <<db, dead, late>>
     \/ /\ Faulty
        /\ TakeLands(p, r) \/ UNCHANGED db
        /\ Go(p, r, IF kind[p][r] = "sweep" THEN "releasing" ELSE "free")
        /\ UNCHANGED <<dead, late>>
  /\ UNCHANGED <<up, beat, beatRem, todo, resumes, loose>>

\* leased_window, no heartbeat.  A command unparks the run and its executor walks on; a
\* non-executor hands the lease back.  A resume reads, and walks whatever the status.
\* A cancel, a promotion or a topology park ends in the release, as an error does.
WindowGoesOn(p, r) ==
  /\ stage[p][r] = "window"
  /\ \/ kind[p][r] = "command" /\ status[r] = "awaiting" /\ MoveRun(r, "running")
     \/ kind[p][r] = "command" /\ status[r] = "running" /\ UNCHANGED db
     \/ kind[p][r] = "resume" /\ UNCHANGED db
  /\ IF p \in Executors
     THEN Begin(p, r, dead)
     ELSE Go(p, r, "releasing") /\ UNCHANGED <<late, dead>>
  /\ UNCHANGED <<up, beat, beatRem, todo, resumes, loose>>
WindowEnds(p, r) ==
  /\ stage[p][r] = "window"
  /\ \/ MoveRun(r, "awaiting")
     \/ kind[p][r] = "command" /\ MoveRun(r, "cancelled")
     \/ UNCHANGED db
  /\ Go(p, r, "releasing")
  /\ UNCHANGED <<up, beat, beatRem, late, dead, todo, resumes, loose>>

-----------------------------------------------------------------------------
(***************************************************************************)
(* walk_leased: the walk raced against its heartbeat.  The walk's status   *)
(* writes are compare-and-sets on the status alone: no lease fences them.  *)
(***************************************************************************)

Ends(p, r, s) == stage[p][r] = "walk" /\ Go(p, r, s) /\ DropBeat(p, r)

\* The walk parks or settles the run, or finds it at rest.
WalkRests(p, r) ==
  /\ Ends(p, r, "reread")
  /\ \/ \E to \in {"awaiting", "done", "failed"} : status[r] = "running" /\ MoveRun(r, to)
     \/ status[r] # "running" /\ UNCHANGED db
  /\ UNCHANGED <<up, dead, todo, resumes, loose>>
\* walk_resumed: the unpark of a command a crash cut off.
WalkUnparks(p, r) ==
  /\ stage[p][r] = "walk" /\ kind[p][r] = "resume"
  /\ status[r] = "awaiting" /\ MoveRun(r, "running")
  /\ UNCHANGED <<up, stage, kind, heart, late, dead, todo, resumes, loose>>
\* recover_run answered Next::Walk: the lease of a run still `running` is kept, and its
\* resume is spawned (when the sweep's other runs are done; nothing here depends on it).
RecoveryWalksOn(p, r) ==
  /\ kind[p][r] = "sweep"
  /\ Ends(p, r, IF status[r] = "running" THEN "free" ELSE "reread")
  /\ resumes' = [resumes EXCEPT ![p] = @ \cup {r}]
  /\ UNCHANGED <<db, up, dead, todo, loose>>
\* A task is preempted by a command or by its process's shutdown.
Preemptible(p) == p \in Commanders \cup Mortal
\* Any error gives the lease back; a graceful cancel then runs `abandoned` too.
WalkFails(p, r) ==
  /\ \/ Ends(p, r, "releasing")
     \/ Preemptible(p) /\ kind[p][r] # "sweep" /\ Ends(p, r, "cancelled")
  /\ UNCHANGED <<db, up, dead, todo, resumes, loose>>
\* A fenced write met a stranger's lease: abandoned, nothing given back.
WalkFenced(p, r) ==
  /\ owner[r] # p
  /\ Ends(p, r, "free")
  /\ UNCHANGED <<db, up, dead, todo, resumes, loose>>
\* A slip: the panic is not noted.
PanicUnnoted(p, r) ==
  /\ kind[p][r] # "sweep"
  /\ Ends(p, r, "free")
  /\ UNCHANGED <<db, up, dead, todo, resumes, loose>>

WalkPanics(p, r) ==
  /\ kind[p][r] # "sweep"
  /\ Ends(p, r, "free")
  /\ dead' = [dead EXCEPT ![p] = @ \cup {r}]
  /\ UNCHANGED <<db, up, todo, resumes, loose>>

BeatSends(p, r) ==
  /\ stage[p][r] = "walk" /\ beat[p][r] = "asleep"
  /\ rem[p][r] > Refresh
  /\ beat' = [beat EXCEPT ![p][r] = "sent"]
  /\ beatRem' = [beatRem EXCEPT ![p][r] = TTL]
  /\ UNCHANGED <<db, up, stage, kind, rem, late, dead, todo, resumes, loose>>
BeatLands(p, r) ==
  /\ beat[p][r] = "sent"
  /\ RefreshLands(p, r)
  /\ beat' = [beat EXCEPT ![p][r] = IF owner[r] = p THEN "yes" ELSE "no"]
  /\ UNCHANGED <<up, stage, kind, rem, beatRem, late, dead, todo, resumes, loose>>
BeatErrs(p, r) ==
  /\ Faulty /\ beat[p][r] = "sent"
  /\ RefreshLands(p, r) \/ UNCHANGED db
  /\ beat' = [beat EXCEPT ![p][r] = "asleep"]
  /\ beatRem' = [beatRem EXCEPT ![p][r] = 0]
  /\ UNCHANGED <<up, stage, kind, rem, late, dead, todo, resumes, loose>>
\* A slip: the lease is counted from the refresh's answer.
RenewsFromAnswer(p, r) ==
  /\ beat[p][r] = "yes"
  /\ rem' = [rem EXCEPT ![p][r] = TTL]
  /\ beat' = [beat EXCEPT ![p][r] = "asleep"]
  /\ beatRem' = [beatRem EXCEPT ![p][r] = 0]
  /\ UNCHANGED <<db, up, stage, kind, late, dead, todo, resumes, loose>>

BeatRenews(p, r) ==
  /\ beat[p][r] = "yes"
  /\ rem' = [rem EXCEPT ![p][r] = beatRem[p][r]]
  /\ beat' = [beat EXCEPT ![p][r] = "asleep"]
  /\ beatRem' = [beatRem EXCEPT ![p][r] = 0]
  /\ UNCHANGED <<db, up, stage, kind, late, dead, todo, resumes, loose>>
\* Heartbeat::Abandoned: another owner's lease, nothing to give back.
BeatAbandons(p, r) ==
  /\ beat[p][r] = "no"
  /\ Ends(p, r, "free")
  /\ UNCHANGED <<db, up, dead, todo, resumes, loose>>
\* Heartbeat::Expired, at the self-fence or as late as Lag after it.  The last refresh is
\* sent at the fence itself, and given up at once.
BeatExpires(p, r) ==
  /\ stage[p][r] = "walk" /\ rem[p][r] <= Refresh
  /\ Go(p, r, "free")
  /\ beat' = [beat EXCEPT ![p][r] = "asleep"]
  /\ beatRem' = [beatRem EXCEPT ![p][r] = 0]
  /\ late' = [late EXCEPT ![p] = @ \cup {r}]
  /\ dead' = [dead EXCEPT ![p] = @ \cup {r}]
  /\ UNCHANGED <<db, up, todo, resumes, loose>>

\* A refresh whose process stopped waiting for it.
LateRefreshLands(p, r) ==
  /\ r \in late[p]
  /\ RefreshLands(p, r)
  /\ late' = [late EXCEPT ![p] = @ \ {r}]
  /\ UNCHANGED <<up, stage, kind, heart, dead, todo, resumes, loose>>

-----------------------------------------------------------------------------
(***************************************************************************)
(* Giving the lease back.                                                  *)
(***************************************************************************)

\* release_after_walk: a run still `running` keeps its lease.
Reread(p, r) ==
  /\ stage[p][r] = "reread"
  /\ Go(p, r, IF status[r] = "running" THEN "free" ELSE "releasing")
  /\ UNCHANGED <<db, up, beat, beatRem, late, dead, todo, resumes, loose>>

\* release_lease: any answer takes the run out of the dead walks, an error puts it in.
AfterRelease(p, r) ==
  IF stage[p][r] = "cancelled" THEN Drop(p, r) ELSE Go(p, r, "free")
Release(p, r) ==
  /\ stage[p][r] \in {"releasing", "cancelled"}
  /\ AfterRelease(p, r)
  /\ \/ ReleaseLands(p, r) /\ dead' = [dead EXCEPT ![p] = @ \ {r}]
     \/ /\ Faulty
        /\ ReleaseLands(p, r) \/ UNCHANGED db
        /\ dead' = [dead EXCEPT ![p] = @ \cup {r}]
  /\ UNCHANGED <<up, beat, beatRem, late, todo, resumes, loose>>

\* A preempt past its grace, or a shutdown, drops the task where it stands.
HardDrop(p, r) ==
  /\ Preemptible(p)
  /\ kind[p][r] \notin {"none", "sweep", "dropped"}
  /\ Drop(p, r)
  /\ DropBeat(p, r)
  /\ UNCHANGED <<db, up, dead, todo, resumes, loose>>
\* abandoned: a refresh that proves the lease, then the release.
Abandon(p, r) ==
  /\ stage[p][r] = "abandoning"
  /\ RefreshLands(p, r) \/ (Faulty /\ UNCHANGED db)
  /\ Go(p, r, "releasing")
  /\ UNCHANGED <<up, beat, beatRem, late, dead, todo, resumes, loose>>

-----------------------------------------------------------------------------
(***************************************************************************)
(* The sweep of an executing process, and the resumes it hands off.        *)
(***************************************************************************)

Sweeping(p) == \E r \in Runs : kind[p][r] = "sweep"
\* Slips in adopt_runs' predicate: a live lease adopted; `<>` against a NULL owner.
AdoptableLive(p, r) == status[r] = "running" /\ owner[r] # p
AdoptableOwned(p, r) == status[r] = "running" /\ lease[r] = 0 /\ owner[r] \notin {p, Nobody}

Adoptable(p, r) == status[r] = "running" /\ lease[r] = 0 /\ owner[r] # p

\* The pre-pass: a dead walk's lease is given back, unless a task of this process holds
\* the run.
GiveBack(p, r) ==
  /\ p \in Executors /\ r \in dead[p] /\ todo[p] = {} /\ ~Sweeping(p)
  /\ Enter(p, r, "releasing", "sweep")
  /\ UNCHANGED <<db, up, heart, late, dead, todo, resumes, loose>>

\* adopt_runs: the lapsed running runs of another owner whose rows nobody locks, in one
\* transaction.  Under a workspace stop each is settled to `stopped`, but for those with a
\* step locked elsewhere.
AdoptLands(p, adopted) ==
  /\ UNCHANGED stopped
  /\ \E free \in SUBSET {r \in Runs : Adoptable(p, r)} :
       IF stopped
       THEN /\ adopted = {}
            /\ status' = [r \in Runs |-> IF r \in free THEN "stopped" ELSE status[r]]
            /\ owner' = [r \in Runs |-> IF r \in free THEN Nobody ELSE owner[r]]
            /\ UNCHANGED lease
       ELSE /\ adopted = free
            /\ owner' = [r \in Runs |-> IF r \in free THEN p ELSE owner[r]]
            /\ lease' = [r \in Runs |-> IF r \in free THEN TTL ELSE lease[r]]
            /\ UNCHANGED status
Adopt(p) ==
  /\ p \in up \cap Executors /\ todo[p] = {} /\ ~Sweeping(p)
  /\ \E adopted \in SUBSET Runs :
       \/ AdoptLands(p, adopted) /\ todo' = [todo EXCEPT ![p] = adopted]
       \/ Faulty /\ AdoptLands(p, adopted) /\ UNCHANGED todo
  /\ UNCHANGED <<up, stage, kind, heart, late, dead, resumes, loose>>

\* One adopted run at a time: its lease renewed under its lock, or left to the dead walks.
SweepTakes(p, r) ==
  /\ p \in up /\ r \in todo[p] /\ ~Sweeping(p)
  /\ todo' = [todo EXCEPT ![p] = @ \ {r}]
  /\ \/ stage[p][r] = "free" /\ Enter(p, r, "taking", "sweep") /\ Send(p, r) /\ UNCHANGED dead
     \/ /\ stage[p][r] # "free"
        /\ dead' = [dead EXCEPT ![p] = @ \cup {r}]
        /\ UNCHANGED <<db, up, stage, kind, heart, late>>
  /\ UNCHANGED <<resumes, loose>>

\* `resumed` gets the lock: it takes the lease, or its parts cannot be read.
ResumeStarts(p, r) ==
  /\ r \in resumes[p]
  /\ resumes' = [resumes EXCEPT ![p] = @ \ {r}]
  /\ \/ Enter(p, r, "taking", "resume") /\ Send(p, r) /\ UNCHANGED dead
     \/ /\ Faulty /\ p \in up /\ stage[p][r] = "free"
        /\ dead' = [dead EXCEPT ![p] = @ \cup {r}]
        /\ UNCHANGED <<db, up, stage, kind, heart, late>>
  /\ UNCHANGED <<todo, loose>>
\* A command's graceful preempt refuses a resume that waits for the lock.
ResumeRefused(p, r) ==
  /\ p \in up \cap Commanders /\ r \in resumes[p]
  /\ resumes' = [resumes EXCEPT ![p] = @ \ {r}]
  /\ UNCHANGED <<db, up, stage, kind, heart, late, dead, todo, loose>>
\* A resume cancelled while it backs off releases the lease without the lock.
BackoffCancelled(p, r) ==
  /\ p \in up \cap BacksOff /\ r \in resumes[p]
  /\ resumes' = [resumes EXCEPT ![p] = @ \ {r}]
  /\ loose' = [loose EXCEPT ![p] = @ \cup {r}]
  /\ UNCHANGED <<db, up, stage, kind, heart, late, dead, todo>>
LooseRelease(p, r) ==
  /\ r \in loose[p]
  /\ ReleaseLands(p, r)
  /\ loose' = [loose EXCEPT ![p] = @ \ {r}]
  /\ UNCHANGED <<up, stage, kind, heart, late, dead, todo, resumes>>

-----------------------------------------------------------------------------
(***************************************************************************)
(* The environment: the workspace stop, crashes and time.                  *)
(***************************************************************************)

StopWorkspace ==
  /\ Stops
  /\ stopped' = ~stopped
  /\ UNCHANGED <<status, owner, lease, up, stage, kind, heart, late, dead, todo, resumes, loose>>

Crash(p) ==
  /\ p \in up \cap Mortal
  /\ up' = up \ {p}
  /\ late' = [late EXCEPT ![p] = @ \cup {r \in Runs : beat[p][r] = "sent"}]
  /\ stage' = [stage EXCEPT ![p] = [r \in Runs |-> "free"]]
  /\ kind' = [kind EXCEPT ![p] = [r \in Runs |-> "none"]]
  /\ beat' = [beat EXCEPT ![p] = [r \in Runs |-> "asleep"]]
  /\ beatRem' = [beatRem EXCEPT ![p] = [r \in Runs |-> 0]]
  /\ dead' = [dead EXCEPT ![p] = {}]
  /\ todo' = [todo EXCEPT ![p] = {}]
  /\ resumes' = [resumes EXCEPT ![p] = {}]
  /\ rem' = [rem EXCEPT ![p] = [r \in Runs |-> 0]]
  /\ UNCHANGED <<db, loose>>

Dec(n) == IF n = 0 THEN 0 ELSE n - 1

\* A slip: no self-fence.
NeverOverdue(p, r) == FALSE

\* One unit of time.  A heartbeat's timer fires at most Lag late, so no walk is carried
\* past that.
Overdue(p, r) == stage[p][r] = "walk" /\ rem[p][r] <= Refresh - Lag
DecAll(clock) == [p \in Procs |-> [r \in Runs |-> Dec(clock[p][r])]]
Tick ==
  /\ \A p \in Procs : \A r \in Runs : ~Overdue(p, r)
  /\ lease' = [r \in Runs |-> Dec(lease[r])]
  /\ rem' = DecAll(rem)
  /\ beatRem' = DecAll(beatRem)
  /\ UNCHANGED <<status, owner, stopped, up, stage, kind, beat, late, dead, todo,
                 resumes, loose>>

\* A unit of time the host is suspended for: it passes for the store alone.
Suspend ==
  /\ Suspends
  /\ lease' = [r \in Runs |-> Dec(lease[r])]
  /\ UNCHANGED <<status, owner, stopped, up, stage, kind, heart, late, dead, todo,
                 resumes, loose>>

TaskStep(p, r) ==
  \/ ClaimRun(p, r) \/ TakeLease(p, r) \/ WindowGoesOn(p, r) \/ WindowEnds(p, r)
  \/ WalkRests(p, r) \/ WalkUnparks(p, r) \/ RecoveryWalksOn(p, r) \/ WalkFails(p, r)
  \/ WalkFenced(p, r) \/ WalkPanics(p, r) \/ Reread(p, r) \/ Release(p, r)
  \/ HardDrop(p, r) \/ Abandon(p, r)
BeatStep(p, r) ==
  \/ BeatSends(p, r) \/ BeatLands(p, r) \/ BeatErrs(p, r) \/ BeatRenews(p, r)
  \/ BeatAbandons(p, r) \/ BeatExpires(p, r) \/ LateRefreshLands(p, r)
SweepStep(p) ==
  \/ Adopt(p)
  \/ \E r \in Runs : GiveBack(p, r) \/ SweepTakes(p, r)
ResumeStep(p, r) ==
  \/ ResumeStarts(p, r) \/ ResumeRefused(p, r)
  \/ BackoffCancelled(p, r) \/ LooseRelease(p, r)

Next ==
  \/ Tick \/ Suspend
  \/ StopWorkspace
  \/ \E p \in Procs :
       \/ Crash(p)
       \/ SweepStep(p)
       \/ \E r \in Runs :
            \/ ClaimSend(p, r) \/ Command(p, r) \/ CancelQueued(p, r)
            \/ TaskStep(p, r) \/ BeatStep(p, r) \/ ResumeStep(p, r)

Spec == Init /\ [][Next]_vars

(***************************************************************************)
(* What the runtime of a process that does not crash keeps doing: time     *)
(* passes, an executing process sweeps at every tick of its timer, and a   *)
(* task whose call is answered goes on, and not every take is answered     *)
(* past the self-fence of the lease it took.  Walks and commands owe       *)
(* nothing.                                                                *)
(***************************************************************************)
TaskEnds(p, r) ==
  \/ ClaimRun(p, r) \/ TakeLease(p, r) \/ WindowGoesOn(p, r) \/ WindowEnds(p, r)
  \/ Reread(p, r) \/ Release(p, r) \/ Abandon(p, r)
Fairness ==
  /\ WF_vars(Tick)
  /\ \A p \in Procs \ Mortal :
       /\ WF_vars(SweepStep(p))
       /\ \A r \in Runs :
            /\ WF_vars(ResumeStarts(p, r))
            /\ WF_vars(TaskEnds(p, r))
            /\ SF_vars(rem[p][r] > Refresh /\ TakeLease(p, r))
LiveSpec == Spec /\ Fairness

-----------------------------------------------------------------------------
(***************************************************************************)
(* Properties.                                                             *)
(***************************************************************************)

\* Two processes never walk one run: the lease, the heartbeat's self-fence and the
\* per-run lock together exclude it, though no status write checks the lease.
OneWalk ==
  \A r \in Runs : \A p, q \in Procs :
    stage[p][r] = "walk" /\ stage[q][r] = "walk" => p = q

\* A process whose own clock says its lease has time left does hold it in the store, for
\* at least that long, and a walk has time left: what heartbeat()'s self-fence promises.
ClockIsSafe ==
  \A p \in Procs : \A r \in Runs :
    /\ stage[p][r] = "walk" => rem[p][r] > 0
    /\ stage[p][r] \in {"window", "walk"} /\ rem[p][r] > 0
         => owner[r] = p /\ lease[r] >= rem[p][r]

\* Why the clocks are safe, as an induction: only a walk beats, a refresh in flight was sent
\* after the lease its walk counts on was, a row answered `yes` has the refreshed lease, and a
\* queued run is nobody's.  (Where no host sleeps and no release strays.)
LeaseInv ==
  /\ ClockIsSafe
  /\ \A p \in Procs : \A r \in Runs :
       /\ beat[p][r] # "asleep" => stage[p][r] = "walk" /\ beatRem[p][r] >= rem[p][r]
       /\ beat[p][r] = "yes" => lease[r] >= beatRem[p][r]
  /\ \A r \in Runs : status[r] = "queued" => owner[r] = Nobody
  /\ \A p \in Procs : loose[p] = {}

\* DeadWalks' promise: while a live process's name is on a running run, either a task of
\* it works on the run, or it will (adopted or waiting to resume), or the run is
\* among its dead walks for the next sweep to give back.
Tended ==
  \A r \in Runs : \A p \in up :
    status[r] = "running" /\ owner[r] = p
      => \/ stage[p][r] # "free"
         \/ r \in dead[p] \cup todo[p] \cup resumes[p] \cup loose[p]

\* A walk parks or settles only a run whose lease is its process's own: the writes that
\* rest a run (transition_run, finish_run) do not check it.
OnlyOwnerRests ==
  [][\A p \in Procs : \A r \in Runs :
       stage[p][r] = "walk" /\ stage'[p][r] = "reread" /\ status'[r] # status[r]
         => owner[r] = p]_vars

\* The executor that outlives the others takes every running run on, whoever crashed with
\* its lease and whatever became of its own walks: it walks it in the end, or the run rests.
\* (Two executors whose calls outlast the lease may keep taking it from each other.)
Attended ==
  \A p \in Procs \ Mortal : \A r \in Runs :
    (up \cap Executors = {p} /\ status[r] = "running")
      ~> (status[r] # "running" \/ stage[p][r] = "walk")

\* Every use of a run's lease is one the abstract lease lock allows, however clocks stall,
\* calls fail and releases stray: no live lease is ever taken from its owner.
Lock == INSTANCE LeaseLock
IsLeaseLock == Lock!Spec
=============================================================================
