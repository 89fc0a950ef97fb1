------------------------------ MODULE RunRelay ------------------------------
(***************************************************************************)
(* The durable relay of one run: the follow-ups a person queues for a live *)
(* session, the permission a session asks a person for, and the cancel of  *)
(* the run. Clients write rows; the process that walks the run polls them; *)
(* what keeps the two apart is the run's lease, the row lock of a step's   *)
(* follow-up window, and the clean-ups a process owes for a walk that was  *)
(* dropped where it stood (pg/relay.rs, record/relay.rs, engine.rs).       *)
(*                                                                         *)
(* A transaction is split where another one can come between: the enqueue  *)
(* of a follow-up into its snapshot, its insert under the window's share   *)
(* lock and its commit; the closes into the statement that takes the       *)
(* window and the one, with a later snapshot, that refuses what it holds.  *)
(* The lease is the one of RunLease, without its clocks: it may lapse when *)
(* nothing of its owner is at work on the run, under a walk if Late says   *)
(* that a refresh may come too late, and at any moment if calls fail.      *)
(***************************************************************************)
EXTENDS FiniteSets

CONSTANTS Process,    \* owner ids of the processes that may execute the run
          Mortal,     \* those that may crash
          Nobody,     \* NULL
          Session,    \* the sessions the run's steps may open, one of a step
          Judges,     \* but these: one after another, of a fan-out's judge step
          Asking,     \* the sessions whose agent asks for a permission, once
          FollowUp,   \* the follow-ups clients queue
          Cancels,    \* whether a client may cancel the run
          Faults,     \* whether a call the code makes best-effort may fail
          Late        \* whether a lease may lapse under a walk that renews it

ASSUME RelayAssumption ==
  /\ Nobody \notin Process /\ Nobody \notin FollowUp /\ Nobody \notin Session
  /\ Process \cap {"none", "open", "closed"} = {}
  /\ Mortal \subseteq Process /\ Asking \subseteq Session /\ Judges \subseteq Session
  /\ Cancels \in BOOLEAN /\ Faults \in BOOLEAN /\ Late \in BOOLEAN

VARIABLES
  run,     \* its status
  owner,   \* run.lease_owner
  live,    \* lease_expires_at is ahead of the store's clock
  job,     \* what each process is doing on the run, under its lock
  next,    \* what it does after a clean-up
  marked,  \* the run is one of the process's dead walks
  row,     \* the status of a session's step, as far as the relay sees it
  at,      \* how far each session is
  host,    \* the process that drives it
  mode,    \* what it knows of its window (enum Window)
  claim,   \* the follow-up it has read and not settled
  win,     \* the follow-up window of its step, or the process whose run-wide close has it locked
  perm,    \* its step_permission row
  lent,    \* history: another process has had the lease since it started
  fu,      \* the follow-up rows, and how far an enqueue is
  to,      \* the session each was queued for
  sent,    \* history: the sessions each was sent in
  cancel   \* the cancel row

leaseVars == <<run, owner, live>>
jobVars   == <<job, next, marked>>
sessVars  == <<row, at, host, mode, claim, win, perm, lent>>
fuVars    == <<fu, to, sent>>
vars      == <<leaseVars, jobVars, sessVars, fuVars, cancel>>

Jobs   == {"idle", "walk", "cancel", "abandon", "drop", "dropping", "stale", "release", "gone"}
Stages == {"new", "turn", "claim", "parked", "close", "closing", "closed", "ended", "dropped"}
Perms  == {"none", "pending", "answered", "applied", "cancelled", "stale"}
Mail   == {"none", "checked", "inserted", "pending", "applied", "refused"}

\* A run some process has just claimed (claim_run), with no step started.
Init ==
  /\ run = "running" /\ live = TRUE
  /\ owner \in Process
  /\ job = [p \in Process |-> IF p = owner THEN "walk" ELSE "idle"]
  /\ next = [p \in Process |-> "walk"]
  /\ marked = [p \in Process |-> FALSE]
  /\ row = [s \in Session |-> "pending"]
  /\ at = [s \in Session |-> "new"]
  /\ host = [s \in Session |-> Nobody]
  /\ mode = [s \in Session |-> "Off"]
  /\ claim = [s \in Session |-> Nobody]
  /\ win = [s \in Session |-> "none"]
  /\ perm = [s \in Session |-> "none"]
  /\ lent = [s \in Session |-> FALSE]
  /\ fu = [f \in FollowUp |-> "none"]
  /\ to = [f \in FollowUp |-> Nobody]
  /\ sent = [f \in FollowUp |-> {}]
  /\ cancel = "none"

-----------------------------------------------------------------------------
(* What the statements read.                                               *)

Driven(s)  == at[s] \in {"turn", "claim", "parked", "close", "closing"}
Done(p)    == \A s \in Session : host[s] = p => ~Driven(s) /\ row[s] # "running"
Undriven(p) == \A s \in Session : host[s] = p => ~Driven(s)
Waiting(s) == {f \in FollowUp : to[f] = s /\ fu[f] = "pending"}

\* The window's row is locked by a close of it, the session's or a run-wide one.
Locked(s) == at[s] = "closing" \/ win[s] \in Process

\* The window's row is share-locked by an enqueue that has not committed.
Unshared(s) == FALSE   \* A slip: the enqueue reads the window without FOR SHARE.
Shared(s) == \E f \in FollowUp : to[f] = s /\ fu[f] = "inserted"

\* A take of the lease renews a lapsed, absent or own one.
Takeable(p) == owner \in {p, Nobody} \/ ~live
Grants(p) ==
  /\ owner' = p /\ live' = TRUE
  /\ lent' = [s \in Session |-> lent[s] \/ (at[s] # "new" /\ host[s] # p)]

Becomes(rows, how) == [f \in FollowUp |-> IF f \in rows THEN how ELSE fu[f]]
Settled(sessions, how) ==
  [s \in Session |-> IF s \in sessions /\ perm[s] \in {"pending", "answered"} THEN how ELSE perm[s]]

\* The sessions of p whose future is dropped where it stands.
DroppedTurns(p) ==   \* A slip: a parked session is forgotten.
  [s \in Session |-> IF host[s] = p /\ at[s] = "turn" THEN "dropped" ELSE at[s]]
Dropped(p) == [s \in Session |-> IF host[s] = p /\ Driven(s) THEN "dropped" ELSE at[s]]

-----------------------------------------------------------------------------
(* The clients.                                                            *)

\* What the enqueue's snapshot must show: a running step, its window open (a close
\* of it may be under way), the lease live and its opener's, and no cancel pending.
Enqueueable(s) ==
  /\ win[s] \in {"open"} \cup Process /\ row[s] = "running"
  /\ owner = host[s] /\ live
  /\ cancel # "pending"

Asks(f, s) ==
  /\ fu[f] = "none" /\ Enqueueable(s)
  /\ fu' = [fu EXCEPT ![f] = "checked"]
  /\ to' = [to EXCEPT ![f] = s]
  /\ UNCHANGED <<leaseVars, jobVars, sessVars, sent, cancel>>

\* FOR SHARE waits for a close and checks the window alone again; the index admits one a step.
Inserts(f) ==
  /\ fu[f] = "checked" /\ ~Locked(to[f]) /\ ~Shared(to[f])
  /\ fu' = [fu EXCEPT ![f] =
             IF win[to[f]] = "open" /\ Waiting(to[f]) = {} THEN "inserted" ELSE "none"]
  /\ UNCHANGED <<leaseVars, jobVars, sessVars, to, sent, cancel>>

Enqueued(f) ==
  /\ fu[f] = "inserted"
  /\ fu' = [fu EXCEPT ![f] = "pending"]
  /\ UNCHANGED <<leaseVars, jobVars, sessVars, to, sent, cancel>>

\* A first cancel refuses what is pending with its insert, in one transaction; one
\* that finds another pending refuses what slipped in between that one's statements.
RequestsCancel ==
  /\ Cancels /\ cancel \in {"none", "pending"}
  /\ cancel' = "pending"
  /\ fu' = Becomes({f \in FollowUp : fu[f] = "pending"}, "refused")
  /\ UNCHANGED <<leaseVars, jobVars, sessVars, to, sent>>

Answers(s) ==
  /\ perm[s] = "pending" /\ owner = host[s] /\ live
  /\ perm' = [perm EXCEPT ![s] = "answered"]
  /\ UNCHANGED <<leaseVars, jobVars, row, at, host, mode, claim, win, lent, fuVars, cancel>>

-----------------------------------------------------------------------------
(* A session, as drive() takes it through its turns.                       *)

\* The step is running and its session begins; one transaction checks the owner,
\* under a share lock of the run, and opens the window. A judge has none.
Starts(p, s) ==
  /\ job[p] = "walk" /\ run = "running" /\ at[s] = "new" /\ row[s] = "pending"
  /\ s \in Judges => \A t \in Judges : ~Driven(t)
  /\ row' = [row EXCEPT ![s] = "running"]
  /\ host' = [host EXCEPT ![s] = p]
  /\ \/ /\ s \in Judges
        /\ at' = [at EXCEPT ![s] = "turn"]
        /\ UNCHANGED <<mode, win>>
     \/ /\ s \notin Judges /\ owner = p
        /\ at' = [at EXCEPT ![s] = "turn"]
        /\ mode' = [mode EXCEPT ![s] = "Open"]
        /\ win' = [win EXCEPT ![s] = "open"]
     \/ /\ s \notin Judges /\ owner # p
        /\ at' = [at EXCEPT ![s] = "dropped"]
        /\ UNCHANGED <<mode, win>>
     \/ /\ Faults /\ s \notin Judges
        /\ at' = [at EXCEPT ![s] = "turn"]
        /\ mode' = [mode EXCEPT ![s] = "Unknown"]
        /\ win' \in {win} \cup (IF owner = p THEN {[win EXCEPT ![s] = "open"]} ELSE {})
  /\ lent' = [lent EXCEPT ![s] = (owner # p)]
  /\ UNCHANGED <<leaseVars, jobVars, claim, perm, fuVars, cancel>>

\* A turn's end finds the step's pending follow-up.
Reads(s, f) ==
  /\ at[s] = "turn" /\ mode[s] = "Open" /\ win[s] # "closed" /\ f \in Waiting(s)
  /\ at' = [at EXCEPT ![s] = "claim"]
  /\ claim' = [claim EXCEPT ![s] = f]
  /\ UNCHANGED <<leaseVars, jobVars, row, host, mode, win, perm, lent, fuVars, cancel>>

\* It is claimed under the lease and sent; or refused, its text not being sendable;
\* or found settled by another; or the lease is gone, and the session with it.
ClaimsAnyhow(s) ==   \* A slip: the claim settles the row whatever its status.
  LET f == claim[s] IN
  /\ at[s] = "claim"
  /\ claim' = [claim EXCEPT ![s] = Nobody]
  /\ at' = [at EXCEPT ![s] = "turn"]
  /\ fu' = Becomes({f}, "applied") /\ sent' = [sent EXCEPT ![f] = @ \cup {s}]
  /\ UNCHANGED <<leaseVars, jobVars, row, host, mode, win, perm, lent, to, cancel>>
Claims(s) ==
  LET f == claim[s] IN
  /\ at[s] = "claim"
  /\ claim' = [claim EXCEPT ![s] = Nobody]
  /\ \/ /\ fu[f] = "pending" /\ owner = host[s]
        /\ at' = [at EXCEPT ![s] = "turn"]
        /\ \/ fu' = Becomes({f}, "applied") /\ sent' = [sent EXCEPT ![f] = @ \cup {s}]
           \/ fu' = Becomes({f}, "refused") /\ UNCHANGED sent
     \/ /\ fu[f] # "pending"
        /\ at' = [at EXCEPT ![s] = "turn"]
        /\ UNCHANGED <<fu, sent>>
     \/ /\ fu[f] = "pending" /\ owner # host[s]
        /\ at' = [at EXCEPT ![s] = "dropped"]
        /\ UNCHANGED <<fu, sent>>
     \/ /\ Faults
        /\ at' = [at EXCEPT ![s] = "close"]
        /\ UNCHANGED <<fu, sent>>
  /\ UNCHANGED <<leaseVars, jobVars, row, host, mode, win, perm, lent, to, cancel>>

\* The agent asks and no policy answers: the row is opened under the lease, and the
\* open rows of the step's older sessions go stale.
Parks(s) ==
  /\ at[s] = "turn" /\ s \in Asking /\ perm[s] = "none"
  /\ \/ /\ owner = host[s]
        /\ at' = [at EXCEPT ![s] = "parked"]
        /\ perm' = [Settled(IF s \in Judges THEN Judges ELSE {}, "stale") EXCEPT ![s] = "pending"]
     \/ /\ owner # host[s]
        /\ at' = [at EXCEPT ![s] = "dropped"]
        /\ UNCHANGED perm
  /\ UNCHANGED <<leaseVars, jobVars, row, host, mode, claim, win, lent, fuVars, cancel>>

\* The poll reads the answer and applies it under the lease. (A row read stale or
\* cancelled cancels the session, as Ends may at any time.)
Polls(s) ==
  /\ at[s] = "parked" /\ perm[s] = "answered"
  /\ \/ /\ owner = host[s]
        /\ at' = [at EXCEPT ![s] = "turn"]
        /\ perm' = [perm EXCEPT ![s] = "applied"]
     \/ /\ owner # host[s]
        /\ at' = [at EXCEPT ![s] = "dropped"]
        /\ UNCHANGED perm
  /\ UNCHANGED <<leaseVars, jobVars, row, host, mode, claim, win, lent, fuVars, cancel>>

\* The session ends: done, cancelled, in breach of a cap or in error. What it left
\* open of its requests is cancelled or goes stale.
Ends(s) ==
  /\ at[s] \in {"turn", "parked"}
  /\ at' = [at EXCEPT ![s] = "close"]
  /\ perm' \in {Settled({s}, how) : how \in {"cancelled", "stale"}}
               \cup (IF Faults THEN {perm} ELSE {})
  /\ UNCHANGED <<leaseVars, jobVars, row, host, mode, claim, win, lent, fuVars, cancel>>

\* The close's first statement waits for an enqueue that holds the window.
CloseLocks(s) ==
  /\ at[s] = "close" /\ win[s] = "open" /\ ~Shared(s) /\ ~Locked(s)
  /\ at' = [at EXCEPT ![s] = "closing"]
  /\ UNCHANGED <<leaseVars, jobVars, row, host, mode, claim, win, perm, lent, fuVars, cancel>>

\* Its second refuses what is queued. A window another closed is only emptied.
CloseCommits(s) ==
  /\ at[s] = "closing" \/ (at[s] = "close" /\ win[s] \in {"none", "closed"})
  /\ at' = [at EXCEPT ![s] = "closed"]
  /\ win' = [win EXCEPT ![s] = IF @ = "open" THEN "closed" ELSE @]
  /\ fu' = Becomes(Waiting(s), "refused")
  /\ UNCHANGED <<leaseVars, jobVars, row, host, mode, claim, perm, lent, to, sent, cancel>>

\* A close that keeps failing is given up, and the window stays as it is.
CloseGivesUp(s) ==
  /\ Faults /\ at[s] \in {"close", "closing"}
  /\ at' = [at EXCEPT ![s] = "ended"]
  /\ UNCHANGED <<leaseVars, jobVars, row, host, mode, claim, win, perm, lent, fuVars, cancel>>

\* The step of an ended session is settled under the lease (finish_step).
FinishesStep(s) ==
  /\ at[s] \in {"closed", "ended"} /\ row[s] = "running"
  /\ job[host[s]] = "walk" /\ owner = host[s]
  /\ row' = [row EXCEPT ![s] = "settled"]
  /\ UNCHANGED <<leaseVars, jobVars, at, host, mode, claim, win, perm, lent, fuVars, cancel>>

-----------------------------------------------------------------------------
(* The processes. A clean-up (stale_dropped_requests) closes the run's     *)
(* windows under the lease, then stales the requests the lease lists.      *)

Enter(p, j)    == job' = [job EXCEPT ![p] = j]
Unlock(p, how) == [s \in Session |-> IF win[s] = p THEN how ELSE win[s]]

\* What follows a take: a sweep's recovery settles every running step before the
\* walk goes on; a parked run is unparked; a run that is over is given back.
GoesOn(p) ==
  LET walks == next[p] = "walk" /\ run \in {"running", "parked"} IN
  /\ Enter(p, IF next[p] = "walk" /\ ~walks THEN "release" ELSE next[p])
  /\ run' = IF walks THEN "running" ELSE run
  /\ row' = IF walks THEN [s \in Session |-> IF row[s] = "running" THEN "settled" ELSE row[s]]
            ELSE row

\* The sweep adopts a running run whose lease has lapsed or was given back, and
\* cleans up before it recovers. A run its process holds is noted as dead instead.
AdoptsAsIs(p) ==   \* A slip: the adopter walks on without a clean-up.
  /\ run = "running" /\ owner # p /\ (owner = Nobody \/ ~live) /\ job[p] = "idle"
  /\ Grants(p) /\ Enter(p, "walk") /\ marked' = [marked EXCEPT ![p] = FALSE]
  /\ UNCHANGED <<run, next, row, at, host, mode, claim, win, perm, fuVars, cancel>>
Adopts(p) ==
  /\ run = "running" /\ owner # p /\ (owner = Nobody \/ ~live)
  /\ job[p] # "gone"
  /\ Grants(p)
  /\ \/ /\ job[p] = "idle"
        /\ Enter(p, "drop") /\ next' = [next EXCEPT ![p] = "walk"]
        /\ marked' = [marked EXCEPT ![p] = FALSE]
     \/ /\ job[p] # "idle"
        /\ marked' = [marked EXCEPT ![p] = TRUE]
        /\ UNCHANGED <<job, next>>
  /\ UNCHANGED <<run, row, at, host, mode, claim, win, perm, fuVars, cancel>>

\* A sweep begins by giving back the leases of its dead walks.
GivesBackDead(p) ==
  /\ marked[p] /\ job[p] = "idle"
  /\ owner' = IF owner = p THEN Nobody ELSE owner
  /\ live' = (live /\ owner # p)
  /\ marked' = [marked EXCEPT ![p] = FALSE]
  /\ UNCHANGED <<run, job, next, sessVars, fuVars, cancel>>

\* A command takes the lease of the run: a gate's answer walks on from a parked
\* one, the poll's cancel settles a live one. Only a dead walk is cleaned up after.
TakenBy(p, n, j) ==
  /\ Grants(p)
  /\ next' = [next EXCEPT ![p] = n]
  /\ Enter(p, IF marked[p] THEN "drop" ELSE j)
  /\ marked' = [marked EXCEPT ![p] = FALSE]

AnswersGate(p) ==
  /\ run = "parked" /\ job[p] = "idle" /\ Takeable(p)
  /\ TakenBy(p, "walk", "walk")
  /\ run' = IF marked[p] THEN run ELSE "running"
  /\ UNCHANGED <<row, at, host, mode, claim, win, perm, fuVars, cancel>>

TakesCancel(p) ==
  /\ cancel = "pending" /\ run \in {"running", "parked"}
  /\ job[p] = "idle" /\ Takeable(p)
  /\ TakenBy(p, "cancel", "cancel")
  /\ UNCHANGED <<run, row, at, host, mode, claim, win, perm, fuVars, cancel>>

\* Every unsettled step and the run are cancelled; the windows are closed under the
\* lease still held, and it goes back.
CancelsUnclosed(p) ==   \* A slip: the windows are not closed before the lease goes back.
  /\ job[p] = "cancel" /\ run \in {"running", "parked"}
  /\ run' = "cancelled" /\ Enter(p, "release")
  /\ row' = [s \in Session |-> IF row[s] = "running" THEN "settled" ELSE row[s]]
  /\ UNCHANGED <<owner, live, next, marked, at, host, mode, claim, win, perm, lent, fuVars, cancel>>
CancelsRun(p) ==
  /\ job[p] = "cancel"
  /\ IF run \in {"running", "parked"}
     THEN /\ run' = "cancelled"
          /\ row' = [s \in Session |-> IF row[s] = "running" THEN "settled" ELSE row[s]]
          /\ Enter(p, "drop") /\ next' = [next EXCEPT ![p] = "handback"]
     ELSE Enter(p, "release") /\ UNCHANGED <<run, row, next>>
  /\ UNCHANGED <<owner, live, marked, at, host, mode, claim, win, perm, lent, fuVars, cancel>>

\* The cancel row of a run that is over: applied if the run was cancelled.
ResolvesOwn(p) ==   \* A slip: the poll lists the cancels of the runs it owns only.
  /\ cancel = "pending" /\ run \in {"over", "cancelled"} /\ job[p] = "idle" /\ owner = p
  /\ cancel' = IF run = "cancelled" THEN "applied" ELSE "refused"
  /\ UNCHANGED <<leaseVars, jobVars, sessVars, fuVars>>
ResolvesCancel(p) ==
  /\ cancel = "pending" /\ run \in {"over", "cancelled"} /\ job[p] = "idle"
  /\ cancel' = IF run = "cancelled" THEN "applied" ELSE "refused"
  /\ UNCHANGED <<leaseVars, jobVars, sessVars, fuVars>>

\* The walk parks or settles the run; the windows a close gave up on are closed with
\* the lease it hands back. (That its lease is then its own is RunLease's theorem.)
Rests(p) ==
  /\ job[p] = "walk" /\ run = "running" /\ owner = p /\ Done(p)
  /\ run' \in {"parked", "over"}
  /\ Enter(p, "drop") /\ next' = [next EXCEPT ![p] = "handback"]
  /\ UNCHANGED <<owner, live, marked, sessVars, fuVars, cancel>>

\* The walk answers an error: a cancel, a store's failure, or the fence.
Errs(p) ==
  /\ job[p] = "walk" /\ Undriven(p)
  /\ Enter(p, IF owner = p THEN "release" ELSE "idle")
  /\ UNCHANGED <<leaseVars, next, marked, sessVars, fuVars, cancel>>

\* The heartbeat: renews, or finds the lease another's and drops the walk.
Refreshes(p) ==
  /\ job[p] = "walk" /\ owner = p /\ ~live
  /\ live' = TRUE
  /\ UNCHANGED <<run, owner, jobVars, sessVars, fuVars, cancel>>

Abandons(p) ==
  /\ job[p] = "walk" /\ owner # p
  /\ at' = Dropped(p) /\ Enter(p, "idle")
  /\ UNCHANGED <<leaseVars, next, marked, row, host, mode, claim, win, perm, lent, fuVars, cancel>>

\* A panic, or the self-fence: the walk is dropped and the run noted as a dead walk.
Dies(p) ==
  /\ job[p] = "walk"
  /\ at' = Dropped(p) /\ Enter(p, "idle") /\ marked' = [marked EXCEPT ![p] = TRUE]
  /\ UNCHANGED <<leaseVars, next, row, host, mode, claim, win, perm, lent, fuVars, cancel>>

\* A cancel or a promotion preempts its process's walk, dropped if it does not end in time.
Preempts(p) ==
  /\ job[p] = "walk"
  /\ at' = Dropped(p) /\ Enter(p, "abandon")
  /\ UNCHANGED <<leaseVars, next, marked, row, host, mode, claim, win, perm, lent, fuVars, cancel>>

\* After a preempted walk the requests it left are cleaned up if the lease is still its own.
ReleasesAbandoned(p) ==   \* A slip: an abandoned walk's lease goes back uncleaned.
  /\ job[p] = "abandon" /\ Enter(p, "release")
  /\ UNCHANGED <<leaseVars, next, marked, sessVars, fuVars, cancel>>
CleansAbandoned(p) ==
  /\ job[p] = "abandon"
  /\ \/ /\ owner = p
        /\ live' = TRUE /\ next' = [next EXCEPT ![p] = "release"] /\ Enter(p, "drop")
     \/ /\ owner # p \/ Faults
        /\ Enter(p, "release") /\ UNCHANGED <<live, next>>
  /\ UNCHANGED <<run, owner, marked, sessVars, fuVars, cancel>>

\* The run-wide close's first statement, fenced on the lease, takes every open window.
AfterDrop(p) == IF next[p] = "handback" THEN "release" ELSE "stale"
DropLocks(p) ==
  /\ job[p] = "drop" /\ owner = p
  /\ \A s \in Session : win[s] \in {"open"} \cup Process => ~Shared(s) /\ ~Locked(s)
  /\ win' = [s \in Session |-> IF win[s] = "open" THEN p ELSE win[s]]
  /\ Enter(p, "dropping")
  /\ UNCHANGED <<leaseVars, next, marked, row, at, host, mode, claim, perm, lent, fuVars, cancel>>

\* Its second, on a later snapshot, refuses all that is queued, still under the lease.
DropCommits(p) ==
  /\ job[p] = "dropping"
  /\ win' = Unlock(p, "closed")
  /\ fu' = IF owner = p THEN Becomes({f \in FollowUp : fu[f] = "pending"}, "refused") ELSE fu
  /\ Enter(p, AfterDrop(p))
  /\ UNCHANGED <<leaseVars, next, marked, row, at, host, mode, claim, perm, lent, to, sent, cancel>>

\* The lease has gone, so neither statement matches; or the close fails with a warning.
DropSkips(p) ==
  /\ \/ job[p] = "drop" /\ (owner # p \/ Faults)
     \/ job[p] = "dropping" /\ Faults
  /\ win' = Unlock(p, "open")
  /\ Enter(p, AfterDrop(p))
  /\ UNCHANGED <<leaseVars, next, marked, row, at, host, mode, claim, perm, lent, fuVars, cancel>>

\* The requests listed are the pending ones of whoever has the lease by now.
StalesAll(p) ==   \* A slip: the run's requests are listed, whoever asked.
  /\ job[p] = "stale" /\ GoesOn(p)
  /\ perm' = Settled({s \in Session : perm[s] = "pending"}, "stale")
  /\ UNCHANGED <<owner, live, next, marked, at, host, mode, claim, win, lent, fuVars, cancel>>
Stales(p) ==
  /\ job[p] = "stale" /\ GoesOn(p)
  /\ \/ perm' = Settled({s \in Session : perm[s] = "pending" /\ host[s] = owner /\ live}, "stale")
     \/ Faults /\ UNCHANGED perm
  /\ UNCHANGED <<owner, live, next, marked, at, host, mode, claim, win, lent, fuVars, cancel>>

\* The lease goes back; a release that fails, landed or not, notes a dead walk.
Releases(p) ==
  /\ job[p] = "release" /\ Enter(p, "idle")
  /\ \/ /\ owner' = IF owner = p THEN Nobody ELSE owner
        /\ live' = (live /\ owner # p)
        /\ marked' \in {[marked EXCEPT ![p] = m] : m \in {FALSE, Faults}}
     \/ /\ Faults /\ marked' = [marked EXCEPT ![p] = TRUE]
        /\ UNCHANGED <<owner, live>>
  /\ UNCHANGED <<run, next, sessVars, fuVars, cancel>>

Crashes(p) ==
  /\ p \in Mortal /\ job[p] # "gone"
  /\ Enter(p, "gone") /\ at' = Dropped(p)
  /\ win' = Unlock(p, "open")
  /\ marked' = [marked EXCEPT ![p] = FALSE]
  /\ UNCHANGED <<leaseVars, next, row, host, mode, claim, perm, lent, fuVars, cancel>>

\* Nothing of its owner renews the lease, or what does comes too late.
Lapses ==
  /\ live /\ owner # Nobody
  /\ \/ job[owner] \in {"idle", "gone"}
     \/ Late /\ job[owner] = "walk"
     \/ Faults
  /\ live' = FALSE
  /\ UNCHANGED <<run, owner, jobVars, sessVars, fuVars, cancel>>

-----------------------------------------------------------------------------
Clients ==
  \/ \E f \in FollowUp : (\E s \in Session : Asks(f, s)) \/ Inserts(f) \/ Enqueued(f)
  \/ RequestsCancel
  \/ \E s \in Session : Answers(s)

Turns(s) ==
  \/ \E p \in Process : Starts(p, s)
  \/ \E f \in FollowUp : Reads(s, f)
  \/ Claims(s) \/ Parks(s) \/ Polls(s) \/ Ends(s)
  \/ CloseLocks(s) \/ CloseCommits(s) \/ CloseGivesUp(s) \/ FinishesStep(s)

Works(p) ==
  \/ Adopts(p) \/ GivesBackDead(p) \/ AnswersGate(p)
  \/ TakesCancel(p) \/ CancelsRun(p) \/ ResolvesCancel(p)
  \/ Rests(p) \/ Errs(p) \/ Refreshes(p) \/ Abandons(p) \/ Dies(p)
  \/ Preempts(p) \/ CleansAbandoned(p)
  \/ DropLocks(p) \/ DropCommits(p) \/ DropSkips(p) \/ Stales(p) \/ Releases(p)
  \/ Crashes(p)

Next ==
  \/ Clients \/ Lapses
  \/ \E s \in Session : Turns(s)
  \/ \E p \in Process : Works(p)

Spec == Init /\ [][Next]_vars

\* What every process and session does without being asked, if it lives: its calls
\* return, its agents end their turns (each step has a deadline), its sweeps and
\* polls come round, and a lease nobody renews lapses.
Fairness ==
  /\ WF_vars(Lapses)
  /\ \A f \in FollowUp : WF_vars(Inserts(f)) /\ WF_vars(Enqueued(f))
  /\ \A s \in Session :
       /\ WF_vars(Claims(s)) /\ WF_vars(Ends(s)) /\ WF_vars(CloseLocks(s))
       /\ WF_vars(CloseCommits(s)) /\ WF_vars(FinishesStep(s))
  /\ \A p \in Process :
       /\ WF_vars(Adopts(p)) /\ WF_vars(GivesBackDead(p)) /\ SF_vars(TakesCancel(p))
       /\ WF_vars(CancelsRun(p)) /\ WF_vars(ResolvesCancel(p))
       /\ WF_vars(Rests(p) \/ Errs(p) \/ Abandons(p))
       /\ WF_vars(Preempts(p) /\ cancel = "pending")
       /\ WF_vars(CleansAbandoned(p)) /\ WF_vars(DropLocks(p)) /\ WF_vars(DropCommits(p))
       /\ WF_vars(DropSkips(p)) /\ WF_vars(Stales(p)) /\ WF_vars(Releases(p))

FairSpec == Spec /\ Fairness

-----------------------------------------------------------------------------
(* Properties.                                                             *)

\* Every variable keeps to its statuses; only the sessions of a walking process are
\* driven, and a window is locked only during a run-wide close.
TypeOK ==
  /\ run \in {"running", "parked", "over", "cancelled"}
  /\ owner \in Process \cup {Nobody} /\ live \in BOOLEAN
  /\ job \in [Process -> Jobs]
  /\ next \in [Process -> {"walk", "cancel", "release", "handback"}]
  /\ marked \in [Process -> BOOLEAN]
  /\ row \in [Session -> {"pending", "running", "settled"}]
  /\ at \in [Session -> Stages]
  /\ host \in [Session -> Process \cup {Nobody}]
  /\ mode \in [Session -> {"Off", "Open", "Unknown"}]
  /\ claim \in [Session -> FollowUp \cup {Nobody}]
  /\ win \in [Session -> {"none", "open", "closed"} \cup Process]
  /\ perm \in [Session -> Perms]
  /\ lent \in [Session -> BOOLEAN]
  /\ fu \in [FollowUp -> Mail]
  /\ to \in [FollowUp -> Session \cup {Nobody}]
  /\ sent \in [FollowUp -> SUBSET Session]
  /\ cancel \in {"none", "pending", "applied", "refused"}
  /\ \A s \in Session : Driven(s) => host[s] \in Process /\ job[host[s]] = "walk"
  /\ \A s \in Session : win[s] \in Process => job[win[s]] = "dropping"

\* Once a session's close has returned, no follow-up waits for it and no enqueue of
\* one is under way, whoever else closes, adopts or cancels meanwhile: an enqueue
\* either commits before the close takes the window's lock and is refused by the
\* close's second statement, or finds the window closed (migration 0017).
ClosedIsQuiet ==
  \A s \in Session, f \in FollowUp :
    at[s] = "closed" /\ to[f] = s => fu[f] \notin {"inserted", "pending"}

\* Once its person is told that a follow-up was refused, by a cancel, by a close or by
\* a clean-up of another process, it is never sent: each may settle the row between
\* the session's read of it and its claim, and the claim must then let it be.
RefusedIsNotSent ==
  [][\A f \in FollowUp : fu[f] = "refused" => fu'[f] = "refused" /\ sent'[f] = {}]_vars

\* A request that a person may answer has a session that hears the answer, or its
\* process still owes the clean-up that takes it off the list, or is cancelling the
\* run; unless another process has had the lease since the session started.
Owed(p) == marked[p] \/ job[p] \in {"abandon", "drop", "dropping", "stale", "cancel", "gone"}
Answerable(s) ==
  perm[s] = "pending" /\ owner = host[s] /\ live /\ run \in {"running", "parked"}
GhostsWereLent ==
  \A s \in Session :
    Answerable(s) => at[s] = "parked" \/ Owed(host[s]) \/ lent[s]

\* While no store call fails, a clean-up never takes a waiting session's request off
\* the list: the requests it lists are of the lease's owner, whoever that is by then.
AskingIsKept ==
  [][\A s \in Session :
       at[s] = "parked" /\ at'[s] = "parked" /\ perm[s] \in {"pending", "answered"}
         => perm'[s] # "stale"]_vars

\* While no store call fails, a run that was given back after it ended leaves nothing
\* in its queue: no lease is taken on it again, so nothing would ever refuse it.
OverIsQuiet ==
  run \in {"over", "cancelled"} /\ owner = Nobody
    => \A f \in FollowUp : fu[f] \notin {"inserted", "pending"}

\* While no store call fails, each follow-up that was queued is sent or refused,
\* through crashes, panics, preempts and takes by other processes; but for a process
\* that dies between parking or ending the run and closing its windows.
Orphaned == run # "running" /\ owner # Nobody /\ job[owner] = "gone"
Settles == \A f \in FollowUp : fu[f] = "pending" ~> fu[f] \in {"applied", "refused"} \/ Orphaned

\* While no store call fails, a cancel that was asked for is carried out or refused.
Cancelled == cancel = "pending" ~> cancel \in {"applied", "refused"}
=============================================================================
