---------------------------- MODULE CommandQueue ----------------------------
(***************************************************************************)
(* Build, test and run commands: the queue of one (box, class).            *)
(*                                                                         *)
(* Each call of the `command_run` tool (crates/htui-mcp/src/tools/         *)
(* command.rs) owns one row of the table `command_run`.  It queues the     *)
(* row, asks for a slot until it is admitted, runs a child process, beats  *)
(* the row while it runs, ends the row and answers the agent.  The store's *)
(* side (crates/htui-store/src/pg/write.rs) is a claim, of several         *)
(* statements in one transaction, and single-statement beats and ends.     *)
(*                                                                         *)
(* Calls are numbered in the order of (queued_at, id), which the callers   *)
(* choose: a row may be inserted behind a younger one.  A row is only ever *)
(* claimed by its own call, so `claimed_by` is that call.  Statements that *)
(* need a row another transaction holds wait: they are not enabled.        *)
(***************************************************************************)
EXTENDS Naturals, FiniteSets

CONSTANTS
  Calls,      \* the calls of one (box, class), by (queued_at, id)
  LimitOf     \* the class limit each call resolves (settings may differ)

ASSUME QueueAssumption ==
  /\ Calls \subseteq Nat /\ IsFiniteSet(Calls) /\ Calls # {}
  /\ LimitOf \in [Calls -> Nat]

VARIABLES
  status,     \* command_run.status; "none": not inserted
  fresh,      \* heartbeat_at is younger than COMMAND_STALE_AFTER
  reap,       \* the rows a call's claim in flight has ended, not yet committed
  pc,         \* where each call is
  child,      \* whether the command's process group is alive
  said        \* what the call answered

rows == <<status, fresh>>
vars == <<rows, reap, pc, child, said>>

Ended == {"done", "failed", "cancelled"}
\* The stages of claim_command: the row is locked and beaten, then the pair.
InPair == {"paired", "reaped", "admits", "waits"}
InClaim == {"beaten"} \cup InPair
Waiting == {"asking"} \cup InClaim
\* The stages in which the guard `Enqueued` is armed.
Armed == Waiting \cup {"admitted", "running", "finishing", "leaseLost"}
Stages == Armed \cup {"idle", "taken", "dropped", "over"}

TypeOK ==
  /\ status \in [Calls -> Ended \cup {"none", "queued", "running"}]
  /\ fresh \in [Calls -> BOOLEAN]
  /\ reap \in [Calls -> SUBSET Calls]
  /\ pc \in [Calls -> Stages]
  /\ child \in [Calls -> BOOLEAN]
  /\ said \in [Calls -> Ended \cup {"none"}]

Init ==
  /\ status = [c \in Calls |-> "none"]
  /\ fresh = [c \in Calls |-> FALSE]
  /\ reap = [c \in Calls |-> {}]
  /\ pc = [c \in Calls |-> "idle"]
  /\ child = [c \in Calls |-> FALSE]
  /\ said = [c \in Calls |-> "none"]

-----------------------------------------------------------------------------
Queued == {c \in Calls : status[c] = "queued"}
Running == {c \in Calls : status[c] = "running"}

\* A limit of zero reads as one.
Allowed(c) == IF LimitOf[c] = 0 THEN 1 ELSE LimitOf[c]

\* The row locks: a claim holds its own row and those it has reaped.
Locked(c) == pc[c] \in InClaim \/ \E d \in Calls : c \in reap[d]
\* A slip: claims that do not wait for the pair.
PairUnlocked == FALSE
PairHeld == \E c \in Calls : pc[c] \in InPair

\* Slips: a reap of what is alive, and none of dead waiters.
StaleOrRunning(c) == {d \in Calls : d \in Running \/ (d \in Queued /\ ~fresh[d])}
StaleRunning(c) == {d \in Running : ~fresh[d]}

\* FOR UPDATE SKIP LOCKED: a waiter in the middle of asking is alive.  The
\* claim's own row is not skipped: it may have waited long for the pair.
Stale(c) ==
  {d \in Calls :
    /\ ~fresh[d]
    /\ \/ status[d] = "running"
       \/ status[d] = "queued" /\ (d = c \/ ~Locked(d))}

-----------------------------------------------------------------------------
(* Into the queue.  Whether a read of the session's lease finds it lost is *)
(* the environment's choice: the queue's own writes take no fence.         *)

Enqueues(c) ==
  /\ pc[c] = "idle"
  /\ status' = [status EXCEPT ![c] = "queued"]
  /\ fresh' = [fresh EXCEPT ![c] = TRUE]
  /\ pc' = [pc EXCEPT ![c] = "asking"]
  /\ UNCHANGED <<reap, child, said>>

\* The row is inserted, but the call ends before it is told, its guard unarmed.
EnqueueUnheard(c) ==
  /\ pc[c] = "idle"
  /\ status' = [status EXCEPT ![c] = "queued"]
  /\ fresh' = [fresh EXCEPT ![c] = TRUE]
  /\ pc' = [pc EXCEPT ![c] = "over"]
  /\ UNCHANGED <<reap, child, said>>

EnqueueFenced(c) ==
  /\ pc[c] = "idle"
  /\ pc' = [pc EXCEPT ![c] = "over"]
  /\ UNCHANGED <<rows, reap, child, said>>

-----------------------------------------------------------------------------
(* The claim.  Each ask begins with the row, FOR UPDATE, and its beat.     *)

ClaimBegins(c) ==
  /\ pc[c] = "asking" /\ status[c] = "queued" /\ ~Locked(c)
  /\ fresh' = [fresh EXCEPT ![c] = TRUE]
  /\ pc' = [pc EXCEPT ![c] = "beaten"]
  /\ UNCHANGED <<status, reap, child, said>>

\* Not claimable: the row was reaped under its waiter.
ClaimRefused(c) ==
  /\ pc[c] = "asking" /\ status[c] # "queued" /\ ~Locked(c)
  /\ pc' = [pc EXCEPT ![c] = "dropped"]
  /\ UNCHANGED <<rows, reap, child, said>>

\* pg_advisory_xact_lock on the pair.
TakesPair(c) ==
  /\ pc[c] = "beaten" /\ ~PairHeld
  /\ pc' = [pc EXCEPT ![c] = "paired"]
  /\ UNCHANGED <<rows, reap, child, said>>

Reaps(c) ==
  /\ pc[c] = "paired"
  /\ reap' = [reap EXCEPT ![c] = Stale(c)]
  /\ pc' = [pc EXCEPT ![c] = "reaped"]
  /\ UNCHANGED <<rows, child, said>>

\* A slip: one row too many, out of order.
MayRunAtLimit(c) ==
  Cardinality(Running \ reap[c]) <= Allowed(c) /\ c \in Queued \ reap[c]

MayRun(c) ==
  /\ Cardinality(Running \ reap[c]) < Allowed(c)
  /\ c \in Queued \ reap[c]
  /\ \A d \in Queued \ reap[c] : c <= d

Judges(c) ==
  /\ pc[c] = "reaped"
  /\ pc' = [pc EXCEPT ![c] = IF MayRun(c) THEN "admits" ELSE "waits"]
  /\ UNCHANGED <<rows, reap, child, said>>

\* The rows as the claim leaves them: the reaped end, and one may be admitted.
Reaped(c) ==
  [d \in Calls |->
    IF d \notin reap[c] THEN status[d]
    ELSE IF status[d] = "running" THEN "failed" ELSE "cancelled"]

\* The commit.  `heard`: the call lives to read the answer.
Commits(c, heard) ==
  /\ pc[c] \in {"admits", "waits"}
  /\ status' = IF pc[c] = "admits" THEN [Reaped(c) EXCEPT ![c] = "running"] ELSE Reaped(c)
  /\ fresh' = IF pc[c] = "admits" THEN [fresh EXCEPT ![c] = TRUE] ELSE fresh
  /\ reap' = [reap EXCEPT ![c] = {}]
  /\ pc' = [pc EXCEPT ![c] =
       IF ~heard THEN "dropped" ELSE IF pc[c] = "admits" THEN "admitted" ELSE "asking"]
  /\ UNCHANGED <<child, said>>

-----------------------------------------------------------------------------
(* The child and its beats.                                                *)

Spawns(c) ==
  /\ pc[c] = "admitted"
  /\ child' = [child EXCEPT ![c] = TRUE]
  /\ pc' = [pc EXCEPT ![c] = "running"]
  /\ UNCHANGED <<rows, reap, said>>

\* It exits, is killed at its timeout, or could not be started.
ChildEnds(c) ==
  /\ pc[c] = "running"
  /\ child' = [child EXCEPT ![c] = FALSE]
  /\ pc' = [pc EXCEPT ![c] = "finishing"]
  /\ UNCHANGED <<rows, reap, said>>

Beats(c) ==
  /\ pc[c] = "running" /\ status[c] = "running" /\ ~Locked(c)
  /\ fresh' = [fresh EXCEPT ![c] = TRUE]
  /\ UNCHANGED <<status, reap, pc, child, said>>

\* The beat answers false: the row is no longer the call's, the child is killed.
BeatTaken(c) ==
  /\ pc[c] = "running" /\ status[c] # "running" /\ ~Locked(c)
  /\ child' = [child EXCEPT ![c] = FALSE]
  /\ pc' = [pc EXCEPT ![c] = "taken"]
  /\ UNCHANGED <<rows, reap, said>>

\* A read finds the lease lost: in the queue, at admission, or at a beat.
SeesLeaseLost(c) ==
  /\ pc[c] \in {"asking", "admitted", "running"}
  /\ child' = [child EXCEPT ![c] = FALSE]
  /\ pc' = [pc EXCEPT ![c] = IF pc[c] = "running" THEN "leaseLost" ELSE "dropped"]
  /\ UNCHANGED <<rows, reap, said>>

-----------------------------------------------------------------------------
(* The end of a row, and the answer.                                       *)

\* A slip: an end that is none.
HowEndedUnchecked == {"done", "failed", "queued"}
HowEnded == {"done", "failed"}

\* A slip: an end that does not look at the row.
EndUnchecked(c, to) == status' = [status EXCEPT ![c] = to]

\* finish_command by the claimant: only a running row moves.
End(c, to) ==
  status' = [status EXCEPT ![c] = IF status[c] = "running" THEN to ELSE status[c]]

Finishes(c, how) ==
  /\ pc[c] = "finishing" /\ ~Locked(c)
  /\ End(c, how)
  /\ IF status[c] = "running"
     THEN /\ pc' = [pc EXCEPT ![c] = "over"]
          /\ said' = [said EXCEPT ![c] = how]
     ELSE /\ pc' = [pc EXCEPT ![c] = "taken"]
          /\ UNCHANGED said
  /\ UNCHANGED <<fresh, reap, child>>

\* The row is ended, but the call fails or is dropped before it is told.
FinishUnheard(c, how) ==
  /\ pc[c] = "finishing" /\ ~Locked(c)
  /\ End(c, how)
  /\ pc' = [pc EXCEPT ![c] = "dropped"]
  /\ UNCHANGED <<fresh, reap, child, said>>

\* A slip: the answer is how the child ended.
AnswersAsRan(c) ==
  /\ pc[c] = "taken"
  /\ said' = [said EXCEPT ![c] = "done"]
  /\ pc' = [pc EXCEPT ![c] = "over"]
  /\ UNCHANGED <<rows, reap, child>>

\* The queue took the row: the answer is the row as the queue left it.
AnswersRow(c) ==
  /\ pc[c] = "taken"
  /\ said' = [said EXCEPT ![c] = status[c]]
  /\ pc' = [pc EXCEPT ![c] = "over"]
  /\ UNCHANGED <<rows, reap, child>>

FinishLeaseLost(c) ==
  /\ pc[c] = "leaseLost" /\ ~Locked(c)
  /\ End(c, "cancelled")
  /\ pc' = [pc EXCEPT ![c] = "over"]
  /\ UNCHANGED <<fresh, reap, child, said>>

\* The call is cancelled, its connection closes, or the store fails it.  The
\* child's group dies with the future, an open claim rolls back, and the
\* guard's drop will cancel the row.  Rolled back, the beat may be the old one.
CallDrops(c) ==
  /\ pc[c] \in Armed
  /\ child' = [child EXCEPT ![c] = FALSE]
  /\ reap' = [reap EXCEPT ![c] = {}]
  /\ \/ UNCHANGED fresh
     \/ pc[c] \in InClaim /\ fresh' = [fresh EXCEPT ![c] = FALSE]
  /\ pc' = [pc EXCEPT ![c] = "dropped"]
  /\ UNCHANGED <<status, said>>

\* cancel_command, in the task the guard's drop spawns.
Cancels(c) ==
  /\ pc[c] = "dropped" /\ ~Locked(c)
  /\ status' = [status EXCEPT ![c] =
       IF status[c] \in {"queued", "running"} THEN "cancelled" ELSE status[c]]
  /\ pc' = [pc EXCEPT ![c] = "over"]
  /\ UNCHANGED <<fresh, reap, child, said>>

\* The store refuses it, or no runtime is left to run it.
CancelFails(c) ==
  /\ pc[c] = "dropped"
  /\ pc' = [pc EXCEPT ![c] = "over"]
  /\ UNCHANGED <<rows, reap, child, said>>

-----------------------------------------------------------------------------
(* Crashes, other processes, time.                                         *)

\* The host dies.  Its child may live on; its transaction rolls back.
Crashes(c) ==
  /\ pc[c] \in Armed \cup {"taken"}
  /\ reap' = [reap EXCEPT ![c] = {}]
  /\ \/ UNCHANGED fresh
     \/ pc[c] \in InClaim /\ fresh' = [fresh EXCEPT ![c] = FALSE]
  /\ pc' = [pc EXCEPT ![c] = "over"]
  /\ UNCHANGED <<status, child, said>>

OrphanEnds(c) ==
  /\ pc[c] = "over" /\ child[c]
  /\ child' = [child EXCEPT ![c] = FALSE]
  /\ UNCHANGED <<rows, reap, pc, said>>

\* COMMAND_STALE_AFTER without a beat: the host is gone, or it is late.
GoesStale(c) ==
  /\ status[c] \in {"queued", "running"} /\ fresh[c]
  /\ fresh' = [fresh EXCEPT ![c] = FALSE]
  /\ UNCHANGED <<status, reap, pc, child, said>>

Rests ==
  /\ \A c \in Calls : pc[c] = "over"
  /\ UNCHANGED vars

CallStep(c) ==
  \/ Enqueues(c) \/ EnqueueUnheard(c) \/ EnqueueFenced(c)
  \/ ClaimBegins(c) \/ ClaimRefused(c) \/ TakesPair(c) \/ Reaps(c) \/ Judges(c)
  \/ \E heard \in BOOLEAN : Commits(c, heard)
  \/ Spawns(c) \/ ChildEnds(c) \/ Beats(c) \/ BeatTaken(c) \/ SeesLeaseLost(c)
  \/ \E how \in HowEnded : Finishes(c, how) \/ FinishUnheard(c, how)
  \/ AnswersRow(c) \/ FinishLeaseLost(c)
  \/ CallDrops(c) \/ Cancels(c) \/ CancelFails(c)
  \/ Crashes(c) \/ OrphanEnds(c) \/ GoesStale(c)

Next == (\E c \in Calls : CallStep(c)) \/ Rests

Spec == Init /\ [][Next]_vars

(***************************************************************************)
(* Fairness.  A call that waits asks again each second; statements end; a  *)
(* command ends, if only at its timeout; time passes for a row nobody      *)
(* beats.  Postgres grants the pair's lock in the order it is asked for,   *)
(* so a claim that waits for it is not passed over for ever (strong).      *)
(***************************************************************************)
Unattended(c) == pc[c] = "over" /\ GoesStale(c)

Fairness ==
  \A c \in Calls :
    /\ WF_vars(ClaimBegins(c) \/ ClaimRefused(c))
    /\ SF_vars(TakesPair(c))
    /\ WF_vars(Reaps(c) \/ Judges(c) \/ Commits(c, TRUE))
    /\ WF_vars(Spawns(c) \/ ChildEnds(c))
    /\ WF_vars((\E how \in HowEnded : Finishes(c, how)) \/ AnswersRow(c) \/ FinishLeaseLost(c))
    /\ WF_vars(Cancels(c) \/ CancelFails(c))
    /\ WF_vars(Unattended(c))

FairSpec == Spec /\ Fairness

-----------------------------------------------------------------------------
(***************************************************************************)
(* Properties.                                                             *)
(***************************************************************************)

\* However claims, ends and reaps interleave, the running rows fit the limit
\* some call resolved (claim_command's count and its admission are separate
\* statements).
SlotsHold ==
  Running # {} => \E c \in Calls : Cardinality(Running) <= Allowed(c)

\* A command's processes run outside a slot only when its row was reaped for
\* a late beat: nothing else frees the slot of a child that is alive.
ChildInSlot ==
  \A c \in Calls : child[c] => status[c] = "running" \/ ~fresh[c]

\* What the agent is told a command came to is what its row says, even when
\* the end of the command, a reap and a dropped call race.
AnswerIsRow ==
  \A c \in Calls : said[c] \in Ended => status[c] = said[c]

\* A row ends once: a late finish, cancel or reap never rewrites how it ended.
EndsOnce ==
  [][\A c \in Calls : status[c] \in Ended => status'[c] = status[c]]_vars

Slots == INSTANCE SlotPool
  WITH Jobs <- Calls, Allowed <- Allowed, waiting <- Queued, holding <- Running,
       over <- {c \in Calls : status[c] \in Ended}

\* The queue is a pool of slots: each row takes one at most once, and only
\* while fewer than its limit are held.
IsSlotPool == Slots!Spec

\* A call does not wait for ever: neither behind rows whose hosts died, nor
\* behind a claim that waits for it.
Served == \A c \in Calls : pc[c] \in Waiting ~> pc[c] \notin Waiting
=============================================================================
