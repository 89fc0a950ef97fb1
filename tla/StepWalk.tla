------------------------------ MODULE StepWalk ------------------------------
(***************************************************************************)
(* The walk of one run through the phases of its graph: gates, retries,    *)
(* review loops, fan-out groups and their judge, the recovery of a walk    *)
(* that was dropped, and the people who answer it (engine.rs, gate.rs,     *)
(* status.rs, fanout.rs, recover.rs, command.rs).                          *)
(*                                                                         *)
(* The engine reads the rows, decides, and writes what it decided one row  *)
(* at a time. `todo` is what the lease's holder does now, and what it goes *)
(* back to after that: each instruction is a step that says what comes     *)
(* next, and a walk dropped between two loses the rest, so that whoever    *)
(* takes the lease next has the rows alone to go by. There is one `todo`   *)
(* because the lease has one holder (RunLease, OneWalk). A command's guard *)
(* is read before its lease is taken, and it may be carried out much later.*)
(***************************************************************************)
EXTENDS RunStatus, Integers, Sequences, FiniteSets, FiniteSetsExt

CONSTANTS Graphs,     \* the graphs a run may walk: sequences of phases
          People,     \* who may answer it, each with one command on its way
          MaxEvents,  \* bound: commands given, walks dropped and cancels asked for, together
          MaxDrops,   \* bound: the walks dropped where they stand
          Tails,      \* who walks on after a command: the caller (walk), or the box's worker (hand_back)
          Cancels     \* whether the run may be cancelled

Gates == {"always", "on_failure", "never"}
Works == {"none", "ok", "reject", "fail"}

\* What the resolver lets through: every phase has a candidate, and a review has just one.
ASSUME GraphsAssumption ==
  \A g \in Graphs :
    /\ g \in Seq([name : STRING, gate : Gates, fan : Nat \ {0}, judge : BOOLEAN, limit : Nat])
    /\ \A p \in DOMAIN g : g[p].name = "review" => g[p].fan = 1

ASSUME BoundsAssumption ==
  MaxEvents \in Nat /\ MaxDrops \in Nat /\ Tails \subseteq {"walk", "hand_back"} /\ Cancels \in BOOLEAN

VARIABLES
  graph,    \* its graph snapshot: per position a phase's name, gate, fan, judge and limit
  tails,    \* the kind of box it executes on
  run,      \* its status
  blocked,  \* its item is blocked
  rows,     \* its steps, by <<position, attempt, fan-out index>>, the judge's index being -1
  todo,     \* what the holder of its lease does now, and what it goes back to
  asked,    \* each person's command, whose guard was read: a sequence of one instruction or none
  cancel,   \* its cancel: none, asked for, taken up
  events, drops,   \* how many there were
  old,      \* history: the people whose command was overtaken since its guard was read
  late,     \* history: such a command was carried out
  torn,     \* history: a walk was stopped while a rejection retired its rows
  blind     \* history: a walk was taken up over a winner whose merge the frontier cannot tell is owed

rowVars == <<graph, tails, run, blocked, rows>>
history == <<late, torn, blind>>
vars    == <<rowVars, todo, asked, cancel, events, drops, old, history>>

Phases == DOMAIN graph
Gone   == {"superseded", "cancelled"}

\* A claimed run, its steps not created yet.
Init ==
  /\ graph \in Graphs /\ tails \in Tails
  /\ run = "running" /\ blocked = FALSE
  /\ rows = <<>> /\ todo = <<>>
  /\ asked = [h \in People |-> <<>>]
  /\ cancel = "none" /\ events = 0 /\ drops = 0
  /\ old = {} /\ late = FALSE /\ torn = FALSE /\ blind = FALSE

-----------------------------------------------------------------------------
(* What the rows say. `work` is what a finished session left (its output,   *)
(* read as a verdict, and its verify outcome), `merged` that the trees were *)
(* reconciled.                                                              *)

NewRow == [st |-> "pending", ans |-> "none", note |-> "none", work |-> "none",
           sel |-> FALSE, merged |-> FALSE]

At(p) == {k \in DOMAIN rows : k[1] = p}
St(k) == rows[k].st

\* The latest attempt at a position; a slot's index 0 is created first, its judge last.
Last(p) == Max({0} \cup {k[2] : k \in At(p)})

Slot(p, a)  == {<<p, a, i>> : i \in 0..graph[p].fan - 1}
Group(p, a) == {k \in At(p) : k[2] = a /\ k[3] >= 0}
JudgeOf(p, a) == <<p, a, -1>>

\* What the phases after a position read of it: a done step, the selected one of a group.
Won(p) == {k \in Group(p, Last(p)) : St(k) = "done" /\ (rows[k].sel \/ graph[p].fan = 1)}

\* A slip: the attempt in hand is counted as one more retry.
OneMoreAttempt(p, a) == a <= graph[p].limit + 2

MayAttempt(p, a) == a <= graph[p].limit + 1

\* The phase a rejected review goes back to: the nearest implement, or the one before it.
Target(p) ==
  LET named == {q \in Phases : q < p /\ graph[q].name = "implement"}
  IN  IF named # {} THEN Max(named) ELSE p - 1

\* The candidates a selection may choose: done, and not failed by their verify command.
Passing(p, a) == {k \in Group(p, a) : St(k) = "done" /\ rows[k].work # "fail"}

\* A slip: a retired row after the winner counts as a later step's.
RetiredRowsCount ==
  LET won == {p \in Phases : Won(p) # {}}
  IN  IF won # {} /\ \A k \in DOMAIN rows : k[1] <= Max(won) THEN Won(Max(won)) ELSE {}

\* The last position that was won, if everything after it is gone: what may be left to merge.
Frontier ==
  LET won == {p \in Phases : Won(p) # {}}
  IN  IF won # {} /\ \A k \in DOMAIN rows : k[1] > Max(won) => St(k) \in Gone
      THEN Won(Max(won)) ELSE {}

-----------------------------------------------------------------------------
(* Instructions: what to do, and to which row or slot.                      *)

I(op, k) == [op |-> op, key |-> k]

Pass        == I("pass", <<0, 0, 0>>)
Finish(to)  == [op |-> "finish", to |-> to]
Block(then) == [op |-> "block", then |-> then]     \* and then fail the run, or leave it parked
FailRun(block) == IF block THEN Block("fail") ELSE Finish("failed")
ParkRun     == [op |-> "park_run", block |-> FALSE]
Escalate    == [op |-> "park_run", block |-> TRUE]
Admit(p, a) == I("admit", <<p, a, 0>>)
FailHard(k, block)  == [op |-> "fail", key |-> k, block |-> block]
Park(k, miss)       == [op |-> "park", key |-> k, miss |-> miss]
Reject(k, by)       == [op |-> "reject", key |-> k, by |-> by]
Select(k, by)       == [op |-> "select", key |-> k, by |-> by]
Create(S, k, then)  == [op |-> "create", keys |-> S, key |-> k, then |-> then]
Refuse(S, block)    == [op |-> "refuse", keys |-> S, block |-> block]
Unpark(k, then, must) == [op |-> "unpark", key |-> k, then |-> then, must |-> must]

\* The rows of the latest slots of some positions, each with the status it was read in.
Retire(k, positions, then) ==
  LET slots == {j \in DOMAIN rows : j[1] \in positions /\ j[2] = Last(j[1]) /\ St(j) \notin Gone}
  IN  [op |-> "retire", key |-> k, keys |-> slots, was |-> [j \in slots |-> St(j)], then |-> then]

\* A slip: the rows of the last position come first.
LaterFirst(j, k) ==
  \/ j[1] > k[1]
  \/ j[1] = k[1] /\ j[2] < k[2]
  \/ j[1] = k[1] /\ j[2] = k[2] /\ j[3] < k[3]

\* The rows are gone through in the order they are read in.
Before(j, k) ==
  \/ j[1] < k[1]
  \/ j[1] = k[1] /\ j[2] < k[2]
  \/ j[1] = k[1] /\ j[2] = k[2] /\ j[3] < k[3]

First(S) == {k \in S : \A j \in S : ~ Before(j, k)}

\* Where the walk is: the first position nobody won, and what to do there.
Cursor ==
  LET open == {p \in Phases : Won(p) = {}}
      p == Min(open)  a == Last(p)  k == <<p, a, 0>>
      group == Group(p, a)
      live  == {j \in group \cup ({JudgeOf(p, a)} \cap DOMAIN rows) : St(j) = "running"}
  IN  IF open = {} THEN I("done", <<0, 0, 0>>)
      ELSE IF \A j \in group : St(j) \in Gone THEN Admit(p, a + 1)
      ELSE IF graph[p].fan = 1 THEN I(IF St(k) = "pending" THEN "start" ELSE "rest", k)
      ELSE IF live # {} THEN I("rest", CHOOSE j \in live : TRUE)
      ELSE IF Slot(p, a) \subseteq DOMAIN rows /\ \A j \in group : St(j) # "pending" THEN I("choose", k)
      ELSE I("fan", k)

\* A failed row is where the walk rests.
RestsFailed == Cursor.op = "rest" /\ St(Cursor.key) = "failed"

\* A parked run that may be walked on: nothing of it waits for an answer.
Resumable ==
  \/ Cursor.op \in {"admit", "start", "done"}
  \/ RestsFailed /\ rows[Cursor.key].ans = "rejected"

Rejection(k) ==
  IF graph[k[1]].name = "review" /\ Target(k[1]) > 0 THEN I("loop", k) ELSE Finish("failed")

\* What a settled session does at its phase's gate.
Applied(k, verdict, miss) ==
  LET gate == graph[k[1]].gate
  IN  CASE gate = "always" \/ (gate = "on_failure" /\ verdict # "ok") -> Park(k, miss)
        [] gate # "always" /\ verdict = "ok"      -> I("accept", k)
        [] gate = "never"  /\ verdict = "fail"    -> I("spend", k)
        [] gate = "never"  /\ verdict = "reject"  -> I("gate", k)

\* What the walk does at a failed row it comes to rest on.
SettleFailed(k) ==
  IF rows[k].ans = "rejected" THEN Rejection(k)
  ELSE IF rows[k].note # "not_reset" /\ MayAttempt(k[1], k[2] + 1) THEN Admit(k[1], k[2] + 1)
  ELSE IF rows[k].note # "none" THEN ParkRun
  ELSE Finish("failed")

-----------------------------------------------------------------------------
(* What comes next, and the write of one row.                               *)

Doing(op) == todo # <<>> /\ Head(todo).op = op
Now  == Head(todo)
Rest == Now.keys

Then(i) == todo' = <<i>> \o Tail(todo)
Over    == todo' = Tail(todo)
Ends    == todo' = <<>>

Decides     == UNCHANGED rowVars
WritesRows  == UNCHANGED <<graph, tails, run, blocked>>
Without(k)  == [Now EXCEPT !.keys = @ \ {k}]

\* A slip: a write that does not compare the status it was decided on.
MovesWhatever(k, from, row, next) ==
  rows' = [rows EXCEPT ![k] = row] /\ Then(next) /\ WritesRows

\* A row moves only from the status it was decided on, or the walk ends with a stale write.
Moves(k, from, row, next) ==
  /\ IF St(k) = from THEN rows' = [rows EXCEPT ![k] = row] /\ Then(next) ELSE rows' = rows /\ Ends
  /\ WritesRows

To(k, st) == [rows[k] EXCEPT !.st = st]

-----------------------------------------------------------------------------
(* The walk of a plain step.                                                *)

\* One pass of run_to_rest.
Passes ==
  /\ Doing("pass") /\ Decides
  /\ LET k == Cursor.key IN
     CASE run # "running" -> Ends
       [] run = "running" /\ Cursor.op = "done" -> todo' = <<Finish("done")>> \o todo
       [] run = "running" /\ Cursor.op = "rest" ->
            IF RestsFailed THEN todo' = <<SettleFailed(k)>> \o todo ELSE Ends
       [] run = "running" /\ Cursor.op \notin {"done", "rest"} -> todo' = <<Cursor>> \o todo

\* A slot's steps are created, or no agent can run the phase and the run fails.
Admits ==
  /\ Doing("admit") /\ Decides
  /\ \/ Then(Create(Slot(Now.key[1], Now.key[2]), Now.key, "none"))
     \/ Then(Block("fail"))

\* create_step: a slot holds one row per index, a second one is a constraint error.
Creates ==
  /\ Doing("create") /\ WritesRows
  /\ \/ /\ Rest = {} /\ rows' = rows
        /\ IF Now.then = "none" THEN Over ELSE Then(I(Now.then, Now.key))
     \/ \E k \in First(Rest) :
          IF k \in DOMAIN rows THEN rows' = rows /\ Ends
          ELSE /\ rows' = [j \in DOMAIN rows \cup {k} |-> IF j = k THEN NewRow ELSE rows[j]]
               /\ Then(Without(k))

\* A step, or a group's judge, is started.
Starts ==
  Doing("start") /\ LET k == Now.key IN
  Moves(k, "pending", To(k, "running"), I(IF k[3] < 0 THEN "judge" ELSE "session", k))

\* A plain step's session: refused before its first token, or it leaves what it leaves and is
\* settled; how it stopped may fail a step whose output is good.
Sessions ==
  /\ Doing("session") /\ WritesRows
  /\ LET k == Now.key IN
     \/ rows' = rows /\ \E block \in BOOLEAN : Then(FailHard(k, block))
     \/ \E work \in IF graph[k[1]].name = "review" THEN Works ELSE Works \ {"reject"} :
          \E verdict \in {work, "fail"} \ {"none"} :
            rows' = [rows EXCEPT ![k].work = work] /\ Then(Applied(k, verdict, "fail"))

\* park_step: the step and its run in one transaction.
Parks ==
  /\ Doing("park")
  /\ LET k == Now.key IN
     IF St(k) = "running" /\ run = "running"
     THEN rows' = [rows EXCEPT ![k] = To(k, "awaiting")] /\ run' = "awaiting" /\ Ends
     ELSE UNCHANGED <<rows, run>> /\ IF Now.miss = "fail" THEN Then(FailHard(k, FALSE)) ELSE Ends
  /\ UNCHANGED <<graph, tails, blocked>>

Accepts ==
  Doing("accept") /\ LET k == Now.key IN
  Moves(k, "running", [rows[k] EXCEPT !.st = "done", !.ans = "skipped"], I("merge", k))

FailsHard ==
  Doing("fail") /\ LET k == Now.key IN
  Moves(k, "running", To(k, "failed"), FailRun(Now.block))

\* A failure that may spend an attempt.
Spends ==
  Doing("spend") /\ LET k == Now.key IN
  Moves(k, "running", To(k, "failed"),
        IF MayAttempt(k[1], k[2] + 1) THEN Admit(k[1], k[2] + 1) ELSE Finish("failed"))

\* A rejection nobody is asked about is recorded as if somebody had been.
GatesItself ==
  Doing("gate") /\ LET k == Now.key IN
  Moves(k, "running", To(k, "awaiting"), Reject(k, "walk"))

\* answer_gate, rejected: by the walk on a review, by a judge that failed, or by a person.
RejectsRow ==
  Doing("reject") /\ LET k == Now.key IN
  Moves(k, "awaiting", [rows[k] EXCEPT !.st = "failed", !.ans = "rejected"],
        IF Now.by = "person" THEN Unpark(k, "rejection", FALSE)
        ELSE IF k[3] < 0 THEN ParkRun ELSE I("loop", k))

\* reconcile_done_step: the trees are merged, or the run is parked with the step done.
Merges ==
  /\ Doing("merge") /\ WritesRows
  /\ \/ rows' = [rows EXCEPT ![Now.key].merged = TRUE] /\ Over
     \/ rows' = rows /\ Then(ParkRun)

\* review_loop: a rejected review sends its target back, or gives up on it.
Loops ==
  /\ Doing("loop") /\ Decides
  /\ LET p == Now.key[1]  t == Target(p)  a == IF t > 0 THEN Last(t) ELSE 0 IN
     \/ a = 0 /\ Then(Finish("failed"))
     \/ a > 0 /\ (a > 1 \/ ~ MayAttempt(t, a + 1)) /\ Then(Escalate)   \* no progress, or no attempt left
     \/ a > 0 /\ MayAttempt(t, a + 1) /\ Then(Retire(Now.key, t..p, "none"))

\* retire_slot: what has a result is superseded, what has none is cancelled.
Retires ==
  /\ Doing("retire")
  /\ \/ /\ Rest = {} /\ Decides
        /\ IF Now.then = "none" THEN Over
           ELSE Then(Unpark(<<Now.key[1], Now.key[2] + 1, 0>>, "admit", FALSE))
     \/ \E k \in First(Rest) :
          Moves(k, Now.was[k],
                To(k, IF Now.was[k] \in {"running", "failed"} THEN "cancelled" ELSE "superseded"), Without(k))

-----------------------------------------------------------------------------
(* The run.                                                                 *)

\* transition_run.
ParksRun ==
  /\ Doing("park_run")
  /\ run' = IF run = "running" THEN "awaiting" ELSE run
  /\ IF run = "running" /\ Now.block THEN Then(Block("rest")) ELSE Ends
  /\ UNCHANGED <<graph, tails, blocked, rows>>

Finishes ==
  /\ Doing("finish") /\ Ends
  /\ run' = IF RunCanMove(run, Now.to) THEN Now.to ELSE run
  /\ UNCHANGED <<graph, tails, blocked, rows>>

Blocks ==
  /\ Doing("block") /\ blocked' = TRUE
  /\ IF Now.then = "fail" THEN Then(Finish("failed")) ELSE Ends
  /\ UNCHANGED <<graph, tails, run, rows>>

-----------------------------------------------------------------------------
(* Fan-out groups.                                                          *)

\* drive_group: what its slot lacks is created; its pending candidates run, or are all refused.
Fans ==
  /\ Doing("fan") /\ Decides
  /\ LET p == Now.key[1]  a == Now.key[2]
         missing == Slot(p, a) \ DOMAIN rows
         pending == {k \in Group(p, a) : St(k) = "pending"}
     IN  \/ missing # {} /\ Then(Create(missing, Now.key, "fan"))
         \/ missing # {} /\ Then(Block("fail"))
         \/ missing = {} /\ Then([op |-> "group", key |-> Now.key, wait |-> pending, live |-> {}])
         \/ missing = {} /\ \E block \in BOOLEAN : Then(Refuse(pending, block))

\* Each is started and failed, and then the run.
Refuses ==
  /\ Doing("refuse")
  /\ \/ Rest = {} /\ Decides /\ Then(FailRun(Now.block))
     \/ \E k \in First(Rest) :
          IF St(k) = "pending" THEN Moves(k, "pending", To(k, "running"), Now)
          ELSE Moves(k, "running", To(k, "failed"), Without(k))

\* The candidates' sessions, side by side: each starts, leaves its work, and is settled.
Still(wait, live) == Then([Now EXCEPT !.wait = wait, !.live = live])

CandidateStarts ==
  /\ Doing("group") /\ WritesRows
  /\ \E k \in Now.wait :
       rows' = [rows EXCEPT ![k] = To(k, "running")] /\ Still(Now.wait \ {k}, Now.live \cup {k})

CandidateWorks ==
  /\ Doing("group") /\ WritesRows
  /\ \E k \in Now.live, work \in {"ok", "fail"} :
       rows[k].work = "none" /\ rows' = [rows EXCEPT ![k].work = work] /\ UNCHANGED todo

\* A candidate's verify outcome is recorded and does not fail it.
CandidateEnds ==
  /\ Doing("group") /\ WritesRows
  /\ \E k \in Now.live, to \in {"done", "failed"} :
       /\ to = "done" => rows[k].work # "none"
       /\ rows' = [rows EXCEPT ![k] = To(k, to)] /\ Still(Now.wait, Now.live \ {k})

\* All have settled; the run fails if every one of them was refused.
GroupEnds ==
  /\ Doing("group") /\ Now.wait = {} /\ Now.live = {} /\ Decides
  /\ \/ Over
     \/ /\ \A k \in Group(Now.key[1], Now.key[2]) : St(k) = "failed" /\ rows[k].work = "none"
        /\ Then(Finish("failed"))

\* select_stage: retire the slot, park it for a person, or pick, alone or by a judge.
Chooses ==
  /\ Doing("choose") /\ Decides
  /\ LET p == Now.key[1]  a == Now.key[2]  j == JudgeOf(p, a)
         judge == IF j \in DOMAIN rows THEN St(j) ELSE "none"
         passing == Passing(p, a)
         Picked(w) == Then(Select(w, "walk"))
     IN  IF judge \in {"failed", "awaiting"} THEN Then(ParkRun)
         ELSE IF judge = "pending"
         THEN Then(I("start", j)) \/ Then(ParkRun) \/ Then(Refuse({j}, FALSE))
         ELSE IF passing = {} /\ graph[p].gate = "never"
         THEN Then(IF MayAttempt(p, a + 1) THEN Retire(Now.key, {p}, "none") ELSE Finish("failed"))
         ELSE IF passing = {} \/ graph[p].gate = "always" \/ ~ graph[p].judge THEN Then(ParkRun)
         ELSE IF \E w \in passing : passing = {w} THEN \E w \in passing : Picked(w)
         ELSE Then(Create({j}, j, "start")) \/ Then(ParkRun) \/ Then(Finish("failed"))

\* The judge's sessions name a candidate, or fail and leave the choice to a person.
JudgeSessions ==
  /\ Doing("judge") /\ Decides
  /\ \/ \E w \in Passing(Now.key[1], Now.key[2]) : Then(Select(w, "judge"))
     \/ Then(I("gate", Now.key))

\* A slip: the chosen row alone is written, its group as it was.
SelectsAlone ==
  /\ Doing("select") /\ WritesRows
  /\ LET w == Now.key IN
     IF St(w) \in {"done", "awaiting"}
     THEN rows' = [rows EXCEPT ![w].sel = TRUE, ![w].st = "done"] /\ Then(I("merge", w))
     ELSE rows' = rows /\ Ends

\* select_fanout: the winner is done, its candidates and its judge are settled with it.
Selects ==
  /\ Doing("select") /\ WritesRows
  /\ LET w == Now.key
         Settle(k) ==
           IF k = w THEN [rows[k] EXCEPT !.sel = TRUE, !.st = "done"]
           ELSE IF k \in Group(w[1], w[2])
             THEN [rows[k] EXCEPT !.sel = FALSE,
                     !.st = IF @ \in {"pending", "awaiting", "done"} THEN "superseded" ELSE @]
           ELSE IF k = JudgeOf(w[1], w[2])
             THEN [rows[k] EXCEPT !.st = IF @ \in {"pending", "running", "awaiting"} THEN "done" ELSE @]
           ELSE rows[k]
     IN  IF St(w) \in {"done", "awaiting"}
         THEN /\ rows' = [k \in DOMAIN rows |-> Settle(k)]
              /\ Then(IF Now.by = "person" THEN Unpark(w, "merge", FALSE) ELSE I("merge", w))
         ELSE /\ rows' = rows
              /\ IF Now.by = "judge" THEN Then(I("gate", JudgeOf(w[1], w[2]))) ELSE Ends

-----------------------------------------------------------------------------
(* Recovery: classify and land each row found running, then the parks and   *)
(* the failures whose second write is missing.                              *)

\* A running run nobody walks is swept: a lapsed or given back lease.
Sweeps ==
  /\ todo = <<>> /\ run = "running"
  /\ todo' = <<I("recover", <<0, 0, 0>>), I("rederive", <<0, 0, 0>>), Pass>>
  /\ UNCHANGED <<rowVars, asked, cancel, events, drops, old, history>>

MergesFrontier == IF Frontier = {} THEN Over ELSE \E w \in Frontier : Then(I("merge", w))

Recovers ==
  /\ Doing("recover") /\ Decides
  /\ LET running == {k \in DOMAIN rows : St(k) = "running"} IN
     IF running = {} THEN MergesFrontier ELSE Then([op |-> "land", keys |-> running])

\* A row whose session's work is recorded is settled, one without it undone.
Lands ==
  /\ Doing("land") /\ WritesRows
  /\ \/ Rest = {} /\ Over /\ rows' = rows
     \/ \E k \in First(Rest) :
          LET worked == rows[k].work # "none" IN
          IF graph[k[1]].fan > 1
          THEN /\ rows' = [rows EXCEPT ![k] =
                             IF worked /\ k[3] >= 0 THEN To(k, "done")
                             ELSE [To(k, "failed") EXCEPT !.note = "interrupted"]]
               /\ Then(Without(k))
          ELSE /\ rows' = rows
               /\ todo' = <<IF worked THEN Applied(k, rows[k].work, "end") ELSE I("reset", k), Without(k)>>
                          \o Tail(todo)

\* Its trees are reset and the next attempt admitted, or they cannot be and the run is parked.
Resets ==
  /\ Doing("reset") /\ WritesRows
  /\ LET k == Now.key
         Interrupted(note) == rows' = [rows EXCEPT ![k] = [To(k, "failed") EXCEPT !.note = note]]
     IN  \/ St(k) # "running" /\ rows' = rows /\ Over
         \/ /\ St(k) = "running" /\ Interrupted("interrupted")
            /\ Then(IF MayAttempt(k[1], k[2] + 1) THEN Admit(k[1], k[2] + 1) ELSE ParkRun)
         \/ St(k) = "running" /\ Interrupted("not_reset") /\ Then(ParkRun)

\* A slip: a step that awaits under a run whose park was cut short is not seen.
RederivesFailures ==
  /\ Doing("rederive") /\ Decides
  /\ IF run = "running" /\ RestsFailed THEN Then(SettleFailed(Cursor.key)) ELSE Over

Rederives ==
  /\ Doing("rederive") /\ Decides
  /\ LET parked == /\ \A k \in DOMAIN rows : St(k) # "running"
                   /\ \E k \in DOMAIN rows : St(k) = "awaiting"
     IN  \/ run = "running" /\ parked /\ Then(ParkRun)
         \/ run = "running" /\ ~ parked /\ RestsFailed /\ Then(SettleFailed(Cursor.key))
         \/ ~ (run = "running" /\ (parked \/ RestsFailed)) /\ Over

-----------------------------------------------------------------------------
(* Commands. On a terminal's box the command walks on in the same call; on a *)
(* worker's box a terminal hands its tail back: it stops after the command's *)
(* own writes and leaves the run to the worker's sweep.                      *)

Asks(h, i) ==
  /\ asked[h] = <<>> /\ events < MaxEvents
  /\ asked' = [asked EXCEPT ![h] = <<i>>] /\ events' = events + 1
  /\ UNCHANGED <<rowVars, todo, cancel, drops, old, history>>

\* The steps a person is asked about; a judge's row is not one.
Asked == {k \in DOMAIN rows : St(k) = "awaiting" /\ k[3] >= 0}

\* answer_gate: approved (what has an output) or skipped, or rejected.
Approves(h) == \E k \in Asked : Asks(h, I("approve", k))
Rejects(h)  == \E k \in Asked : Asks(h, Reject(k, "person"))

\* retry_step: the latest attempt, within its budget unless it was interrupted.
Retries(h) ==
  \E k \in DOMAIN rows :
    /\ graph[k[1]].fan = 1 /\ St(k) \in {"awaiting", "failed"} /\ k[2] = Last(k[1])
    /\ run \in {"running", "awaiting"} /\ ~ blocked
    /\ MayAttempt(k[1], k[2] + 1) \/ (St(k) = "failed" /\ rows[k].note # "none")
    /\ LET unpark == Unpark(k, "readmit", run = "awaiting")
       IN  Asks(h, IF St(k) = "awaiting" THEN [unpark EXCEPT !.op = "retry"] ELSE unpark)

\* retry_step on a group: its slot is retired as it was read.
RetriesGroup(h) ==
  \E p \in Phases :
    LET a == Last(p) IN
    /\ graph[p].fan > 1 /\ a > 0 /\ run = "awaiting" /\ ~ blocked
    /\ \A k \in Group(p, a) : ~ rows[k].sel
    /\ MayAttempt(p, a + 1)
    /\ Asks(h, Retire(<<p, a, 0>>, {p}, "unpark"))

\* select_fanout, by a person.
Picks(h) ==
  \E w \in DOMAIN rows :
    LET group == Group(w[1], w[2]) IN
    /\ w \in group /\ group # {w} /\ run = "awaiting"
    /\ \A k \in group : ~ rows[k].sel
    /\ St(w) \in {"done", "awaiting"}
    /\ Asks(h, Select(w, "person"))

\* unblock: a blocked item is opened; an open one's parked run is resumed if it may be.
Unblocks ==
  /\ blocked /\ run = "awaiting" /\ events < MaxEvents
  /\ blocked' = FALSE /\ events' = events + 1
  /\ UNCHANGED <<graph, tails, run, rows, todo, asked, cancel, drops, old, history>>

Resumes(h) ==
  ~ blocked /\ run = "awaiting" /\ Resumable /\ Asks(h, I("resume", <<0, 0, 0>>))

\* A command that writes nothing unless its own step still waits for its answer.
Guarded(i) == i.op \in {"approve", "reject", "retry"}

\* The lease is free and the run's status lets it be taken.
Takes(h) ==
  /\ todo = <<>> /\ asked[h] # <<>> /\ run \in {"running", "awaiting"}
  /\ todo' = asked[h] \o (IF tails = "walk" THEN <<Pass>> ELSE <<>>)
  /\ asked' = [asked EXCEPT ![h] = <<>>]
  /\ late' = (late \/ (h \in old /\ ~ Guarded(Head(asked[h])))) /\ old' = old \ {h}
  /\ UNCHANGED <<rowVars, cancel, events, drops, torn, blind>>

ApprovesRow ==
  Doing("approve") /\ LET k == Now.key IN
  Moves(k, "awaiting", [rows[k] EXCEPT !.st = "done", !.ans = "approved"], Unpark(k, "merge", FALSE))

RetriesRow ==
  Doing("retry") /\ LET k == Now.key IN
  Moves(k, "awaiting", [rows[k] EXCEPT !.st = "superseded", !.ans = "retried"],
        Unpark(k, "readmit", Now.must))

\* What is left of a command once its run is running: a worker does what the sweep does anyway.
Unparks ==
  /\ Doing("unpark")
  /\ run' = IF run = "awaiting" THEN "running" ELSE run
  /\ IF run # "awaiting" /\ Now.must THEN Ends
     ELSE IF tails = "hand_back" /\ Now.then \in {"merge", "rejection", "settle"} THEN Over
     ELSE Then(I(Now.then, Now.key))
  /\ UNCHANGED <<graph, tails, blocked, rows>>

\* The parts of a command that read the rows when their turn comes.
Rejections == Doing("rejection") /\ Decides /\ Then(Rejection(Now.key))

Readmits == Doing("readmit") /\ Decides /\ Then(Admit(Now.key[1], Last(Now.key[1]) + 1))

WalksOn ==
  /\ Doing("resume") /\ Decides
  /\ IF run = "awaiting" /\ Resumable THEN Then(Unpark(Now.key, "settle", TRUE)) ELSE Over

Settles ==
  /\ Doing("settle") /\ Decides
  /\ IF RestsFailed THEN Then(SettleFailed(Cursor.key)) ELSE MergesFrontier

-----------------------------------------------------------------------------
(* The cancel, and walks that stop where they stand.                        *)

RequestsCancel ==
  /\ Cancels /\ cancel = "none" /\ cancel' = "asked"
  /\ events < MaxEvents /\ events' = events + 1
  /\ UNCHANGED <<rowVars, todo, asked, drops, old, history>>

\* History: what is left undone is the tail of a rejection's retirement.
Tears == torn' = (torn \/ (Doing("retire") /\ Rest # {} /\ graph[Now.key[1]].fan = 1))

\* The walk is dropped, and the cancel goes to the rows as it finds them.
TakesCancel ==
  /\ cancel = "asked" /\ run \in {"running", "awaiting"}
  /\ cancel' = "taken" /\ todo' = <<I("cancel", <<0, 0, 0>>)>> /\ Tears
  /\ UNCHANGED <<rowVars, asked, events, drops, old, late, blind>>

\* A slip: the steps that wait for an answer are left as they are.
CancelsTheLive ==
  /\ Doing("cancel") /\ Decides
  /\ Then([op |-> "cancels", keys |-> {k \in DOMAIN rows : St(k) \in {"pending", "running"}}])

CancelsRun ==
  /\ Doing("cancel") /\ Decides
  /\ Then([op |-> "cancels", keys |-> {k \in DOMAIN rows : St(k) \notin TerminalStep}])

CancelsRows ==
  /\ Doing("cancels") /\ WritesRows
  /\ \/ Rest = {} /\ rows' = rows /\ Then(Finish("cancelled"))
     \/ \E k \in First(Rest) : rows' = [rows EXCEPT ![k] = To(k, "cancelled")] /\ Then(Without(k))

\* A crash, a panic, a lost lease; a cancel that is cut short is taken up again.
Drops ==
  /\ todo # <<>> /\ drops < MaxDrops /\ events < MaxEvents
  /\ todo' = <<>> /\ drops' = drops + 1 /\ events' = events + 1 /\ Tears
  /\ cancel' = IF cancel = "taken" /\ run \in {"running", "awaiting"} THEN "asked" ELSE cancel
  /\ UNCHANGED <<rowVars, asked, old, late, blind>>

-----------------------------------------------------------------------------

\* History: what stands after the last winner is of older attempts alone, yet it hides the winner.
Overlooks ==
  LET won == {p \in Phases : Won(p) # {}}
      after == {k \in DOMAIN rows : k[1] > Max(won) /\ St(k) \notin Gone}
  IN  won # {} /\ after # {} /\ \A k \in after : k[2] < Last(k[1])

WalksStep ==
  \/ Passes \/ Admits \/ Creates \/ Starts \/ Sessions \/ Parks \/ Accepts \/ FailsHard \/ Spends
  \/ GatesItself \/ RejectsRow \/ Merges \/ Loops \/ Retires \/ ParksRun \/ Finishes \/ Blocks

WalksGroup ==
  \/ Fans \/ Refuses \/ CandidateStarts \/ CandidateWorks \/ CandidateEnds \/ GroupEnds
  \/ Chooses \/ JudgeSessions \/ Selects

Serves ==
  \/ Recovers \/ Lands \/ Resets \/ Rederives \/ CancelsRun \/ CancelsRows
  \/ ApprovesRow \/ RetriesRow \/ Unparks \/ Rejections \/ Readmits \/ WalksOn \/ Settles

Walks ==
  /\ WalksStep \/ WalksGroup \/ Serves
  /\ old' = old \cup {h \in People : asked[h] # <<>>}
  /\ blind' = (blind \/ ((Doing("recover") \/ Doing("settle")) /\ Overlooks))
  /\ UNCHANGED <<asked, cancel, events, drops, late, torn>>

Commands(h) ==
  \/ /\ asked[h] = <<>> /\ events < MaxEvents
     /\ Approves(h) \/ Rejects(h) \/ Retries(h) \/ RetriesGroup(h) \/ Picks(h) \/ Resumes(h)
  \/ Takes(h)

Next ==
  \/ Walks \/ Sweeps \/ Unblocks \/ RequestsCancel \/ TakesCancel \/ Drops
  \/ \E h \in People : Commands(h)

Spec == Init /\ [][Next]_vars

\* The holder's process is scheduled: WF_vars(Walks), written out, Walks being enabled exactly
\* when there is something to do. The sweep comes again, and so does the poll for the cancel.
FairSpec ==
  /\ Spec
  /\ []<>(todo = <<>>) \/ []<><<Walks>>_vars
  /\ WF_vars(Sweeps) /\ WF_vars(TakesCancel)

-----------------------------------------------------------------------------
(* Properties.                                                              *)

\* Its answer, its note, its session's work, whether it was selected and its trees merged.
Rows ==
  [st : StepStatuses, ans : {"none", "skipped", "approved", "rejected", "retried"},
   note : {"none", "interrupted", "not_reset"}, work : Works, sel : BOOLEAN, merged : BOOLEAN]

\* Every row is a candidate or a judge of a position of the graph and its fields are what the
\* columns of run_step may hold; the counters stay within their bounds.
TypeOK ==
  /\ graph \in Graphs /\ tails \in Tails /\ run \in RunStatuses \ {"queued", "stopped"} /\ blocked \in BOOLEAN
  /\ \A k \in DOMAIN rows :
       /\ k[1] \in Phases /\ k[2] \in Nat \ {0} /\ k[3] \in -1..graph[k[1]].fan - 1
       /\ rows[k] \in Rows
  /\ \A h \in People : asked[h] = <<>> \/ (Len(asked[h]) = 1 /\ asked[h][1].op \in
       {"approve", "reject", "retry", "unpark", "retire", "select", "resume"})
  /\ cancel \in {"none", "asked", "taken"} /\ events \in 0..MaxEvents /\ drops \in 0..MaxDrops
  /\ old \subseteq People /\ {late, torn, blind} \subseteq BOOLEAN

Settled(p) == \E k \in DOMAIN rows : rows[k].merged /\ k \in Won(p)

\* A run is done only when every phase has a winner whose trees were merged, and no step runs on
\* an earlier phase's unmerged work: neither a park over a conflict, a crash between a winner and
\* its merge, a resume nor a pick loses a merge. (Reconciling is a separate write that follows the
\* row's; only the frontier tells whoever comes next that it is owed: recover.rs, frontier.)
Whole ==
  ~ late /\ ~ torn /\ ~ blind =>
  /\ run = "done" => \A p \in Phases : Settled(p)
  /\ \A k \in DOMAIN rows : St(k) = "running" => \A p \in 1..k[1] - 1 : Settled(p)

\* At most one candidate of an attempt is selected, whoever chooses: the only survivor, the judge
\* and two people may all be about to (write.rs, select_fanout).
OneWinner ==
  \A j, k \in DOMAIN rows : rows[j].sel /\ rows[k].sel /\ j[1] = k[1] /\ j[2] = k[2] => j = k

\* A step that waits to run, runs, or waits for an answer.
InFlight(k) == St(k) \in {"pending", "running", "awaiting"}

\* The rows in flight belong to one attempt of one phase: no crash, retry or loop back leaves a
\* step of an overtaken attempt to run or to be answered beside the next (gate.rs, retire).
OneFront ==
  ~ late /\ ~ torn =>
  \A j, k \in DOMAIN rows : InFlight(j) /\ InFlight(k) => j[1] = k[1] /\ j[2] = k[2]

\* A run that ended has no step that runs or waits for an answer: the failures, the refusals and
\* the cancel settle their rows first, wherever a walk was cut short (engine.rs, cancel_leased).
EndedIsSettled ==
  ~ late /\ ~ torn /\ run \in TerminalRun => \A k \in DOMAIN rows : St(k) \notin {"running", "awaiting"}

\* A phase outside every review loop has at most retry_limit + 1 attempts and one for each that
\* was interrupted, whoever asks for them: the gate, recovery, the walk that rests on a failed row
\* or a person (status.rs, may_attempt). A cancel cut short leaves rows to create again.
InLoop(p) == \E r \in Phases : graph[r].name = "review" /\ Target(r) < p /\ p <= r

Budgeted ==
  ~ late /\ cancel = "none" =>
  \A p \in Phases : ~ InLoop(p) =>
    Last(p) <= graph[p].limit + 1 + Cardinality({k \in At(p) : k[3] >= 0 /\ rows[k].note # "none"})

\* How the rows show as the phases a run has passed: those before the first whose winner's trees
\* are not merged.
Passed == Min({p \in Phases : ~ Settled(p)} \cup {Len(graph) + 1}) - 1

Phased == INSTANCE PhaseRun WITH
  plan    <- [p \in Phases |-> [limit |-> graph[p].limit,
                               back  |-> IF graph[p].name = "review" THEN Target(p) ELSE 0]],
  tries   <- [p \in Phases |-> Last(p)],
  passed  <- Passed,
  outcome <- IF run \in TerminalRun THEN run ELSE "none",
  astray  <- late \/ torn \/ blind

\* The walk implements PhaseRun: whatever is dropped, retried, picked or resumed, a phase is tried
\* only when the trees of all before it are merged, one is passed at a time, and a rejection goes
\* back to the phase it judges once (engine.rs, run_to_rest and review_loop).
IsPhaseRun == Phased!Spec

\* A running run comes to rest: it ends, or it is parked and somebody is asked (engine.rs,
\* run_to_rest and the sweep that takes a dropped walk up).
Rests == run = "running" ~> run # "running"

\* "Every **live** row after `p` was created after `p`'s reconcile returned, so a live one means
\* there is nothing to re-reconcile" (recover.rs:361): so no run is done with a merge lost.
LiveIsMerged == ~ late /\ ~ torn /\ run = "done" => \A p \in Phases : Settled(p)
=============================================================================
