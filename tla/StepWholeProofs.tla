--------------------------- MODULE StepWholeProofs ---------------------------
(***************************************************************************)
(* Theorems about StepWalk, continued: no merge is lost. A winner whose    *)
(* trees are not merged is the last there is, and everything after it is   *)
(* gone, so that whoever takes the run up finds it at the frontier         *)
(* (Owing); while a walk does anything but make that merge, or lead to it, *)
(* there is none (Clean).  And that the walk implements PhaseRun: each of  *)
(* its steps moves one phase at most (PhaseMoves), for what an instruction *)
(* that rejects, retires or creates may count on (PhaseNeed).              *)
(***************************************************************************)
EXTENDS StepFrontProofs

-----------------------------------------------------------------------------
(* The invariant.                                                           *)

\* No merge is owed, or none but one position's.
CleanBut(p) == \A q \in Phases : q # p /\ Won(q) # {} => Settled(q)
Clean       == \A q \in Phases : Won(q) # {} => Settled(q)

\* A row of a latest attempt that is not gone has only merged winners before it, and so has a
\* group that was not chosen from.
Cleared(q) ==
  /\ \A k \in At(q) : k[2] = Last(q) => St(k) \in Gone
  /\ graph[q].fan > 1 /\ Last(q) > 0 => Chosen(q)

Owing == \A p, q \in Phases : p < q /\ Won(p) # {} /\ ~ Settled(p) => Cleared(q)

\* The merge that is owed is the one that comes next.
MergeNeed(k) == k \in Won(k[1]) /\ CleanBut(k[1])

\* A worker's box goes back to nothing after a command's own writes: its sweep will merge.
HandsBack == tails = "hand_back" => Tail(todo) = <<>>

ResumeNeed == run = "awaiting" /\ Resumable

\* What leads to a merge, or ends the walk.
Dirty(i) ==
  \/ i.op \in {"merge", "recover", "settle", "resume", "approve", "retry"}
  \/ i.op \in {"finish", "block", "park_run", "cancel", "cancels"}
  \/ i.op \in {"reject", "select"} /\ i.by = "person"
  \/ i.op = "unpark" /\ i.then \in {"merge", "settle"}

WholeNeed(i) ==
  /\ ~ Dirty(i) => Clean
  /\ i.op = "merge" \/ (i.op = "unpark" /\ i.then = "merge") => MergeNeed(i.key)
  /\ i.op = "resume" => ResumeNeed
  /\ i.op = "finish" /\ i.to = "done" => \A p \in Phases : Settled(p)
  /\ \/ i.op \in {"resume", "approve"} \/ (i.op = "select" /\ i.by = "person")
     \/ i.op = "unpark" /\ i.then \in {"merge", "settle"}
     => HandsBack

WholeAt ==
  /\ Owing
  /\ todo # <<>> => WholeNeed(Head(todo))
  /\ run = "done" => \A p \in Phases : Settled(p)
  /\ \A h \in People \ old : asked[h] # <<>> /\ asked[h][1].op = "resume" => ResumeNeed

WholeInv == ~ late /\ ~ torn /\ ~ blind => WholeAt

-----------------------------------------------------------------------------
(* Winners and the merges they are owed.                                    *)

LEMMA SettledIs ==
  \A p : /\ Settled(p) = \E k \in Won(p) : rows[k].merged
         /\ Settled(p)' = \E k \in Won(p)' : rows'[k].merged
BY DEF Settled, Won, Group, At

LEMMA WonOne ==
  ASSUME RowsInv, graph \in Graphs, Kinds, OneWinner, NEW p \in Phases, NEW j \in Won(p), NEW k \in Won(p)
  PROVE  j = k
<1>1. /\ j \in DOMAIN rows /\ j[1] = p /\ j[2] = Last(p) /\ (rows[j].sel \/ graph[p].fan = 1)
      /\ k \in DOMAIN rows /\ k[1] = p /\ k[2] = Last(p) /\ (rows[k].sel \/ graph[p].fan = 1)
  BY DEF Won, Group, At
<1>2. CASE graph[p].fan = 1
  <2>1. j[3] = 0 /\ k[3] = 0
    BY <1>1, <1>2 DEF Kinds
  <2> QED
    BY <1>1, <2>1, KeyFacts
<1>3. CASE graph[p].fan # 1
  BY <1>1, <1>3 DEF OneWinner
<1> QED
  BY <1>2, <1>3

LEMMA CleanOwes == Clean' => Owing'
BY DEF Clean, Owing

\* What stands after a winner says that its trees are merged.
LEMMA EarlierMerged ==
  ASSUME Owing, NEW p \in Phases, ~ Cleared(p), NEW q \in Phases, q < p, Won(q) # {}
  PROVE  Settled(q)
BY DEF Owing

LEMMA LiveIsClean ==
  ASSUME RowsInv, graph \in Graphs, Beyond({}), Owing, NEW p \in Phases, ~ Cleared(p)
  PROVE  Won(p) = {} => Clean
<1> SUFFICES ASSUME Won(p) = {}, NEW q \in Phases, Won(q) # {} PROVE Settled(q)
  BY DEF Clean
<1>1. p \in Nat /\ q \in Nat
  BY GraphFacts
<1>2. CASE q < p
  BY <1>2, EarlierMerged
<1>3. CASE p < q
  <2>1. PICK k \in Won(q) : TRUE
    OBVIOUS
  <2>2. k \in At(q) /\ k[2] = Last(q) /\ St(k) = "done"
    BY <2>1 DEF Won, Group
  <2>3. St(k) \in Gone
    BY <1>3, <2>2 DEF Beyond
  <2> QED
    BY <2>2, <2>3 DEF Gone
<1> QED
  BY <1>1, <1>2, <1>3

LEMMA StandsUncleared ==
  ASSUME RowsInv, NEW k \in DOMAIN rows, k[2] = Last(k[1]), St(k) \notin Gone
  PROVE  k[1] \in Phases /\ ~ Cleared(k[1])
BY KeyFacts DEF Cleared

LEMMA FlightIsClean ==
  ASSUME RowsInv, graph \in Graphs, Placed({}), Owing, NEW k \in DOMAIN rows, InFlight(k)
  PROVE  Clean
<1>1. k[2] = Last(k[1]) /\ Won(k[1]) = {}
  BY InFlightIsFront DEF Placed, Front
<1>2. St(k) \notin Gone
  BY DEF InFlight, Gone
<1> QED
  BY <1>1, <1>2, StandsUncleared, LiveIsClean DEF Placed

LEMMA FailedIsClean ==
  ASSUME RowsInv, graph \in Graphs, Placed({}), Owing, NEW k \in DOMAIN rows, FailedPre(k)
  PROVE  Clean
<1>1. k[2] = Last(k[1]) /\ St(k) \notin Gone /\ Won(k[1]) = {}
  BY FailedIsFront DEF Front, FailedPre, Gone
<1> QED
  BY <1>1, StandsUncleared, LiveIsClean DEF Placed

-----------------------------------------------------------------------------
(* Steps that win nothing and lose no merge.                                *)

WinsNone ==
  /\ graph' = graph
  /\ \A p \in Phases : Won(p)' # {} =>
       Won(p)' = Won(p) /\ \A k \in Won(p) : rows'[k].merged = rows[k].merged

LEMMA WinsNoneFacts ==
  ASSUME WinsNone
  PROVE  /\ Phases' = Phases
         /\ \A p \in Phases : Won(p)' # {} /\ Settled(p) => Settled(p)'
         /\ Clean => Clean'
         /\ \A p : CleanBut(p) => CleanBut(p)'
<1>1. Phases' = Phases
  BY DEF WinsNone, Phases
<1>2. ASSUME NEW p \in Phases, Won(p)' # {}, Settled(p) PROVE Settled(p)'
  BY <1>2, SettledIs DEF WinsNone
<1>3. \A p \in Phases : Won(p)' # {} => Won(p) # {}
  BY DEF WinsNone
<1> QED
  BY <1>1, <1>2, <1>3 DEF Clean, CleanBut

LEMMA SameWins ==
  ASSUME graph' = graph, rows' = rows
  PROVE  WinsNone
BY DEF WinsNone, Won, Group, At, Last, St

\* A row that does not become its position's winner.
LEMMA RowWinsNone ==
  ASSUME RowsInv, graph \in Graphs, Kinds, OneWinner, graph' = graph, NEW k \in DOMAIN rows, NEW row,
         rows' = [rows EXCEPT ![k] = row], row.merged = rows[k].merged,
         row.st = "done" /\ k[3] >= 0 /\ (row.sel \/ Plain(k)) =>
           St(k) = "done" /\ (row.sel => rows[k].sel)
  PROVE  WinsNone
<1>1. SameShape
  BY DEF SameShape
<1>2. ASSUME NEW p \in Phases, NEW j \in Won(p)' PROVE j \in Won(p) /\ rows'[j].merged = rows[j].merged
  <2>1. Group(p, Last(p))' = Group(p, Last(p))
    BY <1>1, ShapeSame
  <2>2. /\ j \in Group(p, Last(p)) /\ St(j)' = "done" /\ (rows'[j].sel \/ graph[p].fan = 1)
        /\ j \in DOMAIN rows /\ j[1] = p /\ j[3] >= 0
    BY <1>2, <2>1 DEF Won, Group, At
  <2>3. CASE j = k
    BY <2>2, <2>3 DEF Won, St, Plain
  <2>4. CASE j # k
    BY <2>2, <2>4 DEF Won, St
  <2> QED
    BY <2>3, <2>4
<1>3. ASSUME NEW p \in Phases, Won(p)' # {} PROVE Won(p)' = Won(p)
  <2>1. PICK j \in Won(p)' : TRUE
    BY <1>3
  <2>2. \A i \in Won(p) : i = j
    BY <1>2, <2>1, WonOne
  <2> QED
    BY <1>2, <2>1, <2>2
<1> QED
  BY <1>2, <1>3 DEF WinsNone

\* A row that is created at the front.
LEMMA NewWinsNone ==
  ASSUME RowsInv, graph \in Graphs, NEW k \in Keys, Created(k), Last(k[1]) <= k[2], Won(k[1]) = {}
  PROVE  WinsNone /\ \A p \in Phases : Won(p)' = Won(p)
<1>1. /\ Phases' = Phases /\ graph' = graph
      /\ \A j \in DOMAIN rows : rows'[j] = rows[j] /\ St(j)' = St(j)
      /\ St(k)' = "pending"
      /\ \A p : p # k[1] => At(p)' = At(p) /\ Last(p)' = Last(p) /\ \A a : Group(p, a)' = Group(p, a)
      /\ At(k[1])' = At(k[1]) \cup {k} /\ Last(k[1])' = k[2]
  BY CreatedFacts DEF Created
<1>2. ASSUME NEW p \in Phases, p # k[1]
      PROVE  Won(p)' = Won(p) /\ \A j \in Won(p) : rows'[j].merged = rows[j].merged
  <2>1. Group(p, Last(p))' = Group(p, Last(p))
    BY <1>1, <1>2
  <2>2. \A j \in Group(p, Last(p)) : j \in DOMAIN rows
    BY InGroup
  <2> QED
    BY <1>1, <2>1, <2>2 DEF Won
<1>3. Won(k[1])' = {}
  <2> SUFFICES ASSUME NEW j \in Won(k[1])' PROVE FALSE
    OBVIOUS
  <2>1. j \in At(k[1])' /\ j[2] = k[2] /\ j[3] >= 0 /\ St(j)' = "done" /\ (rows'[j].sel \/ graph[k[1]].fan = 1)
    BY <1>1 DEF Won, Group
  <2>2. j \in At(k[1])
    BY <1>1, <2>1
  <2>3. j \in DOMAIN rows /\ j[2] <= Last(k[1]) /\ j[2] \in Nat /\ Last(k[1]) \in Nat
    BY <2>2, LastFacts
  <2>4. j[2] = Last(k[1])
    BY <2>1, <2>3
  <2>5. j \in Won(k[1])
    BY <1>1, <2>1, <2>2, <2>3, <2>4 DEF Won, Group
  <2> QED
    BY <2>5
<1> QED
  BY <1>1, <1>2, <1>3 DEF WinsNone

-----------------------------------------------------------------------------
(* What a step of the walk leaves.                                          *)

WholeGoes ==
  /\ Owing'
  /\ todo' # <<>> => WholeNeed(Head(todo))'
  /\ run' = "done" => \A p \in Phases' : Settled(p)'

Base == ShapeInv /\ WalkInv /\ WholeAt /\ OneWinner

\* An instruction that needs no more than that no merge is owed.
Mild(i) ==
  ~ Dirty(i) \/ i.op \in {"block", "park_run", "cancels"} \/ (i.op = "finish" /\ i.to # "done")

LEMMA BaseFacts ==
  ASSUME Base
  PROVE  /\ ShapeInv /\ RowsInv /\ graph \in Graphs /\ Kinds /\ OneWinner /\ Owing
         /\ todo # <<>> => WholeNeed(Now) /\ Pre(Now) /\ run # "done" /\ IsBack(Tail(todo))
         /\ ~ Doing("retire") => RowsAt({}) /\ Placed({}) /\ Beyond({})
<1>1. ShapeInv /\ RowsInv /\ graph \in Graphs /\ Kinds /\ OneWinner /\ Owing
  BY DEF Base, ShapeInv, Counters, WalkInv, WholeAt, RowsAt, Placed
<1>2. todo # <<>> => WholeNeed(Now) /\ Pre(Now) /\ run # "done" /\ IsBack(Tail(todo))
  BY TailFacts DEF Base, ShapeInv, WalkInv, WholeAt, Now, TerminalRun
<1>3. ~ Doing("retire") => RowsAt({}) /\ Placed({}) /\ Beyond({})
  <2> SUFFICES ASSUME ~ Doing("retire") PROVE RowsAt({}) /\ Placed({}) /\ Beyond({})
    OBVIOUS
  <2>1. Retiring = {}
    BY DEF Retiring
  <2> QED
    BY <2>1 DEF Base, WalkInv, RowsAt, Placed
<1> QED
  BY <1>1, <1>2, <1>3

LEMMA ThenIs ==
  ASSUME Base, todo # <<>>, NEW i, Then(i)
  PROVE  todo' # <<>> /\ Head(todo') = i /\ Tail(todo') = Tail(todo)
<1>1. PICK t : t = Tail(todo)
  OBVIOUS
<1>2. IsBack(t) /\ todo' = <<i>> \o t
  BY <1>1, BaseFacts DEF Then
<1> QED
  BY <1>1, <1>2, BackIsSeq

LEMMA NeedThen ==
  ASSUME Base, todo # <<>>, NEW i, Then(i), Owing', WholeNeed(i)', run' # "done"
  PROVE  WholeGoes
BY ThenIs DEF WholeGoes

LEMMA NeedOver ==
  ASSUME Base, todo # <<>>, Over, Owing', Tail(todo) = <<>> \/ Clean', run' # "done"
  PROVE  WholeGoes
<1>1. PICK t : t = Tail(todo)
  OBVIOUS
<1>2. IsBack(t) /\ todo' = t
  BY <1>1, BaseFacts DEF Over
<1>3. ASSUME t # <<>> PROVE WholeNeed(Head(todo))'
  <2>1. PICK i : i = Head(t)
    OBVIOUS
  <2>2. i.op \in {"pass", "rederive", "land"}
    BY <1>2, <1>3, <2>1, BackTails
  <2>3. WholeNeed(i)'
    BY <1>1, <1>3, <2>2 DEF WholeNeed
  <2> QED
    BY <1>2, <2>1, <2>3
<1> QED
  BY <1>2, <1>3 DEF WholeGoes

LEMMA NeedEnds ==
  ASSUME Ends, Owing', run' # "done"
  PROVE  WholeGoes
BY DEF WholeGoes, Ends

\* The ends of a walk need nothing.
LEMMA EndNeed ==
  ASSUME NEW i, i.op \in {"block", "park_run", "cancel", "cancels", "recover"} \/ (i.op = "finish" /\ i.to # "done")
  PROVE  WholeNeed(i)'
BY DEF WholeNeed, Dirty

LEMMA MildNeed ==
  ASSUME NEW i, Mild(i), Clean'
  PROVE  WholeNeed(i)'
BY DEF WholeNeed, Mild, Dirty

\* While no merge is owed, a step that wins nothing may do anything but finish.
LEMMA CleanGoes ==
  ASSUME Base, todo # <<>>, Clean, WinsNone, run' # "done",
         Over \/ Ends \/ \E i : Then(i) /\ Mild(i)
  PROVE  WholeGoes
<1>1. Clean' /\ Owing'
  BY WinsNoneFacts, CleanOwes
<1>2. CASE Over
  BY <1>1, <1>2, NeedOver
<1>3. CASE Ends
  BY <1>1, <1>3, NeedEnds
<1>4. ASSUME NEW i, Then(i), Mild(i) PROVE WholeGoes
  BY <1>1, <1>4, MildNeed, NeedThen
<1> QED
  BY <1>2, <1>3, <1>4

\* The same rows: whatever was owed still is.
LEMMA SameOwes ==
  ASSUME graph' = graph, rows' = rows
  PROVE  /\ Owing => Owing'
         /\ Clean => Clean'
         /\ \A k : MergeNeed(k) => MergeNeed(k)'
         /\ Phases' = Phases /\ \A p : Settled(p)' = Settled(p)
<1>1. Phases' = Phases
  BY DEF Phases
<1>2. \A p : At(p)' = At(p) /\ Last(p)' = Last(p) /\ \A a : Group(p, a)' = Group(p, a)
  BY DEF At, Last, Group
<1>3. \A p : Won(p)' = Won(p) /\ Settled(p)' = Settled(p) /\ Cleared(p)' = Cleared(p)
  BY <1>2 DEF Won, Settled, Cleared, Chosen, St, Gone
<1> QED
  BY <1>1, <1>3 DEF Owing, Clean, MergeNeed, CleanBut

\* A row moves from where it was in flight: nothing was owed then.
LEMMA MoveGoes ==
  ASSUME Base, todo # <<>>, NEW k \in DOMAIN rows, NEW from, NEW row, NEW next, Mild(next),
         Clean \/ (~ Doing("retire") /\ from \in {"pending", "running", "awaiting"}),
         Moves(k, from, row, next), row.merged = rows[k].merged,
         row.st = "done" => k[3] < 0 \/ (~ row.sel /\ ~ Plain(k))
  PROVE  WholeGoes
<1>1. graph' = graph /\ run' # "done" /\ RowsInv /\ graph \in Graphs /\ Kinds /\ OneWinner
  BY BaseFacts DEF Moves, WritesRows
<1>2. CASE St(k) = from /\ rows' = [rows EXCEPT ![k] = row] /\ Then(next)
  <2>4. Clean
    BY <1>2, FlightIsClean, BaseFacts DEF InFlight
  <2>1. k[3] \in Int
    BY <1>1, KeyFacts
  <2>2. ~ (row.st = "done" /\ k[3] >= 0 /\ (row.sel \/ Plain(k)))
    <3>1. row.st = "done" => k[3] < 0 \/ ~ (row.sel \/ Plain(k))
      OBVIOUS
    <3> QED
      BY <2>1, <3>1
  <2>3. WinsNone
    BY <1>1, <1>2, <2>2, RowWinsNone
  <2> QED
    BY <1>1, <1>2, <2>3, <2>4, CleanGoes
<1>3. CASE rows' = rows /\ Ends
  BY <1>1, <1>3, SameOwes, NeedEnds, BaseFacts
<1> QED
  BY <1>2, <1>3 DEF Moves

LEMMA DecidesWins ==
  ASSUME Decides
  PROVE  graph' = graph /\ rows' = rows /\ run' = run /\ tails' = tails /\ WinsNone
BY SameWins DEF Decides, rowVars

LEMMA DecideGoes ==
  ASSUME Base, todo # <<>>, Clean, Decides, Over \/ Ends \/ \E i : Then(i) /\ Mild(i)
  PROVE  WholeGoes
<1>1. WinsNone /\ run' # "done"
  BY DecidesWins, BaseFacts
<1> QED
  BY <1>1, CleanGoes

-----------------------------------------------------------------------------
(* The walk of a plain step.                                                *)

DirtyOps == {"merge", "recover", "settle", "resume", "approve", "retry", "finish", "block", "park_run",
             "cancel", "cancels", "reject", "select", "unpark"}

LEMMA OpFacts ==
  ASSUME Base, NEW op \in AllOps, Doing(op)
  PROVE  /\ todo # <<>> /\ Now.op = op /\ IsInstr(Now)
         /\ op \in RowOps => Now.key \in DOMAIN rows /\ rows[Now.key] \in Rows
         /\ op \notin DirtyOps => Clean
         /\ op # "retire" => ~ Doing("retire")
         /\ WholeNeed(Now) /\ Pre(Now)
<1>1. /\ todo # <<>> /\ Now.op = op /\ IsInstr(Now)
      /\ op \in RowOps => Now.key \in DOMAIN rows /\ rows[Now.key] \in Rows
  BY DoingFacts DEF Base
<1>2. WholeNeed(Now) /\ Pre(Now)
  BY <1>1, BaseFacts
<1>3. op \notin DirtyOps => Clean
  BY <1>1, <1>2 DEF WholeNeed, Dirty, DirtyOps
<1>4. op # "retire" => ~ Doing("retire")
  BY <1>1 DEF Doing, Now
<1> QED
  BY <1>1, <1>2, <1>3, <1>4

LEMMA MergedFacts ==
  ASSUME RowsInv, NEW k \in DOMAIN rows
  PROVE  /\ \A st : To(k, st).merged = rows[k].merged
         /\ \A st, note : [To(k, st) EXCEPT !.note = note].merged = rows[k].merged
         /\ \A st, ans : [rows[k] EXCEPT !.st = st, !.ans = ans].merged = rows[k].merged
<1>1. rows[k] \in Rows
  BY DEF RowsInv
<1>2. \A st : To(k, st).merged = rows[k].merged
  BY <1>1 DEF Rows, To
<1>3. \A st, note : [To(k, st) EXCEPT !.note = note].merged = rows[k].merged
  BY <1>1 DEF Rows, To
<1>4. \A st, ans : [rows[k] EXCEPT !.st = st, !.ans = ans].merged = rows[k].merged
  BY <1>1 DEF Rows
<1> QED
  BY <1>2, <1>3, <1>4

LEMMA SettledMild ==
  ASSUME NEW k, NEW i, i = SettleFailed(k) \/ i = Rejection(k)
  PROVE  Mild(i)
<1>1. i \in {I("loop", k), Finish("failed"), Admit(k[1], k[2] + 1), ParkRun}
  BY DEF SettleFailed, Rejection
<1> QED
  BY <1>1 DEF Mild, Dirty, I, Finish, Admit, ParkRun

LEMMA PushGoes ==
  ASSUME Base, Doing("pass"), NEW i, todo' = <<i>> \o todo, Owing', WholeNeed(i)', run' # "done"
  PROVE  WholeGoes
<1>1. todo # <<>> /\ TodoInv
  BY DEF Doing, Base, ShapeInv
<1>2. IsBack(todo)
  <2>1. Head(todo).op = "pass"
    BY DEF Doing
  <2> QED
    BY <1>1, <2>1 DEF TodoInv, IsInstr, RowOps, SlotOps, KeysOps, OtherOps
<1>3. PICK t : t = todo
  OBVIOUS
<1>4. todo' # <<>> /\ Head(todo') = i
  BY <1>2, <1>3, BackIsSeq
<1> QED
  BY <1>4 DEF WholeGoes

LEMMA PassesWhole == ASSUME Base, Passes PROVE WholeGoes
<1>1. Doing("pass") /\ Decides /\ todo # <<>> /\ Now.op = "pass" /\ RowsInv /\ graph \in Graphs
  BY BaseFacts DEF Passes, Doing, Now
<1>2. Clean /\ run' # "done" /\ Clean' /\ Owing'
  <2>1. Clean /\ run # "done"
    BY <1>1, BaseFacts DEF WholeNeed, Dirty
  <2> QED
    BY <1>1, <2>1, DecidesWins, SameOwes, CleanOwes
<1>3. CASE Ends
  BY <1>2, <1>3, NeedEnds
<1>4. CASE Cursor.op = "done" /\ todo' = <<Finish("done")>> \o todo
  <2>1. \A p \in Phases : Won(p) # {}
    BY <1>1, <1>4, CursorFacts DEF I, Admit
  <2>2. \A p \in Phases : Settled(p)
    BY <1>2, <2>1 DEF Clean
  <2>3. (\A p \in Phases : Settled(p))'
    <3>1. Phases' = Phases /\ \A p \in Phases : Won(p)' # {} /\ Settled(p) => Settled(p)'
      BY <1>1, DecidesWins, WinsNoneFacts
    <3>2. \A p \in Phases : Won(p)' = Won(p)
      BY <1>1, DecidesWins DEF Won, Group, At, Last, St
    <3> QED
      BY <2>1, <2>2, <3>1, <3>2
  <2>4. PICK i : i = Finish("done")
    OBVIOUS
  <2>5. i.op = "finish"
    BY <2>4 DEF Finish
  <2>6. WholeNeed(i)'
    BY <2>3, <2>5 DEF WholeNeed, Dirty
  <2> QED
    BY <1>1, <1>2, <1>4, <2>4, <2>6, PushGoes
<1>5. ASSUME NEW i, todo' = <<i>> \o todo, Mild(i) PROVE WholeGoes
  BY <1>1, <1>2, <1>5, MildNeed, PushGoes
<1>6. CASE RestsFailed /\ todo' = <<SettleFailed(Cursor.key)>> \o todo
  <2>1. PICK i : i = SettleFailed(Cursor.key)
    OBVIOUS
  <2> QED
    BY <1>5, <1>6, <2>1, SettledMild
<1>7. CASE Cursor.op \notin {"done", "rest"} /\ todo' = <<Cursor>> \o todo
  <2>1. Cursor.op \in {"admit", "start", "fan", "choose"}
    BY <1>1, <1>7, CursorFacts DEF I, Admit
  <2>2. PICK i : i = Cursor
    OBVIOUS
  <2>3. Mild(i)
    BY <2>1, <2>2 DEF Mild, Dirty
  <2> QED
    BY <1>5, <1>7, <2>2, <2>3
<1> QED
  BY <1>3, <1>4, <1>6, <1>7 DEF Passes

LEMMA MildOps ==
  /\ \A S, k, x : Mild(Create(S, k, x))
  /\ \A x : Mild(Block(x)) /\ Mild(FailRun(x))
  /\ \A S, x : Mild(Refuse(S, x))
  /\ \A k, x : Mild(FailHard(k, x)) /\ Mild(Park(k, x)) /\ Mild(Reject(k, "walk"))
  /\ \A p, a : Mild(Admit(p, a))
  /\ \A k, x, then : then \in {"rejection", "readmit", "admit"} => Mild(Unpark(k, then, x))
  /\ \A op \in {"start", "session", "judge", "accept", "spend", "gate", "loop", "fan", "reset",
                "rejection", "readmit"} : \A k : Mild(I(op, k))
  /\ \A k, P, x : Mild(Retire(k, P, x))
  /\ Mild(Finish("failed")) /\ Mild(Finish("cancelled")) /\ Mild(ParkRun) /\ Mild(Escalate)
BY DEF Mild, Dirty, Create, Block, FailRun, Refuse, FailHard, Park, Reject, Admit, Unpark, I, Retire,
       Finish, ParkRun, Escalate

LEMMA AdmitsWhole == ASSUME Base, Admits PROVE WholeGoes
<1>1. todo # <<>> /\ Clean
  BY OpFacts DEF Admits, AllOps, SlotOps, DirtyOps
<1>2. \E i : Then(i) /\ Mild(i)
  BY MildOps DEF Admits
<1> QED
  BY <1>1, <1>2, DecideGoes DEF Admits

LEMMA CreatesWhole == ASSUME Base, Creates PROVE WholeGoes
<1>1. todo # <<>> /\ Clean /\ Now.op = "create" /\ IsInstr(Now) /\ Pre(Now) /\ WritesRows
  BY OpFacts DEF Creates, AllOps, OtherOps, DirtyOps
<1>2. graph' = graph /\ run' # "done" /\ RowsInv /\ graph \in Graphs
  BY <1>1, BaseFacts DEF WritesRows
<1>3. CASE rows' = rows /\ (Over \/ Ends \/ \E i : Then(i) /\ Mild(i))
  BY <1>1, <1>2, <1>3, SameWins, CleanGoes
<1>4. CASE Rest = {} /\ rows' = rows /\ IF Now.then = "none" THEN Over ELSE Then(I(Now.then, Now.key))
  <2>1. Now.then \in {"none", "fan", "start"}
    BY <1>1 DEF IsInstr
  <2> QED
    BY <1>3, <1>4, <2>1, MildOps
<1>5. ASSUME NEW k \in Rest, k \notin DOMAIN rows, Then(Without(k)),
             rows' = [j \in DOMAIN rows \cup {k} |-> IF j = k THEN NewRow ELSE rows[j]]
      PROVE  WholeGoes
  <2>1. PICK p : p = Now.key[1]
    OBVIOUS
  <2>2. CreatePre(Now) /\ Now.then \in {"none", "fan", "start"} /\ Rest = Now.keys /\ k \in Keys
    BY <1>1, <1>5 DEF Pre, IsInstr, Rest
  <2>3. k[1] = p /\ k[2] = Now.key[2] /\ Front(p) /\ Last(p) <= k[2]
    BY <1>5, <2>1, <2>2 DEF CreatePre, Slot, JudgeOf
  <2>4. WinsNone
    BY <1>2, <1>5, <2>2, <2>3, NewWinsNone DEF Created, Front
  <2>5. Mild(Without(k))
    <3>1. Now = Create(Now.keys, Now.key, Now.then)
      BY <1>1 DEF IsInstr
    <3>2. Without(k).op = "create"
      BY <3>1 DEF Without, Create
    <3> QED
      BY <3>2 DEF Mild, Dirty
  <2> QED
    BY <1>1, <1>2, <1>5, <2>4, <2>5, CleanGoes
<1>6. \A k \in First(Rest) : k \in Rest
  BY DEF First
<1> QED
  BY <1>3, <1>4, <1>5, <1>6 DEF Creates

LEMMA StartsWhole == ASSUME Base, Starts PROVE WholeGoes
<1> PICK k : k = Now.key
  OBVIOUS
<1>1. todo # <<>> /\ Clean /\ k \in DOMAIN rows /\ RowsInv
  BY OpFacts, BaseFacts DEF Starts, AllOps, RowOps, DirtyOps
<1>2. PICK row : row = To(k, "running")
  OBVIOUS
<1>3. row.merged = rows[k].merged /\ row.st = "running"
  BY <1>1, <1>2, MergedFacts, ToFacts
<1>4. PICK i : i = I(IF k[3] < 0 THEN "judge" ELSE "session", k)
  OBVIOUS
<1>5. Mild(i)
  BY <1>4, MildOps
<1> QED
  BY <1>1, <1>2, <1>3, <1>4, <1>5, MoveGoes DEF Starts

LEMMA SessionsWhole == ASSUME Base, Sessions PROVE WholeGoes
<1> PICK k : k = Now.key
  OBVIOUS
<1>1. todo # <<>> /\ Clean /\ k \in DOMAIN rows /\ rows[k] \in Rows
  BY OpFacts DEF Sessions, AllOps, RowOps, DirtyOps
<1>2. graph' = graph /\ run' # "done" /\ RowsInv /\ graph \in Graphs /\ Kinds /\ OneWinner
  BY <1>1, BaseFacts DEF Sessions, WritesRows
<1>3. ASSUME NEW block, rows' = rows, Then(FailHard(k, block)) PROVE WholeGoes
  BY <1>1, <1>2, <1>3, SameWins, CleanGoes, MildOps
<1>4. ASSUME NEW work, NEW verdict \in Works \ {"none"},
             rows' = [rows EXCEPT ![k].work = work], Then(Applied(k, verdict, "fail"))
      PROVE  WholeGoes
  <2>1. PICK row : row = [rows[k] EXCEPT !.work = work]
    OBVIOUS
  <2>2. row.merged = rows[k].merged /\ row.st = rows[k].st /\ row.sel = rows[k].sel /\ rows' = [rows EXCEPT ![k] = row]
    BY <1>1, <1>4, <2>1 DEF Rows
  <2>3. WinsNone
    BY <1>1, <1>2, <2>2, RowWinsNone DEF St
  <2>4. PICK i : i = Applied(k, verdict, "fail")
    OBVIOUS
  <2>5. Mild(i)
    BY <1>1, <1>2, <2>4, AppliedIs, MildOps
  <2> QED
    BY <1>1, <1>2, <1>4, <2>3, <2>4, <2>5, CleanGoes
<1>5. Works \ {"reject"} \subseteq Works
  OBVIOUS
<1>6. \A work \in Works : {work, "fail"} \ {"none"} \subseteq Works \ {"none"}
  BY DEF Works
<1> QED
  BY <1>3, <1>4, <1>5, <1>6 DEF Sessions

LEMMA ParksWhole == ASSUME Base, Parks PROVE WholeGoes
<1> PICK k : k = Now.key
  OBVIOUS
<1>1. todo # <<>> /\ Clean /\ k \in DOMAIN rows /\ RowsInv
  BY OpFacts, BaseFacts DEF Parks, AllOps, RowOps, DirtyOps
<1>2. graph' = graph /\ run # "done" /\ RowsInv /\ graph \in Graphs /\ Kinds /\ OneWinner
  BY <1>1, BaseFacts DEF Parks
<1>3. CASE rows' = [rows EXCEPT ![k] = To(k, "awaiting")] /\ run' = "awaiting" /\ Ends
  <2>1. PICK row : row = To(k, "awaiting")
    OBVIOUS
  <2>2. row.merged = rows[k].merged /\ row.st = "awaiting"
    BY <1>1, <2>1, MergedFacts, ToFacts
  <2>3. WinsNone
    BY <1>1, <1>2, <1>3, <2>1, <2>2, RowWinsNone
  <2> QED
    BY <1>1, <1>3, <2>3, CleanGoes
<1>4. CASE rows' = rows /\ run' = run /\ (Ends \/ Then(FailHard(k, FALSE)))
  BY <1>1, <1>2, <1>4, SameWins, CleanGoes, MildOps
<1> QED
  BY <1>3, <1>4 DEF Parks

LEMMA FailsHardWhole == ASSUME Base, FailsHard PROVE WholeGoes
<1> PICK k : k = Now.key
  OBVIOUS
<1>1. todo # <<>> /\ Clean /\ k \in DOMAIN rows /\ RowsInv
  BY OpFacts, BaseFacts DEF FailsHard, AllOps, RowOps, DirtyOps
<1>2. PICK row : row = To(k, "failed")
  OBVIOUS
<1>3. row.merged = rows[k].merged /\ row.st = "failed"
  BY <1>1, <1>2, MergedFacts, ToFacts
<1>4. PICK i : i = FailRun(Now.block)
  OBVIOUS
<1>5. Mild(i)
  BY <1>4, MildOps
<1> QED
  BY <1>1, <1>2, <1>3, <1>4, <1>5, MoveGoes DEF FailsHard

LEMMA SpendsWhole == ASSUME Base, Spends PROVE WholeGoes
<1> PICK k : k = Now.key
  OBVIOUS
<1>1. todo # <<>> /\ Clean /\ k \in DOMAIN rows /\ RowsInv
  BY OpFacts, BaseFacts DEF Spends, AllOps, RowOps, DirtyOps
<1>2. PICK row : row = To(k, "failed")
  OBVIOUS
<1>3. row.merged = rows[k].merged /\ row.st = "failed"
  BY <1>1, <1>2, MergedFacts, ToFacts
<1>4. PICK i : i = IF MayAttempt(k[1], k[2] + 1) THEN Admit(k[1], k[2] + 1) ELSE Finish("failed")
  OBVIOUS
<1>5. Mild(i)
  BY <1>4, MildOps
<1> QED
  BY <1>1, <1>2, <1>3, <1>4, <1>5, MoveGoes DEF Spends

LEMMA GatesItselfWhole == ASSUME Base, GatesItself PROVE WholeGoes
<1> PICK k : k = Now.key
  OBVIOUS
<1>1. todo # <<>> /\ Clean /\ k \in DOMAIN rows /\ RowsInv
  BY OpFacts, BaseFacts DEF GatesItself, AllOps, RowOps, DirtyOps
<1>2. PICK row : row = To(k, "awaiting")
  OBVIOUS
<1>3. row.merged = rows[k].merged /\ row.st = "awaiting"
  BY <1>1, <1>2, MergedFacts, ToFacts
<1>4. PICK i : i = Reject(k, "walk")
  OBVIOUS
<1>5. Mild(i)
  BY <1>4, MildOps
<1> QED
  BY <1>1, <1>2, <1>3, <1>4, <1>5, MoveGoes DEF GatesItself

LEMMA RejectsRowWhole == ASSUME Base, RejectsRow PROVE WholeGoes
<1> PICK k : k = Now.key
  OBVIOUS
<1>1. todo # <<>> /\ ~ Doing("retire") /\ k \in DOMAIN rows /\ RowsInv
  BY OpFacts, BaseFacts DEF RejectsRow, AllOps, RowOps
<1>2. PICK row : row = [rows[k] EXCEPT !.st = "failed", !.ans = "rejected"]
  OBVIOUS
<1>3. row.merged = rows[k].merged /\ row.st = "failed"
  BY <1>1, <1>2, MergedFacts, ToFacts
<1>4. PICK i : i = IF Now.by = "person" THEN Unpark(k, "rejection", FALSE)
                   ELSE IF k[3] < 0 THEN ParkRun ELSE I("loop", k)
  OBVIOUS
<1>5. Mild(i)
  BY <1>4, MildOps
<1> QED
  BY <1>1, <1>2, <1>3, <1>4, <1>5, MoveGoes DEF RejectsRow

-----------------------------------------------------------------------------
(* Steps that win a position, and the merge they owe it.                    *)

\* Rows of one position alone are written.
OnlyAt(p) == SameShape /\ \A j \in DOMAIN rows : j[1] # p => rows'[j] = rows[j]

LEMMA OthersSame ==
  ASSUME NEW p, OnlyAt(p)
  PROVE  /\ Phases' = Phases
         /\ \A q : q # p => Won(q)' = Won(q) /\ Settled(q)' = Settled(q) /\ Cleared(q)' = Cleared(q)
<1>1. /\ Phases' = Phases /\ graph' = graph
      /\ \A q : At(q)' = At(q) /\ Last(q)' = Last(q) /\ \A a : Group(q, a)' = Group(q, a)
  BY ShapeSame DEF OnlyAt, SameShape
<1>2. ASSUME NEW q, q # p
      PROVE  Won(q)' = Won(q) /\ Settled(q)' = Settled(q) /\ Cleared(q)' = Cleared(q)
  <2>1. \A k \in At(q) : k \in DOMAIN rows /\ rows'[k] = rows[k] /\ St(k)' = St(k)
    BY <1>2 DEF At, OnlyAt, St
  <2>2. \A k \in Group(q, Last(q)) : k \in At(q)
    BY DEF Group
  <2>3. Won(q)' = Won(q)
    BY <1>1, <2>1, <2>2 DEF Won
  <2>4. \A k \in Won(q) : k \in At(q)
    BY <2>2 DEF Won
  <2>5. Settled(q)' = Settled(q)
    <3>1. \A k \in Won(q) : rows'[k].merged = rows[k].merged
      BY <2>1, <2>4
    <3> QED
      BY <2>3, <3>1, SettledIs
  <2>6. Cleared(q)' = Cleared(q)
    <3>1. Chosen(q)' = Chosen(q)
      BY <1>1, <2>1, <2>2 DEF Chosen
    <3>2. (\A k \in At(q) : k[2] = Last(q) => St(k) \in Gone)' = (\A k \in At(q) : k[2] = Last(q) => St(k) \in Gone)
      BY <1>1, <2>1 DEF Gone
    <3> QED
      BY <1>1, <3>1, <3>2 DEF Cleared
  <2> QED
    BY <2>3, <2>5, <2>6
<1> QED
  BY <1>1, <1>2

\* Nothing was owed, and an open position may be won: beyond it there is nothing that stands.
LEMMA WinsOne ==
  ASSUME RowsInv, graph \in Graphs, Clean, Beyond({}), NEW p \in Phases, Won(p) = {}, OnlyAt(p)
  PROVE  CleanBut(p)' /\ Owing'
<1>1. /\ Phases' = Phases
      /\ \A q : q # p => Won(q)' = Won(q) /\ Settled(q)' = Settled(q) /\ Cleared(q)' = Cleared(q)
  BY OthersSame
<1>2. CleanBut(p)'
  BY <1>1 DEF Clean, CleanBut
<1>3. ASSUME NEW q \in Phases, p < q PROVE Cleared(q)
  BY <1>3 DEF Beyond, Cleared
<1>4. Owing'
  <2> SUFFICES ASSUME NEW r \in Phases, NEW q \in Phases, r < q, Won(r)' # {}, ~ Settled(r)' PROVE Cleared(q)'
    BY <1>1 DEF Owing
  <2>1. r = p
    BY <1>1, <1>2 DEF CleanBut
  <2>2. q # p /\ p < q
    BY <2>1, GraphFacts
  <2> QED
    BY <1>1, <1>3, <2>2
<1> QED
  BY <1>2, <1>4

\* A plain step that was in flight is done: its merge is owed, and no other.
LEMMA StepWins ==
  ASSUME RowsInv, graph \in Graphs, Placed({}), Owing, graph' = graph,
         NEW k \in DOMAIN rows, InFlight(k), Plain(k), NEW row, row.st = "done", rows' = [rows EXCEPT ![k] = row]
  PROVE  MergeNeed(k)' /\ Owing'
<1>1. /\ k[1] \in Phases /\ k[2] = Last(k[1]) /\ Won(k[1]) = {} /\ k \in Group(k[1], k[2])
  BY KeyFacts, PlainFacts, InFlightIsFront DEF Placed, Front
<1>2. SameShape /\ OnlyAt(k[1]) /\ St(k)' = "done"
  BY DEF SameShape, OnlyAt, St
<1>3. CleanBut(k[1])' /\ Owing'
  BY <1>1, <1>2, FlightIsClean, WinsOne DEF Placed
<1>4. k \in Won(k[1])'
  <2>1. Group(k[1], Last(k[1]))' = Group(k[1], Last(k[1]))
    BY <1>2, ShapeSame
  <2> QED
    BY <1>1, <1>2, <2>1 DEF Won, Plain
<1> QED
  BY <1>3, <1>4 DEF MergeNeed

LEMMA AcceptsWhole == ASSUME Base, Accepts PROVE WholeGoes
<1> PICK k : k = Now.key
  OBVIOUS
<1>1. todo # <<>> /\ ~ Doing("retire") /\ k \in DOMAIN rows /\ Plain(k)
  BY OpFacts DEF Accepts, AllOps, RowOps, Pre
<1>2. /\ RowsInv /\ graph \in Graphs /\ Placed({}) /\ Owing /\ graph' = graph /\ run' # "done"
  BY <1>1, BaseFacts DEF Accepts, Moves, WritesRows
<1>3. CASE rows' = rows /\ Ends
  BY <1>2, <1>3, SameOwes, NeedEnds
<1>4. CASE /\ St(k) = "running" /\ rows' = [rows EXCEPT ![k] = [rows[k] EXCEPT !.st = "done", !.ans = "skipped"]]
           /\ Then(I("merge", k))
  <2>1. PICK row : row = [rows[k] EXCEPT !.st = "done", !.ans = "skipped"]
    OBVIOUS
  <2>2. row.st = "done"
    BY <1>1, <1>2, <2>1, ToFacts
  <2>3. MergeNeed(k)' /\ Owing'
    BY <1>1, <1>2, <1>4, <2>1, <2>2, StepWins DEF InFlight
  <2>4. PICK i : i = I("merge", k)
    OBVIOUS
  <2>5. i.op = "merge" /\ i.key = k
    BY <2>4 DEF I
  <2>6. WholeNeed(i)'
    BY <2>3, <2>5 DEF WholeNeed, Dirty
  <2> QED
    BY <1>1, <1>2, <1>4, <2>3, <2>4, <2>6, NeedThen
<1> QED
  BY <1>3, <1>4 DEF Accepts, Moves

LEMMA MergesWhole == ASSUME Base, Merges PROVE WholeGoes
<1> PICK k : k = Now.key
  OBVIOUS
<1>1. todo # <<>> /\ k \in DOMAIN rows /\ rows[k] \in Rows /\ MergeNeed(k)
  BY OpFacts DEF Merges, AllOps, RowOps, WholeNeed
<1>2. RowsInv /\ graph \in Graphs /\ Owing /\ graph' = graph /\ run' # "done"
  BY <1>1, BaseFacts DEF Merges, WritesRows
<1>3. CASE rows' = rows /\ Then(ParkRun)
  <2>1. ParkRun.op = "park_run"
    BY DEF ParkRun
  <2>2. PICK i : i = ParkRun
    OBVIOUS
  <2>3. WholeNeed(i)'
    BY <2>1, <2>2, EndNeed
  <2> QED
    BY <1>1, <1>2, <1>3, <2>2, <2>3, SameOwes, NeedThen
<1>4. CASE rows' = [rows EXCEPT ![k].merged = TRUE] /\ Over
  <2>1. PICK p : p = k[1]
    OBVIOUS
  <2>2. SameShape /\ OnlyAt(p) /\ rows'[k].merged /\ St(k)' = St(k) /\ rows'[k].sel = rows[k].sel
    BY <1>1, <1>2, <1>4, <2>1 DEF SameShape, OnlyAt, Rows, St
  <2>3. k \in Won(p)'
    <3>1. Group(p, Last(p))' = Group(p, Last(p)) /\ graph' = graph
      BY <2>2, ShapeSame DEF SameShape
    <3> QED
      BY <1>1, <2>1, <2>2, <3>1 DEF MergeNeed, Won
  <2>4. Settled(p)'
    BY <2>2, <2>3, SettledIs
  <2>5. Clean'
    <3>1. Phases' = Phases /\ \A q : q # p => Won(q)' = Won(q) /\ Settled(q)' = Settled(q)
      BY <2>2, OthersSame
    <3> QED
      BY <1>1, <2>1, <2>4, <3>1 DEF MergeNeed, CleanBut, Clean
  <2> QED
    BY <1>1, <1>2, <1>4, <2>5, CleanOwes, NeedOver
<1> QED
  BY <1>3, <1>4 DEF Merges

-----------------------------------------------------------------------------
(* Retirements and the run.                                                 *)

LEMMA LoopsWhole == ASSUME Base, Loops PROVE WholeGoes
<1>1. todo # <<>> /\ Clean
  BY OpFacts DEF Loops, AllOps, RowOps, DirtyOps
<1>2. \E i : Then(i) /\ Mild(i)
  BY MildOps DEF Loops
<1> QED
  BY <1>1, <1>2, DecideGoes DEF Loops

LEMMA RetiresWhole == ASSUME Base, Retires PROVE WholeGoes
<1>1. todo # <<>> /\ Clean /\ IsInstr(Now) /\ Now.op = "retire" /\ RowsInv
  BY OpFacts, BaseFacts DEF Retires, AllOps, KeysOps, DirtyOps
<1>2. CASE Decides /\ (Over \/ \E k : Then(Unpark(k, "admit", FALSE)))
  <2>1. Over \/ \E i : Then(i) /\ Mild(i)
    BY <1>2, MildOps
  <2> QED
    BY <1>1, <1>2, <2>1, DecideGoes
<1>3. ASSUME NEW k \in First(Rest),
             Moves(k, Now.was[k],
                   To(k, IF Now.was[k] \in {"running", "failed"} THEN "cancelled" ELSE "superseded"), Without(k))
      PROVE  WholeGoes
  <2>1. k \in DOMAIN rows
    BY <1>1 DEF First, Rest, IsInstr, KeysOps
  <2>2. PICK row : row = To(k, IF Now.was[k] \in {"running", "failed"} THEN "cancelled" ELSE "superseded")
    OBVIOUS
  <2>3. row.merged = rows[k].merged /\ row.st # "done"
    BY <1>1, <2>1, <2>2, MergedFacts, ToFacts
  <2>4. PICK i : i = Without(k)
    OBVIOUS
  <2>5. Mild(i)
    <3>1. Now = [op |-> "retire", key |-> Now.key, keys |-> Now.keys, was |-> Now.was, then |-> Now.then]
      BY <1>1 DEF IsInstr
    <3>2. i.op = "retire"
      BY <2>4, <3>1 DEF Without
    <3> QED
      BY <3>2 DEF Mild, Dirty
  <2>6. PICK from : from = Now.was[k]
    OBVIOUS
  <2>7. Moves(k, from, row, i)
    BY <1>3, <2>2, <2>4, <2>6
  <2> QED
    BY <1>1, <2>1, <2>3, <2>5, <2>7, MoveGoes
<1> QED
  BY <1>2, <1>3 DEF Retires

LEMMA ParksRunWhole == ASSUME Base, ParksRun PROVE WholeGoes
<1>1. todo # <<>> /\ run # "done" /\ Owing
  BY BaseFacts DEF ParksRun, Doing
<1>2. run' # "done" /\ Owing'
  BY <1>1, SameOwes DEF ParksRun
<1>3. PICK i : i = Block("rest")
  OBVIOUS
<1>4. WholeNeed(i)'
  <2>1. i.op = "block"
    BY <1>3 DEF Block
  <2> QED
    BY <2>1, EndNeed
<1>5. Then(i) \/ Ends
  BY <1>3 DEF ParksRun
<1> QED
  BY <1>1, <1>2, <1>4, <1>5, NeedThen, NeedEnds

LEMMA FinishesWhole == ASSUME Base, Finishes PROVE WholeGoes
<1>1. todo # <<>> /\ run # "done" /\ Owing /\ WholeNeed(Now) /\ Now.op = "finish"
  BY BaseFacts DEF Finishes, Doing, Now
<1>2. Ends /\ Owing' /\ Phases' = Phases /\ \A p : Settled(p)' = Settled(p)
  BY <1>1, SameOwes DEF Finishes
<1>3. run' = "done" => \A p \in Phases : Settled(p)
  BY <1>1 DEF Finishes, WholeNeed
<1> QED
  BY <1>2, <1>3 DEF WholeGoes, Ends

LEMMA BlocksWhole == ASSUME Base, Blocks PROVE WholeGoes
<1>1. todo # <<>> /\ run # "done" /\ Owing
  BY BaseFacts DEF Blocks, Doing
<1>2. run' # "done" /\ Owing'
  BY <1>1, SameOwes DEF Blocks
<1>3. PICK i : i = Finish("failed")
  OBVIOUS
<1>4. WholeNeed(i)'
  <2>1. i.op = "finish" /\ i.to = "failed"
    BY <1>3 DEF Finish
  <2> QED
    BY <2>1, EndNeed
<1>5. Then(i) \/ Ends
  BY <1>3 DEF Blocks
<1> QED
  BY <1>1, <1>2, <1>4, <1>5, NeedThen, NeedEnds

LEMMA StepWhole == ASSUME Base, WalksStep PROVE WholeGoes
BY PassesWhole, AdmitsWhole, CreatesWhole, StartsWhole, SessionsWhole, ParksWhole, AcceptsWhole, FailsHardWhole,
   SpendsWhole, GatesItselfWhole, RejectsRowWhole, MergesWhole, LoopsWhole, RetiresWhole, ParksRunWhole,
   FinishesWhole, BlocksWhole DEF WalksStep

-----------------------------------------------------------------------------
(* Fan-out groups.                                                          *)

\* A row is written that wins nothing.
LEMMA RowGoes ==
  ASSUME Base, todo # <<>>, Clean, WritesRows, NEW k \in DOMAIN rows, NEW row, rows' = [rows EXCEPT ![k] = row],
         row.merged = rows[k].merged, row.st = "done" => k[3] < 0 \/ (~ row.sel /\ ~ Plain(k)),
         Over \/ Ends \/ \E i : Then(i) /\ Mild(i)
  PROVE  WholeGoes
<1>1. graph' = graph /\ run' # "done" /\ RowsInv /\ graph \in Graphs /\ Kinds /\ OneWinner
  BY BaseFacts DEF WritesRows
<1>2. k[3] \in Int
  BY <1>1, KeyFacts
<1>3. ~ (row.st = "done" /\ k[3] >= 0 /\ (row.sel \/ Plain(k)))
  <2>1. row.st = "done" => k[3] < 0 \/ ~ (row.sel \/ Plain(k))
    OBVIOUS
  <2> QED
    BY <1>2, <2>1
<1>4. WinsNone
  BY <1>1, <1>3, RowWinsNone
<1> QED
  BY <1>1, <1>4, CleanGoes

LEMMA FansWhole == ASSUME Base, Fans PROVE WholeGoes
<1>1. todo # <<>> /\ Clean
  BY OpFacts DEF Fans, AllOps, SlotOps, DirtyOps
<1>2. ASSUME NEW S, Then([op |-> "group", key |-> Now.key, wait |-> S, live |-> {}]) PROVE \E i : Then(i) /\ Mild(i)
  <2>1. PICK i : i = [op |-> "group", key |-> Now.key, wait |-> S, live |-> {}]
    OBVIOUS
  <2>2. i.op = "group"
    BY <2>1
  <2> QED
    BY <1>2, <2>1, <2>2 DEF Mild, Dirty
<1>3. \E i : Then(i) /\ Mild(i)
  BY <1>2, MildOps DEF Fans
<1> QED
  BY <1>1, <1>3, DecideGoes DEF Fans

LEMMA RefusesWhole == ASSUME Base, Refuses PROVE WholeGoes
<1>1. todo # <<>> /\ Clean /\ IsInstr(Now) /\ Now.op = "refuse" /\ Rest \subseteq DOMAIN rows /\ RowsInv
  BY OpFacts, BaseFacts DEF Refuses, AllOps, KeysOps, DirtyOps, IsInstr, Rest
<1>2. CASE Decides /\ Then(FailRun(Now.block))
  BY <1>1, <1>2, MildOps, DecideGoes
<1>3. ASSUME NEW k \in First(Rest), NEW from \in {"pending", "running"}, NEW st \in {"running", "failed"}, NEW i,
             i = Now \/ i = Without(k), Moves(k, from, To(k, st), i)
      PROVE  WholeGoes
  <2>1. k \in DOMAIN rows
    BY <1>1 DEF First
  <2>2. PICK row : row = To(k, st)
    OBVIOUS
  <2>3. row.merged = rows[k].merged /\ row.st = st
    BY <1>1, <2>1, <2>2, MergedFacts, ToFacts
  <2>4. i.op = "refuse"
    BY <1>1, <1>3, WithoutInstr DEF KeysOps
  <2>5. Mild(i)
    BY <2>4 DEF Mild, Dirty
  <2> QED
    BY <1>1, <1>3, <2>1, <2>2, <2>3, <2>5, MoveGoes
<1> QED
  BY <1>2, <1>3 DEF Refuses

LEMMA CandidatesWhole ==
  ASSUME Base, CandidateStarts \/ CandidateWorks \/ CandidateEnds
  PROVE  WholeGoes
<1>1. /\ todo # <<>> /\ Clean /\ IsInstr(Now) /\ Now.op = "group" /\ SessionsPre(Now) /\ WritesRows
      /\ Now.wait \subseteq DOMAIN rows /\ Now.live \subseteq DOMAIN rows
  BY OpFacts DEF CandidateStarts, CandidateWorks, CandidateEnds, AllOps, SlotOps, DirtyOps, IsInstr, Pre
<1>2. /\ graph' = graph /\ run' # "done" /\ RowsInv /\ graph \in Graphs /\ Kinds /\ OneWinner
      /\ SelectedIsDone
  BY <1>1, BaseFacts DEF WritesRows, Base, WalkInv, RowsAt, Placed
<1>3. \A k \in Now.wait \cup Now.live : ~ Plain(k) /\ St(k) \in {"pending", "running"} /\ k \in DOMAIN rows
  BY <1>1, InGroup DEF SessionsPre, GroupPre, Plain
<1>4. ASSUME NEW k \in Now.wait \cup Now.live, NEW st \in {"running", "done", "failed"},
             rows' = [rows EXCEPT ![k] = To(k, st)], NEW wait, NEW live, Still(wait, live)
      PROVE  WholeGoes
  <2>1. PICK row : row = To(k, st)
    OBVIOUS
  <2>2. row.merged = rows[k].merged /\ row.st = st /\ row.sel = rows[k].sel
    BY <1>2, <1>3, <2>1, MergedFacts, ToFacts
  <2>3. ~ rows[k].sel
    BY <1>2, <1>3 DEF SelectedIsDone, Gone
  <2>4. ~ row.sel
    BY <2>2, <2>3
  <2>5. PICK i : i = [Now EXCEPT !.wait = wait, !.live = live]
    OBVIOUS
  <2>6. i = [op |-> "group", key |-> Now.key, wait |-> wait, live |-> live]
    BY <1>1, <2>5, StillIs
  <2>7. i.op = "group"
    BY <2>6
  <2>8. Then(i) /\ Mild(i)
    BY <1>4, <2>5, <2>7 DEF Still, Mild, Dirty
  <2> QED
    BY <1>1, <1>3, <1>4, <2>1, <2>2, <2>4, <2>8, RowGoes
<1>5. ASSUME CandidateWorks PROVE WholeGoes
  <2>1. PICK k \in Now.live, work \in {"ok", "fail"} : rows' = [rows EXCEPT ![k].work = work] /\ todo' = todo
    BY <1>5 DEF CandidateWorks
  <2>2. k \in DOMAIN rows /\ rows[k] \in Rows
    BY <1>2, <1>3, <2>1, RowFields
  <2>3. PICK row : row = [rows[k] EXCEPT !.work = work]
    OBVIOUS
  <2>4. rows' = [rows EXCEPT ![k] = row] /\ row.merged = rows[k].merged /\ row.sel = rows[k].sel /\ row.st = rows[k].st
    BY <2>1, <2>2, <2>3 DEF Rows
  <2>5. WinsNone
    BY <1>2, <2>2, <2>4, RowWinsNone DEF St
  <2>6. Clean' /\ Owing'
    BY <1>1, <2>5, WinsNoneFacts, CleanOwes
  <2>7. PICK i : i = Now
    OBVIOUS
  <2>8. Head(todo') = i /\ i.op = "group"
    BY <1>1, <2>1, <2>7 DEF Now
  <2>9. WholeNeed(i)'
    BY <2>6, <2>8, MildNeed DEF Mild, Dirty
  <2> QED
    BY <1>2, <2>6, <2>8, <2>9 DEF WholeGoes
<1>6. ASSUME CandidateStarts PROVE WholeGoes
  <2>1. PICK k \in Now.wait :
          rows' = [rows EXCEPT ![k] = To(k, "running")] /\ Still(Now.wait \ {k}, Now.live \cup {k})
    BY <1>6 DEF CandidateStarts
  <2> QED
    BY <1>4, <2>1
<1>7. ASSUME CandidateEnds PROVE WholeGoes
  <2>1. PICK k \in Now.live, to \in {"done", "failed"} :
          rows' = [rows EXCEPT ![k] = To(k, to)] /\ Still(Now.wait, Now.live \ {k})
    BY <1>7 DEF CandidateEnds
  <2> QED
    BY <1>4, <2>1
<1> QED
  BY <1>5, <1>6, <1>7

LEMMA GroupEndsWhole == ASSUME Base, GroupEnds PROVE WholeGoes
<1>1. todo # <<>> /\ Clean
  BY OpFacts DEF GroupEnds, AllOps, SlotOps, DirtyOps
<1>2. Over \/ \E i : Then(i) /\ Mild(i)
  BY MildOps DEF GroupEnds
<1> QED
  BY <1>1, <1>2, DecideGoes DEF GroupEnds

LEMMA SelectMild == \A w : \A by \in {"walk", "judge"} : Mild(Select(w, by))
BY DEF Mild, Dirty, Select

LEMMA ChoosesWhole == ASSUME Base, Chooses PROVE WholeGoes
<1>1. todo # <<>> /\ Clean
  BY OpFacts DEF Chooses, AllOps, SlotOps, DirtyOps
<1>2. \E i : Then(i) /\ Mild(i)
  BY MildOps, SelectMild DEF Chooses
<1> QED
  BY <1>1, <1>2, DecideGoes DEF Chooses

LEMMA JudgeSessionsWhole == ASSUME Base, JudgeSessions PROVE WholeGoes
<1>1. todo # <<>> /\ Clean
  BY OpFacts DEF JudgeSessions, AllOps, RowOps, DirtyOps
<1>2. \E i : Then(i) /\ Mild(i)
  BY MildOps, SelectMild DEF JudgeSessions
<1> QED
  BY <1>1, <1>2, DecideGoes DEF JudgeSessions

\* The instruction that follows a command keeps what is gone back to.
LEMMA HandsKeep ==
  ASSUME Base, todo # <<>>, NEW i, Then(i), tails' = tails, HandsBack
  PROVE  HandsBack'
BY ThenIs DEF HandsBack

LEMMA MergeThen ==
  ASSUME Base, todo # <<>>, NEW k, NEW i, Then(i), MergeNeed(k)', Owing', run' # "done", tails' = tails,
         \/ i = I("merge", k)
         \/ HandsBack /\ \E x : i = Unpark(k, "merge", x)
  PROVE  WholeGoes
<1>1. i.op \in {"merge", "unpark"} /\ i.key = k /\ (i.op = "unpark" => i.then = "merge" /\ HandsBack)
  BY DEF I, Unpark
<1>2. WholeNeed(i)'
  <2>1. i.op = "unpark" => HandsBack'
    BY <1>1, HandsKeep
  <2> QED
    BY <1>1, <2>1 DEF WholeNeed, Dirty
<1> QED
  BY <1>2, NeedThen

LEMMA SelectsWhole == ASSUME Base, Selects PROVE WholeGoes
<1> PICK w : w = Now.key
  OBVIOUS
<1> PICK by : by = Now.by
  OBVIOUS
<1> DEFINE j == JudgeOf(w[1], w[2])
           Settle(k) ==
             IF k = w THEN [rows[k] EXCEPT !.sel = TRUE, !.st = "done"]
             ELSE IF k \in Group(w[1], w[2])
               THEN [rows[k] EXCEPT !.sel = FALSE,
                       !.st = IF @ \in {"pending", "awaiting", "done"} THEN "superseded" ELSE @]
             ELSE IF k = JudgeOf(w[1], w[2])
               THEN [rows[k] EXCEPT !.st = IF @ \in {"pending", "running", "awaiting"} THEN "done" ELSE @]
             ELSE rows[k]
<1>1. /\ todo # <<>> /\ w \in DOMAIN rows /\ rows[w] \in Rows /\ w[3] >= 0 /\ SelectPre(w)
      /\ Now.op = "select" /\ WholeNeed(Now) /\ ~ Doing("retire")
  <2>1. /\ todo # <<>> /\ w \in DOMAIN rows /\ rows[w] \in Rows /\ IsInstr(Now) /\ Pre(Now)
        /\ Now.op = "select" /\ WholeNeed(Now) /\ ~ Doing("retire")
    <3>1. Doing("select")
      BY DEF Selects
    <3>2. "select" \in AllOps /\ "select" \in RowOps
      BY DEF AllOps, RowOps
    <3> QED
      BY <3>1, <3>2, OpFacts
  <2> QED
    BY <2>1 DEF Pre, IsInstr
<1>2. /\ RowsInv /\ graph \in Graphs /\ Placed({}) /\ Owing /\ graph' = graph /\ run' # "done" /\ tails' = tails
      /\ WritesRows
  BY <1>1, BaseFacts DEF Selects, WritesRows
<1>3. /\ by # "person" => Clean
      /\ by = "person" => HandsBack
  BY <1>1 DEF WholeNeed, Dirty
<1>4. CASE /\ St(w) \in {"done", "awaiting"} /\ rows' = [k \in DOMAIN rows |-> Settle(k)]
           /\ Then(IF by = "person" THEN Unpark(w, "merge", FALSE) ELSE I("merge", w))
  <2>1. w[1] \in Phases /\ w[2] \in Nat /\ w[2] <= Last(w[1]) /\ Last(w[1]) \in Nat /\ w \in Group(w[1], w[2])
    BY <1>1, <1>2, KeyFacts, LastFacts
  <2>2. w[2] = Last(w[1])
    <3>1. OldRows /\ w[3] >= 0
      BY <1>1, <1>2 DEF Placed
    <3>2. ~ (w[2] < Last(w[1]))
      BY <1>1, <1>4, <3>1 DEF OldRows, Dead, Gone, InFlight
    <3> QED
      BY <2>1, <3>2
  <2>3. Won(w[1]) = {} /\ Clean
    BY <1>1, <1>2, <1>4, <2>1, <2>2, StandsUncleared, LiveIsClean DEF SelectPre, Placed, Gone
  <2>4. OnlyAt(w[1])
    <3>1. ASSUME NEW k \in DOMAIN rows, k[1] # w[1] PROVE rows'[k] = rows[k]
      <4>1. k # w /\ k \notin Group(w[1], w[2]) /\ k # JudgeOf(w[1], w[2])
        BY <3>1, InGroup DEF JudgeOf
      <4> QED
        BY <1>4, <4>1
    <3> QED
      BY <1>2, <1>4, <3>1 DEF OnlyAt, SameShape
  <2>5. CleanBut(w[1])' /\ Owing'
    BY <1>2, <2>1, <2>3, <2>4, WinsOne DEF Placed
  <2>6. w \in Won(w[1])'
    <3>1. Group(w[1], Last(w[1]))' = Group(w[1], Last(w[1]))
      BY <2>4, ShapeSame DEF OnlyAt
    <3>2. rows'[w] = [rows[w] EXCEPT !.sel = TRUE, !.st = "done"]
      BY <1>1, <1>4
    <3>3. rows'[w].sel /\ rows'[w].st = "done"
      BY <1>1, <3>2 DEF Rows
    <3> QED
      BY <2>1, <2>2, <3>1, <3>3 DEF Won, St
  <2>7. MergeNeed(w)'
    BY <2>5, <2>6 DEF MergeNeed
  <2>8. PICK i : i = IF by = "person" THEN Unpark(w, "merge", FALSE) ELSE I("merge", w)
    OBVIOUS
  <2>9. i = I("merge", w) \/ (HandsBack /\ \E x : i = Unpark(w, "merge", x))
    BY <1>3, <2>8
  <2> QED
    BY <1>1, <1>2, <1>4, <2>5, <2>7, <2>8, <2>9, MergeThen
<1>5. CASE rows' = rows /\ Ends
  BY <1>2, <1>5, SameOwes, NeedEnds
<1>6. CASE rows' = rows /\ by = "judge" /\ Then(I("gate", j))
  <2>1. Clean /\ WinsNone
    BY <1>2, <1>3, <1>6, SameWins
  <2>2. PICK i : i = I("gate", j)
    OBVIOUS
  <2>3. Mild(i)
    BY <2>2, MildOps
  <2> QED
    BY <1>1, <1>2, <1>6, <2>1, <2>2, <2>3, CleanGoes
<1> QED
  BY <1>4, <1>5, <1>6 DEF Selects

LEMMA GroupWhole == ASSUME Base, WalksGroup PROVE WholeGoes
BY FansWhole, RefusesWhole, CandidatesWhole, GroupEndsWhole, ChoosesWhole, JudgeSessionsWhole, SelectsWhole
   DEF WalksGroup

-----------------------------------------------------------------------------
(* Recovery: whoever takes the run up finds the merge that is owed.         *)

LEMMA PhasesTo ==
  ASSUME graph \in Graphs
  PROVE  IsFiniteSet(Phases) /\ \A p \in Phases : \A q \in 1..p - 1 : q \in Phases /\ q < p
<1> DEFINE S == [name : STRING, gate : Gates, fan : Nat \ {0}, judge : BOOLEAN, limit : Nat]
<1>1. graph \in Seq(S)
  BY GraphsAssumption
<1>2. Len(graph) \in Nat /\ Phases = 1..Len(graph)
  <2> HIDE DEF S
  <2> QED
    BY <1>1, LenProperties DEF Phases
<1> QED
  BY <1>2, FS_Interval

\* Unless what stands after the last winner is of older attempts alone, the frontier is all there
\* is to merge, and an empty frontier says that nothing is.
LEMMA FrontierTells ==
  ASSUME RowsInv, graph \in Graphs, Beyond({}), Owing, ~ Overlooks
  PROVE  /\ \A w \in Frontier : MergeNeed(w)
         /\ Frontier = {} => Clean
<1> PICK won : won = {p \in Phases : Won(p) # {}}
  OBVIOUS
<1> PICK m : m = Max(won)
  OBVIOUS
<1>1. CASE won = {}
  <2>1. Frontier = {}
    BY <1>1 DEF Frontier
  <2>2. Clean
    BY <1>1 DEF Clean
  <2> QED
    BY <2>1, <2>2
<1>2. CASE won # {}
  <2>1. m \in Phases /\ m \in Nat /\ Won(m) # {} /\ \A p \in Phases : Won(p) # {} => p <= m
    <3>1. won \in SUBSET Nat /\ IsFiniteSet(won)
      BY GraphFacts, PhasesTo, FS_Subset
    <3>2. m \in won /\ \A p \in won : p <= m
      BY <1>2, <3>1, MaxIsGreatest
    <3> QED
      BY <3>1, <3>2
  <2>2. CASE \A k \in DOMAIN rows : k[1] > m => St(k) \in Gone
    <3>1. Frontier = Won(m)
      BY <1>2, <2>2 DEF Frontier
    <3>2. ASSUME NEW w \in Won(m) PROVE MergeNeed(w)
      <4>1. w \in DOMAIN rows /\ w[1] = m /\ w[2] = Last(m) /\ St(w) \notin Gone
        BY <3>2, InGroup DEF Won, Gone
      <4>2. ~ Cleared(m)
        BY <4>1, StandsUncleared
      <4>3. ASSUME NEW q \in Phases, q # m, Won(q) # {} PROVE Settled(q)
        <5>1. q < m
          BY <2>1, <4>3, GraphFacts
        <5> QED
          BY <2>1, <4>2, <4>3, <5>1, EarlierMerged
      <4> QED
        BY <3>2, <4>1, <4>3 DEF MergeNeed, CleanBut
    <3> QED
      BY <2>1, <3>1, <3>2
  <2>3. CASE ~ \A k \in DOMAIN rows : k[1] > m => St(k) \in Gone
    <3>1. Frontier = {}
      BY <1>2, <2>3 DEF Frontier
    <3>2. PICK k \in DOMAIN rows : k[1] > m /\ St(k) \notin Gone /\ ~ (k[2] < Last(k[1]))
      BY <1>2, <2>3 DEF Overlooks
    <3>3. k[1] \in Phases /\ k[1] \in Nat /\ k[2] = Last(k[1])
      BY <3>2, KeyFacts, GraphFacts
    <3>4. Won(k[1]) = {}
      BY <2>1, <3>2, <3>3
    <3>5. Clean
      BY <3>2, <3>3, <3>4, StandsUncleared, LiveIsClean
    <3> QED
      BY <3>1, <3>5
  <2> QED
    BY <2>2, <2>3
<1> QED
  BY <1>1, <1>2

LEMMA FrontierGoes ==
  ASSUME Base, todo # <<>>, ~ Doing("retire"), Decides, MergesFrontier, ~ Overlooks
  PROVE  WholeGoes
<1>1. /\ \A w \in Frontier : MergeNeed(w)
      /\ Frontier = {} => Clean
  BY BaseFacts, FrontierTells
<1>2. CASE Frontier = {}
  BY <1>1, <1>2, DecideGoes DEF MergesFrontier
<1>3. CASE Frontier # {}
  <2>1. PICK w \in Frontier : Then(I("merge", w))
    BY <1>3 DEF MergesFrontier
  <2>2. graph' = graph /\ rows' = rows /\ run' # "done" /\ tails' = tails
    BY DecidesWins, BaseFacts
  <2>3. MergeNeed(w)' /\ Owing'
    BY <1>1, <2>2, SameOwes, BaseFacts
  <2>4. PICK i : i = I("merge", w)
    OBVIOUS
  <2> QED
    BY <2>1, <2>2, <2>3, <2>4, MergeThen
<1> QED
  BY <1>2, <1>3

LEMMA RecoversWhole == ASSUME Base, Recovers, ~ Overlooks PROVE WholeGoes
<1>1. todo # <<>> /\ ~ Doing("retire") /\ Decides
  BY OpFacts DEF Recovers, AllOps, OtherOps
<1> PICK K : K = {k \in DOMAIN rows : St(k) = "running"}
  OBVIOUS
<1>2. CASE K = {} /\ MergesFrontier
  BY <1>1, <1>2, FrontierGoes
<1>3. CASE K # {} /\ Then([op |-> "land", keys |-> K])
  <2>1. PICK k \in DOMAIN rows : St(k) = "running"
    BY <1>3
  <2>2. Clean
    BY <1>1, <2>1, FlightIsClean, BaseFacts DEF InFlight
  <2>3. PICK i : i = [op |-> "land", keys |-> K]
    OBVIOUS
  <2>4. i.op = "land"
    BY <2>3
  <2>5. Mild(i)
    BY <2>4 DEF Mild, Dirty
  <2> QED
    BY <1>1, <1>3, <2>2, <2>3, <2>5, DecideGoes
<1> QED
  BY <1>2, <1>3 DEF Recovers

LEMMA FailedGoes ==
  ASSUME Base, todo # <<>>, ~ Doing("retire"), Decides, RestsFailed, Then(SettleFailed(Cursor.key))
  PROVE  WholeGoes
<1>1. Clean
  BY RestsFailedIs, FailedIsClean, BaseFacts
<1>2. PICK i : i = SettleFailed(Cursor.key)
  OBVIOUS
<1>3. Mild(i)
  BY <1>2, SettledMild
<1> QED
  BY <1>1, <1>2, <1>3, DecideGoes

LEMMA SettlesWhole == ASSUME Base, Settles, ~ Overlooks PROVE WholeGoes
<1>1. todo # <<>> /\ ~ Doing("retire") /\ Decides
  BY OpFacts DEF Settles, AllOps, OtherOps
<1> QED
  BY <1>1, FailedGoes, FrontierGoes DEF Settles

LEMMA RederivesWhole == ASSUME Base, Rederives PROVE WholeGoes
<1>1. todo # <<>> /\ ~ Doing("retire") /\ Decides /\ Clean
  <2>1. todo # <<>> /\ Now.op = "rederive" /\ Decides
    BY DEF Rederives, Doing, Now
  <2>2. Clean
    BY <2>1, BaseFacts DEF WholeNeed, Dirty
  <2> QED
    BY <2>1, <2>2 DEF Doing, Now
<1>2. CASE Then(ParkRun)
  BY <1>1, <1>2, MildOps, DecideGoes
<1>3. CASE RestsFailed /\ Then(SettleFailed(Cursor.key))
  BY <1>1, <1>3, FailedGoes
<1>4. CASE Over
  BY <1>1, <1>4, DecideGoes
<1> QED
  BY <1>2, <1>3, <1>4 DEF Rederives

LEMMA LandsWhole == ASSUME Base, Lands PROVE WholeGoes
<1>1. todo # <<>> /\ Doing("land") /\ ~ Doing("retire") /\ Now.op = "land" /\ WritesRows
  BY DEF Lands, Doing, Now
<1>2. /\ Clean /\ Pre(Now) /\ graph' = graph /\ run' # "done" /\ RowsInv /\ graph \in Graphs /\ ShapeInv
      /\ SelectedIsDone
  <2>1. WholeNeed(Now) /\ Pre(Now) /\ graph' = graph /\ run' # "done" /\ RowsInv /\ graph \in Graphs /\ ShapeInv
    BY <1>1, BaseFacts DEF WritesRows
  <2>2. SelectedIsDone
    BY <1>1, BaseFacts DEF Placed
  <2> QED
    BY <1>1, <2>1, <2>2 DEF WholeNeed, Dirty
<1>3. PICK K \in SUBSET DOMAIN rows :
        /\ Now = [op |-> "land", keys |-> K] /\ Tail(todo) = <<Rederive, Pass>> /\ Rest = K
        /\ \A k : Without(k) = [op |-> "land", keys |-> K \ {k}]
  BY <1>1, <1>2, LandDoing
<1>4. \A k \in K : St(k) = "running"
  BY <1>1, <1>2, <1>3 DEF Pre
<1>5. CASE Over /\ rows' = rows
  BY <1>1, <1>2, <1>5, SameWins, CleanGoes
<1>6. ASSUME NEW k \in K, graph[k[1]].fan > 1, Then(Without(k)), NEW row,
             row \in {[To(k, "failed") EXCEPT !.note = "interrupted"], To(k, "done")},
             rows' = [rows EXCEPT ![k] = row]
      PROVE  WholeGoes
  <2>1. row.merged = rows[k].merged
    <3>1. /\ To(k, "done").merged = rows[k].merged
          /\ [To(k, "failed") EXCEPT !.note = "interrupted"].merged = rows[k].merged
      BY <1>2, MergedFacts
    <3> QED
      BY <1>6, <3>1
  <2>2. row.sel = rows[k].sel
    <3>1. /\ To(k, "done").sel = rows[k].sel
          /\ [To(k, "failed") EXCEPT !.note = "interrupted"].sel = rows[k].sel
      BY <1>2, ToFacts
    <3> QED
      BY <1>6, <3>1
  <2>3. ~ rows[k].sel
    BY <1>2, <1>4, <1>6 DEF SelectedIsDone, Gone
  <2>4. ~ row.sel /\ ~ Plain(k)
    <3>1. ~ row.sel
      BY <2>2, <2>3
    <3> QED
      BY <1>6, <3>1 DEF Plain
  <2>5. PICK i : i = [op |-> "land", keys |-> K \ {k}]
    OBVIOUS
  <2>6. i.op = "land" /\ Then(i)
    BY <1>3, <1>6, <2>5
  <2>7. Mild(i)
    BY <2>6 DEF Mild, Dirty
  <2> QED
    BY <1>1, <1>2, <1>6, <2>1, <2>4, <2>6, <2>7, RowGoes
<1>7. ASSUME NEW k \in K, rows' = rows, NEW i,
             i = IF rows[k].work # "none" THEN Applied(k, rows[k].work, "end") ELSE I("reset", k),
             todo' = <<i, Without(k)>> \o Tail(todo)
      PROVE  WholeGoes
  <2>1. Head(todo') = i
    <3>1. PICK l : l = Without(k)
      OBVIOUS
    <3>2. PICK t : t = <<Rederive, Pass>>
      OBVIOUS
    <3>3. todo' = <<i, l>> \o t
      BY <1>3, <1>7, <3>1, <3>2
    <3>4. Head(<<i, l>> \o t) = i
      BY <3>2
    <3> QED
      BY <3>3, <3>4
  <2>2. Mild(i)
    <3>1. CASE rows[k].work # "none"
      <4>1. PICK verdict : verdict = rows[k].work
        OBVIOUS
      <4>2. verdict \in Works \ {"none"} /\ i = Applied(k, verdict, "end")
        BY <1>2, <1>7, <3>1, <4>1, RowFields DEF Rows
      <4> QED
        BY <1>2, <4>2, AppliedIs, MildOps
    <3>2. CASE rows[k].work = "none"
      BY <1>7, <3>2, MildOps
    <3> QED
      BY <3>1, <3>2
  <2>3. Clean' /\ Owing'
    BY <1>2, <1>7, SameOwes, CleanOwes
  <2>4. WholeNeed(i)'
    BY <2>2, <2>3, MildNeed
  <2> QED
    BY <1>2, <2>1, <2>3, <2>4 DEF WholeGoes
<1>8. ASSUME NEW k \in First(Rest), graph[k[1]].fan > 1, Then(Without(k)),
             rows' = [rows EXCEPT ![k] =
                        IF rows[k].work # "none" /\ k[3] >= 0 THEN To(k, "done")
                        ELSE [To(k, "failed") EXCEPT !.note = "interrupted"]]
      PROVE  WholeGoes
  <2>1. PICK row : row = IF rows[k].work # "none" /\ k[3] >= 0 THEN To(k, "done")
                         ELSE [To(k, "failed") EXCEPT !.note = "interrupted"]
    OBVIOUS
  <2>2. k \in K /\ rows' = [rows EXCEPT ![k] = row]
        /\ row \in {[To(k, "failed") EXCEPT !.note = "interrupted"], To(k, "done")}
    BY <1>3, <1>8, <2>1 DEF First
  <2> QED
    BY <1>6, <1>8, <2>2
<1>9. ASSUME NEW k \in First(Rest), rows' = rows,
             todo' = <<IF rows[k].work # "none" THEN Applied(k, rows[k].work, "end") ELSE I("reset", k),
                       Without(k)>> \o Tail(todo)
      PROVE  WholeGoes
  <2>1. k \in K
    BY <1>3 DEF First
  <2> QED
    BY <1>7, <1>9, <2>1
<1> QED
  BY <1>5, <1>8, <1>9 DEF Lands

LEMMA ResetsWhole == ASSUME Base, Resets PROVE WholeGoes
<1> PICK k : k = Now.key
  OBVIOUS
<1>1. todo # <<>> /\ Clean /\ k \in DOMAIN rows /\ WritesRows
  BY OpFacts DEF Resets, AllOps, RowOps, DirtyOps
<1>2. graph' = graph /\ run' # "done" /\ RowsInv
  BY <1>1, BaseFacts DEF WritesRows
<1>3. CASE rows' = rows /\ Over
  BY <1>1, <1>2, <1>3, SameWins, CleanGoes
<1>4. ASSUME NEW note, rows' = [rows EXCEPT ![k] = [To(k, "failed") EXCEPT !.note = note]],
             Then(Admit(k[1], k[2] + 1)) \/ Then(ParkRun)
      PROVE  WholeGoes
  <2>1. PICK row : row = [To(k, "failed") EXCEPT !.note = note]
    OBVIOUS
  <2>2. row.merged = rows[k].merged /\ row.st = "failed" /\ rows' = [rows EXCEPT ![k] = row]
    BY <1>1, <1>2, <1>4, <2>1, MergedFacts, ToFacts
  <2>3. \E i : Then(i) /\ Mild(i)
    BY <1>4, MildOps
  <2> QED
    BY <1>1, <2>2, <2>3, RowGoes
<1>5. ASSUME rows' = [rows EXCEPT ![k] = [To(k, "failed") EXCEPT !.note = "interrupted"]],
             Then(IF MayAttempt(k[1], k[2] + 1) THEN Admit(k[1], k[2] + 1) ELSE ParkRun)
      PROVE  WholeGoes
  BY <1>4, <1>5
<1> QED
  BY <1>3, <1>4, <1>5 DEF Resets

-----------------------------------------------------------------------------
(* The cancel and the commands.                                             *)

LEMMA CancelsRunWhole == ASSUME Base, CancelsRun PROVE WholeGoes
<1>1. todo # <<>> /\ Decides
  BY OpFacts DEF CancelsRun, AllOps, OtherOps
<1>2. graph' = graph /\ rows' = rows /\ run' # "done" /\ Owing'
  BY <1>1, DecidesWins, SameOwes, BaseFacts
<1>3. PICK i : i = [op |-> "cancels", keys |-> {k \in DOMAIN rows : St(k) \notin TerminalStep}]
  OBVIOUS
<1>4. i.op = "cancels" /\ Then(i)
  BY <1>3 DEF CancelsRun
<1> QED
  BY <1>1, <1>2, <1>4, EndNeed, NeedThen

\* A row that goes is no winner, and what was gone before it still is.
LEMMA GoneOwes ==
  ASSUME Owing, NEW k \in DOMAIN rows, St(k) # "done", Only(k), St(k)' \in Gone,
         \A j \in DOMAIN rows : rows'[j].merged = rows[j].merged
  PROVE  Owing'
<1>1. /\ SameShape /\ Phases' = Phases /\ graph' = graph
      /\ \A p : At(p)' = At(p) /\ Last(p)' = Last(p) /\ \A a : Group(p, a)' = Group(p, a)
  BY ShapeSame DEF Only, SameShape
<1>2. \A j \in DOMAIN rows : rows'[j].sel = rows[j].sel /\ (j # k => St(j)' = St(j))
  BY DEF Only
<1>3. ASSUME NEW p PROVE Won(p)' = Won(p) /\ Settled(p)' = Settled(p) /\ (Cleared(p) => Cleared(p)')
  <2>1. \A j \in Group(p, Last(p)) : j \in DOMAIN rows
    BY InGroup
  <2>2. \A j \in At(p) : j \in DOMAIN rows
    BY DEF At
  <2>3. \A j \in Group(p, Last(p)) : (St(j)' = "done") = (St(j) = "done") /\ rows'[j].sel = rows[j].sel
    BY <1>2, <2>1 DEF Gone
  <2>4. Won(p)' = Won(p)
    BY <1>1, <2>3 DEF Won
  <2>5. \A j \in Won(p) : j \in DOMAIN rows
    BY <2>1 DEF Won
  <2>6. Settled(p)' = Settled(p)
    BY <2>4, <2>5, SettledIs
  <2>7. Chosen(p)' = Chosen(p)
    BY <1>1, <2>3 DEF Chosen
  <2>8. \A j \in At(p) : St(j) \in Gone => St(j)' \in Gone
    BY <1>2, <2>2
  <2>9. Cleared(p) => Cleared(p)'
    BY <1>1, <2>7, <2>8 DEF Cleared, Gone
  <2> QED
    BY <2>4, <2>6, <2>9
<1> QED
  BY <1>1, <1>3 DEF Owing

LEMMA CancelsRowsWhole == ASSUME Base, CancelsRows PROVE WholeGoes
<1>1. /\ todo # <<>> /\ Now.op = "cancels" /\ IsInstr(Now) /\ Rest \subseteq DOMAIN rows
      /\ \A k \in Rest : St(k) \notin TerminalStep
  <2>1. todo # <<>> /\ Now.op = "cancels" /\ IsInstr(Now) /\ Pre(Now)
    BY OpFacts DEF CancelsRows, AllOps, KeysOps
  <2>2. Rest \subseteq DOMAIN rows
    BY <2>1 DEF IsInstr, KeysOps, Rest
  <2>3. \A k \in DOMAIN rows : k \in Rest <=> St(k) \notin TerminalStep
    BY <2>1 DEF Pre, Rest
  <2> QED
    BY <2>1, <2>2, <2>3
<1>2. graph' = graph /\ run' # "done" /\ RowsInv /\ graph \in Graphs /\ Owing
  BY <1>1, BaseFacts DEF CancelsRows, WritesRows
<1>3. CASE rows' = rows /\ Then(Finish("cancelled"))
  <2>1. PICK i : i = Finish("cancelled")
    OBVIOUS
  <2>2. i.op = "finish" /\ i.to = "cancelled"
    BY <2>1 DEF Finish
  <2> QED
    BY <1>1, <1>2, <1>3, <2>1, <2>2, SameOwes, EndNeed, NeedThen
<1>4. ASSUME NEW k \in First(Rest), rows' = [rows EXCEPT ![k] = To(k, "cancelled")], Then(Without(k))
      PROVE  WholeGoes
  <2>1. k \in DOMAIN rows /\ St(k) # "done"
    BY <1>1 DEF First, TerminalStep
  <2>2. PICK row : row = To(k, "cancelled")
    OBVIOUS
  <2>3. row.merged = rows[k].merged /\ row.sel = rows[k].sel /\ row.st = "cancelled" /\ rows' = [rows EXCEPT ![k] = row]
    BY <1>2, <1>4, <2>1, <2>2, MergedFacts, ToFacts
  <2>4. Only(k) /\ St(k)' = "cancelled"
    BY <1>2, <2>1, <2>3, RowOnly
  <2>5. Owing'
    BY <1>2, <2>1, <2>3, <2>4, GoneOwes DEF Gone
  <2>6. PICK i : i = Without(k)
    OBVIOUS
  <2>7. i.op = "cancels"
    BY <1>1, <2>6, WithoutInstr DEF KeysOps
  <2> QED
    BY <1>1, <1>2, <1>4, <2>5, <2>6, <2>7, EndNeed, NeedThen
<1> QED
  BY <1>3, <1>4 DEF CancelsRows

LEMMA ApprovesRowWhole == ASSUME Base, ApprovesRow PROVE WholeGoes
<1> PICK k : k = Now.key
  OBVIOUS
<1>1. todo # <<>> /\ ~ Doing("retire") /\ k \in DOMAIN rows /\ k[3] >= 0 /\ HandsBack
  <2>1. todo # <<>> /\ ~ Doing("retire") /\ k \in DOMAIN rows /\ Now.op = "approve" /\ WholeNeed(Now) /\ Pre(Now)
    BY OpFacts DEF ApprovesRow, AllOps, RowOps
  <2> QED
    BY <2>1 DEF WholeNeed, Pre
<1>2. /\ RowsInv /\ graph \in Graphs /\ Placed({}) /\ Owing /\ graph' = graph /\ run' # "done" /\ tails' = tails
  BY <1>1, BaseFacts DEF ApprovesRow, Moves, WritesRows
<1>3. CASE rows' = rows /\ Ends
  BY <1>2, <1>3, SameOwes, NeedEnds
<1>4. CASE /\ St(k) = "awaiting" /\ rows' = [rows EXCEPT ![k] = [rows[k] EXCEPT !.st = "done", !.ans = "approved"]]
           /\ Then(Unpark(k, "merge", FALSE))
  <2>1. PICK row : row = [rows[k] EXCEPT !.st = "done", !.ans = "approved"]
    OBVIOUS
  <2>2. row.st = "done"
    BY <1>1, <1>2, <2>1, ToFacts
  <2>3. Plain(k)
    BY <1>1, <1>2, <1>4, PlainFacts DEF Placed
  <2>4. MergeNeed(k)' /\ Owing'
    BY <1>1, <1>2, <1>4, <2>1, <2>2, <2>3, StepWins DEF InFlight
  <2>5. PICK i : i = Unpark(k, "merge", FALSE)
    OBVIOUS
  <2> QED
    BY <1>1, <1>2, <1>4, <2>4, <2>5, MergeThen
<1> QED
  BY <1>3, <1>4 DEF ApprovesRow, Moves

LEMMA RetriesRowWhole == ASSUME Base, RetriesRow PROVE WholeGoes
<1> PICK k : k = Now.key
  OBVIOUS
<1>1. todo # <<>> /\ ~ Doing("retire") /\ k \in DOMAIN rows /\ RowsInv
  BY OpFacts, BaseFacts DEF RetriesRow, AllOps, RowOps
<1>2. PICK row : row = [rows[k] EXCEPT !.st = "superseded", !.ans = "retried"]
  OBVIOUS
<1>3. row.merged = rows[k].merged /\ row.st = "superseded"
  BY <1>1, <1>2, MergedFacts, ToFacts
<1>4. PICK i : i = Unpark(k, "readmit", Now.must)
  OBVIOUS
<1>5. Mild(i)
  BY <1>4, MildOps
<1> QED
  BY <1>1, <1>2, <1>3, <1>4, <1>5, MoveGoes DEF RetriesRow

LEMMA UnparksWhole == ASSUME Base, Unparks PROVE WholeGoes
<1> PICK k : k = Now.key
  OBVIOUS
<1> PICK then : then = Now.then
  OBVIOUS
<1>1. /\ todo # <<>> /\ Now.op = "unpark" /\ WholeNeed(Now)
      /\ then \in {"merge", "rejection", "readmit", "admit", "settle"}
  <2>1. todo # <<>> /\ Now.op = "unpark" /\ WholeNeed(Now) /\ IsInstr(Now)
    BY OpFacts DEF Unparks, AllOps, OtherOps
  <2> QED
    BY <2>1 DEF IsInstr
<1>2. /\ graph' = graph /\ rows' = rows /\ tails' = tails /\ Owing /\ run' # "done"
  BY <1>1, BaseFacts DEF Unparks
<1>3. Owing'
  BY <1>2, SameOwes
<1>4. /\ then \in {"merge", "settle"} => HandsBack
      /\ then = "merge" => MergeNeed(k)
      /\ then \notin {"merge", "settle"} => Clean /\ Clean'
  <2>1. /\ then \in {"merge", "settle"} => HandsBack
        /\ then = "merge" => MergeNeed(k)
        /\ then \notin {"merge", "settle"} => Clean
    BY <1>1 DEF WholeNeed, Dirty
  <2> QED
    BY <1>2, <2>1, SameOwes
<1>5. CASE Ends
  BY <1>2, <1>3, <1>5, NeedEnds
<1>6. CASE tails = "hand_back" /\ then \in {"merge", "rejection", "settle"} /\ Over
  <2>1. Tail(todo) = <<>> \/ Clean'
    BY <1>4, <1>6 DEF HandsBack
  <2> QED
    BY <1>1, <1>2, <1>3, <1>6, <2>1, NeedOver
<1>7. CASE Then(I(then, k))
  <2>1. PICK i : i = I(then, k)
    OBVIOUS
  <2>2. i.op = then
    BY <2>1 DEF I
  <2>3. CASE then = "merge"
    <3>1. MergeNeed(k)'
      BY <1>2, <1>4, <2>3, SameOwes
    <3> QED
      BY <1>1, <1>2, <1>3, <1>7, <2>1, <2>3, <3>1, MergeThen
  <2>4. CASE then = "settle"
    <3>1. WholeNeed(i)'
      BY <2>2, <2>4 DEF WholeNeed, Dirty
    <3> QED
      BY <1>1, <1>2, <1>3, <1>7, <2>1, <3>1, NeedThen
  <2>5. CASE then \notin {"merge", "settle"}
    <3>1. Mild(i)
      BY <1>1, <2>2, <2>5 DEF Mild, Dirty
    <3>2. WholeNeed(i)'
      BY <1>4, <2>5, <3>1, MildNeed
    <3> QED
      BY <1>1, <1>2, <1>3, <1>7, <2>1, <3>2, NeedThen
  <2> QED
    BY <2>3, <2>4, <2>5
<1> QED
  BY <1>5, <1>6, <1>7 DEF Unparks

LEMMA RejectionsWhole == ASSUME Base, Rejections PROVE WholeGoes
<1>1. todo # <<>> /\ Clean /\ Decides
  BY OpFacts DEF Rejections, AllOps, RowOps, DirtyOps
<1>2. PICK i : i = Rejection(Now.key)
  OBVIOUS
<1>3. Mild(i) /\ Then(i)
  BY <1>2, SettledMild DEF Rejections
<1> QED
  BY <1>1, <1>3, DecideGoes

LEMMA ReadmitsWhole == ASSUME Base, Readmits PROVE WholeGoes
<1>1. todo # <<>> /\ Clean /\ Decides
  BY OpFacts DEF Readmits, AllOps, RowOps, DirtyOps
<1>2. \E i : Then(i) /\ Mild(i)
  BY MildOps DEF Readmits
<1> QED
  BY <1>1, <1>2, DecideGoes

LEMMA WalksOnWhole == ASSUME Base, WalksOn PROVE WholeGoes
<1>1. todo # <<>> /\ Decides /\ ResumeNeed /\ HandsBack
  <2>1. todo # <<>> /\ Decides /\ Now.op = "resume" /\ WholeNeed(Now)
    BY OpFacts DEF WalksOn, AllOps, OtherOps
  <2> QED
    BY <2>1 DEF WholeNeed
<1>2. PICK i : i = Unpark(Now.key, "settle", TRUE)
  OBVIOUS
<1>3. Then(i) /\ i.op = "unpark" /\ i.then = "settle"
  BY <1>1, <1>2 DEF WalksOn, ResumeNeed, Unpark
<1>4. graph' = graph /\ rows' = rows /\ run' # "done" /\ tails' = tails /\ Owing'
  BY <1>1, DecidesWins, SameOwes, BaseFacts
<1>5. HandsBack'
  BY <1>1, <1>3, <1>4, HandsKeep
<1>6. WholeNeed(i)'
  BY <1>3, <1>5 DEF WholeNeed, Dirty
<1> QED
  BY <1>1, <1>3, <1>4, <1>6, NeedThen

LEMMA ServesWhole ==
  ASSUME Base, Serves, Doing("recover") \/ Doing("settle") => ~ Overlooks
  PROVE  WholeGoes
<1>1. CASE Recovers \/ Settles
  BY <1>1, RecoversWhole, SettlesWhole DEF Recovers, Settles
<1> QED
  BY <1>1, LandsWhole, ResetsWhole, RederivesWhole, CancelsRunWhole, CancelsRowsWhole, ApprovesRowWhole,
     RetriesRowWhole, UnparksWhole, RejectionsWhole, ReadmitsWhole, WalksOnWhole
     DEF Serves

-----------------------------------------------------------------------------
(* The walk, and what is not a step of it.                                  *)

LEMMA WalksWhole ==
  ASSUME Base, Walks, ~ blind'
  PROVE  WholeAt'
<1>1. Doing("recover") \/ Doing("settle") => ~ Overlooks
  BY DEF Walks
<1>2. WholeGoes
  BY <1>1, StepWhole, GroupWhole, ServesWhole DEF Walks
<1>3. asked' = asked /\ old' = old \cup {h \in People : asked[h] # <<>>}
  BY DEF Walks
<1>4. \A h \in People \ old' : asked'[h] = <<>>
  BY <1>3
<1> QED
  BY <1>2, <1>4 DEF WholeGoes, WholeAt

\* The same rows under the same run: a resume finds them as it did.
LEMMA SameResume ==
  ASSUME graph' = graph, rows' = rows, run' = run
  PROVE  ResumeNeed' = ResumeNeed
<1>1. /\ Phases' = Phases
      /\ \A p : At(p)' = At(p) /\ Last(p)' = Last(p) /\ Won(p)' = Won(p)
      /\ \A p, a : Slot(p, a)' = Slot(p, a) /\ Group(p, a)' = Group(p, a)
      /\ \A k : St(k)' = St(k)
  BY AllSame
<1>2. Cursor' = Cursor
  BY <1>1 DEF Cursor, JudgeOf, Gone, I, Admit
<1>3. Resumable' = Resumable
  BY <1>1, <1>2 DEF Resumable, RestsFailed
<1> QED
  BY <1>3 DEF ResumeNeed

LEMMA SameNeed ==
  ASSUME graph' = graph, tails' = tails, run' = run, rows' = rows, todo' = todo,
         NEW i, WholeNeed(i)
  PROVE  WholeNeed(i)'
<1>1. /\ Clean => Clean'
      /\ \A k : MergeNeed(k) => MergeNeed(k)'
      /\ Phases' = Phases /\ \A p : Settled(p)' = Settled(p)
  BY SameOwes
<1>2. ResumeNeed' = ResumeNeed /\ (HandsBack => HandsBack')
  BY SameResume DEF HandsBack
<1> QED
  BY <1>1, <1>2 DEF WholeNeed, Dirty

\* Nothing was written and the same comes next.
LEMMA StillGoes ==
  ASSUME WholeAt, graph' = graph, tails' = tails, run' = run, rows' = rows, todo' = todo
  PROVE  WholeGoes
<1>1. Owing' /\ Phases' = Phases /\ \A p : Settled(p)' = Settled(p)
  BY SameOwes DEF WholeAt
<1>2. PICK now : now = Head(todo)
  OBVIOUS
<1>3. todo # <<>> => WholeNeed(now)'
  BY <1>2, SameNeed DEF WholeAt
<1> QED
  BY <1>1, <1>2, <1>3 DEF WholeAt, WholeGoes

\* The same rows, and nothing comes next or what needs nothing.
LEMMA StopsGo ==
  ASSUME WholeAt, graph' = graph, run' = run, rows' = rows,
         todo' = <<>> \/ \E i : WholeNeed(i)' /\ todo' # <<>> /\ Head(todo') = i
  PROVE  WholeGoes
<1>1. Owing' /\ Phases' = Phases /\ \A p : Settled(p)' = Settled(p)
  BY SameOwes DEF WholeAt
<1> QED
  BY <1>1 DEF WholeAt, WholeGoes

LEMMA AskedKeep ==
  ASSUME WholeAt, WholeGoes, graph' = graph, run' = run, rows' = rows, asked' = asked, old' = old
  PROVE  WholeAt'
<1>1. ResumeNeed' = ResumeNeed
  BY SameResume
<1> QED
  BY <1>1 DEF WholeAt, WholeGoes

LEMMA StillWhole ==
  ASSUME WholeAt, graph' = graph, tails' = tails, run' = run, rows' = rows, todo' = todo, asked' = asked, old' = old
  PROVE  WholeAt'
BY StillGoes, AskedKeep

LEMMA SweepsWhole == ASSUME WholeAt, Sweeps PROVE WholeAt'
<1>1. graph' = graph /\ run' = run /\ rows' = rows /\ asked' = asked /\ old' = old
  BY DEF Sweeps, rowVars
<1>2. PICK i : i = I("recover", <<0, 0, 0>>)
  OBVIOUS
<1>3. todo' # <<>> /\ Head(todo') = i
  BY <1>2 DEF Sweeps
<1>4. WholeNeed(i)'
  BY <1>2, EndNeed DEF I
<1> QED
  BY <1>1, <1>3, <1>4, StopsGo, AskedKeep

LEMMA StopsWhole == ASSUME WholeAt, TakesCancel \/ Drops PROVE WholeAt'
<1>1. graph' = graph /\ run' = run /\ rows' = rows /\ asked' = asked /\ old' = old
  BY DEF TakesCancel, Drops, rowVars
<1>2. PICK i : i = I("cancel", <<0, 0, 0>>)
  OBVIOUS
<1>3. WholeNeed(i)'
  BY <1>2, EndNeed DEF I
<1>4. todo' = <<>> \/ (todo' # <<>> /\ Head(todo') = i)
  BY <1>2 DEF TakesCancel, Drops
<1> QED
  BY <1>1, <1>3, <1>4, StopsGo, AskedKeep

LEMMA AsksWhole ==
  ASSUME ShapeInv, WholeAt, NEW h \in People, NEW i, Asks(h, i), i.op = "resume" => ResumeNeed
  PROVE  WholeAt'
<1>1. graph' = graph /\ tails' = tails /\ run' = run /\ rows' = rows /\ todo' = todo /\ old' = old
  BY DEF Asks, rowVars
<1>2. WholeGoes /\ ResumeNeed' = ResumeNeed
  BY <1>1, StillGoes, SameResume
<1>3. PICK f : f = asked'
  OBVIOUS
<1>4. \A g \in People : f[g] = IF g = h THEN <<i>> ELSE asked[g]
  BY <1>3 DEF Asks, ShapeInv, AskedInv
<1>5. \A g \in People \ old : f[g] # <<>> /\ f[g][1].op = "resume" => ResumeNeed
  BY <1>4 DEF WholeAt
<1>6. (\A g \in People \ old : asked[g] # <<>> /\ asked[g][1].op = "resume" => ResumeNeed)'
  BY <1>1, <1>2, <1>3, <1>5
<1> QED
  BY <1>2, <1>6 DEF WholeAt, WholeGoes

LEMMA CommandsWhole ==
  ASSUME ShapeInv, WholeAt, NEW h \in People,
         Approves(h) \/ Rejects(h) \/ Retries(h) \/ RetriesGroup(h) \/ Picks(h) \/ Resumes(h)
  PROVE  WholeAt'
<1>1. CASE Resumes(h)
  <2>1. ResumeNeed /\ Asks(h, I("resume", <<0, 0, 0>>))
    BY <1>1 DEF Resumes, ResumeNeed
  <2> QED
    BY <2>1, AsksWhole
<1>2. CASE ~ Resumes(h)
  <2>1. PICK i : Asks(h, i) /\ i.op # "resume"
    <3>1. /\ \A k : I("approve", k).op = "approve" /\ Reject(k, "person").op = "reject" /\ Select(k, "person").op = "select"
          /\ \A k, x : Unpark(k, "readmit", x).op = "unpark" /\ [Unpark(k, "readmit", x) EXCEPT !.op = "retry"].op = "retry"
          /\ \A k, P : Retire(k, P, "unpark").op = "retire"
      BY DEF I, Reject, Select, Unpark, Retire
    <3>2. CASE Retries(h)
      BY <3>1, <3>2 DEF Retries
    <3>3. CASE ~ Retries(h)
      BY <1>2, <3>1, <3>3 DEF Approves, Rejects, RetriesGroup, Picks
    <3> QED
      BY <3>2, <3>3
  <2> QED
    BY <2>1, AsksWhole
<1> QED
  BY <1>1, <1>2

\* A command that nothing came before owes no merge, or hands its own on.
LEMMA TakenNeed ==
  ASSUME ShapeInv, RowsAt({}), WholeAt, NEW i, IsInstr(i), i.op \in AskedOps, AskedFits(i),
         Guarded(i) \/ AskedFresh(i), i.op = "resume" => ResumeNeed', HandsBack', Clean => Clean'
  PROVE  WholeNeed(i)'
<1>1. RowsInv /\ graph \in Graphs /\ Placed({}) /\ Owing
  BY DEF ShapeInv, Counters, RowsAt, WholeAt
<1>2. CASE i.op \in {"approve", "retry", "reject", "resume", "select"}
  BY <1>2 DEF WholeNeed, Dirty, AskedFits
<1>3. CASE i.op = "unpark"
  <2>1. i.then = "readmit" /\ i.key \in DOMAIN rows /\ FailedPre(i.key)
    BY <1>3 DEF AskedFits, AskedFresh, Guarded, IsInstr
  <2>2. Clean
    BY <1>1, <2>1, FailedIsClean
  <2> QED
    BY <1>3, <2>1, <2>2 DEF WholeNeed, Dirty
<1>4. CASE i.op = "retire"
  <2>1. PICK p : p = i.key[1]
    OBVIOUS
  <2>2. graph[p].fan > 1 /\ i.key[2] = Last(p) /\ ~ Chosen(p) /\ i.then = "unpark"
    BY <1>4, <2>1 DEF AskedFits, AskedFresh, Guarded
  <2>3. p \in Phases /\ Last(p) > 0
    <3>1. i.key \in Slots
      BY <1>4, <2>2 DEF IsInstr, KeysOps
    <3> QED
      BY <2>1, <2>2, <3>1 DEF Slots
  <2>4. Won(p) = {} /\ ~ Cleared(p)
    BY <1>1, <2>2, <2>3, GraphFacts, NotChosenOpen DEF Cleared
  <2>5. Clean
    BY <1>1, <2>3, <2>4, LiveIsClean DEF Placed
  <2> QED
    BY <1>4, <2>5 DEF WholeNeed, Dirty
<1> QED
  BY <1>2, <1>3, <1>4 DEF AskedOps

LEMMA TakesWhole ==
  ASSUME ShapeInv, WalkInv, WholeAt, NEW h \in People, ~ late', Takes(h)
  PROVE  WholeAt'
<1>1. graph' = graph /\ tails' = tails /\ rows' = rows /\ run' = run /\ todo = <<>>
  BY DEF Takes, rowVars
<1>2. RowsAt({})
  BY <1>1 DEF WalkInv, Retiring, Doing
<1>3. PICK i : i = asked[h][1]
  OBVIOUS
<1>4. /\ asked[h] = <<i>> /\ IsInstr(i) /\ i.op \in AskedOps /\ AskedFits(i)
      /\ h \notin old => AskedFresh(i) /\ (i.op = "resume" => ResumeNeed)
  BY <1>3 DEF Takes, ShapeInv, AskedInv, WalkInv, WholeAt
<1>5. h \notin old \/ Guarded(i)
  <2>1. Head(asked[h]) = i
    BY <1>4
  <2> QED
    BY <2>1 DEF Takes
<1>6. i.op = "resume" => ResumeNeed
  BY <1>4, <1>5 DEF Guarded
<1>7. PICK t : t = IF tails = "walk" THEN <<Pass>> ELSE <<>>
  OBVIOUS
<1>8. IsBack(t) /\ todo' = <<i>> \o t
  BY <1>4, <1>7 DEF IsBack, Takes
<1>9. todo' # <<>> /\ Head(todo') = i /\ Tail(todo') = t
  BY <1>8, BackIsSeq
<1>10. HandsBack'
  BY <1>1, <1>7, <1>9 DEF HandsBack
<1>11. /\ ResumeNeed' = ResumeNeed /\ (Clean => Clean')
  BY <1>1, SameResume, SameOwes
<1>12. WholeNeed(i)'
  BY <1>2, <1>4, <1>5, <1>6, <1>10, <1>11, TakenNeed
<1>13. WholeGoes
  BY <1>1, <1>9, <1>12, StopsGo
<1>14. PICK f : f = asked'
  OBVIOUS
<1>15. \A g \in People : f[g] = IF g = h THEN <<>> ELSE asked[g]
  BY <1>14 DEF Takes, ShapeInv, AskedInv
<1>16. \A g \in People \ old' : f[g] # <<>> /\ f[g][1].op = "resume" => ResumeNeed
  BY <1>15 DEF WholeAt, Takes
<1>17. (\A g \in People \ old : asked[g] # <<>> /\ asked[g][1].op = "resume" => ResumeNeed)'
  BY <1>11, <1>14, <1>16
<1> QED
  BY <1>13, <1>17 DEF WholeAt, WholeGoes

-----------------------------------------------------------------------------
(* The theorems.                                                            *)

LEMMA WholeInit ==
  ASSUME Init
  PROVE  WholeInv
<1>1. DOMAIN rows = {} /\ todo = <<>> /\ run = "running" /\ \A h \in People : asked[h] = <<>>
  BY DEF Init
<1>2. \A p : Won(p) = {}
  BY <1>1 DEF Won, Group, At
<1> QED
  BY <1>1, <1>2 DEF WholeInv, WholeAt, Owing

LEMMA WholeNext ==
  ASSUME ShapeInv, FrontInv, OneWinner, WholeInv, [Next]_vars
  PROVE  WholeInv'
<1> SUFFICES ASSUME ~ late', ~ torn', ~ blind' PROVE WholeAt'
  BY DEF WholeInv
<1>1. ASSUME ~ late, ~ torn, ~ blind PROVE WalkInv /\ WholeAt /\ Base
  BY <1>1 DEF FrontInv, WholeInv, Base
<1>2. CASE Walks
  BY <1>1, <1>2, WalksWhole DEF Walks
<1>3. CASE Sweeps
  BY <1>1, <1>3, SweepsWhole DEF Sweeps, history
<1>4. CASE Unblocks
  BY <1>1, <1>4, StillWhole DEF Unblocks, history
<1>5. CASE RequestsCancel
  BY <1>1, <1>5, StillWhole DEF RequestsCancel, rowVars, history
<1>6. CASE TakesCancel \/ Drops
  BY <1>1, <1>6, StopsWhole DEF TakesCancel, Drops, Tears
<1>7. ASSUME NEW h \in People, Takes(h) PROVE WholeAt'
  BY <1>1, <1>7, TakesWhole DEF Takes
<1>8. ASSUME NEW h \in People,
             Approves(h) \/ Rejects(h) \/ Retries(h) \/ RetriesGroup(h) \/ Picks(h) \/ Resumes(h)
      PROVE  WholeAt'
  <2>1. PICK i : Asks(h, i)
    BY <1>8 DEF Approves, Rejects, Retries, RetriesGroup, Picks, Resumes
  <2> QED
    BY <1>1, <1>8, <2>1, CommandsWhole DEF Asks, history
<1>9. CASE UNCHANGED vars
  BY <1>1, <1>9, StillWhole DEF vars, rowVars, history
<1> QED
  BY <1>2, <1>3, <1>4, <1>5, <1>6, <1>7, <1>8, <1>9 DEF Next, Commands

\* A winner whose trees are not merged is always the last there is, and everything after it is
\* gone; what comes next makes that merge, leads to it, or ends the walk, and otherwise nothing is
\* owed. So no crash, park, resume or pick loses a merge: whoever takes the run up finds it at the
\* frontier (recover.rs, frontier; engine.rs, reconcile_done_step and run_to_rest).
THEOREM WholeInvHolds == Spec => []WholeInv
<1>1. Init => WholeInv
  BY WholeInit
<1>2. ShapeInv /\ FrontInv /\ OneWinner /\ WholeInv /\ [Next]_vars => WholeInv'
  BY WholeNext
<1> QED
  BY <1>1, <1>2, ShapeHolds, FrontHolds, OneWinnerHolds, PTL DEF Spec

\* A run is done only when every phase has a winner whose trees were merged, and no step runs on
\* an earlier phase's unmerged work, for any graph, number of people, crashes and commands
\* (engine.rs, reconcile_done_step; recover.rs, frontier).
THEOREM WholeHolds == Spec => []Whole
<1>1. ShapeInv /\ FrontInv /\ WholeInv => Whole
  <2> SUFFICES ASSUME ShapeInv, WalkInv, WholeAt
               PROVE  /\ run = "done" => \A p \in Phases : Settled(p)
                      /\ \A k \in DOMAIN rows : St(k) = "running" => \A p \in 1..k[1] - 1 : Settled(p)
    BY DEF FrontInv, WholeInv, Whole
  <2>1. run = "done" => \A p \in Phases : Settled(p)
    BY DEF WholeAt
  <2>2. ASSUME NEW k \in DOMAIN rows, St(k) = "running", NEW p \in 1..k[1] - 1 PROVE Settled(p)
    <3>1. RowsAt(Retiring) /\ RowsInv /\ graph \in Graphs /\ Owing /\ (todo # <<>> => Pre(Now))
      BY DEF WalkInv, ShapeInv, Counters, WholeAt, Now
    <3>2. InFlight(k)
      BY <2>2 DEF InFlight
    <3>3. Retiring = {}
      <4> SUFFICES ASSUME Retiring # {} PROVE FALSE
        OBVIOUS
      <4>1. Doing("retire") /\ graph[Now.key[1]].fan = 1
        BY DEF Retiring
      <4>2. NoFlight
        BY <3>1, <4>1 DEF Pre, RetirePre, Doing, Now
      <4> QED
        BY <3>2, <4>2 DEF NoFlight
    <3>4. Placed({})
      BY <3>1, <3>3 DEF RowsAt, Placed
    <3>5. Clean
      BY <3>1, <3>2, <3>4, FlightIsClean
    <3>6. Won(p) # {} /\ p \in Phases
      <4>1. Front(k[1]) /\ k[1] \in Phases
        BY <3>1, <3>2, <3>4, InFlightIsFront, KeyFacts DEF Placed
      <4>2. p \in Phases /\ p < k[1]
        BY <3>1, <4>1, PhasesTo
      <4> QED
        BY <4>1, <4>2 DEF Front, Reached
    <3> QED
      BY <3>5, <3>6 DEF Clean
  <2> QED
    BY <2>1, <2>2
<1> QED
  BY <1>1, ShapeHolds, FrontHolds, WholeInvHolds, PTL

-----------------------------------------------------------------------------
(* The phases that are passed.                                              *)

\* The first n phases are passed, and not the next.
PassedTo(n) ==
  /\ \A q \in Phases : q <= n => Settled(q)
  /\ n + 1 \in Phases => ~ Settled(n + 1)

LEMMA LeastOpen ==
  ASSUME NEW N \in Nat, NEW U \in SUBSET (1..N), NEW n \in 0..N,
         \A q \in 1..N : q <= n => q \notin U, n + 1 \in 1..N => n + 1 \in U
  PROVE  Min(U \cup {N + 1}) - 1 = n
<1> DEFINE S == U \cup {N + 1}
<1>1. S \in SUBSET Nat /\ S # {}
  OBVIOUS
<1>2. Min(S) \in S /\ \A y \in S : Min(S) <= y
  <2> HIDE DEF S
  <2> QED
    BY <1>1, MinIsLeast
<1>3. n + 1 \in S
  OBVIOUS
<1>4. \A y \in S : n + 1 <= y
  OBVIOUS
<1>5. PICK m : m = Min(S)
  OBVIOUS
<1>6. m \in Nat /\ m <= n + 1 /\ n + 1 <= m
  BY <1>1, <1>2, <1>3, <1>4, <1>5
<1>7. m - 1 = n
  BY <1>6
<1> QED
  BY <1>5, <1>7

LEMMA PhasesAre ==
  ASSUME graph \in Graphs
  PROVE  Len(graph) \in Nat /\ Phases = 1..Len(graph)
<1> DEFINE S == [name : STRING, gate : Gates, fan : Nat \ {0}, judge : BOOLEAN, limit : Nat]
<1>1. graph \in Seq(S)
  BY GraphsAssumption
<1> HIDE DEF S
<1> QED
  BY <1>1, LenProperties DEF Phases

LEMMA PassedIs ==
  ASSUME graph \in Graphs, graph' = graph, NEW n \in 0..Len(graph)
  PROVE  /\ PassedTo(n) => Passed = n
         /\ PassedTo(n)' => Passed' = n
<1>1. Len(graph) \in Nat /\ Phases = 1..Len(graph) /\ Phases' = Phases
  BY PhasesAre DEF Phases
<1>2. PICK N \in Nat : N = Len(graph)
  BY <1>1
<1>3. ASSUME PassedTo(n) PROVE Passed = n
  <2>1. PICK U : U = {p \in Phases : ~ Settled(p)}
    OBVIOUS
  <2>2. U \in SUBSET (1..N) /\ (\A q \in 1..N : q <= n => q \notin U) /\ (n + 1 \in 1..N => n + 1 \in U)
    BY <1>1, <1>2, <1>3, <2>1 DEF PassedTo
  <2>3. Min(U \cup {N + 1}) - 1 = n
    BY <1>2, <2>2, LeastOpen
  <2> QED
    BY <1>2, <2>1, <2>3 DEF Passed
<1>4. ASSUME PassedTo(n)' PROVE Passed' = n
  <2>1. PICK U : U = {p \in Phases : ~ Settled(p)'}
    OBVIOUS
  <2>2. U \in SUBSET (1..N) /\ (\A q \in 1..N : q <= n => q \notin U) /\ (n + 1 \in 1..N => n + 1 \in U)
    BY <1>1, <1>2, <1>4, <2>1 DEF PassedTo
  <2>3. Min(U \cup {N + 1}) - 1 = n
    BY <1>2, <2>2, LeastOpen
  <2>4. Passed' = Min({p \in Phases' : ~ Settled(p)'} \cup {Len(graph') + 1}) - 1
    BY DEF Passed
  <2> QED
    BY <1>1, <1>2, <2>1, <2>3, <2>4
<1> QED
  BY <1>3, <1>4

-----------------------------------------------------------------------------
(* A step of the walk and the step of PhaseRun it is.                       *)

\* No phase is passed, opened or tried.
Unmoved ==
  graph' = graph /\ \A p \in Phases : Settled(p)' = Settled(p) /\ Last(p)' = Last(p)

SameTries == \A p \in Phases : Last(p)' = Last(p)

\* The phase that a review sends the run back to.
BackTo(p, t) ==
  /\ graph[p].name = "review" /\ t = Target(p) /\ t \in Phases /\ Last(t) <= graph[t].limit /\ Last(p) > 0

PhaseMoves ==
  \/ Unmoved /\ (run' = "done" => \A p \in Phases : Settled(p))
  \/ /\ graph' = graph /\ run' = run
     /\ \E p \in Phases :
          /\ PassedTo(p - 1)
          /\ \/ SameTries /\ PassedTo(p - 1)'
             \/ SameTries /\ PassedTo(p)' /\ Last(p) > 0
             \/ SameTries /\ \E t \in Phases : BackTo(p, t) /\ PassedTo(t - 1)'
             \/ /\ \A q \in Phases : Settled(q)' = Settled(q)
                /\ Last(p)' = Last(p) + 1 /\ \A q \in Phases : q # p => Last(q)' = Last(q)

Walked == [Phased!Next]_<<IF run \in TerminalRun THEN run ELSE "none", Passed, [p \in Phases |-> Last(p)],
                          [p \in Phases |-> [limit |-> graph[p].limit,
                               back  |-> IF graph[p].name = "review" THEN Target(p) ELSE 0]],
                          late \/ torn \/ blind>>

LEMMA UnmovedPassed ==
  ASSUME graph' = graph, \A p \in Phases : Settled(p)' = Settled(p)
  PROVE  Passed' = Passed /\ Phases' = Phases
<1>1. Phases' = Phases
  BY DEF Phases
<1>2. PICK U : U = {p \in Phases : ~ Settled(p)}
  OBVIOUS
<1>3. {p \in Phases' : ~ Settled(p)'} = U
  BY <1>1, <1>2
<1> QED
  BY <1>1, <1>2, <1>3 DEF Passed

LEMMA SameTarget ==
  ASSUME graph' = graph
  PROVE  \A p : Target(p)' = Target(p)
BY DEF Target, Phases

LEMMA AllPassed ==
  ASSUME graph \in Graphs, graph' = graph, \A p \in Phases : Settled(p)
  PROVE  Passed + 1 \notin Phases
<1>1. Len(graph) \in Nat /\ Phases = 1..Len(graph)
  BY PhasesAre
<1>2. PassedTo(Len(graph)) /\ Len(graph) \in 0..Len(graph)
  BY <1>1 DEF PassedTo
<1>3. Passed = Len(graph)
  BY <1>2, PassedIs
<1> QED
  BY <1>1, <1>3

LEMMA MovesArePhases ==
  ASSUME graph \in Graphs, run \notin TerminalRun, run' \in RunStatuses, PhaseMoves,
         (late \/ torn \/ blind)' \/ (late \/ torn \/ blind)' = (late \/ torn \/ blind)
  PROVE  Walked
<1>1. CASE (late \/ torn \/ blind)'
  BY <1>1 DEF Walked, Phased!Next
<1>2. CASE (late \/ torn \/ blind)' = (late \/ torn \/ blind)
  <2>1. /\ graph' = graph /\ Phases' = Phases
        /\ [p \in Phases |-> [limit |-> graph[p].limit, back  |-> IF graph[p].name = "review" THEN Target(p) ELSE 0]]'
           = [p \in Phases |-> [limit |-> graph[p].limit, back  |-> IF graph[p].name = "review" THEN Target(p) ELSE 0]]
    BY SameTarget DEF PhaseMoves, Unmoved, Phases
  <2>2. SameTries => [p \in Phases |-> Last(p)]' = [p \in Phases |-> Last(p)]
    BY <2>1 DEF SameTries
  <2>3. Len(graph) \in Nat /\ Phases = 1..Len(graph)
    BY PhasesAre
  <2> PICK outcome : outcome = IF run \in TerminalRun THEN run ELSE "none"
    OBVIOUS
  <2>4. CASE Unmoved /\ (run' = "done" => \A p \in Phases : Settled(p))
    <3>1. Passed' = Passed /\ [p \in Phases |-> Last(p)]' = [p \in Phases |-> Last(p)]
      BY <2>2, <2>4, UnmovedPassed DEF Unmoved, SameTries
    <3>2. CASE run' \notin TerminalRun
      BY <1>2, <2>1, <3>1, <3>2 DEF Walked
    <3>3. CASE run' \in TerminalRun
      <4>1. Phased!Ends(run')
        <5>1. run' = "done" => Passed + 1 \notin Phases
          BY <2>1, <2>4, AllPassed
        <5> QED
          BY <2>1, <3>1, <3>3, <5>1 DEF Phased!Ends, Phased!Phases
      <4> QED
        BY <3>3, <4>1 DEF Walked, Phased!Next, TerminalRun
    <3> QED
      BY <3>2, <3>3
  <2>5. ASSUME run' = run, NEW p \in Phases, PassedTo(p - 1) PROVE Passed = p - 1 /\ p \in Nat /\ p - 1 \in Nat
    BY <2>1, <2>3, <2>5, PassedIs
  <2>6. ASSUME run' = run, NEW p \in Phases, PassedTo(p - 1), SameTries, PassedTo(p)', Last(p) > 0 PROVE Walked
    <3>1. Passed = p - 1 /\ Passed + 1 = p
      BY <2>5, <2>6
    <3>2. Passed' = p
      BY <2>1, <2>3, <2>6, PassedIs
    <3>3. Phased!Passes(p)
      BY <2>1, <2>2, <2>6, <3>2 DEF Phased!Passes
    <3> QED
      BY <2>6, <3>1, <3>3 DEF Walked, Phased!Next, Phased!Phases
  <2>7. ASSUME run' = run, NEW p \in Phases, PassedTo(p - 1), SameTries, NEW t \in Phases, BackTo(p, t), PassedTo(t - 1)'
        PROVE  Walked
    <3>1. Passed = p - 1 /\ Passed + 1 = p
      BY <2>5, <2>7
    <3>2. Passed' = t - 1
      BY <2>1, <2>3, <2>7, PassedIs
    <3>3. Phased!GoesBack(p)
      BY <2>1, <2>2, <2>7, <3>2 DEF Phased!GoesBack, Phased!Phases, BackTo
    <3> QED
      BY <2>7, <3>1, <3>3 DEF Walked, Phased!Next, Phased!Phases
  <2>8. ASSUME run' = run, NEW p \in Phases, PassedTo(p - 1), \A q \in Phases : Settled(q)' = Settled(q),
               Last(p)' = Last(p) + 1, \A q \in Phases : q # p => Last(q)' = Last(q)
        PROVE  Walked
    <3>1. Passed = p - 1 /\ Passed + 1 = p
      BY <2>5, <2>8
    <3>2. Passed' = Passed
      BY <2>1, <2>8, UnmovedPassed
    <3>3. Phased!Tries(p)
      BY <2>1, <2>8, <3>2 DEF Phased!Tries, Phased!Phases
    <3> QED
      BY <2>8, <3>1, <3>3 DEF Walked, Phased!Next, Phased!Phases
  <2>9. ASSUME run' = run, NEW p \in Phases, PassedTo(p - 1), SameTries, PassedTo(p - 1)' PROVE Walked
    <3>1. Passed = p - 1 /\ Passed' = p - 1
      BY <2>1, <2>3, <2>5, <2>9, PassedIs
    <3> QED
      BY <1>2, <2>1, <2>2, <2>9, <3>1 DEF Walked
  <2> QED
    BY <2>4, <2>6, <2>7, <2>8, <2>9 DEF PhaseMoves
<1> QED
  BY <1>1, <1>2

-----------------------------------------------------------------------------
(* What an instruction that rejects, or tries, needs when its turn comes.   *)

\* Only a review rejects.
Reviews == \A k \in DOMAIN rows : rows[k].work = "reject" => graph[k[1]].name = "review"

\* Who may reject: a review, or a group's judge.
Judges(k) == k[3] < 0 \/ graph[k[1]].name = "review"

\* The retirement of a rejection starts with the winner it sends back.
LoopNeed(i) ==
  LET p == i.key[1]  t == Target(p) IN
  /\ p \in Phases /\ BackTo(p, t) /\ t < p
  /\ \A k \in i.keys : t <= k[1]
  /\ (PassedTo(p - 1) /\ Won(t) \subseteq i.keys) \/ PassedTo(t - 1)

PhaseNeed(i) ==
  /\ i.op = "gate" => Judges(i.key)
  /\ i.op = "reject" => i.by = "person" \/ Judges(i.key)
  /\ i.op = "loop" => graph[i.key[1]].name = "review"
  /\ i.op = "retire" /\ graph[i.key[1]].fan = 1 => LoopNeed(i)
  /\ i.op = "create" => i.key[2] <= Last(i.key[1]) + 1

PhaseNext == todo # <<>> => PhaseNeed(Head(todo))

PhaseAt  == Reviews /\ PhaseNext
PhaseInv == ~ late /\ ~ torn /\ ~ blind => PhaseAt

\* An instruction that needs nothing.
Loose(i) ==
  /\ i.op \notin {"gate", "loop", "create"}
  /\ i.op = "reject" => i.by = "person"
  /\ i.op = "retire" => graph[i.key[1]].fan # 1

LEMMA LooseNeed ==
  ASSUME NEW i, Loose(i), graph' = graph
  PROVE  PhaseNeed(i)'
BY DEF Loose, PhaseNeed

LEMMA ThenNeeds ==
  ASSUME Base, todo # <<>>, NEW i, Then(i), PhaseNeed(i)'
  PROVE  PhaseNext'
BY ThenIs DEF PhaseNext

LEMMA OverNeeds ==
  ASSUME Base, todo # <<>>, Over \/ Ends
  PROVE  PhaseNext'
<1>1. CASE Ends
  BY <1>1 DEF Ends, PhaseNext
<1>2. CASE Over
  <2>1. PICK t : t = Tail(todo)
    OBVIOUS
  <2>2. IsBack(t) /\ todo' = t
    BY <1>2, <2>1, BaseFacts DEF Over
  <2>3. ASSUME t # <<>> PROVE PhaseNeed(Head(todo))'
    <3>1. PICK i : i = Head(t)
      OBVIOUS
    <3>2. i.op \in {"pass", "rederive", "land"}
      BY <2>2, <2>3, <3>1, BackTails
    <3>3. PhaseNeed(i)'
      BY <3>2 DEF PhaseNeed
    <3> QED
      BY <2>2, <3>1, <3>3
  <2> QED
    BY <2>2, <2>3 DEF PhaseNext
<1> QED
  BY <1>1, <1>2

-----------------------------------------------------------------------------
(* What a step of the walk leaves.                                          *)

PhaseGoes == PhaseMoves /\ Reviews' /\ PhaseNext'

\* What comes next needs nothing, or has what it needs.
Leads == Over \/ Ends \/ \E i : Then(i) /\ (Loose(i) \/ PhaseNeed(i)')

LEMMA LeadsNext ==
  ASSUME Base, todo # <<>>, graph' = graph, Leads
  PROVE  PhaseNext'
BY LooseNeed, ThenNeeds, OverNeeds DEF Leads

LEMMA SameReviews ==
  ASSUME Reviews, graph' = graph, DOMAIN rows' = DOMAIN rows,
         \A k \in DOMAIN rows : rows'[k].work = rows[k].work
  PROVE  Reviews'
BY DEF Reviews

LEMMA SameUnmoved ==
  ASSUME graph' = graph, rows' = rows
  PROVE  Unmoved /\ \A p : Won(p)' = Won(p) /\ Last(p)' = Last(p)
<1>1. \A p : At(p)' = At(p) /\ Last(p)' = Last(p) /\ \A a : Group(p, a)' = Group(p, a)
  BY DEF At, Last, Group
<1>2. \A p : Won(p)' = Won(p)
  BY <1>1 DEF Won, St
<1> QED
  BY <1>1, <1>2, SameOwes DEF Unmoved

LEMMA SameMoves ==
  ASSUME graph' = graph, rows' = rows, run' # "done"
  PROVE  PhaseMoves
BY SameUnmoved DEF PhaseMoves

LEMMA SamePhase ==
  ASSUME Base, PhaseAt, todo # <<>>, graph' = graph, rows' = rows, run' # "done", Leads
  PROVE  PhaseGoes
<1>1. Reviews'
  BY SameReviews DEF PhaseAt
<1> QED
  BY <1>1, SameMoves, LeadsNext DEF PhaseGoes

LEMMA DecidePhase ==
  ASSUME Base, PhaseAt, todo # <<>>, Decides, Leads
  PROVE  PhaseGoes
BY DecidesWins, BaseFacts, SamePhase

\* The winners are the same rows, and merged where they were.
LEMMA WonUnmoved ==
  ASSUME SameShape, \A p \in Phases : Won(p)' = Won(p), \A k \in DOMAIN rows : rows'[k].merged = rows[k].merged
  PROVE  Unmoved
<1>1. graph' = graph /\ \A p \in Phases : Last(p)' = Last(p)
  BY ShapeSame DEF SameShape
<1>2. ASSUME NEW p \in Phases PROVE Settled(p)' = Settled(p)
  <2>1. \A k \in Won(p) : k \in DOMAIN rows
    BY DEF Won, Group, At
  <2> QED
    BY <2>1, SettledIs
<1> QED
  BY <1>1, <1>2 DEF Unmoved

\* A row is written in its status, its answer and its note alone.
Same(k, row) == row.sel = rows[k].sel /\ row.merged = rows[k].merged /\ row.work = rows[k].work

LEMMA SameFields ==
  ASSUME RowsInv, NEW k \in DOMAIN rows
  PROVE  /\ \A st : Same(k, To(k, st)) /\ To(k, st).st = st
         /\ \A st, note : Same(k, [To(k, st) EXCEPT !.note = note]) /\ [To(k, st) EXCEPT !.note = note].st = st
         /\ \A st, ans : Same(k, [rows[k] EXCEPT !.st = st, !.ans = ans]) /\ [rows[k] EXCEPT !.st = st, !.ans = ans].st = st
<1>1. rows[k] \in Rows
  BY DEF RowsInv
<1>2. \A st : Same(k, To(k, st)) /\ To(k, st).st = st
  BY <1>1 DEF Rows, To, Same
<1>3. \A st, note : Same(k, [To(k, st) EXCEPT !.note = note]) /\ [To(k, st) EXCEPT !.note = note].st = st
  BY <1>1 DEF Rows, To, Same
<1>4. \A st, ans : /\ Same(k, [rows[k] EXCEPT !.st = st, !.ans = ans])
                   /\ [rows[k] EXCEPT !.st = st, !.ans = ans].st = st
  BY <1>1 DEF Rows, Same
<1> QED
  BY <1>2, <1>3, <1>4

\* A row that was not done does not become its position's winner.
LEMMA RowUnmoved ==
  ASSUME RowsInv, graph \in Graphs, graph' = graph, NEW k \in DOMAIN rows, NEW row, Same(k, row),
         rows' = [rows EXCEPT ![k] = row], St(k) # "done",
         row.st # "done" \/ k[3] < 0 \/ (~ Plain(k) /\ ~ rows[k].sel)
  PROVE  Unmoved /\ \A p \in Phases : Won(p)' = Won(p)
<1>1. Only(k) /\ St(k)' = row.st /\ SameShape
  BY RowOnly DEF Same, Only
<1>2. \A p : Won(p)' = Won(p)
  BY <1>1, WonSame
<1>3. \A j \in DOMAIN rows : rows'[j].merged = rows[j].merged
  BY DEF Same
<1> QED
  BY <1>1, <1>2, <1>3, WonUnmoved

LEMMA RowReviews ==
  ASSUME Reviews, graph' = graph, NEW k \in DOMAIN rows, NEW row, rows' = [rows EXCEPT ![k] = row],
         row.work = rows[k].work
  PROVE  Reviews'
<1>1. DOMAIN rows' = DOMAIN rows /\ \A j \in DOMAIN rows : rows'[j].work = rows[j].work
  OBVIOUS
<1> QED
  BY <1>1, SameReviews

LEMMA RowPhase ==
  ASSUME Base, PhaseAt, todo # <<>>, graph' = graph, run' # "done", NEW k \in DOMAIN rows, NEW row, Same(k, row),
         rows' = [rows EXCEPT ![k] = row], St(k) # "done",
         row.st # "done" \/ k[3] < 0 \/ (~ Plain(k) /\ ~ rows[k].sel), Leads
  PROVE  PhaseGoes
<1>1. Unmoved
  BY RowUnmoved, BaseFacts
<1>2. Reviews'
  BY RowReviews DEF PhaseAt, Same
<1>3. PhaseMoves
  BY <1>1 DEF PhaseMoves
<1> QED
  BY <1>2, <1>3, LeadsNext DEF PhaseGoes

LEMMA MovePhase ==
  ASSUME Base, PhaseAt, todo # <<>>, NEW k \in DOMAIN rows, NEW from, from # "done", NEW row, Same(k, row),
         row.st # "done", NEW next, Loose(next) \/ (graph' = graph => PhaseNeed(next)'), Moves(k, from, row, next)
  PROVE  PhaseGoes
<1>1. graph' = graph /\ run' # "done"
  BY BaseFacts DEF Moves, WritesRows
<1>2. CASE St(k) = from /\ rows' = [rows EXCEPT ![k] = row] /\ Then(next)
  BY <1>1, <1>2, RowPhase DEF Leads
<1>3. CASE rows' = rows /\ Ends
  BY <1>1, <1>3, SamePhase DEF Leads
<1> QED
  BY <1>2, <1>3 DEF Moves

-----------------------------------------------------------------------------
(* Where the front is, and a phase that is passed.                          *)

LEMMA GoneWins ==
  ASSUME NEW q, \A k \in At(q) : k[2] = Last(q) => St(k) \in Gone
  PROVE  Won(q) = {} /\ ~ Settled(q)
BY SettledIs DEF Won, Group, Gone

LEMMA FrontPassed ==
  ASSUME graph \in Graphs, Clean, NEW p \in Phases, Front(p)
  PROVE  PassedTo(p - 1)
<1>1. p \in Nat \ {0} /\ \A q \in Phases : q \in Nat
  BY GraphFacts
<1>2. \A q \in Phases : q < p => Settled(q)
  BY DEF Front, Reached, Clean
<1>3. ~ Settled(p)
  BY SettledIs DEF Front
<1> QED
  BY <1>1, <1>2, <1>3 DEF PassedTo

\* Rows of the next phase alone are written: it may be passed, and the one after it is not.
LEMMA PassesOne ==
  ASSUME graph \in Graphs, NEW p \in Phases, OnlyAt(p), PassedTo(p - 1), Last(p) > 0,
         p + 1 \in Phases => ~ Settled(p + 1), run' = run, run # "done"
  PROVE  PhaseMoves
<1>1. p \in Nat \ {0} /\ \A q \in Phases : q \in Nat
  BY GraphFacts
<1>2. /\ graph' = graph /\ Phases' = Phases /\ \A q : Last(q)' = Last(q)
      /\ \A q : q # p => Settled(q)' = Settled(q)
  BY OthersSame, ShapeSame DEF OnlyAt, SameShape
<1>3. (\A q \in Phases : q < p => Settled(q)) /\ ~ Settled(p)
  BY <1>1 DEF PassedTo
<1>4. CASE Settled(p)'
  <2>1. PassedTo(p)'
    BY <1>1, <1>2, <1>3, <1>4 DEF PassedTo
  <2> QED
    BY <1>2, <2>1 DEF PhaseMoves, SameTries
<1>5. CASE ~ Settled(p)'
  <2>1. Settled(p) \in BOOLEAN /\ Settled(p)' \in BOOLEAN
    BY DEF Settled
  <2>2. Unmoved
    BY <1>2, <1>3, <1>5, <2>1 DEF Unmoved
  <2> QED
    BY <2>2 DEF PhaseMoves
<1> QED
  BY <1>4, <1>5

LEMMA FrontWins ==
  ASSUME Base, Beyond({}), Clean, NEW p \in Phases, Front(p), Last(p) > 0, OnlyAt(p), run' = run, run # "done"
  PROVE  PhaseMoves
<1>1. graph \in Graphs
  BY BaseFacts
<1>2. p + 1 \in Phases => ~ Settled(p + 1)
  <2>1. p < p + 1
    BY <1>1, GraphFacts
  <2>2. p + 1 \in Phases => \A k \in At(p + 1) : k[2] = Last(p + 1) => St(k) \in Gone
    BY <2>1 DEF Beyond, Front
  <2> QED
    BY <2>2, GoneWins
<1> QED
  BY <1>1, <1>2, FrontPassed, PassesOne

\* A plain step that was in flight is done.
LEMMA DonePhase ==
  ASSUME Base, PhaseAt, todo # <<>>, ~ Doing("retire"), graph' = graph, run' = run,
         NEW k \in DOMAIN rows, InFlight(k), NEW row, row.work = rows[k].work,
         rows' = [rows EXCEPT ![k] = row], Leads
  PROVE  PhaseGoes
<1>1. RowsInv /\ graph \in Graphs /\ Placed({}) /\ Beyond({}) /\ Owing /\ run # "done"
  BY BaseFacts
<1>2. Front(k[1]) /\ k[2] = Last(k[1]) /\ Clean
  BY <1>1, InFlightIsFront, FlightIsClean DEF Placed
<1>3. k[1] \in Phases /\ Last(k[1]) > 0
  BY <1>1, <1>2, KeyFacts
<1>4. OnlyAt(k[1])
  BY DEF OnlyAt, SameShape
<1>5. PhaseMoves
  BY <1>1, <1>2, <1>3, <1>4, FrontWins
<1>6. Reviews'
  BY RowReviews DEF PhaseAt
<1> QED
  BY <1>5, <1>6, LeadsNext DEF PhaseGoes

-----------------------------------------------------------------------------
(* The walk of a plain step.                                                *)

LEMMA LooseOps ==
  /\ \A x : Loose(Block(x)) /\ Loose(FailRun(x))
  /\ \A S, x : Loose(Refuse(S, x))
  /\ \A k, x : Loose(FailHard(k, x)) /\ Loose(Park(k, x)) /\ Loose(Reject(k, "person"))
  /\ \A p, a : Loose(Admit(p, a))
  /\ \A k, x, then : Loose(Unpark(k, then, x)) /\ Loose(Select(k, x))
  /\ \A op : op \notin {"gate", "loop", "create", "reject", "retire"} => \A k : Loose(I(op, k))
  /\ \A x : Loose(Finish(x)) /\ Loose(ParkRun) /\ Loose(Escalate)
BY DEF Loose, Block, FailRun, Refuse, FailHard, Park, Reject, Admit, Unpark, Select, I, Finish, ParkRun, Escalate

LEMMA SettledNeed ==
  ASSUME NEW k, NEW i, i = SettleFailed(k) \/ i = Rejection(k), graph' = graph
  PROVE  PhaseNeed(i)'
<1>1. \/ i = I("loop", k) /\ graph[k[1]].name = "review"
      \/ i \in {Finish("failed"), Admit(k[1], k[2] + 1), ParkRun}
  BY DEF SettleFailed, Rejection
<1>2. CASE i = I("loop", k) /\ graph[k[1]].name = "review"
  BY <1>2 DEF PhaseNeed, I
<1>3. CASE i \in {Finish("failed"), Admit(k[1], k[2] + 1), ParkRun}
  BY <1>3, LooseOps, LooseNeed
<1> QED
  BY <1>1, <1>2, <1>3

LEMMA PassesPhase == ASSUME Base, PhaseAt, Passes PROVE PhaseGoes
<1>1. Doing("pass") /\ Decides /\ todo # <<>> /\ RowsInv /\ graph \in Graphs
  BY BaseFacts DEF Passes, Doing
<1>2. graph' = graph /\ rows' = rows /\ run' # "done"
  BY <1>1, DecidesWins, BaseFacts
<1>3. PhaseMoves /\ Reviews'
  BY <1>2, SameMoves, SameReviews DEF PhaseAt
<1>4. ASSUME NEW i, todo' = <<i>> \o todo, PhaseNeed(i)' PROVE PhaseNext'
  <2>1. IsBack(todo)
    <3>1. Head(todo).op = "pass" /\ TodoInv
      BY <1>1 DEF Doing, Base, ShapeInv
    <3> QED
      BY <1>1, <3>1 DEF TodoInv, IsInstr, RowOps, SlotOps, KeysOps, OtherOps
  <2>2. PICK t : t = todo
    OBVIOUS
  <2>3. todo' # <<>> /\ Head(todo') = i
    BY <1>4, <2>1, <2>2, BackIsSeq
  <2> QED
    BY <1>4, <2>3 DEF PhaseNext
<1>5. ASSUME Ends PROVE PhaseNext'
  BY <1>5 DEF PhaseNext, Ends
<1>6. ASSUME todo' = <<Finish("done")>> \o todo PROVE PhaseNext'
  <2>1. PICK i : i = Finish("done")
    OBVIOUS
  <2>2. PhaseNeed(i)'
    BY <1>2, <2>1, LooseOps, LooseNeed
  <2> QED
    BY <1>4, <1>6, <2>1, <2>2
<1>7. ASSUME todo' = <<SettleFailed(Cursor.key)>> \o todo PROVE PhaseNext'
  <2>1. PICK i : i = SettleFailed(Cursor.key)
    OBVIOUS
  <2> QED
    BY <1>2, <1>4, <1>7, <2>1, SettledNeed
<1>8. ASSUME Cursor.op \notin {"done", "rest"}, todo' = <<Cursor>> \o todo PROVE PhaseNext'
  <2>1. Cursor.op \in {"admit", "start", "fan", "choose"}
    BY <1>1, <1>8, CursorFacts DEF I, Admit
  <2>2. PICK i : i = Cursor
    OBVIOUS
  <2>3. PhaseNeed(i)'
    BY <2>1, <2>2 DEF PhaseNeed
  <2> QED
    BY <1>4, <1>8, <2>2, <2>3
<1>9. PhaseNext'
  BY <1>5, <1>6, <1>7, <1>8 DEF Passes
<1> QED
  BY <1>3, <1>9 DEF PhaseGoes

LEMMA CreateLeads ==
  ASSUME Base, graph' = graph, rows' = rows, NEW S, NEW k, NEW then, NEW i, i = Create(S, k, then), k[2] <= Last(k[1]) + 1
  PROVE  PhaseNeed(i)'
<1>1. i.op = "create" /\ i.key = k
  BY DEF Create
<1>2. Last(k[1])' = Last(k[1])
  BY SameUnmoved
<1> QED
  BY <1>1, <1>2 DEF PhaseNeed

LEMMA AdmitsPhase == ASSUME Base, PhaseAt, Admits PROVE PhaseGoes
<1> PICK k : k = Now.key
  OBVIOUS
<1>1. todo # <<>> /\ Decides /\ k[2] = Last(k[1]) + 1 /\ RowsInv /\ graph' = graph /\ rows' = rows
  <2>1. todo # <<>> /\ Decides /\ Now.op = "admit" /\ Pre(Now) /\ RowsInv
    BY OpFacts, BaseFacts DEF Admits, AllOps, SlotOps
  <2>2. AdmitPre(Now.key[1], Now.key[2])
    BY <2>1 DEF Pre
  <2> QED
    BY <2>1, <2>2, DecidesWins DEF AdmitPre
<1>2. CASE Then(Create(Slot(k[1], k[2]), k, "none"))
  <2>1. PICK i : i = Create(Slot(k[1], k[2]), k, "none")
    OBVIOUS
  <2>2. k[2] <= Last(k[1]) + 1
    BY <1>1, LastFacts
  <2>3. PhaseNeed(i)'
    BY <1>1, <2>1, <2>2, CreateLeads
  <2> QED
    BY <1>1, <1>2, <2>1, <2>3, DecidePhase DEF Leads
<1>3. CASE Then(Block("fail"))
  BY <1>1, <1>3, LooseOps, DecidePhase DEF Leads
<1> QED
  BY <1>2, <1>3 DEF Admits

LEMMA CreatesPhase == ASSUME Base, PhaseAt, Creates PROVE PhaseGoes
<1>1. todo # <<>> /\ Clean /\ Now.op = "create" /\ IsInstr(Now) /\ Pre(Now) /\ WritesRows /\ PhaseNeed(Now)
  BY OpFacts DEF Creates, AllOps, OtherOps, DirtyOps, PhaseAt, PhaseNext, Now
<1>2. graph' = graph /\ run' = run /\ run # "done" /\ RowsInv /\ graph \in Graphs
  BY <1>1, BaseFacts DEF WritesRows
<1>3. CASE Rest = {} /\ rows' = rows /\ IF Now.then = "none" THEN Over ELSE Then(I(Now.then, Now.key))
  <2>1. Now.then \in {"none", "fan", "start"}
    BY <1>1 DEF IsInstr
  <2> QED
    BY <1>1, <1>2, <1>3, <2>1, LooseOps, SamePhase DEF Leads
<1>4. CASE rows' = rows /\ Ends
  BY <1>1, <1>2, <1>4, SamePhase DEF Leads
<1>5. ASSUME NEW k \in Rest, k \notin DOMAIN rows, Then(Without(k)),
             rows' = [j \in DOMAIN rows \cup {k} |-> IF j = k THEN NewRow ELSE rows[j]]
      PROVE  PhaseGoes
  <2>1. PICK p : p = Now.key[1]
    OBVIOUS
  <2>2. CreatePre(Now) /\ Now.then \in {"none", "fan", "start"} /\ Rest = Now.keys /\ k \in Keys
    BY <1>1, <1>5 DEF Pre, IsInstr, Rest
  <2>3. k[1] = p /\ k[2] = Now.key[2] /\ Front(p) /\ Last(p) <= k[2]
    BY <1>5, <2>1, <2>2 DEF CreatePre, Slot, JudgeOf
  <2>4. Created(k) /\ Won(k[1]) = {} /\ p \in Phases /\ k[2] \in Nat /\ Last(p) \in Nat
    BY <1>2, <1>5, <2>2, <2>3, LastFacts DEF Created, Front, Keys
  <2>5. k[2] <= Last(p) + 1
    BY <1>1, <2>1, <2>3 DEF PhaseNeed
  <2>6. /\ \A j \in DOMAIN rows : rows'[j] = rows[j]
        /\ \A q : q # p => Last(q)' = Last(q)
        /\ Last(p)' = k[2]
    BY <1>2, <2>2, <2>3, <2>4, CreatedFacts
  <2>7. \A q \in Phases : Settled(q)' = Settled(q)
    <3>1. \A q \in Phases : Won(q)' = Won(q)
      BY <1>2, <2>2, <2>3, <2>4, NewWinsNone
    <3>2. \A q \in Phases : \A j \in Won(q) : rows'[j] = rows[j]
      BY <2>6 DEF Won, Group, At
    <3> QED
      BY <3>1, <3>2, SettledIs
  <2>8. PhaseMoves
    <3>1. CASE k[2] = Last(p)
      <4>1. Unmoved
        BY <1>2, <2>6, <2>7, <3>1 DEF Unmoved
      <4> QED
        BY <1>2, <4>1 DEF PhaseMoves
    <3>2. CASE k[2] = Last(p) + 1
      <4>1. PassedTo(p - 1)
        BY <1>1, <1>2, <2>3, <2>4, FrontPassed
      <4> QED
        BY <1>2, <2>4, <2>6, <2>7, <3>2, <4>1 DEF PhaseMoves
    <3> QED
      BY <2>3, <2>4, <2>5, <3>1, <3>2
  <2>9. Reviews'
    <3>1. DOMAIN rows' = DOMAIN rows \cup {k} /\ rows'[k] = NewRow
      BY <1>5
    <3>2. rows'[k].work = "none"
      BY <3>1 DEF NewRow
    <3> QED
      BY <1>2, <2>6, <3>1, <3>2 DEF Reviews, PhaseAt
  <2>10. PICK i : i = Without(k)
    OBVIOUS
  <2>11. i.op = "create" /\ i.key = Now.key
    <3>1. Now = Create(Now.keys, Now.key, Now.then)
      BY <1>1 DEF IsInstr
    <3> QED
      BY <2>10, <3>1 DEF Without, Create
  <2>12. PhaseNeed(i)'
    <3>1. i.key[2] <= Last(i.key[1])' + 1
      BY <2>1, <2>3, <2>4, <2>6, <2>11
    <3> QED
      BY <2>11, <3>1 DEF PhaseNeed
  <2>13. Leads
    BY <1>5, <2>10, <2>12 DEF Leads
  <2> QED
    BY <1>1, <1>2, <2>8, <2>9, <2>13, LeadsNext DEF PhaseGoes
<1>6. \A k \in First(Rest) : k \in Rest
  BY DEF First
<1> QED
  BY <1>3, <1>4, <1>5, <1>6 DEF Creates

-----------------------------------------------------------------------------
(* The walk of a plain step, continued: its session and what becomes of it. *)

LEMMA Begun ==
  ASSUME Base, PhaseAt, NEW op \in AllOps, Doing(op)
  PROVE  /\ todo # <<>> /\ Now.op = op /\ IsInstr(Now) /\ RowsInv /\ graph \in Graphs /\ run # "done"
         /\ op \in RowOps => Now.key \in DOMAIN rows /\ rows[Now.key] \in Rows
         /\ op \notin DirtyOps => Clean
         /\ op # "retire" => ~ Doing("retire")
         /\ PhaseNeed(Now) /\ WholeNeed(Now) /\ Pre(Now)
<1>1. todo # <<>> /\ Now = Head(todo)
  BY DEF Doing, Now
<1>2. PhaseNeed(Now)
  BY <1>1 DEF PhaseAt, PhaseNext
<1> QED
  BY <1>1, <1>2, OpFacts, BaseFacts

LEMMA SameRowsNeed ==
  ASSUME graph' = graph, rows' = rows, NEW i, PhaseNeed(i)
  PROVE  PhaseNeed(i)'
<1>1. /\ \A p : Target(p)' = Target(p) /\ Won(p)' = Won(p) /\ Last(p)' = Last(p) /\ Settled(p)' = Settled(p)
      /\ Phases' = Phases
  BY SameTarget, SameUnmoved, SameOwes
<1>2. \A n : PassedTo(n)' = PassedTo(n)
  BY <1>1 DEF PassedTo
<1>3. LoopNeed(i)' = LoopNeed(i)
  BY <1>1, <1>2 DEF LoopNeed, BackTo
<1> QED
  BY <1>1, <1>3 DEF PhaseNeed, Judges

LEMMA StartsPhase == ASSUME Base, PhaseAt, Starts PROVE PhaseGoes
<1> PICK k : k = Now.key
  OBVIOUS
<1>1. todo # <<>> /\ k \in DOMAIN rows /\ RowsInv
  BY Begun DEF Starts, AllOps, RowOps
<1>2. PICK row : row = To(k, "running")
  OBVIOUS
<1>3. Same(k, row) /\ row.st = "running"
  BY <1>1, <1>2, SameFields
<1>4. PICK i : i = I(IF k[3] < 0 THEN "judge" ELSE "session", k)
  OBVIOUS
<1>5. Loose(i)
  BY <1>4, LooseOps
<1> QED
  BY <1>1, <1>2, <1>3, <1>4, <1>5, MovePhase DEF Starts

\* A gate that asks nobody is passed by a review alone.
LEMMA AppliedNeed ==
  ASSUME RowsInv, graph \in Graphs, graph' = graph, NEW k \in DOMAIN rows, NEW verdict \in Works \ {"none"}, NEW miss,
         verdict = "reject" => graph[k[1]].name = "review", NEW i, i = Applied(k, verdict, miss)
  PROVE  PhaseNeed(i)'
<1>1. i \in {Park(k, miss), I("accept", k), I("spend", k), I("gate", k)}
  BY AppliedIs
<1>2. CASE i \in {Park(k, miss), I("accept", k), I("spend", k)}
  <2>1. Loose(i)
    BY <1>2, LooseOps
  <2> QED
    BY <2>1, LooseNeed
<1>3. CASE i = I("gate", k) /\ graph[k[1]].name = "review"
  BY <1>3 DEF PhaseNeed, I, Judges
<1>4. CASE verdict # "reject"
  <2>1. graph[k[1]].gate \in Gates
    BY GraphFacts, KeyFacts
  <2>2. verdict \in {"ok", "fail"}
    BY <1>4 DEF Works
  <2>3. i \in {Park(k, miss), I("accept", k), I("spend", k)}
    BY <2>1, <2>2 DEF Applied, Gates
  <2> QED
    BY <1>2, <2>3
<1> QED
  BY <1>1, <1>2, <1>3, <1>4

\* A row whose status, selection and merge stay.
LEMMA StayUnmoved ==
  ASSUME graph' = graph, NEW k \in DOMAIN rows, NEW row, rows' = [rows EXCEPT ![k] = row],
         row.st = rows[k].st, row.sel = rows[k].sel, row.merged = rows[k].merged
  PROVE  Unmoved
<1>1. SameStatus
  BY RowSame
<1>2. \A p : Won(p)' = Won(p)
  <2>1. \A p : Group(p, Last(p))' = Group(p, Last(p))
    BY <1>1, ShapeSame DEF SameStatus
  <2>2. \A p : \A j \in Group(p, Last(p)) : St(j)' = St(j) /\ rows'[j].sel = rows[j].sel
    BY <1>1, InGroup DEF SameStatus
  <2> QED
    BY <2>1, <2>2 DEF Won
<1>3. \A j \in DOMAIN rows : rows'[j].merged = rows[j].merged
  OBVIOUS
<1> QED
  BY <1>1, <1>2, <1>3, WonUnmoved DEF SameStatus

LEMMA SessionsPhase == ASSUME Base, PhaseAt, Sessions PROVE PhaseGoes
<1> PICK k : k = Now.key
  OBVIOUS
<1>1. todo # <<>> /\ k \in DOMAIN rows /\ rows[k] \in Rows /\ RowsInv /\ graph \in Graphs
  BY Begun DEF Sessions, AllOps, RowOps
<1>2. graph' = graph /\ run' # "done"
  BY <1>1, BaseFacts DEF Sessions, WritesRows
<1>3. ASSUME NEW block, rows' = rows, Then(FailHard(k, block)) PROVE PhaseGoes
  BY <1>1, <1>2, <1>3, SamePhase, LooseOps DEF Leads
<1>4. ASSUME NEW work \in Works, NEW verdict \in Works \ {"none"}, verdict = "reject" => work = "reject",
             work = "reject" => graph[k[1]].name = "review",
             rows' = [rows EXCEPT ![k].work = work], Then(Applied(k, verdict, "fail"))
      PROVE  PhaseGoes
  <2>1. PICK row : row = [rows[k] EXCEPT !.work = work]
    OBVIOUS
  <2>2. /\ row.merged = rows[k].merged /\ row.st = rows[k].st /\ row.sel = rows[k].sel /\ row.work = work
        /\ rows' = [rows EXCEPT ![k] = row]
    BY <1>1, <1>4, <2>1 DEF Rows
  <2>3. PhaseMoves
    BY <1>1, <1>2, <2>2, StayUnmoved DEF PhaseMoves
  <2>4. Reviews'
    <3>1. DOMAIN rows' = DOMAIN rows /\ rows'[k].work = work /\ \A j \in DOMAIN rows : j # k => rows'[j] = rows[j]
      BY <1>1, <2>2
    <3> QED
      BY <1>2, <1>4, <3>1 DEF Reviews, PhaseAt
  <2>5. PICK i : i = Applied(k, verdict, "fail")
    OBVIOUS
  <2>6. PhaseNeed(i)'
    BY <1>1, <1>2, <1>4, <2>5, AppliedNeed
  <2> QED
    BY <1>1, <1>2, <1>4, <2>3, <2>4, <2>5, <2>6, LeadsNext DEF PhaseGoes, Leads
<1>5. \A work \in Works : {work, "fail"} \ {"none"} \subseteq Works \ {"none"} /\ Works \ {"reject"} \subseteq Works
  BY DEF Works
<1>6. ASSUME NEW work \in IF graph[k[1]].name = "review" THEN Works ELSE Works \ {"reject"},
             NEW verdict \in {work, "fail"} \ {"none"},
             rows' = [rows EXCEPT ![k].work = work], Then(Applied(k, verdict, "fail"))
      PROVE  PhaseGoes
  BY <1>4, <1>5, <1>6
<1> QED
  BY <1>3, <1>6 DEF Sessions

LEMMA ParksPhase == ASSUME Base, PhaseAt, Parks PROVE PhaseGoes
<1> PICK k : k = Now.key
  OBVIOUS
<1>1. todo # <<>> /\ k \in DOMAIN rows /\ RowsInv /\ run # "done" /\ graph' = graph
  BY Begun DEF Parks, AllOps, RowOps
<1>2. CASE St(k) = "running" /\ rows' = [rows EXCEPT ![k] = To(k, "awaiting")] /\ run' = "awaiting" /\ Ends
  <2>1. PICK row : row = To(k, "awaiting")
    OBVIOUS
  <2>2. Same(k, row) /\ row.st = "awaiting"
    BY <1>1, <2>1, SameFields
  <2> QED
    BY <1>1, <1>2, <2>1, <2>2, RowPhase DEF Leads
<1>3. CASE rows' = rows /\ run' = run /\ (Ends \/ Then(FailHard(k, FALSE)))
  BY <1>1, <1>3, SamePhase, LooseOps DEF Leads
<1> QED
  BY <1>2, <1>3 DEF Parks

LEMMA AcceptsPhase == ASSUME Base, PhaseAt, Accepts PROVE PhaseGoes
<1> PICK k : k = Now.key
  OBVIOUS
<1>1. todo # <<>> /\ ~ Doing("retire") /\ k \in DOMAIN rows /\ RowsInv /\ run # "done"
  BY Begun DEF Accepts, AllOps, RowOps
<1>2. graph' = graph /\ run' = run
  BY DEF Accepts, Moves, WritesRows
<1>3. CASE rows' = rows /\ Ends
  BY <1>1, <1>2, <1>3, SamePhase DEF Leads
<1>4. CASE /\ St(k) = "running" /\ rows' = [rows EXCEPT ![k] = [rows[k] EXCEPT !.st = "done", !.ans = "skipped"]]
           /\ Then(I("merge", k))
  <2>1. PICK row : row = [rows[k] EXCEPT !.st = "done", !.ans = "skipped"]
    OBVIOUS
  <2>2. row.work = rows[k].work
    BY <1>1, <2>1, SameFields DEF Same
  <2>3. PICK i : i = I("merge", k)
    OBVIOUS
  <2>4. Loose(i)
    BY <2>3, LooseOps
  <2> QED
    BY <1>1, <1>2, <1>4, <2>1, <2>2, <2>3, <2>4, DonePhase DEF InFlight, Leads
<1> QED
  BY <1>3, <1>4 DEF Accepts, Moves

LEMMA FailsHardPhase == ASSUME Base, PhaseAt, FailsHard PROVE PhaseGoes
<1> PICK k : k = Now.key
  OBVIOUS
<1>1. todo # <<>> /\ k \in DOMAIN rows /\ RowsInv
  BY Begun DEF FailsHard, AllOps, RowOps
<1>2. PICK row : row = To(k, "failed")
  OBVIOUS
<1>3. Same(k, row) /\ row.st = "failed"
  BY <1>1, <1>2, SameFields
<1>4. PICK i : i = FailRun(Now.block)
  OBVIOUS
<1>5. Loose(i)
  BY <1>4, LooseOps
<1> QED
  BY <1>1, <1>2, <1>3, <1>4, <1>5, MovePhase DEF FailsHard

LEMMA SpendsPhase == ASSUME Base, PhaseAt, Spends PROVE PhaseGoes
<1> PICK k : k = Now.key
  OBVIOUS
<1>1. todo # <<>> /\ k \in DOMAIN rows /\ RowsInv
  BY Begun DEF Spends, AllOps, RowOps
<1>2. PICK row : row = To(k, "failed")
  OBVIOUS
<1>3. Same(k, row) /\ row.st = "failed"
  BY <1>1, <1>2, SameFields
<1>4. PICK i : i = IF MayAttempt(k[1], k[2] + 1) THEN Admit(k[1], k[2] + 1) ELSE Finish("failed")
  OBVIOUS
<1>5. Loose(i)
  BY <1>4, LooseOps
<1> QED
  BY <1>1, <1>2, <1>3, <1>4, <1>5, MovePhase DEF Spends

LEMMA GatesItselfPhase == ASSUME Base, PhaseAt, GatesItself PROVE PhaseGoes
<1> PICK k : k = Now.key
  OBVIOUS
<1>1. todo # <<>> /\ k \in DOMAIN rows /\ RowsInv /\ Judges(k)
  BY Begun DEF GatesItself, AllOps, RowOps, PhaseNeed
<1>2. PICK row : row = To(k, "awaiting")
  OBVIOUS
<1>3. Same(k, row) /\ row.st = "awaiting"
  BY <1>1, <1>2, SameFields
<1>4. PICK i : i = Reject(k, "walk")
  OBVIOUS
<1>5. graph' = graph => PhaseNeed(i)'
  BY <1>1, <1>4 DEF PhaseNeed, Reject, Judges
<1> QED
  BY <1>1, <1>2, <1>3, <1>4, <1>5, MovePhase DEF GatesItself

LEMMA RejectsRowPhase == ASSUME Base, PhaseAt, RejectsRow PROVE PhaseGoes
<1> PICK k : k = Now.key
  OBVIOUS
<1>1. todo # <<>> /\ k \in DOMAIN rows /\ RowsInv /\ (Now.by = "person" \/ Judges(k))
  BY Begun DEF RejectsRow, AllOps, RowOps, PhaseNeed
<1>2. PICK row : row = [rows[k] EXCEPT !.st = "failed", !.ans = "rejected"]
  OBVIOUS
<1>3. Same(k, row) /\ row.st = "failed"
  BY <1>1, <1>2, SameFields DEF Same
<1>4. PICK i : i = IF Now.by = "person" THEN Unpark(k, "rejection", FALSE)
                   ELSE IF k[3] < 0 THEN ParkRun ELSE I("loop", k)
  OBVIOUS
<1>5. Loose(i) \/ (graph' = graph => PhaseNeed(i)')
  <2>1. CASE Now.by = "person" \/ k[3] < 0
    BY <1>4, <2>1, LooseOps
  <2>2. CASE i = I("loop", k) /\ graph[k[1]].name = "review"
    BY <2>2 DEF PhaseNeed, I
  <2> QED
    BY <1>1, <1>4, <2>1, <2>2 DEF Judges
<1> QED
  BY <1>1, <1>2, <1>3, <1>4, <1>5, MovePhase DEF RejectsRow

LEMMA MergesPhase == ASSUME Base, PhaseAt, Merges PROVE PhaseGoes
<1> PICK k : k = Now.key
  OBVIOUS
<1>1. todo # <<>> /\ ~ Doing("retire") /\ k \in DOMAIN rows /\ rows[k] \in Rows /\ MergeNeed(k) /\ RowsInv
      /\ graph \in Graphs
  BY Begun DEF Merges, AllOps, RowOps, WholeNeed
<1>2. graph' = graph /\ run' = run /\ run # "done" /\ Beyond({}) /\ Owing
  BY <1>1, BaseFacts DEF Merges, WritesRows
<1>3. CASE rows' = rows /\ Then(ParkRun)
  BY <1>1, <1>2, <1>3, SamePhase, LooseOps DEF Leads
<1>4. CASE rows' = [rows EXCEPT ![k].merged = TRUE] /\ Over
  <2> PICK p : p = k[1]
    OBVIOUS
  <2>1. p \in Phases /\ k[2] = Last(p) /\ St(k) = "done" /\ k \in At(p) /\ p \in Nat /\ Last(p) > 0
    <3>1. k[2] = Last(p) /\ St(k) = "done" /\ k \in At(p)
      BY <1>1 DEF MergeNeed, Won, Group
    <3> QED
      BY <1>1, <3>1, KeyFacts, GraphFacts
  <2>2. SameShape /\ OnlyAt(p) /\ rows'[k].merged /\ St(k)' = St(k) /\ rows'[k].sel = rows[k].sel
    BY <1>1, <1>2, <1>4 DEF SameShape, OnlyAt, Rows, St
  <2>3. k \in Won(p)'
    <3>1. Group(p, Last(p))' = Group(p, Last(p)) /\ graph' = graph
      BY <2>2, ShapeSame DEF SameShape
    <3> QED
      BY <1>1, <2>2, <3>1 DEF MergeNeed, Won
  <2>4. Settled(p)'
    BY <2>2, <2>3, SettledIs
  <2>5. Reviews'
    <3>1. DOMAIN rows' = DOMAIN rows /\ \A j \in DOMAIN rows : rows'[j].work = rows[j].work
      BY <1>1, <1>4 DEF Rows
    <3> QED
      BY <1>2, <3>1, SameReviews DEF PhaseAt
  <2>6. ASSUME Settled(p) PROVE PhaseMoves
    <3>1. Unmoved
      <4>1. graph' = graph /\ Phases' = Phases /\ \A q : Last(q)' = Last(q)
        BY <2>2, ShapeSame DEF SameShape
      <4>2. \A q : q # p => Settled(q)' = Settled(q)
        BY <2>2, OthersSame
      <4>3. Settled(p) \in BOOLEAN /\ Settled(p)' \in BOOLEAN
        BY DEF Settled
      <4> QED
        BY <2>4, <2>6, <4>1, <4>2, <4>3 DEF Unmoved
    <3> QED
      BY <1>2, <3>1 DEF PhaseMoves
  <2>7. ASSUME ~ Settled(p) PROVE PhaseMoves
    <3>1. PassedTo(p - 1)
      <4>1. ASSUME NEW q \in Phases, q < p PROVE Settled(q)
        <5>1. Won(q) # {}
          BY <1>2, <2>1, <4>1 DEF Beyond, Gone
        <5> QED
          BY <1>1, <2>1, <4>1, <5>1, GraphFacts DEF MergeNeed, CleanBut
      <4> QED
        BY <1>1, <2>1, <2>7, <4>1, GraphFacts DEF PassedTo
    <3>2. p + 1 \in Phases => ~ Settled(p + 1)
      <4>1. p + 1 \in Phases => Cleared(p + 1)
        BY <1>1, <1>2, <2>1, <2>7 DEF Owing, MergeNeed
      <4> QED
        BY <4>1, GoneWins DEF Cleared
    <3> QED
      BY <1>1, <1>2, <2>1, <2>2, <3>1, <3>2, PassesOne
  <2> QED
    BY <1>1, <1>2, <1>4, <2>5, <2>6, <2>7, LeadsNext DEF PhaseGoes, Leads
<1> QED
  BY <1>3, <1>4 DEF Merges

-----------------------------------------------------------------------------
(* Rejections, retirements and the run.                                     *)

LEMMA TargetIs ==
  ASSUME graph \in Graphs, NEW p \in Phases, Target(p) > 0
  PROVE  Target(p) \in Phases /\ Target(p) < p
<1>1. Len(graph) \in Nat /\ Phases = 1..Len(graph)
  BY PhasesAre
<1>2. PICK S : S = {q \in Phases : q < p /\ graph[q].name = "implement"}
  OBVIOUS
<1>3. Target(p) = IF S # {} THEN Max(S) ELSE p - 1
  BY <1>2 DEF Target
<1>4. CASE S # {}
  <2>1. S \in SUBSET Nat /\ IsFiniteSet(S)
    <3>1. IsFiniteSet(1..Len(graph))
      BY <1>1, FS_Interval
    <3>2. S \subseteq 1..Len(graph)
      BY <1>1, <1>2
    <3>3. S \in SUBSET Nat
      BY <1>1, <1>2
    <3> QED
      BY <3>1, <3>2, <3>3, FS_Subset
  <2>2. Max(S) \in S
    BY <1>4, <2>1, MaxIsGreatest
  <2> QED
    BY <1>2, <1>3, <1>4, <2>2
<1>5. CASE S = {}
  BY <1>1, <1>3, <1>5
<1> QED
  BY <1>4, <1>5

LEMMA LoopsPhase == ASSUME Base, PhaseAt, Loops PROVE PhaseGoes
<1> PICK k : k = Now.key
  OBVIOUS
<1>1. /\ todo # <<>> /\ ~ Doing("retire") /\ k \in DOMAIN rows /\ RowsInv /\ graph \in Graphs /\ Clean
      /\ FailedPre(k) /\ graph[k[1]].name = "review" /\ Decides
  BY Begun DEF Loops, AllOps, RowOps, DirtyOps, Pre, PhaseNeed
<1>2. Front(k[1]) /\ Placed({})
  BY <1>1, BaseFacts, FailedIsFront
<1>3. PICK p : p = k[1]
  OBVIOUS
<1>4. PICK t : t = Target(p)
  OBVIOUS
<1>5. CASE Then(Finish("failed")) \/ Then(Escalate)
  BY <1>1, <1>5, LooseOps, DecidePhase DEF Leads
<1>6. CASE t > 0 /\ MayAttempt(t, Last(t) + 1) /\ Then(Retire(k, t..p, "none"))
  <2>1. PICK i : i = Retire(k, t..p, "none")
    OBVIOUS
  <2>2. /\ i.op = "retire" /\ i.key = k
        /\ i.keys = {j \in DOMAIN rows : j[1] \in t..p /\ j[2] = Last(j[1]) /\ St(j) \notin Gone}
    BY <2>1 DEF Retire
  <2>3. p \in Phases /\ t \in Phases /\ t < p /\ p \in Nat /\ t \in Nat /\ Last(p) > 0 /\ Last(t) \in Nat
    <3>1. p \in Phases /\ Last(p) > 0
      BY <1>1, <1>3, KeyFacts DEF FailedPre
    <3>2. t \in Phases /\ t < p
      BY <1>1, <1>4, <1>6, <3>1, TargetIs
    <3> QED
      BY <1>1, <3>1, <3>2, GraphFacts, LastFacts
  <2>4. BackTo(p, t)
    <3>1. Last(t) <= graph[t].limit
      BY <1>1, <1>6, <2>3, GraphFacts DEF MayAttempt
    <3> QED
      BY <1>1, <1>3, <1>4, <2>3, <3>1 DEF BackTo
  <2>5. PassedTo(p - 1)
    BY <1>1, <1>2, <1>3, <2>3, FrontPassed
  <2>6. Won(t) \subseteq i.keys
    <3> SUFFICES ASSUME NEW j \in Won(t) PROVE j \in i.keys
      OBVIOUS
    <3>1. j \in DOMAIN rows /\ j[1] = t /\ j[2] = Last(t) /\ St(j) = "done"
      BY InGroup DEF Won
    <3> QED
      BY <2>2, <2>3, <3>1 DEF Gone
  <2>7. \A j \in i.keys : t <= j[1]
    BY <2>2, <2>3
  <2>8. PhaseNeed(i)
    <3>1. LoopNeed(i)
      BY <1>3, <1>4, <2>2, <2>3, <2>4, <2>5, <2>6, <2>7 DEF LoopNeed
    <3> QED
      BY <2>2, <3>1 DEF PhaseNeed
  <2>9. PhaseNeed(i)'
    BY <1>1, <2>8, DecidesWins, SameRowsNeed
  <2> QED
    BY <1>1, <1>6, <2>1, <2>9, DecidePhase DEF Leads
<1>7. Then(Finish("failed")) \/ Then(Escalate) \/ (t > 0 /\ MayAttempt(t, Last(t) + 1) /\ Then(Retire(k, t..p, "none")))
  <2>1. PICK a : a = IF t > 0 THEN Last(t) ELSE 0
    OBVIOUS
  <2>2. Then(Finish("failed")) \/ Then(Escalate) \/ (a > 0 /\ MayAttempt(t, a + 1) /\ Then(Retire(k, t..p, "none")))
    BY <1>3, <1>4, <2>1 DEF Loops
  <2> QED
    BY <2>1, <2>2
<1> QED
  BY <1>5, <1>6, <1>7

\* A row that is retired wins nothing any more, and the other winners stay.
LEMMA RetiredFacts ==
  ASSUME RowsInv, graph' = graph, NEW k \in DOMAIN rows, NEW row, Same(k, row), row.st # "done",
         rows' = [rows EXCEPT ![k] = row]
  PROVE  /\ SameShape /\ SameTries /\ Phases' = Phases /\ \A q : Last(q)' = Last(q)
         /\ \A q : Won(q)' = Won(q) \ {k}
         /\ \A q : (k \notin Won(q) => Settled(q)' = Settled(q)) /\ (Settled(q)' => Settled(q))
<1>1. Only(k) /\ St(k)' = row.st /\ SameShape
  BY RowOnly DEF Same, Only
<1>2. \A q : Won(q)' = Won(q) \ {k}
  BY <1>1, WonLess
<1>3. \A j \in DOMAIN rows : rows'[j].merged = rows[j].merged
  BY DEF Same
<1>4. \A q : \A j \in Won(q) : j \in DOMAIN rows
  BY InGroup DEF Won
<1>5. \A q : (k \notin Won(q) => Settled(q)' = Settled(q)) /\ (Settled(q)' => Settled(q))
  BY <1>2, <1>3, <1>4, SettledIs
<1> QED
  BY <1>1, <1>2, <1>5, ShapeSame DEF SameTries

\* A rejection's retirement: its target's winner goes first, and takes the run back.
GoesFirst(i, k, x) ==
  /\ i.op = "retire" /\ graph[i.key[1]].fan = 1 /\ LoopNeed(i) /\ Won(i.key[1]) = {}
  /\ (\A j \in i.keys : j[1] <= i.key[1]) /\ i.keys \subseteq DOMAIN rows
  /\ k \in i.keys /\ \A j \in i.keys : ~ Before(j, k)
  /\ x.op = "retire" /\ x.key = i.key /\ x.keys = i.keys \ {k}

LEMMA RetiresFirst ==
  ASSUME RowsInv, graph \in Graphs, graph' = graph, run' = run, run # "done", Kinds, OneWinner,
         NEW k \in DOMAIN rows, NEW i, NEW x, GoesFirst(i, k, x),
         NEW row, Same(k, row), row.st # "done", rows' = [rows EXCEPT ![k] = row]
  PROVE  PhaseMoves /\ PhaseNeed(x)'
<1>0. /\ i.op = "retire" /\ graph[i.key[1]].fan = 1 /\ LoopNeed(i) /\ Won(i.key[1]) = {}
      /\ (\A j \in i.keys : j[1] <= i.key[1]) /\ i.keys \subseteq DOMAIN rows
      /\ k \in i.keys /\ \A j \in i.keys : ~ Before(j, k)
      /\ x.op = "retire" /\ x.key = i.key /\ x.keys = i.keys \ {k}
  BY DEF GoesFirst
<1> PICK p : p = i.key[1]
  OBVIOUS
<1> PICK t : t = Target(p)
  OBVIOUS
<1>1. /\ p \in Phases /\ BackTo(p, t) /\ t < p /\ t \in Phases /\ t <= k[1] /\ k[1] <= p /\ Won(p) = {}
      /\ \A j \in i.keys : t <= j[1]
      /\ (PassedTo(p - 1) /\ Won(t) \subseteq i.keys) \/ PassedTo(t - 1)
  BY <1>0 DEF LoopNeed, BackTo
<1>2. \A q \in Phases : q \in Nat
  BY GraphFacts
<1>3. k \in DOMAIN rows /\ k[1] \in Phases
  BY <1>0, KeyFacts
<1>4. /\ SameShape /\ SameTries /\ Phases' = Phases /\ \A q : Last(q)' = Last(q)
      /\ \A q : Won(q)' = Won(q) \ {k}
      /\ \A q : (k \notin Won(q) => Settled(q)' = Settled(q)) /\ (Settled(q)' => Settled(q))
  BY <1>3, RetiredFacts
<1>5. \A q : k \in Won(q) => k[1] = q
  BY InGroup DEF Won
<1>6. BackTo(p, t)' /\ Target(p)' = t
  BY <1>1, <1>4, SameTarget DEF BackTo
<1>7. ASSUME PassedTo(t - 1)' \/ (PassedTo(p - 1)' /\ Won(t)' \subseteq x.keys) PROVE PhaseNeed(x)'
  <2>1. LoopNeed(x)'
    BY <1>0, <1>1, <1>4, <1>6, <1>7 DEF LoopNeed
  <2> QED
    BY <1>0, <2>1 DEF PhaseNeed
<1>8. CASE PassedTo(t - 1)
  <2>1. PassedTo(t - 1)'
    BY <1>1, <1>2, <1>3, <1>4, <1>5, <1>8 DEF PassedTo
  <2>2. PhaseMoves
    BY <1>1, <1>4, <1>8, <2>1 DEF PhaseMoves
  <2> QED
    BY <1>7, <2>1, <2>2
<1>9. CASE PassedTo(p - 1) /\ Won(t) \subseteq i.keys
  <2>1. \A q \in Phases : q < p => Settled(q)
    BY <1>1, <1>2, <1>9 DEF PassedTo
  <2>2. CASE k \in Won(t)
    <3>1. Won(t)' = {}
      BY <1>1, <1>4, <2>2, WonOne
    <3>2. ~ Settled(t)'
      BY <3>1, SettledIs
    <3>3. PassedTo(t - 1)'
      BY <1>1, <1>2, <1>4, <1>5, <2>1, <2>2, <3>2 DEF PassedTo
    <3>4. PhaseMoves
      BY <1>1, <1>4, <1>9, <3>3 DEF PhaseMoves
    <3> QED
      BY <1>7, <3>3, <3>4
  <2>3. CASE k \notin Won(t)
    <3>1. Won(t) # {}
      BY <1>1, <2>1, SettledIs
    <3>2. k[1] = t
      <4>1. PICK j \in Won(t) : TRUE
        BY <3>1
      <4>2. j \in i.keys /\ j[1] = t
        BY <1>9, InGroup DEF Won
      <4> QED
        BY <1>0, <1>1, <1>2, <1>3, <4>2 DEF Before
    <3>3. \A q : k \notin Won(q)
      BY <1>5, <2>3, <3>2
    <3>4. Unmoved
      BY <1>4, <3>3 DEF Unmoved
    <3>5. PassedTo(p - 1)' /\ Won(t)' \subseteq x.keys
      BY <1>0, <1>4, <1>9, <2>3, <3>3 DEF PassedTo
    <3>6. PhaseMoves
      BY <3>4 DEF PhaseMoves
    <3> QED
      BY <1>7, <3>5, <3>6
  <2> QED
    BY <2>2, <2>3
<1> QED
  BY <1>1, <1>8, <1>9

LEMMA RetiresPhase == ASSUME Base, PhaseAt, Retires PROVE PhaseGoes
<1>1. /\ todo # <<>> /\ IsInstr(Now) /\ Now.op = "retire" /\ RowsInv /\ graph \in Graphs /\ run # "done"
      /\ RetirePre(Now) /\ PhaseNeed(Now) /\ Kinds /\ OneWinner
  BY Begun, BaseFacts DEF Retires, AllOps, KeysOps, Pre
<1>2. CASE Decides /\ (Over \/ \E k : Then(Unpark(k, "admit", FALSE)))
  <2>1. Leads
    BY <1>2, LooseOps DEF Leads
  <2> QED
    BY <1>1, <1>2, <2>1, DecidePhase
<1>3. ASSUME NEW k \in First(Rest),
             Moves(k, Now.was[k],
                   To(k, IF Now.was[k] \in {"running", "failed"} THEN "cancelled" ELSE "superseded"), Without(k))
      PROVE  PhaseGoes
  <2>1. /\ k \in DOMAIN rows /\ k \in Now.keys /\ St(k) = Now.was[k] /\ Now.keys \subseteq DOMAIN rows
        /\ \A j \in Now.keys : ~ Before(j, k)
    BY <1>1 DEF First, Rest, IsInstr, KeysOps, RetirePre
  <2>2. PICK row : row = To(k, IF Now.was[k] \in {"running", "failed"} THEN "cancelled" ELSE "superseded")
    OBVIOUS
  <2>3. Same(k, row) /\ row.st \in Gone
    <3>1. PICK st : st = IF Now.was[k] \in {"running", "failed"} THEN "cancelled" ELSE "superseded"
      OBVIOUS
    <3>2. row = To(k, st)
      BY <2>2, <3>1
    <3>3. Same(k, row) /\ row.st = st
      BY <1>1, <2>1, <3>2, SameFields
    <3> QED
      BY <3>1, <3>3 DEF Gone
  <2>4. PICK x : x = Without(k)
    OBVIOUS
  <2>5. x.op = "retire" /\ x.key = Now.key /\ x.keys = Now.keys \ {k}
    <3>1. Now = [op |-> "retire", key |-> Now.key, keys |-> Now.keys, was |-> Now.was, then |-> Now.then]
      BY <1>1 DEF IsInstr
    <3> QED
      BY <2>4, <3>1 DEF Without
  <2>6. graph' = graph /\ run' = run /\ rows' = [rows EXCEPT ![k] = row] /\ Then(x)
    BY <1>3, <2>1, <2>2, <2>4 DEF Moves, WritesRows
  <2>7. row.st # "done"
    BY <2>3 DEF Gone
  <2>8. PhaseMoves /\ PhaseNeed(x)'
    <3>1. CASE graph[Now.key[1]].fan = 1
      <4>1. LoopNeed(Now) /\ Won(Now.key[1]) = {} /\ \A j \in Now.keys : j[1] <= Now.key[1]
        BY <1>1, <3>1 DEF PhaseNeed, RetirePre
      <4>2. PICK i : i = Now
        OBVIOUS
      <4> QED
        <5>1. GoesFirst(i, k, x)
          BY <1>1, <2>1, <2>5, <3>1, <4>1, <4>2 DEF GoesFirst
        <5>2. /\ RowsInv /\ graph \in Graphs /\ graph' = graph /\ run' = run /\ run # "done" /\ Kinds /\ OneWinner
              /\ Same(k, row) /\ row.st # "done" /\ rows' = [rows EXCEPT ![k] = row] /\ k \in DOMAIN rows
          BY <1>1, <2>1, <2>3, <2>6, <2>7
        <5> QED
          BY <5>1, <5>2, RetiresFirst
    <3>2. CASE graph[Now.key[1]].fan # 1
      <4>1. Loose(x)
        BY <2>5, <3>2 DEF Loose
      <4>2. graph[Now.key[1]].fan > 1 /\ Now.key[1] \in Phases
        <5>1. Now.key \in DOMAIN rows \cup Slots
          BY <1>1 DEF IsInstr
        <5>2. Now.key[1] \in Phases
          BY <1>1, <5>1, KeyFacts DEF Slots
        <5>3. graph[Now.key[1]].fan \in Nat \ {0}
          BY <1>1, <5>2, GraphFacts
        <5> QED
          BY <3>2, <5>2, <5>3
      <4>3. k[1] = Now.key[1] /\ Won(k[1]) = {}
        BY <1>1, <2>1, <4>2 DEF RetirePre, At
      <4>4. \A q : k \notin Won(q)
        BY <4>3, InGroup DEF Won
      <4>5. Unmoved
        BY <1>1, <2>1, <2>3, <2>6, <2>7, <4>4, RetiredFacts DEF Unmoved
      <4>6. PhaseMoves
        BY <1>1, <2>6, <4>5 DEF PhaseMoves
      <4> QED
        BY <2>6, <4>1, <4>6, LooseNeed
    <3> QED
      BY <3>1, <3>2
  <2>9. Reviews'
    BY <2>1, <2>3, <2>6, RowReviews DEF PhaseAt, Same
  <2> QED
    BY <1>1, <2>6, <2>8, <2>9, LeadsNext DEF PhaseGoes, Leads
<1> QED
  BY <1>2, <1>3 DEF Retires

LEMMA ParksRunPhase == ASSUME Base, PhaseAt, ParksRun PROVE PhaseGoes
<1>1. todo # <<>> /\ run # "done" /\ graph' = graph /\ rows' = rows /\ run' # "done"
  BY BaseFacts DEF ParksRun, Doing
<1>2. PICK i : i = Block("rest")
  OBVIOUS
<1>3. Loose(i) /\ (Then(i) \/ Ends)
  BY <1>2, LooseOps DEF ParksRun
<1> QED
  BY <1>1, <1>3, SamePhase DEF Leads

LEMMA FinishesPhase == ASSUME Base, PhaseAt, Finishes PROVE PhaseGoes
<1>1. todo # <<>> /\ run # "done" /\ WholeNeed(Now) /\ Now.op = "finish"
  BY BaseFacts DEF Finishes, Doing, Now
<1>2. Ends /\ graph' = graph /\ rows' = rows
  BY DEF Finishes
<1>3. run' = "done" => \A p \in Phases : Settled(p)
  BY <1>1 DEF Finishes, WholeNeed
<1>4. PhaseMoves /\ Reviews'
  BY <1>2, <1>3, SameUnmoved, SameReviews DEF PhaseMoves, PhaseAt
<1> QED
  BY <1>1, <1>2, <1>4, LeadsNext DEF PhaseGoes, Leads

LEMMA BlocksPhase == ASSUME Base, PhaseAt, Blocks PROVE PhaseGoes
<1>1. todo # <<>> /\ run # "done" /\ graph' = graph /\ rows' = rows /\ run' # "done"
  BY BaseFacts DEF Blocks, Doing
<1>2. PICK i : i = Finish("failed")
  OBVIOUS
<1>3. Loose(i) /\ (Then(i) \/ Ends)
  BY <1>2, LooseOps DEF Blocks
<1> QED
  BY <1>1, <1>3, SamePhase DEF Leads

LEMMA StepPhase == ASSUME Base, PhaseAt, WalksStep PROVE PhaseGoes
BY PassesPhase, AdmitsPhase, CreatesPhase, StartsPhase, SessionsPhase, ParksPhase, AcceptsPhase, FailsHardPhase,
   SpendsPhase, GatesItselfPhase, RejectsRowPhase, MergesPhase, LoopsPhase, RetiresPhase, ParksRunPhase,
   FinishesPhase, BlocksPhase
   DEF WalksStep

-----------------------------------------------------------------------------
(* Fan-out groups.                                                          *)

\* What a slot that is worked on may do next.
SlotOf(p, a) == graph[p].fan > 1 /\ a = Last(p)

LEMMA CreateNeed ==
  ASSUME graph' = graph, rows' = rows, NEW k, SlotOf(k[1], k[2]), k[2] \in Nat, NEW S, NEW then,
         NEW i, i = Create(S, k, then)
  PROVE  PhaseNeed(i)'
<1>1. Last(k[1])' = Last(k[1])
  BY SameUnmoved
<1>2. i.op = "create" /\ i.key = k
  BY DEF Create
<1> QED
  BY <1>1, <1>2 DEF PhaseNeed, SlotOf

LEMMA RetireLoose ==
  ASSUME NEW k, SlotOf(k[1], k[2]), NEW P, NEW then
  PROVE  Loose(Retire(k, P, then))
<1>1. Retire(k, P, then).op = "retire" /\ Retire(k, P, then).key = k
  BY DEF Retire
<1> QED
  BY <1>1 DEF Loose, SlotOf

LEMMA FansPhase == ASSUME Base, PhaseAt, Fans PROVE PhaseGoes
<1> PICK k : k = Now.key
  OBVIOUS
<1>1. todo # <<>> /\ SlotOf(k[1], k[2]) /\ k[2] \in Nat
  <2>1. todo # <<>> /\ Pre(Now) /\ Now.op = "fan"
    BY Begun DEF Fans, AllOps, SlotOps
  <2>2. k[2] \in Nat
    BY SlotDoing, <2>1 DEF Fans, SlotOps, Base
  <2> QED
    BY <2>1, <2>2 DEF Pre, GroupPre, SlotOf
<1>2. Decides /\ graph' = graph /\ rows' = rows
  BY DecidesWins DEF Fans
<1>3. CASE \E block : Then(Block("fail")) \/ \E S : Then(Refuse(S, block))
  BY <1>1, <1>2, <1>3, LooseOps, DecidePhase DEF Leads
<1>4. ASSUME NEW S, Then(Create(S, k, "fan")) PROVE PhaseGoes
  <2>1. PICK i : i = Create(S, k, "fan")
    OBVIOUS
  <2>2. PhaseNeed(i)'
    BY <1>1, <1>2, <2>1, CreateNeed
  <2> QED
    BY <1>1, <1>2, <1>4, <2>1, <2>2, DecidePhase DEF Leads
<1>5. ASSUME NEW S, Then([op |-> "group", key |-> Now.key, wait |-> S, live |-> {}]) PROVE PhaseGoes
  <2>1. PICK i : i = [op |-> "group", key |-> Now.key, wait |-> S, live |-> {}]
    OBVIOUS
  <2>2. Loose(i)
    BY <2>1 DEF Loose
  <2> QED
    BY <1>1, <1>2, <1>5, <2>1, <2>2, DecidePhase DEF Leads
<1> QED
  BY <1>3, <1>4, <1>5 DEF Fans

LEMMA RefusesPhase == ASSUME Base, PhaseAt, Refuses PROVE PhaseGoes
<1>1. todo # <<>> /\ IsInstr(Now) /\ Now.op = "refuse" /\ Rest \subseteq DOMAIN rows /\ RowsInv
  BY Begun DEF Refuses, AllOps, KeysOps, IsInstr, Rest
<1>2. CASE Decides /\ Then(FailRun(Now.block))
  BY <1>1, <1>2, LooseOps, DecidePhase DEF Leads
<1>3. ASSUME NEW k \in First(Rest), NEW from \in {"pending", "running"}, NEW st \in {"running", "failed"}, NEW i,
             i = Now \/ i = Without(k), Moves(k, from, To(k, st), i)
      PROVE  PhaseGoes
  <2>1. k \in DOMAIN rows
    BY <1>1 DEF First
  <2>2. PICK row : row = To(k, st)
    OBVIOUS
  <2>3. Same(k, row) /\ row.st = st
    BY <1>1, <2>1, <2>2, SameFields
  <2>4. i.op = "refuse"
    BY <1>1, <1>3, WithoutInstr DEF KeysOps
  <2>5. Loose(i)
    BY <2>4 DEF Loose
  <2>6. st # "done" /\ from # "done"
    OBVIOUS
  <2> QED
    BY <1>1, <1>3, <2>1, <2>2, <2>3, <2>5, <2>6, MovePhase
<1> QED
  BY <1>2, <1>3 DEF Refuses

LEMMA CandidatesPhase ==
  ASSUME Base, PhaseAt, CandidateStarts \/ CandidateWorks \/ CandidateEnds
  PROVE  PhaseGoes
<1>1. /\ todo # <<>> /\ IsInstr(Now) /\ Now.op = "group" /\ SessionsPre(Now) /\ WritesRows /\ run # "done"
      /\ Now.wait \subseteq DOMAIN rows /\ Now.live \subseteq DOMAIN rows
  BY Begun DEF CandidateStarts, CandidateWorks, CandidateEnds, AllOps, SlotOps, IsInstr, Pre
<1>2. graph' = graph /\ run' # "done" /\ RowsInv /\ SelectedIsDone
  BY <1>1, BaseFacts DEF WritesRows, Base, WalkInv, RowsAt, Placed
<1>3. \A k \in Now.wait \cup Now.live : ~ Plain(k) /\ St(k) \in {"pending", "running"} /\ k \in DOMAIN rows
  BY <1>1, InGroup DEF SessionsPre, GroupPre, Plain
<1>4. ASSUME NEW k \in Now.wait \cup Now.live, NEW st \in {"running", "done", "failed"},
             rows' = [rows EXCEPT ![k] = To(k, st)], NEW wait, NEW live, Still(wait, live)
      PROVE  PhaseGoes
  <2>1. PICK row : row = To(k, st)
    OBVIOUS
  <2>2. Same(k, row) /\ k \in DOMAIN rows /\ St(k) # "done"
    BY <1>2, <1>3, <2>1, SameFields
  <2>3. ~ rows[k].sel /\ ~ Plain(k)
    BY <1>2, <1>3 DEF SelectedIsDone, Gone
  <2>4. PICK i : i = [Now EXCEPT !.wait = wait, !.live = live]
    OBVIOUS
  <2>5. i = [op |-> "group", key |-> Now.key, wait |-> wait, live |-> live]
    BY <1>1, <2>4, StillIs
  <2>6. i.op = "group"
    BY <2>5
  <2>7. Then(i) /\ Loose(i)
    BY <1>4, <2>4, <2>6 DEF Still, Loose
  <2>8. Leads
    BY <2>7 DEF Leads
  <2> QED
    BY <1>1, <1>2, <1>4, <2>1, <2>2, <2>3, <2>8, RowPhase
<1>5. ASSUME CandidateWorks PROVE PhaseGoes
  <2>1. PICK k \in Now.live, work \in {"ok", "fail"} : rows' = [rows EXCEPT ![k].work = work] /\ todo' = todo
    BY <1>5 DEF CandidateWorks
  <2>2. k \in DOMAIN rows /\ rows[k] \in Rows
    BY <1>2, <1>3, <2>1, RowFields
  <2>3. PICK row : row = [rows[k] EXCEPT !.work = work]
    OBVIOUS
  <2>4. /\ rows' = [rows EXCEPT ![k] = row] /\ row.merged = rows[k].merged /\ row.sel = rows[k].sel
        /\ row.st = rows[k].st /\ row.work = work
    BY <2>1, <2>2, <2>3 DEF Rows
  <2>5. PhaseMoves
    BY <1>2, <2>2, <2>4, StayUnmoved DEF PhaseMoves
  <2>6. Reviews'
    <3>1. DOMAIN rows' = DOMAIN rows /\ rows'[k].work = work /\ \A j \in DOMAIN rows : j # k => rows'[j] = rows[j]
      BY <2>2, <2>4
    <3> QED
      BY <1>2, <3>1 DEF Reviews, PhaseAt
  <2>7. PICK i : i = Now
    OBVIOUS
  <2>8. Head(todo') = i /\ i.op = "group"
    BY <1>1, <2>1, <2>7 DEF Now
  <2>9. PhaseNext'
    BY <2>8 DEF PhaseNext, PhaseNeed
  <2> QED
    BY <2>5, <2>6, <2>9 DEF PhaseGoes
<1>6. ASSUME CandidateStarts PROVE PhaseGoes
  <2>1. PICK k \in Now.wait :
          rows' = [rows EXCEPT ![k] = To(k, "running")] /\ Still(Now.wait \ {k}, Now.live \cup {k})
    BY <1>6 DEF CandidateStarts
  <2> QED
    BY <1>4, <2>1
<1>7. ASSUME CandidateEnds PROVE PhaseGoes
  <2>1. PICK k \in Now.live, to \in {"done", "failed"} :
          rows' = [rows EXCEPT ![k] = To(k, to)] /\ Still(Now.wait, Now.live \ {k})
    BY <1>7 DEF CandidateEnds
  <2> QED
    BY <1>4, <2>1
<1> QED
  BY <1>5, <1>6, <1>7

LEMMA GroupEndsPhase == ASSUME Base, PhaseAt, GroupEnds PROVE PhaseGoes
<1>1. todo # <<>> /\ Decides
  BY Begun DEF GroupEnds, AllOps, SlotOps
<1>2. Leads
  BY LooseOps DEF GroupEnds, Leads
<1> QED
  BY <1>1, <1>2, DecidePhase

LEMMA ChoosesPhase == ASSUME Base, PhaseAt, Chooses PROVE PhaseGoes
<1> PICK k : k = Now.key
  OBVIOUS
<1> PICK j : j = JudgeOf(k[1], k[2])
  OBVIOUS
<1>1. todo # <<>> /\ SlotOf(k[1], k[2]) /\ k[2] \in Nat
  <2>1. todo # <<>> /\ Pre(Now) /\ Now.op = "choose"
    BY Begun DEF Chooses, AllOps, SlotOps
  <2>2. k[2] \in Nat
    BY SlotDoing, <2>1 DEF Chooses, SlotOps, Base
  <2> QED
    BY <2>1, <2>2 DEF Pre, GroupPre, SlotOf
<1>2. Decides /\ graph' = graph /\ rows' = rows
  BY DecidesWins DEF Chooses
<1>3. ASSUME NEW i, Then(i), Loose(i) \/ PhaseNeed(i)' PROVE PhaseGoes
  BY <1>1, <1>2, <1>3, DecidePhase DEF Leads
<1>4. ASSUME Then(Create({j}, j, "start")) PROVE PhaseGoes
  <2>1. j[1] = k[1] /\ j[2] = k[2]
    BY DEF JudgeOf
  <2>2. PICK i : i = Create({j}, j, "start")
    OBVIOUS
  <2>3. PhaseNeed(i)'
    BY <1>1, <1>2, <2>1, <2>2, CreateNeed
  <2> QED
    BY <1>3, <1>4, <2>2, <2>3
<1>5. ASSUME NEW P, Then(Retire(k, P, "none")) PROVE PhaseGoes
  <2>1. Loose(Retire(k, P, "none"))
    BY <1>1, RetireLoose
  <2> QED
    BY <1>3, <1>5, <2>1
<1>6. \A x : Then(Select(x, "walk")) => PhaseGoes
  BY <1>3, LooseOps
<1>7. (Then(ParkRun) \/ Then(Finish("failed"))) => PhaseGoes
  BY <1>3, LooseOps
<1>8. (Then(I("start", j)) \/ Then(Refuse({j}, FALSE))) => PhaseGoes
  BY <1>3, LooseOps
<1>9. \/ Then(ParkRun) \/ Then(Finish("failed")) \/ Then(I("start", j)) \/ Then(Refuse({j}, FALSE))
      \/ Then(Create({j}, j, "start")) \/ (\E x : Then(Select(x, "walk"))) \/ \E P : Then(Retire(k, P, "none"))
  BY DEF Chooses
<1> QED
  BY <1>4, <1>5, <1>6, <1>7, <1>8, <1>9

LEMMA JudgeSessionsPhase == ASSUME Base, PhaseAt, JudgeSessions PROVE PhaseGoes
<1> PICK k : k = Now.key
  OBVIOUS
<1>1. todo # <<>> /\ Decides /\ k[3] < 0
  <2>1. todo # <<>> /\ IsInstr(Now) /\ Now.op = "judge"
    BY Begun DEF JudgeSessions, AllOps, RowOps
  <2> QED
    BY <2>1 DEF IsInstr, JudgeSessions
<1>2. ASSUME NEW w, Then(Select(w, "judge")) PROVE PhaseGoes
  BY <1>1, <1>2, LooseOps, DecidePhase DEF Leads
<1>3. ASSUME Then(I("gate", k)) PROVE PhaseGoes
  <2>1. PICK i : i = I("gate", k)
    OBVIOUS
  <2>2. PhaseNeed(i)'
    BY <1>1, <2>1 DEF PhaseNeed, I, Judges
  <2> QED
    BY <1>1, <1>3, <2>1, <2>2, DecidePhase DEF Leads
<1> QED
  BY <1>2, <1>3 DEF JudgeSessions

LEMMA SelectsPhase == ASSUME Base, PhaseAt, Selects PROVE PhaseGoes
<1> PICK w : w = Now.key
  OBVIOUS
<1> PICK by : by = Now.by
  OBVIOUS
<1> DEFINE j == JudgeOf(w[1], w[2])
           Settle(k) ==
             IF k = w THEN [rows[k] EXCEPT !.sel = TRUE, !.st = "done"]
             ELSE IF k \in Group(w[1], w[2])
               THEN [rows[k] EXCEPT !.sel = FALSE,
                       !.st = IF @ \in {"pending", "awaiting", "done"} THEN "superseded" ELSE @]
             ELSE IF k = JudgeOf(w[1], w[2])
               THEN [rows[k] EXCEPT !.st = IF @ \in {"pending", "running", "awaiting"} THEN "done" ELSE @]
             ELSE rows[k]
<1>1. todo # <<>> /\ w \in DOMAIN rows /\ w[3] >= 0 /\ SelectPre(w) /\ ~ Doing("retire")
  <2>1. todo # <<>> /\ w \in DOMAIN rows /\ IsInstr(Now) /\ Pre(Now) /\ Now.op = "select" /\ ~ Doing("retire")
    <3>1. Doing("select")
      BY DEF Selects
    <3>2. "select" \in AllOps /\ "select" \in RowOps
      BY DEF AllOps, RowOps
    <3> QED
      BY <3>1, <3>2, Begun
  <2> QED
    BY <2>1 DEF Pre, IsInstr
<1>2. RowsInv /\ graph \in Graphs /\ Placed({}) /\ Owing /\ graph' = graph /\ run' = run /\ run # "done"
  BY <1>1, BaseFacts DEF Selects, WritesRows
<1>3. CASE /\ St(w) \in {"done", "awaiting"} /\ rows' = [k \in DOMAIN rows |-> Settle(k)]
           /\ Then(IF by = "person" THEN Unpark(w, "merge", FALSE) ELSE I("merge", w))
  <2>1. w[1] \in Phases /\ w[2] \in Nat \ {0} /\ w[2] <= Last(w[1]) /\ Last(w[1]) \in Nat
    BY <1>1, <1>2, KeyFacts, LastFacts
  <2>2. w[2] = Last(w[1])
    <3>1. OldRows /\ w[3] >= 0
      BY <1>1, <1>2 DEF Placed
    <3>2. ~ (w[2] < Last(w[1]))
      BY <1>1, <1>3, <3>1 DEF OldRows, Dead, Gone, InFlight
    <3> QED
      BY <2>1, <3>2
  <2>3. Front(w[1]) /\ Clean
    <3>1. Won(w[1]) = {} /\ Clean
      BY <1>1, <1>2, <1>3, <2>1, <2>2, StandsUncleared, LiveIsClean DEF SelectPre, Placed, Gone
    <3>2. w \in At(w[1]) /\ St(w) \notin Gone
      BY <1>1, <1>3 DEF At, Gone
    <3>3. Reached(w[1])
      BY <1>2, <2>1, <2>2, <3>2 DEF Reached, Placed, Beyond
    <3> QED
      BY <3>1, <3>3 DEF Front
  <2>4. OnlyAt(w[1])
    <3>1. ASSUME NEW k \in DOMAIN rows, k[1] # w[1] PROVE rows'[k] = rows[k]
      <4>1. k # w /\ k \notin Group(w[1], w[2]) /\ k # JudgeOf(w[1], w[2])
        BY <3>1, InGroup DEF JudgeOf
      <4> QED
        BY <1>3, <4>1
    <3> QED
      BY <1>2, <1>3, <3>1 DEF OnlyAt, SameShape
  <2>5. PhaseMoves
    BY <1>2, <2>1, <2>2, <2>3, <2>4, FrontWins DEF Placed
  <2>6. Reviews'
    <3>1. ASSUME NEW k \in DOMAIN rows PROVE rows'[k].work = rows[k].work
      <4>1. rows[k] \in Rows /\ rows'[k] = Settle(k)
        BY <1>2, <1>3, RowFields
      <4> QED
        BY <4>1 DEF Rows
    <3>2. DOMAIN rows' = DOMAIN rows
      BY <1>3
    <3> QED
      BY <1>2, <3>1, <3>2, SameReviews DEF PhaseAt
  <2>7. Leads
    BY <1>3, LooseOps DEF Leads
  <2> QED
    BY <1>1, <1>2, <2>5, <2>6, <2>7, LeadsNext DEF PhaseGoes
<1>4. CASE rows' = rows /\ Ends
  BY <1>1, <1>2, <1>4, SamePhase DEF Leads
<1>5. CASE rows' = rows /\ Then(I("gate", j))
  <2>1. PICK i : i = I("gate", j)
    OBVIOUS
  <2>2. PhaseNeed(i)'
    BY <2>1 DEF PhaseNeed, I, Judges, JudgeOf
  <2> QED
    BY <1>1, <1>2, <1>5, <2>1, <2>2, SamePhase DEF Leads
<1> QED
  BY <1>3, <1>4, <1>5 DEF Selects

LEMMA GroupPhase == ASSUME Base, PhaseAt, WalksGroup PROVE PhaseGoes
BY FansPhase, RefusesPhase, CandidatesPhase, GroupEndsPhase, ChoosesPhase, JudgeSessionsPhase, SelectsPhase
   DEF WalksGroup

-----------------------------------------------------------------------------
(* Recovery, the commands and the cancel.                                   *)

LEMMA FrontierPhase ==
  ASSUME Base, PhaseAt, todo # <<>>, Decides, MergesFrontier
  PROVE  PhaseGoes
<1>1. Leads
  BY LooseOps DEF MergesFrontier, Leads
<1> QED
  BY <1>1, DecidePhase

LEMMA SettlingPhase ==
  ASSUME Base, PhaseAt, todo # <<>>, Decides, NEW k, Then(SettleFailed(k)) \/ Then(Rejection(k))
  PROVE  PhaseGoes
<1>1. PICK i : (i = SettleFailed(k) \/ i = Rejection(k)) /\ Then(i)
  OBVIOUS
<1>2. PhaseNeed(i)'
  BY <1>1, DecidesWins, SettledNeed
<1> QED
  BY <1>1, <1>2, DecidePhase DEF Leads

LEMMA RecoversPhase == ASSUME Base, PhaseAt, Recovers PROVE PhaseGoes
<1>1. todo # <<>> /\ Decides
  BY Begun DEF Recovers, AllOps, OtherOps
<1> PICK K : K = {k \in DOMAIN rows : St(k) = "running"}
  OBVIOUS
<1>2. CASE MergesFrontier
  BY <1>1, <1>2, FrontierPhase
<1>3. CASE Then([op |-> "land", keys |-> K])
  <2>1. PICK i : i = [op |-> "land", keys |-> K]
    OBVIOUS
  <2>2. Loose(i)
    BY <2>1 DEF Loose
  <2> QED
    BY <1>1, <1>3, <2>1, <2>2, DecidePhase DEF Leads
<1> QED
  BY <1>2, <1>3 DEF Recovers

LEMMA SettlesPhase == ASSUME Base, PhaseAt, Settles PROVE PhaseGoes
<1>1. todo # <<>> /\ Decides
  BY Begun DEF Settles, AllOps, OtherOps
<1> QED
  BY <1>1, SettlingPhase, FrontierPhase DEF Settles

LEMMA RederivesPhase == ASSUME Base, PhaseAt, Rederives PROVE PhaseGoes
<1>1. todo # <<>> /\ Decides
  BY DEF Rederives, Doing
<1>2. CASE Then(ParkRun) \/ Over
  BY <1>1, <1>2, LooseOps, DecidePhase DEF Leads
<1>3. CASE Then(SettleFailed(Cursor.key))
  BY <1>1, <1>3, SettlingPhase
<1> QED
  BY <1>2, <1>3 DEF Rederives

LEMMA LandsPhase == ASSUME Base, PhaseAt, Lands PROVE PhaseGoes
<1>1. todo # <<>> /\ Doing("land") /\ ~ Doing("retire") /\ Now.op = "land" /\ WritesRows
  BY DEF Lands, Doing, Now
<1>2. /\ Pre(Now) /\ graph' = graph /\ run' # "done" /\ RowsInv /\ graph \in Graphs /\ ShapeInv /\ SelectedIsDone
  <2>1. Pre(Now) /\ graph' = graph /\ run' # "done" /\ RowsInv /\ graph \in Graphs /\ ShapeInv
    BY <1>1, BaseFacts DEF WritesRows
  <2>2. SelectedIsDone
    BY <1>1, BaseFacts DEF Placed
  <2> QED
    BY <2>1, <2>2
<1>3. PICK K \in SUBSET DOMAIN rows :
        /\ Now = [op |-> "land", keys |-> K] /\ Tail(todo) = <<Rederive, Pass>> /\ Rest = K
        /\ \A k : Without(k) = [op |-> "land", keys |-> K \ {k}]
  BY <1>1, <1>2, LandDoing
<1>4. \A k \in K : St(k) = "running"
  BY <1>1, <1>2, <1>3 DEF Pre
<1>5. CASE Over /\ rows' = rows
  BY <1>1, <1>2, <1>5, SamePhase DEF Leads
<1>6. ASSUME NEW k \in K, graph[k[1]].fan > 1, Then(Without(k)), NEW row, Same(k, row),
             rows' = [rows EXCEPT ![k] = row]
      PROVE  PhaseGoes
  <2>1. ~ rows[k].sel /\ ~ Plain(k) /\ St(k) # "done"
    BY <1>2, <1>4, <1>6 DEF SelectedIsDone, Gone, Plain
  <2>2. PICK i : i = [op |-> "land", keys |-> K \ {k}]
    OBVIOUS
  <2>3. Loose(i) /\ Then(i)
    BY <1>3, <1>6, <2>2 DEF Loose
  <2> QED
    BY <1>1, <1>2, <1>6, <2>1, <2>3, RowPhase DEF Leads
<1>7. ASSUME NEW k \in K, rows' = rows, NEW i,
             i = IF rows[k].work # "none" THEN Applied(k, rows[k].work, "end") ELSE I("reset", k),
             todo' = <<i, Without(k)>> \o Tail(todo)
      PROVE  PhaseGoes
  <2>1. Head(todo') = i
    <3>1. PICK l : l = Without(k)
      OBVIOUS
    <3>2. PICK t : t = <<Rederive, Pass>>
      OBVIOUS
    <3>3. todo' = <<i, l>> \o t
      BY <1>3, <1>7, <3>1, <3>2
    <3>4. Head(<<i, l>> \o t) = i
      BY <3>2
    <3> QED
      BY <3>3, <3>4
  <2>2. PhaseNeed(i)'
    <3>1. CASE rows[k].work # "none"
      <4>1. PICK verdict : verdict = rows[k].work
        OBVIOUS
      <4>2. verdict \in Works \ {"none"} /\ i = Applied(k, verdict, "end")
        BY <1>2, <1>7, <3>1, <4>1, RowFields DEF Rows
      <4>3. verdict = "reject" => graph[k[1]].name = "review"
        BY <1>7, <4>1 DEF PhaseAt, Reviews
      <4> QED
        BY <1>2, <1>7, <4>2, <4>3, AppliedNeed
    <3>2. CASE rows[k].work = "none"
      BY <1>2, <1>7, <3>2, LooseOps, LooseNeed
    <3> QED
      BY <3>1, <3>2
  <2>3. PhaseMoves /\ Reviews'
    BY <1>2, <1>7, SameMoves, SameReviews DEF PhaseAt
  <2> QED
    BY <2>1, <2>2, <2>3 DEF PhaseGoes, PhaseNext
<1>8. ASSUME NEW k \in First(Rest), graph[k[1]].fan > 1, Then(Without(k)),
             rows' = [rows EXCEPT ![k] =
                        IF rows[k].work # "none" /\ k[3] >= 0 THEN To(k, "done")
                        ELSE [To(k, "failed") EXCEPT !.note = "interrupted"]]
      PROVE  PhaseGoes
  <2>1. PICK row : row = IF rows[k].work # "none" /\ k[3] >= 0 THEN To(k, "done")
                         ELSE [To(k, "failed") EXCEPT !.note = "interrupted"]
    OBVIOUS
  <2>2. k \in K /\ rows' = [rows EXCEPT ![k] = row]
    BY <1>3, <1>8, <2>1 DEF First
  <2>3. Same(k, row)
    <3>1. Same(k, To(k, "done")) /\ Same(k, [To(k, "failed") EXCEPT !.note = "interrupted"])
      BY <1>2, <2>2, SameFields
    <3> QED
      BY <2>1, <3>1
  <2> QED
    BY <1>6, <1>8, <2>2, <2>3
<1>9. ASSUME NEW k \in First(Rest), rows' = rows,
             todo' = <<IF rows[k].work # "none" THEN Applied(k, rows[k].work, "end") ELSE I("reset", k),
                       Without(k)>> \o Tail(todo)
      PROVE  PhaseGoes
  <2>1. k \in K
    BY <1>3 DEF First
  <2> QED
    BY <1>7, <1>9, <2>1
<1> QED
  BY <1>5, <1>8, <1>9 DEF Lands

LEMMA ResetsPhase == ASSUME Base, PhaseAt, Resets PROVE PhaseGoes
<1> PICK k : k = Now.key
  OBVIOUS
<1>1. todo # <<>> /\ k \in DOMAIN rows /\ WritesRows
  BY Begun DEF Resets, AllOps, RowOps
<1>2. graph' = graph /\ run' # "done" /\ RowsInv
  BY <1>1, BaseFacts DEF WritesRows
<1>3. CASE rows' = rows /\ Over
  BY <1>1, <1>2, <1>3, SamePhase DEF Leads
<1>4. ASSUME St(k) = "running", NEW note, rows' = [rows EXCEPT ![k] = [To(k, "failed") EXCEPT !.note = note]],
             Then(Admit(k[1], k[2] + 1)) \/ Then(ParkRun)
      PROVE  PhaseGoes
  <2>1. PICK row : row = [To(k, "failed") EXCEPT !.note = note]
    OBVIOUS
  <2>2. Same(k, row) /\ row.st = "failed" /\ rows' = [rows EXCEPT ![k] = row]
    BY <1>1, <1>2, <1>4, <2>1, SameFields
  <2>3. Leads
    BY <1>4, LooseOps DEF Leads
  <2> QED
    BY <1>1, <1>2, <1>4, <2>2, <2>3, RowPhase
<1>5. ASSUME St(k) = "running", rows' = [rows EXCEPT ![k] = [To(k, "failed") EXCEPT !.note = "interrupted"]],
             Then(IF MayAttempt(k[1], k[2] + 1) THEN Admit(k[1], k[2] + 1) ELSE ParkRun)
      PROVE  PhaseGoes
  BY <1>4, <1>5
<1> QED
  BY <1>3, <1>4, <1>5 DEF Resets

LEMMA CancelsRunPhase == ASSUME Base, PhaseAt, CancelsRun PROVE PhaseGoes
<1>1. todo # <<>> /\ Decides
  BY Begun DEF CancelsRun, AllOps, OtherOps
<1>2. PICK i : i = [op |-> "cancels", keys |-> {k \in DOMAIN rows : St(k) \notin TerminalStep}]
  OBVIOUS
<1>3. Loose(i) /\ Then(i)
  BY <1>2 DEF CancelsRun, Loose
<1> QED
  BY <1>1, <1>3, DecidePhase DEF Leads

LEMMA CancelsRowsPhase == ASSUME Base, PhaseAt, CancelsRows PROVE PhaseGoes
<1>1. /\ todo # <<>> /\ Now.op = "cancels" /\ IsInstr(Now) /\ Rest \subseteq DOMAIN rows
      /\ \A k \in Rest : St(k) \notin TerminalStep
  <2>1. todo # <<>> /\ Now.op = "cancels" /\ IsInstr(Now) /\ Pre(Now)
    BY OpFacts DEF CancelsRows, AllOps, KeysOps
  <2>2. Rest \subseteq DOMAIN rows
    BY <2>1 DEF IsInstr, KeysOps, Rest
  <2>3. \A k \in DOMAIN rows : k \in Rest <=> St(k) \notin TerminalStep
    BY <2>1 DEF Pre, Rest
  <2> QED
    BY <2>1, <2>2, <2>3
<1>2. graph' = graph /\ run' # "done" /\ RowsInv
  BY <1>1, BaseFacts DEF CancelsRows, WritesRows
<1>3. CASE rows' = rows /\ Then(Finish("cancelled"))
  BY <1>1, <1>2, <1>3, LooseOps, SamePhase DEF Leads
<1>4. ASSUME NEW k \in First(Rest), rows' = [rows EXCEPT ![k] = To(k, "cancelled")], Then(Without(k))
      PROVE  PhaseGoes
  <2>1. k \in DOMAIN rows /\ St(k) # "done"
    BY <1>1 DEF First, TerminalStep
  <2>2. PICK row : row = To(k, "cancelled")
    OBVIOUS
  <2>3. Same(k, row) /\ row.st = "cancelled"
    BY <1>2, <2>1, <2>2, SameFields
  <2>4. PICK i : i = Without(k)
    OBVIOUS
  <2>5. i.op = "cancels"
    BY <1>1, <2>4, WithoutInstr DEF KeysOps
  <2>6. Leads
    BY <1>4, <2>4, <2>5 DEF Leads, Loose
  <2> QED
    BY <1>1, <1>2, <1>4, <2>1, <2>2, <2>3, <2>6, RowPhase
<1> QED
  BY <1>3, <1>4 DEF CancelsRows

LEMMA ApprovesRowPhase == ASSUME Base, PhaseAt, ApprovesRow PROVE PhaseGoes
<1> PICK k : k = Now.key
  OBVIOUS
<1>1. todo # <<>> /\ ~ Doing("retire") /\ k \in DOMAIN rows /\ RowsInv /\ run # "done"
  BY Begun DEF ApprovesRow, AllOps, RowOps
<1>2. graph' = graph /\ run' = run
  BY DEF ApprovesRow, Moves, WritesRows
<1>3. CASE rows' = rows /\ Ends
  BY <1>1, <1>2, <1>3, SamePhase DEF Leads
<1>4. CASE /\ St(k) = "awaiting" /\ rows' = [rows EXCEPT ![k] = [rows[k] EXCEPT !.st = "done", !.ans = "approved"]]
           /\ Then(Unpark(k, "merge", FALSE))
  <2>1. PICK row : row = [rows[k] EXCEPT !.st = "done", !.ans = "approved"]
    OBVIOUS
  <2>2. row.work = rows[k].work
    BY <1>1, <2>1, SameFields DEF Same
  <2>3. Leads
    BY <1>4, LooseOps DEF Leads
  <2> QED
    BY <1>1, <1>2, <1>4, <2>1, <2>2, <2>3, DonePhase DEF InFlight
<1> QED
  BY <1>3, <1>4 DEF ApprovesRow, Moves

LEMMA RetriesRowPhase == ASSUME Base, PhaseAt, RetriesRow PROVE PhaseGoes
<1> PICK k : k = Now.key
  OBVIOUS
<1>1. todo # <<>> /\ k \in DOMAIN rows /\ RowsInv
  BY Begun DEF RetriesRow, AllOps, RowOps
<1>2. PICK row : row = [rows[k] EXCEPT !.st = "superseded", !.ans = "retried"]
  OBVIOUS
<1>3. Same(k, row) /\ row.st = "superseded"
  BY <1>1, <1>2, SameFields DEF Same
<1>4. PICK i : i = Unpark(k, "readmit", Now.must)
  OBVIOUS
<1>5. Loose(i)
  BY <1>4, LooseOps
<1> QED
  BY <1>1, <1>2, <1>3, <1>4, <1>5, MovePhase DEF RetriesRow

LEMMA UnparksPhase == ASSUME Base, PhaseAt, Unparks PROVE PhaseGoes
<1>1. todo # <<>> /\ Now.then \in {"merge", "rejection", "readmit", "admit", "settle"}
  <2>1. todo # <<>> /\ Now.op = "unpark" /\ IsInstr(Now)
    BY OpFacts DEF Unparks, AllOps, OtherOps
  <2> QED
    BY <2>1 DEF IsInstr
<1>2. graph' = graph /\ rows' = rows /\ run' # "done"
  BY <1>1, BaseFacts DEF Unparks
<1>3. Loose(I(Now.then, Now.key))
  BY <1>1, LooseOps
<1>4. Leads
  BY <1>3 DEF Unparks, Leads
<1> QED
  BY <1>1, <1>2, <1>4, SamePhase

LEMMA RejectionsPhase == ASSUME Base, PhaseAt, Rejections PROVE PhaseGoes
<1>1. todo # <<>> /\ Decides
  BY Begun DEF Rejections, AllOps, RowOps
<1> QED
  BY <1>1, SettlingPhase DEF Rejections

LEMMA ReadmitsPhase == ASSUME Base, PhaseAt, Readmits PROVE PhaseGoes
<1>1. todo # <<>> /\ Decides
  BY Begun DEF Readmits, AllOps, RowOps
<1> QED
  BY <1>1, LooseOps, DecidePhase DEF Readmits, Leads

LEMMA WalksOnPhase == ASSUME Base, PhaseAt, WalksOn PROVE PhaseGoes
<1>1. todo # <<>> /\ Decides
  BY Begun DEF WalksOn, AllOps, OtherOps
<1> QED
  BY <1>1, LooseOps, DecidePhase DEF WalksOn, Leads

LEMMA ServesPhase == ASSUME Base, PhaseAt, Serves PROVE PhaseGoes
BY RecoversPhase, LandsPhase, ResetsPhase, RederivesPhase, CancelsRunPhase, CancelsRowsPhase, ApprovesRowPhase,
   RetriesRowPhase, UnparksPhase, RejectionsPhase, ReadmitsPhase, WalksOnPhase, SettlesPhase
   DEF Serves

-----------------------------------------------------------------------------
(* What is not a step of the walk.                                          *)

LEMMA WalksBusy ==
  ASSUME Walks
  PROVE  todo # <<>>
<1> SUFFICES ASSUME todo = <<>> PROVE FALSE
  OBVIOUS
<1>1. \A op : ~ Doing(op)
  BY DEF Doing
<1>2. ~ WalksStep
  BY <1>1 DEF WalksStep, Passes, Admits, Creates, Starts, Sessions, Parks, Accepts, FailsHard, Spends, GatesItself,
     RejectsRow, Merges, Loops, Retires, ParksRun, Finishes, Blocks
<1>3. ~ WalksGroup
  BY <1>1 DEF WalksGroup, Fans, Refuses, CandidateStarts, CandidateWorks, CandidateEnds, GroupEnds, Chooses,
     JudgeSessions, Selects
<1>4. ~ Serves
  BY <1>1 DEF Serves, Recovers, Lands, Resets, Rederives, CancelsRun, CancelsRows, ApprovesRow, RetriesRow, Unparks,
     Rejections, Readmits, WalksOn, Settles
<1> QED
  BY <1>2, <1>3, <1>4 DEF Walks

LEMMA StillPhase ==
  ASSUME PhaseAt, graph' = graph, rows' = rows, todo' = todo
  PROVE  PhaseAt'
<1>1. Reviews'
  BY SameReviews DEF PhaseAt
<1>2. PICK i : i = Head(todo)
  OBVIOUS
<1>3. todo # <<>> => PhaseNeed(i)'
  BY <1>2, SameRowsNeed DEF PhaseAt, PhaseNext
<1> QED
  BY <1>1, <1>2, <1>3 DEF PhaseAt, PhaseNext

LEMMA StopsPhase ==
  ASSUME PhaseAt, graph' = graph, rows' = rows,
         todo' = <<>> \/ \E i : Loose(i) /\ Head(todo') = i
  PROVE  PhaseAt'
<1>1. Reviews'
  BY SameReviews DEF PhaseAt
<1> QED
  BY <1>1, LooseNeed DEF PhaseAt, PhaseNext

LEMMA TakesPhase ==
  ASSUME ShapeInv, WalkInv, PhaseAt, NEW h \in People, ~ late', Takes(h)
  PROVE  PhaseAt'
<1>1. graph' = graph /\ rows' = rows
  BY DEF Takes, rowVars
<1>2. PICK i : i = asked[h][1]
  OBVIOUS
<1>3. asked[h] = <<i>> /\ i.op \in AskedOps /\ AskedFits(i) /\ (h \notin old => AskedFresh(i))
  BY <1>2 DEF Takes, ShapeInv, AskedInv, WalkInv
<1>4. h \notin old \/ Guarded(i)
  <2>1. Head(asked[h]) = i
    BY <1>3
  <2> QED
    BY <2>1 DEF Takes
<1>5. Loose(i)
  <2>1. i.op \notin {"gate", "loop", "create"}
    BY <1>3 DEF AskedOps
  <2>2. i.op = "reject" => i.by = "person"
    BY <1>3 DEF AskedFits
  <2>3. i.op = "retire" => graph[i.key[1]].fan # 1
    BY <1>3, <1>4 DEF AskedFresh, Guarded
  <2> QED
    BY <2>1, <2>2, <2>3 DEF Loose
<1>6. PICK t : t = IF tails = "walk" THEN <<Pass>> ELSE <<>>
  OBVIOUS
<1>7. IsBack(t) /\ todo' = <<i>> \o t
  BY <1>3, <1>6 DEF IsBack, Takes
<1>8. Head(todo') = i
  BY <1>7, BackIsSeq
<1> QED
  BY <1>1, <1>5, <1>8, StopsPhase

LEMMA RestPhase ==
  ASSUME PhaseAt, Sweeps \/ TakesCancel \/ Drops
  PROVE  PhaseAt'
<1>1. graph' = graph /\ rows' = rows
  BY DEF Sweeps, TakesCancel, Drops, rowVars
<1>2. Loose(I("recover", <<0, 0, 0>>)) /\ Loose(I("cancel", <<0, 0, 0>>))
  BY LooseOps
<1>3. todo' = <<>> \/ Head(todo') \in {I("recover", <<0, 0, 0>>), I("cancel", <<0, 0, 0>>)}
  BY DEF Sweeps, TakesCancel, Drops
<1> QED
  BY <1>1, <1>2, <1>3, StopsPhase

LEMMA WalksPhase ==
  ASSUME Base, PhaseAt, Walks
  PROVE  PhaseGoes
BY StepPhase, GroupPhase, ServesPhase DEF Walks

-----------------------------------------------------------------------------
(* The theorem.                                                             *)

LEMMA PhaseInit ==
  ASSUME Init
  PROVE  PhaseInv /\ Phased!Init
<1>1. /\ DOMAIN rows = {} /\ todo = <<>> /\ run = "running" /\ graph \in Graphs
      /\ late = FALSE /\ torn = FALSE /\ blind = FALSE
  BY DEF Init
<1>2. PhaseInv
  BY <1>1 DEF PhaseInv, PhaseAt, Reviews, PhaseNext
<1>3. \A p \in Phases : Last(p) = 0
  <2>1. \A p : {k[2] : k \in At(p)} = {}
    BY <1>1 DEF At
  <2>2. {0} \in SUBSET Nat /\ IsFiniteSet({0})
    BY FS_Singleton
  <2>3. Max({0}) \in {0}
    BY <2>2, MaxIsGreatest
  <2> QED
    BY <2>1, <2>3 DEF Last
<1>4. Passed = 0
  <2>1. Len(graph) \in Nat /\ Phases = 1..Len(graph)
    BY <1>1, PhasesAre
  <2>2. PICK N \in Nat : N = Len(graph)
    BY <2>1
  <2>3. \A p : ~ Settled(p)
    BY <1>1 DEF Settled
  <2>4. PICK U : U = {p \in Phases : ~ Settled(p)}
    OBVIOUS
  <2>5. U = 1..N
    BY <2>1, <2>2, <2>3, <2>4
  <2>6. PICK n \in 0..N : n = 0
    OBVIOUS
  <2>7. /\ U \in SUBSET (1..N) /\ (\A q \in 1..N : q <= n => q \notin U)
        /\ (n + 1 \in 1..N => n + 1 \in U)
    BY <2>5, <2>6
  <2>8. Min(U \cup {N + 1}) - 1 = n
    BY <2>7, LeastOpen
  <2> QED
    BY <2>2, <2>4, <2>6, <2>8 DEF Passed
<1>5. Phased!Init
  BY <1>1, <1>3, <1>4 DEF Phased!Init, Phased!Phases, TerminalRun
<1> QED
  BY <1>2, <1>5

\* A step that writes no row and leaves the run as it is.
LEMMA QuietWalked ==
  ASSUME graph' = graph, rows' = rows, run' = run,
         (late \/ torn \/ blind)' \/ (late \/ torn \/ blind)' = (late \/ torn \/ blind)
  PROVE  Walked
<1>1. CASE (late \/ torn \/ blind)'
  BY <1>1 DEF Walked, Phased!Next
<1>2. CASE (late \/ torn \/ blind)' = (late \/ torn \/ blind)
  <2>1. Unmoved /\ Phases' = Phases
    BY SameUnmoved DEF Phases
  <2>2. Passed' = Passed
    BY <2>1, UnmovedPassed DEF Unmoved
  <2>3. [p \in Phases |-> Last(p)]' = [p \in Phases |-> Last(p)]
    BY <2>1 DEF Unmoved
  <2>4. [p \in Phases |-> [limit |-> graph[p].limit, back  |-> IF graph[p].name = "review" THEN Target(p) ELSE 0]]'
        = [p \in Phases |-> [limit |-> graph[p].limit, back  |-> IF graph[p].name = "review" THEN Target(p) ELSE 0]]
    BY <2>1, SameTarget
  <2> QED
    BY <1>2, <2>2, <2>3, <2>4 DEF Walked
<1> QED
  BY <1>1, <1>2

\* The run that was led astray stays so.
LEMMA AstrayStays ==
  ASSUME [Next]_vars
  PROVE  (late => late') /\ (torn => torn') /\ (blind => blind')
<1>1. CASE Walks
  BY <1>1 DEF Walks
<1>2. CASE Sweeps \/ Unblocks \/ RequestsCancel
  BY <1>2 DEF Sweeps, Unblocks, RequestsCancel, history
<1>3. CASE TakesCancel \/ Drops
  <2>1. Tears /\ late' = late /\ blind' = blind
    BY <1>3 DEF TakesCancel, Drops
  <2>2. torn => torn'
    BY <2>1, Zenon DEF Tears
  <2> QED
    BY <2>1, <2>2
<1>4. ASSUME NEW h \in People, Takes(h) PROVE (late => late') /\ (torn => torn') /\ (blind => blind')
  BY <1>4 DEF Takes
<1>5. ASSUME NEW h \in People, NEW i, Asks(h, i) PROVE (late => late') /\ (torn => torn') /\ (blind => blind')
  BY <1>5 DEF Asks, history
<1>6. CASE UNCHANGED vars
  BY <1>6 DEF vars, history
<1>7. ASSUME NEW h \in People,
             Approves(h) \/ Rejects(h) \/ Retries(h) \/ RetriesGroup(h) \/ Picks(h) \/ Resumes(h)
      PROVE  \E i : Asks(h, i)
  BY <1>7 DEF Approves, Rejects, Retries, RetriesGroup, Picks, Resumes
<1> QED
  BY <1>1, <1>2, <1>3, <1>4, <1>5, <1>6, <1>7 DEF Next, Commands

LEMMA PhaseNextStep ==
  ASSUME ShapeInv, FrontInv, OneWinner, WholeInv, PhaseInv, [Next]_vars
  PROVE  PhaseInv' /\ Walked
<1>1. CASE late \/ torn \/ blind
  <2>1. (late \/ torn \/ blind)'
    BY <1>1, AstrayStays
  <2> QED
    BY <2>1 DEF PhaseInv, Walked, Phased!Next
<1>2. CASE ~ late /\ ~ torn /\ ~ blind
  <2>1. Base /\ PhaseAt /\ WalkInv
    BY <1>2 DEF FrontInv, WholeInv, PhaseInv, Base
  <2>2. (late \/ torn \/ blind)' \/ (late \/ torn \/ blind)' = (late \/ torn \/ blind)
    BY <1>2
  <2>3. CASE Walks
    <3>1. PhaseGoes
      BY <2>1, <2>3, WalksPhase
    <3>2. graph \in Graphs /\ run \notin TerminalRun
      BY <2>3, WalksBusy DEF ShapeInv, Counters
    <3>3. run' \in RunStatuses
      BY ShapeNext DEF ShapeInv, Counters
    <3> QED
      BY <2>2, <3>1, <3>2, <3>3, MovesArePhases DEF PhaseGoes, PhaseInv, PhaseAt
  <2>4. ASSUME graph' = graph, rows' = rows, run' = run, ~ late' => PhaseAt'
        PROVE  PhaseInv' /\ Walked
    BY <2>2, <2>4, QuietWalked DEF PhaseInv
  <2>5. CASE Sweeps \/ TakesCancel \/ Drops
    <3>1. graph' = graph /\ rows' = rows /\ run' = run
      BY <2>5 DEF Sweeps, TakesCancel, Drops, rowVars
    <3> QED
      BY <2>1, <2>4, <2>5, <3>1, RestPhase
  <2>6. CASE Unblocks \/ RequestsCancel \/ UNCHANGED vars
    <3>1. graph' = graph /\ rows' = rows /\ run' = run /\ todo' = todo
      BY <2>6 DEF Unblocks, RequestsCancel, vars, rowVars
    <3> QED
      BY <2>1, <2>4, <3>1, StillPhase
  <2>7. ASSUME NEW h \in People, Takes(h) PROVE PhaseInv' /\ Walked
    <3>1. graph' = graph /\ rows' = rows /\ run' = run
      BY <2>7 DEF Takes, rowVars
    <3> QED
      BY <2>1, <2>4, <2>7, <3>1, TakesPhase
  <2>8. ASSUME NEW h \in People, NEW i, Asks(h, i) PROVE PhaseInv' /\ Walked
    <3>1. graph' = graph /\ rows' = rows /\ run' = run /\ todo' = todo
      BY <2>8 DEF Asks, rowVars
    <3> QED
      BY <2>1, <2>4, <3>1, StillPhase
  <2>9. ASSUME NEW h \in People,
               Approves(h) \/ Rejects(h) \/ Retries(h) \/ RetriesGroup(h) \/ Picks(h) \/ Resumes(h)
        PROVE  \E i : Asks(h, i)
    BY <2>9 DEF Approves, Rejects, Retries, RetriesGroup, Picks, Resumes
  <2> QED
    BY <2>3, <2>5, <2>6, <2>7, <2>8, <2>9 DEF Next, Commands
<1> QED
  BY <1>1, <1>2

\* The walk implements PhaseRun, whatever the graph, the people, the crashes and the commands
\* (engine.rs, run_to_rest and review_loop).
THEOREM WalkIsPhaseRun == Spec => IsPhaseRun
<1>1. Init => PhaseInv /\ Phased!Init
  BY PhaseInit
<1>2. ShapeInv /\ FrontInv /\ OneWinner /\ WholeInv /\ PhaseInv /\ [Next]_vars => PhaseInv' /\ Walked
  BY PhaseNextStep
<1> QED
  BY <1>1, <1>2, ShapeHolds, FrontHolds, OneWinnerHolds, WholeInvHolds, PTL DEF Spec, IsPhaseRun, Phased!Spec, Walked

=============================================================================
