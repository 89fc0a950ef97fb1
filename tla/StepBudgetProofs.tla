--------------------------- MODULE StepBudgetProofs ---------------------------
(***************************************************************************)
(* Theorems about StepWalk, continued: the attempts of a phase that no     *)
(* review sends back stay within its budget. The inductive invariant says  *)
(* of each such phase when it has room for one more attempt (Within), and  *)
(* of each instruction that leads to one that there is room when its turn  *)
(* comes (Need). It does without where the front is: a torn retirement     *)
(* spends no attempt.                                                      *)
(***************************************************************************)
EXTENDS StepFrontProofs

-----------------------------------------------------------------------------
(* The budget of a phase.                                                   *)

Noted(p)  == {k \in At(p) : k[3] >= 0 /\ rows[k].note # "none"}
Budget(p) == graph[p].limit + 1 + Cardinality(Noted(p))
Latest(p) == Group(p, Last(p))
Free(p)   == p \in Phases /\ ~ InLoop(p)

Room(p)   == Last(p) < Budget(p)
AtRest(p) == \A k \in Latest(p) : ~ InFlight(k)

\* Where the cursor admits the next attempt, and where a note lets a person ask for it, there is
\* room for it; and an overtaken candidate is never in flight.
Within(p) ==
  /\ Last(p) <= Budget(p)
  /\ (\A k \in Latest(p) : St(k) \in Gone) => Room(p)
  /\ (\E k \in Latest(p) : rows[k].note # "none") => Room(p)
  /\ \A k \in At(p) : k[2] < Last(p) /\ k[3] >= 0 => ~ InFlight(k)

\* Only a group has a judge, and only a review rejects.
RowKinds ==
  \A k \in DOMAIN rows :
    /\ k[3] < 0 => graph[k[1]].fan > 1
    /\ rows[k].work = "reject" => graph[k[1]].name = "review"

RowsWithin == (\A p \in Phases : Free(p) => Within(p)) /\ RowKinds

-----------------------------------------------------------------------------
(* What an instruction needs when its turn comes.                           *)

PlainStep(k) == graph[k[1]].fan = 1 /\ k[3] >= 0
IsReview(k)  == graph[k[1]].name = "review"

\* Attempt a of a phase may be created, or the attempt after its latest admitted.
MayCreate(p, a) ==
  Free(p) => Last(p) <= a /\ a <= Budget(p) /\ (a > Last(p) => AtRest(p))
MayReadmit(p) == Free(p) => Room(p) /\ AtRest(p)

RetryNeed(k) ==
  PlainStep(k) /\ (Free(k[1]) /\ InFlight(k) => k[2] = Last(k[1]) /\ Room(k[1]))

RetireNeed(i) ==
  /\ \A k \in i.keys : Free(k[1]) => Room(k[1])
  /\ i.then = "unpark" =>
       LET p == i.key[1] IN
       Free(p) => i.key[2] = Last(p) /\ Room(p) /\ \A k \in Latest(p) : InFlight(k) => k \in i.keys

CreateNeed(i) ==
  LET p == i.key[1]  a == i.key[2] IN
  /\ MayCreate(p, a)
  /\ \A k \in i.keys : k[1] = p /\ k[2] = a /\ (k[3] < 0 => graph[p].fan > 1 /\ Group(p, a) # {})
  /\ i.then = "start" => i.key[3] < 0

Need(i) ==
  /\ i.op \in {"session", "spend", "reset"} => PlainStep(i.key)
  /\ i.op = "start" /\ i.key[3] >= 0 => PlainStep(i.key)
  /\ i.op = "gate" /\ i.key[3] >= 0 => IsReview(i.key)
  /\ i.op = "reject" /\ i.by # "person" /\ i.key[3] >= 0 => IsReview(i.key)
  /\ i.op = "loop" => IsReview(i.key)
  /\ i.op \in {"admit", "fan"} => MayCreate(i.key[1], i.key[2])
  /\ i.op = "create" => CreateNeed(i)
  /\ i.op = "choose" => graph[i.key[1]].fan > 1 /\ i.key[2] = Last(i.key[1])
  /\ i.op = "group" => i.wait \cap i.live = {} /\ \A k \in i.wait : St(k) = "pending"
  /\ i.op = "readmit" => MayReadmit(i.key[1])
  /\ i.op = "unpark" /\ i.then = "readmit" => MayReadmit(i.key[1])
  /\ i.op = "unpark" /\ i.then = "admit" => MayCreate(i.key[1], i.key[2])
  /\ i.op = "retry" => i.then = "readmit" /\ RetryNeed(i.key)
  /\ i.op = "retire" => RetireNeed(i)
  /\ i.op \notin {"cancel", "cancels"}

NeedsMet == todo # <<>> => Need(Head(todo))

\* A retry keeps what it needs, whatever overtakes it; the others, until they are overtaken.
AskedWithin ==
  \A h \in People : asked[h] # <<>> =>
    /\ asked[h][1].op = "retry" => Need(asked[h][1])
    /\ asked[h][1].op = "reject" => asked[h][1].by = "person"
    /\ h \notin old => Need(asked[h][1])

BudgetAt  == RowsWithin /\ NeedsMet /\ AskedWithin
BudgetInv == ~ late /\ cancel = "none" => BudgetAt

-----------------------------------------------------------------------------
(* Steps that bring no row into flight: the budgets only grow.              *)

Narrows ==
  /\ SameShape
  /\ \A k \in DOMAIN rows :
       /\ InFlight(k)' => InFlight(k)
       /\ rows[k].note # "none" => rows'[k].note # "none"
       /\ rows'[k].work = "reject" => rows[k].work = "reject" \/ IsReview(k)
  /\ \A p \in Phases : Free(p) /\ (\A k \in Latest(p) : St(k)' \in Gone) =>
       Room(p) \/ \A k \in Latest(p) : St(k) \in Gone

Spares == Narrows /\ NeedsMet'

LEMMA BudgetFacts ==
  ASSUME RowsInv, graph \in Graphs, NEW p \in Phases
  PROVE  /\ IsFiniteSet(Noted(p)) /\ Noted(p) \subseteq DOMAIN rows
         /\ Last(p) \in Nat /\ Budget(p) \in Nat /\ graph[p].limit + 1 <= Budget(p)
         /\ \A a \in Nat : MayAttempt(p, a) => a <= Budget(p)
<1>1. Noted(p) \subseteq DOMAIN rows
  BY DEF Noted, At
<1>2. IsFiniteSet(Noted(p)) /\ Cardinality(Noted(p)) \in Nat
  BY <1>1, FS_Subset, FS_CardinalityType DEF RowsInv
<1>3. graph[p].limit \in Nat
  BY GraphFacts
<1> QED
  BY <1>1, <1>2, <1>3, LastFacts DEF Budget, MayAttempt

LEMMA FreeSame ==
  ASSUME graph' = graph
  PROVE  \A p : Free(p)' = Free(p)
<1>1. Phases' = Phases
  BY DEF Phases
<1>2. ASSUME NEW r PROVE Target(r)' = Target(r)
  BY <1>1 DEF Target
<1> QED
  BY <1>1, <1>2 DEF Free, InLoop

LEMMA NarrowsFacts ==
  ASSUME RowsInv, graph \in Graphs, Narrows, NEW p \in Phases
  PROVE  /\ Last(p)' = Last(p) /\ Latest(p)' = Latest(p) /\ Free(p)' = Free(p) /\ At(p)' = At(p)
         /\ Noted(p) \subseteq Noted(p)'
         /\ Budget(p) \in Nat /\ Budget(p)' \in Nat /\ Budget(p) <= Budget(p)'
         /\ \A k \in Latest(p) : rows[k].note = "none" /\ rows'[k].note # "none" => Budget(p) < Budget(p)'
         /\ Room(p) => Room(p)'
         /\ AtRest(p) => AtRest(p)'
<1>1. /\ graph' = graph /\ Last(p)' = Last(p) /\ Latest(p)' = Latest(p) /\ At(p)' = At(p)
      /\ DOMAIN rows' = DOMAIN rows
  BY ShapeSame DEF Narrows, SameShape, Latest
<1>2. Free(p)' = Free(p)
  BY <1>1, FreeSame
<1>3. Noted(p) \subseteq Noted(p)'
  BY <1>1 DEF Noted, Narrows, At
<1>4. IsFiniteSet(Noted(p)') /\ Cardinality(Noted(p)') \in Nat
  <2>1. Noted(p)' \subseteq DOMAIN rows
    BY <1>1 DEF Noted, At
  <2> QED
    BY <2>1, FS_Subset, FS_CardinalityType DEF RowsInv
<1>5. IsFiniteSet(Noted(p)) /\ Cardinality(Noted(p)) \in Nat /\ graph[p].limit \in Nat
  BY BudgetFacts, FS_CardinalityType, GraphFacts
<1>6. Cardinality(Noted(p)) <= Cardinality(Noted(p)')
  BY <1>3, <1>4, FS_Subset
<1>7. /\ Budget(p) = graph[p].limit + 1 + Cardinality(Noted(p))
      /\ Budget(p)' = graph[p].limit + 1 + Cardinality(Noted(p)')
  BY <1>1 DEF Budget
<1>8. Budget(p) \in Nat /\ Budget(p)' \in Nat /\ Budget(p) <= Budget(p)'
  BY <1>4, <1>5, <1>6, <1>7
<1>9. ASSUME NEW k \in Latest(p), rows[k].note = "none", rows'[k].note # "none" PROVE Budget(p) < Budget(p)'
  <2>1. k \in Noted(p)' /\ k \notin Noted(p)
    BY <1>1, <1>9 DEF Noted, Latest, Group
  <2>2. /\ IsFiniteSet(Noted(p)' \ {k}) /\ Cardinality(Noted(p)' \ {k}) = Cardinality(Noted(p)') - 1
    BY <1>4, <2>1, FS_RemoveElement
  <2>3. Noted(p) \subseteq Noted(p)' \ {k}
    BY <1>3, <2>1
  <2>4. Cardinality(Noted(p)) <= Cardinality(Noted(p)' \ {k})
    BY <2>2, <2>3, FS_Subset
  <2> QED
    BY <1>4, <1>5, <1>7, <2>2, <2>4
<1>10. Room(p) => Room(p)'
  BY <1>1, <1>8, LastFacts DEF Room
<1>11. AtRest(p) => AtRest(p)'
  BY <1>1, InGroup DEF AtRest, Latest, Narrows
<1> QED
  BY <1>1, <1>2, <1>3, <1>8, <1>9, <1>10, <1>11

LEMMA NarrowsWithin ==
  ASSUME RowsInv, graph \in Graphs, Narrows, RowsWithin
  PROVE  RowsWithin'
<1>1. ASSUME NEW p \in Phases, Free(p) PROVE Within(p)'
  <2>1. Within(p) /\ p \in Phases
    BY <1>1 DEF RowsWithin
  <2>2. /\ Last(p)' = Last(p) /\ Latest(p)' = Latest(p) /\ At(p)' = At(p) /\ Last(p) \in Nat
        /\ Budget(p) \in Nat /\ Budget(p)' \in Nat /\ Budget(p) <= Budget(p)'
        /\ \A k \in Latest(p) : rows[k].note = "none" /\ rows'[k].note # "none" => Budget(p) < Budget(p)'
        /\ Room(p) => Room(p)'
    BY NarrowsFacts, LastFacts
  <2>3. (Last(p) <= Budget(p))'
    BY <2>1, <2>2 DEF Within
  <2>4. (\A k \in Latest(p) : St(k) \in Gone)' => Room(p)'
    <3>1. (\A k \in Latest(p) : St(k)' \in Gone) => Room(p) \/ \A k \in Latest(p) : St(k) \in Gone
      BY <1>1 DEF Narrows
    <3> QED
      BY <2>1, <2>2, <3>1 DEF Within, Gone
  <2>5. ASSUME NEW k \in Latest(p), rows'[k].note # "none" PROVE Room(p)'
    <3>1. CASE rows[k].note # "none"
      BY <2>1, <2>2, <3>1 DEF Within
    <3>2. CASE rows[k].note = "none"
      <4>1. Budget(p) < Budget(p)' /\ Last(p) <= Budget(p)
        BY <2>1, <2>2, <2>5, <3>2 DEF Within
      <4> QED
        BY <2>2, <4>1 DEF Room
    <3> QED
      BY <3>1, <3>2
  <2>6. (\A k \in At(p) : k[2] < Last(p) /\ k[3] >= 0 => ~ InFlight(k))'
    <3> SUFFICES ASSUME NEW k \in At(p), k[2] < Last(p), k[3] >= 0 PROVE ~ InFlight(k)'
      BY <2>2
    <3>1. k \in DOMAIN rows
      BY DEF At
    <3> QED
      BY <2>1, <3>1 DEF Within, Narrows
  <2> QED
    BY <2>2, <2>3, <2>4, <2>5, <2>6 DEF Within
<1>2. RowKinds'
  <2>1. ASSUME NEW k \in DOMAIN rows PROVE /\ k[3] < 0 => graph[k[1]].fan > 1
                                           /\ rows'[k].work = "reject" => graph[k[1]].name = "review"
    BY DEF Narrows, RowsWithin, RowKinds, IsReview
  <2> QED
    BY <2>1 DEF Narrows, SameShape, RowKinds
<1>3. Phases' = Phases /\ \A p : Free(p)' = Free(p)
  BY FreeSame DEF Narrows, SameShape, Phases
<1> QED
  BY <1>1, <1>2, <1>3 DEF RowsWithin
-----------------------------------------------------------------------------
(* The writes of one row.                                                   *)

LEMMA OneRow ==
  ASSUME RowsInv, graph' = graph, NEW k \in DOMAIN rows, NEW row, rows' = [rows EXCEPT ![k] = row],
         row.st \in {"pending", "running", "awaiting"} => InFlight(k),
         rows[k].note # "none" => row.note # "none",
         row.work = "reject" => rows[k].work = "reject" \/ IsReview(k),
         row.st \in Gone => St(k) \in Gone \/ (Free(k[1]) => Room(k[1]))
  PROVE  Narrows /\ St(k)' = row.st /\ \A j \in DOMAIN rows : j # k => St(j)' = St(j)
<1>1. SameShape /\ rows'[k] = row /\ \A j \in DOMAIN rows : j # k => rows'[j] = rows[j]
  BY DEF SameShape
<1>2. St(k)' = row.st /\ \A j \in DOMAIN rows : j # k => St(j)' = St(j)
  BY <1>1 DEF St
<1>3. ASSUME NEW j \in DOMAIN rows
      PROVE  /\ InFlight(j)' => InFlight(j)
             /\ rows[j].note # "none" => rows'[j].note # "none"
             /\ rows'[j].work = "reject" => rows[j].work = "reject" \/ IsReview(j)
  BY <1>1, <1>2 DEF InFlight
<1>4. ASSUME NEW p \in Phases, Free(p), \A j \in Latest(p) : St(j)' \in Gone
      PROVE  Room(p) \/ \A j \in Latest(p) : St(j) \in Gone
  <2>1. \A j \in Latest(p) : j \in DOMAIN rows /\ j[1] = p
    BY InGroup DEF Latest
  <2>2. CASE k \in Latest(p)
    BY <1>2, <1>4, <2>1, <2>2
  <2>3. CASE k \notin Latest(p)
    BY <1>2, <1>4, <2>1, <2>3
  <2> QED
    BY <2>2, <2>3
<1> QED
  BY <1>1, <1>2, <1>3, <1>4 DEF Narrows

\* What a row's writes leave of it.
LEMMA RowParts ==
  ASSUME RowsInv, NEW k \in DOMAIN rows
  PROVE  /\ \A st : To(k, st).st = st /\ To(k, st).note = rows[k].note /\ To(k, st).work = rows[k].work
         /\ \A st, note : LET row == [To(k, st) EXCEPT !.note = note]
                          IN  row.st = st /\ row.note = note /\ row.work = rows[k].work
         /\ \A st, ans : LET row == [rows[k] EXCEPT !.st = st, !.ans = ans]
                         IN  row.st = st /\ row.note = rows[k].note /\ row.work = rows[k].work
         /\ \A work : LET row == [rows[k] EXCEPT !.work = work]
                      IN  row.st = St(k) /\ row.note = rows[k].note /\ row.work = work
         /\ \A merged : LET row == [rows[k] EXCEPT !.merged = merged]
                        IN  row.st = St(k) /\ row.note = rows[k].note /\ row.work = rows[k].work
<1>1. rows[k] \in Rows
  BY DEF RowsInv
<1> QED
  BY <1>1 DEF Rows, To, St

\* A row moves to a status that is not gone, from one it has in flight.
LEMMA RowMoves ==
  ASSUME RowsInv, graph' = graph, NEW k \in DOMAIN rows, InFlight(k), NEW row, rows' = [rows EXCEPT ![k] = row],
         row.st \notin Gone, row.note = rows[k].note \/ row.note # "none", row.work = rows[k].work
  PROVE  Narrows /\ St(k)' = row.st /\ \A j \in DOMAIN rows : j # k => St(j)' = St(j)
BY OneRow

LEMMA NoRow ==
  ASSUME graph' = graph, rows' = rows
  PROVE  Narrows
BY DEF Narrows, SameShape, InFlight, St

LEMMA NeedSame ==
  ASSUME graph' = graph, rows' = rows
  PROVE  \A i : Need(i)' = Need(i)
<1>1. /\ \A p : At(p)' = At(p) /\ Last(p)' = Last(p) /\ Free(p)' = Free(p)
      /\ \A p, a : Group(p, a)' = Group(p, a)
      /\ \A k : St(k)' = St(k) /\ InFlight(k)' = InFlight(k)
  BY ShapeSame, FreeSame DEF SameShape, St, InFlight
<1>2. ASSUME NEW p PROVE Room(p)' = Room(p) /\ AtRest(p)' = AtRest(p) /\ Budget(p)' = Budget(p) /\ Latest(p)' = Latest(p)
  BY <1>1 DEF Room, AtRest, Budget, Latest, Noted
<1>3. ASSUME NEW p, NEW a PROVE MayCreate(p, a)' = MayCreate(p, a) /\ MayReadmit(p)' = MayReadmit(p)
  BY <1>1, <1>2 DEF MayCreate, MayReadmit
<1>4. ASSUME NEW k PROVE PlainStep(k)' = PlainStep(k) /\ IsReview(k)' = IsReview(k) /\ RetryNeed(k)' = RetryNeed(k)
  BY <1>1, <1>2 DEF PlainStep, IsReview, RetryNeed
<1>5. ASSUME NEW i PROVE RetireNeed(i)' = RetireNeed(i) /\ CreateNeed(i)' = CreateNeed(i)
  BY <1>1, <1>2, <1>3 DEF RetireNeed, CreateNeed
<1> QED
  BY <1>1, <1>3, <1>4, <1>5 DEF Need

-----------------------------------------------------------------------------
(* What comes next finds what it needs.                                     *)

LEMMA NeedThen ==
  ASSUME ShapeInv, todo # <<>>, NEW i, Then(i), Need(i)'
  PROVE  NeedsMet'
<1>1. PICK t : t = Tail(todo)
  OBVIOUS
<1>2. IsBack(t)
  BY <1>1, TailFacts DEF ShapeInv
<1>3. todo' # <<>> /\ Head(todo') = i
  BY <1>1, <1>2, BackIsSeq DEF Then
<1>4. Need(Head(todo))'
  BY <1>3
<1> QED
  BY <1>4 DEF NeedsMet

LEMMA BackNeeds ==
  ASSUME NEW i, i.op = "pass" \/ i.op = "rederive" \/ i.op = "land"
  PROVE  Need(i)'
BY DEF Need

LEMMA NeedOver ==
  ASSUME ShapeInv, todo # <<>>, Over \/ Ends
  PROVE  NeedsMet'
<1>1. CASE Ends
  BY <1>1 DEF Ends, NeedsMet
<1>2. CASE Over
  <2>1. PICK t : t = Tail(todo)
    OBVIOUS
  <2>2. IsBack(t) /\ todo' = t
    BY <1>2, <2>1, TailFacts DEF ShapeInv, Over
  <2>3. SUFFICES ASSUME t # <<>> PROVE Need(Head(todo))'
    BY <2>2 DEF NeedsMet
  <2>4. PICK i : i = Head(t)
    OBVIOUS
  <2>5. i.op = "pass" \/ i.op = "rederive" \/ i.op = "land"
    BY <2>2, <2>3, <2>4, BackTails
  <2>6. Need(i)'
    BY <2>5, BackNeeds
  <2> QED
    BY <2>2, <2>4, <2>6
<1> QED
  BY <1>1, <1>2

\* The instructions that lead to no attempt.
LEMMA FreeNeeds ==
  ASSUME NEW i, i.op \in {"done", "recover", "settle", "resume", "finish", "block", "park_run", "fail", "park", "accept",
                          "merge", "rejection", "judge", "select", "refuse", "approve"}
  PROVE  Need(i)'
BY DEF Need

LEMMA RunNeeds ==
  /\ Need(ParkRun)' /\ Need(Escalate)' /\ \A x : Need(Finish(x))' /\ Need(Block(x))' /\ Need(FailRun(x))'
  /\ \A k, x : /\ Need(FailHard(k, x))' /\ Need(Park(k, x))' /\ Need(Select(k, x))' /\ Need(Refuse(k, x))'
               /\ Need(Unpark(k, "merge", x))' /\ Need(Unpark(k, "rejection", x))' /\ Need(Unpark(k, "settle", x))'
               /\ Need(Reject(k, "person"))'
  /\ \A k : \A op \in {"merge", "rejection", "settle", "judge", "accept", "resume", "approve"} : Need(I(op, k))'
  /\ \A k : k[3] = -1 => Need(I("start", k))' /\ Need(I("gate", k))' /\ Need(Reject(k, "walk"))'
<1>1. Need(ParkRun)' /\ Need(Escalate)' /\ \A x : Need(Finish(x))' /\ Need(Block(x))'
  BY FreeNeeds DEF ParkRun, Escalate, Finish, Block
<1>2. \A x : Need(FailRun(x))'
  BY <1>1 DEF FailRun
<1>3. ASSUME NEW k, NEW x PROVE Need(FailHard(k, x))' /\ Need(Park(k, x))' /\ Need(Select(k, x))' /\ Need(Refuse(k, x))'
  BY FreeNeeds DEF FailHard, Park, Select, Refuse
<1>4. ASSUME NEW k, NEW x PROVE Need(Unpark(k, "merge", x))' /\ Need(Unpark(k, "rejection", x))' /\ Need(Unpark(k, "settle", x))'
  BY DEF Need, Unpark
<1>5. ASSUME NEW k PROVE Need(Reject(k, "person"))'
  BY DEF Need, Reject
<1>6. ASSUME NEW k, NEW op \in {"merge", "rejection", "settle", "judge", "accept", "resume", "approve"} PROVE Need(I(op, k))'
  BY FreeNeeds DEF I
<1>7. ASSUME NEW k, k[3] = -1 PROVE Need(I("start", k))' /\ Need(I("gate", k))' /\ Need(Reject(k, "walk"))'
  BY <1>7 DEF Need, I, Reject
<1> QED
  BY <1>1, <1>2, <1>3, <1>4, <1>5, <1>6, <1>7

-----------------------------------------------------------------------------
(* What a step of the walk starts from, and the three ways it goes on.      *)

LEMMA Begins ==
  ASSUME ShapeInv, BudgetAt, NEW op, Doing(op)
  PROVE  /\ RowsInv /\ graph \in Graphs /\ RowsWithin /\ RowKinds /\ Need(Now)
         /\ todo # <<>> /\ Now.op = op /\ IsBack(Tail(todo))
<1>1. todo # <<>> /\ Now.op = op
  BY DEF Doing, Now
<1> QED
  BY <1>1, TailFacts DEF BudgetAt, RowsWithin, NeedsMet, ShapeInv, Counters, Now

LEMMA DecidesNarrows ==
  ASSUME Decides
  PROVE  Narrows /\ graph' = graph /\ rows' = rows
BY NoRow DEF Decides, rowVars

LEMMA ThenSpares ==
  ASSUME ShapeInv, todo # <<>>, Narrows, NEW i, Then(i), Need(i)'
  PROVE  Spares
BY NeedThen DEF Spares

LEMMA OverSpares ==
  ASSUME ShapeInv, todo # <<>>, Narrows, Over \/ Ends
  PROVE  Spares
BY NeedOver DEF Spares

\* An instruction's row moves and the next instruction finds what it needs, or the walk ends.
LEMMA MovesSpares ==
  ASSUME ShapeInv, todo # <<>>, NEW k \in DOMAIN rows, NEW from, from \in {"pending", "running", "awaiting"}, NEW row,
         row.st \notin Gone, row.note = rows[k].note, row.work = rows[k].work,
         NEW next, Moves(k, from, row, next), St(k)' = row.st /\ Narrows => Need(next)'
  PROVE  Spares
<1>1. RowsInv /\ graph' = graph
  BY DEF ShapeInv, Moves, WritesRows
<1>2. CASE St(k) = from /\ rows' = [rows EXCEPT ![k] = row] /\ Then(next)
  <2>1. InFlight(k)
    BY <1>2 DEF InFlight
  <2>2. Narrows /\ St(k)' = row.st
    BY <1>1, <1>2, <2>1, RowMoves
  <2> QED
    BY <1>2, <2>2, ThenSpares
<1>3. CASE rows' = rows /\ Ends
  BY <1>1, <1>3, NoRow, OverSpares
<1> QED
  BY <1>2, <1>3 DEF Moves

-----------------------------------------------------------------------------
(* The attempts that are asked for.                                         *)

\* A plain step's latest attempt is the only row of it.
LEMMA SoleLatest ==
  ASSUME RowsInv, graph \in Graphs, NEW k \in DOMAIN rows, PlainStep(k), k[2] = Last(k[1]), NEW j \in Latest(k[1])
  PROVE  j = k
<1>1. j \in DOMAIN rows /\ j[1] = k[1] /\ j[2] = k[2] /\ j[3] >= 0
  BY InGroup DEF Latest
<1>2. graph[k[1]].fan = 1 /\ k[3] >= 0
  BY DEF PlainStep
<1>3. j[3] \in -1..0 /\ k[3] \in -1..0
  BY <1>1, <1>2, KeyFacts
<1>4. j[3] = k[3]
  BY <1>1, <1>2, <1>3
<1> QED
  BY <1>1, <1>4, KeyFacts

LEMMA CreateNeeds ==
  ASSUME NEW p, NEW a, MayCreate(p, a)'
  PROVE  Need(Admit(p, a))' /\ Need(I("fan", <<p, a, 0>>))' /\ \A x : Need(Unpark(<<p, a, 0>>, "admit", x))'
<1>1. PICK k : k = <<p, a, 0>>
  OBVIOUS
<1>2. k[1] = p /\ k[2] = a
  BY <1>1
<1>3. Need(I("admit", k))' /\ Need(I("fan", k))'
  BY <1>2 DEF Need, I
<1>4. \A x : Need(Unpark(k, "admit", x))'
  BY <1>2 DEF Need, Unpark
<1> QED
  BY <1>1, <1>3, <1>4 DEF Admit

\* The next attempt of a plain step that its budget allows, once the step is out of flight.
LEMMA NextMay ==
  ASSUME RowsInv, graph \in Graphs, RowsWithin, Narrows, NEW k \in DOMAIN rows, PlainStep(k),
         k[2] = Last(k[1]) \/ InFlight(k), ~ InFlight(k)', MayAttempt(k[1], k[2] + 1)
  PROVE  Need(Admit(k[1], k[2] + 1))'
<1>1. PICK p : p = k[1]
  OBVIOUS
<1>2. p \in Phases /\ k[2] \in Nat /\ k \in At(p) /\ k[2] <= Last(p) /\ Last(p) \in Nat
  BY <1>1, KeyFacts
<1>3. /\ Last(p)' = Last(p) /\ Latest(p)' = Latest(p) /\ Free(p)' = Free(p)
      /\ Budget(p) \in Nat /\ Budget(p)' \in Nat /\ Budget(p) <= Budget(p)'
  BY <1>2, NarrowsFacts
<1>4. k[2] + 1 <= Budget(p)
  <2>1. k[2] + 1 \in Nat
    BY <1>2
  <2> QED
    BY <1>1, <1>2, <2>1, BudgetFacts
<1>5. ASSUME Free(p) PROVE Last(p) <= k[2] + 1 /\ (k[2] + 1 > Last(p) => AtRest(p)')
  <2>1. k[2] = Last(p)
    BY <1>1, <1>2, <1>5 DEF RowsWithin, Within, PlainStep
  <2>2. \A j \in Latest(p) : j = k
    BY <1>1, <2>1, SoleLatest
  <2>3. AtRest(p)'
    BY <1>3, <2>2 DEF AtRest
  <2> QED
    BY <1>2, <2>1, <2>3
<1>6. MayCreate(p, k[2] + 1)'
  BY <1>2, <1>3, <1>4, <1>5 DEF MayCreate
<1> QED
  BY <1>1, <1>6, CreateNeeds

LEMMA RejectionNeed ==
  ASSUME graph' = graph, NEW k, NEW i, i = Rejection(k)
  PROVE  Need(i)'
<1>1. IsReview(k) => Need(I("loop", k))'
  BY DEF Need, I, IsReview
<1> QED
  BY <1>1, RunNeeds DEF Rejection, IsReview

\* Where the walk rests on a failed row: the latest attempt of a plain step.
LEMMA RestsFailedAt ==
  ASSUME ShapeInv, RowKinds, RestsFailed
  PROVE  /\ Cursor.key \in DOMAIN rows /\ PlainStep(Cursor.key) /\ St(Cursor.key) = "failed"
         /\ Cursor.key[2] = Last(Cursor.key[1])
<1>1. RowsInv /\ graph \in Graphs
  BY DEF ShapeInv, Counters
<1>2. PICK k : k = Cursor.key
  OBVIOUS
<1>3. k \in DOMAIN rows /\ FailedPre(k)
  BY <1>1, <1>2, RestsFailedIs
<1>4. graph[k[1]].fan = 1 /\ k[3] \in Int
  BY <1>1, <1>3, KeyFacts DEF FailedPre, Plain
<1>5. k[3] >= 0
  BY <1>3, <1>4 DEF RowKinds
<1> QED
  BY <1>2, <1>3, <1>4, <1>5 DEF FailedPre, PlainStep

LEMMA SettleNeed ==
  ASSUME ShapeInv, RowsWithin, Decides, RestsFailed, NEW i, i = SettleFailed(Cursor.key)
  PROVE  Need(i)'
<1>1. RowsInv /\ graph \in Graphs /\ RowKinds /\ Narrows /\ graph' = graph /\ rows' = rows
  BY DecidesNarrows DEF ShapeInv, Counters, RowsWithin
<1>2. PICK k : k = Cursor.key
  OBVIOUS
<1>3. k \in DOMAIN rows /\ PlainStep(k) /\ St(k) = "failed" /\ k[2] = Last(k[1])
  BY <1>1, <1>2, RestsFailedAt
<1>4. ~ InFlight(k)'
  BY <1>1, <1>3 DEF InFlight, St
<1>5. MayAttempt(k[1], k[2] + 1) => Need(Admit(k[1], k[2] + 1))'
  BY <1>1, <1>3, <1>4, NextMay
<1>6. PICK r : r = Rejection(k)
  OBVIOUS
<1>7. Need(r)'
  BY <1>1, <1>6, RejectionNeed
<1> QED
  BY <1>2, <1>5, <1>6, <1>7, RunNeeds DEF SettleFailed

LEMMA CursorNeed ==
  ASSUME ShapeInv, RowsWithin, Decides, Cursor.op \notin {"done", "rest"}, NEW i, i = Cursor
  PROVE  Need(i)'
<1>1. RowsInv /\ graph \in Graphs /\ Narrows /\ graph' = graph /\ rows' = rows
  BY DecidesNarrows DEF ShapeInv, Counters
<1>2. PICK p : p = i.key[1]
  OBVIOUS
<1>3. PICK k : k = <<p, Last(p), 0>>
  OBVIOUS
<1>4. /\ p \in Phases
      /\ \/ i = Admit(p, Last(p) + 1) /\ \A j \in Latest(p) : St(j) \in Gone
         \/ graph[p].fan = 1 /\ i = I("start", k)
         \/ graph[p].fan > 1 /\ i = I("choose", k)
         \/ graph[p].fan > 1 /\ i = I("fan", k)
  <2>1. i # I("done", <<0, 0, 0>>) /\ (i = I(IF St(k) = "pending" THEN "start" ELSE "rest", k) => i = I("start", k))
    BY DEF I
  <2>2. p \in Phases
    BY <1>1, <1>2, <2>1, CursorFacts
  <2>3. \/ i = Admit(p, Last(p) + 1) /\ \A j \in Group(p, Last(p)) : St(j) \in Gone
        \/ graph[p].fan = 1 /\ i = I("start", k)
        \/ graph[p].fan > 1 /\ i = I("choose", k)
        \/ graph[p].fan > 1 /\ i = I("fan", k)
    BY <1>1, <1>2, <1>3, <2>1, CursorFacts
  <2> QED
    BY <2>2, <2>3 DEF Latest
<1>5. Last(p) \in Nat /\ Budget(p) \in Nat /\ k[1] = p /\ k[2] = Last(p) /\ k[3] = 0
  BY <1>1, <1>3, <1>4, BudgetFacts
<1>6. Free(p) => Within(p)
  BY <1>4 DEF RowsWithin
<1>7. CASE i = Admit(p, Last(p) + 1) /\ \A j \in Latest(p) : St(j) \in Gone
  <2>1. Free(p) => Room(p) /\ AtRest(p)
    BY <1>6, <1>7 DEF Within, AtRest, InFlight, Gone
  <2>2. MayCreate(p, Last(p) + 1)
    BY <1>5, <2>1 DEF MayCreate, Room
  <2>3. Need(Admit(p, Last(p) + 1))
    <3>1. PICK n : n = I("admit", <<p, Last(p) + 1, 0>>)
      OBVIOUS
    <3>2. n.op = "admit" /\ n.key[1] = p /\ n.key[2] = Last(p) + 1
      BY <3>1 DEF I
    <3>3. Need(n)
      BY <2>2, <3>2 DEF Need
    <3> QED
      BY <3>1, <3>3 DEF Admit
  <2>4. Need(i)
    BY <1>7, <2>3
  <2> QED
    BY <1>1, <2>4, NeedSame
<1>8. CASE graph[p].fan = 1 /\ i = I("start", k)
  <2>1. Need(i)
    BY <1>5, <1>8 DEF Need, I, PlainStep
  <2> QED
    BY <1>1, <2>1, NeedSame
<1>9. CASE graph[p].fan > 1 /\ i = I("choose", k)
  <2>1. Need(i)
    BY <1>5, <1>9 DEF Need, I
  <2> QED
    BY <1>1, <2>1, NeedSame
<1>10. CASE graph[p].fan > 1 /\ i = I("fan", k)
  <2>1. MayCreate(p, Last(p))
    BY <1>5, <1>6 DEF MayCreate, Within
  <2>2. Need(i)
    BY <1>5, <1>10, <2>1 DEF Need, I
  <2> QED
    BY <1>1, <2>2, NeedSame
<1> QED
  BY <1>4, <1>7, <1>8, <1>9, <1>10

-----------------------------------------------------------------------------
(* The walk of a plain step.                                                *)

LEMMA PassesSpares == ASSUME ShapeInv, BudgetAt, Passes PROVE Spares
<1>1. /\ RowsInv /\ graph \in Graphs /\ RowsWithin /\ todo # <<>> /\ Now.op = "pass" /\ Decides /\ Narrows
  BY Begins, DecidesNarrows DEF Passes
<1>2. IsBack(todo)
  <2>1. ~ IsInstr(Head(todo))
    BY <1>1 DEF IsInstr, RowOps, SlotOps, KeysOps, OtherOps, Now
  <2> QED
    BY <2>1 DEF ShapeInv, TodoInv
<1>3. ASSUME NEW i, Need(i)', todo' = <<i>> \o todo PROVE Spares
  <2>1. PICK t : t = todo
    OBVIOUS
  <2>2. todo' # <<>> /\ Head(todo') = i
    BY <1>2, <1>3, <2>1, BackIsSeq
  <2>3. Need(Head(todo))'
    BY <1>3, <2>2
  <2> QED
    BY <1>1, <2>3 DEF Spares, NeedsMet
<1>4. CASE todo' = <<Finish("done")>> \o todo
  BY <1>3, <1>4, RunNeeds
<1>5. CASE RestsFailed /\ todo' = <<SettleFailed(Cursor.key)>> \o todo
  <2>1. PICK i : i = SettleFailed(Cursor.key)
    OBVIOUS
  <2>2. Need(i)'
    BY <1>1, <1>5, <2>1, SettleNeed
  <2> QED
    BY <1>3, <1>5, <2>1, <2>2
<1>6. CASE Cursor.op \notin {"done", "rest"} /\ todo' = <<Cursor>> \o todo
  <2>1. PICK i : i = Cursor
    OBVIOUS
  <2>2. Need(i)'
    BY <1>1, <1>6, <2>1, CursorNeed
  <2> QED
    BY <1>3, <1>6, <2>1, <2>2
<1>7. CASE Ends
  BY <1>1, <1>7, OverSpares
<1> QED
  BY <1>4, <1>5, <1>6, <1>7 DEF Passes

LEMMA AdmitsSpares == ASSUME ShapeInv, BudgetAt, Admits PROVE Spares
<1>1. todo # <<>> /\ Need(Now) /\ Now.op = "admit" /\ Decides /\ Narrows /\ graph' = graph /\ rows' = rows
  BY Begins, DecidesNarrows DEF Admits
<1> DEFINE p == Now.key[1]  a == Now.key[2]
<1>2. PICK i : i = Create(Slot(p, a), Now.key, "none")
  OBVIOUS
<1>3. Need(i)
  <2>1. i.op = "create" /\ i.key = Now.key /\ i.keys = Slot(p, a) /\ i.then = "none"
    BY <1>2 DEF Create
  <2>2. \A k \in Slot(p, a) : k[1] = p /\ k[2] = a /\ ~ (k[3] < 0)
    BY DEF Slot
  <2>3. MayCreate(p, a)
    BY <1>1 DEF Need
  <2>4. CreateNeed(i)
    BY <2>1, <2>2, <2>3 DEF CreateNeed
  <2> QED
    BY <2>1, <2>4 DEF Need
<1>4. Need(i)'
  BY <1>1, <1>3, NeedSame
<1> QED
  BY <1>1, <1>2, <1>4, RunNeeds, ThenSpares DEF Admits

LEMMA StartsSpares == ASSUME ShapeInv, BudgetAt, Starts PROVE Spares
<1> PICK k : k = Now.key
  OBVIOUS
<1>1. /\ RowsInv /\ todo # <<>> /\ Need(Now) /\ Now.op = "start" /\ graph' = graph
      /\ Moves(k, "pending", To(k, "running"), I(IF k[3] < 0 THEN "judge" ELSE "session", k))
  BY Begins DEF Starts, Moves, WritesRows
<1>2. k \in DOMAIN rows
  BY DoingFacts DEF Starts, RowOps, AllOps
<1>3. k[3] \in Int
  BY <1>1, <1>2, KeyFacts
<1>4. PICK i : i = I(IF k[3] < 0 THEN "judge" ELSE "session", k)
  OBVIOUS
<1>5. Need(i)'
  <2>1. CASE k[3] < 0
    BY <1>4, <2>1, RunNeeds
  <2>2. CASE k[3] >= 0
    <3>1. i = I("session", k)
      BY <1>3, <1>4, <2>2
    <3>2. PlainStep(k)'
      BY <1>1, <2>2 DEF Need, PlainStep
    <3> QED
      BY <3>1, <3>2 DEF Need, I
  <2> QED
    BY <1>3, <2>1, <2>2
<1>6. To(k, "running").st = "running" /\ To(k, "running").note = rows[k].note /\ To(k, "running").work = rows[k].work
  BY <1>1, <1>2, RowParts
<1>7. To(k, "running").st \notin Gone
  BY <1>6 DEF Gone
<1> QED
  BY <1>1, <1>2, <1>4, <1>5, <1>6, <1>7, MovesSpares

\* Where a settled session leads to: a failure spends an attempt of a plain step, and a review
\* alone is rejected by itself.
LEMMA AppliedNeed ==
  ASSUME RowsInv, graph \in Graphs, graph' = graph, NEW k \in DOMAIN rows, PlainStep(k),
         NEW verdict \in Works \ {"none"}, verdict = "reject" => IsReview(k), NEW miss,
         NEW i, i = Applied(k, verdict, miss)
  PROVE  Need(i)'
<1> DEFINE gate == graph[k[1]].gate
<1>1. gate \in Gates
  BY GraphFacts, KeyFacts
<1>2. PlainStep(k)' /\ (IsReview(k) => IsReview(k)')
  BY DEF PlainStep, IsReview
<1>3. Need(Park(k, miss))' /\ Need(I("accept", k))'
  BY RunNeeds
<1>4. Need(I("spend", k))' /\ (IsReview(k) => Need(I("gate", k))')
  BY <1>2 DEF Need, I
<1>5. CASE gate = "always" \/ (gate = "on_failure" /\ verdict # "ok")
  BY <1>3, <1>5 DEF Applied
<1>6. CASE gate # "always" /\ verdict = "ok"
  BY <1>3, <1>6 DEF Applied
<1>7. CASE gate = "never" /\ verdict = "fail"
  BY <1>4, <1>7 DEF Applied
<1>8. CASE gate = "never" /\ verdict = "reject"
  BY <1>4, <1>8 DEF Applied
<1> QED
  BY <1>1, <1>5, <1>6, <1>7, <1>8 DEF Gates, Works

LEMMA SessionsSpares == ASSUME ShapeInv, BudgetAt, Sessions PROVE Spares
<1> PICK k : k = Now.key
  OBVIOUS
<1>1. RowsInv /\ graph \in Graphs /\ todo # <<>> /\ Need(Now) /\ Now.op = "session" /\ graph' = graph
  BY Begins DEF Sessions, WritesRows
<1>2. k \in DOMAIN rows /\ PlainStep(k)
  <2>1. k \in DOMAIN rows
    BY DoingFacts DEF Sessions, RowOps, AllOps
  <2> QED
    BY <1>1, <2>1 DEF Need
<1>3. ASSUME NEW block, rows' = rows, Then(FailHard(k, block)) PROVE Spares
  BY <1>1, <1>3, NoRow, RunNeeds, ThenSpares
<1>4. ASSUME NEW work \in IF graph[k[1]].name = "review" THEN Works ELSE Works \ {"reject"},
             NEW verdict \in {work, "fail"} \ {"none"},
             rows' = [rows EXCEPT ![k].work = work], Then(Applied(k, verdict, "fail"))
      PROVE  Spares
  <2>1. work \in Works /\ (work = "reject" => IsReview(k))
    BY <1>4 DEF IsReview, Works
  <2>2. verdict \in Works \ {"none"} /\ (verdict = "reject" => IsReview(k))
    BY <1>4, <2>1 DEF Works
  <2>3. PICK row : row = [rows[k] EXCEPT !.work = work]
    OBVIOUS
  <2>4. rows' = [rows EXCEPT ![k] = row] /\ row.st = St(k) /\ row.note = rows[k].note /\ row.work = work
    BY <1>1, <1>2, <1>4, <2>3, RowParts
  <2>5. Narrows
    BY <1>1, <1>2, <2>1, <2>4, OneRow DEF InFlight
  <2>6. PICK i : i = Applied(k, verdict, "fail")
    OBVIOUS
  <2>7. Need(i)'
    BY <1>1, <1>2, <2>2, <2>6, AppliedNeed
  <2> QED
    BY <1>1, <1>4, <2>5, <2>6, <2>7, ThenSpares
<1> QED
  BY <1>3, <1>4 DEF Sessions

LEMMA ParksSpares == ASSUME ShapeInv, BudgetAt, Parks PROVE Spares
<1> PICK k : k = Now.key
  OBVIOUS
<1>1. RowsInv /\ todo # <<>> /\ graph' = graph
  BY Begins DEF Parks
<1>2. k \in DOMAIN rows
  BY DoingFacts DEF Parks, RowOps, AllOps
<1>3. CASE St(k) = "running" /\ rows' = [rows EXCEPT ![k] = To(k, "awaiting")] /\ Ends
  <2>1. PICK row : row = To(k, "awaiting")
    OBVIOUS
  <2>2. row.st = "awaiting" /\ row.note = rows[k].note /\ row.work = rows[k].work
    BY <1>1, <1>2, <2>1, RowParts
  <2>3. Narrows
    BY <1>1, <1>2, <1>3, <2>1, <2>2, RowMoves DEF InFlight, Gone
  <2> QED
    BY <1>1, <1>3, <2>3, OverSpares
<1>4. CASE rows' = rows /\ (Then(FailHard(k, FALSE)) \/ Ends)
  BY <1>1, <1>4, NoRow, RunNeeds, ThenSpares, OverSpares
<1> QED
  BY <1>3, <1>4 DEF Parks

LEMMA AcceptsSpares == ASSUME ShapeInv, BudgetAt, Accepts PROVE Spares
<1> PICK k : k = Now.key
  OBVIOUS
<1> PICK row : row = [rows[k] EXCEPT !.st = "done", !.ans = "skipped"]
  OBVIOUS
<1>1. RowsInv /\ todo # <<>> /\ Moves(k, "running", row, I("merge", k))
  BY Begins DEF Accepts
<1>2. k \in DOMAIN rows
  BY DoingFacts DEF Accepts, RowOps, AllOps
<1>3. row.st = "done" /\ row.note = rows[k].note /\ row.work = rows[k].work
  BY <1>1, <1>2, RowParts
<1>4. row.st \notin Gone
  BY <1>3 DEF Gone
<1>5. PICK i : i = I("merge", k)
  OBVIOUS
<1>6. Need(i)'
  BY <1>5, RunNeeds
<1> QED
  BY <1>1, <1>2, <1>3, <1>4, <1>5, <1>6, MovesSpares

LEMMA FailsHardSpares == ASSUME ShapeInv, BudgetAt, FailsHard PROVE Spares
<1> PICK k : k = Now.key
  OBVIOUS
<1> PICK row : row = To(k, "failed")
  OBVIOUS
<1> PICK i : i = FailRun(Now.block)
  OBVIOUS
<1>1. RowsInv /\ todo # <<>> /\ Moves(k, "running", row, i)
  BY Begins DEF FailsHard
<1>2. k \in DOMAIN rows
  BY DoingFacts DEF FailsHard, RowOps, AllOps
<1>3. row.st = "failed" /\ row.note = rows[k].note /\ row.work = rows[k].work
  BY <1>1, <1>2, RowParts
<1>4. row.st \notin Gone
  BY <1>3 DEF Gone
<1>5. Need(i)'
  <2>1. PICK x : x = Now.block
    OBVIOUS
  <2> QED
    BY <2>1, RunNeeds
<1> QED
  BY <1>1, <1>2, <1>3, <1>4, <1>5, MovesSpares

LEMMA SpendsSpares == ASSUME ShapeInv, BudgetAt, Spends PROVE Spares
<1> PICK k : k = Now.key
  OBVIOUS
<1> PICK row : row = To(k, "failed")
  OBVIOUS
<1>1. /\ RowsInv /\ graph \in Graphs /\ RowsWithin /\ todo # <<>> /\ Need(Now) /\ Now.op = "spend" /\ graph' = graph
      /\ Moves(k, "running", row, IF MayAttempt(k[1], k[2] + 1) THEN Admit(k[1], k[2] + 1) ELSE Finish("failed"))
  BY Begins DEF Spends, Moves, WritesRows
<1>2. k \in DOMAIN rows /\ PlainStep(k)
  <2>1. k \in DOMAIN rows
    BY DoingFacts DEF Spends, RowOps, AllOps
  <2> QED
    BY <1>1, <2>1 DEF Need
<1>3. row.st = "failed" /\ row.note = rows[k].note /\ row.work = rows[k].work
  BY <1>1, <1>2, RowParts
<1>4. CASE rows' = rows /\ Ends
  BY <1>1, <1>4, NoRow, OverSpares
<1>5. CASE /\ St(k) = "running" /\ rows' = [rows EXCEPT ![k] = row]
           /\ Then(IF MayAttempt(k[1], k[2] + 1) THEN Admit(k[1], k[2] + 1) ELSE Finish("failed"))
  <2>1. InFlight(k)
    BY <1>5 DEF InFlight
  <2>2. Narrows /\ St(k)' = "failed"
    BY <1>1, <1>2, <1>3, <1>5, <2>1, RowMoves DEF Gone
  <2>3. ~ InFlight(k)'
    BY <2>2 DEF InFlight
  <2>4. MayAttempt(k[1], k[2] + 1) => Need(Admit(k[1], k[2] + 1))'
    BY <1>1, <1>2, <2>1, <2>2, <2>3, NextMay
  <2>5. PICK i : i = IF MayAttempt(k[1], k[2] + 1) THEN Admit(k[1], k[2] + 1) ELSE Finish("failed")
    OBVIOUS
  <2>6. Need(i)'
    BY <2>4, <2>5, RunNeeds
  <2> QED
    BY <1>1, <1>5, <2>2, <2>5, <2>6, ThenSpares
<1> QED
  BY <1>1, <1>4, <1>5 DEF Moves

\* A rejection nobody is asked about: a review's, or a judge's.
LEMMA GatesItselfSpares == ASSUME ShapeInv, BudgetAt, GatesItself PROVE Spares
<1> PICK k : k = Now.key
  OBVIOUS
<1> PICK row : row = To(k, "awaiting")
  OBVIOUS
<1> PICK i : i = Reject(k, "walk")
  OBVIOUS
<1>1. /\ RowsInv /\ graph \in Graphs /\ todo # <<>> /\ Need(Now) /\ Now.op = "gate" /\ graph' = graph
      /\ Moves(k, "running", row, i)
  BY Begins DEF GatesItself, Moves, WritesRows
<1>2. k \in DOMAIN rows
  BY DoingFacts DEF GatesItself, RowOps, AllOps
<1>3. row.st = "awaiting" /\ row.note = rows[k].note /\ row.work = rows[k].work
  BY <1>1, <1>2, RowParts
<1>4. row.st \notin Gone
  BY <1>3 DEF Gone
<1>5. k[3] >= 0 => IsReview(k)'
  BY <1>1 DEF Need, IsReview
<1>6. Need(i)'
  BY <1>5 DEF Need, Reject
<1> QED
  BY <1>1, <1>2, <1>3, <1>4, <1>6, MovesSpares

LEMMA RejectsRowSpares == ASSUME ShapeInv, BudgetAt, RejectsRow PROVE Spares
<1> PICK k : k = Now.key
  OBVIOUS
<1> PICK row : row = [rows[k] EXCEPT !.st = "failed", !.ans = "rejected"]
  OBVIOUS
<1> PICK i : i = IF Now.by = "person" THEN Unpark(k, "rejection", FALSE) ELSE IF k[3] < 0 THEN ParkRun ELSE I("loop", k)
  OBVIOUS
<1>1. /\ RowsInv /\ graph \in Graphs /\ todo # <<>> /\ Need(Now) /\ Now.op = "reject" /\ graph' = graph
      /\ Moves(k, "awaiting", row, i)
  BY Begins DEF RejectsRow, Moves, WritesRows
<1>2. k \in DOMAIN rows /\ k[3] \in Int
  <2>1. k \in DOMAIN rows
    BY DoingFacts DEF RejectsRow, RowOps, AllOps
  <2> QED
    BY <1>1, <2>1, KeyFacts
<1>3. row.st = "failed" /\ row.note = rows[k].note /\ row.work = rows[k].work
  BY <1>1, <1>2, RowParts
<1>4. row.st \notin Gone
  BY <1>3 DEF Gone
<1>5. Now.by # "person" /\ k[3] >= 0 => IsReview(k)
  BY <1>1 DEF Need
<1>6. IsReview(k) => Need(I("loop", k))'
  BY <1>1 DEF Need, I, IsReview
<1>7. Need(i)'
  <2>1. CASE Now.by = "person"
    <3>1. i = Unpark(k, "rejection", FALSE)
      BY <2>1
    <3> QED
      BY <3>1, RunNeeds
  <2>2. CASE Now.by # "person" /\ k[3] < 0
    <3>1. i = ParkRun
      BY <2>2
    <3> QED
      BY <3>1, RunNeeds
  <2>3. CASE Now.by # "person" /\ ~ (k[3] < 0)
    <3>1. i = I("loop", k)
      BY <2>3, Zenon
    <3>2. k[3] >= 0
      BY <1>2, <2>3
    <3> QED
      BY <1>5, <1>6, <2>3, <3>1, <3>2
  <2> QED
    BY <2>1, <2>2, <2>3
<1> QED
  BY <1>1, <1>2, <1>3, <1>4, <1>7, MovesSpares

LEMMA MergesSpares == ASSUME ShapeInv, BudgetAt, Merges PROVE Spares
<1> PICK k : k = Now.key
  OBVIOUS
<1>1. RowsInv /\ todo # <<>> /\ graph' = graph
  BY Begins DEF Merges, WritesRows
<1>2. k \in DOMAIN rows
  BY DoingFacts DEF Merges, RowOps, AllOps
<1>3. CASE rows' = [rows EXCEPT ![k].merged = TRUE] /\ Over
  <2>1. PICK row : row = [rows[k] EXCEPT !.merged = TRUE]
    OBVIOUS
  <2>2. rows' = [rows EXCEPT ![k] = row] /\ row.st = St(k) /\ row.note = rows[k].note /\ row.work = rows[k].work
    BY <1>1, <1>2, <1>3, <2>1, RowParts
  <2>3. Narrows
    BY <1>1, <1>2, <2>2, OneRow DEF InFlight
  <2> QED
    BY <1>1, <1>3, <2>3, OverSpares
<1>4. CASE rows' = rows /\ Then(ParkRun)
  BY <1>1, <1>4, NoRow, RunNeeds, ThenSpares
<1> QED
  BY <1>3, <1>4 DEF Merges

LEMMA ParksRunSpares == ASSUME ShapeInv, BudgetAt, ParksRun PROVE Spares
<1>1. todo # <<>> /\ Narrows
  BY Begins, NoRow DEF ParksRun
<1> QED
  BY <1>1, RunNeeds, ThenSpares, OverSpares DEF ParksRun

LEMMA FinishesSpares == ASSUME ShapeInv, BudgetAt, Finishes PROVE Spares
<1>1. todo # <<>> /\ Narrows
  BY Begins, NoRow DEF Finishes
<1> QED
  BY <1>1, OverSpares DEF Finishes

LEMMA BlocksSpares == ASSUME ShapeInv, BudgetAt, Blocks PROVE Spares
<1>1. todo # <<>> /\ Narrows
  BY Begins, NoRow DEF Blocks
<1> QED
  BY <1>1, RunNeeds, ThenSpares, OverSpares DEF Blocks

\* A rejected review sends back its target, which has an attempt left, and what is between the
\* two, which is in its loop.
LEMMA LoopsSpares == ASSUME ShapeInv, BudgetAt, Loops PROVE Spares
<1> PICK k : k = Now.key
  OBVIOUS
<1>1. /\ RowsInv /\ graph \in Graphs /\ todo # <<>> /\ Need(Now) /\ Now.op = "loop"
      /\ Narrows /\ graph' = graph /\ rows' = rows
  BY Begins, DecidesNarrows DEF Loops
<1>2. k \in DOMAIN rows /\ k[1] \in Phases
  <2>1. k \in DOMAIN rows
    BY DoingFacts DEF Loops, RowOps, AllOps
  <2> QED
    BY <1>1, <2>1, KeyFacts
<1> PICK p : p = k[1]
  OBVIOUS
<1> PICK t : t = Target(p)
  OBVIOUS
<1>3. graph[p].name = "review" /\ p \in Phases
  BY <1>1, <1>2 DEF Need, IsReview
<1>4. CASE Then(Finish("failed")) \/ Then(Escalate)
  BY <1>1, <1>4, RunNeeds, ThenSpares
<1>5. CASE Last(t) > 0 /\ MayAttempt(t, Last(t) + 1) /\ Then(Retire(k, t..p, "none"))
  <2>0. t \in Phases
    <3>1. PICK j \in At(t) : TRUE
      <4>1. Last(t) # 0
        BY <1>1, <1>5, LastFacts
      <4> QED
        BY <1>1, <4>1, LastFacts
    <3> QED
      BY <1>1, <3>1, KeyFacts DEF At
  <2>1. PICK i : i = Retire(k, t..p, "none")
    OBVIOUS
  <2>2. /\ i.op = "retire" /\ i.then = "none"
        /\ \A j \in i.keys : j \in DOMAIN rows /\ j[1] \in t..p
    BY <2>1 DEF Retire
  <2>3. ASSUME NEW j \in i.keys, Free(j[1]) PROVE Room(j[1])
    <3>1. j[1] \in Phases /\ j[1] \in t..p /\ j[1] \in Nat /\ p \in Nat /\ t \in Nat
      BY <1>1, <1>3, <2>0, <2>2, KeyFacts, GraphFacts
    <3>2. CASE j[1] = t
      <4>1. Last(t) \in Nat /\ Last(t) + 1 \in Nat /\ Budget(t) \in Nat
        BY <1>1, <3>1, <3>2, BudgetFacts
      <4>2. Last(t) + 1 <= Budget(t)
        BY <1>1, <1>5, <3>1, <3>2, <4>1, BudgetFacts
      <4> QED
        BY <3>2, <4>1, <4>2 DEF Room
    <3>3. CASE j[1] # t
      <4>1. t < j[1] /\ j[1] <= p
        BY <3>1, <3>3
      <4>2. InLoop(j[1])
        BY <1>3, <4>1 DEF InLoop
      <4> QED
        BY <2>3, <4>2 DEF Free
    <3> QED
      BY <3>2, <3>3
  <2>4. RetireNeed(i)
    BY <2>2, <2>3 DEF RetireNeed
  <2>5. Need(i)
    BY <2>2, <2>4 DEF Need
  <2>6. Need(i)'
    BY <1>1, <2>5, NeedSame
  <2> QED
    BY <1>1, <1>5, <2>1, <2>6, ThenSpares
<1>6. Then(Finish("failed")) \/ Then(Escalate) 
      \/ (Last(t) > 0 /\ MayAttempt(t, Last(t) + 1) /\ Then(Retire(k, t..p, "none")))
  <2>1. PICK a : a = IF t > 0 THEN Last(t) ELSE 0
    OBVIOUS
  <2>2. \/ a = 0 /\ Then(Finish("failed"))
        \/ a > 0 /\ Then(Escalate)
        \/ a > 0 /\ MayAttempt(t, a + 1) /\ Then(Retire(k, t..p, "none"))
    BY <2>1 DEF Loops
  <2>3. a > 0 => t > 0 /\ a = Last(t)
    <3>1. CASE t > 0
      BY <2>1, <3>1
    <3>2. CASE ~ (t > 0)
      BY <2>1, <3>2
    <3> QED
      BY <3>1, <3>2
  <2> QED
    BY <2>2, <2>3
<1> QED
  BY <1>4, <1>5, <1>6

\* One row of a retirement is retired: its phase had room for the next attempt.
LEMMA RetiresSpares == ASSUME ShapeInv, BudgetAt, Retires PROVE Spares
<1>1. /\ RowsInv /\ graph \in Graphs /\ RowsWithin /\ todo # <<>> /\ Need(Now) /\ Now.op = "retire"
      /\ IsInstr(Now) /\ graph' = graph /\ RetireNeed(Now)
  <2>1. IsInstr(Now)
    BY DoingFacts DEF Retires, KeysOps, AllOps
  <2>2. RowsInv /\ graph \in Graphs /\ RowsWithin /\ todo # <<>> /\ Need(Now) /\ Now.op = "retire"
    BY Begins DEF Retires
  <2> QED
    BY <2>1, <2>2 DEF Retires, Decides, rowVars, Moves, WritesRows, Need
<1>2. CASE Rest = {} /\ Decides /\ Now.then = "none" /\ Over
  BY <1>1, <1>2, DecidesNarrows, OverSpares
<1>3. CASE Rest = {} /\ Decides /\ Now.then # "none" /\ Then(Unpark(<<Now.key[1], Now.key[2] + 1, 0>>, "admit", FALSE))
  <2> PICK p : p = Now.key[1]
    OBVIOUS
  <2> PICK a : a = Now.key[2] + 1
    OBVIOUS
  <2>1. Now.then = "unpark" /\ Rest = {}
    BY <1>1, <1>3 DEF IsInstr
  <2>2. MayCreate(p, a)
    <3>1. SUFFICES ASSUME Free(p) PROVE Last(p) <= a /\ a <= Budget(p) /\ AtRest(p)
      BY DEF MayCreate
    <3>2. Now.key[2] = Last(p) /\ Room(p) /\ \A k \in Latest(p) : ~ InFlight(k)
      BY <1>1, <2>1, <3>1 DEF RetireNeed, Rest
    <3>3. p \in Phases
      BY <3>1 DEF Free
    <3>4. Last(p) \in Nat /\ Budget(p) \in Nat
      BY <1>1, <3>3, BudgetFacts
    <3> QED
      BY <3>2, <3>4 DEF Room, AtRest
  <2>3. PICK k : k = <<p, a, 0>>
    OBVIOUS
  <2>4. PICK i : i = Unpark(k, "admit", FALSE)
    OBVIOUS
  <2>5. i.op = "unpark" /\ i.then = "admit" /\ i.key = k /\ k[1] = p /\ k[2] = a
    BY <2>3, <2>4 DEF Unpark
  <2>6. Need(i)
    BY <2>2, <2>5 DEF Need
  <2>7. Need(i)' /\ Narrows
    BY <1>3, <2>6, DecidesNarrows, NeedSame
  <2> QED
    BY <1>1, <1>3, <2>3, <2>4, <2>7, ThenSpares
<1>4. ASSUME NEW k \in First(Rest), NEW st \in Gone, Moves(k, Now.was[k], To(k, st), Without(k)) PROVE Spares
  <2>1. k \in Rest /\ k \in DOMAIN rows
    BY <1>1 DEF First, IsInstr, KeysOps, Rest
  <2>2. CASE rows' = rows /\ Ends
    BY <1>1, <2>2, NoRow, OverSpares
  <2>3. CASE rows' = [rows EXCEPT ![k] = To(k, st)] /\ Then(Without(k))
    <3>1. PICK row : row = To(k, st)
      OBVIOUS
    <3>2. row.st = st /\ row.note = rows[k].note /\ row.work = rows[k].work
      BY <1>1, <2>1, <3>1, RowParts
    <3>3. st \notin {"pending", "running", "awaiting"}
      BY DEF Gone
    <3>4. Free(k[1]) => Room(k[1])
      BY <1>1, <2>1 DEF RetireNeed, Rest
    <3>5. Narrows /\ St(k)' = st
      BY <1>1, <2>1, <2>3, <3>1, <3>2, <3>3, <3>4, OneRow
    <3>6. PICK b : b = Now.key
      OBVIOUS
    <3>7. PICK c : c = Now.then
      OBVIOUS
    <3>8. PICK S : S = Rest
      OBVIOUS
    <3>9. PICK i : i = [op |-> "retire", key |-> b, keys |-> S \ {k}, was |-> Now.was, then |-> c]
      OBVIOUS
    <3>10. i = Without(k)
      <4>1. Now = [op |-> "retire", key |-> b, keys |-> S, was |-> Now.was, then |-> c]
        BY <1>1, <3>6, <3>7, <3>8 DEF IsInstr, Rest
      <4>2. [Now EXCEPT !.keys = S \ {k}] = i
        BY <3>9, <4>1, RetireLess
      <4>3. Without(k) = [Now EXCEPT !.keys = S \ {k}]
        BY <3>8 DEF Without, Rest
      <4> QED
        BY <4>2, <4>3
    <3>11. i.op = "retire" /\ i.key = b /\ i.keys = S \ {k} /\ i.then = c
      BY <3>9
    <3>12. S \subseteq DOMAIN rows /\ \A j \in S : Free(j[1]) => Room(j[1])
      BY <1>1, <3>8 DEF IsInstr, KeysOps, Rest, RetireNeed
    <3>13. \A j \in S \ {k} : Free(j[1])' => Room(j[1])'
      <4> SUFFICES ASSUME NEW j \in S, Free(j[1])' PROVE Room(j[1])'
        OBVIOUS
      <4>1. j[1] \in Phases
        BY <1>1, <3>12, KeyFacts
      <4> QED
        BY <1>1, <3>5, <3>12, <4>1, NarrowsFacts
    <3>14. ASSUME c = "unpark", Free(b[1])'
           PROVE  b[2] = Last(b[1])' /\ Room(b[1])' /\ \A j \in Latest(b[1])' : InFlight(j)' => j \in S \ {k}
      <4>1. Free(b[1]) /\ b[1] \in Phases
        BY <1>1, <3>14, FreeSame DEF Free
      <4>2. b[2] = Last(b[1]) /\ Room(b[1]) /\ \A j \in Latest(b[1]) : InFlight(j) => j \in S
        BY <1>1, <3>6, <3>7, <3>8, <3>14, <4>1 DEF RetireNeed, Rest
      <4>3. Last(b[1])' = Last(b[1]) /\ Latest(b[1])' = Latest(b[1]) /\ Room(b[1])'
        BY <1>1, <3>5, <4>1, <4>2, NarrowsFacts
      <4>4. ~ InFlight(k)'
        BY <3>3, <3>5 DEF InFlight
      <4>5. \A j \in Latest(b[1]) : InFlight(j)' => InFlight(j)
        BY <3>5, InGroup DEF Narrows, Latest
      <4> QED
        BY <4>2, <4>3, <4>4, <4>5
    <3>15. RetireNeed(i)'
      BY <3>11, <3>13, <3>14 DEF RetireNeed
    <3>16. Need(i)'
      BY <3>11, <3>15 DEF Need
    <3> QED
      BY <1>1, <2>3, <3>5, <3>10, <3>16, ThenSpares
  <2> QED
    BY <1>4, <2>2, <2>3 DEF Moves
<1>5. ASSUME NEW k \in First(Rest),
             Moves(k, Now.was[k],
                   To(k, IF Now.was[k] \in {"running", "failed"} THEN "cancelled" ELSE "superseded"), Without(k))
      PROVE  Spares
  <2>1. PICK st : st = IF Now.was[k] \in {"running", "failed"} THEN "cancelled" ELSE "superseded"
    OBVIOUS
  <2>2. st \in Gone
    BY <2>1 DEF Gone
  <2> QED
    BY <1>4, <1>5, <2>1, <2>2
<1> QED
  BY <1>2, <1>3, <1>5 DEF Retires

-----------------------------------------------------------------------------
(* A row is created.                                                        *)

\* What a step of the walk leads to.
Advances ==
  /\ RowsWithin' /\ NeedsMet'
  /\ \A k \in DOMAIN rows : RetryNeed(k) => RetryNeed(k)'

LEMMA SparesAdvances ==
  ASSUME ShapeInv, BudgetAt, Spares
  PROVE  Advances
<1>1. RowsInv /\ graph \in Graphs /\ RowsWithin /\ Narrows /\ graph' = graph
  BY DEF ShapeInv, Counters, BudgetAt, Spares, Narrows, SameShape
<1>2. ASSUME NEW k \in DOMAIN rows, RetryNeed(k) PROVE RetryNeed(k)'
  <2>1. k[1] \in Phases
    BY <1>1, KeyFacts
  <2>2. /\ Last(k[1])' = Last(k[1]) /\ Free(k[1])' = Free(k[1]) /\ (Room(k[1]) => Room(k[1])')
        /\ InFlight(k)' => InFlight(k)
    BY <1>1, <2>1, NarrowsFacts DEF Narrows
  <2> QED
    BY <1>1, <1>2, <2>2 DEF RetryNeed, PlainStep
<1>3. RowsWithin'
  BY <1>1, NarrowsWithin
<1> QED
  BY <1>2, <1>3 DEF Advances, Spares

LEMMA CreatedParts ==
  ASSUME RowsInv, NEW k \in Keys, Created(k)
  PROVE  /\ graph' = graph /\ Phases' = Phases /\ DOMAIN rows' = DOMAIN rows \cup {k}
         /\ \A j \in DOMAIN rows : rows'[j] = rows[j] /\ St(j)' = St(j) /\ InFlight(j)' = InFlight(j)
         /\ rows'[k] = NewRow /\ St(k)' = "pending"
         /\ \A p : Noted(p)' = Noted(p) /\ Budget(p)' = Budget(p) /\ Free(p)' = Free(p)
         /\ \A p : p # k[1] => At(p)' = At(p) /\ Last(p)' = Last(p) /\ Latest(p)' = Latest(p)
         /\ \A p, a : Group(p, a) \subseteq Group(p, a)'
<1>1. Phases' = Phases /\ graph' = graph /\ DOMAIN rows' = DOMAIN rows \cup {k} /\ k \notin DOMAIN rows
  BY DEF Created, Phases
<1>2. /\ \A j \in DOMAIN rows : rows'[j] = rows[j] /\ St(j)' = St(j) /\ InFlight(j)' = InFlight(j)
      /\ rows'[k] = NewRow
  BY DEF Created, St, InFlight
<1>3. St(k)' = "pending" /\ rows'[k].note = "none"
  BY <1>2 DEF NewRow, St
<1>4. ASSUME NEW p PROVE Noted(p)' = Noted(p)
  <2>1. At(p)' = {j \in DOMAIN rows \cup {k} : j[1] = p}
    BY <1>1 DEF At
  <2> QED
    BY <1>1, <1>2, <1>3, <2>1 DEF Noted, At
<1>5. \A p : Budget(p)' = Budget(p) /\ Free(p)' = Free(p)
  BY <1>1, <1>4, FreeSame DEF Budget
<1>6. ASSUME NEW p, p # k[1] PROVE At(p)' = At(p)
  BY <1>1, <1>6 DEF At
<1>7. ASSUME NEW p, p # k[1] PROVE Last(p)' = Last(p) /\ Latest(p)' = Latest(p)
  <2>1. Last(p)' = Last(p)
    BY <1>6, <1>7 DEF Last
  <2> QED
    BY <1>6, <1>7, <2>1 DEF Latest, Group
<1>8. \A p, a : Group(p, a) \subseteq Group(p, a)'
  BY <1>1 DEF Group, At
<1> QED
  BY <1>1, <1>2, <1>3, <1>4, <1>5, <1>6, <1>7, <1>8

\* A candidate of the attempt in hand, or the first of the next, or the judge of one in hand.
LEMMA CreatedWithin ==
  ASSUME RowsInv, graph \in Graphs, RowsWithin, NEW k \in Keys, Created(k), MayCreate(k[1], k[2]),
         k[3] < 0 => graph[k[1]].fan > 1 /\ Group(k[1], k[2]) # {}
  PROVE  RowsWithin' /\ MayCreate(k[1], k[2])'
<1> PICK p : p = k[1]
  OBVIOUS
<1> PICK a : a = k[2]
  OBVIOUS
<1>1. /\ graph' = graph /\ Phases' = Phases /\ DOMAIN rows' = DOMAIN rows \cup {k}
      /\ \A j \in DOMAIN rows : rows'[j] = rows[j] /\ St(j)' = St(j) /\ InFlight(j)' = InFlight(j)
      /\ rows'[k] = NewRow /\ St(k)' = "pending"
      /\ \A q : Budget(q)' = Budget(q) /\ Free(q)' = Free(q)
      /\ \A q : q # p => At(q)' = At(q) /\ Last(q)' = Last(q) /\ Latest(q)' = Latest(q)
  BY CreatedParts
<1>2. p \in Phases /\ a \in Nat /\ k[3] \in Int
  BY DEF Keys
<1>3. ASSUME NEW q \in Phases, Free(q), q # p PROVE Within(q)'
  <2>1. Within(q)
    BY <1>3 DEF RowsWithin
  <2>2. \A j \in At(q) : j \in DOMAIN rows
    BY DEF At
  <2>3. \A j \in Latest(q) : j \in DOMAIN rows
    BY InGroup DEF Latest
  <2>4. /\ At(q)' = At(q) /\ Last(q)' = Last(q) /\ Latest(q)' = Latest(q) /\ Budget(q)' = Budget(q)
        /\ Room(q)' = Room(q)
    BY <1>1, <1>3 DEF Room
  <2> QED
    BY <1>1, <2>1, <2>2, <2>3, <2>4 DEF Within
<1>4. ASSUME Free(p) PROVE Within(p)' /\ Last(p)' = a /\ a <= Budget(p)'
  <2>1. Within(p) /\ Last(p) <= a /\ a <= Budget(p) /\ (a > Last(p) => AtRest(p))
    BY <1>2, <1>4 DEF RowsWithin, MayCreate
  <2>2. Last(p)' = a /\ At(p)' = At(p) \cup {k}
    BY <2>1, CreatedFacts
  <2>3. Last(p) \in Nat /\ Budget(p) \in Nat /\ Budget(p)' = Budget(p)
    BY <1>1, <1>2, BudgetFacts
  <2>4. Latest(p)' = {j \in At(p) \cup {k} : j[2] = a /\ j[3] >= 0}
    BY <2>2 DEF Latest, Group
  <2>5. \A j \in At(p) : j \in DOMAIN rows /\ j[2] \in Nat /\ j[2] <= Last(p)
    BY LastFacts
  <2>6. a > Last(p) => k[3] >= 0
    <3> SUFFICES ASSUME a > Last(p), k[3] < 0 PROVE FALSE
      BY <1>2
    <3>1. PICK j \in Group(p, a) : TRUE
      OBVIOUS
    <3>2. j \in At(p) /\ j[2] = a
      BY DEF Group
    <3> QED
      BY <1>2, <2>3, <2>5, <3>2
  <2>7. k \notin DOMAIN rows
    BY DEF Created
  <2>8. CASE a = Last(p)
    <3>1. Latest(p) \subseteq Latest(p)' /\ \A j \in Latest(p)' : j = k \/ j \in Latest(p)
      BY <2>4, <2>8 DEF Latest, Group
    <3>2. Room(p)' = Room(p)
      BY <2>2, <2>3, <2>8 DEF Room
    <3>3. \A j \in Latest(p) : j \in DOMAIN rows
      BY InGroup DEF Latest
    <3>4. (\A j \in Latest(p) : St(j) \in Gone)' => Room(p)'
      BY <1>1, <2>1, <3>1, <3>2, <3>3 DEF Within, Gone
    <3>5. (\E j \in Latest(p) : rows[j].note # "none")' => Room(p)'
      <4>1. rows'[k].note = "none"
        BY <1>1 DEF NewRow
      <4> QED
        BY <1>1, <2>1, <3>1, <3>2, <3>3, <4>1 DEF Within
    <3>6. (\A j \in At(p) : j[2] < Last(p) /\ j[3] >= 0 => ~ InFlight(j))'
      <4> SUFFICES ASSUME NEW j \in At(p) \cup {k}, j[2] < a, j[3] >= 0 PROVE ~ InFlight(j)'
        BY <2>2
      <4>1. j \in At(p)
        BY <1>2
      <4> QED
        BY <1>1, <2>1, <2>5, <2>8, <4>1 DEF Within
    <3> QED
      BY <2>1, <2>2, <2>3, <3>4, <3>5, <3>6 DEF Within
  <2>9. CASE a > Last(p)
    <3>1. Latest(p)' = {k}
      <4>1. \A j \in At(p) : ~ (j[2] = a)
        BY <1>2, <2>3, <2>5, <2>9
      <4> QED
        BY <2>4, <2>6, <2>9, <4>1
    <3>2. St(k)' = "pending" /\ rows'[k].note = "none"
      BY <1>1 DEF NewRow
    <3>3. (\A j \in Latest(p) : St(j) \in Gone)' => Room(p)'
      BY <3>1, <3>2 DEF Gone
    <3>4. (\E j \in Latest(p) : rows[j].note # "none")' => Room(p)'
      BY <3>1, <3>2
    <3>5. (\A j \in At(p) : j[2] < Last(p) /\ j[3] >= 0 => ~ InFlight(j))'
      <4> SUFFICES ASSUME NEW j \in At(p) \cup {k}, j[2] < a, j[3] >= 0 PROVE ~ InFlight(j)'
        BY <2>2
      <4>1. j \in At(p)
        BY <1>2
      <4>2. CASE j[2] < Last(p)
        BY <1>1, <2>1, <2>5, <4>1, <4>2 DEF Within
      <4>3. CASE j[2] = Last(p)
        <5>1. j \in Latest(p)
          BY <4>1, <4>3 DEF Latest, Group
        <5> QED
          BY <1>1, <2>1, <2>5, <2>9, <4>1, <5>1 DEF AtRest
      <4> QED
        BY <2>3, <2>5, <4>1, <4>2, <4>3
    <3> QED
      BY <2>1, <2>2, <2>3, <3>3, <3>4, <3>5 DEF Within
  <2>10. a = Last(p) \/ a > Last(p)
    BY <1>2, <2>1, <2>3
  <2> QED
    BY <2>1, <2>2, <2>3, <2>8, <2>9, <2>10
<1>5. RowKinds'
  <2>1. ASSUME NEW j \in DOMAIN rows \cup {k} PROVE /\ j[3] < 0 => graph[j[1]].fan > 1
                                                    /\ rows'[j].work = "reject" => graph[j[1]].name = "review"
    <3>1. rows'[k].work = "none"
      BY <1>1 DEF NewRow
    <3> QED
      BY <1>1, <3>1 DEF RowsWithin, RowKinds
  <2> QED
    BY <1>1, <2>1 DEF RowKinds
<1>6. MayCreate(p, a)'
  BY <1>1, <1>2, <1>4 DEF MayCreate
<1> QED
  BY <1>1, <1>3, <1>4, <1>5, <1>6 DEF RowsWithin

LEMMA CreatesAdvances == ASSUME ShapeInv, BudgetAt, Creates PROVE Advances
<1>1. /\ RowsInv /\ graph \in Graphs /\ RowsWithin /\ todo # <<>> /\ Now.op = "create" /\ graph' = graph
      /\ CreateNeed(Now) /\ IsInstr(Now)
  <2>1. IsInstr(Now)
    BY DoingFacts DEF Creates, OtherOps, AllOps
  <2>2. RowsInv /\ graph \in Graphs /\ RowsWithin /\ todo # <<>> /\ Need(Now) /\ Now.op = "create"
    BY Begins DEF Creates
  <2> QED
    BY <2>1, <2>2 DEF Creates, WritesRows, Need
<1>2. CASE rows' = rows /\ (Over \/ Ends)
  BY <1>1, <1>2, NoRow, OverSpares, SparesAdvances
<1>3. CASE rows' = rows /\ Now.then # "none" /\ Then(I(Now.then, Now.key))
  <2>1. PICK k : k = Now.key
    OBVIOUS
  <2>2. PICK op : op = Now.then
    OBVIOUS
  <2>3. op = "fan" \/ op = "start"
    BY <1>1, <1>3, <2>2 DEF IsInstr
  <2>4. PICK i : i = I(op, k)
    OBVIOUS
  <2>5. i.op = op /\ i.key = k
    BY <2>4 DEF I
  <2>6. MayCreate(k[1], k[2]) /\ (op = "start" => k[3] < 0)
    BY <1>1, <2>1, <2>2 DEF CreateNeed
  <2>7. Need(i)
    <3>1. CASE op = "fan"
      BY <2>5, <2>6, <3>1 DEF Need
    <3>2. CASE op = "start"
      <4>1. ~ (k[3] >= 0)
        <5>1. k[3] \in Int
          <6>1. k \in Keys
            BY <1>1, <2>1, <2>2, <3>2 DEF IsInstr, RowsInv
          <6> QED
            BY <6>1 DEF Keys
        <5> QED
          BY <2>6, <3>2, <5>1
      <4> QED
        BY <2>5, <3>2, <4>1 DEF Need
    <3> QED
      BY <2>3, <3>1, <3>2
  <2>8. Need(i)' /\ Narrows
    BY <1>1, <1>3, <2>7, NeedSame, NoRow
  <2> QED
    BY <1>1, <1>3, <2>1, <2>2, <2>4, <2>8, ThenSpares, SparesAdvances
<1>4. ASSUME NEW k \in Rest, k \notin DOMAIN rows, Then(Without(k)),
             rows' = [j \in DOMAIN rows \cup {k} |-> IF j = k THEN NewRow ELSE rows[j]]
      PROVE  Advances
  <2> PICK S : S = Now.keys
    OBVIOUS
  <2> PICK b : b = Now.key
    OBVIOUS
  <2> PICK c : c = Now.then
    OBVIOUS
  <2> DEFINE p == b[1]  a == b[2]
  <2>1. k \in S /\ S \subseteq Keys /\ Now = Create(S, b, c) /\ Created(k)
    BY <1>1, <1>4 DEF IsInstr, Rest, Created
  <2>2. /\ MayCreate(p, a) /\ (c = "start" => b[3] < 0)
        /\ \A j \in S : j[1] = p /\ j[2] = a /\ (j[3] < 0 => graph[p].fan > 1 /\ Group(p, a) # {})
    BY <1>1 DEF CreateNeed
  <2>3. RowsWithin' /\ MayCreate(p, a)'
    <3>1. k[1] = p /\ k[2] = a /\ (k[3] < 0 => graph[p].fan > 1 /\ Group(p, a) # {}) /\ k \in Keys
      BY <2>1, <2>2
    <3>2. RowsWithin' /\ MayCreate(k[1], k[2])'
      BY <1>1, <2>1, <2>2, <3>1, CreatedWithin
    <3> QED
      BY <3>1, <3>2
  <2>4. PICK i : i = Create(S \ {k}, b, c)
    OBVIOUS
  <2>5. Without(k) = i /\ i.op = "create" /\ i.key = b /\ i.then = c /\ i.keys = S \ {k}
    <3>1. Without(k) = [Create(S, b, c) EXCEPT !.keys = S \ {k}]
      BY <2>1 DEF Without
    <3> QED
      BY <2>4, <3>1 DEF Create
  <2>6. Group(p, a) \subseteq Group(p, a)' /\ graph' = graph
    BY <1>1, <2>1, CreatedParts
  <2>7. CreateNeed(i)'
    BY <2>2, <2>3, <2>5, <2>6 DEF CreateNeed
  <2>8. Need(i)'
    BY <2>5, <2>7 DEF Need
  <2>9. NeedsMet'
    BY <1>1, <1>4, <2>5, <2>8, NeedThen
  <2>10. ASSUME NEW j \in DOMAIN rows, RetryNeed(j) PROVE RetryNeed(j)'
    <3>1. /\ InFlight(j)' = InFlight(j) /\ Free(j[1])' = Free(j[1]) /\ PlainStep(j)' = PlainStep(j)
          /\ Budget(j[1])' = Budget(j[1])
      BY <1>1, <2>1, CreatedParts DEF PlainStep
    <3> SUFFICES ASSUME Free(j[1]), InFlight(j) PROVE (j[2] = Last(j[1]) /\ Room(j[1]))'
      BY <2>10, <3>1 DEF RetryNeed
    <3>2. j[2] = Last(j[1]) /\ Room(j[1]) /\ j[3] >= 0
      BY <2>10 DEF RetryNeed, PlainStep
    <3>3. Last(j[1])' = Last(j[1])
      <4>1. CASE j[1] # p
        BY <1>1, <2>1, <2>2, <4>1, CreatedParts
      <4>2. CASE j[1] = p
        <5>1. Last(p) <= a /\ (a > Last(p) => AtRest(p))
          BY <2>2, <4>2 DEF MayCreate
        <5>2. j \in Latest(p)
          BY <3>2, <4>2 DEF Latest, Group, At
        <5>3. a = Last(p)
          <6>1. Last(p) \in Nat /\ a \in Nat
            <7>1. k[2] = a /\ k \in Keys
              BY <2>1, <2>2
            <7> QED
              BY <1>1, <7>1, LastFacts DEF Keys
          <6> QED
            BY <5>1, <5>2, <6>1 DEF AtRest
        <5>4. k[1] = p /\ k[2] = a /\ k \in Keys
          BY <2>1, <2>2
        <5>5. Last(p)' = a
          <6>1. Last(k[1])' = k[2]
            BY <1>1, <2>1, <5>1, <5>4, CreatedFacts
          <6> QED
            BY <5>4, <6>1
        <5> QED
          BY <4>2, <5>3, <5>5
      <4> QED
        BY <4>1, <4>2
    <3> QED
      BY <3>1, <3>2, <3>3 DEF Room
  <2> QED
    BY <2>3, <2>9, <2>10 DEF Advances
<1>5. \A k \in First(Rest) : k \in Rest
  BY DEF First
<1> QED
  BY <1>2, <1>3, <1>4, <1>5 DEF Creates

-----------------------------------------------------------------------------
(* Fan-out groups.                                                          *)

LEMMA FansSpares == ASSUME ShapeInv, BudgetAt, Fans PROVE Spares
<1> PICK k : k = Now.key
  OBVIOUS
<1> PICK p : p = k[1]
  OBVIOUS
<1> PICK a : a = k[2]
  OBVIOUS
<1>1. /\ todo # <<>> /\ Need(Now) /\ Now.op = "fan" /\ Decides /\ Narrows /\ graph' = graph /\ rows' = rows
  BY Begins, DecidesNarrows DEF Fans
<1>2. ASSUME Then(Create(Slot(p, a) \ DOMAIN rows, k, "fan")) PROVE Spares
  <2>1. PICK i : i = Create(Slot(p, a) \ DOMAIN rows, k, "fan")
    OBVIOUS
  <2>2. i.op = "create" /\ i.key = k /\ i.keys = Slot(p, a) \ DOMAIN rows /\ i.then = "fan"
    BY <2>1 DEF Create
  <2>3. \A j \in Slot(p, a) : j[1] = p /\ j[2] = a /\ ~ (j[3] < 0)
    BY DEF Slot
  <2>4. MayCreate(p, a)
    BY <1>1 DEF Need
  <2>5. CreateNeed(i)
    BY <2>2, <2>3, <2>4 DEF CreateNeed
  <2>6. Need(i)
    BY <2>2, <2>5 DEF Need
  <2>7. Need(i)'
    BY <1>1, <2>6, NeedSame
  <2> QED
    BY <1>1, <1>2, <2>1, <2>7, ThenSpares
<1>3. ASSUME Then(Block("fail")) PROVE Spares
  BY <1>1, <1>3, RunNeeds, ThenSpares
<1> PICK pending : pending = {j \in Group(p, a) : St(j) = "pending"}
  OBVIOUS
<1>4. ASSUME Then([op |-> "group", key |-> k, wait |-> pending, live |-> {}]) PROVE Spares
  <2>1. PICK i : i = [op |-> "group", key |-> k, wait |-> pending, live |-> {}]
    OBVIOUS
  <2>2. i.op = "group" /\ i.wait = pending /\ i.live = {}
    BY <2>1
  <2>3. Need(i)
    BY <2>2 DEF Need
  <2>4. Need(i)'
    BY <1>1, <2>3, NeedSame
  <2> QED
    BY <1>1, <1>4, <2>1, <2>4, ThenSpares
<1>5. ASSUME NEW block, Then(Refuse(pending, block)) PROVE Spares
  BY <1>1, <1>5, RunNeeds, ThenSpares
<1> QED
  BY <1>2, <1>3, <1>4, <1>5 DEF Fans

LEMMA RefusesSpares == ASSUME ShapeInv, BudgetAt, Refuses PROVE Spares
<1>1. RowsInv /\ todo # <<>> /\ Now.op = "refuse" /\ IsInstr(Now) /\ Rest \subseteq DOMAIN rows
  BY DoingFacts DEF Refuses, KeysOps, AllOps, Rest
<1>2. CASE Rest = {} /\ Decides /\ Then(FailRun(Now.block))
  <2>1. PICK b : b = Now.block
    OBVIOUS
  <2>2. Need(FailRun(b))'
    BY RunNeeds
  <2> QED
    BY <1>1, <1>2, <2>1, <2>2, DecidesNarrows, ThenSpares
<1>3. \A k \in First(Rest) : k \in DOMAIN rows
  BY <1>1 DEF First
<1>4. ASSUME NEW k \in DOMAIN rows, NEW from \in {"pending", "running"}, NEW st \in {"running", "failed"},
             NEW i, i.op = "refuse", Moves(k, from, To(k, st), i)
      PROVE  Spares
  <2>1. To(k, st).st = st /\ To(k, st).note = rows[k].note /\ To(k, st).work = rows[k].work
    BY <1>1, RowParts
  <2>2. st \notin Gone /\ from \in {"pending", "running", "awaiting"}
    BY DEF Gone
  <2>3. Need(i)'
    BY <1>4, FreeNeeds
  <2> QED
    BY <1>1, <1>4, <2>1, <2>2, <2>3, MovesSpares
<1>5. ASSUME NEW k \in First(Rest), Moves(k, "pending", To(k, "running"), Now) PROVE Spares
  BY <1>1, <1>3, <1>4, <1>5
<1>6. ASSUME NEW k \in First(Rest), Moves(k, "running", To(k, "failed"), Without(k)) PROVE Spares
  <2>1. PICK i : i = Without(k)
    OBVIOUS
  <2>2. i.op = "refuse"
    BY <1>1, <2>1, WithoutInstr DEF KeysOps
  <2> QED
    BY <1>3, <1>4, <1>6, <2>1, <2>2
<1> QED
  BY <1>2, <1>5, <1>6 DEF Refuses

\* A candidate starts or settles: those that wait are still pending.
LEMMA CandidateSpares ==
  ASSUME ShapeInv, BudgetAt, Doing("group"), WritesRows, NEW k \in Now.wait \cup Now.live,
         NEW st \in {"running", "done", "failed"}, rows' = [rows EXCEPT ![k] = To(k, st)],
         st = "running" => k \in Now.wait,
         NEW wait, NEW live, Still(wait, live),
         wait \subseteq Now.wait \ {k}, wait \cap live = {}
  PROVE  Spares
<1>1. /\ RowsInv /\ graph \in Graphs /\ todo # <<>> /\ Now.op = "group" /\ Need(Now) /\ IsInstr(Now) /\ graph' = graph
  <2>1. IsInstr(Now)
    BY DoingFacts DEF SlotOps, AllOps
  <2> QED
    BY <2>1, Begins DEF WritesRows
<1>2. k \in DOMAIN rows /\ (k \in Now.wait => St(k) = "pending")
  BY <1>1 DEF IsInstr, Need
<1>3. To(k, st).st = st /\ To(k, st).note = rows[k].note /\ To(k, st).work = rows[k].work
  BY <1>1, <1>2, RowParts
<1>4. /\ st \notin Gone
      /\ st \in {"pending", "running", "awaiting"} => InFlight(k)
  BY <1>2 DEF Gone, InFlight
<1>5. Narrows /\ \A j \in DOMAIN rows : j # k => St(j)' = St(j)
  <2>1. PICK row : row = To(k, st)
    OBVIOUS
  <2>2. row.st \notin Gone /\ (row.st \in {"pending", "running", "awaiting"} => InFlight(k))
    BY <1>3, <1>4, <2>1
  <2> QED
    BY <1>1, <1>2, <1>3, <2>1, <2>2, OneRow
<1>6. PICK i : i = [Now EXCEPT !.wait = wait, !.live = live]
  OBVIOUS
<1>7. i.op = "group" /\ i.wait = wait /\ i.live = live
  <2>1. [Now EXCEPT !.wait = wait, !.live = live] = [op |-> "group", key |-> Now.key, wait |-> wait, live |-> live]
    BY <1>1, StillIs
  <2>2. i = [op |-> "group", key |-> Now.key, wait |-> wait, live |-> live]
    BY <1>6, <2>1
  <2> QED
    BY <2>2
<1>8. \A j \in wait : j \in DOMAIN rows /\ St(j)' = "pending"
  BY <1>1, <1>5 DEF IsInstr, Need
<1>9. Need(i)'
  BY <1>7, <1>8 DEF Need
<1> QED
  BY <1>1, <1>5, <1>6, <1>9, ThenSpares DEF Still

LEMMA CandidatesSpare ==
  ASSUME ShapeInv, BudgetAt, CandidateStarts \/ CandidateWorks \/ CandidateEnds
  PROVE  Spares
<1>1. /\ RowsInv /\ todo # <<>> /\ Now.op = "group" /\ Doing("group") /\ Need(Now) /\ WritesRows
      /\ Now.wait \cap Now.live = {} /\ Now.wait \subseteq DOMAIN rows /\ Now.live \subseteq DOMAIN rows
  <2>1. Doing("group") /\ WritesRows
    BY DEF CandidateStarts, CandidateWorks, CandidateEnds
  <2>2. IsInstr(Now)
    BY <2>1, DoingFacts DEF SlotOps, AllOps
  <2>3. RowsInv /\ todo # <<>> /\ Now.op = "group" /\ Need(Now)
    BY <2>1, Begins
  <2> QED
    BY <2>1, <2>2, <2>3 DEF IsInstr, Need
<1>2. ASSUME CandidateStarts PROVE Spares
  <2>1. PICK k \in Now.wait :
          rows' = [rows EXCEPT ![k] = To(k, "running")] /\ Still(Now.wait \ {k}, Now.live \cup {k})
    BY <1>2 DEF CandidateStarts
  <2>2. PICK wait : wait = Now.wait \ {k}
    OBVIOUS
  <2>3. PICK live : live = Now.live \cup {k}
    OBVIOUS
  <2>4. Still(wait, live)
    BY <2>1, <2>2, <2>3
  <2>5. k \in Now.wait \cup Now.live /\ wait \subseteq Now.wait \ {k} /\ wait \cap live = {}
    BY <1>1, <2>2, <2>3
  <2> QED
    BY <1>1, <2>1, <2>4, <2>5, CandidateSpares
<1>3. ASSUME CandidateEnds PROVE Spares
  <2>1. PICK k \in Now.live, to \in {"done", "failed"} :
          rows' = [rows EXCEPT ![k] = To(k, to)] /\ Still(Now.wait, Now.live \ {k})
    BY <1>3 DEF CandidateEnds
  <2>2. PICK wait : wait = Now.wait
    OBVIOUS
  <2>3. PICK live : live = Now.live \ {k}
    OBVIOUS
  <2>4. Still(wait, live)
    BY <2>1, <2>2, <2>3
  <2>5. k \in Now.wait \cup Now.live /\ wait \subseteq Now.wait \ {k} /\ wait \cap live = {}
    BY <1>1, <2>1, <2>2, <2>3
  <2> QED
    BY <1>1, <2>1, <2>4, <2>5, CandidateSpares
<1>4. ASSUME CandidateWorks PROVE Spares
  <2>1. PICK k \in Now.live, work \in {"ok", "fail"} : rows' = [rows EXCEPT ![k].work = work] /\ todo' = todo
    BY <1>4 DEF CandidateWorks
  <2>2. PICK row : row = [rows[k] EXCEPT !.work = work]
    OBVIOUS
  <2>3. rows' = [rows EXCEPT ![k] = row] /\ row.st = St(k) /\ row.note = rows[k].note /\ row.work = work
    BY <1>1, <2>1, <2>2, RowParts
  <2>4. Narrows /\ St(k)' = St(k) /\ \A j \in DOMAIN rows : j # k => St(j)' = St(j)
    <3>1. graph' = graph /\ k \in DOMAIN rows /\ row.work # "reject"
      BY <1>1, <2>1, <2>3 DEF WritesRows
    <3>2. /\ row.st \in {"pending", "running", "awaiting"} => InFlight(k)
          /\ row.st \in Gone => St(k) \in Gone
      BY <2>3 DEF InFlight
    <3> QED
      BY <1>1, <2>3, <3>1, <3>2, OneRow
  <2>5. PICK i : i = Now
    OBVIOUS
  <2>6. \A j \in i.wait : j \in DOMAIN rows /\ St(j)' = "pending"
    BY <1>1, <2>4, <2>5 DEF Need
  <2>7. Need(i)'
    BY <1>1, <2>5, <2>6 DEF Need
  <2>8. Head(todo') = i
    BY <2>1, <2>5 DEF Now
  <2>9. Need(Head(todo))'
    BY <2>7, <2>8
  <2> QED
    BY <2>4, <2>9 DEF Spares, NeedsMet
<1> QED
  BY <1>2, <1>3, <1>4

LEMMA GroupEndsSpares == ASSUME ShapeInv, BudgetAt, GroupEnds PROVE Spares
<1>1. todo # <<>> /\ Narrows
  BY Begins, DecidesNarrows DEF GroupEnds
<1> QED
  BY <1>1, RunNeeds, ThenSpares, OverSpares DEF GroupEnds

\* A slot with nothing to pick is retired only if another attempt may be made.
LEMMA ChoosesSpares == ASSUME ShapeInv, BudgetAt, Chooses PROVE Spares
<1> PICK k : k = Now.key
  OBVIOUS
<1> PICK p : p = k[1]
  OBVIOUS
<1> PICK a : a = k[2]
  OBVIOUS
<1> PICK j : j = JudgeOf(p, a)
  OBVIOUS
<1>1. /\ RowsInv /\ graph \in Graphs /\ RowsWithin /\ todo # <<>> /\ Decides /\ Narrows /\ graph' = graph /\ rows' = rows
      /\ graph[p].fan > 1 /\ a = Last(p) /\ p \in Phases
  <2>1. RowsInv /\ graph \in Graphs /\ RowsWithin /\ todo # <<>> /\ Need(Now) /\ Now.op = "choose"
    BY Begins DEF Chooses
  <2>2. k \in Slots
    BY DoingFacts DEF Chooses, SlotOps, AllOps
  <2>3. p \in Phases
    BY <2>2 DEF Slots
  <2> QED
    BY <2>1, <2>3, DecidesNarrows DEF Chooses, Need
<1>2. j[1] = p /\ j[2] = a /\ j[3] = -1
  BY DEF JudgeOf
<1>3. a \in Nat /\ a + 1 \in Nat /\ Budget(p) \in Nat
  BY <1>1, BudgetFacts
<1>4. CASE Then(ParkRun) \/ Then(Finish("failed"))
  BY <1>1, <1>4, RunNeeds, ThenSpares
<1>5. CASE Then(I("start", j))
  BY <1>1, <1>2, <1>5, RunNeeds, ThenSpares
<1>6. CASE Then(Refuse({j}, FALSE))
  BY <1>1, <1>6, RunNeeds, ThenSpares
<1>7. CASE MayAttempt(p, a + 1) /\ Then(Retire(k, {p}, "none"))
  <2>1. PICK i : i = Retire(k, {p}, "none")
    OBVIOUS
  <2>2. i.op = "retire" /\ i.then = "none" /\ \A x \in i.keys : x[1] = p
    BY <2>1 DEF Retire
  <2>3. Room(p)
    <3>1. a + 1 <= Budget(p)
      BY <1>1, <1>3, <1>7, BudgetFacts
    <3> QED
      BY <1>1, <1>3, <3>1 DEF Room
  <2>4. Need(i)
    BY <2>2, <2>3 DEF Need, RetireNeed
  <2>5. Need(i)'
    BY <1>1, <2>4, NeedSame
  <2> QED
    BY <1>1, <1>7, <2>1, <2>5, ThenSpares
<1>8. CASE \E w \in Passing(p, a) : Then(Select(w, "walk"))
  BY <1>1, <1>8, RunNeeds, ThenSpares
<1>9. CASE Passing(p, a) # {} /\ Then(Create({j}, j, "start"))
  <2>1. PICK i : i = Create({j}, j, "start")
    OBVIOUS
  <2>2. i.op = "create" /\ i.key = j /\ i.then = "start" /\ i.keys = {j}
    BY <2>1 DEF Create
  <2>3. Group(p, a) # {}
    BY <1>9 DEF Passing
  <2>4. MayCreate(p, a)
    BY <1>1, <1>3 DEF MayCreate, RowsWithin, Within
  <2>5. CreateNeed(i)
    <3>1. i.key[1] = p /\ i.key[2] = a /\ i.key[3] < 0
      BY <1>2, <2>2
    <3>2. \A x \in i.keys : x[1] = p /\ x[2] = a
      BY <1>2, <2>2
    <3> QED
      BY <1>1, <2>3, <2>4, <3>1, <3>2 DEF CreateNeed
  <2>6. Need(i)
    BY <2>2, <2>5 DEF Need
  <2>7. Need(i)'
    BY <1>1, <2>6, NeedSame
  <2> QED
    BY <1>1, <1>9, <2>1, <2>7, ThenSpares
<1>10. \/ Then(ParkRun)
       \/ Then(I("start", j))
       \/ Then(Refuse({j}, FALSE))
       \/ Then(Finish("failed"))
       \/ MayAttempt(p, a + 1) /\ Then(Retire(k, {p}, "none"))
       \/ \E w \in Passing(p, a) : Then(Select(w, "walk"))
       \/ Passing(p, a) # {} /\ Then(Create({j}, j, "start"))
  BY DEF Chooses
<1> QED
  BY <1>4, <1>5, <1>6, <1>7, <1>8, <1>9, <1>10

LEMMA JudgeSessionsSpares == ASSUME ShapeInv, BudgetAt, JudgeSessions PROVE Spares
<1> PICK k : k = Now.key
  OBVIOUS
<1>1. RowsInv /\ todo # <<>> /\ Decides /\ Narrows /\ k \in DOMAIN rows /\ k[3] < 0
  <2>1. k \in DOMAIN rows /\ k[3] < 0
    BY DoingFacts DEF JudgeSessions, RowOps, AllOps, IsInstr
  <2> QED
    BY <2>1, Begins, DecidesNarrows DEF JudgeSessions
<1>2. k[3] = -1
  BY <1>1 DEF RowsInv, Keys
<1>3. ASSUME NEW w, Then(Select(w, "judge")) PROVE Spares
  BY <1>1, <1>3, RunNeeds, ThenSpares
<1>4. CASE Then(I("gate", k))
  BY <1>1, <1>2, <1>4, RunNeeds, ThenSpares
<1> QED
  BY <1>3, <1>4 DEF JudgeSessions

\* The winner stays: its attempt is not gone with the candidates it is chosen over.
LEMMA SelectsSpares == ASSUME ShapeInv, BudgetAt, Selects PROVE Spares
<1> PICK w : w = Now.key
  OBVIOUS
<1> DEFINE j == JudgeOf(w[1], w[2])
           Settle(k) ==
             IF k = w THEN [rows[k] EXCEPT !.sel = TRUE, !.st = "done"]
             ELSE IF k \in Group(w[1], w[2])
               THEN [rows[k] EXCEPT !.sel = FALSE,
                       !.st = IF @ \in {"pending", "awaiting", "done"} THEN "superseded" ELSE @]
             ELSE IF k = JudgeOf(w[1], w[2])
               THEN [rows[k] EXCEPT !.st = IF @ \in {"pending", "running", "awaiting"} THEN "done" ELSE @]
             ELSE rows[k]
<1>1. RowsInv /\ todo # <<>> /\ graph' = graph /\ w \in DOMAIN rows /\ w[3] >= 0
  <2>1. w \in DOMAIN rows /\ w[3] >= 0
    BY DoingFacts DEF Selects, RowOps, AllOps, IsInstr
  <2> QED
    BY <2>1, Begins DEF Selects, WritesRows
<1>2. CASE /\ St(w) \in {"done", "awaiting"} /\ rows' = [k \in DOMAIN rows |-> Settle(k)]
           /\ Then(IF Now.by = "person" THEN Unpark(w, "merge", FALSE) ELSE I("merge", w))
  <2>1. SameShape
    BY <1>1, <1>2 DEF SameShape
  <2>2. ASSUME NEW k \in DOMAIN rows
        PROVE  /\ k \notin Group(w[1], w[2]) /\ k # j => rows'[k] = rows[k]
               /\ rows'[k].note = rows[k].note /\ rows'[k].work = rows[k].work
               /\ k = w => rows'[k].st = "done"
               /\ rows'[k].st \in {"done", "superseded"} \/ rows'[k].st = rows[k].st
    <3>1. rows'[k] = Settle(k) /\ rows[k] \in Rows /\ w \in Group(w[1], w[2])
      BY <1>1, <1>2, <2>2, RowFields, KeyFacts
    <3>2. CASE k = w
      <4>1. rows'[k] = [rows[k] EXCEPT !.sel = TRUE, !.st = "done"]
        BY <3>1, <3>2
      <4>2. rows'[k].st = "done" /\ rows'[k].note = rows[k].note /\ rows'[k].work = rows[k].work
        BY <3>1, <4>1 DEF Rows
      <4> QED
        BY <3>1, <3>2, <4>2
    <3>3. CASE k # w /\ k \in Group(w[1], w[2])
      <4>1. rows'[k] = [rows[k] EXCEPT !.sel = FALSE,
                          !.st = IF @ \in {"pending", "awaiting", "done"} THEN "superseded" ELSE @]
        BY <3>1, <3>3
      <4>2. /\ rows'[k].st \in {"done", "superseded"} \/ rows'[k].st = rows[k].st
            /\ rows'[k].note = rows[k].note /\ rows'[k].work = rows[k].work
        BY <3>1, <4>1 DEF Rows
      <4> QED
        BY <3>3, <4>2
    <3>4. CASE k # w /\ k \notin Group(w[1], w[2]) /\ k = j
      <4>1. rows'[k] = [rows[k] EXCEPT !.st = IF @ \in {"pending", "running", "awaiting"} THEN "done" ELSE @]
        BY <3>1, <3>4
      <4>2. /\ rows'[k].st \in {"done", "superseded"} \/ rows'[k].st = rows[k].st
            /\ rows'[k].note = rows[k].note /\ rows'[k].work = rows[k].work
        BY <3>1, <4>1 DEF Rows
      <4> QED
        BY <3>4, <4>2
    <3>5. CASE k # w /\ k \notin Group(w[1], w[2]) /\ k # j
      BY <3>1, <3>5
    <3> QED
      BY <3>2, <3>3, <3>4, <3>5
  <2>3. ASSUME NEW k \in DOMAIN rows PROVE InFlight(k)' => InFlight(k)
    BY <2>2 DEF InFlight, St
  <2>4. ASSUME NEW p \in Phases, Free(p), \A k \in Latest(p) : St(k)' \in Gone
        PROVE  \A k \in Latest(p) : St(k) \in Gone
    <3>1. w \notin Latest(p)
      <4>1. St(w)' = "done"
        BY <1>1, <2>2 DEF St
      <4> QED
        BY <2>4, <4>1 DEF Gone
    <3>2. ASSUME NEW k \in Latest(p) PROVE rows'[k] = rows[k]
      <4>1. k \in DOMAIN rows /\ k[1] = p /\ k[2] = Last(p) /\ k[3] >= 0
        BY InGroup DEF Latest
      <4>2. k \notin Group(w[1], w[2])
        <5> SUFFICES ASSUME k \in Group(w[1], w[2]) PROVE FALSE
          OBVIOUS
        <5>1. k[1] = w[1] /\ k[2] = w[2]
          BY InGroup
        <5>2. w \in Latest(p)
          BY <1>1, <4>1, <5>1 DEF Latest, Group, At
        <5> QED
          BY <3>1, <5>2
      <4>3. k # j
        BY <4>1 DEF JudgeOf
      <4> QED
        BY <2>2, <4>1, <4>2, <4>3
    <3> QED
      BY <2>4, <3>2 DEF St
  <2>5. Narrows
    <3> HIDE DEF Settle
    <3> QED
      BY <2>1, <2>2, <2>3, <2>4 DEF Narrows
  <2>6. PICK i : i = IF Now.by = "person" THEN Unpark(w, "merge", FALSE) ELSE I("merge", w)
    OBVIOUS
  <2>7. Need(i)'
    BY <2>6, RunNeeds
  <2> QED
    BY <1>1, <1>2, <2>5, <2>6, <2>7, ThenSpares
<1>3. CASE rows' = rows /\ Ends
  BY <1>1, <1>3, NoRow, OverSpares
<1>4. CASE rows' = rows /\ Then(I("gate", j))
  <2>1. PICK k : k = j
    OBVIOUS
  <2>2. k[3] = -1
    BY <2>1 DEF JudgeOf
  <2> QED
    BY <1>1, <1>4, <2>1, <2>2, NoRow, RunNeeds, ThenSpares
<1> QED
  BY <1>2, <1>3, <1>4 DEF Selects

LEMMA GroupSpares == ASSUME ShapeInv, BudgetAt, WalksGroup PROVE Spares
BY FansSpares, RefusesSpares, CandidatesSpare, GroupEndsSpares, ChoosesSpares, JudgeSessionsSpares, SelectsSpares
   DEF WalksGroup

LEMMA StepAdvances == ASSUME ShapeInv, BudgetAt, WalksStep PROVE Advances
BY PassesSpares, AdmitsSpares, CreatesAdvances, StartsSpares, SessionsSpares, ParksSpares, AcceptsSpares,
   FailsHardSpares, SpendsSpares, GatesItselfSpares, RejectsRowSpares, MergesSpares, LoopsSpares, RetiresSpares,
   ParksRunSpares, FinishesSpares, BlocksSpares, SparesAdvances
   DEF WalksStep

-----------------------------------------------------------------------------
(* Recovery.                                                                *)

LEMMA MergesFrontierSpares ==
  ASSUME ShapeInv, todo # <<>>, Decides, MergesFrontier
  PROVE  Spares
<1>1. Narrows
  BY DecidesNarrows
<1>2. ASSUME NEW w, Then(I("merge", w)) PROVE Spares
  BY <1>1, <1>2, RunNeeds, ThenSpares
<1> QED
  BY <1>1, <1>2, OverSpares DEF MergesFrontier

LEMMA RecoversSpares == ASSUME ShapeInv, BudgetAt, Recovers PROVE Spares
<1>1. todo # <<>> /\ Decides /\ Narrows
  BY Begins, DecidesNarrows DEF Recovers
<1> PICK K : K = {k \in DOMAIN rows : St(k) = "running"}
  OBVIOUS
<1>2. CASE MergesFrontier
  BY <1>1, <1>2, MergesFrontierSpares
<1>3. CASE Then([op |-> "land", keys |-> K])
  <2>1. PICK i : i = [op |-> "land", keys |-> K]
    OBVIOUS
  <2>2. i.op = "land"
    BY <2>1
  <2>3. Need(i)'
    BY <2>2, BackNeeds
  <2> QED
    BY <1>1, <1>3, <2>1, <2>3, ThenSpares
<1> QED
  BY <1>2, <1>3 DEF Recovers

\* A row recovery finds running ends, with a note if it was interrupted, or is settled.
LEMMA LandsSpares == ASSUME ShapeInv, BudgetAt, Lands PROVE Spares
<1>1. RowsInv /\ graph \in Graphs /\ RowKinds /\ todo # <<>> /\ graph' = graph
  BY Begins DEF Lands, WritesRows
<1>2. PICK K \in SUBSET DOMAIN rows :
        /\ Now = [op |-> "land", keys |-> K] /\ Tail(todo) = <<Rederive, Pass>> /\ Rest = K
        /\ \A k : Without(k) = [op |-> "land", keys |-> K \ {k}]
  BY LandDoing DEF Lands
<1>3. \A k \in First(Rest) : k \in DOMAIN rows
  BY <1>2 DEF First
<1>4. CASE Over /\ rows' = rows
  BY <1>1, <1>4, NoRow, OverSpares
<1>5. ASSUME NEW k \in DOMAIN rows, Then(Without(k)), NEW row,
             row \in {[To(k, "failed") EXCEPT !.note = "interrupted"], To(k, "done")},
             rows' = [rows EXCEPT ![k] = row]
      PROVE  Spares
  <2>1. /\ row.st \in {"failed", "done"} /\ row.work = rows[k].work
        /\ row.note = rows[k].note \/ row.note = "interrupted"
    BY <1>1, <1>5 DEF RowsInv, Rows, To
  <2>2. Narrows
    <3>1. /\ ~ (row.st \in {"pending", "running", "awaiting"}) /\ row.st \notin Gone
          /\ (rows[k].note # "none" => row.note # "none")
      BY <2>1 DEF Gone
    <3> QED
      BY <1>1, <1>5, <2>1, <3>1, OneRow
  <2>3. PICK i : i = [op |-> "land", keys |-> K \ {k}]
    OBVIOUS
  <2>4. i.op = "land" /\ Then(i)
    BY <1>2, <1>5, <2>3
  <2>5. Need(i)'
    BY <2>4, BackNeeds
  <2> QED
    BY <1>1, <2>2, <2>4, <2>5, ThenSpares
<1>6. ASSUME NEW k \in DOMAIN rows, ~ (graph[k[1]].fan > 1), rows' = rows, NEW i,
             i = IF rows[k].work # "none" THEN Applied(k, rows[k].work, "end") ELSE I("reset", k),
             todo' = <<i, Without(k)>> \o Tail(todo)
      PROVE  Spares
  <2>1. rows[k] \in Rows /\ PlainStep(k) /\ (rows[k].work = "reject" => IsReview(k))
    <3>1. k[1] \in Phases /\ k[3] \in Int
      BY <1>1, KeyFacts
    <3>2. graph[k[1]].fan = 1
      <4>1. graph[k[1]].fan \in Nat \ {0}
        BY <1>1, <3>1, GraphFacts
      <4>2. ~ (graph[k[1]].fan > 1)
        BY <1>6
      <4> QED
        BY <4>1, <4>2
    <3>3. k[3] >= 0
      BY <1>1, <1>6, <3>1 DEF RowKinds
    <3> QED
      BY <1>1, <3>2, <3>3, RowFields DEF PlainStep, RowKinds, IsReview
  <2>2. Need(i)'
    <3>1. CASE rows[k].work # "none"
      <4>1. PICK verdict : verdict = rows[k].work
        OBVIOUS
      <4>2. verdict \in Works \ {"none"} /\ i = Applied(k, verdict, "end")
        BY <1>6, <2>1, <3>1, <4>1 DEF Rows
      <4> QED
        BY <1>1, <2>1, <4>1, <4>2, AppliedNeed
    <3>2. CASE rows[k].work = "none"
      <4>1. i = I("reset", k)
        BY <1>6, <3>2
      <4>2. PlainStep(k)'
        BY <1>1, <2>1 DEF PlainStep
      <4> QED
        BY <4>1, <4>2 DEF Need, I
    <3> QED
      BY <3>1, <3>2
  <2>3. PICK l : l = [op |-> "land", keys |-> K \ {k}]
    OBVIOUS
  <2>4. PICK t : t = <<Rederive, Pass>>
    OBVIOUS
  <2>5. todo' = <<i, l>> \o t
    BY <1>2, <1>6, <2>3, <2>4
  <2>6. todo' # <<>> /\ Head(todo') = i
    BY <2>4, <2>5
  <2>7. Need(Head(todo))'
    BY <2>2, <2>6
  <2> QED
    BY <1>1, <1>6, <2>7, NoRow DEF Spares, NeedsMet
<1>7. ASSUME NEW k \in First(Rest), graph[k[1]].fan > 1, Then(Without(k)),
             rows' = [rows EXCEPT ![k] =
                        IF rows[k].work # "none" /\ k[3] >= 0 THEN To(k, "done")
                        ELSE [To(k, "failed") EXCEPT !.note = "interrupted"]]
      PROVE  Spares
  <2>1. PICK row : row = IF rows[k].work # "none" /\ k[3] >= 0 THEN To(k, "done")
                         ELSE [To(k, "failed") EXCEPT !.note = "interrupted"]
    OBVIOUS
  <2>2. /\ rows' = [rows EXCEPT ![k] = row]
        /\ row \in {[To(k, "failed") EXCEPT !.note = "interrupted"], To(k, "done")}
    BY <1>7, <2>1
  <2> QED
    BY <1>3, <1>5, <1>7, <2>2
<1>8. ASSUME NEW k \in First(Rest), ~ (graph[k[1]].fan > 1), rows' = rows,
             todo' = <<IF rows[k].work # "none" THEN Applied(k, rows[k].work, "end") ELSE I("reset", k),
                       Without(k)>> \o Tail(todo)
      PROVE  Spares
  BY <1>3, <1>6, <1>8
<1> QED
  BY <1>4, <1>7, <1>8 DEF Lands

LEMMA ResetsSpares == ASSUME ShapeInv, BudgetAt, Resets PROVE Spares
<1> PICK k : k = Now.key
  OBVIOUS
<1>1. RowsInv /\ graph \in Graphs /\ RowsWithin /\ todo # <<>> /\ k \in DOMAIN rows /\ PlainStep(k) /\ graph' = graph
  <2>1. k \in DOMAIN rows
    BY DoingFacts DEF Resets, RowOps, AllOps
  <2>2. RowsInv /\ graph \in Graphs /\ RowsWithin /\ todo # <<>> /\ Need(Now) /\ Now.op = "reset"
    BY Begins DEF Resets
  <2> QED
    BY <2>1, <2>2 DEF Need, Resets, WritesRows
<1>2. CASE rows' = rows /\ Over
  BY <1>1, <1>2, NoRow, OverSpares
<1>3. ASSUME NEW note \in {"interrupted", "not_reset"}, St(k) = "running",
             rows' = [rows EXCEPT ![k] = [To(k, "failed") EXCEPT !.note = note]],
             NEW i, Then(i), i = ParkRun \/ (MayAttempt(k[1], k[2] + 1) /\ i = Admit(k[1], k[2] + 1))
      PROVE  Spares
  <2>1. PICK row : row = [To(k, "failed") EXCEPT !.note = note]
    OBVIOUS
  <2>2. row.st = "failed" /\ row.note = note /\ row.work = rows[k].work
    BY <1>1, <2>1 DEF RowsInv, Rows, To
  <2>3. InFlight(k) /\ row.st \notin Gone /\ row.note # "none"
    BY <1>3, <2>2 DEF InFlight, Gone
  <2>4. Narrows /\ St(k)' = "failed"
    BY <1>1, <1>3, <2>1, <2>2, <2>3, RowMoves
  <2>5. ~ InFlight(k)'
    BY <2>4 DEF InFlight
  <2>6. MayAttempt(k[1], k[2] + 1) => Need(Admit(k[1], k[2] + 1))'
    BY <1>1, <2>3, <2>4, <2>5, NextMay
  <2>7. Need(i)'
    BY <1>3, <2>6, RunNeeds
  <2> QED
    BY <1>1, <1>3, <2>4, <2>7, ThenSpares
<1>4. ASSUME St(k) = "running", rows' = [rows EXCEPT ![k] = [To(k, "failed") EXCEPT !.note = "interrupted"]],
             Then(IF MayAttempt(k[1], k[2] + 1) THEN Admit(k[1], k[2] + 1) ELSE ParkRun)
      PROVE  Spares
  <2>1. PICK i : i = IF MayAttempt(k[1], k[2] + 1) THEN Admit(k[1], k[2] + 1) ELSE ParkRun
    OBVIOUS
  <2> QED
    BY <1>3, <1>4, <2>1
<1>5. ASSUME St(k) = "running", rows' = [rows EXCEPT ![k] = [To(k, "failed") EXCEPT !.note = "not_reset"]],
             Then(ParkRun)
      PROVE  Spares
  <2>1. PICK i : i = ParkRun
    OBVIOUS
  <2> QED
    BY <1>3, <1>5, <2>1
<1> QED
  BY <1>2, <1>4, <1>5 DEF Resets

LEMMA SettlesSpare ==
  ASSUME ShapeInv, RowsWithin, todo # <<>>, Decides, RestsFailed, Then(SettleFailed(Cursor.key))
  PROVE  Spares
<1>1. PICK i : i = SettleFailed(Cursor.key)
  OBVIOUS
<1>2. Need(i)' /\ Narrows
  BY <1>1, SettleNeed, DecidesNarrows
<1> QED
  BY <1>1, <1>2, ThenSpares

LEMMA RederivesSpares == ASSUME ShapeInv, BudgetAt, Rederives PROVE Spares
<1>1. todo # <<>> /\ RowsWithin /\ Decides /\ Narrows
  BY Begins, DecidesNarrows DEF Rederives
<1>2. CASE Then(ParkRun)
  BY <1>1, <1>2, RunNeeds, ThenSpares
<1>3. CASE RestsFailed /\ Then(SettleFailed(Cursor.key))
  BY <1>1, <1>3, SettlesSpare
<1>4. CASE Over
  BY <1>1, <1>4, OverSpares
<1> QED
  BY <1>2, <1>3, <1>4 DEF Rederives

LEMMA SettlesSpares == ASSUME ShapeInv, BudgetAt, Settles PROVE Spares
<1>1. todo # <<>> /\ RowsWithin /\ Decides
  BY Begins DEF Settles
<1> QED
  BY <1>1, SettlesSpare, MergesFrontierSpares DEF Settles

-----------------------------------------------------------------------------
(* The parts of the commands.                                               *)

LEMMA RejectionsSpares == ASSUME ShapeInv, BudgetAt, Rejections PROVE Spares
<1>1. todo # <<>> /\ Narrows /\ graph' = graph
  BY Begins, DecidesNarrows DEF Rejections
<1>2. PICK k : k = Now.key
  OBVIOUS
<1>3. PICK i : i = Rejection(k)
  OBVIOUS
<1>4. Need(i)'
  BY <1>1, <1>3, RejectionNeed
<1> QED
  BY <1>1, <1>2, <1>3, <1>4, ThenSpares DEF Rejections

LEMMA ReadmitsSpares == ASSUME ShapeInv, BudgetAt, Readmits PROVE Spares
<1> PICK k : k = Now.key
  OBVIOUS
<1> PICK p : p = k[1]
  OBVIOUS
<1> PICK a : a = Last(p) + 1
  OBVIOUS
<1>1. /\ RowsInv /\ graph \in Graphs /\ todo # <<>> /\ MayReadmit(p) /\ p \in Phases
      /\ Narrows /\ graph' = graph /\ rows' = rows
  <2>1. k \in DOMAIN rows
    BY DoingFacts DEF Readmits, RowOps, AllOps
  <2>2. RowsInv /\ graph \in Graphs /\ todo # <<>> /\ Need(Now) /\ Now.op = "readmit"
    BY Begins DEF Readmits
  <2>3. p \in Phases
    BY <2>1, <2>2, KeyFacts
  <2> QED
    BY <2>2, <2>3, DecidesNarrows DEF Need, Readmits
<1>2. Last(p) \in Nat /\ Budget(p) \in Nat
  BY <1>1, BudgetFacts
<1>3. MayCreate(p, a)
  BY <1>1, <1>2 DEF MayCreate, MayReadmit, Room
<1>4. PICK i : i = I("admit", <<p, a, 0>>)
  OBVIOUS
<1>5. i.op = "admit" /\ i.key[1] = p /\ i.key[2] = a
  BY <1>4 DEF I
<1>6. Need(i)
  BY <1>3, <1>5 DEF Need
<1>7. Need(i)'
  BY <1>1, <1>6, NeedSame
<1>8. Then(i)
  BY <1>4 DEF Readmits, Admit
<1> QED
  BY <1>1, <1>7, <1>8, ThenSpares

LEMMA WalksOnSpares == ASSUME ShapeInv, BudgetAt, WalksOn PROVE Spares
<1>1. todo # <<>> /\ Narrows
  BY Begins, DecidesNarrows DEF WalksOn
<1> PICK k : k = Now.key
  OBVIOUS
<1>2. CASE Then(Unpark(k, "settle", TRUE))
  BY <1>1, <1>2, RunNeeds, ThenSpares
<1>3. CASE Over
  BY <1>1, <1>3, OverSpares
<1> QED
  BY <1>2, <1>3 DEF WalksOn

LEMMA ApprovesRowSpares == ASSUME ShapeInv, BudgetAt, ApprovesRow PROVE Spares
<1> PICK k : k = Now.key
  OBVIOUS
<1> PICK row : row = [rows[k] EXCEPT !.st = "done", !.ans = "approved"]
  OBVIOUS
<1> PICK i : i = Unpark(k, "merge", FALSE)
  OBVIOUS
<1>1. RowsInv /\ todo # <<>> /\ Moves(k, "awaiting", row, i)
  BY Begins DEF ApprovesRow
<1>2. k \in DOMAIN rows
  BY DoingFacts DEF ApprovesRow, RowOps, AllOps
<1>3. row.st = "done" /\ row.note = rows[k].note /\ row.work = rows[k].work
  BY <1>1, <1>2, RowParts
<1>4. row.st \notin Gone
  BY <1>3 DEF Gone
<1>5. Need(i)'
  BY RunNeeds
<1> QED
  BY <1>1, <1>2, <1>3, <1>4, <1>5, MovesSpares

\* The step that is retried is superseded, and its phase has room for the next attempt.
LEMMA RetriesRowSpares == ASSUME ShapeInv, BudgetAt, RetriesRow PROVE Spares
<1> PICK k : k = Now.key
  OBVIOUS
<1> PICK p : p = k[1]
  OBVIOUS
<1> PICK must : must = Now.must
  OBVIOUS
<1>1. RowsInv /\ graph \in Graphs /\ todo # <<>> /\ k \in DOMAIN rows /\ RetryNeed(k) /\ graph' = graph /\ p \in Phases
  <2>1. k \in DOMAIN rows
    BY DoingFacts DEF RetriesRow, RowOps, AllOps
  <2>2. RowsInv /\ graph \in Graphs /\ todo # <<>> /\ Need(Now) /\ Now.op = "retry"
    BY Begins DEF RetriesRow
  <2>3. p \in Phases
    BY <2>1, <2>2, KeyFacts
  <2> QED
    BY <2>1, <2>2, <2>3 DEF Need, RetriesRow, Moves, WritesRows
<1>2. CASE rows' = rows /\ Ends
  BY <1>1, <1>2, NoRow, OverSpares
<1>3. CASE /\ St(k) = "awaiting"
           /\ rows' = [rows EXCEPT ![k] = [rows[k] EXCEPT !.st = "superseded", !.ans = "retried"]]
           /\ Then(Unpark(k, "readmit", must))
  <2>1. PICK row : row = [rows[k] EXCEPT !.st = "superseded", !.ans = "retried"]
    OBVIOUS
  <2>2. row.st = "superseded" /\ row.note = rows[k].note /\ row.work = rows[k].work
    BY <1>1, <2>1, RowParts
  <2>3. InFlight(k) /\ PlainStep(k) /\ (Free(p) => k[2] = Last(p) /\ Room(p))
    BY <1>1, <1>3 DEF InFlight, RetryNeed
  <2>4. Narrows /\ St(k)' = "superseded"
    <3>1. ~ (row.st \in {"pending", "running", "awaiting"})
      BY <2>2
    <3> QED
      BY <1>1, <1>3, <2>1, <2>2, <2>3, <3>1, OneRow
  <2>5. MayReadmit(p)'
    <3> SUFFICES ASSUME Free(p)' PROVE Room(p)' /\ AtRest(p)'
      BY DEF MayReadmit
    <3>1. Free(p)
      BY <1>1, FreeSame
    <3>2. k[2] = Last(p) /\ Room(p)
      BY <2>3, <3>1
    <3>3. Room(p)' /\ Latest(p)' = Latest(p)
      BY <1>1, <2>4, <3>2, NarrowsFacts
    <3>4. \A j \in Latest(p) : j = k
      BY <1>1, <2>3, <3>2, SoleLatest
    <3>5. ~ InFlight(k)'
      BY <2>4 DEF InFlight
    <3> QED
      BY <3>3, <3>4, <3>5 DEF AtRest
  <2>6. PICK i : i = Unpark(k, "readmit", must)
    OBVIOUS
  <2>7. i.op = "unpark" /\ i.key = k /\ i.then = "readmit"
    BY <2>6 DEF Unpark
  <2>8. Need(i)'
    BY <2>5, <2>7 DEF Need
  <2> QED
    BY <1>1, <1>3, <2>4, <2>6, <2>8, ThenSpares
<1> QED
  BY <1>2, <1>3 DEF RetriesRow, Moves

LEMMA UnparksSpares == ASSUME ShapeInv, BudgetAt, Unparks PROVE Spares
<1> PICK k : k = Now.key
  OBVIOUS
<1> PICK then : then = Now.then
  OBVIOUS
<1>1. /\ todo # <<>> /\ Need(Now) /\ IsInstr(Now) /\ Now.op = "unpark" /\ graph' = graph /\ rows' = rows /\ Narrows
  <2>1. IsInstr(Now)
    BY DoingFacts DEF Unparks, OtherOps, AllOps
  <2>2. todo # <<>> /\ Need(Now) /\ Now.op = "unpark"
    BY Begins DEF Unparks
  <2> QED
    BY <2>1, <2>2, NoRow DEF Unparks
<1>2. CASE Over \/ Ends
  BY <1>1, <1>2, OverSpares
<1>3. CASE Then(I(then, k))
  <2>1. then \in {"merge", "rejection", "settle"} \/ then = "readmit" \/ then = "admit"
    BY <1>1 DEF IsInstr
  <2>2. PICK i : i = I(then, k)
    OBVIOUS
  <2>3. i.op = then /\ i.key = k
    BY <2>2 DEF I
  <2>4. Need(i)'
    <3>1. CASE then \in {"merge", "rejection", "settle"}
      BY <2>2, <3>1, RunNeeds
    <3>2. CASE then = "readmit"
      <4>1. Need(i)
        BY <1>1, <2>3, <3>2 DEF Need
      <4> QED
        BY <1>1, <4>1, NeedSame
    <3>3. CASE then = "admit"
      <4>1. Need(i)
        BY <1>1, <2>3, <3>3 DEF Need
      <4> QED
        BY <1>1, <4>1, NeedSame
    <3> QED
      BY <2>1, <3>1, <3>2, <3>3
  <2> QED
    BY <1>1, <1>3, <2>2, <2>4, ThenSpares
<1> QED
  BY <1>2, <1>3 DEF Unparks

\* Where the run is not cancelled.
LEMMA NoCancels == ASSUME ShapeInv, BudgetAt, CancelsRun \/ CancelsRows PROVE FALSE
BY Begins DEF CancelsRun, CancelsRows, Need

LEMMA ServesSpares == ASSUME ShapeInv, BudgetAt, Serves PROVE Spares
BY RecoversSpares, LandsSpares, ResetsSpares, RederivesSpares, NoCancels, ApprovesRowSpares, RetriesRowSpares,
   UnparksSpares, RejectionsSpares, ReadmitsSpares, WalksOnSpares, SettlesSpares
   DEF Serves

-----------------------------------------------------------------------------
(* The walk, and what is not a step of it.                                  *)

\* Whoever waits is overtaken; a retry keeps what it needs all the same.
LEMMA WalksWithin ==
  ASSUME ShapeInv, BudgetAt, Walks
  PROVE  BudgetAt'
<1>1. Advances
  BY StepAdvances, GroupSpares, ServesSpares, SparesAdvances DEF Walks
<1>2. asked' = asked /\ old' = old \cup {h \in People : asked[h] # <<>>}
  BY DEF Walks
<1>3. ASSUME NEW h \in People, asked[h] # <<>>
      PROVE  /\ asked[h][1].op = "retry" => Need(asked[h][1])'
             /\ asked[h][1].op = "reject" => asked[h][1].by = "person"
             /\ h \in old'
  <2>1. PICK i : i = asked[h][1]
    OBVIOUS
  <2>2. (i.op = "retry" => Need(i)) /\ (i.op = "reject" => i.by = "person") /\ IsInstr(i)
    BY <1>3, <2>1 DEF BudgetAt, AskedWithin, ShapeInv, AskedInv
  <2>3. ASSUME i.op = "retry" PROVE Need(i)'
    <3>1. PICK k : k = i.key
      OBVIOUS
    <3>2. k \in DOMAIN rows /\ RetryNeed(k) /\ i.then = "readmit"
      BY <2>2, <2>3, <3>1 DEF IsInstr, RowOps, Need
    <3>3. RetryNeed(k)'
      BY <1>1, <3>2 DEF Advances
    <3> QED
      BY <2>3, <3>1, <3>2, <3>3 DEF Need
  <2>4. asked'[h][1] = i /\ h \in old'
    BY <1>2, <1>3, <2>1
  <2> QED
    BY <2>1, <2>2, <2>3, <2>4
<1>4. AskedWithin'
  BY <1>2, <1>3 DEF AskedWithin
<1> QED
  BY <1>1, <1>4 DEF Advances, BudgetAt

\* The same rows: all that was said of them, and of the commands that stay on their way.
LEMMA SameWithin ==
  ASSUME ShapeInv, BudgetAt, graph' = graph, rows' = rows
  PROVE  /\ RowsWithin'
         /\ todo' = todo => NeedsMet'
         /\ asked' = asked /\ old' = old => AskedWithin'
<1>1. RowsWithin'
  BY NoRow, NarrowsWithin DEF ShapeInv, Counters, BudgetAt
<1>2. ASSUME todo' = todo PROVE NeedsMet'
  <2>1. PICK i : i = Head(todo)
    OBVIOUS
  <2>2. todo # <<>> => Need(i)'
    BY <2>1, NeedSame DEF BudgetAt, NeedsMet
  <2>3. Head(todo') = i
    BY <1>2, <2>1
  <2> QED
    BY <1>2, <2>2, <2>3 DEF NeedsMet
<1>3. ASSUME asked' = asked, old' = old PROVE AskedWithin'
  <2> SUFFICES ASSUME NEW h \in People, asked[h] # <<>>
               PROVE  /\ asked'[h][1].op = "retry" => Need(asked[h][1])'
                      /\ asked'[h][1].op = "reject" => asked'[h][1].by = "person"
                      /\ h \notin old => Need(asked[h][1])'
    BY <1>3 DEF AskedWithin
  <2>1. PICK i : i = asked[h][1]
    OBVIOUS
  <2>2. asked'[h][1] = i
    BY <1>3, <2>1
  <2>3. /\ i.op = "retry" => Need(i)
        /\ i.op = "reject" => i.by = "person"
        /\ h \notin old => Need(i)
    BY <2>1 DEF BudgetAt, AskedWithin
  <2> QED
    BY <2>1, <2>2, <2>3, NeedSame
<1> QED
  BY <1>1, <1>2, <1>3

\* A sweep starts, or a walk is dropped.
LEMMA StartsWithin ==
  ASSUME ShapeInv, BudgetAt, Sweeps \/ Drops
  PROVE  BudgetAt'
<1>1. graph' = graph /\ rows' = rows /\ asked' = asked /\ old' = old
  BY DEF Sweeps, Drops, rowVars
<1>2. NeedsMet'
  <2>1. CASE Drops
    BY <2>1 DEF Drops, NeedsMet
  <2>2. CASE Sweeps
    <3>1. PICK i : i = I("recover", <<0, 0, 0>>)
      OBVIOUS
    <3>2. i.op = "recover"
      BY <3>1 DEF I
    <3>3. PICK j : j = I("rederive", <<0, 0, 0>>)
      OBVIOUS
    <3>4. PICK l : l = Pass
      OBVIOUS
    <3>5. todo' = <<i, j, l>>
      BY <2>2, <3>1, <3>3, <3>4 DEF Sweeps
    <3>6. Head(todo') = i
      BY <3>5
    <3>7. Need(i)'
      BY <3>2, FreeNeeds
    <3> QED
      BY <3>6, <3>7 DEF NeedsMet
  <2> QED
    BY <2>1, <2>2
<1> QED
  BY <1>1, <1>2, SameWithin DEF BudgetAt

-----------------------------------------------------------------------------
(* The commands: read, and carried out later.                               *)

LEMMA AsksWithin ==
  ASSUME ShapeInv, BudgetAt, NEW h \in People, NEW i, Asks(h, i), Need(i)', i.op = "reject" => i.by = "person"
  PROVE  BudgetAt'
<1>1. graph' = graph /\ rows' = rows /\ todo' = todo /\ old' = old
  BY DEF Asks, rowVars
<1>2. PICK f : f = asked'
  OBVIOUS
<1>3. \A g \in People : f[g] = IF g = h THEN <<i>> ELSE asked[g]
  BY <1>2 DEF Asks, ShapeInv, AskedInv
<1>4. ASSUME NEW g \in People, f[g] # <<>>
      PROVE  /\ f[g][1].op = "retry" => Need(f[g][1])'
             /\ f[g][1].op = "reject" => f[g][1].by = "person"
             /\ g \notin old => Need(f[g][1])'
  <2>1. PICK j : j = f[g][1]
    OBVIOUS
  <2>2. CASE g = h
    <3>1. j = i
      BY <1>3, <2>1, <2>2
    <3> QED
      BY <2>1, <3>1
  <2>3. CASE g # h
    <3>1. asked[g] # <<>> /\ j = asked[g][1]
      BY <1>3, <1>4, <2>1, <2>3
    <3>2. /\ j.op = "retry" => Need(j)
          /\ j.op = "reject" => j.by = "person"
          /\ g \notin old => Need(j)
      BY <3>1 DEF BudgetAt, AskedWithin
    <3> QED
      BY <1>1, <2>1, <3>2, NeedSame
  <2> QED
    BY <2>2, <2>3
<1>5. AskedWithin'
  BY <1>1, <1>2, <1>4 DEF AskedWithin
<1> QED
  BY <1>1, <1>5, SameWithin DEF BudgetAt

\* A step may be retried: its attempt is the only row of it in hand, and its phase has room.
LEMMA RetriesWithin ==
  ASSUME ShapeInv, BudgetAt, NEW h \in People, Retries(h)
  PROVE  BudgetAt'
<1>1. PICK k \in DOMAIN rows :
        /\ graph[k[1]].fan = 1 /\ St(k) \in {"awaiting", "failed"} /\ k[2] = Last(k[1])
        /\ MayAttempt(k[1], k[2] + 1) \/ (St(k) = "failed" /\ rows[k].note # "none")
        /\ LET unpark == Unpark(k, "readmit", run = "awaiting")
           IN  Asks(h, IF St(k) = "awaiting" THEN [unpark EXCEPT !.op = "retry"] ELSE unpark)
  BY DEF Retries
<1> PICK p : p = k[1]
  OBVIOUS
<1>2. /\ RowsInv /\ graph \in Graphs /\ RowsWithin /\ RowKinds /\ p \in Phases /\ k[3] \in Int
      /\ graph' = graph /\ rows' = rows
  <2>1. RowsInv /\ graph \in Graphs /\ RowsWithin /\ RowKinds
    BY DEF ShapeInv, Counters, BudgetAt, RowsWithin
  <2>2. graph' = graph /\ rows' = rows
    BY <1>1 DEF Asks, rowVars
  <2> QED
    BY <1>1, <2>1, <2>2, KeyFacts
<1>3. PlainStep(k)
  <2>1. ~ (graph[k[1]].fan > 1)
    BY <1>1
  <2>2. k[3] >= 0
    BY <1>1, <1>2, <2>1 DEF RowKinds
  <2> QED
    BY <1>1, <2>2 DEF PlainStep
<1>4. Last(p) \in Nat /\ Last(p) + 1 \in Nat /\ Budget(p) \in Nat
  BY <1>2, BudgetFacts
<1>5. ASSUME Free(p) PROVE Room(p)
  <2>1. CASE MayAttempt(p, Last(p) + 1)
    <3>1. Last(p) + 1 <= Budget(p)
      BY <1>2, <1>4, <2>1, BudgetFacts
    <3> QED
      BY <1>4, <3>1 DEF Room
  <2>2. CASE rows[k].note # "none"
    <3>1. k \in Latest(p)
      BY <1>1, <1>3 DEF Latest, Group, At, PlainStep
    <3> QED
      BY <1>2, <1>5, <2>2, <3>1 DEF RowsWithin, Within
  <2> QED
    BY <1>1, <2>1, <2>2
<1>6. PICK unpark : unpark = Unpark(k, "readmit", run = "awaiting")
  OBVIOUS
<1>7. unpark.op = "unpark" /\ unpark.key = k /\ unpark.then = "readmit"
  BY <1>6 DEF Unpark
<1>8. PICK retry : retry = [unpark EXCEPT !.op = "retry"]
  OBVIOUS
<1>9. retry.op = "retry" /\ retry.key = k /\ retry.then = "readmit"
  BY <1>6, <1>8 DEF Unpark
<1>10. CASE St(k) = "awaiting"
  <2>1. Asks(h, retry)
    BY <1>1, <1>6, <1>8, <1>10
  <2>2. RetryNeed(k)
    BY <1>1, <1>3, <1>5 DEF RetryNeed
  <2>3. Need(retry)
    BY <1>9, <2>2 DEF Need
  <2>4. Need(retry)'
    BY <1>2, <2>3, NeedSame
  <2> QED
    BY <1>9, <2>1, <2>4, AsksWithin
<1>11. CASE St(k) = "failed"
  <2>1. Asks(h, unpark)
    BY <1>1, <1>6, <1>11
  <2>2. AtRest(p)
    <3>1. \A j \in Latest(p) : j = k
      BY <1>1, <1>2, <1>3, SoleLatest
    <3> QED
      BY <1>11, <3>1 DEF AtRest, InFlight
  <2>3. MayReadmit(k[1])
    BY <1>5, <2>2 DEF MayReadmit
  <2>4. Need(unpark)
    BY <1>7, <2>3 DEF Need
  <2>5. Need(unpark)'
    BY <1>2, <2>4, NeedSame
  <2> QED
    BY <1>7, <2>1, <2>5, AsksWithin
<1> QED
  BY <1>1, <1>10, <1>11

LEMMA RetriesGroupWithin ==
  ASSUME ShapeInv, BudgetAt, NEW h \in People, RetriesGroup(h)
  PROVE  BudgetAt'
<1>1. PICK p \in Phases : MayAttempt(p, Last(p) + 1) /\ Asks(h, Retire(<<p, Last(p), 0>>, {p}, "unpark"))
  BY DEF RetriesGroup
<1>2. RowsInv /\ graph \in Graphs /\ graph' = graph /\ rows' = rows
  BY <1>1 DEF ShapeInv, Counters, Asks, rowVars
<1>3. Room(p)
  <2>1. Last(p) \in Nat /\ Last(p) + 1 \in Nat /\ Budget(p) \in Nat
    BY <1>2, BudgetFacts
  <2>2. Last(p) + 1 <= Budget(p)
    BY <1>1, <1>2, <2>1, BudgetFacts
  <2> QED
    BY <2>1, <2>2 DEF Room
<1>4. PICK i : i = Retire(<<p, Last(p), 0>>, {p}, "unpark")
  OBVIOUS
<1> DEFINE slots == {j \in DOMAIN rows : j[1] \in {p} /\ j[2] = Last(j[1]) /\ St(j) \notin Gone}
<1>5. i.op = "retire" /\ i.key = <<p, Last(p), 0>> /\ i.keys = slots /\ i.then = "unpark"
  BY <1>4 DEF Retire
<1>6. i.key[1] = p /\ i.key[2] = Last(p)
  BY <1>5
<1>7. \A k \in Latest(p) : InFlight(k) => k \in i.keys
  <2>1. \A k \in Latest(p) : k \in DOMAIN rows /\ k[1] = p /\ k[2] = Last(p)
    BY InGroup DEF Latest
  <2>2. \A k \in DOMAIN rows : InFlight(k) => St(k) \notin Gone
    BY DEF InFlight, Gone
  <2> QED
    BY <1>5, <2>1, <2>2
<1>8. \A k \in i.keys : k[1] = p
  BY <1>5
<1>9. RetireNeed(i)
  BY <1>3, <1>6, <1>7, <1>8 DEF RetireNeed
<1>10. Need(i)
  BY <1>5, <1>9 DEF Need
<1>11. Need(i)'
  BY <1>2, <1>10, NeedSame
<1> QED
  BY <1>1, <1>4, <1>5, <1>11, AsksWithin

LEMMA CommandsWithin ==
  ASSUME ShapeInv, BudgetAt, NEW h \in People,
         Approves(h) \/ Rejects(h) \/ Retries(h) \/ RetriesGroup(h) \/ Picks(h) \/ Resumes(h)
  PROVE  BudgetAt'
<1>1. CASE Approves(h)
  <2>1. PICK k : Asks(h, I("approve", k))
    BY <1>1 DEF Approves
  <2>2. PICK i : i = I("approve", k)
    OBVIOUS
  <2>3. i.op = "approve" /\ Need(i)'
    BY <2>2, FreeNeeds DEF I
  <2> QED
    BY <2>1, <2>2, <2>3, AsksWithin
<1>2. CASE Rejects(h)
  <2>1. PICK k : Asks(h, Reject(k, "person"))
    BY <1>2 DEF Rejects
  <2>2. PICK i : i = Reject(k, "person")
    OBVIOUS
  <2>3. i.by = "person" /\ Need(i)'
    BY <2>2, RunNeeds DEF Reject
  <2> QED
    BY <2>1, <2>2, <2>3, AsksWithin
<1>3. CASE Picks(h)
  <2>1. PICK k : Asks(h, Select(k, "person"))
    BY <1>3 DEF Picks
  <2>2. PICK i : i = Select(k, "person")
    OBVIOUS
  <2>3. i.op = "select" /\ Need(i)'
    BY <2>2, FreeNeeds DEF Select
  <2> QED
    BY <2>1, <2>2, <2>3, AsksWithin
<1>4. CASE Resumes(h)
  <2>1. PICK i : i = I("resume", <<0, 0, 0>>)
    OBVIOUS
  <2>2. Asks(h, i)
    BY <1>4, <2>1 DEF Resumes
  <2>3. i.op = "resume" /\ Need(i)'
    BY <2>1, FreeNeeds DEF I
  <2> QED
    BY <2>2, <2>3, AsksWithin
<1> QED
  BY <1>1, <1>2, <1>3, <1>4, RetriesWithin, RetriesGroupWithin

\* A command whose turn comes has what it needs: it keeps it, or nothing came before it.
LEMMA TakesWithin ==
  ASSUME ShapeInv, BudgetAt, NEW h \in People, ~ late', Takes(h)
  PROVE  BudgetAt'
<1>1. graph' = graph /\ rows' = rows
  BY DEF Takes, rowVars
<1>2. PICK i : i = asked[h][1]
  OBVIOUS
<1>3. /\ asked[h] = <<i>> /\ i.op \in AskedOps
      /\ i.op = "retry" => Need(i)
      /\ i.op = "reject" => i.by = "person"
      /\ h \notin old => Need(i)
  BY <1>2 DEF Takes, ShapeInv, AskedInv, BudgetAt, AskedWithin
<1>4. Need(i)'
  <2>1. Head(asked[h]) = i
    BY <1>3
  <2>2. h \notin old \/ i.op = "approve" \/ i.op = "reject" \/ i.op = "retry"
    BY <2>1 DEF Takes, Guarded
  <2>3. CASE i.op = "approve"
    BY <2>3, FreeNeeds
  <2>4. CASE i.op = "reject"
    BY <1>3, <2>4 DEF Need
  <2>5. CASE h \notin old \/ i.op = "retry"
    BY <1>1, <1>3, <2>5, NeedSame
  <2> QED
    BY <2>2, <2>3, <2>4, <2>5
<1>5. PICK t : t = IF tails = "walk" THEN <<Pass>> ELSE <<>>
  OBVIOUS
<1>6. IsBack(t) /\ todo' = <<i>> \o t
  BY <1>3, <1>5 DEF IsBack, Takes
<1>7. Head(todo') = i
  BY <1>6, BackIsSeq
<1>8. NeedsMet'
  BY <1>4, <1>7 DEF NeedsMet
<1>9. PICK f : f = asked'
  OBVIOUS
<1>10. \A g \in People : f[g] = IF g = h THEN <<>> ELSE asked[g]
  BY <1>9 DEF Takes, ShapeInv, AskedInv
<1>11. ASSUME NEW g \in People, f[g] # <<>>
       PROVE  /\ f[g][1].op = "retry" => Need(f[g][1])'
              /\ f[g][1].op = "reject" => f[g][1].by = "person"
              /\ g \notin old' => Need(f[g][1])'
  <2>1. PICK j : j = f[g][1]
    OBVIOUS
  <2>2. g # h /\ asked[g] # <<>> /\ j = asked[g][1]
    BY <1>10, <1>11, <2>1
  <2>3. g \notin old' => g \notin old
    BY <2>2 DEF Takes
  <2>4. /\ j.op = "retry" => Need(j)
        /\ j.op = "reject" => j.by = "person"
        /\ g \notin old => Need(j)
    BY <2>2 DEF BudgetAt, AskedWithin
  <2> QED
    BY <1>1, <2>1, <2>3, <2>4, NeedSame
<1>12. AskedWithin'
  BY <1>9, <1>11 DEF AskedWithin
<1> QED
  BY <1>1, <1>8, <1>12, SameWithin DEF BudgetAt

-----------------------------------------------------------------------------
(* The theorems.                                                            *)

LEMMA BudgetInit ==
  ASSUME Init
  PROVE  BudgetInv
<1>1. RowsInv /\ graph \in Graphs
  BY ShapeInit DEF ShapeInv, Counters
<1>2. DOMAIN rows = {} /\ todo = <<>> /\ (\A h \in People : asked[h] = <<>>)
  BY DEF Init
<1>3. ASSUME NEW p \in Phases PROVE Within(p)
  <2>1. At(p) = {} /\ Latest(p) = {}
    BY <1>2 DEF At, Latest, Group
  <2>2. Last(p) = 0
    BY <1>1, <2>1, LastFacts
  <2>3. Room(p) /\ Last(p) <= Budget(p)
    <3>1. graph[p].limit \in Nat /\ graph[p].limit + 1 <= Budget(p) /\ Budget(p) \in Nat
      BY <1>1, GraphFacts, BudgetFacts
    <3> QED
      BY <2>2, <3>1 DEF Room
  <2> QED
    BY <2>1, <2>3 DEF Within
<1> QED
  BY <1>2, <1>3 DEF BudgetInv, BudgetAt, RowsWithin, RowKinds, NeedsMet, AskedWithin

LEMMA BudgetNext ==
  ASSUME ShapeInv, BudgetInv, [Next]_vars
  PROVE  BudgetInv'
<1> SUFFICES ASSUME ~ late', cancel' = "none" PROVE BudgetAt'
  BY DEF BudgetInv
<1>1. CASE Walks
  BY <1>1, WalksWithin DEF BudgetInv, Walks
<1>2. CASE Sweeps
  BY <1>2, StartsWithin DEF BudgetInv, Sweeps, history
<1>3. CASE Drops
  BY <1>3, StartsWithin DEF BudgetInv, Drops
<1>4. ASSUME graph' = graph, rows' = rows, todo' = todo, asked' = asked, old' = old, late' = late, cancel' = cancel
      PROVE  BudgetAt'
  BY <1>4, SameWithin DEF BudgetInv, BudgetAt
<1>5. CASE Unblocks
  BY <1>4, <1>5 DEF Unblocks, history
<1>6. CASE RequestsCancel \/ TakesCancel
  BY <1>6 DEF RequestsCancel, TakesCancel
<1>7. ASSUME NEW h \in People, Takes(h) PROVE BudgetAt'
  BY <1>7, TakesWithin DEF BudgetInv, Takes
<1>8. ASSUME NEW h \in People,
             Approves(h) \/ Rejects(h) \/ Retries(h) \/ RetriesGroup(h) \/ Picks(h) \/ Resumes(h)
      PROVE  BudgetAt'
  <2>1. PICK i : Asks(h, i)
    BY <1>8 DEF Approves, Rejects, Retries, RetriesGroup, Picks, Resumes
  <2> QED
    BY <1>8, <2>1, CommandsWithin DEF BudgetInv, Asks, history
<1>9. CASE UNCHANGED vars
  BY <1>4, <1>9 DEF vars, rowVars, history
<1> QED
  BY <1>1, <1>2, <1>3, <1>5, <1>6, <1>7, <1>8, <1>9 DEF Next, Commands

\* Wherever the walk stands, each phase no review sends back is within its budget, has room for
\* one more attempt where the cursor would admit one or a note lets a person ask for it, and what
\* comes next finds the room it needs: the inductive invariant of the attempts (status.rs,
\* may_attempt; engine.rs, admit and retry_step; recover.rs).
THEOREM BudgetHolds == Spec => []BudgetInv
<1>1. Init => BudgetInv
  BY BudgetInit
<1>2. ShapeInv /\ BudgetInv /\ [Next]_vars => BudgetInv'
  BY BudgetNext
<1> QED
  BY <1>1, <1>2, ShapeHolds, PTL DEF Spec

\* A phase outside every review loop has at most retry_limit + 1 attempts and one for each that
\* was interrupted, for any graph, limits, people, crashes and commands (status.rs, may_attempt).
THEOREM BudgetedHolds == Spec => []Budgeted
<1>1. BudgetInv => Budgeted
  BY DEF BudgetInv, BudgetAt, RowsWithin, Within, Free, Budget, Noted, Budgeted
<1> QED
  BY <1>1, BudgetHolds, PTL
=============================================================================
