--------------------------- MODULE StepFrontProofs ---------------------------
(***************************************************************************)
(* Theorems about StepWalk, continued: where the front of a run is. The    *)
(* rows in flight belong to the latest attempt of the first phase nobody   *)
(* won, and a run that ended has none that runs or awaits. The inductive   *)
(* invariant says so of the rows (RowsAt) and says of every instruction    *)
(* what holds of the rows when its turn comes (Pre).                       *)
(***************************************************************************)
EXTENDS StepWalkProofs

-----------------------------------------------------------------------------
(* The invariant of the rows. R is what a rejection is about to retire: the *)
(* one exception to what is beyond an open position being gone.             *)

Idle     == \A k \in DOMAIN rows : St(k) \notin {"running", "awaiting"}
Quiet    == \A k \in DOMAIN rows : St(k) # "running"
NoFlight == \A k \in DOMAIN rows : ~ InFlight(k)
Reached(p) == \A q \in Phases : q < p => Won(q) # {}
Chosen(p)  == \E k \in Group(p, Last(p)) : rows[k].sel
Dead == {"failed"} \cup Gone

Plain(k) == graph[k[1]].fan = 1
Sole(k)  == graph[k[1]].fan = 1 \/ k[3] < 0

\* An overtaken attempt is settled, and none of its candidates is done.
OldRows ==
  \A k \in DOMAIN rows : k[2] < Last(k[1]) => ~ InFlight(k) /\ (k[3] >= 0 => St(k) \in Dead)

\* Beyond an open position the latest rows are gone, and its groups were chosen from.
Beyond(R) ==
  \A p, q \in Phases : p < q /\ Won(p) = {} =>
    /\ \A k \in At(q) : k[2] = Last(q) => St(k) \in Gone \/ k \in R
    /\ graph[q].fan > 1 /\ Last(q) > 0 => Chosen(q)

WonIsIdle == \A k \in DOMAIN rows : Won(k[1]) # {} => ~ InFlight(k)

\* A plain step has one row an attempt, and a candidate of a group awaits nobody.
Kinds ==
  \A k \in DOMAIN rows :
    /\ graph[k[1]].fan = 1 => k[3] = 0
    /\ graph[k[1]].fan > 1 /\ k[3] >= 0 => St(k) # "awaiting"

\* A judge is there when every candidate has settled, and goes before they do.
Judged ==
  \A k \in DOMAIN rows : k[3] < 0 =>
    /\ \A j \in Slot(k[1], k[2]) : j \in DOMAIN rows /\ St(j) \notin {"pending", "running"}
    /\ InFlight(k) => \E j \in Slot(k[1], k[2]) : St(j) \notin Gone

\* A selected row is done, until it is retired.
SelectedIsDone == \A k \in DOMAIN rows : rows[k].sel => St(k) \in {"done"} \cup Gone

RunIsQuiet == (run = "awaiting" => Quiet) /\ (run \in TerminalRun => Idle)

Placed(R) == OldRows /\ Beyond(R) /\ WonIsIdle /\ Kinds /\ Judged /\ SelectedIsDone
RowsAt(R) == Placed(R) /\ RunIsQuiet

Retiring == IF Doing("retire") /\ graph[Now.key[1]].fan = 1 THEN Rest ELSE {}

-----------------------------------------------------------------------------
(* What holds when an instruction's turn comes.                             *)

\* The first open position, where an attempt may start or goes on.
Front(p) == Reached(p) /\ Won(p) = {}

\* No candidate of an attempt before a is left.
Spent(p, a) == \A k \in At(p) : k[2] < a /\ k[3] >= 0 => St(k) \in Dead

AdmitPre(p, a) == Front(p) /\ a = Last(p) + 1 /\ NoFlight /\ Spent(p, a)

FailedPre(k) == Plain(k) /\ St(k) = "failed" /\ k[2] = Last(k[1])

ReadmitPre(k) ==
  /\ Plain(k) /\ St(k) \in {"failed", "superseded"} /\ k[2] = Last(k[1])
  /\ Reached(k[1]) /\ NoFlight

GroupPre(p, a) == run = "running" /\ graph[p].fan > 1 /\ Front(p) /\ a = Last(p)

CreatePre(i) ==
  LET p == i.key[1]  a == i.key[2] IN
  /\ Front(p) /\ Last(p) <= a /\ Spent(p, a)
  /\ \A k \in DOMAIN rows : InFlight(k) => k[1] = p /\ k[2] = a
  /\ i.then \in {"none", "fan"} => i.keys \subseteq Slot(p, a)
  /\ i.then \in {"fan", "start"} => GroupPre(p, a) /\ Quiet
  /\ i.then = "fan" => JudgeOf(p, a) \notin DOMAIN rows
  /\ i.then = "start" =>
       /\ i.key = JudgeOf(p, a) /\ i.keys \subseteq {JudgeOf(p, a)}
       /\ \A k \in Slot(p, a) : k \in DOMAIN rows /\ St(k) \notin {"pending", "running"}
       /\ \E k \in Slot(p, a) : St(k) \notin Gone

\* The rows a retirement goes through are as they were read. A rejection's are what is left from
\* its target on, a slot's are the slot's.
RetirePre(i) ==
  LET p == i.key[1] IN
  /\ \A k \in i.keys : St(k) = i.was[k] /\ St(k) \notin Gone /\ k[2] = Last(k[1])
  /\ Won(p) = {}
  /\ graph[p].fan = 1 =>
       /\ i.then = "none" /\ NoFlight
       /\ \A k \in i.keys : k[1] <= p
       /\ \A q \in Phases : q < p /\ graph[q].fan > 1 => Chosen(q)
       /\ \A k \in DOMAIN rows : k[2] = Last(k[1]) /\ St(k) \notin Gone =>
            \A j \in i.keys : j[1] <= k[1] => k \in i.keys
  /\ graph[p].fan > 1 =>
       /\ i.keys \subseteq At(p)
       /\ \A k \in At(p) : k[3] < 0 /\ InFlight(k) => k \in i.keys
       /\ i.then = "unpark" =>
            /\ i.key[2] = Last(p) /\ Reached(p)
            /\ \A k \in At(p) : k[2] = Last(p) /\ St(k) \notin Gone => k \in i.keys

SelectPre(w) ==
  graph[w[1]].fan > 1 /\ Won(w[1]) = {} /\ \A k \in Group(w[1], w[2]) : St(k) # "running"

\* A group's sessions are its candidates', and no other row runs or awaits beside them.
SessionsPre(i) ==
  LET p == i.key[1]  a == i.key[2] IN
  /\ GroupPre(p, a) /\ JudgeOf(p, a) \notin DOMAIN rows
  /\ \A k \in i.wait : St(k) = "pending"
  /\ \A k \in i.live : St(k) = "running"
  /\ i.wait \cup i.live \subseteq Group(p, a)
  /\ \A k \in DOMAIN rows : St(k) \in {"running", "awaiting"} => k \in i.live

RefusePre(i) ==
  /\ run = "running"
  /\ \A k \in i.keys : graph[k[1]].fan > 1 /\ (k[3] >= 0 => JudgeOf(k[1], k[2]) \notin DOMAIN rows)
  /\ \A k \in DOMAIN rows : St(k) \in {"running", "awaiting"} => k \in i.keys

UnparkPre(i) ==
  /\ i.then \in {"merge", "settle"} => Quiet
  /\ i.then = "rejection" => FailedPre(i.key)
  /\ i.then = "readmit" => ReadmitPre(i.key)
  /\ i.then = "admit" => AdmitPre(i.key[1], i.key[2])

Pre(i) ==
  /\ i.op \in {"session", "accept", "spend", "park", "reset"} => Plain(i.key)
  /\ i.op \in {"fail", "gate"} => Sole(i.key)
  /\ i.op = "reject" => i.key[3] >= 0 \/ i.by = "walk"
  /\ i.op = "reject" /\ i.by = "walk" => Sole(i.key)
  /\ i.op = "start" => run = "running" /\ Sole(i.key)
  /\ i.op = "judge" => St(i.key) = "running"
  /\ i.op \in {"merge", "settle", "park_run"} => Quiet
  /\ i.op \in {"loop", "rejection"} => FailedPre(i.key)
  /\ i.op = "readmit" => ReadmitPre(i.key)
  /\ i.op = "admit" => AdmitPre(i.key[1], i.key[2])
  /\ i.op = "create" => CreatePre(i)
  /\ i.op = "retire" => RetirePre(i)
  /\ i.op = "fan" => GroupPre(i.key[1], i.key[2]) /\ Quiet /\ JudgeOf(i.key[1], i.key[2]) \notin DOMAIN rows
  /\ i.op = "choose" =>
       /\ GroupPre(i.key[1], i.key[2]) /\ Quiet
       /\ \A k \in Slot(i.key[1], i.key[2]) : k \in DOMAIN rows /\ St(k) # "pending"
  /\ i.op = "group" => SessionsPre(i)
  /\ i.op = "refuse" => RefusePre(i)
  /\ i.op = "select" => SelectPre(i.key)
  /\ i.op = "unpark" => UnparkPre(i)
  /\ i.op = "retry" => i.then = "readmit"
  /\ i.op \in {"approve", "retry"} => i.key[3] >= 0
  /\ i.op = "cancels" => \A k \in DOMAIN rows : k \in i.keys <=> St(k) \notin TerminalStep
  /\ i.op = "finish" \/ (i.op = "block" /\ i.then = "fail") => Idle
  /\ i.op = "land" => \A k \in i.keys : St(k) = "running"

\* A command on its way, and one that nothing came before: it still stands as it was read.
AskedFits(i) ==
  /\ i.op \in {"approve", "retry", "reject"} => i.key[3] >= 0
  /\ i.op \in {"retry", "unpark"} => i.then = "readmit"
  /\ i.op \in {"reject", "select"} => i.by = "person"
  /\ i.op = "retire" => i.then = "unpark"

AskedFresh(i) ==
  /\ i.op = "unpark" => FailedPre(i.key)
  /\ i.op = "select" => SelectPre(i.key)
  /\ i.op = "retire" =>
       LET p == i.key[1] IN
       /\ graph[p].fan > 1 /\ i.key[2] = Last(p) /\ ~ Chosen(p)
       /\ i.keys = {k \in At(p) : k[2] = Last(p) /\ St(k) \notin Gone}
       /\ \A k \in i.keys : St(k) = i.was[k]

\* A recovery goes on with its other rows only when they are settled.
NoLandBehind ==
  \A K \in SUBSET DOMAIN rows : todo # <<>> /\ Tail(todo) = LandRest(K) => K = {}

WalkInv ==
  /\ RowsAt(Retiring)
  /\ todo # <<>> => Pre(Head(todo))
  /\ NoLandBehind
  /\ \A h \in People : asked[h] # <<>> =>
       AskedFits(asked[h][1]) /\ (h \notin old => AskedFresh(asked[h][1]))

FrontInv == ~ late /\ ~ torn => WalkInv

-----------------------------------------------------------------------------
(* The rows in flight are at the front.                                     *)

LEMMA KeyFacts ==
  ASSUME RowsInv, NEW k \in DOMAIN rows
  PROVE  /\ k[1] \in Phases /\ k[2] \in Nat \ {0} /\ k[3] \in -1..graph[k[1]].fan - 1
         /\ k = <<k[1], k[2], k[3]>> /\ k \in At(k[1])
         /\ k[2] <= Last(k[1]) /\ Last(k[1]) \in Nat
         /\ k[3] >= 0 => k \in Slot(k[1], k[2]) /\ k \in Group(k[1], k[2])
         /\ k[3] < 0 => k = JudgeOf(k[1], k[2])
<1>1. /\ k[1] \in Phases /\ k[2] \in Nat \ {0} /\ k[3] \in -1..graph[k[1]].fan - 1
      /\ k = <<k[1], k[2], k[3]>> /\ k \in At(k[1])
  BY DEF RowsInv, Keys, At
<1>2. k[2] <= Last(k[1]) /\ Last(k[1]) \in Nat
  BY <1>1, LastFacts
<1>3. k[3] >= 0 => k \in Slot(k[1], k[2]) /\ k \in Group(k[1], k[2])
  <2> SUFFICES ASSUME k[3] >= 0 PROVE k \in Slot(k[1], k[2]) /\ k \in Group(k[1], k[2])
    OBVIOUS
  <2>1. k[3] \in 0..graph[k[1]].fan - 1
    BY <1>1
  <2> QED
    BY <1>1, <2>1 DEF Slot, Group
<1>4. k[3] < 0 => k = JudgeOf(k[1], k[2])
  BY <1>1 DEF JudgeOf
<1> QED
  BY <1>1, <1>2, <1>3, <1>4

\* A candidate of a plain phase is its index 0, a row below it the judge's.
LEMMA PlainFacts ==
  ASSUME RowsInv, graph \in Graphs, Kinds, NEW k \in DOMAIN rows
  PROVE  /\ Plain(k) => k[3] = 0
         /\ ~ Plain(k) => graph[k[1]].fan > 1
         /\ k[3] < 0 => graph[k[1]].fan > 1
         /\ St(k) = "awaiting" /\ k[3] >= 0 => Plain(k)
         /\ St(k) = "awaiting" => Sole(k)
         /\ Sole(k) <=> Plain(k) \/ k[3] < 0
<1>1. graph[k[1]].fan \in Nat \ {0} /\ k[3] \in Int
  BY GraphFacts, KeyFacts
<1> QED
  BY <1>1 DEF Kinds, Plain, Sole

LEMMA InFlightIsFront ==
  ASSUME RowsInv, OldRows, Beyond({}), WonIsIdle, NEW k \in DOMAIN rows, InFlight(k)
  PROVE  k[2] = Last(k[1]) /\ Front(k[1])
<1>1. k[1] \in Phases /\ k \in At(k[1])
  BY KeyFacts
<1>2. k[2] = Last(k[1])
  BY KeyFacts DEF OldRows
<1>3. Won(k[1]) = {}
  BY DEF WonIsIdle
<1>4. ASSUME NEW q \in Phases, q < k[1], Won(q) = {} PROVE FALSE
  <2>1. St(k) \in Gone
    BY <1>1, <1>2, <1>4 DEF Beyond
  <2> QED
    BY <2>1 DEF InFlight, Gone
<1> QED
  BY <1>2, <1>3, <1>4 DEF Front, Reached

LEMMA OneFrontOnly ==
  ASSUME graph \in Graphs, NEW p \in Phases, NEW q \in Phases, Front(p), Front(q)
  PROVE  p = q
<1>1. p \in Nat /\ q \in Nat
  BY GraphFacts
<1> QED
  BY <1>1 DEF Front, Reached

\* A plain step, or a judge, is in flight alone.
LEMMA SoleIsAlone ==
  ASSUME RowsInv, graph \in Graphs, Placed({}), NEW k \in DOMAIN rows, InFlight(k), Sole(k),
         NEW j \in DOMAIN rows, InFlight(j)
  PROVE  j = k
<1>1. j[1] = k[1] /\ j[2] = k[2]
  BY InFlightIsFront, OneFrontOnly, KeyFacts DEF Placed
<1>2. /\ j = <<j[1], j[2], j[3]>> /\ k = <<k[1], k[2], k[3]>>
      /\ j[3] \in -1..graph[k[1]].fan - 1 /\ k[3] \in -1..graph[k[1]].fan - 1
      /\ graph[k[1]].fan \in Nat
  BY <1>1, KeyFacts, GraphFacts
<1>3. CASE Plain(k)
  BY <1>1, <1>2, <1>3 DEF Placed, Kinds, Plain
<1>4. CASE k[3] < 0
  <2>1. graph[k[1]].fan > 1
    BY <1>4, PlainFacts DEF Placed
  <2>2. ASSUME j[3] >= 0 PROVE FALSE
    <3>1. j \in Slot(k[1], k[2])
      BY <1>1, <2>2, KeyFacts
    <3>2. St(j) \notin {"pending", "running"}
      BY <1>4, <3>1 DEF Placed, Judged
    <3>3. St(j) = "awaiting"
      BY <3>2 DEF InFlight
    <3> QED
      BY <1>1, <2>1, <2>2, <3>3 DEF Placed, Kinds
  <2>3. j[3] = -1 /\ k[3] = -1
    BY <1>2, <1>4, <2>2
  <2> QED
    BY <1>1, <1>2, <2>3
<1> QED
  BY <1>3, <1>4 DEF Sole, Plain

\* A plain phase whose latest step is neither done nor in flight: nobody won it.
LEMMA PlainOpen ==
  ASSUME RowsInv, Kinds, NEW k \in DOMAIN rows, Plain(k), k[2] = Last(k[1]), St(k) # "done"
  PROVE  Won(k[1]) = {}
<1> SUFFICES ASSUME NEW j \in Won(k[1]) PROVE FALSE
  OBVIOUS
<1>1. j \in DOMAIN rows /\ j[1] = k[1] /\ j[2] = k[2] /\ St(j) = "done"
  BY DEF Won, Group, At
<1>2. j[3] = 0 /\ k[3] = 0
  BY <1>1 DEF Kinds, Plain
<1>3. j = k
  BY <1>1, <1>2, KeyFacts
<1> QED
  BY <1>1, <1>3

LEMMA FailedIsFront ==
  ASSUME RowsInv, graph \in Graphs, Placed({}), NEW k \in DOMAIN rows, FailedPre(k)
  PROVE  NoFlight /\ Front(k[1])
<1>1. Won(k[1]) = {}
  BY PlainOpen DEF FailedPre, Placed
<1>2. Front(k[1])
  <2>1. ASSUME NEW q \in Phases, q < k[1], Won(q) = {} PROVE FALSE
    <3>1. St(k) \in Gone
      BY <2>1, KeyFacts DEF Placed, Beyond, FailedPre
    <3> QED
      BY <3>1 DEF Gone, FailedPre
  <2> QED
    BY <1>1, <2>1 DEF Front, Reached
<1>3. ASSUME NEW j \in DOMAIN rows, InFlight(j) PROVE FALSE
  <2>1. j[1] = k[1] /\ j[2] = k[2]
    BY <1>2, <1>3, InFlightIsFront, OneFrontOnly, KeyFacts DEF Placed, FailedPre
  <2>2. j[3] = 0 /\ k[3] = 0
    BY <2>1 DEF Placed, Kinds, Plain, FailedPre
  <2>3. j = k
    BY <2>1, <2>2, KeyFacts
  <2> QED
    BY <1>3, <2>3 DEF FailedPre, InFlight
<1> QED
  BY <1>2, <1>3 DEF NoFlight

\* No candidate of an overtaken attempt is left, nor of the latest once it is dead.
LEMMA SpentNext ==
  ASSUME RowsInv, OldRows, NEW p \in Phases,
         \A k \in At(p) : k[2] = Last(p) /\ k[3] >= 0 => St(k) \in Dead
  PROVE  Spent(p, Last(p) + 1)
<1> SUFFICES ASSUME NEW k \in At(p), k[2] < Last(p) + 1, k[3] >= 0 PROVE St(k) \in Dead
  BY DEF Spent
<1>1. k \in DOMAIN rows /\ k[1] = p /\ k[2] \in Nat /\ Last(p) \in Nat /\ k[2] <= Last(p)
  BY LastFacts DEF At
<1>2. k[2] = Last(p) \/ k[2] < Last(p)
  BY <1>1
<1> QED
  BY <1>1, <1>2 DEF OldRows

\* What a failed step leads to.
LEMMA FailedAdmits ==
  ASSUME RowsInv, graph \in Graphs, Placed({}), NEW k \in DOMAIN rows, FailedPre(k)
  PROVE  AdmitPre(k[1], k[2] + 1)
<1>1. NoFlight /\ Front(k[1]) /\ k[2] = Last(k[1])
  BY FailedIsFront DEF FailedPre
<1>2. ASSUME NEW j \in At(k[1]), j[2] = Last(k[1]), j[3] >= 0 PROVE St(j) \in Dead
  <2>1. j \in DOMAIN rows /\ j[1] = k[1]
    BY DEF At
  <2>2. j[3] = 0 /\ k[3] = 0
    BY <2>1 DEF Placed, Kinds, Plain, FailedPre
  <2>3. j = k
    BY <1>1, <1>2, <2>1, <2>2, KeyFacts
  <2> QED
    BY <2>3 DEF FailedPre, Dead
<1>3. Spent(k[1], Last(k[1]) + 1)
  BY <1>2, SpentNext, KeyFacts DEF Placed
<1> QED
  BY <1>1, <1>3 DEF AdmitPre

-----------------------------------------------------------------------------
(* What a write leaves as it is.                                            *)

SameShape == graph' = graph /\ DOMAIN rows' = DOMAIN rows

LEMMA ShapeSame ==
  ASSUME SameShape
  PROVE  /\ Phases' = Phases
         /\ \A p : At(p)' = At(p) /\ Last(p)' = Last(p)
         /\ \A p, a : Slot(p, a)' = Slot(p, a) /\ Group(p, a)' = Group(p, a)
<1>1. Phases' = Phases
  BY DEF SameShape, Phases
<1>2. ASSUME NEW p PROVE At(p)' = At(p)
  BY DEF SameShape, At
<1>3. ASSUME NEW p PROVE Last(p)' = Last(p)
  BY <1>2 DEF Last
<1>4. ASSUME NEW p, NEW a PROVE Slot(p, a)' = Slot(p, a) /\ Group(p, a)' = Group(p, a)
  BY <1>2 DEF SameShape, Slot, Group
<1> QED
  BY <1>1, <1>2, <1>3, <1>4

\* The statuses and selections alone are what the invariant of the rows is about.
SameStatus ==
  SameShape /\ \A k \in DOMAIN rows : St(k)' = St(k) /\ rows'[k].sel = rows[k].sel

\* At most one row changes its status, and none whether it is selected.
Only(k) ==
  /\ SameShape
  /\ \A j \in DOMAIN rows : rows'[j].sel = rows[j].sel /\ (j # k => St(j)' = St(j))

LEMMA RowOnly ==
  ASSUME graph' = graph, NEW k \in DOMAIN rows, NEW row, row.sel = rows[k].sel, rows' = [rows EXCEPT ![k] = row]
  PROVE  Only(k) /\ St(k)' = row.st
BY DEF Only, SameShape, St

LEMMA RowSame ==
  ASSUME graph' = graph, NEW k \in DOMAIN rows, NEW row, row.sel = rows[k].sel, row.st = rows[k].st,
         rows' = [rows EXCEPT ![k] = row]
  PROVE  SameStatus
BY DEF SameStatus, SameShape, St

LEMMA RowsSame ==
  ASSUME graph' = graph, rows' = rows
  PROVE  SameStatus
BY DEF SameStatus, SameShape, St

LEMMA InGroup ==
  ASSUME NEW p, NEW a, NEW k \in Group(p, a)
  PROVE  k \in DOMAIN rows /\ k[1] = p /\ k[2] = a /\ k[3] >= 0
BY DEF Group, At

LEMMA WonSame ==
  ASSUME NEW k \in DOMAIN rows, Only(k), RowsInv, graph \in Graphs,
         St(k) # "done", St(k)' # "done" \/ k[3] < 0 \/ (~ Plain(k) /\ ~ rows[k].sel)
  PROVE  \A p : Won(p)' = Won(p)
<1> SUFFICES ASSUME NEW p PROVE Won(p)' = Won(p)
  OBVIOUS
<1>1. Group(p, Last(p))' = Group(p, Last(p)) /\ graph' = graph
  BY ShapeSame DEF Only, SameShape
<1>2. k[3] \in Int
  BY KeyFacts
<1>3. ASSUME NEW j \in Group(p, Last(p))
      PROVE  (St(j) = "done" /\ (rows[j].sel \/ graph[p].fan = 1))'
             <=> (St(j) = "done" /\ (rows[j].sel \/ graph[p].fan = 1))
  <2>1. j \in DOMAIN rows /\ j[1] = p /\ j[3] >= 0
    BY InGroup
  <2>2. CASE j # k
    BY <1>1, <2>1, <2>2 DEF Only
  <2>3. CASE j = k
    BY <1>1, <1>2, <2>1, <2>3 DEF Only, Plain
  <2> QED
    BY <2>2, <2>3
<1> QED
  BY <1>1, <1>3 DEF Won

LEMMA WonLess ==
  ASSUME NEW k \in DOMAIN rows, Only(k), St(k)' # "done"
  PROVE  \A p : Won(p)' = Won(p) \ {k}
<1> SUFFICES ASSUME NEW p PROVE Won(p)' = Won(p) \ {k}
  OBVIOUS
<1>1. Group(p, Last(p))' = Group(p, Last(p)) /\ graph' = graph
  BY ShapeSame DEF Only, SameShape
<1>3. ASSUME NEW j \in Group(p, Last(p))
      PROVE  (St(j) = "done" /\ (rows[j].sel \/ graph[p].fan = 1))'
             <=> (St(j) = "done" /\ (rows[j].sel \/ graph[p].fan = 1) /\ j # k)
  <2>1. j \in DOMAIN rows
    BY InGroup
  <2>2. CASE j # k
    BY <1>1, <2>1, <2>2 DEF Only
  <2>3. CASE j = k
    BY <2>3
  <2> QED
    BY <2>2, <2>3
<1> QED
  BY <1>1, <1>3 DEF Won

-----------------------------------------------------------------------------
(* What the writes of one row do to the invariant of the rows.              *)

LEMMA StatusKeeps ==
  ASSUME SameStatus, NEW R, Placed(R)
  PROVE  Placed(R)' /\ \A p : Won(p)' = Won(p)
<1>1. /\ Phases' = Phases /\ graph' = graph /\ DOMAIN rows' = DOMAIN rows
      /\ \A p : At(p)' = At(p) /\ Last(p)' = Last(p)
      /\ \A p, a : Slot(p, a)' = Slot(p, a) /\ Group(p, a)' = Group(p, a)
      /\ \A j \in DOMAIN rows : St(j)' = St(j) /\ rows'[j].sel = rows[j].sel /\ InFlight(j)' = InFlight(j)
  BY ShapeSame DEF SameStatus, SameShape, InFlight
<1>2. ASSUME NEW p PROVE Won(p)' = Won(p)
  <2>1. \A j \in Group(p, Last(p)) : St(j)' = St(j) /\ rows'[j].sel = rows[j].sel
    BY <1>1, InGroup
  <2> QED
    BY <1>1, <2>1 DEF Won
<1>3. OldRows'
  BY <1>1 DEF Placed, OldRows
<1>4. Beyond(R)'
  <2>1. \A q : \A j \in At(q) : j \in DOMAIN rows
    BY DEF At
  <2>2. \A q : Chosen(q) => Chosen(q)'
    BY <1>1, InGroup DEF Chosen
  <2> QED
    BY <1>1, <1>2, <2>1, <2>2 DEF Placed, Beyond
<1>5. WonIsIdle'
  BY <1>1, <1>2 DEF Placed, WonIsIdle
<1>6. Kinds'
  BY <1>1 DEF Placed, Kinds
<1>7. Judged'
  BY <1>1 DEF Placed, Judged
<1>8. SelectedIsDone'
  BY <1>1 DEF Placed, SelectedIsDone
<1> QED
  BY <1>2, <1>3, <1>4, <1>5, <1>6, <1>7, <1>8 DEF Placed

\* A step in flight moves on or fails, a candidate is done.
LEMMA FlightKeeps ==
  ASSUME RowsInv, graph \in Graphs, Placed({}), NEW k \in DOMAIN rows, Only(k), InFlight(k),
         St(k)' \in {"running", "awaiting", "failed", "done"},
         St(k)' = "awaiting" => Sole(k),
         St(k)' = "done" => ~ Plain(k)
  PROVE  Placed({})' /\ \A p : Won(p)' = Won(p)
<1>1. /\ Phases' = Phases /\ graph' = graph /\ DOMAIN rows' = DOMAIN rows
      /\ \A p : At(p)' = At(p) /\ Last(p)' = Last(p)
      /\ \A p, a : Slot(p, a)' = Slot(p, a) /\ Group(p, a)' = Group(p, a)
      /\ \A j \in DOMAIN rows : rows'[j].sel = rows[j].sel
      /\ \A j \in DOMAIN rows : j # k => St(j)' = St(j) /\ InFlight(j)' = InFlight(j)
  BY ShapeSame DEF Only, SameShape, InFlight
<1>2. St(k) # "done" /\ ~ rows[k].sel /\ k[2] = Last(k[1]) /\ Front(k[1])
  <2>1. St(k) # "done" /\ ~ rows[k].sel
    BY DEF InFlight, Placed, SelectedIsDone, Gone
  <2> QED
    BY <2>1, InFlightIsFront DEF Placed
<1>3. \A p : Won(p)' = Won(p)
  BY <1>2, WonSame
<1>4. OldRows'
  <2>1. k[2] = Last(k[1]) /\ k[2] \in Nat
    BY <1>2, KeyFacts
  <2> QED
    BY <1>1, <2>1 DEF Placed, OldRows
<1>5. Beyond({})'
  <2>1. \A q : \A j \in At(q) : j \in DOMAIN rows /\ j[1] = q
    BY DEF At
  <2>2. \A q : Chosen(q) => Chosen(q)'
    BY <1>1, InGroup DEF Chosen
  <2>3. ASSUME NEW p \in Phases, NEW q \in Phases, p < q, Won(p) = {}, NEW j \in At(q), j[2] = Last(q)
        PROVE  St(j)' \in Gone
    <3>1. St(j) \in Gone
      BY <2>3 DEF Placed, Beyond
    <3>2. j # k
      BY <3>1 DEF Gone, InFlight
    <3> QED
      BY <1>1, <2>1, <3>1, <3>2
  <2> QED
    BY <1>1, <1>3, <2>2, <2>3 DEF Placed, Beyond
<1>6. WonIsIdle'
  <2>1. Won(k[1]) = {}
    BY <1>2 DEF Front
  <2> QED
    BY <1>1, <1>3, <2>1 DEF Placed, WonIsIdle
<1>7. Kinds'
  <2>1. k[3] \in Int
    BY KeyFacts
  <2>2. graph[k[1]].fan > 1 /\ k[3] >= 0 => St(k)' # "awaiting"
    BY <2>1, GraphFacts, KeyFacts DEF Sole
  <2> QED
    BY <1>1, <2>2 DEF Placed, Kinds
<1>8. Judged'
  <2>1. ASSUME NEW j \in DOMAIN rows, j[3] < 0, NEW i \in Slot(j[1], j[2])
        PROVE  i # k /\ i \in DOMAIN rows /\ St(i) \notin {"pending", "running"} /\ St(i)' = St(i)
    <3>1. i \in DOMAIN rows /\ St(i) \notin {"pending", "running"}
      BY <2>1 DEF Placed, Judged
    <3>2. i[1] = j[1] /\ i[3] >= 0
      BY <2>1 DEF Slot
    <3>3. graph[j[1]].fan > 1
      BY <2>1, PlainFacts DEF Placed
    <3>4. i # k
      BY <3>1, <3>2, <3>3 DEF InFlight, Placed, Kinds
    <3> QED
      BY <1>1, <3>1, <3>4
  <2>2. ASSUME NEW j \in DOMAIN rows, j[3] < 0, InFlight(j)' PROVE \E i \in Slot(j[1], j[2]) : St(i)' \notin Gone
    <3>1. InFlight(j)
      BY <1>1, <2>2
    <3>2. \E i \in Slot(j[1], j[2]) : St(i) \notin Gone
      BY <2>2, <3>1 DEF Placed, Judged
    <3> QED
      BY <2>1, <2>2, <3>2
  <2> QED
    BY <1>1, <2>1, <2>2 DEF Judged
<1>9. SelectedIsDone'
  BY <1>1, <1>2 DEF Placed, SelectedIsDone
<1> QED
  BY <1>3, <1>4, <1>5, <1>6, <1>7, <1>8, <1>9 DEF Placed

\* A row is retired. The one of a winner opens its position, so what is beyond it must be gone too.
LEMMA GoneKeeps ==
  ASSUME RowsInv, graph \in Graphs, NEW R, Placed(R), NEW k \in DOMAIN rows, Only(k), St(k)' \in Gone,
         k[3] >= 0 => \A j \in DOMAIN rows : InFlight(j) /\ j[3] < 0 => k \notin Slot(j[1], j[2]),
         k \in Won(k[1]) => \A q \in Phases : k[1] < q =>
           /\ \A j \in At(q) : j[2] = Last(q) => St(j) \in Gone \/ j \in R
           /\ graph[q].fan > 1 /\ Last(q) > 0 => Chosen(q)
  PROVE  Placed(R \ {k})' /\ \A p : Won(p)' = Won(p) \ {k}
<1>1. /\ Phases' = Phases /\ graph' = graph /\ DOMAIN rows' = DOMAIN rows
      /\ \A p : At(p)' = At(p) /\ Last(p)' = Last(p)
      /\ \A p, a : Slot(p, a)' = Slot(p, a) /\ Group(p, a)' = Group(p, a)
      /\ \A j \in DOMAIN rows : rows'[j].sel = rows[j].sel
      /\ \A j \in DOMAIN rows : j # k => St(j)' = St(j) /\ InFlight(j)' = InFlight(j)
  BY ShapeSame DEF Only, SameShape, InFlight
<1>2. ~ InFlight(k)' /\ St(k)' # "done"
  BY DEF InFlight, Gone
<1>3. \A p : Won(p)' = Won(p) \ {k}
  BY <1>2, WonLess
<1>4. OldRows'
  BY <1>1, <1>2 DEF Placed, OldRows, Dead
<1>5. Beyond(R \ {k})'
  <2>1. \A q : \A j \in At(q) : j \in DOMAIN rows /\ j[1] = q
    BY DEF At
  <2>2. \A q : Chosen(q) => Chosen(q)'
    BY <1>1, InGroup DEF Chosen
  <2>3. ASSUME NEW p \in Phases, NEW q \in Phases, p < q, Won(p)' = {}
        PROVE  /\ \A j \in At(q) : j[2] = Last(q) => St(j) \in Gone \/ j \in R
               /\ graph[q].fan > 1 /\ Last(q) > 0 => Chosen(q)
    <3>1. CASE Won(p) = {}
      BY <2>3, <3>1 DEF Placed, Beyond
    <3>2. CASE Won(p) # {}
      <4>1. k \in Won(p)
        BY <1>3, <2>3, <3>2
      <4>2. k[1] = p
        BY <4>1, InGroup DEF Won
      <4> QED
        BY <2>3, <4>1, <4>2
    <3> QED
      BY <3>1, <3>2
  <2>4. \A j \in DOMAIN rows : St(j) \in Gone \/ j \in R => St(j)' \in Gone \/ j \in R \ {k}
    BY <1>1
  <2> QED
    BY <1>1, <2>1, <2>2, <2>3, <2>4 DEF Beyond
<1>6. WonIsIdle'
  BY <1>1, <1>2, <1>3 DEF Placed, WonIsIdle
<1>7. Kinds'
  BY <1>1, <1>2 DEF Placed, Kinds, Gone
<1>8. Judged'
  <2>1. ASSUME NEW j \in DOMAIN rows, j[3] < 0, NEW i \in Slot(j[1], j[2])
        PROVE  i \in DOMAIN rows /\ St(i)' \notin {"pending", "running"}
    BY <1>1, <2>1 DEF Placed, Judged, Gone
  <2>2. ASSUME NEW j \in DOMAIN rows, j[3] < 0, InFlight(j)' PROVE \E i \in Slot(j[1], j[2]) : St(i)' \notin Gone
    <3>1. InFlight(j) /\ j # k
      BY <1>1, <1>2, <2>2
    <3>2. PICK i \in Slot(j[1], j[2]) : St(i) \notin Gone
      BY <2>2, <3>1 DEF Placed, Judged
    <3>3. i[3] >= 0
      BY <3>2 DEF Slot
    <3>4. i # k
      BY <2>2, <3>1, <3>2, <3>3
    <3>5. i \in DOMAIN rows
      BY <2>1, <2>2, <3>2
    <3> QED
      BY <1>1, <3>2, <3>4, <3>5
  <2> QED
    BY <1>1, <2>1, <2>2 DEF Judged
<1>9. SelectedIsDone'
  BY <1>1 DEF Placed, SelectedIsDone
<1> QED
  BY <1>3, <1>4, <1>5, <1>6, <1>7, <1>8, <1>9 DEF Placed

\* A plain step in flight is done.
LEMMA DoneKeeps ==
  ASSUME RowsInv, graph \in Graphs, Placed({}), NEW k \in DOMAIN rows, Only(k), InFlight(k), Plain(k),
         k[3] >= 0, St(k)' = "done"
  PROVE  Placed({})'
<1>1. /\ Phases' = Phases /\ graph' = graph /\ DOMAIN rows' = DOMAIN rows
      /\ \A p : At(p)' = At(p) /\ Last(p)' = Last(p)
      /\ \A p, a : Slot(p, a)' = Slot(p, a) /\ Group(p, a)' = Group(p, a)
      /\ \A j \in DOMAIN rows : rows'[j].sel = rows[j].sel
      /\ \A j \in DOMAIN rows : j # k => St(j)' = St(j) /\ InFlight(j)' = InFlight(j)
  BY ShapeSame DEF Only, SameShape, InFlight
<1>2. ~ InFlight(k)' /\ ~ rows[k].sel /\ k[2] = Last(k[1]) /\ Front(k[1]) /\ k[1] \in Phases
  <2>1. St(k) # "done" /\ ~ rows[k].sel /\ ~ InFlight(k)'
    BY DEF InFlight, Placed, SelectedIsDone, Gone
  <2> QED
    BY <2>1, InFlightIsFront, KeyFacts DEF Placed
<1>3. \A j \in DOMAIN rows : ~ InFlight(j)'
  <2>1. \A j \in DOMAIN rows : InFlight(j) => j = k
    BY SoleIsAlone DEF Plain, Sole
  <2> QED
    BY <1>1, <1>2, <2>1
<1>4. \A q \in Phases : Won(q)' = {} => Won(q) = {}
  <2>1. ASSUME NEW q \in Phases, NEW j \in Won(q) PROVE j \in Won(q)'
    <3>1. j \in Group(q, Last(q)) /\ j \in DOMAIN rows /\ St(j) = "done" /\ (rows[j].sel \/ graph[q].fan = 1)
      BY InGroup DEF Won
    <3>2. j # k
      BY <3>1 DEF InFlight
    <3> QED
      BY <1>1, <3>1, <3>2 DEF Won
  <2> QED
    BY <2>1
<1>5. OldRows'
  <2>1. k[2] = Last(k[1]) /\ k[2] \in Nat
    BY <1>2, KeyFacts
  <2> QED
    BY <1>1, <2>1 DEF Placed, OldRows
<1>6. Beyond({})'
  <2>1. \A q : \A j \in At(q) : j \in DOMAIN rows /\ j[1] = q
    BY DEF At
  <2>2. \A q : Chosen(q) => Chosen(q)'
    BY <1>1, InGroup DEF Chosen
  <2>3. ASSUME NEW p \in Phases, NEW q \in Phases, p < q, Won(p)' = {}, NEW j \in At(q), j[2] = Last(q)
        PROVE  St(j)' \in Gone
    <3>1. St(j) \in Gone
      BY <1>4, <2>3 DEF Placed, Beyond
    <3>2. j # k
      BY <3>1 DEF Gone, InFlight
    <3> QED
      BY <1>1, <2>1, <3>1, <3>2
  <2> QED
    BY <1>1, <1>4, <2>2, <2>3 DEF Placed, Beyond
<1>7. WonIsIdle'
  BY <1>1, <1>3 DEF WonIsIdle
<1>8. Kinds'
  BY <1>1 DEF Placed, Kinds
<1>9. Judged'
  <2>1. ASSUME NEW j \in DOMAIN rows, j[3] < 0, NEW i \in Slot(j[1], j[2])
        PROVE  i \in DOMAIN rows /\ St(i)' \notin {"pending", "running"}
    BY <1>1, <2>1 DEF Placed, Judged
  <2> QED
    BY <1>1, <1>3, <2>1 DEF Judged
<1>10. SelectedIsDone'
  BY <1>1, <1>2 DEF Placed, SelectedIsDone
<1> QED
  BY <1>5, <1>6, <1>7, <1>8, <1>9, <1>10 DEF Placed

LEMMA GreatestOf ==
  ASSUME NEW D, IsFiniteSet(D), \A k \in D : k[2] \in Nat,
         NEW a \in Nat, \A k \in D : k[2] <= a, \E k \in D : k[2] = a
  PROVE  Max({0} \cup {k[2] : k \in D}) = a
<1> DEFINE T == {k[2] : k \in D}
           f == [k \in D |-> k[2]]
<1>1. f \in Surjection(D, T)
  BY DEF Surjection
<1>2. IsFiniteSet(T)
  <2> HIDE DEF f, T
  <2> QED
    BY <1>1, FS_Surjection
<1>3. IsFiniteSet({0} \cup T)
  BY <1>2, FS_Singleton, FS_Union
<1>4. {0} \cup T \in SUBSET Nat /\ a \in T /\ \A n \in {0} \cup T : n <= a
  OBVIOUS
<1> HIDE DEF T
<1>5. PICK n : n = Max({0} \cup T)
  OBVIOUS
<1>6. n \in {0} \cup T /\ \A x \in {0} \cup T : x <= n
  BY <1>3, <1>4, <1>5, MaxIsGreatest
<1>7. n = a
  BY <1>4, <1>6
<1> QED
  BY <1>5, <1>7 DEF T

\* A row is created at the front, of the latest attempt or of the next.
Created(k) ==
  /\ graph' = graph /\ k \notin DOMAIN rows
  /\ rows' = [j \in DOMAIN rows \cup {k} |-> IF j = k THEN NewRow ELSE rows[j]]

LEMMA CreatedFacts ==
  ASSUME RowsInv, NEW k \in Keys, Created(k), Last(k[1]) <= k[2]
  PROVE  /\ Phases' = Phases /\ DOMAIN rows' = DOMAIN rows \cup {k}
         /\ \A j \in DOMAIN rows : rows'[j] = rows[j] /\ St(j)' = St(j) /\ InFlight(j)' = InFlight(j)
         /\ St(k)' = "pending" /\ ~ rows'[k].sel
         /\ \A p, a : Slot(p, a)' = Slot(p, a)
         /\ \A p : p # k[1] => At(p)' = At(p) /\ Last(p)' = Last(p) /\ \A a : Group(p, a)' = Group(p, a)
         /\ At(k[1])' = At(k[1]) \cup {k} /\ Last(k[1])' = k[2]
<1>1. Phases' = Phases /\ graph' = graph /\ DOMAIN rows' = DOMAIN rows \cup {k}
  BY DEF Created, Phases
<1>2. /\ \A j \in DOMAIN rows : rows'[j] = rows[j] /\ St(j)' = St(j) /\ InFlight(j)' = InFlight(j)
      /\ St(k)' = "pending" /\ ~ rows'[k].sel
  BY DEF Created, St, InFlight, NewRow
<1>3. \A p, a : Slot(p, a)' = Slot(p, a)
  BY <1>1 DEF Slot
<1>4. \A p : p # k[1] => At(p)' = At(p)
  BY <1>1 DEF At
<1>5. \A p : p # k[1] => Last(p)' = Last(p) /\ \A a : Group(p, a)' = Group(p, a)
  BY <1>4 DEF Last, Group
<1>6. At(k[1])' = At(k[1]) \cup {k}
  BY <1>1 DEF At
<1>7. Last(k[1])' = k[2]
  <2>1. PICK D : D = At(k[1])'
    OBVIOUS
  <2>2. k[2] \in Nat /\ k \in D
    BY <1>6, <2>1 DEF Keys
  <2>3. At(k[1]) \subseteq DOMAIN rows
    BY DEF At
  <2>4. IsFiniteSet(At(k[1]))
    BY <2>3, FS_Subset DEF RowsInv
  <2>5. IsFiniteSet(D)
    BY <1>6, <2>1, <2>4, FS_AddElement
  <2>6. \A j \in D : j[2] \in Nat /\ j[2] <= k[2]
    <3>1. Last(k[1]) \in Nat /\ \A j \in At(k[1]) : j[2] \in Nat /\ j[2] <= Last(k[1])
      BY LastFacts
    <3> QED
      BY <1>6, <2>1, <2>2, <3>1
  <2>7. Max({0} \cup {j[2] : j \in D}) = k[2]
    BY <2>2, <2>5, <2>6, GreatestOf
  <2> QED
    BY <2>1, <2>7 DEF Last
<1> QED
  BY <1>1, <1>2, <1>3, <1>4, <1>5, <1>6, <1>7

LEMMA CreatedKeeps ==
  ASSUME RowsInv, graph \in Graphs, Placed({}), NEW k \in Keys, Created(k),
         Front(k[1]), Last(k[1]) <= k[2], Spent(k[1], k[2]),
         \A j \in DOMAIN rows : InFlight(j) => j[1] = k[1] /\ j[2] = k[2],
         Plain(k) => k[3] = 0,
         k[3] < 0 =>
           /\ \A j \in Slot(k[1], k[2]) : j \in DOMAIN rows /\ St(j) \notin {"pending", "running"}
           /\ \E j \in Slot(k[1], k[2]) : St(j) \notin Gone
  PROVE  Placed({})' /\ \A p : Won(p)' = Won(p)
<1> DEFINE p == k[1]  a == k[2]
<1>1. /\ Phases' = Phases /\ graph' = graph /\ DOMAIN rows' = DOMAIN rows \cup {k} /\ k \notin DOMAIN rows
      /\ \A j \in DOMAIN rows : rows'[j] = rows[j] /\ St(j)' = St(j) /\ InFlight(j)' = InFlight(j)
      /\ St(k)' = "pending" /\ ~ rows'[k].sel
      /\ \A q, b : Slot(q, b)' = Slot(q, b)
      /\ \A q : q # p => At(q)' = At(q) /\ Last(q)' = Last(q) /\ \A b : Group(q, b)' = Group(q, b)
      /\ At(p)' = At(p) \cup {k} /\ Last(p)' = a
  BY CreatedFacts DEF Created
<1>2. p \in Phases /\ a \in Nat /\ Last(p) \in Nat /\ k[3] \in -1..graph[p].fan - 1
  BY LastFacts DEF Keys
<1>3. \A q : Won(q)' = Won(q)
  <2>1. ASSUME NEW q, q # p PROVE Won(q)' = Won(q)
    <3>1. \A j \in Group(q, Last(q)) : St(j)' = St(j) /\ rows'[j].sel = rows[j].sel
      BY <1>1, InGroup
    <3> QED
      BY <1>1, <2>1, <3>1 DEF Won
  <2>2. Won(p)' = {}
    <3> SUFFICES ASSUME NEW j \in Won(p)' PROVE FALSE
      OBVIOUS
    <3>1. j \in At(p)' /\ j[2] = a /\ j[3] >= 0 /\ St(j)' = "done" /\ (rows'[j].sel \/ graph[p].fan = 1)
      BY <1>1 DEF Won, Group
    <3>2. j \in At(p) /\ j \in DOMAIN rows
      BY <1>1, <3>1 DEF At
    <3>3. St(j) = "done" /\ (rows[j].sel \/ graph[p].fan = 1)
      BY <1>1, <3>1, <3>2
    <3>4. j[2] <= Last(p)
      BY <3>2, LastFacts
    <3>5. Last(p) = a
      BY <1>2, <3>1, <3>4
    <3>6. j \in Won(p)
      BY <3>1, <3>2, <3>3, <3>5 DEF Won, Group
    <3> QED
      BY <3>6 DEF Front
  <2> QED
    BY <2>1, <2>2 DEF Front
<1>4. OldRows'
  <2> SUFFICES ASSUME NEW j \in DOMAIN rows', j[2] < Last(j[1])'
               PROVE  ~ InFlight(j)' /\ (j[3] >= 0 => St(j)' \in Dead)
    BY DEF OldRows
  <2>1. j \in DOMAIN rows
    BY <1>1, <1>2
  <2>2. CASE j[1] = p
    <3>1. j \in At(p) /\ j[2] \in Nat /\ j[2] < a
      BY <1>1, <2>1, <2>2, KeyFacts
    <3>2. ~ InFlight(j)
      BY <1>2, <2>1, <3>1
    <3> QED
      BY <1>1, <2>1, <3>1, <3>2 DEF Spent
  <2>3. CASE j[1] # p
    BY <1>1, <2>1, <2>3 DEF Placed, OldRows
  <2> QED
    BY <2>2, <2>3
<1>5. Beyond({})'
  <2>1. ASSUME NEW r \in Phases, NEW q \in Phases, r < q, Won(r) = {} PROVE q # p
    BY <2>1 DEF Front, Reached
  <2>2. \A q : q # p => (Chosen(q) => Chosen(q)')
    BY <1>1, InGroup DEF Chosen
  <2>3. \A q : \A j \in At(q) : j \in DOMAIN rows
    BY DEF At
  <2> QED
    BY <1>1, <1>3, <2>1, <2>2, <2>3 DEF Placed, Beyond
<1>6. WonIsIdle'
  BY <1>1, <1>3 DEF Placed, WonIsIdle, Front
<1>7. Kinds'
  BY <1>1 DEF Placed, Kinds, Plain
<1>8. Judged'
  <2> SUFFICES ASSUME NEW j \in DOMAIN rows', j[3] < 0
               PROVE  /\ \A i \in Slot(j[1], j[2]) : i \in DOMAIN rows' /\ St(i)' \notin {"pending", "running"}
                      /\ InFlight(j)' => \E i \in Slot(j[1], j[2]) : St(i)' \notin Gone
    BY <1>1 DEF Judged
  <2>1. /\ \A i \in Slot(j[1], j[2]) : i \in DOMAIN rows /\ St(i) \notin {"pending", "running"}
        /\ InFlight(j)' => \E i \in Slot(j[1], j[2]) : St(i) \notin Gone
    BY <1>1 DEF Placed, Judged
  <2> QED
    BY <1>1, <2>1
<1>9. SelectedIsDone'
  BY <1>1 DEF Placed, SelectedIsDone
<1> QED
  BY <1>3, <1>4, <1>5, <1>6, <1>7, <1>8, <1>9 DEF Placed

\* A candidate is selected, and its group and its judge are settled with it.
LEMMA SelectedKeeps ==
  ASSUME RowsInv, graph \in Graphs, Placed({}), NEW w \in DOMAIN rows, w[3] >= 0, SelectPre(w),
         St(w) \in {"done", "awaiting"}, SameShape,
         \A k \in DOMAIN rows :
           /\ k \notin Group(w[1], w[2]) /\ k # JudgeOf(w[1], w[2]) => rows'[k] = rows[k]
           /\ k = w => St(k)' = "done" /\ rows'[k].sel
           /\ k \in Group(w[1], w[2]) /\ k # w =>
                /\ ~ rows'[k].sel
                /\ St(k)' = IF St(k) \in {"pending", "awaiting", "done"} THEN "superseded" ELSE St(k)
           /\ k = JudgeOf(w[1], w[2]) =>
                /\ rows'[k].sel = rows[k].sel
                /\ St(k)' = IF St(k) \in {"pending", "running", "awaiting"} THEN "done" ELSE St(k)
  PROVE  Placed({})' /\ NoFlight'
<1> DEFINE p == w[1]  a == w[2]
<1>1. /\ Phases' = Phases /\ graph' = graph /\ DOMAIN rows' = DOMAIN rows
      /\ \A q : At(q)' = At(q) /\ Last(q)' = Last(q)
      /\ \A q, b : Slot(q, b)' = Slot(q, b) /\ Group(q, b)' = Group(q, b)
  BY ShapeSame DEF SameShape
<1>2. /\ graph[p].fan > 1 /\ Won(p) = {} /\ p \in Phases /\ w \in Group(p, a)
      /\ \A k \in Group(p, a) : St(k) # "running"
  BY KeyFacts DEF SelectPre
<1>3. St(w) = "done" /\ a = Last(p)
  <2>1. St(w) = "done"
    BY <1>2 DEF Placed, Kinds
  <2>2. ~ (a < Last(p))
    BY <2>1 DEF Placed, OldRows, Dead, Gone
  <2> QED
    BY <2>1, <2>2, KeyFacts
<1>4. Front(p)
  <2>1. ASSUME NEW q \in Phases, q < p, Won(q) = {} PROVE FALSE
    <3>1. St(w) \in Gone
      BY <1>2, <1>3, <2>1, KeyFacts DEF Placed, Beyond
    <3> QED
      BY <1>3, <3>1 DEF Gone
  <2> QED
    BY <1>2, <2>1 DEF Front, Reached
<1>5. \A k \in DOMAIN rows : k[1] # p => rows'[k] = rows[k] /\ St(k)' = St(k)
  BY InGroup DEF JudgeOf, St
<1>6. \A k \in DOMAIN rows : k[1] = p /\ k[2] # a => rows'[k] = rows[k] /\ St(k)' = St(k)
  BY InGroup DEF JudgeOf, St
<1>7. \A k \in DOMAIN rows : k[1] = p /\ k[2] = a => k \in Group(p, a) \/ k = JudgeOf(p, a)
  <2>1. \A k \in DOMAIN rows : k[3] \in Int /\ (k[3] >= 0 => k \in Group(k[1], k[2])) /\ (k[3] < 0 => k = JudgeOf(k[1], k[2]))
    BY KeyFacts
  <2> QED
    BY <2>1
<1>8. NoFlight'
  <2> SUFFICES ASSUME NEW k \in DOMAIN rows, InFlight(k)' PROVE FALSE
    BY <1>1 DEF NoFlight
  <2>1. CASE k \in Group(p, a) \/ k = JudgeOf(p, a)
    BY <1>2, <2>1 DEF InFlight
  <2>2. CASE k \notin Group(p, a) /\ k # JudgeOf(p, a)
    <3>1. InFlight(k)
      BY <2>2 DEF InFlight, St
    <3>2. k[1] = p /\ k[2] = a
      BY <1>2, <1>3, <1>4, <3>1, InFlightIsFront, OneFrontOnly, KeyFacts DEF Placed
    <3> QED
      BY <1>7, <2>2, <3>2
  <2> QED
    BY <2>1, <2>2
<1>9. \A q : q # p => Won(q)' = Won(q)
  <2> SUFFICES ASSUME NEW q, q # p PROVE Won(q)' = Won(q)
    OBVIOUS
  <2>1. \A j \in Group(q, Last(q)) : St(j)' = St(j) /\ rows'[j].sel = rows[j].sel
    BY <1>5, InGroup
  <2> QED
    BY <1>1, <2>1 DEF Won
<1>10. w \in Won(p)'
  BY <1>1, <1>2, <1>3 DEF Won
<1>11. OldRows'
  <2> SUFFICES ASSUME NEW k \in DOMAIN rows, k[2] < Last(k[1]), k[3] >= 0 PROVE St(k)' \in Dead
    BY <1>1, <1>8 DEF OldRows, NoFlight
  <2>1. k[1] = p => k[2] # a
    BY <1>3, KeyFacts
  <2>2. St(k)' = St(k)
    BY <1>5, <1>6, <2>1
  <2> QED
    BY <2>2 DEF Placed, OldRows
<1>12. Beyond({})'
  <2>1. ASSUME NEW r \in Phases, NEW q \in Phases, r < q, Won(r)' = {} PROVE r # p /\ q # p /\ Won(r) = {}
    BY <1>4, <1>9, <1>10, <2>1 DEF Front, Reached
  <2>2. \A q : q # p => (Chosen(q) => Chosen(q)')
    BY <1>1, <1>5, InGroup DEF Chosen
  <2>3. \A q : \A j \in At(q) : j \in DOMAIN rows /\ j[1] = q
    BY DEF At
  <2> QED
    BY <1>1, <1>5, <2>1, <2>2, <2>3 DEF Placed, Beyond
<1>13. WonIsIdle'
  BY <1>8 DEF WonIsIdle, NoFlight
<1>14. Kinds'
  BY <1>1, <1>8 DEF Placed, Kinds, NoFlight, InFlight
<1>15. Judged'
  <2> SUFFICES ASSUME NEW j \in DOMAIN rows, j[3] < 0, NEW i \in Slot(j[1], j[2])
               PROVE  i \in DOMAIN rows /\ St(i)' \notin {"pending", "running"}
    BY <1>1, <1>8 DEF Judged, NoFlight
  <2>1. i \in DOMAIN rows
    BY DEF Placed, Judged
  <2> QED
    BY <1>1, <1>8, <2>1 DEF NoFlight, InFlight
<1>16. SelectedIsDone'
  <2> SUFFICES ASSUME NEW k \in DOMAIN rows, rows'[k].sel PROVE St(k)' \in {"done"} \cup Gone
    BY <1>1 DEF SelectedIsDone
  <2>1. CASE k = w \/ (k \in Group(p, a) /\ k # w)
    BY <2>1
  <2>2. CASE k \notin Group(p, a) /\ k # JudgeOf(p, a)
    BY <2>2 DEF Placed, SelectedIsDone, St
  <2>3. CASE k = JudgeOf(p, a)
    <3>1. rows[k].sel /\ St(k) \in {"done"} \cup Gone
      BY <2>3 DEF Placed, SelectedIsDone
    <3> QED
      BY <2>3, <3>1 DEF Gone
  <2> QED
    BY <2>1, <2>2, <2>3
<1> QED
  BY <1>8, <1>11, <1>12, <1>13, <1>14, <1>15, <1>16 DEF Placed

-----------------------------------------------------------------------------
(* What one step of the walk leads to.                                      *)

Goes ==
  /\ RowsAt(Retiring)'
  /\ todo' # <<>> => Pre(Head(todo))'
  /\ NoLandBehind'

LEMMA Opening ==
  ASSUME ShapeInv, WalkInv, NEW op, op # "retire", Doing(op)
  PROVE  /\ RowsAt({}) /\ Placed({}) /\ Pre(Now) /\ RowsInv /\ graph \in Graphs
         /\ todo # <<>> /\ Now.op = op /\ run \notin TerminalRun /\ IsBack(Tail(todo))
<1>1. todo # <<>> /\ Now.op = op /\ ~ Doing("retire")
  BY DEF Doing, Now
<1>2. Retiring = {}
  BY <1>1 DEF Retiring
<1> QED
  BY <1>1, <1>2, TailFacts DEF WalkInv, RowsAt, ShapeInv, Counters, Now

LEMMA Wider ==
  ASSUME NEW R, NEW S, R \subseteq S, Placed(R)'
  PROVE  Placed(S)'
BY DEF Placed, Beyond

LEMMA LandIs ==
  ASSUME NEW K, NEW L, LandRest(K) = LandRest(L)
  PROVE  K = L
<1>1. LandRest(K)[1].keys = K /\ LandRest(L)[1].keys = L
  BY DEF LandRest
<1> QED
  BY <1>1

LEMMA BehindKeeps ==
  ASSUME TodoInv, todo # <<>>, NoLandBehind, NEW i, Then(i)
  PROVE  NoLandBehind' /\ todo' # <<>> /\ Head(todo') = i
<1>1. PICK t : t = Tail(todo)
  OBVIOUS
<1>2. IsBack(t)
  BY <1>1, TailFacts
<1>3. todo' # <<>> /\ Head(todo') = i /\ Tail(todo') = t
  BY <1>1, <1>2, BackIsSeq DEF Then
<1>4. ASSUME NEW K, t = LandRest(K) PROVE K = {}
  <2>1. PICK L \in SUBSET DOMAIN rows : t = LandRest(L)
    <3>1. t # <<>> /\ Head(t).op = "land"
      BY <1>4 DEF LandRest
    <3> QED
      BY <1>2, <3>1 DEF IsBack, Pass, Rederive, I
  <2>2. L = {}
    BY <1>1, <2>1 DEF NoLandBehind
  <2> QED
    BY <1>4, <2>1, <2>2, LandIs
<1>5. NoLandBehind'
  <2> SUFFICES ASSUME NEW K \in SUBSET DOMAIN rows', Tail(todo') = LandRest(K)' PROVE K = {}
    BY DEF NoLandBehind
  <2>1. t = LandRest(K)
    BY <1>3 DEF LandRest, Rederive, Pass, I
  <2> QED
    BY <1>4, <2>1
<1> QED
  BY <1>3, <1>5

\* The next instruction finds the rows as it must.
LEMMA GoesThen ==
  ASSUME ShapeInv, NoLandBehind, todo # <<>>, graph' = graph, NEW i, Then(i), NEW R, RowsAt(R)', Pre(i)',
         R = {} \/ (i.op = "retire" /\ graph[i.key[1]].fan = 1 /\ R = i.keys)
  PROVE  Goes
<1>1. NoLandBehind' /\ todo' # <<>> /\ Head(todo') = i
  BY BehindKeeps DEF ShapeInv
<1>2. Pre(Head(todo))'
  BY <1>1
<1>3. PICK S : S = Retiring'
  OBVIOUS
<1>4. R \subseteq S
  BY <1>1, <1>3 DEF Retiring, Doing, Now, Rest
<1>5. Placed(S)'
  BY <1>4, Wider DEF RowsAt
<1>6. Placed(Retiring)'
  BY <1>3, <1>5 DEF Placed, Beyond
<1> QED
  BY <1>1, <1>2, <1>6 DEF Goes, RowsAt

LEMMA GoesOver ==
  ASSUME ShapeInv, NoLandBehind, todo # <<>>, RowsAt({})', Over
  PROVE  Goes
<1>1. PICK t : t = Tail(todo)
  OBVIOUS
<1>2. IsBack(t) /\ todo' = t
  BY <1>1, TailFacts DEF ShapeInv, Over
<1>3. t # <<>> => Head(t).op \in {"pass", "rederive", "land"}
  BY <1>2, BackTails
<1>4. Retiring' = {}
  BY <1>2, <1>3 DEF Retiring, Doing, Now
<1>5. ASSUME t # <<>> PROVE Pre(Head(todo))' /\ \A K : Tail(t) # LandRest(K)
  <2>1. /\ Head(t).op = "pass" => t = <<Pass>>
        /\ Head(t).op = "rederive" => t = <<Rederive, Pass>>
    BY <1>2, <1>5, BackTails
  <2>2. Head(t).op = "land" => Head(t) = [op |-> "land", keys |-> {}] /\ Tail(t) = <<Rederive, Pass>>
    <3> SUFFICES ASSUME Head(t).op = "land"
                 PROVE  Head(t) = [op |-> "land", keys |-> {}] /\ Tail(t) = <<Rederive, Pass>>
      OBVIOUS
    <3>1. PICK K \in SUBSET DOMAIN rows : t = LandRest(K)
      BY <1>2, <1>5 DEF IsBack, Pass, Rederive, I
    <3>2. K = {}
      BY <1>1, <3>1 DEF NoLandBehind
    <3> QED
      BY <3>1, <3>2 DEF LandRest
  <2>3. \A K : Tail(t) # LandRest(K)
    <3> SUFFICES ASSUME NEW K, Tail(t) = LandRest(K) PROVE FALSE
      OBVIOUS
    <3>1. PICK u : u = Tail(t)
      OBVIOUS
    <3>2. u # <<>> /\ Head(u).op = "land"
      <4>1. u = <<[op |-> "land", keys |-> K], Rederive, Pass>>
        BY <3>1 DEF LandRest
      <4> QED
        BY <4>1
    <3>3. CASE t = <<Pass>>
      <4>1. u = <<>>
        BY <3>1, <3>3
      <4> QED
        BY <3>2, <4>1
    <3>4. CASE t = <<Rederive, Pass>>
      <4>1. u = <<Pass>>
        BY <3>1, <3>4
      <4> QED
        BY <3>2, <4>1 DEF Pass, I
    <3>5. CASE Tail(t) = <<Rederive, Pass>>
      <4>1. u = <<Rederive, Pass>>
        BY <3>1, <3>5
      <4> QED
        BY <3>2, <4>1 DEF Rederive, I
    <3> QED
      BY <1>3, <1>5, <2>1, <2>2, <3>3, <3>4, <3>5
  <2>4. PICK i : i = Head(t)
    OBVIOUS
  <2>5. Pre(i)'
    BY <1>3, <1>5, <2>2, <2>4 DEF Pre
  <2> QED
    BY <1>2, <2>3, <2>4, <2>5
<1>6. NoLandBehind'
  <2> SUFFICES ASSUME NEW K \in SUBSET DOMAIN rows', todo' # <<>>, Tail(todo') = LandRest(K)' PROVE FALSE
    BY DEF NoLandBehind
  <2>1. Tail(t) = LandRest(K)
    BY <1>2 DEF LandRest, Rederive, Pass, I
  <2> QED
    BY <1>2, <1>5, <2>1
<1> QED
  BY <1>2, <1>4, <1>5, <1>6 DEF Goes

LEMMA GoesEnds ==
  ASSUME RowsAt({})', Ends
  PROVE  Goes
<1>1. Retiring' = {} /\ todo' = <<>>
  BY DEF Retiring, Doing, Ends
<1> QED
  BY <1>1 DEF Goes, NoLandBehind

-----------------------------------------------------------------------------
(* The instructions and what they expect.                                   *)

LEMMA PreRun ==
  /\ Quiet' => Pre(ParkRun)' /\ Pre(Escalate)' /\ \A k : Pre(Unpark(k, "settle", TRUE))'
  /\ Idle' => Pre(Finish("done"))' /\ Pre(Finish("failed"))' /\ Pre(Finish("cancelled"))' /\ Pre(Block("fail"))'
  /\ Pre(Block("rest"))'
<1>1. Quiet' => Pre(ParkRun)' /\ Pre(Escalate)'
  BY DEF Pre, ParkRun, Escalate
<1>2. Quiet' => \A k : Pre(Unpark(k, "settle", TRUE))'
  BY DEF Pre, Unpark, UnparkPre
<1>3. Idle' => Pre(Finish("done"))' /\ Pre(Finish("failed"))' /\ Pre(Finish("cancelled"))'
  BY DEF Pre, Finish
<1>4. (Idle' => Pre(Block("fail"))') /\ Pre(Block("rest"))'
  BY DEF Pre, Block
<1> QED
  BY <1>1, <1>2, <1>3, <1>4

LEMMA PreFail ==
  ASSUME Idle', NEW x
  PROVE  Pre(FailRun(x))'
BY PreRun DEF FailRun

LEMMA PreRow ==
  ASSUME NEW k
  PROVE  /\ Plain(k)' => /\ \A op \in {"session", "accept", "spend", "reset"} : Pre(I(op, k))'
                         /\ \A x : Pre(Park(k, x))'
         /\ Sole(k)' => (\A x : Pre(FailHard(k, x))') /\ Pre(I("gate", k))' /\ Pre(Reject(k, "walk"))'
         /\ Sole(k)' /\ run' = "running" => Pre(I("start", k))'
         /\ (St(k) = "running")' => Pre(I("judge", k))'
         /\ Quiet' => /\ \A op \in {"merge", "settle"} : Pre(I(op, k))'
                      /\ \A x : Pre(Unpark(k, "merge", x))' /\ Pre(Unpark(k, "settle", x))'
         /\ FailedPre(k)' => /\ \A op \in {"loop", "rejection"} : Pre(I(op, k))'
                             /\ \A x : Pre(Unpark(k, "rejection", x))'
         /\ ReadmitPre(k)' => Pre(I("readmit", k))' /\ \A x : Pre(Unpark(k, "readmit", x))'
         /\ \A x : SelectPre(k)' => Pre(Select(k, x))'
<1>1. Plain(k)' => \A op \in {"session", "accept", "spend", "reset"} : Pre(I(op, k))'
  BY DEF Pre, I
<1>2. Plain(k)' => \A x : Pre(Park(k, x))'
  BY DEF Pre, Park
<1>3. Sole(k)' => (\A x : Pre(FailHard(k, x))')
  BY DEF Pre, FailHard
<1>4. Sole(k)' => Pre(I("gate", k))' /\ (run' = "running" => Pre(I("start", k))')
  BY DEF Pre, I
<1>5. Sole(k)' => Pre(Reject(k, "walk"))'
  BY DEF Pre, Reject
<1>6. (St(k) = "running")' => Pre(I("judge", k))'
  BY DEF Pre, I
<1>7. Quiet' => /\ \A op \in {"merge", "settle"} : Pre(I(op, k))'
                /\ \A x : Pre(Unpark(k, "merge", x))' /\ Pre(Unpark(k, "settle", x))'
  BY DEF Pre, I, Unpark, UnparkPre
<1>8. FailedPre(k)' => /\ \A op \in {"loop", "rejection"} : Pre(I(op, k))'
                       /\ \A x : Pre(Unpark(k, "rejection", x))'
  BY DEF Pre, I, Unpark, UnparkPre
<1>9. ReadmitPre(k)' => Pre(I("readmit", k))' /\ \A x : Pre(Unpark(k, "readmit", x))'
  BY DEF Pre, I, Unpark, UnparkPre
<1>10. \A x : SelectPre(k)' => Pre(Select(k, x))'
  BY DEF Pre, Select
<1> QED
  BY <1>1, <1>2, <1>3, <1>4, <1>5, <1>6, <1>7, <1>8, <1>9, <1>10

LEMMA PreAdmit ==
  ASSUME NEW p, NEW a, AdmitPre(p, a)'
  PROVE  Pre(Admit(p, a))' /\ \A x : Pre(Unpark(<<p, a, 0>>, "admit", x))'
<1>1. Pre(Admit(p, a))'
  BY DEF Pre, Admit, I
<1>2. ASSUME NEW x PROVE Pre(Unpark(<<p, a, 0>>, "admit", x))'
  <2>1. PICK i : i = Unpark(<<p, a, 0>>, "admit", x)
    OBVIOUS
  <2>2. i.op = "unpark" /\ i.then = "admit" /\ i.key = <<p, a, 0>>
    BY <2>1 DEF Unpark
  <2>3. i.key[1] = p /\ i.key[2] = a
    BY <2>2
  <2>4. UnparkPre(i)'
    BY <2>2, <2>3 DEF UnparkPre
  <2>5. Pre(i)'
    BY <2>2, <2>4 DEF Pre
  <2> QED
    BY <2>1, <2>5 DEF Unpark
<1> QED
  BY <1>1, <1>2

LEMMA PreSlot ==
  ASSUME NEW p, NEW a, GroupPre(p, a)', Quiet'
  PROVE  /\ (JudgeOf(p, a) \notin DOMAIN rows)' => Pre(I("fan", <<p, a, 0>>))'
         /\ (\A k \in Slot(p, a) : k \in DOMAIN rows /\ St(k) # "pending")' => Pre(I("choose", <<p, a, 0>>))'
<1>1. PICK k : k = <<p, a, 0>>
  OBVIOUS
<1>2. k[1] = p /\ k[2] = a
  BY <1>1
<1>3. (JudgeOf(p, a) \notin DOMAIN rows)' => Pre(I("fan", k))'
  BY <1>2 DEF Pre, I
<1>4. (\A j \in Slot(p, a) : j \in DOMAIN rows /\ St(j) # "pending")' => Pre(I("choose", k))'
  BY <1>2 DEF Pre, I
<1> QED
  BY <1>1, <1>3, <1>4

LEMMA PreOf ==
  ASSUME NEW i
  PROVE  /\ i.op = "create" /\ CreatePre(i)' => Pre(i)'
         /\ i.op = "retire" /\ RetirePre(i)' => Pre(i)'
         /\ i.op = "group" /\ SessionsPre(i)' => Pre(i)'
         /\ i.op = "refuse" /\ RefusePre(i)' => Pre(i)'
BY DEF Pre

-----------------------------------------------------------------------------
(* The run beside its rows.                                                 *)

LEMMA RunKeeps ==
  ASSUME ShapeInv, todo # <<>>, run' = run, Quiet' \/ run # "awaiting"
  PROVE  RunIsQuiet'
BY DEF ShapeInv, RunIsQuiet

LEMMA SameFacts ==
  ASSUME SameStatus
  PROVE  /\ \A k \in DOMAIN rows : St(k)' = St(k) /\ InFlight(k)' = InFlight(k)
         /\ Quiet' = Quiet /\ Idle' = Idle /\ NoFlight' = NoFlight
         /\ \A p : Won(p)' = Won(p) /\ Last(p)' = Last(p) /\ At(p)' = At(p)
         /\ \A p, a : Slot(p, a)' = Slot(p, a) /\ Group(p, a)' = Group(p, a)
         /\ Phases' = Phases /\ DOMAIN rows' = DOMAIN rows /\ graph' = graph
<1>1. /\ Phases' = Phases /\ graph' = graph /\ DOMAIN rows' = DOMAIN rows
      /\ \A p : At(p)' = At(p) /\ Last(p)' = Last(p)
      /\ \A p, a : Slot(p, a)' = Slot(p, a) /\ Group(p, a)' = Group(p, a)
      /\ \A j \in DOMAIN rows : St(j)' = St(j) /\ rows'[j].sel = rows[j].sel /\ InFlight(j)' = InFlight(j)
  BY ShapeSame DEF SameStatus, SameShape, InFlight
<1>2. ASSUME NEW p PROVE Won(p)' = Won(p)
  <2>1. \A j \in Group(p, Last(p)) : St(j)' = St(j) /\ rows'[j].sel = rows[j].sel
    BY <1>1, InGroup
  <2> QED
    BY <1>1, <2>1 DEF Won
<1>3. Quiet' = Quiet
  BY <1>1 DEF Quiet
<1>4. Idle' = Idle
  BY <1>1 DEF Idle
<1>5. NoFlight' = NoFlight
  BY <1>1 DEF NoFlight
<1> QED
  BY <1>1, <1>2, <1>3, <1>4, <1>5

\* What is expected of the rows is still so when no status and no selection changed.
LEMMA SamePre ==
  ASSUME SameStatus
  PROVE  /\ \A p : Front(p) => Front(p)'
         /\ \A p : Reached(p) => Reached(p)'
         /\ \A p, a : AdmitPre(p, a) => AdmitPre(p, a)'
         /\ \A k \in DOMAIN rows : FailedPre(k) => FailedPre(k)'
         /\ \A k \in DOMAIN rows : ReadmitPre(k) => ReadmitPre(k)'
         /\ \A p, a : GroupPre(p, a) /\ run' = run => GroupPre(p, a)'
         /\ \A w : SelectPre(w) => SelectPre(w)'
         /\ \A k : Plain(k)' = Plain(k) /\ Sole(k)' = Sole(k)
<1>1. \A p : (Reached(p) => Reached(p)') /\ (Front(p) => Front(p)')
  BY SameFacts DEF Front, Reached
<1>2. ASSUME NEW p, NEW a, AdmitPre(p, a) PROVE AdmitPre(p, a)'
  <2>1. Spent(p, a)'
    BY <1>2, SameFacts DEF AdmitPre, Spent, At
  <2> QED
    BY <1>1, <1>2, <2>1, SameFacts DEF AdmitPre
<1>3. \A k : Plain(k)' = Plain(k) /\ Sole(k)' = Sole(k)
  BY SameFacts DEF Plain, Sole
<1>4. \A k \in DOMAIN rows : FailedPre(k) => FailedPre(k)'
  BY <1>3, SameFacts DEF FailedPre
<1>5. \A k \in DOMAIN rows : ReadmitPre(k) => ReadmitPre(k)'
  BY <1>1, <1>3, SameFacts DEF ReadmitPre
<1>6. \A p, a : GroupPre(p, a) /\ run' = run => GroupPre(p, a)'
  BY <1>1, SameFacts DEF GroupPre
<1>7. \A w : SelectPre(w) => SelectPre(w)'
  BY SameFacts, InGroup DEF SelectPre
<1> QED
  BY <1>1, <1>2, <1>3, <1>4, <1>5, <1>6, <1>7

LEMMA SameRows ==
  ASSUME SameStatus, NEW R, RowsAt(R), run' = run
  PROVE  RowsAt(R)'
BY StatusKeeps, SameFacts DEF RowsAt, RunIsQuiet

LEMMA DecidesSame ==
  ASSUME Decides
  PROVE  SameStatus /\ run' = run /\ graph' = graph /\ rows' = rows
BY RowsSame DEF Decides, rowVars

\* When a step in flight that is alone has moved, it is the only one that can be in flight.
LEMMA AloneMoved ==
  ASSUME RowsInv, graph \in Graphs, Placed({}), NEW k \in DOMAIN rows, InFlight(k), Sole(k), Only(k)
  PROVE  /\ St(k)' # "running" => Quiet'
         /\ St(k)' \notin {"running", "awaiting"} => Idle'
         /\ ~ InFlight(k)' => NoFlight'
<1>1. \A j \in DOMAIN rows : j # k => ~ InFlight(j)
  BY SoleIsAlone
<1>2. \A j \in DOMAIN rows : j # k => ~ InFlight(j)'
  BY <1>1 DEF Only, InFlight
<1>3. DOMAIN rows' = DOMAIN rows
  BY DEF Only, SameShape
<1> QED
  BY <1>2, <1>3 DEF Quiet, Idle, NoFlight, InFlight

-----------------------------------------------------------------------------
(* The cursor, and what is done at a failed row.                            *)

LEMMA SpentAdmits ==
  ASSUME RowsInv, graph \in Graphs, Placed({}), NEW p \in Phases, Front(p),
         \A j \in Group(p, Last(p)) : St(j) \in Gone
  PROVE  AdmitPre(p, Last(p) + 1)
<1>1. NoFlight
  <2> SUFFICES ASSUME NEW k \in DOMAIN rows, InFlight(k) PROVE FALSE
    BY DEF NoFlight
  <2>1. k[1] = p /\ k[2] = Last(p)
    BY InFlightIsFront, OneFrontOnly, KeyFacts DEF Placed
  <2>2. CASE k[3] >= 0
    <3>1. St(k) \in Gone
      BY <2>1, <2>2, KeyFacts
    <3> QED
      BY <3>1 DEF Gone, InFlight
  <2>3. CASE k[3] < 0
    <3>1. PICK i \in Slot(p, Last(p)) : i \in DOMAIN rows /\ St(i) \notin Gone
      BY <2>1, <2>3 DEF Placed, Judged
    <3>2. i[1] = p /\ i[2] = Last(p) /\ i[3] >= 0
      BY <3>1 DEF Slot
    <3>3. i \in Group(p, Last(p))
      BY <3>1, <3>2 DEF Group, At
    <3> QED
      BY <3>1, <3>3
  <2>4. k[3] \in Int
    BY KeyFacts
  <2> QED
    BY <2>2, <2>3, <2>4
<1>2. Spent(p, Last(p) + 1)
  <2>1. ASSUME NEW k \in At(p), k[2] = Last(p), k[3] >= 0 PROVE St(k) \in Dead
    BY <2>1 DEF Group, Dead
  <2> QED
    BY <2>1, SpentNext DEF Placed
<1> QED
  BY <1>1, <1>2 DEF AdmitPre

LEMMA QuietAt ==
  ASSUME RowsInv, graph \in Graphs, Placed({}), NEW p \in Phases, Front(p),
         \A j \in At(p) : j[2] = Last(p) => St(j) # "running"
  PROVE  Quiet
<1> SUFFICES ASSUME NEW k \in DOMAIN rows, St(k) = "running" PROVE FALSE
  BY DEF Quiet
<1>1. k[1] = p /\ k[2] = Last(p) /\ k \in At(p)
  BY InFlightIsFront, OneFrontOnly, KeyFacts DEF Placed, InFlight
<1> QED
  BY <1>1

LEMMA JudgeWaits ==
  ASSUME RowsInv, Judged, NEW p \in Phases, NEW a,
         ~ (Slot(p, a) \subseteq DOMAIN rows /\ \A j \in Group(p, a) : St(j) # "pending")
  PROVE  JudgeOf(p, a) \notin DOMAIN rows
<1> SUFFICES ASSUME JudgeOf(p, a) \in DOMAIN rows PROVE FALSE
  OBVIOUS
<1>1. \A j \in Slot(p, a) : j \in DOMAIN rows /\ St(j) # "pending"
  BY DEF Judged, JudgeOf
<1>2. \A j \in Group(p, a) : j \in Slot(p, a)
  BY InGroup, KeyFacts
<1> QED
  BY <1>1, <1>2

LEMMA CursorPre ==
  ASSUME ShapeInv, RowsAt({}), run = "running", Cursor.op \notin {"done", "rest"}, Decides,
         NEW i, i = Cursor
  PROVE  Pre(i)'
<1> DEFINE open == {q \in Phases : Won(q) = {}}
<1>0. RowsInv /\ graph \in Graphs /\ Placed({}) /\ SameStatus /\ run' = "running"
  BY DecidesSame DEF ShapeInv, Counters, RowsAt
<1>1. PICK p \in Phases : /\ p \in open /\ \A q \in open : p <= q
        /\ \/ i = Admit(p, Last(p) + 1) /\ \A j \in Group(p, Last(p)) : St(j) \in Gone
           \/ /\ graph[p].fan = 1 /\ i = I("start", <<p, Last(p), 0>>)
           \/ /\ graph[p].fan > 1 /\ \A j \in {k \in At(p) : k[2] = Last(p)} : St(j) # "running"
              /\ i = I("choose", <<p, Last(p), 0>>)
              /\ Slot(p, Last(p)) \subseteq DOMAIN rows /\ \A j \in Group(p, Last(p)) : St(j) # "pending"
           \/ /\ graph[p].fan > 1 /\ \A j \in {k \in At(p) : k[2] = Last(p)} : St(j) # "running"
              /\ i = I("fan", <<p, Last(p), 0>>)
              /\ ~ (Slot(p, Last(p)) \subseteq DOMAIN rows /\ \A j \in Group(p, Last(p)) : St(j) # "pending")
  <2>1. PICK p : p = i.key[1]
    OBVIOUS
  <2>2. PICK k : k = <<p, Last(p), 0>>
    OBVIOUS
  <2>3. i # I("done", <<0, 0, 0>>) /\ (i = I(IF St(k) = "pending" THEN "start" ELSE "rest", k) => i = I("start", k))
    BY DEF I
  <2>4. p \in open /\ p \in Phases /\ \A q \in open : p <= q
    BY <1>0, <2>1, <2>3, CursorFacts
  <2> HIDE DEF open
  <2>5. \/ i = Admit(p, Last(p) + 1) /\ \A j \in Group(p, Last(p)) : St(j) \in Gone
        \/ graph[p].fan = 1 /\ i = I("start", k)
        \/ /\ graph[p].fan > 1 /\ \A j \in {x \in At(p) : x[2] = Last(p)} : St(j) # "running"
           /\ i = I("choose", k)
           /\ Slot(p, Last(p)) \subseteq DOMAIN rows /\ \A j \in Group(p, Last(p)) : St(j) # "pending"
        \/ /\ graph[p].fan > 1 /\ \A j \in {x \in At(p) : x[2] = Last(p)} : St(j) # "running"
           /\ i = I("fan", k)
           /\ ~ (Slot(p, Last(p)) \subseteq DOMAIN rows /\ \A j \in Group(p, Last(p)) : St(j) # "pending")
    BY <1>0, <2>1, <2>2, <2>3, CursorFacts
  <2> QED
    BY <2>2, <2>4, <2>5
<1>2. Front(p)
  <2>1. Phases \subseteq Nat
    BY <1>0, GraphFacts
  <2> QED
    BY <1>1, <2>1 DEF Front, Reached
<1>3. PICK a : a = Last(p)
  OBVIOUS
<1>4. CASE i = Admit(p, a + 1) /\ \A j \in Group(p, a) : St(j) \in Gone
  <2>1. AdmitPre(p, a + 1)'
    BY <1>0, <1>2, <1>3, <1>4, SpentAdmits, SamePre
  <2> QED
    BY <1>4, <2>1, PreAdmit
<1>5. CASE graph[p].fan = 1 /\ i = I("start", <<p, a, 0>>)
  <2>1. PICK k : k = <<p, a, 0>>
    OBVIOUS
  <2>2. k[1] = p
    BY <2>1
  <2>3. Sole(k)'
    BY <1>0, <1>5, <2>2, SameFacts DEF Sole
  <2> QED
    BY <1>0, <1>5, <2>1, <2>3, PreRow
<1> DEFINE settled == Slot(p, a) \subseteq DOMAIN rows /\ \A j \in Group(p, a) : St(j) # "pending"
<1>6. CASE /\ graph[p].fan > 1 /\ \A j \in {k \in At(p) : k[2] = a} : St(j) # "running"
           /\ \/ i = I("choose", <<p, a, 0>>) /\ settled
              \/ i = I("fan", <<p, a, 0>>) /\ ~ settled
  <2>1. Quiet'
    BY <1>0, <1>2, <1>3, <1>6, QuietAt, SameFacts
  <2>2. GroupPre(p, a)'
    BY <1>0, <1>2, <1>3, <1>6, SamePre DEF GroupPre
  <2>3. CASE i = I("choose", <<p, a, 0>>) /\ settled
    <3>1. \A j \in Slot(p, a) : j \in DOMAIN rows /\ St(j) # "pending"
      <4>1. ASSUME NEW j \in Slot(p, a) PROVE j \in DOMAIN rows /\ j[1] = p /\ j[2] = a /\ j[3] >= 0
        BY <2>3, <4>1 DEF Slot
      <4> QED
        BY <2>3, <4>1 DEF Group, At
    <3>2. (\A j \in Slot(p, a) : j \in DOMAIN rows /\ St(j) # "pending")'
      BY <1>0, <3>1, SameFacts
    <3> QED
      BY <2>1, <2>2, <2>3, <3>2, PreSlot
  <2>4. CASE i = I("fan", <<p, a, 0>>) /\ ~ settled
    <3>1. JudgeOf(p, a) \notin DOMAIN rows
      BY <1>0, <2>4, JudgeWaits DEF Placed
    <3>2. (JudgeOf(p, a) \notin DOMAIN rows)'
      BY <1>0, <3>1, SameFacts DEF JudgeOf
    <3> QED
      BY <2>1, <2>2, <2>4, <3>2, PreSlot
  <2> QED
    BY <1>6, <2>3, <2>4
<1> QED
  BY <1>1, <1>3, <1>4, <1>5, <1>6

LEMMA RestsFailedIs ==
  ASSUME RowsInv, graph \in Graphs, RestsFailed
  PROVE  Cursor.key \in DOMAIN rows /\ FailedPre(Cursor.key)
<1>1. Cursor.op = "rest" /\ St(Cursor.key) = "failed"
  BY DEF RestsFailed
<1>2. PICK c : c = Cursor
  OBVIOUS
<1>3. PICK p : p = c.key[1]
  OBVIOUS
<1>4. PICK k : k = <<p, Last(p), 0>>
  OBVIOUS
<1>5. \/ graph[p].fan = 1 /\ k \in DOMAIN rows /\ c = I(IF St(k) = "pending" THEN "start" ELSE "rest", k)
      \/ c.op # "rest" \/ St(c.key) = "running"
  <2>1. Admit(p, Last(p) + 1).op = "admit" /\ I("choose", k).op = "choose" /\ I("fan", k).op = "fan"
        /\ I("done", <<0, 0, 0>>).op = "done"
    BY DEF Admit, I
  <2> QED
    BY <1>2, <1>3, <1>4, <2>1, CursorFacts
<1>6. graph[p].fan = 1 /\ k \in DOMAIN rows /\ c.key = k
  BY <1>1, <1>2, <1>5 DEF I
<1> QED
  BY <1>1, <1>2, <1>4, <1>6 DEF FailedPre, Plain

LEMMA RejectionPre ==
  ASSUME RowsInv, graph \in Graphs, Placed({}), SameStatus, NEW k \in DOMAIN rows, FailedPre(k),
         NEW i, i = Rejection(k)
  PROVE  Pre(i)'
<1>1. FailedPre(k)' /\ NoFlight'
  BY SamePre, SameFacts, FailedIsFront
<1>2. Idle'
  BY <1>1 DEF Idle, NoFlight, InFlight
<1> QED
  BY <1>1, <1>2, PreRow, PreRun DEF Rejection

LEMMA SettlePre ==
  ASSUME RowsInv, graph \in Graphs, Placed({}), SameStatus, NEW k \in DOMAIN rows, FailedPre(k),
         NEW i, i = SettleFailed(k)
  PROVE  Pre(i)'
<1>1. NoFlight' /\ AdmitPre(k[1], k[2] + 1)'
  BY SamePre, SameFacts, FailedIsFront, FailedAdmits
<1>2. Idle' /\ Quiet'
  BY <1>1 DEF Idle, Quiet, NoFlight, InFlight
<1>3. PICK r : r = Rejection(k)
  OBVIOUS
<1>4. Pre(r)'
  BY <1>3, RejectionPre
<1>5. Pre(Admit(k[1], k[2] + 1))'
  BY <1>1, PreAdmit
<1> QED
  BY <1>2, <1>3, <1>4, <1>5, PreRun DEF SettleFailed

-----------------------------------------------------------------------------
(* The walk of a plain step.                                                *)

LEMMA IdleIs ==
  ASSUME NoFlight
  PROVE  Idle /\ Quiet
BY DEF NoFlight, InFlight, Idle, Quiet

\* A decision: the rows are as they were, and the next instruction finds them as it must.
LEMMA DecidesThen ==
  ASSUME ShapeInv, WalkInv, RowsAt({}), todo # <<>>, Decides, NEW i, Then(i), Pre(i)'
  PROVE  Goes
<1>1. RowsAt({})' /\ graph' = graph
  BY DecidesSame, SameRows
<1> QED
  BY <1>1, GoesThen DEF WalkInv

LEMMA DecidesOver ==
  ASSUME ShapeInv, WalkInv, RowsAt({}), todo # <<>>, Decides, Over \/ Ends
  PROVE  Goes
<1>1. RowsAt({})'
  BY DecidesSame, SameRows
<1> QED
  BY <1>1, GoesOver, GoesEnds DEF WalkInv

LEMMA PassesGoes == ASSUME ShapeInv, WalkInv, Passes PROVE Goes
<1>1. /\ RowsAt({}) /\ Placed({}) /\ RowsInv /\ graph \in Graphs /\ todo # <<>> /\ Now.op = "pass"
      /\ NoLandBehind /\ Decides /\ SameStatus /\ run' = run
  BY Opening, DecidesSame DEF Passes, WalkInv
<1>2. todo = <<Pass>>
  <2>1. ~ IsInstr(Head(todo))
    BY <1>1 DEF IsInstr, RowOps, SlotOps, KeysOps, OtherOps, Now
  <2> QED
    BY <1>1, <2>1, BackTails DEF ShapeInv, TodoInv, Now
<1>3. RowsAt({})'
  BY <1>1, SameRows
<1>4. ASSUME NEW i, Pre(i)', todo' = <<i>> \o todo PROVE Goes
  <2>1. PICK t : t = <<Pass>>
    OBVIOUS
  <2>2. IsBack(t)
    BY <2>1 DEF IsBack
  <2>3. todo' # <<>> /\ Head(todo') = i /\ Tail(todo') = t
    BY <1>2, <1>4, <2>1, <2>2, BackIsSeq
  <2>4. NoLandBehind'
    <3> SUFFICES ASSUME NEW K, t = LandRest(K)' PROVE FALSE
      BY <2>3 DEF NoLandBehind
    <3>1. t = <<[op |-> "land", keys |-> K], Rederive, Pass>>
      BY DEF LandRest, Rederive, Pass, I
    <3>2. Head(t) = Pass /\ Head(t) = [op |-> "land", keys |-> K]
      BY <2>1, <3>1
    <3> QED
      BY <3>2 DEF Pass, I
  <2>5. PICK S : S = Retiring'
    OBVIOUS
  <2>6. Placed(S)'
    BY <1>3, Wider DEF RowsAt
  <2>7. Placed(Retiring)'
    BY <2>5, <2>6 DEF Placed, Beyond
  <2>8. Pre(Head(todo))'
    BY <1>4, <2>3
  <2> QED
    BY <1>3, <2>4, <2>7, <2>8 DEF Goes, RowsAt
<1>5. CASE run = "running" /\ Cursor.op = "done" /\ todo' = <<Finish("done")>> \o todo
  <2>1. {p \in Phases : Won(p) = {}} = {}
    BY <1>1, <1>5, CursorFacts
  <2>2. NoFlight
    BY <1>1, <2>1, KeyFacts DEF Placed, WonIsIdle, NoFlight
  <2>3. Idle'
    BY <1>1, <2>2, IdleIs, SameFacts
  <2> QED
    BY <1>4, <1>5, <2>3, PreRun
<1>6. CASE run = "running" /\ RestsFailed /\ todo' = <<SettleFailed(Cursor.key)>> \o todo
  <2>1. PICK k : k = Cursor.key
    OBVIOUS
  <2>2. k \in DOMAIN rows /\ FailedPre(k)
    BY <1>1, <1>6, <2>1, RestsFailedIs
  <2>3. PICK i : i = SettleFailed(k)
    OBVIOUS
  <2>4. Pre(i)'
    BY <1>1, <2>2, <2>3, SettlePre
  <2> QED
    BY <1>4, <1>6, <2>1, <2>3, <2>4
<1>7. CASE run = "running" /\ Cursor.op \notin {"done", "rest"} /\ todo' = <<Cursor>> \o todo
  <2>1. PICK i : i = Cursor
    OBVIOUS
  <2>2. Pre(i)'
    BY <1>1, <1>7, <2>1, CursorPre
  <2> QED
    BY <1>4, <1>7, <2>1, <2>2
<1>8. CASE Ends
  BY <1>3, <1>8, GoesEnds
<1> QED
  BY <1>5, <1>6, <1>7, <1>8 DEF Passes

LEMMA AdmitsGoes == ASSUME ShapeInv, WalkInv, Admits PROVE Goes
<1> PICK k : k = Now.key
  OBVIOUS
<1>1. /\ RowsAt({}) /\ Placed({}) /\ RowsInv /\ graph \in Graphs /\ todo # <<>>
      /\ Decides /\ SameStatus /\ Pre(Now) /\ Now.op = "admit"
  BY Opening, DecidesSame DEF Admits
<1> DEFINE p == k[1]  a == k[2]
<1>2. AdmitPre(p, a)'
  BY <1>1, SamePre DEF Pre
<1>3. Idle' /\ NoFlight' /\ Front(p)' /\ Spent(p, a)' /\ Last(p)' <= a
  <2>1. Last(p) \in Nat /\ Last(p)' = Last(p)
    BY <1>1, LastFacts, SameFacts
  <2>2. Idle'
    BY <1>1, SameFacts, IdleIs DEF Pre, AdmitPre
  <2> QED
    BY <1>2, <2>1, <2>2 DEF AdmitPre
<1>4. CASE Then(Create(Slot(p, a), k, "none"))
  <2>1. PICK i : i = Create(Slot(p, a), k, "none")
    OBVIOUS
  <2>2. i.op = "create" /\ i.key = k /\ i.then = "none" /\ i.keys = Slot(p, a)
    BY <2>1 DEF Create
  <2>3. i.keys \subseteq Slot(p, a)'
    BY <1>1, <2>2, SameFacts
  <2>4. CreatePre(i)'
    BY <1>3, <2>2, <2>3 DEF CreatePre, NoFlight
  <2> QED
    BY <1>1, <1>4, <2>1, <2>2, <2>4, PreOf, DecidesThen
<1>5. CASE Then(Block("fail"))
  BY <1>1, <1>3, <1>5, PreRun, DecidesThen
<1> QED
  BY <1>4, <1>5 DEF Admits

\* The row that moves is the row the instruction names, or the walk ends.
LEMMA StaleGoes ==
  ASSUME RowsAt({}), graph' = graph, rows' = rows, run' = run, Ends
  PROVE  Goes
BY RowsSame, SameRows, GoesEnds

LEMMA WrittenThen ==
  ASSUME ShapeInv, WalkInv, todo # <<>>, graph' = graph, run' = run, Placed({})', Quiet' \/ run # "awaiting",
         NEW i, Then(i), Pre(i)'
  PROVE  Goes
<1>1. RowsAt({})'
  BY RunKeeps DEF RowsAt
<1> QED
  BY <1>1, GoesThen DEF WalkInv

\* An instruction's row moves from a status it has in flight, and nothing else is in flight beside it.
LEMMA SoleMoves ==
  ASSUME RowsInv, graph \in Graphs, Placed({}), graph' = graph, NEW k \in DOMAIN rows, Sole(k),
         St(k) \in {"pending", "running", "awaiting"}, NEW row, row.sel = rows[k].sel,
         rows' = [rows EXCEPT ![k] = row], row.st \in {"running", "awaiting", "failed"}
  PROVE  /\ Placed({})' /\ SameShape /\ Only(k) /\ St(k)' = row.st /\ Sole(k)'
         /\ (row.st # "running" => Quiet') /\ (row.st = "failed" => Idle' /\ NoFlight')
         /\ \A p : Last(p)' = Last(p)
<1>1. Only(k) /\ St(k)' = row.st /\ InFlight(k)
  BY RowOnly DEF InFlight
<1>2. Placed({})'
  BY <1>1, FlightKeeps
<1>3. SameShape /\ Sole(k)' /\ \A p : Last(p)' = Last(p)
  BY <1>1, ShapeSame DEF Only, SameShape, Sole
<1>4. (row.st # "running" => Quiet') /\ (row.st = "failed" => Idle' /\ NoFlight')
  <2>1. row.st = "failed" => ~ InFlight(k)'
    BY <1>1 DEF InFlight
  <2> QED
    BY <1>1, <2>1, AloneMoved
<1> QED
  BY <1>1, <1>2, <1>3, <1>4

LEMMA StartsGoes == ASSUME ShapeInv, WalkInv, Starts PROVE Goes
<1> PICK k : k = Now.key
  OBVIOUS
<1>1. /\ RowsAt({}) /\ Placed({}) /\ RowsInv /\ graph \in Graphs /\ todo # <<>>
      /\ run = "running" /\ Sole(k) /\ k \in DOMAIN rows
  <2>1. /\ RowsAt({}) /\ Placed({}) /\ RowsInv /\ graph \in Graphs /\ todo # <<>> /\ Pre(Now) /\ Now.op = "start"
    BY Opening DEF Starts
  <2>2. k \in DOMAIN rows
    BY DoingFacts DEF Starts, RowOps, AllOps
  <2> QED
    BY <2>1, <2>2 DEF Pre
<1>2. graph' = graph /\ run' = run
  BY DEF Starts, Moves, WritesRows
<1>3. CASE rows' = rows /\ Ends
  BY <1>1, <1>2, <1>3, StaleGoes
<1>4. CASE /\ St(k) = "pending" /\ rows' = [rows EXCEPT ![k] = To(k, "running")]
           /\ Then(I(IF k[3] < 0 THEN "judge" ELSE "session", k))
  <2>1. /\ To(k, "running").sel = rows[k].sel /\ To(k, "running").st = "running"
    BY <1>1 DEF RowsInv, Rows, To
  <2>2. Placed({})' /\ St(k)' = "running" /\ Sole(k)'
    BY <1>1, <1>2, <1>4, <2>1, SoleMoves
  <2>3. k[3] >= 0 => Plain(k)'
    <3>1. k[3] \in Int
      BY <1>1, KeyFacts
    <3> QED
      BY <2>2, <3>1 DEF Sole, Plain
  <2>4. k[3] \in Int
    BY <1>1, KeyFacts
  <2>5. CASE k[3] < 0
    BY <1>1, <1>2, <1>4, <2>2, <2>5, PreRow, WrittenThen
  <2>6. CASE k[3] >= 0
    BY <1>1, <1>2, <1>4, <2>2, <2>3, <2>4, <2>6, PreRow, WrittenThen
  <2> QED
    BY <2>4, <2>5, <2>6
<1> QED
  BY <1>3, <1>4 DEF Starts, Moves

LEMMA ToFacts ==
  ASSUME RowsInv, NEW k \in DOMAIN rows
  PROVE  /\ \A st : To(k, st).sel = rows[k].sel /\ To(k, st).st = st
         /\ \A st, note : [To(k, st) EXCEPT !.note = note].sel = rows[k].sel /\ [To(k, st) EXCEPT !.note = note].st = st
         /\ \A st, ans : [rows[k] EXCEPT !.st = st, !.ans = ans].sel = rows[k].sel
         /\ \A st, ans : [rows[k] EXCEPT !.st = st, !.ans = ans].st = st
<1>1. rows[k] \in Rows
  BY DEF RowsInv
<1>2. \A st : To(k, st).sel = rows[k].sel /\ To(k, st).st = st
  BY <1>1 DEF Rows, To
<1>3. \A st, note : [To(k, st) EXCEPT !.note = note].sel = rows[k].sel /\ [To(k, st) EXCEPT !.note = note].st = st
  BY <1>1 DEF Rows, To
<1>4. \A st, ans : /\ [rows[k] EXCEPT !.st = st, !.ans = ans].sel = rows[k].sel
                   /\ [rows[k] EXCEPT !.st = st, !.ans = ans].st = st
  BY <1>1 DEF Rows
<1> QED
  BY <1>2, <1>3, <1>4

LEMMA AppliedIs ==
  ASSUME RowsInv, graph \in Graphs, NEW k \in DOMAIN rows, NEW verdict \in Works \ {"none"}, NEW miss,
         NEW i, i = Applied(k, verdict, miss)
  PROVE  i \in {Park(k, miss), I("accept", k), I("spend", k), I("gate", k)}
<1> DEFINE gate == graph[k[1]].gate
<1>1. gate \in Gates
  BY GraphFacts, KeyFacts
<1>2. CASE gate = "always" \/ (gate = "on_failure" /\ verdict # "ok")
  BY <1>2 DEF Applied
<1>3. CASE gate # "always" /\ verdict = "ok"
  BY <1>3 DEF Applied
<1>4. CASE gate = "never" /\ verdict = "fail"
  BY <1>4 DEF Applied
<1>5. CASE gate = "never" /\ verdict = "reject"
  BY <1>5 DEF Applied
<1> QED
  BY <1>1, <1>2, <1>3, <1>4, <1>5 DEF Gates, Works

LEMMA AppliedPre ==
  ASSUME RowsInv, graph \in Graphs, graph' = graph, NEW k \in DOMAIN rows, Plain(k),
         NEW verdict \in Works \ {"none"}, NEW miss, NEW i, i = Applied(k, verdict, miss)
  PROVE  Pre(i)'
<1>1. Plain(k)' /\ Sole(k)'
  BY DEF Plain, Sole
<1>2. Pre(Park(k, miss))' /\ Pre(I("accept", k))' /\ Pre(I("spend", k))' /\ Pre(I("gate", k))'
  BY <1>1, PreRow
<1> QED
  BY <1>2, AppliedIs

\* What a row that fails leads to.
LEMMA FailedMoved ==
  ASSUME RowsInv, graph \in Graphs, Placed({}), graph' = graph, NEW k \in DOMAIN rows, Plain(k),
         St(k) \in {"pending", "running", "awaiting"}, NEW row, row.sel = rows[k].sel,
         rows' = [rows EXCEPT ![k] = row], row.st = "failed"
  PROVE  FailedPre(k)' /\ AdmitPre(k[1], k[2] + 1)'
<1>1. /\ Placed({})' /\ SameShape /\ Only(k) /\ St(k)' = "failed" /\ NoFlight'
      /\ \A p : Last(p)' = Last(p)
  BY SoleMoves DEF Sole, Plain
<1>2. k[2] = Last(k[1]) /\ Front(k[1]) /\ \A p : Won(p)' = Won(p)
  BY <1>1, InFlightIsFront, FlightKeeps DEF InFlight, Placed
<1>3. FailedPre(k)'
  BY <1>1, <1>2 DEF FailedPre, Plain
<1>4. Front(k[1])'
  BY <1>1, <1>2, ShapeSame DEF Front, Reached
<1>5. Spent(k[1], k[2] + 1)'
  <2> SUFFICES ASSUME NEW j \in DOMAIN rows, j[1] = k[1], j[2] < k[2] + 1, j[3] >= 0 PROVE St(j)' \in Dead
    BY <1>1 DEF Spent, At, SameShape
  <2>1. j[2] <= k[2] /\ j[2] \in Nat /\ k[2] \in Nat
    BY KeyFacts
  <2>2. CASE j[2] < k[2]
    BY <1>1, <1>2, <2>2 DEF Placed, OldRows, SameShape
  <2>3. CASE j[2] = k[2]
    <3>1. j[3] = 0 /\ k[3] = 0
      BY DEF Placed, Kinds, Plain
    <3>2. j = k
      BY <2>3, <3>1, KeyFacts
    <3> QED
      BY <1>1, <3>2 DEF Dead
  <2> QED
    BY <2>1, <2>2, <2>3
<1> QED
  BY <1>1, <1>2, <1>3, <1>4, <1>5 DEF AdmitPre

LEMMA DoneMoved ==
  ASSUME RowsInv, graph \in Graphs, Placed({}), graph' = graph, NEW k \in DOMAIN rows, Plain(k),
         St(k) \in {"pending", "running", "awaiting"}, NEW row, row.sel = rows[k].sel,
         rows' = [rows EXCEPT ![k] = row], row.st = "done"
  PROVE  Placed({})' /\ Quiet' /\ Idle' /\ NoFlight'
<1>1. Only(k) /\ St(k)' = "done"
  BY RowOnly
<1>2. InFlight(k) /\ Sole(k) /\ ~ InFlight(k)'
  BY <1>1 DEF InFlight, Sole, Plain
<1>3. k[3] >= 0
  <2>1. k[3] = 0
    BY PlainFacts DEF Placed
  <2> QED
    BY <2>1
<1> QED
  BY <1>1, <1>2, <1>3, DoneKeeps, AloneMoved

LEMMA SessionsGoes == ASSUME ShapeInv, WalkInv, Sessions PROVE Goes
<1> PICK k : k = Now.key
  OBVIOUS
<1>1. /\ RowsAt({}) /\ Placed({}) /\ RowsInv /\ graph \in Graphs /\ todo # <<>>
      /\ Plain(k) /\ k \in DOMAIN rows /\ rows[k] \in Rows
  <2>1. /\ RowsAt({}) /\ Placed({}) /\ RowsInv /\ graph \in Graphs /\ todo # <<>> /\ Pre(Now) /\ Now.op = "session"
    BY Opening DEF Sessions
  <2>2. k \in DOMAIN rows /\ rows[k] \in Rows
    BY DoingFacts DEF Sessions, RowOps, AllOps
  <2> QED
    BY <2>1, <2>2 DEF Pre
<1>2. graph' = graph /\ run' = run
  BY DEF Sessions, WritesRows
<1>3. ASSUME NEW block, rows' = rows, Then(FailHard(k, block)) PROVE Goes
  <2>1. Pre(FailHard(k, block))' /\ RowsAt({})'
    BY <1>1, <1>2, <1>3, PreRow, RowsSame, SameRows DEF Sole, Plain
  <2> QED
    BY <1>1, <1>2, <1>3, <2>1, GoesThen DEF WalkInv
<1>4. ASSUME NEW work \in Works, NEW verdict \in {work, "fail"} \ {"none"},
             rows' = [rows EXCEPT ![k].work = work], Then(Applied(k, verdict, "fail"))
      PROVE  Goes
  <2>1. PICK i : i = Applied(k, verdict, "fail")
    OBVIOUS
  <2>2. Pre(i)'
    BY <1>1, <1>2, <2>1, AppliedPre DEF Works
  <2>3. /\ rows' = [rows EXCEPT ![k] = [rows[k] EXCEPT !.work = work]]
        /\ [rows[k] EXCEPT !.work = work].sel = rows[k].sel /\ [rows[k] EXCEPT !.work = work].st = rows[k].st
    BY <1>1, <1>4 DEF Rows
  <2>4. RowsAt({})'
    BY <1>1, <1>2, <2>3, RowSame, SameRows
  <2> QED
    BY <1>1, <1>2, <1>4, <2>1, <2>2, <2>4, GoesThen DEF WalkInv
<1> QED
  BY <1>3, <1>4 DEF Sessions

LEMMA ParksGoes == ASSUME ShapeInv, WalkInv, Parks PROVE Goes
<1> PICK k : k = Now.key
  OBVIOUS
<1>1. /\ RowsAt({}) /\ Placed({}) /\ RowsInv /\ graph \in Graphs /\ todo # <<>>
      /\ Plain(k) /\ Sole(k) /\ k \in DOMAIN rows
  <2>1. /\ RowsAt({}) /\ Placed({}) /\ RowsInv /\ graph \in Graphs /\ todo # <<>> /\ Pre(Now) /\ Now.op = "park"
    BY Opening DEF Parks
  <2>2. k \in DOMAIN rows
    BY DoingFacts DEF Parks, RowOps, AllOps
  <2> QED
    BY <2>1, <2>2 DEF Pre, Sole, Plain
<1>2. CASE St(k) = "running" /\ run = "running"
  <2>1. /\ rows' = [rows EXCEPT ![k] = To(k, "awaiting")] /\ run' = "awaiting" /\ Ends /\ graph' = graph
    BY <1>2 DEF Parks
  <2>2. To(k, "awaiting").sel = rows[k].sel /\ To(k, "awaiting").st = "awaiting"
    BY <1>1, ToFacts
  <2>3. Placed({})' /\ Quiet'
    BY <1>1, <1>2, <2>1, <2>2, SoleMoves
  <2> QED
    BY <2>1, <2>3, GoesEnds DEF RowsAt, RunIsQuiet, TerminalRun
<1>3. CASE ~ (St(k) = "running" /\ run = "running")
  <2>1. Decides /\ (Ends \/ Then(FailHard(k, FALSE)))
    BY <1>3 DEF Parks, Decides, rowVars
  <2>2. Pre(FailHard(k, FALSE))'
    BY <1>1, <2>1, PreRow DEF Sole, Plain, Decides, rowVars
  <2> QED
    BY <1>1, <2>1, <2>2, DecidesThen, DecidesOver
<1> QED
  BY <1>2, <1>3

LEMMA AcceptsGoes == ASSUME ShapeInv, WalkInv, Accepts PROVE Goes
<1> PICK k : k = Now.key
  OBVIOUS
<1>1. /\ RowsAt({}) /\ Placed({}) /\ RowsInv /\ graph \in Graphs /\ todo # <<>>
      /\ Plain(k) /\ Sole(k) /\ k \in DOMAIN rows
  <2>1. /\ RowsAt({}) /\ Placed({}) /\ RowsInv /\ graph \in Graphs /\ todo # <<>> /\ Pre(Now) /\ Now.op = "accept"
    BY Opening DEF Accepts
  <2>2. k \in DOMAIN rows
    BY DoingFacts DEF Accepts, RowOps, AllOps
  <2> QED
    BY <2>1, <2>2 DEF Pre, Sole, Plain
<1>2. graph' = graph /\ run' = run
  BY DEF Accepts, Moves, WritesRows
<1>3. CASE rows' = rows /\ Ends
  BY <1>1, <1>2, <1>3, StaleGoes
<1>4. CASE /\ St(k) = "running" /\ rows' = [rows EXCEPT ![k] = [rows[k] EXCEPT !.st = "done", !.ans = "skipped"]]
           /\ Then(I("merge", k))
  <2>1. PICK row : row = [rows[k] EXCEPT !.st = "done", !.ans = "skipped"]
    OBVIOUS
  <2>2. row.sel = rows[k].sel /\ row.st = "done" /\ rows' = [rows EXCEPT ![k] = row]
    BY <1>1, <1>4, <2>1, ToFacts
  <2>4. Placed({})' /\ Quiet'
    BY <1>1, <1>2, <1>4, <2>2, DoneMoved
  <2>5. Pre(I("merge", k))'
    BY <2>4, PreRow
  <2> QED
    BY <1>1, <1>2, <1>4, <2>4, <2>5, WrittenThen
<1> QED
  BY <1>3, <1>4 DEF Accepts, Moves

LEMMA FailsHardGoes == ASSUME ShapeInv, WalkInv, FailsHard PROVE Goes
<1> PICK k : k = Now.key
  OBVIOUS
<1>1. /\ RowsAt({}) /\ Placed({}) /\ RowsInv /\ graph \in Graphs /\ todo # <<>>
      /\ Sole(k) /\ k \in DOMAIN rows
  <2>1. /\ RowsAt({}) /\ Placed({}) /\ RowsInv /\ graph \in Graphs /\ todo # <<>> /\ Pre(Now) /\ Now.op = "fail"
    BY Opening DEF FailsHard
  <2>2. k \in DOMAIN rows
    BY DoingFacts DEF FailsHard, RowOps, AllOps
  <2> QED
    BY <2>1, <2>2 DEF Pre
<1>2. graph' = graph /\ run' = run
  BY DEF FailsHard, Moves, WritesRows
<1>3. CASE rows' = rows /\ Ends
  BY <1>1, <1>2, <1>3, StaleGoes
<1>4. CASE /\ St(k) = "running" /\ rows' = [rows EXCEPT ![k] = To(k, "failed")]
           /\ Then(FailRun(Now.block))
  <2>1. To(k, "failed").sel = rows[k].sel /\ To(k, "failed").st = "failed"
    BY <1>1, ToFacts
  <2>2. Placed({})' /\ Idle' /\ Quiet'
    BY <1>1, <1>2, <1>4, <2>1, SoleMoves
  <2>3. PICK b : b = Now.block
    OBVIOUS
  <2>4. Pre(FailRun(b))'
    BY <2>2, PreFail
  <2> QED
    BY <1>1, <1>2, <1>4, <2>2, <2>3, <2>4, WrittenThen
<1> QED
  BY <1>3, <1>4 DEF FailsHard, Moves

LEMMA SpendsGoes == ASSUME ShapeInv, WalkInv, Spends PROVE Goes
<1> PICK k : k = Now.key
  OBVIOUS
<1>1. /\ RowsAt({}) /\ Placed({}) /\ RowsInv /\ graph \in Graphs /\ todo # <<>>
      /\ Plain(k) /\ Sole(k) /\ k \in DOMAIN rows
  <2>1. /\ RowsAt({}) /\ Placed({}) /\ RowsInv /\ graph \in Graphs /\ todo # <<>> /\ Pre(Now) /\ Now.op = "spend"
    BY Opening DEF Spends
  <2>2. k \in DOMAIN rows
    BY DoingFacts DEF Spends, RowOps, AllOps
  <2> QED
    BY <2>1, <2>2 DEF Pre, Sole, Plain
<1>2. graph' = graph /\ run' = run
  BY DEF Spends, Moves, WritesRows
<1>3. CASE rows' = rows /\ Ends
  BY <1>1, <1>2, <1>3, StaleGoes
<1>4. CASE /\ St(k) = "running" /\ rows' = [rows EXCEPT ![k] = To(k, "failed")]
           /\ Then(Admit(k[1], k[2] + 1)) \/ Then(Finish("failed"))
  <2>1. To(k, "failed").sel = rows[k].sel /\ To(k, "failed").st = "failed"
    BY <1>1, ToFacts
  <2>2. Placed({})' /\ Idle' /\ Quiet' /\ AdmitPre(k[1], k[2] + 1)'
    BY <1>1, <1>2, <1>4, <2>1, SoleMoves, FailedMoved
  <2>3. Pre(Admit(k[1], k[2] + 1))' /\ Pre(Finish("failed"))'
    BY <2>2, PreAdmit, PreRun
  <2> QED
    BY <1>1, <1>2, <1>4, <2>2, <2>3, WrittenThen
<1> QED
  BY <1>3, <1>4 DEF Spends, Moves

LEMMA GatesItselfGoes == ASSUME ShapeInv, WalkInv, GatesItself PROVE Goes
<1> PICK k : k = Now.key
  OBVIOUS
<1>1. /\ RowsAt({}) /\ Placed({}) /\ RowsInv /\ graph \in Graphs /\ todo # <<>>
      /\ Sole(k) /\ k \in DOMAIN rows
  <2>1. /\ RowsAt({}) /\ Placed({}) /\ RowsInv /\ graph \in Graphs /\ todo # <<>> /\ Pre(Now) /\ Now.op = "gate"
    BY Opening DEF GatesItself
  <2>2. k \in DOMAIN rows
    BY DoingFacts DEF GatesItself, RowOps, AllOps
  <2> QED
    BY <2>1, <2>2 DEF Pre
<1>2. graph' = graph /\ run' = run
  BY DEF GatesItself, Moves, WritesRows
<1>3. CASE rows' = rows /\ Ends
  BY <1>1, <1>2, <1>3, StaleGoes
<1>4. CASE /\ St(k) = "running" /\ rows' = [rows EXCEPT ![k] = To(k, "awaiting")]
           /\ Then(Reject(k, "walk"))
  <2>1. To(k, "awaiting").sel = rows[k].sel /\ To(k, "awaiting").st = "awaiting"
    BY <1>1, ToFacts
  <2>2. Placed({})' /\ Quiet' /\ Sole(k)'
    BY <1>1, <1>2, <1>4, <2>1, SoleMoves
  <2>3. Pre(Reject(k, "walk"))'
    BY <2>2, PreRow
  <2> QED
    BY <1>1, <1>2, <1>4, <2>2, <2>3, WrittenThen
<1> QED
  BY <1>3, <1>4 DEF GatesItself, Moves

LEMMA RejectsRowGoes == ASSUME ShapeInv, WalkInv, RejectsRow PROVE Goes
<1> PICK k : k = Now.key
  OBVIOUS
<1>1. /\ RowsAt({}) /\ Placed({}) /\ RowsInv /\ graph \in Graphs /\ todo # <<>>
      /\ k \in DOMAIN rows /\ (k[3] >= 0 \/ Now.by = "walk")
  <2>1. /\ RowsAt({}) /\ Placed({}) /\ RowsInv /\ graph \in Graphs /\ todo # <<>> /\ Pre(Now) /\ Now.op = "reject"
    BY Opening DEF RejectsRow
  <2>2. k \in DOMAIN rows
    BY DoingFacts DEF RejectsRow, RowOps, AllOps
  <2> QED
    BY <2>1, <2>2 DEF Pre
<1>2. graph' = graph /\ run' = run
  BY DEF RejectsRow, Moves, WritesRows
<1>3. CASE rows' = rows /\ Ends
  BY <1>1, <1>2, <1>3, StaleGoes
<1>4. CASE /\ St(k) = "awaiting" /\ rows' = [rows EXCEPT ![k] = [rows[k] EXCEPT !.st = "failed", !.ans = "rejected"]]
           /\ Then(IF Now.by = "person" THEN Unpark(k, "rejection", FALSE)
                   ELSE IF k[3] < 0 THEN ParkRun ELSE I("loop", k))
  <2>1. PICK row : row = [rows[k] EXCEPT !.st = "failed", !.ans = "rejected"]
    OBVIOUS
  <2>2. row.sel = rows[k].sel /\ row.st = "failed" /\ rows' = [rows EXCEPT ![k] = row]
    BY <1>1, <1>4, <2>1, ToFacts
  <2>3. Sole(k) /\ k[3] \in Int /\ (k[3] >= 0 => Plain(k))
    BY <1>1, <1>4, PlainFacts, KeyFacts DEF Placed
  <2>4. Placed({})' /\ Quiet'
    BY <1>1, <1>2, <1>4, <2>2, <2>3, SoleMoves
  <2>5. k[3] >= 0 => FailedPre(k)'
    BY <1>1, <1>2, <1>4, <2>2, <2>3, FailedMoved
  <2>6. Pre(ParkRun)' /\ (k[3] >= 0 => Pre(Unpark(k, "rejection", FALSE))' /\ Pre(I("loop", k))')
    BY <2>4, <2>5, PreRun, PreRow
  <2>7. PICK i : i = IF Now.by = "person" THEN Unpark(k, "rejection", FALSE)
                     ELSE IF k[3] < 0 THEN ParkRun ELSE I("loop", k)
    OBVIOUS
  <2>8. CASE k[3] >= 0
    <3>0. ~ (k[3] < 0)
      BY <2>3, <2>8
    <3>1. i = Unpark(k, "rejection", FALSE) \/ i = I("loop", k)
      BY <2>7, <3>0, Zenon
    <3> QED
      BY <1>1, <1>2, <1>4, <2>4, <2>6, <2>7, <2>8, <3>1, WrittenThen
  <2>9. CASE k[3] < 0
    <3>0. Now.by # "person"
      BY <1>1, <2>3, <2>9
    <3>1. i = ParkRun
      BY <2>7, <2>9, <3>0, Zenon
    <3> QED
      BY <1>1, <1>2, <1>4, <2>4, <2>6, <2>7, <3>1, WrittenThen
  <2> QED
    BY <2>3, <2>8, <2>9
<1> QED
  BY <1>3, <1>4 DEF RejectsRow, Moves

LEMMA MergesGoes == ASSUME ShapeInv, WalkInv, Merges PROVE Goes
<1> PICK k : k = Now.key
  OBVIOUS
<1>1. /\ RowsAt({}) /\ RowsInv /\ todo # <<>> /\ Quiet /\ k \in DOMAIN rows /\ rows[k] \in Rows
  <2>1. RowsAt({}) /\ RowsInv /\ todo # <<>> /\ Pre(Now) /\ Now.op = "merge"
    BY Opening DEF Merges
  <2>2. k \in DOMAIN rows /\ rows[k] \in Rows
    BY DoingFacts DEF Merges, RowOps, AllOps
  <2> QED
    BY <2>1, <2>2 DEF Pre
<1>2. graph' = graph /\ run' = run
  BY DEF Merges, WritesRows
<1>3. CASE rows' = [rows EXCEPT ![k].merged = TRUE] /\ Over
  <2>1. /\ rows' = [rows EXCEPT ![k] = [rows[k] EXCEPT !.merged = TRUE]]
        /\ [rows[k] EXCEPT !.merged = TRUE].sel = rows[k].sel /\ [rows[k] EXCEPT !.merged = TRUE].st = rows[k].st
    BY <1>1, <1>3 DEF Rows
  <2>2. RowsAt({})'
    BY <1>1, <1>2, <2>1, RowSame, SameRows
  <2> QED
    BY <1>1, <1>3, <2>2, GoesOver DEF WalkInv
<1>4. CASE rows' = rows /\ Then(ParkRun)
  <2>1. SameStatus /\ RowsAt({})'
    BY <1>1, <1>2, <1>4, RowsSame, SameRows
  <2>2. Pre(ParkRun)'
    BY <1>1, <2>1, SameFacts, PreRun
  <2> QED
    BY <1>1, <1>2, <1>4, <2>1, <2>2, GoesThen DEF WalkInv
<1> QED
  BY <1>3, <1>4 DEF Merges

LEMMA CreatedThen ==
  ASSUME ShapeInv, WalkInv, todo # <<>>, RowsAt({}), RowsInv, graph \in Graphs, WritesRows,
         Now.op = "create", IsInstr(Now), CreatePre(Now),
         NEW k \in Rest, k \notin DOMAIN rows, Then(Without(k)),
         rows' = [j \in DOMAIN rows \cup {k} |-> IF j = k THEN NewRow ELSE rows[j]]
  PROVE  Goes
<1> PICK now : now = Now
  OBVIOUS
<1> DEFINE p == now.key[1]  a == now.key[2]  S == now.keys
<1>1. /\ k \in S /\ S \subseteq Keys /\ now = Create(S, now.key, now.then) /\ CreatePre(now)
      /\ now.then \in {"none", "fan", "start"} /\ graph' = graph /\ run' = run /\ Placed({}) /\ Created(k)
  BY DEF IsInstr, Rest, WritesRows, RowsAt, Created
<1>2. k[1] = p /\ k[2] = a /\ k[3] \in Int
      /\ (now.then # "start" => k \in Slot(p, a) /\ k[3] \in 0..graph[p].fan - 1)
      /\ (now.then = "start" => k = JudgeOf(p, a) /\ k[3] = -1 /\ graph[p].fan > 1)
  <2>1. k[3] \in Int
    BY <1>1 DEF Keys
  <2>2. CASE now.then # "start"
    <3>1. k \in Slot(p, a)
      BY <1>1, <2>2 DEF CreatePre
    <3> QED
      BY <2>1, <2>2, <3>1 DEF Slot
  <2>3. CASE now.then = "start"
    <3>1. k = JudgeOf(p, a) /\ graph[p].fan > 1
      BY <1>1, <2>3 DEF CreatePre, GroupPre
    <3> QED
      BY <2>1, <2>3, <3>1 DEF JudgeOf
  <2> QED
    BY <2>2, <2>3
<1>3. Placed({})' /\ \A q : Won(q)' = Won(q)
  <2>1. Plain(k) => k[3] = 0
    <3> SUFFICES ASSUME graph[p].fan = 1 PROVE k[3] = 0
      BY <1>2 DEF Plain
    <3> QED
      BY <1>1, <1>2
  <2>2. k[3] < 0 => now.then = "start"
    BY <1>1, <1>2
  <2>3. /\ Front(p) /\ Last(p) <= a /\ Spent(p, a) /\ \A j \in DOMAIN rows : InFlight(j) => j[1] = p /\ j[2] = a
        /\ now.then = "start" => /\ \A j \in Slot(p, a) : j \in DOMAIN rows /\ St(j) \notin {"pending", "running"}
                                 /\ \E j \in Slot(p, a) : St(j) \notin Gone
    BY <1>1 DEF CreatePre
  <2> QED
    BY <1>1, <1>2, <2>1, <2>2, <2>3, CreatedKeeps
<1>4. /\ Phases' = Phases /\ DOMAIN rows' = DOMAIN rows \cup {k}
      /\ \A j \in DOMAIN rows : St(j)' = St(j) /\ InFlight(j)' = InFlight(j)
      /\ St(k)' = "pending" /\ \A q, b : Slot(q, b)' = Slot(q, b)
      /\ At(p)' = At(p) \cup {k} /\ Last(p)' = a
  BY <1>1, <1>2, CreatedFacts DEF CreatePre
<1>5. Quiet => Quiet'
  BY <1>4 DEF Quiet
<1>6. RowsAt({})'
  <2>1. run = "awaiting" => Quiet
    BY DEF RowsAt, RunIsQuiet
  <2> QED
    BY <1>1, <1>3, <1>5, <2>1, RunKeeps DEF RowsAt
<1>7. PICK i : i = Create(S \ {k}, now.key, now.then)
  OBVIOUS
<1>8. Without(k) = i /\ i.op = "create" /\ i.key = now.key /\ i.then = now.then /\ i.keys = S \ {k}
  <2>1. PICK T : T = now.keys
    OBVIOUS
  <2>2. now = Create(T, now.key, now.then) /\ i = Create(T \ {k}, now.key, now.then)
    BY <1>1, <1>7, <2>1
  <2>3. PICK b : b = now.key
    OBVIOUS
  <2>4. PICK c : c = now.then
    OBVIOUS
  <2>5. now = [op |-> "create", keys |-> T, key |-> b, then |-> c]
        /\ i = [op |-> "create", keys |-> T \ {k}, key |-> b, then |-> c]
    BY <2>2, <2>3, <2>4 DEF Create
  <2>6. [now EXCEPT !.keys = now.keys \ {k}] = i
    BY <2>5
  <2>7. Without(k) = i
    BY <2>6 DEF Without
  <2> QED
    BY <2>3, <2>4, <2>5, <2>7
<1>9. Front(p)' /\ (GroupPre(p, a) => GroupPre(p, a)')
  <2>1. Front(p)'
    BY <1>1, <1>3, <1>4 DEF CreatePre, Front, Reached
  <2> QED
    BY <1>1, <1>4, <2>1 DEF GroupPre
<1>10. Spent(p, a)'
  <2> SUFFICES ASSUME NEW j \in At(p)', j[2] < a, j[3] >= 0 PROVE St(j)' \in Dead
    BY DEF Spent
  <2>1. a \in Nat
    BY <1>1, <1>2 DEF Keys
  <2>2. j \in At(p) /\ j \in DOMAIN rows
    BY <1>2, <1>4, <2>1 DEF At
  <2> QED
    BY <1>1, <1>4, <2>2 DEF CreatePre, Spent
<1>11. a <= a
  BY <1>1, <1>2 DEF Keys
<1>12. \A j \in DOMAIN rows' : InFlight(j)' => j[1] = p /\ j[2] = a
  BY <1>1, <1>2, <1>4 DEF CreatePre
<1>13. now.then = "fan" => JudgeOf(p, a) \notin DOMAIN rows'
  <2> SUFFICES ASSUME now.then = "fan" PROVE JudgeOf(p, a) # k
    BY <1>1, <1>4 DEF CreatePre
  <2>1. k[3] >= 0
    BY <1>2
  <2> QED
    BY <2>1 DEF JudgeOf
<1>14. now.then = "start" =>
         /\ \A j \in Slot(p, a) : j \in DOMAIN rows' /\ St(j)' \notin {"pending", "running"}
         /\ \E j \in Slot(p, a) : St(j)' \notin Gone
  BY <1>1, <1>4 DEF CreatePre
<1>15. CreatePre(i)'
  <2>1. now.then \in {"fan", "start"} => GroupPre(p, a)' /\ Quiet'
    BY <1>1, <1>5, <1>9 DEF CreatePre
  <2>2. now.then \in {"none", "fan"} => S \ {k} \subseteq Slot(p, a)'
    BY <1>1, <1>4 DEF CreatePre
  <2>3. now.then = "start" => now.key = JudgeOf(p, a)' /\ S \ {k} \subseteq {JudgeOf(p, a)'}
    BY <1>1 DEF CreatePre, JudgeOf
  <2>4. (now.then = "fan" => JudgeOf(p, a)' \notin DOMAIN rows')
    BY <1>13 DEF JudgeOf
  <2> QED
    BY <1>4, <1>8, <1>9, <1>10, <1>11, <1>12, <1>14, <2>1, <2>2, <2>3, <2>4 DEF CreatePre
<1>16. Pre(i)'
  BY <1>8, <1>15, PreOf
<1> QED
  BY <1>1, <1>6, <1>8, <1>16, GoesThen DEF WalkInv

LEMMA CreatesGoes == ASSUME ShapeInv, WalkInv, Creates PROVE Goes
<1>1. /\ RowsAt({}) /\ Placed({}) /\ RowsInv /\ graph \in Graphs /\ todo # <<>> /\ Now.op = "create"
      /\ CreatePre(Now) /\ WritesRows /\ IsInstr(Now) /\ graph' = graph /\ run' = run
  <2>1. /\ RowsAt({}) /\ Placed({}) /\ RowsInv /\ graph \in Graphs /\ todo # <<>> /\ Pre(Now) /\ Now.op = "create"
    BY Opening DEF Creates
  <2>2. IsInstr(Now)
    BY DoingFacts DEF Creates, OtherOps, AllOps
  <2> QED
    BY <2>1, <2>2 DEF Pre, Creates, WritesRows
<1>2. CASE Rest = {} /\ rows' = rows /\ (IF Now.then = "none" THEN Over ELSE Then(I(Now.then, Now.key)))
  <2>1. Decides
    BY <1>1, <1>2 DEF WritesRows, Decides, rowVars
  <2>2. PICK k : k = Now.key
    OBVIOUS
  <2>3. CASE Now.then = "none"
    BY <1>1, <1>2, <2>1, <2>3, DecidesOver
  <2>4. CASE Now.then = "fan"
    <3>1. k = <<k[1], k[2], 0>>
      BY <1>1, <2>2, <2>4 DEF IsInstr, Slots
    <3>2. GroupPre(k[1], k[2])' /\ Quiet' /\ (JudgeOf(k[1], k[2]) \notin DOMAIN rows)'
      <4>1. GroupPre(k[1], k[2]) /\ Quiet /\ JudgeOf(k[1], k[2]) \notin DOMAIN rows
        BY <1>1, <2>2, <2>4 DEF CreatePre
      <4> QED
        BY <1>1, <2>1, <4>1, DecidesSame, SamePre, SameFacts DEF JudgeOf
    <3>3. Pre(I("fan", k))'
      BY <3>1, <3>2, PreSlot
    <3> QED
      BY <1>1, <1>2, <2>1, <2>2, <2>4, <3>3, DecidesThen
  <2>5. CASE Now.then = "start"
    <3>1. k[3] < 0 /\ run = "running"
      BY <1>1, <2>2, <2>5 DEF CreatePre, GroupPre, JudgeOf
    <3>2. Pre(I("start", k))'
      BY <1>1, <3>1, PreRow DEF Sole
    <3> QED
      BY <1>1, <1>2, <2>1, <2>2, <2>5, <3>2, DecidesThen
  <2>6. Now.then \in {"none", "fan", "start"}
    BY <1>1 DEF IsInstr
  <2> QED
    BY <2>3, <2>4, <2>5, <2>6
<1>3. ASSUME NEW k \in First(Rest), k \in DOMAIN rows, rows' = rows, Ends PROVE Goes
  BY <1>1, <1>3, StaleGoes
<1>4. ASSUME NEW k \in First(Rest), k \notin DOMAIN rows, Then(Without(k)),
             rows' = [j \in DOMAIN rows \cup {k} |-> IF j = k THEN NewRow ELSE rows[j]]
      PROVE  Goes
  <2>1. k \in Rest
    BY DEF First
  <2> QED
    BY <1>1, <1>4, <2>1, CreatedThen
<1> QED
  BY <1>2, <1>3, <1>4 DEF Creates

\* A rejection retires what its target and all after it have left.
LEMMA LoopRetires ==
  ASSUME RowsInv, graph \in Graphs, Placed({}), NEW k \in DOMAIN rows, FailedPre(k), NEW t \in Phases,
         NEW i, i = Retire(k, t..k[1], "none")
  PROVE  RetirePre(i)
<1> DEFINE p == k[1]
<1>1. /\ i.op = "retire" /\ i.key = k /\ i.then = "none"
      /\ i.keys = {j \in DOMAIN rows : j[1] \in t..p /\ j[2] = Last(j[1]) /\ St(j) \notin Gone}
      /\ \A j \in i.keys : i.was[j] = St(j)
  BY DEF Retire
<1>2. p \in Phases /\ NoFlight /\ Front(p) /\ graph[p].fan = 1 /\ Phases \subseteq Nat
  BY FailedIsFront, KeyFacts, GraphFacts DEF FailedPre, Plain
<1>3. ASSUME NEW q \in Phases, q < p, graph[q].fan > 1 PROVE Chosen(q)
  <2>1. PICK w : w \in Won(q)
    BY <1>2, <1>3 DEF Front, Reached
  <2>2. w \in Group(q, Last(q)) /\ (rows[w].sel \/ graph[q].fan = 1)
    BY <2>1 DEF Won
  <2>3. graph[q].fan # 1
    BY <1>3, GraphFacts
  <2> QED
    BY <2>2, <2>3 DEF Chosen
<1>4. ASSUME NEW x \in DOMAIN rows, x[2] = Last(x[1]), St(x) \notin Gone, NEW j \in i.keys, j[1] <= x[1]
      PROVE  x \in i.keys
  <2>1. x[1] \in Phases /\ x \in At(x[1]) /\ j[1] \in t..p
    BY <1>1, <1>4, KeyFacts
  <2>2. ~ (p < x[1])
    <3> SUFFICES ASSUME p < x[1] PROVE FALSE
      OBVIOUS
    <3>1. St(x) \in Gone
      BY <1>2, <1>4, <2>1 DEF Placed, Beyond, Front
    <3> QED
      BY <1>4, <3>1
  <2>3. x[1] \in t..p
    <3>1. t \in Nat /\ p \in Nat /\ x[1] \in Nat
      BY <1>2, <2>1
    <3>2. j[1] \in Nat /\ t <= j[1]
      BY <2>1, <3>1
    <3> QED
      BY <1>4, <2>2, <3>1, <3>2
  <2> QED
    BY <1>1, <1>4, <2>3
<1>5. \A j \in i.keys : j[1] <= p
  BY <1>1, <1>2
<1> QED
  BY <1>1, <1>2, <1>3, <1>4, <1>5 DEF RetirePre, Front

LEMMA RetireSame ==
  ASSUME SameStatus, RowsInv, NEW i, RetirePre(i), i.keys \subseteq DOMAIN rows
  PROVE  RetirePre(i)'
<1> DEFINE p == i.key[1]
<1>1. /\ \A k \in DOMAIN rows : St(k)' = St(k) /\ InFlight(k)' = InFlight(k) /\ rows'[k].sel = rows[k].sel
      /\ NoFlight' = NoFlight
      /\ \A q : Won(q)' = Won(q) /\ Last(q)' = Last(q) /\ At(q)' = At(q)
      /\ \A q, b : Slot(q, b)' = Slot(q, b) /\ Group(q, b)' = Group(q, b)
      /\ Phases' = Phases /\ DOMAIN rows' = DOMAIN rows /\ graph' = graph
  BY SameFacts DEF SameStatus
<1>2. \A q : (Chosen(q) => Chosen(q)') /\ (Reached(q) => Reached(q)')
  BY <1>1, InGroup DEF Chosen, Reached
<1>3. \A q : \A k \in At(q) : k \in DOMAIN rows
  BY DEF At
<1>4. /\ \A k \in i.keys : St(k)' = i.was[k] /\ St(k)' \notin Gone /\ k[2] = Last(k[1])'
      /\ Won(p)' = {}
  BY <1>1 DEF RetirePre
<1>5. graph'[p].fan = 1 =>
       /\ i.then = "none" /\ NoFlight'
       /\ \A k \in i.keys : k[1] <= p
       /\ \A q \in Phases' : q < p /\ graph'[q].fan > 1 => Chosen(q)'
       /\ \A k \in DOMAIN rows' : k[2] = Last(k[1])' /\ St(k)' \notin Gone =>
            \A j \in i.keys : j[1] <= k[1] => k \in i.keys
  BY <1>1, <1>2 DEF RetirePre
<1>6. graph'[p].fan > 1 =>
       /\ i.keys \subseteq At(p)'
       /\ \A k \in At(p)' : k[3] < 0 /\ InFlight(k)' => k \in i.keys
       /\ i.then = "unpark" =>
            /\ i.key[2] = Last(p)' /\ Reached(p)'
            /\ \A k \in At(p)' : k[2] = Last(p)' /\ St(k)' \notin Gone => k \in i.keys
  BY <1>1, <1>2, <1>3 DEF RetirePre
<1> QED
  BY <1>4, <1>5, <1>6 DEF RetirePre

LEMMA LoopsGoes == ASSUME ShapeInv, WalkInv, Loops PROVE Goes
<1> PICK k : k = Now.key
  OBVIOUS
<1>1. /\ RowsAt({}) /\ Placed({}) /\ RowsInv /\ graph \in Graphs /\ todo # <<>> /\ Decides
      /\ FailedPre(k) /\ k \in DOMAIN rows /\ SameStatus
  <2>1. /\ RowsAt({}) /\ Placed({}) /\ RowsInv /\ graph \in Graphs /\ todo # <<>> /\ Pre(Now) /\ Now.op = "loop"
    BY Opening DEF Loops
  <2>2. k \in DOMAIN rows
    BY DoingFacts DEF Loops, RowOps, AllOps
  <2> QED
    BY <2>1, <2>2, DecidesSame DEF Pre, Loops
<1>2. Idle' /\ Quiet'
  BY <1>1, FailedIsFront, IdleIs, SameFacts
<1>3. CASE Then(Finish("failed")) \/ Then(Escalate)
  BY <1>1, <1>2, <1>3, PreRun, DecidesThen
<1>4. PICK t : t = Target(k[1])
  OBVIOUS
<1>5. CASE Last(t) > 0 /\ t > 0 /\ Then(Retire(k, t..k[1], "none"))
  <2>1. PICK i : i = Retire(k, t..k[1], "none")
    OBVIOUS
  <2>2. t \in Phases
    <3>1. PICK j \in At(t) : TRUE
      <4>1. Last(t) # 0
        BY <1>1, <1>5, LastFacts
      <4> QED
        BY <1>1, <4>1, LastFacts
    <3> QED
      BY <1>1, <3>1, KeyFacts DEF At
  <2>3. RetirePre(i) /\ i.op = "retire" /\ i.keys \subseteq DOMAIN rows
    BY <1>1, <2>1, <2>2, LoopRetires DEF Retire
  <2>4. Pre(i)'
    BY <1>1, <2>3, RetireSame, PreOf
  <2> QED
    BY <1>1, <1>5, <2>1, <2>4, DecidesThen
<1> QED
  BY <1>3, <1>4, <1>5 DEF Loops

LEMMA ParksRunGoes == ASSUME ShapeInv, WalkInv, ParksRun PROVE Goes
<1>1. RowsAt({}) /\ Placed({}) /\ todo # <<>> /\ Quiet /\ run \notin TerminalRun
  BY Opening DEF ParksRun, Pre
<1>2. SameStatus /\ graph' = graph /\ run' \notin TerminalRun
  BY <1>1, RowsSame DEF ParksRun, TerminalRun
<1>3. RowsAt({})'
  BY <1>1, <1>2, StatusKeeps, SameFacts DEF RowsAt, RunIsQuiet
<1>4. CASE Then(Block("rest"))
  BY <1>1, <1>2, <1>3, <1>4, PreRun, GoesThen DEF WalkInv
<1>5. CASE Ends
  BY <1>3, <1>5, GoesEnds
<1> QED
  BY <1>4, <1>5 DEF ParksRun

LEMMA FinishesGoes == ASSUME ShapeInv, WalkInv, Finishes PROVE Goes
<1>1. RowsAt({}) /\ Idle
  BY Opening DEF Finishes, Pre
<1>2. SameStatus
  BY RowsSame DEF Finishes
<1>3. RowsAt({})'
  BY <1>1, <1>2, StatusKeeps, SameFacts DEF RowsAt, RunIsQuiet, Idle, Quiet
<1> QED
  BY <1>3, GoesEnds DEF Finishes

LEMMA BlocksGoes == ASSUME ShapeInv, WalkInv, Blocks PROVE Goes
<1>1. RowsAt({}) /\ todo # <<>> /\ (Now.then = "fail" => Idle)
  BY Opening DEF Blocks, Pre
<1>2. SameStatus /\ graph' = graph /\ run' = run
  BY RowsSame DEF Blocks
<1>3. RowsAt({})'
  BY <1>1, <1>2, SameRows
<1>4. CASE Now.then = "fail" /\ Then(Finish("failed"))
  <2>1. Idle'
    BY <1>1, <1>2, <1>4, SameFacts
  <2> QED
    BY <1>1, <1>2, <1>3, <1>4, <2>1, PreRun, GoesThen DEF WalkInv
<1>5. CASE Ends
  BY <1>3, <1>5, GoesEnds
<1> QED
  BY <1>4, <1>5 DEF Blocks

LEMMA RetireLess ==
  ASSUME NEW b, NEW c, NEW d, NEW S, NEW T, NEW r, NEW x,
         r = [op |-> "retire", key |-> b, keys |-> S, was |-> d, then |-> c],
         x = [op |-> "retire", key |-> b, keys |-> T, was |-> d, then |-> c]
  PROVE  [r EXCEPT !.keys = T] = x
<1>1. PICK y : y = [r EXCEPT !.keys = T]
  OBVIOUS
<1>2. DOMAIN r = {"op", "key", "keys", "was", "then"}
  OBVIOUS
<1>3. DOMAIN y = {"op", "key", "keys", "was", "then"} /\ DOMAIN x = DOMAIN y
  BY <1>1, <1>2
<1>4. y.op = x.op /\ y.key = x.key /\ y.keys = x.keys /\ y.was = x.was /\ y.then = x.then
  BY <1>1, <1>2
<1>5. y = [j \in DOMAIN y |-> y[j]] /\ x = [j \in DOMAIN x |-> x[j]]
  BY <1>1
<1> QED
  BY <1>1, <1>3, <1>4, <1>5

\* One row of a retirement is retired, and the rest of it still finds its rows as it read them.
LEMMA RetiresOne ==
  ASSUME ShapeInv, WalkInv, todo # <<>>, RowsInv, graph \in Graphs, RowsAt(Retiring),
         Now.op = "retire", IsInstr(Now), RetirePre(Now), Rest \subseteq DOMAIN rows,
         NEW k \in First(Rest), NEW st \in Gone, graph' = graph, run' = run,
         rows' = [rows EXCEPT ![k] = To(k, st)], Then(Without(k))
  PROVE  Goes
<1> PICK now : now = Now
  OBVIOUS
<1> PICK S : S = now.keys
  OBVIOUS
<1> DEFINE p == now.key[1]
<1>1. /\ k \in S /\ S \subseteq DOMAIN rows /\ k \in DOMAIN rows /\ RetirePre(now) /\ Rest = S
      /\ \A j \in S : ~ Before(j, k)
      /\ now = [op |-> "retire", key |-> now.key, keys |-> S, was |-> now.was, then |-> now.then]
      /\ p \in Phases /\ (graph[p].fan = 1 \/ graph[p].fan > 1) /\ ~ (graph[p].fan = 1 /\ graph[p].fan > 1)
  <2>1. /\ k \in S /\ S \subseteq DOMAIN rows /\ k \in DOMAIN rows /\ RetirePre(now) /\ Rest = S
        /\ \A j \in S : ~ Before(j, k)
        /\ now = [op |-> "retire", key |-> now.key, keys |-> S, was |-> now.was, then |-> now.then]
    BY DEF First, Rest, IsInstr
  <2>2. now.key \in DOMAIN rows \cup Slots
    BY DEF IsInstr
  <2>3. p \in Phases
    BY <2>2, KeyFacts DEF Slots
  <2>4. graph[p].fan \in Nat \ {0}
    BY <2>3, GraphFacts
  <2> QED
    BY <2>1, <2>3, <2>4
<1>2. PICK R : R = Retiring
  OBVIOUS
<1>3. R = IF graph[p].fan = 1 THEN S ELSE {}
  BY <1>1, <1>2 DEF Retiring, Doing, Now
<1>4. Placed(R) /\ RunIsQuiet
  BY <1>2 DEF RowsAt, Placed, Beyond
<1>5. /\ Only(k) /\ St(k)' = st /\ SameShape
      /\ Phases' = Phases /\ DOMAIN rows' = DOMAIN rows
      /\ \A q : At(q)' = At(q) /\ Last(q)' = Last(q)
      /\ \A q, b : Slot(q, b)' = Slot(q, b) /\ Group(q, b)' = Group(q, b)
      /\ \A j \in DOMAIN rows : rows'[j].sel = rows[j].sel
      /\ \A j \in DOMAIN rows : j # k => St(j)' = St(j) /\ InFlight(j)' = InFlight(j)
  <2>1. To(k, st).sel = rows[k].sel /\ To(k, st).st = st
    BY <1>1, ToFacts
  <2>2. Only(k) /\ St(k)' = st
    BY <1>1, <2>1, RowOnly
  <2>3. SameShape
    BY <2>2 DEF Only
  <2> QED
    BY <2>2, <2>3, ShapeSame DEF Only, SameShape, InFlight
<1>6. k[3] >= 0 => \A j \in DOMAIN rows : InFlight(j) /\ j[3] < 0 => k \notin Slot(j[1], j[2])
  <2> SUFFICES ASSUME NEW j \in DOMAIN rows, InFlight(j), j[3] < 0, k \in Slot(j[1], j[2]), k[3] >= 0 PROVE FALSE
    OBVIOUS
  <2>1. graph[p].fan > 1
    BY <1>1 DEF RetirePre, NoFlight
  <2>2. k[1] = j[1] /\ k[2] = j[2]
    BY DEF Slot
  <2>3. k[1] = p
    BY <1>1, <2>1 DEF RetirePre, At
  <2>4. j \in At(p)
    BY <2>2, <2>3 DEF At
  <2>5. j \in S
    BY <1>1, <2>1, <2>4 DEF RetirePre
  <2>6. j[3] \in Int /\ k[3] \in Int
    BY <1>1, KeyFacts
  <2>7. Before(j, k)
    BY <2>2, <2>6 DEF Before
  <2> QED
    BY <1>1, <2>5, <2>7
<1>7. k \in Won(k[1]) => \A q \in Phases : k[1] < q =>
        /\ \A j \in At(q) : j[2] = Last(q) => St(j) \in Gone \/ j \in R
        /\ graph[q].fan > 1 /\ Last(q) > 0 => Chosen(q)
  <2> SUFFICES ASSUME k \in Won(k[1]), NEW q \in Phases, k[1] < q
               PROVE  /\ \A j \in At(q) : j[2] = Last(q) => St(j) \in Gone \/ j \in R
                      /\ graph[q].fan > 1 /\ Last(q) > 0 => Chosen(q)
    OBVIOUS
  <2>1. Won(p) = {}
    BY <1>1 DEF RetirePre
  <2>2. graph[p].fan = 1
    <3>1. graph[p].fan > 1 => k[1] = p
      BY <1>1 DEF RetirePre, At
    <3> QED
      BY <1>1, <2>1, <3>1
  <2>3. ASSUME NEW j \in At(q), j[2] = Last(q), St(j) \notin Gone PROVE j \in R
    <3>1. j \in DOMAIN rows /\ j[1] = q
      BY DEF At
    <3>2. k[1] <= j[1]
      BY <1>1, <3>1, KeyFacts, GraphFacts
    <3>3. j \in S
      BY <1>1, <2>2, <2>3, <3>1, <3>2 DEF RetirePre
    <3> QED
      BY <1>3, <2>2, <3>3
  <2>4. ASSUME graph[q].fan > 1, Last(q) > 0 PROVE Chosen(q)
    <3>1. p \in Nat /\ q \in Nat /\ q # p
      BY <1>1, <2>2, <2>4, GraphFacts
    <3>2. CASE q < p
      BY <1>1, <2>2, <2>4, <3>2 DEF RetirePre
    <3>3. CASE p < q
      BY <1>1, <1>4, <2>1, <2>4, <3>3 DEF Placed, Beyond
    <3> QED
      BY <3>1, <3>2, <3>3
  <2> QED
    BY <2>3, <2>4
<1>8. Placed(R \ {k})' /\ \A q : Won(q)' = Won(q) \ {k}
  BY <1>1, <1>4, <1>5, <1>6, <1>7, GoneKeeps
<1>9. RowsAt(R \ {k})'
  <2>1. Quiet => Quiet'
    BY <1>5 DEF Quiet, Gone
  <2> QED
    BY <1>4, <1>8, <2>1, RunKeeps DEF RowsAt, RunIsQuiet
<1>10. PICK i : i = [op |-> "retire", key |-> now.key, keys |-> S \ {k}, was |-> now.was, then |-> now.then]
  OBVIOUS
<1>11. Without(k) = i /\ i.op = "retire" /\ i.key = now.key /\ i.then = now.then /\ i.keys = S \ {k} /\ i.was = now.was
  <2>1. PICK b : b = now.key
    OBVIOUS
  <2>2. PICK c : c = now.then
    OBVIOUS
  <2>3. PICK d : d = now.was
    OBVIOUS
  <2>4. PICK T : T = S \ {k}
    OBVIOUS
  <2>5. now = [op |-> "retire", key |-> b, keys |-> S, was |-> d, then |-> c]
        /\ i = [op |-> "retire", key |-> b, keys |-> T, was |-> d, then |-> c]
    BY <1>1, <1>10, <2>1, <2>2, <2>3, <2>4
  <2>6. [now EXCEPT !.keys = T] = i
    BY <2>5, RetireLess
  <2>7. T = now.keys \ {k}
    BY <2>4, <2>5
  <2>8. Without(k) = i
    BY <2>6, <2>7 DEF Without
  <2> QED
    BY <2>1, <2>2, <2>3, <2>4, <2>5, <2>8
<1>12. \A j \in S \ {k} : St(j)' = now.was[j] /\ St(j)' \notin Gone /\ j[2] = Last(j[1])'
  BY <1>1, <1>5 DEF RetirePre
<1>13. Won(p)' = {}
  BY <1>1, <1>8 DEF RetirePre
<1>14. graph[p].fan = 1 =>
       /\ now.then = "none" /\ NoFlight'
       /\ \A j \in S \ {k} : j[1] <= p
       /\ \A q \in Phases : q < p /\ graph[q].fan > 1 => Chosen(q)'
       /\ \A x \in DOMAIN rows : x[2] = Last(x[1]) /\ St(x)' \notin Gone =>
            \A j \in S \ {k} : j[1] <= x[1] => x \in S \ {k}
  <2> SUFFICES ASSUME graph[p].fan = 1
               PROVE /\ now.then = "none" /\ NoFlight'
                     /\ \A j \in S \ {k} : j[1] <= p
                     /\ \A q \in Phases : q < p /\ graph[q].fan > 1 => Chosen(q)'
                     /\ \A x \in DOMAIN rows : x[2] = Last(x[1]) /\ St(x)' \notin Gone =>
                          \A j \in S \ {k} : j[1] <= x[1] => x \in S \ {k}
    OBVIOUS
  <2>1. NoFlight'
    BY <1>1, <1>5 DEF RetirePre, NoFlight, InFlight, Gone
  <2>2. \A q : Chosen(q) => Chosen(q)'
    BY <1>5, InGroup DEF Chosen
  <2> QED
    BY <1>1, <1>5, <2>1, <2>2 DEF RetirePre
<1>15. graph[p].fan > 1 =>
       /\ S \ {k} \subseteq At(p)
       /\ \A j \in At(p) : j[3] < 0 /\ InFlight(j)' => j \in S \ {k}
       /\ now.then = "unpark" =>
            /\ now.key[2] = Last(p) /\ Reached(p)'
            /\ \A j \in At(p) : j[2] = Last(p) /\ St(j)' \notin Gone => j \in S \ {k}
  <2> SUFFICES ASSUME graph[p].fan > 1
               PROVE  /\ S \ {k} \subseteq At(p)
                      /\ \A j \in At(p) : j[3] < 0 /\ InFlight(j)' => j \in S \ {k}
                      /\ now.then = "unpark" =>
                           /\ now.key[2] = Last(p) /\ Reached(p)'
                           /\ \A j \in At(p) : j[2] = Last(p) /\ St(j)' \notin Gone => j \in S \ {k}
    OBVIOUS
  <2>1. \A j \in At(p) : j \in DOMAIN rows
    BY DEF At
  <2>2. ~ InFlight(k)' /\ St(k)' \in Gone
    BY <1>5 DEF InFlight, Gone
  <2>3. k[1] = p
    BY <1>1 DEF RetirePre, At
  <2>4. Reached(p) => Reached(p)'
    <3>1. ASSUME NEW q \in Phases, q < p PROVE k \notin Won(q)
      <4>1. q # p
        BY <1>1, <3>1, GraphFacts
      <4> QED
        BY <2>3, <4>1, InGroup DEF Won
    <3> QED
      BY <1>5, <1>8, <3>1 DEF Reached
  <2> QED
    BY <1>1, <1>5, <2>1, <2>2, <2>4 DEF RetirePre
<1>16. RetirePre(i)'
  BY <1>5, <1>11, <1>12, <1>13, <1>14, <1>15 DEF RetirePre
<1>17. Pre(i)'
  BY <1>11, <1>16, PreOf
<1>18. R \ {k} = {} \/ (i.op = "retire" /\ graph[i.key[1]].fan = 1 /\ R \ {k} = i.keys)
  BY <1>3, <1>11
<1>19. PICK Q : Q = R \ {k}
  OBVIOUS
<1>20. RowsAt(Q)'
  BY <1>9, <1>19 DEF RowsAt, Placed, Beyond
<1> QED
  BY <1>11, <1>17, <1>18, <1>19, <1>20, GoesThen DEF WalkInv

LEMMA RetiresGoes == ASSUME ShapeInv, WalkInv, Retires PROVE Goes
<1>1. /\ todo # <<>> /\ Now.op = "retire" /\ IsInstr(Now) /\ Rest \subseteq DOMAIN rows /\ RowsInv /\ graph \in Graphs
      /\ RetirePre(Now) /\ RowsAt(Retiring)
  <2>1. todo # <<>> /\ Now.op = "retire" /\ IsInstr(Now) /\ Rest \subseteq DOMAIN rows /\ RowsInv /\ graph \in Graphs
    BY DoingFacts DEF Retires, KeysOps, AllOps, Rest
  <2> QED
    BY <2>1 DEF WalkInv, Pre, Now
<1>2. CASE /\ Rest = {} /\ Decides
           /\ IF Now.then = "none" THEN Over
              ELSE Then(Unpark(<<Now.key[1], Now.key[2] + 1, 0>>, "admit", FALSE))
  <2>1. RowsAt({}) /\ Placed({}) /\ SameStatus
    BY <1>1, <1>2, DecidesSame DEF Retiring, RowsAt
  <2>2. CASE Now.then = "none"
    BY <1>1, <1>2, <2>1, <2>2, DecidesOver
  <2>3. CASE Now.then # "none"
    <3>1. PICK k : k = Now.key
      OBVIOUS
    <3>2. k \in Slots /\ Now.then = "unpark"
      BY <1>1, <2>3, <3>1 DEF IsInstr
    <3>3. k[1] \in Phases /\ graph[k[1]].fan > 1
      <4>1. k[1] \in Phases
        BY <3>2 DEF Slots
      <4>2. graph[k[1]].fan # 1
        BY <1>1, <3>1, <3>2 DEF RetirePre
      <4> QED
        BY <1>1, <4>1, <4>2, GraphFacts
    <3>4. /\ Won(k[1]) = {} /\ k[2] = Last(k[1]) /\ Reached(k[1])
          /\ \A j \in At(k[1]) : j[2] = Last(k[1]) => St(j) \in Gone
      BY <1>1, <1>2, <3>1, <3>2, <3>3 DEF RetirePre, Rest
    <3>5. AdmitPre(k[1], k[2] + 1)
      BY <1>1, <2>1, <3>3, <3>4, SpentAdmits DEF Front, Group
    <3>6. Pre(Unpark(<<k[1], k[2] + 1, 0>>, "admit", FALSE))'
      BY <2>1, <3>5, SamePre, PreAdmit
    <3> QED
      BY <1>1, <1>2, <2>1, <2>3, <3>1, <3>6, DecidesThen
  <2> QED
    BY <2>2, <2>3
<1>3. ASSUME NEW k \in First(Rest), NEW st \in Gone, Moves(k, Now.was[k], To(k, st), Without(k)) PROVE Goes
  <2>1. St(k) = Now.was[k]
    BY <1>1, <1>3 DEF RetirePre, First, Rest
  <2> QED
    BY <1>1, <1>3, <2>1, RetiresOne DEF Moves, WritesRows
<1> QED
  BY <1>2, <1>3 DEF Retires, Gone

-----------------------------------------------------------------------------
(* Fan-out groups.                                                          *)

LEMMA CreateSame ==
  ASSUME SameStatus, run' = run, NEW i, CreatePre(i)
  PROVE  CreatePre(i)'
<1> DEFINE p == i.key[1]  a == i.key[2]
<1>1. /\ \A k \in DOMAIN rows : St(k)' = St(k) /\ InFlight(k)' = InFlight(k)
      /\ Quiet' = Quiet /\ Last(p)' = Last(p) /\ At(p)' = At(p) /\ Slot(p, a)' = Slot(p, a)
      /\ DOMAIN rows' = DOMAIN rows
  BY SameFacts
<1>2. (Front(p) => Front(p)') /\ (GroupPre(p, a) => GroupPre(p, a)')
  BY SamePre
<1>3. Spent(p, a) => Spent(p, a)'
  BY <1>1 DEF Spent, At
<1>4. Front(p)' /\ (Last(p) <= a)' /\ Spent(p, a)'
  BY <1>1, <1>2, <1>3 DEF CreatePre
<1>5. (\A k \in DOMAIN rows : InFlight(k) => k[1] = p /\ k[2] = a)'
  BY <1>1 DEF CreatePre
<1>6. i.then \in {"none", "fan"} => (i.keys \subseteq Slot(p, a))'
  BY <1>1 DEF CreatePre
<1>7. i.then \in {"fan", "start"} => GroupPre(p, a)' /\ Quiet'
  BY <1>1, <1>2 DEF CreatePre
<1>8. i.then = "fan" => (JudgeOf(p, a) \notin DOMAIN rows)'
  BY <1>1 DEF CreatePre, JudgeOf
<1>9. i.then = "start" =>
        (/\ i.key = JudgeOf(p, a) /\ i.keys \subseteq {JudgeOf(p, a)}
         /\ \A k \in Slot(p, a) : k \in DOMAIN rows /\ St(k) \notin {"pending", "running"}
         /\ \E k \in Slot(p, a) : St(k) \notin Gone)'
  BY <1>1 DEF CreatePre, JudgeOf
<1> QED
  BY <1>4, <1>5, <1>6, <1>7, <1>8, <1>9 DEF CreatePre

LEMMA RefuseSame ==
  ASSUME SameStatus, run' = run, NEW i, RefusePre(i)
  PROVE  RefusePre(i)'
BY SameFacts DEF RefusePre, JudgeOf

LEMMA SessionsSame ==
  ASSUME SameStatus, run' = run, NEW i, SessionsPre(i)
  PROVE  SessionsPre(i)'
<1> DEFINE p == i.key[1]  a == i.key[2]
<1>1. /\ \A k \in DOMAIN rows : St(k)' = St(k)
      /\ Group(p, a)' = Group(p, a) /\ DOMAIN rows' = DOMAIN rows
  BY SameFacts
<1>2. GroupPre(p, a)'
  BY SamePre DEF SessionsPre
<1>3. \A k \in Group(p, a) : k \in DOMAIN rows
  BY InGroup
<1> QED
  BY <1>1, <1>2, <1>3 DEF SessionsPre, JudgeOf

\* At a group nobody runs at, only its judge can wait for an answer.
LEMMA GroupIsIdle ==
  ASSUME RowsInv, graph \in Graphs, Placed({}), NEW p \in Phases, Front(p), graph[p].fan > 1, Quiet,
         JudgeOf(p, Last(p)) \in DOMAIN rows => St(JudgeOf(p, Last(p))) # "awaiting"
  PROVE  Idle
<1> SUFFICES ASSUME NEW k \in DOMAIN rows, St(k) = "awaiting" PROVE FALSE
  BY DEF Idle, Quiet
<1>1. k[1] = p /\ k[2] = Last(p)
  BY InFlightIsFront, OneFrontOnly, KeyFacts DEF Placed, InFlight
<1>2. k[3] < 0
  <2>1. ~ (k[3] >= 0)
    BY <1>1 DEF Placed, Kinds
  <2> QED
    BY <2>1, KeyFacts
<1>3. k = JudgeOf(p, Last(p))
  BY <1>1, <1>2, KeyFacts
<1> QED
  BY <1>3

LEMMA SlotIsKept ==
  ASSUME ShapeInv, WalkInv, NEW op \in SlotOps, Doing(op), Decides
  PROVE  /\ RowsAt({}) /\ Placed({}) /\ RowsInv /\ graph \in Graphs /\ todo # <<>> /\ Pre(Now) /\ Now.op = op
         /\ SameStatus /\ run' = run /\ rows' = rows /\ graph' = graph
         /\ Now.key[1] \in Phases /\ Now.key[2] \in Nat \ {0} /\ Now.key = <<Now.key[1], Now.key[2], 0>>
<1>1. op # "retire"
  BY DEF SlotOps
<1> QED
  BY <1>1, Opening, SlotDoing, DecidesSame

LEMMA FansGoes == ASSUME ShapeInv, WalkInv, Fans PROVE Goes
<1> PICK k : k = Now.key
  OBVIOUS
<1> PICK p : p = k[1]
  OBVIOUS
<1> PICK a : a = k[2]
  OBVIOUS
<1>1. /\ RowsAt({}) /\ Placed({}) /\ RowsInv /\ graph \in Graphs /\ todo # <<>> /\ Decides
      /\ SameStatus /\ run' = run
      /\ p \in Phases /\ GroupPre(p, a) /\ Quiet /\ JudgeOf(p, a) \notin DOMAIN rows
  <2>1. Decides /\ Doing("fan")
    BY DEF Fans
  <2>2. Pre(Now) /\ Now.op = "fan"
    BY <2>1, SlotIsKept DEF SlotOps
  <2>3. GroupPre(p, a) /\ Quiet /\ JudgeOf(p, a) \notin DOMAIN rows
    BY <2>2 DEF Pre
  <2> QED
    BY <2>1, <2>3, SlotIsKept DEF SlotOps
<1>2. Idle
  BY <1>1, GroupIsIdle DEF GroupPre
<1>3. Idle'
  BY <1>1, <1>2, SameFacts
<1>4. Front(p) /\ a = Last(p) /\ run = "running" /\ graph[p].fan > 1 /\ a \in Nat
  BY <1>1, LastFacts DEF GroupPre
<1>5. CASE Then(Create(Slot(p, a) \ DOMAIN rows, k, "fan"))
  <2>1. PICK i : i = Create(Slot(p, a) \ DOMAIN rows, k, "fan")
    OBVIOUS
  <2>2. i.op = "create" /\ i.key = k /\ i.then = "fan" /\ i.keys \subseteq Slot(p, a)
    BY <2>1 DEF Create
  <2>3. Spent(p, a)
    <3>1. \A j \in At(p) : j \in DOMAIN rows /\ j[1] = p
      BY DEF At
    <3> QED
      BY <1>1, <1>4, <3>1 DEF Spent, Placed, OldRows
  <2>4. \A j \in DOMAIN rows : InFlight(j) => j[1] = p /\ j[2] = a
    BY <1>1, <1>4, InFlightIsFront, OneFrontOnly, KeyFacts DEF Placed
  <2>5. CreatePre(i)
    <3>1. i.key[1] = p /\ i.key[2] = a
      BY <2>2
    <3>2. Last(p) <= a
      BY <1>4
    <3> QED
      BY <1>1, <1>4, <2>2, <2>3, <2>4, <3>1, <3>2 DEF CreatePre
  <2>6. Pre(i)'
    BY <1>1, <2>2, <2>5, CreateSame, PreOf
  <2> QED
    BY <1>1, <1>5, <2>1, <2>6, DecidesThen
<1>6. CASE Then(Block("fail"))
  BY <1>1, <1>3, <1>6, PreRun, DecidesThen
<1> PICK pending : pending = {j \in Group(p, a) : St(j) = "pending"}
  OBVIOUS
<1>7. CASE Then([op |-> "group", key |-> k, wait |-> pending, live |-> {}])
  <2>1. PICK i : i = [op |-> "group", key |-> k, wait |-> pending, live |-> {}]
    OBVIOUS
  <2>2. i.op = "group" /\ i.key = k /\ i.wait = pending /\ i.live = {}
    BY <2>1
  <2>3. SessionsPre(i)
    BY <1>1, <1>2, <2>2 DEF SessionsPre, Idle
  <2>4. Pre(i)'
    BY <1>1, <2>2, <2>3, SessionsSame, PreOf
  <2> QED
    BY <1>1, <1>7, <2>1, <2>4, DecidesThen
<1>8. ASSUME NEW block, Then(Refuse(pending, block)) PROVE Goes
  <2>1. PICK i : i = Refuse(pending, block)
    OBVIOUS
  <2>2. i.op = "refuse" /\ i.keys = pending
    BY <2>1 DEF Refuse
  <2>3. RefusePre(i)
    <3>1. \A j \in pending : j[1] = p /\ j[2] = a
      BY InGroup
    <3> QED
      BY <1>1, <1>2, <1>4, <2>2, <3>1 DEF RefusePre, Idle
  <2>4. Pre(i)'
    BY <1>1, <2>2, <2>3, RefuseSame, PreOf
  <2> QED
    BY <1>1, <1>8, <2>1, <2>4, DecidesThen
<1> QED
  BY <1>5, <1>6, <1>7, <1>8 DEF Fans

LEMMA RefusesGoes == ASSUME ShapeInv, WalkInv, Refuses PROVE Goes
<1>1. /\ RowsAt({}) /\ Placed({}) /\ RowsInv /\ graph \in Graphs /\ todo # <<>> /\ Now.op = "refuse"
      /\ RefusePre(Now) /\ IsInstr(Now) /\ Rest \subseteq DOMAIN rows /\ run = "running"
  <2>1. /\ RowsAt({}) /\ Placed({}) /\ RowsInv /\ graph \in Graphs /\ todo # <<>> /\ Pre(Now) /\ Now.op = "refuse"
    BY Opening DEF Refuses
  <2>2. IsInstr(Now) /\ Rest \subseteq DOMAIN rows
    BY DoingFacts DEF Refuses, KeysOps, AllOps, Rest
  <2> QED
    BY <2>1, <2>2 DEF Pre, RefusePre
<1>2. CASE Rest = {} /\ Decides /\ Then(FailRun(Now.block))
  <2>1. Idle
    BY <1>1, <1>2 DEF RefusePre, Idle, Rest
  <2>2. Idle'
    BY <1>2, <2>1, DecidesSame, SameFacts
  <2>3. PICK b : b = Now.block
    OBVIOUS
  <2>4. Pre(FailRun(b))'
    BY <2>2, PreFail
  <2> QED
    BY <1>1, <1>2, <2>3, <2>4, DecidesThen
<1> PICK S : S = Rest
  OBVIOUS
<1>3. ASSUME NEW k \in S, NEW from \in {"pending", "running"}, NEW st \in {"running", "failed"},
             Moves(k, from, To(k, st), IF st = "running" THEN Now ELSE Without(k)), St(k) = from
      PROVE  Goes
  <2>1. /\ k \in DOMAIN rows /\ k \in S /\ S = Now.keys /\ graph' = graph /\ run' = run
        /\ rows' = [rows EXCEPT ![k] = To(k, st)]
        /\ Then(IF st = "running" THEN Now ELSE Without(k))
    BY <1>1, <1>3 DEF Moves, WritesRows, Rest
  <2>2. To(k, st).sel = rows[k].sel /\ To(k, st).st = st
    BY <1>1, <2>1, ToFacts
  <2>3. Only(k) /\ St(k)' = st
    BY <2>1, <2>2, RowOnly
  <2>4. SameShape /\ \A j \in DOMAIN rows : j # k => St(j)' = St(j)
    BY <2>3 DEF Only
  <2>5. Placed({})'
    BY <1>1, <1>3, <2>1, <2>3, FlightKeeps DEF InFlight
  <2>6. PICK i : i = IF st = "running" THEN Now ELSE Without(k)
    OBVIOUS
  <2>7. i.op = "refuse" /\ i.keys = IF st = "running" THEN S ELSE S \ {k}
    <3>1. CASE st = "running"
      BY <1>1, <2>1, <2>6, <3>1
    <3>2. CASE st # "running"
      <4>1. Without(k).op = "refuse" /\ Without(k).keys = S \ {k}
        BY <1>1, WithoutInstr DEF KeysOps
      <4> QED
        BY <2>6, <3>2, <4>1
    <3> QED
      BY <3>1, <3>2
  <2>8. RefusePre(i)'
    <3>1. \A j \in S : graph[j[1]].fan > 1 /\ (j[3] >= 0 => JudgeOf(j[1], j[2]) \notin DOMAIN rows)
      BY <1>1, <2>1 DEF RefusePre
    <3>2. \A j \in DOMAIN rows : St(j) \in {"running", "awaiting"} => j \in S
      BY <1>1, <2>1 DEF RefusePre
    <3>3. \A j \in DOMAIN rows : St(j)' \in {"running", "awaiting"} => j \in i.keys
      BY <1>3, <2>3, <2>4, <2>7, <3>2
    <3>4. graph' = graph /\ DOMAIN rows' = DOMAIN rows /\ i.keys \subseteq S
      BY <2>4, <2>7 DEF SameShape
    <3> QED
      BY <1>1, <2>1, <3>1, <3>3, <3>4 DEF RefusePre, JudgeOf
  <2>9. Pre(i)'
    BY <2>7, <2>8, PreOf
  <2> QED
    BY <1>1, <2>1, <2>5, <2>6, <2>9, WrittenThen
<1>4. ASSUME NEW k \in First(Rest), NEW from, NEW row, NEW next, Moves(k, from, row, next), St(k) # from PROVE Goes
  BY <1>1, <1>4, StaleGoes DEF Moves, WritesRows
<1>5. \A k \in First(Rest) : k \in S
  BY DEF First
<1>6. ASSUME NEW k \in First(Rest), Moves(k, "pending", To(k, "running"), Now) PROVE Goes
  BY <1>3, <1>4, <1>5, <1>6
<1>7. ASSUME NEW k \in First(Rest), Moves(k, "running", To(k, "failed"), Without(k)) PROVE Goes
  BY <1>3, <1>4, <1>5, <1>7
<1> QED
  BY <1>2, <1>6, <1>7 DEF Refuses

LEMMA StillIs ==
  ASSUME IsInstr(Now), Now.op = "group", NEW wait, NEW live
  PROVE  [Now EXCEPT !.wait = wait, !.live = live] = [op |-> "group", key |-> Now.key, wait |-> wait, live |-> live]
<1>1. Now = [op |-> "group", key |-> Now.key, wait |-> Now.wait, live |-> Now.live]
  BY DEF IsInstr
<1>2. PICK n : n = Now
  OBVIOUS
<1>3. n = [op |-> "group", key |-> n.key, wait |-> n.wait, live |-> n.live]
  BY <1>1, <1>2
<1>4. PICK key : key = n.key
  OBVIOUS
<1>5. [n EXCEPT !.wait = wait] = [op |-> "group", key |-> key, wait |-> wait, live |-> n.live]
  BY <1>3, <1>4
<1>6. PICK j : j = [op |-> "group", key |-> key, wait |-> wait, live |-> n.live]
  OBVIOUS
<1>7. [j EXCEPT !.live = live] = [op |-> "group", key |-> key, wait |-> wait, live |-> live]
  BY <1>6
<1>8. [n EXCEPT !.wait = wait, !.live = live] = [[n EXCEPT !.wait = wait] EXCEPT !.live = live]
  OBVIOUS
<1>9. [[n EXCEPT !.wait = wait] EXCEPT !.live = live] = [j EXCEPT !.live = live]
  BY <1>5, <1>6, Zenon
<1>10. [n EXCEPT !.wait = wait, !.live = live] = [op |-> "group", key |-> key, wait |-> wait, live |-> live]
  BY <1>7, <1>8, <1>9
<1> QED
  BY <1>2, <1>4, <1>10

\* A candidate starts or settles.
LEMMA CandidateMoves ==
  ASSUME ShapeInv, WalkInv, Doing("group"), WritesRows, NEW k \in Now.wait \cup Now.live,
         NEW st \in {"running", "done", "failed"}, rows' = [rows EXCEPT ![k] = To(k, st)],
         NEW wait, NEW live, Still(wait, live),
         wait \subseteq Now.wait \ {k}, live \subseteq Now.live \cup {k},
         \A j \in Now.live : j # k => j \in live,
         k \in live <=> st = "running"
  PROVE  Goes
<1>1. /\ RowsAt({}) /\ Placed({}) /\ RowsInv /\ graph \in Graphs /\ todo # <<>> /\ Now.op = "group"
      /\ SessionsPre(Now) /\ IsInstr(Now) /\ graph' = graph /\ run' = run
  <2>1. RowsAt({}) /\ Placed({}) /\ RowsInv /\ graph \in Graphs /\ todo # <<>> /\ Pre(Now) /\ Now.op = "group"
    BY Opening
  <2>2. IsInstr(Now)
    BY SlotDoing DEF SlotOps
  <2> QED
    BY <2>1, <2>2 DEF Pre, WritesRows
<1> PICK key : key = Now.key
  OBVIOUS
<1> PICK p : p = key[1]
  OBVIOUS
<1> PICK a : a = key[2]
  OBVIOUS
<1>2. /\ GroupPre(p, a) /\ JudgeOf(p, a) \notin DOMAIN rows
      /\ \A j \in Now.wait : St(j) = "pending"
      /\ \A j \in Now.live : St(j) = "running"
      /\ Now.wait \cup Now.live \subseteq Group(p, a)
      /\ \A j \in DOMAIN rows : St(j) \in {"running", "awaiting"} => j \in Now.live
  BY <1>1 DEF SessionsPre
<1>3. k \in DOMAIN rows /\ k[1] = p /\ graph[p].fan > 1 /\ InFlight(k) /\ run = "running" /\ k[3] >= 0
  BY <1>2, InGroup DEF InFlight, GroupPre
<1>4. To(k, st).sel = rows[k].sel /\ To(k, st).st = st
  BY <1>1, <1>3, ToFacts
<1>5. Only(k) /\ St(k)' = st
  BY <1>1, <1>3, <1>4, RowOnly
<1>6. SameShape /\ \A j \in DOMAIN rows : j # k => St(j)' = St(j)
  BY <1>5 DEF Only
<1>7. Placed({})' /\ \A q : Won(q)' = Won(q)
  <2>1. ~ Plain(k)
    BY <1>3 DEF Plain
  <2> QED
    BY <1>1, <1>3, <1>5, <2>1, FlightKeeps
<1>8. PICK i : i = [Now EXCEPT !.wait = wait, !.live = live]
  OBVIOUS
<1>9. i.op = "group" /\ i.key = key /\ i.wait = wait /\ i.live = live
  <2>1. [Now EXCEPT !.wait = wait, !.live = live] = [op |-> "group", key |-> Now.key, wait |-> wait, live |-> live]
    BY <1>1, StillIs
  <2>2. i = [op |-> "group", key |-> key, wait |-> wait, live |-> live]
    BY <1>8, <2>1
  <2> QED
    BY <2>2
<1>10. GroupPre(p, a)'
  BY <1>1, <1>2, <1>6, <1>7, ShapeSame DEF GroupPre, Front, Reached
<1>11. Group(p, a)' = Group(p, a) /\ DOMAIN rows' = DOMAIN rows
  BY <1>6, ShapeSame DEF SameShape
<1>12. SessionsPre(i)'
  <2>1. \A j \in wait : j \in DOMAIN rows /\ j # k /\ St(j) = "pending" /\ j \in Group(p, a)
    BY <1>2, InGroup
  <2>2. \A j \in wait : St(j)' = "pending"
    BY <1>6, <2>1
  <2>3. \A j \in live : j \in DOMAIN rows /\ (j # k => St(j) = "running") /\ j \in Group(p, a)
    BY <1>2, InGroup
  <2>4. \A j \in live : St(j)' = "running"
    BY <1>5, <1>6, <2>3
  <2>5. wait \cup live \subseteq Group(p, a)
    BY <2>1, <2>3
  <2>6. \A j \in DOMAIN rows : St(j)' \in {"running", "awaiting"} => j \in live
    BY <1>2, <1>5, <1>6
  <2> QED
    BY <1>2, <1>9, <1>10, <1>11, <2>2, <2>4, <2>5, <2>6 DEF SessionsPre, JudgeOf
<1>13. Pre(i)'
  BY <1>9, <1>12, PreOf
<1> QED
  BY <1>1, <1>3, <1>7, <1>8, <1>13, WrittenThen DEF Still

LEMMA CandidatesGo ==
  ASSUME ShapeInv, WalkInv, CandidateStarts \/ CandidateWorks \/ CandidateEnds
  PROVE  Goes
<1>1. /\ RowsAt({}) /\ RowsInv /\ graph \in Graphs /\ todo # <<>> /\ Now.op = "group" /\ Doing("group")
      /\ SessionsPre(Now) /\ WritesRows /\ Now.wait \subseteq DOMAIN rows /\ Now.live \subseteq DOMAIN rows
      /\ NoLandBehind
  <2>1. Doing("group") /\ WritesRows
    BY DEF CandidateStarts, CandidateWorks, CandidateEnds
  <2>2. RowsAt({}) /\ RowsInv /\ graph \in Graphs /\ todo # <<>> /\ Pre(Now) /\ Now.op = "group"
    BY <2>1, Opening
  <2>3. IsInstr(Now)
    BY <2>1, SlotDoing DEF SlotOps
  <2> QED
    BY <2>1, <2>2, <2>3 DEF Pre, IsInstr, WalkInv
<1>2. \A k \in Now.wait : k \notin Now.live
  BY <1>1 DEF SessionsPre
<1>3. ASSUME CandidateStarts PROVE Goes
  <2>1. PICK k \in Now.wait :
          rows' = [rows EXCEPT ![k] = To(k, "running")] /\ Still(Now.wait \ {k}, Now.live \cup {k})
    BY <1>3 DEF CandidateStarts
  <2>2. PICK wait : wait = Now.wait \ {k}
    OBVIOUS
  <2>3. PICK live : live = Now.live \cup {k}
    OBVIOUS
  <2>4. Still(wait, live)
    BY <2>1, <2>2, <2>3
  <2>5. /\ k \in Now.wait \cup Now.live /\ wait \subseteq Now.wait \ {k} /\ live \subseteq Now.live \cup {k}
        /\ (\A j \in Now.live : j # k => j \in live) /\ (k \in live <=> "running" = "running")
    BY <2>2, <2>3
  <2> QED
    BY <1>1, <2>1, <2>4, <2>5, CandidateMoves
<1>4. ASSUME CandidateEnds PROVE Goes
  <2>1. PICK k \in Now.live, to \in {"done", "failed"} :
          rows' = [rows EXCEPT ![k] = To(k, to)] /\ Still(Now.wait, Now.live \ {k})
    BY <1>4 DEF CandidateEnds
  <2>2. PICK wait : wait = Now.wait
    OBVIOUS
  <2>3. PICK live : live = Now.live \ {k}
    OBVIOUS
  <2>4. Still(wait, live)
    BY <2>1, <2>2, <2>3
  <2>5. /\ k \in Now.wait \cup Now.live /\ wait \subseteq Now.wait \ {k} /\ live \subseteq Now.live \cup {k}
        /\ (\A j \in Now.live : j # k => j \in live) /\ (k \in live <=> to = "running")
    BY <1>2, <2>1, <2>2, <2>3
  <2> QED
    BY <1>1, <2>1, <2>4, <2>5, CandidateMoves
<1>5. ASSUME CandidateWorks PROVE Goes
  <2>1. PICK k \in Now.live, work \in {"ok", "fail"} : rows' = [rows EXCEPT ![k].work = work] /\ todo' = todo
    BY <1>5 DEF CandidateWorks
  <2>2. k \in DOMAIN rows /\ rows[k] \in Rows
    BY <1>1, RowFields
  <2>3. /\ rows' = [rows EXCEPT ![k] = [rows[k] EXCEPT !.work = work]]
        /\ [rows[k] EXCEPT !.work = work].sel = rows[k].sel /\ [rows[k] EXCEPT !.work = work].st = rows[k].st
    BY <2>1, <2>2 DEF Rows
  <2>4. SameStatus /\ run' = run /\ RowsAt({})'
    BY <1>1, <2>2, <2>3, RowSame, SameRows DEF WritesRows
  <2>5. PICK i : i = Head(todo)
    OBVIOUS
  <2>6. i.op = "group" /\ SessionsPre(i) /\ Head(todo') = i
    BY <1>1, <2>1, <2>5 DEF Now
  <2>7. Pre(i)'
    BY <2>4, <2>6, SessionsSame, PreOf
  <2>8. Retiring' = {}
    BY <2>6 DEF Retiring, Doing, Now
  <2>9. NoLandBehind'
    BY <1>1, <2>1, <2>4 DEF NoLandBehind, LandRest, SameStatus, SameShape, Rederive, Pass, I
  <2> QED
    BY <2>4, <2>5, <2>6, <2>7, <2>8, <2>9 DEF Goes
<1> QED
  BY <1>3, <1>4, <1>5

LEMMA GroupEndsGoes == ASSUME ShapeInv, WalkInv, GroupEnds PROVE Goes
<1>1. RowsAt({}) /\ todo # <<>> /\ SessionsPre(Now) /\ Decides
  <2>1. RowsAt({}) /\ todo # <<>> /\ Pre(Now) /\ Now.op = "group"
    BY Opening DEF GroupEnds
  <2> QED
    BY <2>1 DEF Pre, GroupEnds
<1>2. Idle
  BY <1>1 DEF GroupEnds, SessionsPre, Idle
<1>3. Idle'
  BY <1>1, <1>2, DecidesSame, SameFacts
<1>4. CASE Over
  BY <1>1, <1>4, DecidesOver
<1>5. CASE Then(Finish("failed"))
  BY <1>1, <1>3, <1>5, PreRun, DecidesThen
<1> QED
  BY <1>4, <1>5 DEF GroupEnds

LEMMA JudgeSessionsGoes == ASSUME ShapeInv, WalkInv, JudgeSessions PROVE Goes
<1> PICK k : k = Now.key
  OBVIOUS
<1>1. /\ RowsAt({}) /\ Placed({}) /\ RowsInv /\ graph \in Graphs /\ todo # <<>> /\ Decides /\ SameStatus
      /\ graph' = graph /\ k \in DOMAIN rows /\ k[3] < 0 /\ St(k) = "running"
  <2>1. /\ RowsAt({}) /\ Placed({}) /\ RowsInv /\ graph \in Graphs /\ todo # <<>> /\ Pre(Now) /\ Now.op = "judge"
    BY Opening DEF JudgeSessions
  <2>2. k \in DOMAIN rows /\ k[3] < 0
    BY DoingFacts DEF JudgeSessions, RowOps, AllOps, IsInstr
  <2> QED
    BY <2>1, <2>2, DecidesSame DEF Pre, JudgeSessions
<1>2. graph[k[1]].fan > 1 /\ Won(k[1]) = {}
  BY <1>1, PlainFacts, InFlightIsFront DEF Placed, InFlight, Front
<1>3. ASSUME NEW w \in Passing(k[1], k[2]), Then(Select(w, "judge")) PROVE Goes
  <2>1. w[1] = k[1] /\ w[2] = k[2]
    BY InGroup DEF Passing
  <2>2. ASSUME NEW j \in Group(w[1], w[2]) PROVE St(j) # "running"
    <3>1. j \in Slot(k[1], k[2])
      BY <1>1, <2>1, <2>2, InGroup, KeyFacts
    <3> QED
      BY <1>1, <3>1 DEF Placed, Judged
  <2>3. SelectPre(w)
    BY <1>2, <2>1, <2>2 DEF SelectPre
  <2>4. Pre(Select(w, "judge"))'
    BY <1>1, <2>3, SamePre, PreRow
  <2> QED
    BY <1>1, <1>3, <2>4, DecidesThen
<1>4. CASE Then(I("gate", k))
  <2>1. Pre(I("gate", k))'
    BY <1>1, PreRow DEF Sole
  <2> QED
    BY <1>1, <1>4, <2>1, DecidesThen
<1> QED
  BY <1>3, <1>4 DEF JudgeSessions

LEMMA SelectsGoes == ASSUME ShapeInv, WalkInv, Selects PROVE Goes
<1> PICK w : w = Now.key
  OBVIOUS
<1> DEFINE j == JudgeOf(w[1], w[2])
           Settle(k) ==
             IF k = w THEN [rows[k] EXCEPT !.sel = TRUE, !.st = "done"]
             ELSE IF k \in Group(w[1], w[2])
               THEN [rows[k] EXCEPT !.sel = FALSE,
                       !.st = IF @ \in {"pending", "awaiting", "done"} THEN "superseded" ELSE @]
             ELSE IF k = JudgeOf(w[1], w[2])
               THEN [rows[k] EXCEPT !.st = IF @ \in {"pending", "running", "awaiting"} THEN "done" ELSE @]
             ELSE rows[k]
<1>1. /\ RowsAt({}) /\ Placed({}) /\ RowsInv /\ graph \in Graphs /\ todo # <<>>
      /\ graph' = graph /\ run' = run /\ w \in DOMAIN rows /\ w[3] >= 0 /\ SelectPre(w)
  <2>1. /\ RowsAt({}) /\ Placed({}) /\ RowsInv /\ graph \in Graphs /\ todo # <<>> /\ Pre(Now) /\ Now.op = "select"
    BY Opening DEF Selects
  <2>2. w \in DOMAIN rows /\ w[3] >= 0
    BY DoingFacts DEF Selects, RowOps, AllOps, IsInstr
  <2> QED
    BY <2>1, <2>2 DEF Pre, Selects, WritesRows
<1>2. CASE /\ St(w) \in {"done", "awaiting"} /\ rows' = [k \in DOMAIN rows |-> Settle(k)]
           /\ Then(IF Now.by = "person" THEN Unpark(w, "merge", FALSE) ELSE I("merge", w))
  <2>1. SameShape
    BY <1>1, <1>2 DEF SameShape
  <2>2. ASSUME NEW k \in DOMAIN rows
        PROVE  /\ k \notin Group(w[1], w[2]) /\ k # j => rows'[k] = rows[k]
               /\ k = w => St(k)' = "done" /\ rows'[k].sel
               /\ k \in Group(w[1], w[2]) /\ k # w =>
                    /\ ~ rows'[k].sel
                    /\ St(k)' = IF St(k) \in {"pending", "awaiting", "done"} THEN "superseded" ELSE St(k)
               /\ k = j =>
                    /\ rows'[k].sel = rows[k].sel
                    /\ St(k)' = IF St(k) \in {"pending", "running", "awaiting"} THEN "done" ELSE St(k)
    <3>1. rows'[k] = Settle(k) /\ rows[k] \in Rows /\ w \in Group(w[1], w[2]) /\ St(k)' = rows'[k].st /\ St(k) = rows[k].st
      BY <1>1, <1>2, <2>2, RowFields, KeyFacts DEF St
    <3>2. j \notin Group(w[1], w[2])
      BY InGroup DEF JudgeOf
    <3>3. CASE k = w
      <4>1. rows'[k] = [rows[k] EXCEPT !.sel = TRUE, !.st = "done"]
        BY <3>1, <3>3
      <4>2. rows'[k].sel /\ rows'[k].st = "done"
        BY <3>1, <4>1 DEF Rows
      <4> QED
        BY <3>1, <3>2, <3>3, <4>2
    <3>4. CASE k # w /\ k \in Group(w[1], w[2])
      <4>1. rows'[k] = [rows[k] EXCEPT !.sel = FALSE,
                          !.st = IF @ \in {"pending", "awaiting", "done"} THEN "superseded" ELSE @]
        BY <3>1, <3>4
      <4>2. /\ ~ rows'[k].sel
            /\ rows'[k].st = IF rows[k].st \in {"pending", "awaiting", "done"} THEN "superseded" ELSE rows[k].st
        BY <3>1, <4>1 DEF Rows
      <4> QED
        BY <3>1, <3>2, <3>4, <4>2
    <3>5. CASE k # w /\ k \notin Group(w[1], w[2]) /\ k = j
      <4>1. rows'[k] = [rows[k] EXCEPT !.st = IF @ \in {"pending", "running", "awaiting"} THEN "done" ELSE @]
        BY <3>1, <3>5
      <4>2. /\ rows'[k].sel = rows[k].sel
            /\ rows'[k].st = IF rows[k].st \in {"pending", "running", "awaiting"} THEN "done" ELSE rows[k].st
        BY <3>1, <4>1 DEF Rows
      <4> QED
        BY <3>1, <3>5, <4>2
    <3>6. CASE k # w /\ k \notin Group(w[1], w[2]) /\ k # j
      BY <3>1, <3>6
    <3> QED
      BY <3>1, <3>3, <3>4, <3>5, <3>6
  <2>3. Placed({})' /\ NoFlight'
    <3> HIDE DEF Settle
    <3> QED
      BY <1>1, <1>2, <2>1, <2>2, SelectedKeeps
  <2>4. Quiet'
    BY <2>3 DEF NoFlight, InFlight, Quiet
  <2>5. Pre(Unpark(w, "merge", FALSE))' /\ Pre(I("merge", w))'
    BY <2>4, PreRow
  <2>6. PICK i : i = IF Now.by = "person" THEN Unpark(w, "merge", FALSE) ELSE I("merge", w)
    OBVIOUS
  <2>7. Pre(i)'
    BY <2>5, <2>6
  <2> QED
    BY <1>1, <1>2, <2>3, <2>4, <2>6, <2>7, WrittenThen
<1>3. CASE rows' = rows /\ Ends
  BY <1>1, <1>3, StaleGoes
<1>4. CASE rows' = rows /\ Then(I("gate", j))
  <2>1. Sole(j)'
    BY DEF Sole, JudgeOf
  <2>2. PICK k : k = j
    OBVIOUS
  <2>3. Pre(I("gate", k))'
    BY <2>1, <2>2, PreRow DEF Sole, JudgeOf
  <2>4. Decides
    BY <1>4 DEF Selects, WritesRows, Decides, rowVars
  <2> QED
    BY <1>1, <1>4, <2>2, <2>3, <2>4, DecidesThen
<1> QED
  BY <1>2, <1>3, <1>4 DEF Selects

LEMMA ChoosesGoes == ASSUME ShapeInv, WalkInv, Chooses PROVE Goes
<1> PICK k : k = Now.key
  OBVIOUS
<1> PICK p : p = k[1]
  OBVIOUS
<1> PICK a : a = k[2]
  OBVIOUS
<1> PICK j : j = JudgeOf(p, a)
  OBVIOUS
<1> DEFINE judge == IF j \in DOMAIN rows THEN St(j) ELSE "none"
<1>1. /\ RowsAt({}) /\ Placed({}) /\ RowsInv /\ graph \in Graphs /\ todo # <<>> /\ Decides
      /\ SameStatus /\ run' = run /\ graph' = graph
      /\ p \in Phases /\ GroupPre(p, a) /\ Quiet /\ k = <<p, a, 0>>
      /\ \A x \in Slot(p, a) : x \in DOMAIN rows /\ St(x) # "pending"
  <2>1. Decides /\ Doing("choose")
    BY DEF Chooses
  <2>2. Pre(Now) /\ Now.op = "choose"
    BY <2>1, SlotIsKept DEF SlotOps
  <2>3. GroupPre(p, a) /\ Quiet /\ \A x \in Slot(p, a) : x \in DOMAIN rows /\ St(x) # "pending"
    BY <2>2 DEF Pre
  <2> QED
    BY <2>1, <2>3, SlotIsKept DEF SlotOps
<1>2. Front(p) /\ a = Last(p) /\ run = "running" /\ graph[p].fan > 1 /\ a \in Nat
  BY <1>1, LastFacts DEF GroupPre
<1>3. j[1] = p /\ j[2] = a /\ j[3] = -1
  BY DEF JudgeOf
<1>4. \A x \in DOMAIN rows : InFlight(x) => x[1] = p /\ x[2] = a
  BY <1>1, <1>2, InFlightIsFront, OneFrontOnly, KeyFacts DEF Placed
<1>5. Quiet' /\ Pre(ParkRun)'
  BY <1>1, SameFacts, PreRun
<1>6. judge # "awaiting" => Idle'
  <2>1. judge # "awaiting" => Idle
    BY <1>1, <1>2, GroupIsIdle
  <2> QED
    BY <1>1, <2>1, SameFacts
<1>7. CASE Then(ParkRun)
  BY <1>1, <1>5, <1>7, DecidesThen
<1>8. CASE Then(I("start", j))
  <2>1. Pre(I("start", j))'
    BY <1>1, <1>2, <1>3, PreRow DEF Sole
  <2> QED
    BY <1>1, <1>8, <2>1, DecidesThen
<1>9. CASE judge = "pending" /\ Then(Refuse({j}, FALSE))
  <2>1. PICK i : i = Refuse({j}, FALSE)
    OBVIOUS
  <2>2. i.op = "refuse" /\ i.keys = {j}
    BY <2>1 DEF Refuse
  <2>3. Idle
    BY <1>1, <1>2, <1>9, GroupIsIdle
  <2>4. RefusePre(i)
    <3>1. graph[j[1]].fan > 1 /\ ~ (j[3] >= 0)
      BY <1>2, <1>3
    <3>2. \A x \in i.keys : graph[x[1]].fan > 1 /\ ~ (x[3] >= 0)
      BY <2>2, <3>1
    <3> QED
      BY <1>2, <2>3, <3>2 DEF RefusePre, Idle
  <2>5. Pre(i)'
    BY <1>1, <2>2, <2>4, RefuseSame, PreOf
  <2> QED
    BY <1>1, <1>9, <2>1, <2>5, DecidesThen
<1>10. CASE judge # "awaiting" /\ Then(Finish("failed"))
  BY <1>1, <1>6, <1>10, PreRun, DecidesThen
<1>11. CASE Then(Retire(k, {p}, "none"))
  <2>1. PICK i : i = Retire(k, {p}, "none")
    OBVIOUS
  <2>2. /\ i.op = "retire" /\ i.key = k /\ i.then = "none"
        /\ i.keys = {x \in DOMAIN rows : x[1] \in {p} /\ x[2] = Last(x[1]) /\ St(x) \notin Gone}
        /\ \A x \in i.keys : i.was[x] = St(x)
    BY <2>1 DEF Retire
  <2>3. i.keys \subseteq At(p)
    BY <2>2 DEF At
  <2>4. \A x \in At(p) : x[3] < 0 /\ InFlight(x) => x \in i.keys
    <3>1. \A x \in At(p) : x \in DOMAIN rows /\ x[1] = p
      BY DEF At
    <3>2. \A x \in DOMAIN rows : InFlight(x) => St(x) \notin Gone
      BY DEF InFlight, Gone
    <3> QED
      BY <1>2, <1>4, <2>2, <3>1, <3>2
  <2>5. i.key[1] = p /\ Won(p) = {} /\ graph[p].fan # 1
    BY <1>2, <2>2 DEF Front
  <2>6. RetirePre(i) /\ i.keys \subseteq DOMAIN rows
    BY <1>2, <2>2, <2>3, <2>4, <2>5 DEF RetirePre
  <2>7. Pre(i)'
    BY <1>1, <2>2, <2>6, RetireSame, PreOf
  <2> QED
    BY <1>1, <1>11, <2>1, <2>7, DecidesThen
<1>12. ASSUME NEW w \in Passing(p, a), Then(Select(w, "walk")) PROVE Goes
  <2>1. w[1] = p /\ w[2] = a
    BY InGroup DEF Passing
  <2>2. SelectPre(w)
    BY <1>1, <1>2, <2>1, InGroup DEF SelectPre, Front, Quiet
  <2>3. Pre(Select(w, "walk"))'
    BY <1>1, <2>2, SamePre, PreRow
  <2> QED
    BY <1>1, <1>12, <2>3, DecidesThen
<1>13. CASE Passing(p, a) # {} /\ Then(Create({j}, j, "start"))
  <2>1. PICK i : i = Create({j}, j, "start")
    OBVIOUS
  <2>2. i.op = "create" /\ i.key = j /\ i.then = "start" /\ i.keys = {j}
    BY <2>1 DEF Create
  <2>3. Spent(p, a)
    <3>1. \A x \in At(p) : x \in DOMAIN rows /\ x[1] = p
      BY DEF At
    <3> QED
      BY <1>1, <1>2, <3>1 DEF Spent, Placed, OldRows
  <2>4. \E x \in Slot(p, a) : St(x) \notin Gone
    <3>1. PICK w \in Passing(p, a) : TRUE
      BY <1>13
    <3>2. w \in Group(p, a) /\ St(w) = "done"
      BY <3>1 DEF Passing
    <3>3. w \in Slot(p, a)
      BY <1>1, <3>2, InGroup, KeyFacts
    <3> QED
      BY <3>2, <3>3 DEF Gone
  <2>5. \A x \in Slot(p, a) : x \in DOMAIN rows /\ St(x) \notin {"pending", "running"}
    BY <1>1 DEF Quiet
  <2>6. CreatePre(i)
    <3>1. i.key[1] = p /\ i.key[2] = a
      BY <1>3, <2>2
    <3>2. Last(p) <= a
      BY <1>2
    <3> QED
      BY <1>1, <1>2, <1>4, <2>2, <2>3, <2>4, <2>5, <3>1, <3>2 DEF CreatePre
  <2>7. Pre(i)'
    BY <1>1, <2>2, <2>6, CreateSame, PreOf
  <2> QED
    BY <1>1, <1>13, <2>1, <2>7, DecidesThen
<1>14. \/ Then(ParkRun)
       \/ Then(I("start", j))
       \/ judge = "pending" /\ Then(Refuse({j}, FALSE))
       \/ judge # "awaiting" /\ Then(Finish("failed"))
       \/ Then(Retire(k, {p}, "none"))
       \/ \E w \in Passing(p, a) : Then(Select(w, "walk"))
       \/ Passing(p, a) # {} /\ Then(Create({j}, j, "start"))
  BY DEF Chooses
<1> HIDE DEF judge
<1> QED
  BY <1>7, <1>8, <1>9, <1>10, <1>11, <1>12, <1>13, <1>14

LEMMA GroupGoes == ASSUME ShapeInv, WalkInv, WalksGroup PROVE Goes
BY FansGoes, RefusesGoes, CandidatesGo, GroupEndsGoes, ChoosesGoes, JudgeSessionsGoes, SelectsGoes DEF WalksGroup

LEMMA StepGoes == ASSUME ShapeInv, WalkInv, WalksStep PROVE Goes
BY PassesGoes, AdmitsGoes, CreatesGoes, StartsGoes, SessionsGoes, ParksGoes, AcceptsGoes, FailsHardGoes,
   SpendsGoes, GatesItselfGoes, RejectsRowGoes, MergesGoes, LoopsGoes, RetiresGoes, ParksRunGoes,
   FinishesGoes, BlocksGoes
   DEF WalksStep

-----------------------------------------------------------------------------
(* Recovery.                                                                *)

LEMMA MergesFrontierGoes ==
  ASSUME ShapeInv, WalkInv, RowsAt({}), todo # <<>>, Decides, Quiet, MergesFrontier
  PROVE  Goes
<1>1. ASSUME NEW w, Then(I("merge", w)) PROVE Goes
  <2>1. Quiet'
    BY DecidesSame, SameFacts
  <2>2. Pre(I("merge", w))'
    BY <2>1, PreRow
  <2> QED
    BY <1>1, <2>2, DecidesThen
<1> QED
  BY <1>1, DecidesOver DEF MergesFrontier

LEMMA RecoversGoes == ASSUME ShapeInv, WalkInv, Recovers PROVE Goes
<1>1. RowsAt({}) /\ todo # <<>> /\ Decides
  BY Opening DEF Recovers
<1> PICK K : K = {k \in DOMAIN rows : St(k) = "running"}
  OBVIOUS
<1>2. CASE K = {} /\ MergesFrontier
  BY <1>1, <1>2, MergesFrontierGoes DEF Quiet
<1>3. CASE Then([op |-> "land", keys |-> K])
  <2>1. PICK i : i = [op |-> "land", keys |-> K]
    OBVIOUS
  <2>2. i.op = "land" /\ i.keys = K
    BY <2>1
  <2>3. \A k \in K : St(k)' = "running"
    BY <1>1, DecidesSame, SameFacts
  <2>4. Pre(i)'
    BY <2>2, <2>3 DEF Pre
  <2> QED
    BY <1>1, <1>3, <2>1, <2>4, DecidesThen
<1> QED
  BY <1>2, <1>3 DEF Recovers

LEMMA LandDoing ==
  ASSUME ShapeInv, Doing("land")
  PROVE  \E K \in SUBSET DOMAIN rows :
           /\ Now = [op |-> "land", keys |-> K] /\ Tail(todo) = <<Rederive, Pass>> /\ Rest = K
           /\ \A k : Without(k) = [op |-> "land", keys |-> K \ {k}]
<1>1. PICK K \in SUBSET DOMAIN rows : Now = [op |-> "land", keys |-> K] /\ Tail(todo) = <<Rederive, Pass>>
  <2>1. ~ IsInstr(Head(todo)) /\ todo # <<>> /\ Head(todo).op = "land" /\ TodoInv
    BY DEF IsInstr, RowOps, SlotOps, KeysOps, OtherOps, Doing, ShapeInv
  <2> QED
    BY <2>1, BackTails DEF TodoInv, Now
<1>2. PICK now : now = Now
  OBVIOUS
<1>3. now = [op |-> "land", keys |-> K]
  BY <1>1, <1>2
<1>4. now.keys = K /\ \A k : [now EXCEPT !.keys = now.keys \ {k}] = [op |-> "land", keys |-> K \ {k}]
  BY <1>3
<1>5. Rest = K /\ \A k : Without(k) = [op |-> "land", keys |-> K \ {k}]
  BY <1>2, <1>4 DEF Rest, Without
<1> QED
  BY <1>1, <1>5

LEMMA LandsGoes == ASSUME ShapeInv, WalkInv, Lands PROVE Goes
<1>1. /\ RowsAt({}) /\ Placed({}) /\ RowsInv /\ graph \in Graphs /\ todo # <<>> /\ graph' = graph /\ run' = run
      /\ Now.op = "land" /\ Pre(Now)
  BY Opening DEF Lands, WritesRows
<1>2. PICK K \in SUBSET DOMAIN rows :
        /\ Now = [op |-> "land", keys |-> K] /\ Tail(todo) = <<Rederive, Pass>> /\ Rest = K
        /\ \A k : Without(k) = [op |-> "land", keys |-> K \ {k}]
  BY LandDoing DEF Lands
<1>3. \A k \in K : St(k) = "running"
  BY <1>1, <1>2 DEF Pre
<1>4. K # {} => run # "awaiting"
  BY <1>1, <1>3 DEF RowsAt, RunIsQuiet, Quiet
<1>5. CASE Over /\ rows' = rows
  <2>1. RowsAt({})'
    BY <1>1, <1>5, RowsSame, SameRows
  <2> QED
    BY <1>1, <1>5, <2>1, GoesOver DEF WalkInv
<1>6. ASSUME NEW k \in K, graph[k[1]].fan > 1, Then(Without(k)), NEW row,
             row \in {[To(k, "failed") EXCEPT !.note = "interrupted"], To(k, "done")},
             rows' = [rows EXCEPT ![k] = row]
      PROVE  Goes
  <2>1. row.sel = rows[k].sel /\ row.st \in {"failed", "done"}
    <3>1. /\ To(k, "done").sel = rows[k].sel /\ To(k, "done").st = "done"
          /\ [To(k, "failed") EXCEPT !.note = "interrupted"].sel = rows[k].sel
          /\ [To(k, "failed") EXCEPT !.note = "interrupted"].st = "failed"
      BY <1>1, <1>6, ToFacts
    <3> QED
      BY <1>6, <3>1
  <2>2. Only(k) /\ St(k)' = row.st
    BY <1>1, <1>6, <2>1, RowOnly
  <2>3. \A j \in DOMAIN rows : j # k => St(j)' = St(j)
    BY <2>2 DEF Only
  <2>4. Placed({})'
    <3>1. ~ Plain(k) /\ InFlight(k)
      BY <1>3, <1>6 DEF Plain, InFlight
    <3> QED
      BY <1>1, <2>1, <2>2, <3>1, FlightKeeps
  <2>5. PICK i : i = [op |-> "land", keys |-> K \ {k}]
    OBVIOUS
  <2>6. i.op = "land" /\ i.keys = K \ {k} /\ Then(i)
    BY <1>2, <1>6, <2>5
  <2>7. Pre(i)'
    BY <1>3, <2>3, <2>6 DEF Pre
  <2> QED
    BY <1>1, <1>4, <2>4, <2>6, <2>7, WrittenThen
<1>7. ASSUME NEW k \in K, ~ (graph[k[1]].fan > 1), rows' = rows, NEW i,
             i = IF rows[k].work # "none" THEN Applied(k, rows[k].work, "end") ELSE I("reset", k),
             todo' = <<i, Without(k)>> \o Tail(todo)
      PROVE  Goes
  <2>1. Plain(k) /\ InFlight(k) /\ rows[k] \in Rows
    BY <1>1, <1>3, <1>7, PlainFacts, RowFields DEF InFlight, Placed
  <2>2. K = {k}
    BY <1>1, <1>3, <2>1, SoleIsAlone DEF Sole, Plain, InFlight
  <2>3. Without(k) = [op |-> "land", keys |-> {}]
    BY <1>2, <2>2
  <2>4. todo' = <<i>> \o LandRest({})
    <3>1. <<[op |-> "land", keys |-> {}]>> \o <<Rederive, Pass>> = LandRest({})
      BY LandOver
    <3>2. PICK l : l = [op |-> "land", keys |-> {}]
      OBVIOUS
    <3>3. PICK t : t = <<Rederive, Pass>>
      OBVIOUS
    <3>4. todo' = <<i, l>> \o t
      BY <1>2, <1>7, <2>3, <3>2, <3>3
    <3>5. <<i, l>> \o t = <<i>> \o (<<l>> \o t)
      BY <3>3
    <3> QED
      BY <3>1, <3>2, <3>3, <3>4, <3>5
  <2>5. IsBack(LandRest({}))
    <3>1. {} \in SUBSET DOMAIN rows
      OBVIOUS
    <3> QED
      BY <3>1 DEF IsBack
  <2>6. todo' # <<>> /\ Head(todo') = i /\ Tail(todo') = LandRest({})
    BY <2>4, <2>5, BackIsSeq
  <2>7. Pre(i)'
    <3>1. CASE rows[k].work # "none"
      <4>1. PICK verdict : verdict = rows[k].work
        OBVIOUS
      <4>2. verdict \in Works \ {"none"} /\ i = Applied(k, verdict, "end")
        BY <1>7, <2>1, <3>1, <4>1 DEF Rows
      <4> QED
        BY <1>1, <2>1, <4>2, AppliedPre
    <3>2. CASE rows[k].work = "none"
      BY <1>1, <1>7, <2>1, <3>2, PreRow DEF Plain
    <3> QED
      BY <3>1, <3>2
  <2>8. i.op # "retire"
    <3>1. CASE rows[k].work # "none"
      <4>1. PICK verdict : verdict = rows[k].work
        OBVIOUS
      <4>2. verdict \in Works \ {"none"} /\ i = Applied(k, verdict, "end")
        BY <1>7, <2>1, <3>1, <4>1 DEF Rows
      <4> QED
        BY <1>1, <4>2, AppliedIs DEF Park, I
    <3>2. CASE rows[k].work = "none"
      BY <1>7, <3>2 DEF I
    <3> QED
      BY <3>1, <3>2
  <2>9. Retiring' = {}
    BY <2>6, <2>8 DEF Retiring, Doing, Now
  <2>10. NoLandBehind'
    <3> SUFFICES ASSUME NEW L, LandRest({}) = LandRest(L)' PROVE L = {}
      BY <2>6 DEF NoLandBehind
    <3>1. LandRest({}) = LandRest(L)
      BY DEF LandRest, Rederive, Pass, I
    <3> QED
      BY <3>1, LandIs
  <2>11. RowsAt({})'
    BY <1>1, <1>7, RowsSame, SameRows
  <2> QED
    BY <2>6, <2>7, <2>9, <2>10, <2>11 DEF Goes
<1>8. ASSUME NEW k \in First(Rest), graph[k[1]].fan > 1, Then(Without(k)),
             rows' = [rows EXCEPT ![k] =
                        IF rows[k].work # "none" /\ k[3] >= 0 THEN To(k, "done")
                        ELSE [To(k, "failed") EXCEPT !.note = "interrupted"]]
      PROVE  Goes
  <2>1. PICK row : row = IF rows[k].work # "none" /\ k[3] >= 0 THEN To(k, "done")
                         ELSE [To(k, "failed") EXCEPT !.note = "interrupted"]
    OBVIOUS
  <2>2. k \in K /\ rows' = [rows EXCEPT ![k] = row]
        /\ row \in {[To(k, "failed") EXCEPT !.note = "interrupted"], To(k, "done")}
    BY <1>2, <1>8, <2>1 DEF First
  <2> QED
    BY <1>6, <1>8, <2>2
<1>9. ASSUME NEW k \in First(Rest), ~ (graph[k[1]].fan > 1), rows' = rows,
             todo' = <<IF rows[k].work # "none" THEN Applied(k, rows[k].work, "end") ELSE I("reset", k),
                       Without(k)>> \o Tail(todo)
      PROVE  Goes
  <2>1. k \in K
    BY <1>2 DEF First
  <2> QED
    BY <1>7, <1>9, <2>1
<1> QED
  BY <1>5, <1>8, <1>9 DEF Lands

LEMMA ResetsGoes == ASSUME ShapeInv, WalkInv, Resets PROVE Goes
<1> PICK k : k = Now.key
  OBVIOUS
<1>1. /\ RowsAt({}) /\ Placed({}) /\ RowsInv /\ graph \in Graphs /\ todo # <<>>
      /\ Plain(k) /\ Sole(k) /\ k \in DOMAIN rows
  <2>1. /\ RowsAt({}) /\ Placed({}) /\ RowsInv /\ graph \in Graphs /\ todo # <<>> /\ Pre(Now) /\ Now.op = "reset"
    BY Opening DEF Resets
  <2>2. k \in DOMAIN rows
    BY DoingFacts DEF Resets, RowOps, AllOps
  <2> QED
    BY <2>1, <2>2 DEF Pre, Sole, Plain
<1>2. graph' = graph /\ run' = run
  BY DEF Resets, WritesRows
<1>3. CASE rows' = rows /\ Over
  <2>1. RowsAt({})'
    BY <1>1, <1>2, <1>3, RowsSame, SameRows
  <2> QED
    BY <1>1, <1>3, <2>1, GoesOver DEF WalkInv
<1>4. ASSUME NEW note, St(k) = "running",
             rows' = [rows EXCEPT ![k] = [To(k, "failed") EXCEPT !.note = note]],
             Then(Admit(k[1], k[2] + 1)) \/ Then(ParkRun)
      PROVE  Goes
  <2>1. PICK row : row = [To(k, "failed") EXCEPT !.note = note]
    OBVIOUS
  <2>2. row.sel = rows[k].sel /\ row.st = "failed" /\ rows' = [rows EXCEPT ![k] = row]
    BY <1>1, <1>4, <2>1, ToFacts
  <2>3. Placed({})' /\ Idle' /\ Quiet' /\ AdmitPre(k[1], k[2] + 1)'
    BY <1>1, <1>2, <1>4, <2>2, SoleMoves, FailedMoved
  <2>4. Pre(Admit(k[1], k[2] + 1))' /\ Pre(ParkRun)'
    BY <2>3, PreAdmit, PreRun
  <2> QED
    BY <1>1, <1>2, <1>4, <2>3, <2>4, WrittenThen
<1>5. ASSUME St(k) = "running", rows' = [rows EXCEPT ![k] = [To(k, "failed") EXCEPT !.note = "interrupted"]],
             Then(IF MayAttempt(k[1], k[2] + 1) THEN Admit(k[1], k[2] + 1) ELSE ParkRun)
      PROVE  Goes
  BY <1>4, <1>5
<1> QED
  BY <1>3, <1>4, <1>5 DEF Resets

LEMMA SettlesAt ==
  ASSUME ShapeInv, WalkInv, RowsAt({}), todo # <<>>, Decides, RestsFailed, Then(SettleFailed(Cursor.key))
  PROVE  Goes
<1>1. RowsInv /\ graph \in Graphs /\ Placed({})
  BY DEF ShapeInv, Counters, RowsAt
<1>2. PICK k : k = Cursor.key
  OBVIOUS
<1>3. k \in DOMAIN rows /\ FailedPre(k)
  BY <1>1, <1>2, RestsFailedIs
<1>4. PICK i : i = SettleFailed(k)
  OBVIOUS
<1>5. Pre(i)'
  BY <1>1, <1>3, <1>4, SettlePre, DecidesSame
<1> QED
  BY <1>2, <1>4, <1>5, DecidesThen

LEMMA RederivesGoes == ASSUME ShapeInv, WalkInv, Rederives PROVE Goes
<1>1. RowsAt({}) /\ todo # <<>> /\ Decides
  BY Opening DEF Rederives
<1>2. CASE Quiet /\ Then(ParkRun)
  <2>1. Quiet'
    BY <1>1, <1>2, DecidesSame, SameFacts
  <2> QED
    BY <1>1, <1>2, <2>1, PreRun, DecidesThen
<1>3. CASE RestsFailed /\ Then(SettleFailed(Cursor.key))
  BY <1>1, <1>3, SettlesAt
<1>4. CASE Over
  BY <1>1, <1>4, DecidesOver
<1> QED
  BY <1>2, <1>3, <1>4 DEF Rederives, Quiet

LEMMA SettlesGoes == ASSUME ShapeInv, WalkInv, Settles PROVE Goes
<1>1. RowsAt({}) /\ todo # <<>> /\ Decides /\ Quiet
  BY Opening DEF Settles, Pre
<1> QED
  BY <1>1, SettlesAt, MergesFrontierGoes DEF Settles

LEMMA RejectionsGoes == ASSUME ShapeInv, WalkInv, Rejections PROVE Goes
<1> PICK k : k = Now.key
  OBVIOUS
<1>1. /\ RowsAt({}) /\ Placed({}) /\ RowsInv /\ graph \in Graphs /\ todo # <<>>
      /\ FailedPre(k) /\ k \in DOMAIN rows /\ Decides
  <2>1. /\ RowsAt({}) /\ Placed({}) /\ RowsInv /\ graph \in Graphs /\ todo # <<>> /\ Pre(Now) /\ Now.op = "rejection"
    BY Opening DEF Rejections
  <2>2. k \in DOMAIN rows
    BY DoingFacts DEF Rejections, RowOps, AllOps
  <2> QED
    BY <2>1, <2>2 DEF Pre, Rejections
<1>2. PICK i : i = Rejection(k)
  OBVIOUS
<1>3. Pre(i)'
  BY <1>1, <1>2, RejectionPre, DecidesSame
<1> QED
  BY <1>1, <1>2, <1>3, DecidesThen DEF Rejections

LEMMA ReadmitAdmits ==
  ASSUME RowsInv, graph \in Graphs, Placed({}), NEW k \in DOMAIN rows, ReadmitPre(k)
  PROVE  AdmitPre(k[1], Last(k[1]) + 1)
<1>1. Won(k[1]) = {}
  BY PlainOpen DEF ReadmitPre, Placed
<1>2. k[1] \in Phases
  BY KeyFacts
<1>3. \A j \in At(k[1]) : j[2] = Last(k[1]) /\ j[3] >= 0 => St(j) \in Dead
  <2> SUFFICES ASSUME NEW j \in At(k[1]), j[2] = Last(k[1]) PROVE St(j) \in Dead
    OBVIOUS
  <2>1. j \in DOMAIN rows /\ j[1] = k[1]
    BY DEF At
  <2>2. j[2] = k[2] /\ j[3] = 0 /\ k[3] = 0
    BY <2>1 DEF Placed, Kinds, Plain, ReadmitPre
  <2>3. j = k
    BY <2>1, <2>2, KeyFacts
  <2> QED
    BY <2>3 DEF ReadmitPre, Dead, Gone
<1>4. Spent(k[1], Last(k[1]) + 1)
  BY <1>2, <1>3, SpentNext DEF Placed
<1> QED
  BY <1>1, <1>4 DEF AdmitPre, Front, ReadmitPre

LEMMA ReadmitsGoes == ASSUME ShapeInv, WalkInv, Readmits PROVE Goes
<1> PICK k : k = Now.key
  OBVIOUS
<1>1. /\ RowsAt({}) /\ Placed({}) /\ RowsInv /\ graph \in Graphs /\ todo # <<>>
      /\ ReadmitPre(k) /\ k \in DOMAIN rows /\ Decides
  <2>1. /\ RowsAt({}) /\ Placed({}) /\ RowsInv /\ graph \in Graphs /\ todo # <<>> /\ Pre(Now) /\ Now.op = "readmit"
    BY Opening DEF Readmits
  <2>2. k \in DOMAIN rows
    BY DoingFacts DEF Readmits, RowOps, AllOps
  <2> QED
    BY <2>1, <2>2 DEF Pre, Readmits
<1>2. PICK a : a = Last(k[1]) + 1
  OBVIOUS
<1>3. AdmitPre(k[1], a)
  BY <1>1, <1>2, ReadmitAdmits
<1>4. Pre(Admit(k[1], a))'
  BY <1>1, <1>3, DecidesSame, SamePre, PreAdmit
<1> QED
  BY <1>1, <1>2, <1>4, DecidesThen DEF Readmits

LEMMA WalksOnGoes == ASSUME ShapeInv, WalkInv, WalksOn PROVE Goes
<1>1. RowsAt({}) /\ todo # <<>> /\ Decides
  BY Opening DEF WalksOn
<1> PICK k : k = Now.key
  OBVIOUS
<1>2. CASE run = "awaiting" /\ Then(Unpark(k, "settle", TRUE))
  <2>1. Quiet'
    BY <1>1, <1>2, DecidesSame, SameFacts DEF RowsAt, RunIsQuiet
  <2> QED
    BY <1>1, <1>2, <2>1, PreRun, DecidesThen
<1>3. CASE Over
  BY <1>1, <1>3, DecidesOver
<1> QED
  BY <1>2, <1>3 DEF WalksOn

LEMMA CancelsRunGoes == ASSUME ShapeInv, WalkInv, CancelsRun PROVE Goes
<1>1. RowsAt({}) /\ todo # <<>> /\ Decides
  BY Opening DEF CancelsRun
<1> PICK K : K = {k \in DOMAIN rows : St(k) \notin TerminalStep}
  OBVIOUS
<1>2. PICK i : i = [op |-> "cancels", keys |-> K]
  OBVIOUS
<1>3. i.op = "cancels" /\ i.keys = K
  BY <1>2
<1>4. DOMAIN rows' = DOMAIN rows /\ \A k \in DOMAIN rows : St(k)' = St(k)
  BY <1>1, DecidesSame, SameFacts
<1>5. Pre(i)'
  BY <1>3, <1>4 DEF Pre
<1> QED
  BY <1>1, <1>2, <1>5, DecidesThen DEF CancelsRun

LEMMA CancelsRowsGoes == ASSUME ShapeInv, WalkInv, CancelsRows PROVE Goes
<1> PICK S : S = Rest
  OBVIOUS
<1>1. /\ RowsAt({}) /\ Placed({}) /\ RowsInv /\ graph \in Graphs /\ todo # <<>> /\ Now.op = "cancels"
      /\ S \subseteq DOMAIN rows /\ IsInstr(Now) /\ graph' = graph /\ run' = run
      /\ \A k \in DOMAIN rows : k \in S <=> St(k) \notin TerminalStep
  <2>1. /\ RowsAt({}) /\ Placed({}) /\ RowsInv /\ graph \in Graphs /\ todo # <<>> /\ Pre(Now) /\ Now.op = "cancels"
        /\ graph' = graph /\ run' = run
    BY Opening DEF CancelsRows, WritesRows
  <2>2. IsInstr(Now) /\ S \subseteq DOMAIN rows
    BY DoingFacts DEF CancelsRows, KeysOps, AllOps, Rest
  <2> QED
    BY <2>1, <2>2 DEF Pre, Rest
<1>3. CASE S = {} /\ rows' = rows /\ Then(Finish("cancelled"))
  <2>1. Idle
    BY <1>1, <1>3 DEF Idle, TerminalStep
  <2>2. Idle' /\ Quiet' /\ Placed({})'
    BY <1>1, <1>3, <2>1, RowsSame, SameFacts, StatusKeeps DEF Idle, Quiet
  <2> QED
    BY <1>1, <1>3, <2>2, PreRun, WrittenThen
<1>4. ASSUME NEW k \in First(Rest), rows' = [rows EXCEPT ![k] = To(k, "cancelled")], Then(Without(k)) PROVE Goes
  <2>1. k \in DOMAIN rows /\ k \in S /\ St(k) \notin TerminalStep /\ \A j \in S : ~ Before(j, k)
    BY <1>1, <1>4 DEF First
  <2>2. To(k, "cancelled").sel = rows[k].sel /\ To(k, "cancelled").st = "cancelled"
    BY <1>1, <2>1, ToFacts
  <2>3. Only(k) /\ St(k)' = "cancelled"
    BY <1>1, <1>4, <2>1, <2>2, RowOnly
  <2>4. SameShape /\ \A j \in DOMAIN rows : j # k => St(j)' = St(j)
    BY <2>3 DEF Only
  <2>5. ASSUME NEW j \in DOMAIN rows, InFlight(j), j[3] < 0, k[3] >= 0, k \in Slot(j[1], j[2]) PROVE FALSE
    <3>1. j \in S
      BY <1>1, <2>5 DEF InFlight, TerminalStep
    <3>2. k[1] = j[1] /\ k[2] = j[2] /\ j[3] \in Int /\ k[3] \in Int
      BY <1>1, <2>1, <2>5, KeyFacts DEF Slot
    <3>3. j[3] < k[3]
      BY <2>5, <3>2
    <3> QED
      BY <2>1, <3>1, <3>2, <3>3 DEF Before
  <2>6. k \notin Won(k[1])
    BY <2>1 DEF Won, TerminalStep
  <2>7. Placed({} \ {k})'
    BY <1>1, <2>1, <2>3, <2>5, <2>6, GoneKeeps DEF Gone
  <2>8. Placed({})'
    <3>1. {} \ {k} = {}
      OBVIOUS
    <3> QED
      BY <2>7, <3>1
  <2>9. Quiet' \/ run # "awaiting"
    BY <1>1, <2>3, <2>4 DEF RowsAt, RunIsQuiet, Quiet, SameShape
  <2>10. PICK i : i = Without(k)
    OBVIOUS
  <2>11. i.op = "cancels" /\ i.keys = S \ {k}
    BY <1>1, <2>10, WithoutInstr DEF KeysOps
  <2>12. \A j \in DOMAIN rows : j \in i.keys <=> St(j)' \notin TerminalStep
    BY <1>1, <2>3, <2>4, <2>11 DEF TerminalStep
  <2>13. Pre(i)'
    BY <2>4, <2>11, <2>12 DEF Pre, SameShape
  <2> QED
    BY <1>1, <1>4, <2>8, <2>9, <2>10, <2>13, WrittenThen
<1> QED
  BY <1>3, <1>4 DEF CancelsRows

LEMMA ApprovesRowGoes == ASSUME ShapeInv, WalkInv, ApprovesRow PROVE Goes
<1> PICK k : k = Now.key
  OBVIOUS
<1>1. /\ RowsAt({}) /\ Placed({}) /\ RowsInv /\ graph \in Graphs /\ todo # <<>>
      /\ k \in DOMAIN rows /\ k[3] >= 0
  <2>1. /\ RowsAt({}) /\ Placed({}) /\ RowsInv /\ graph \in Graphs /\ todo # <<>> /\ Pre(Now) /\ Now.op = "approve"
    BY Opening DEF ApprovesRow
  <2>2. k \in DOMAIN rows
    BY DoingFacts DEF ApprovesRow, RowOps, AllOps
  <2> QED
    BY <2>1, <2>2 DEF Pre
<1>2. graph' = graph /\ run' = run
  BY DEF ApprovesRow, Moves, WritesRows
<1>3. CASE rows' = rows /\ Ends
  BY <1>1, <1>2, <1>3, StaleGoes
<1>4. CASE /\ St(k) = "awaiting" /\ rows' = [rows EXCEPT ![k] = [rows[k] EXCEPT !.st = "done", !.ans = "approved"]]
           /\ Then(Unpark(k, "merge", FALSE))
  <2>1. PICK row : row = [rows[k] EXCEPT !.st = "done", !.ans = "approved"]
    OBVIOUS
  <2>2. row.sel = rows[k].sel /\ row.st = "done" /\ rows' = [rows EXCEPT ![k] = row]
    BY <1>1, <1>4, <2>1, ToFacts
  <2>3. Plain(k)
    BY <1>1, <1>4, PlainFacts DEF Placed
  <2>4. Placed({})' /\ Quiet'
    BY <1>1, <1>2, <1>4, <2>2, <2>3, DoneMoved
  <2>5. Pre(Unpark(k, "merge", FALSE))'
    BY <2>4, PreRow
  <2> QED
    BY <1>1, <1>2, <1>4, <2>4, <2>5, WrittenThen
<1> QED
  BY <1>3, <1>4 DEF ApprovesRow, Moves

LEMMA RetriesRowGoes == ASSUME ShapeInv, WalkInv, RetriesRow PROVE Goes
<1> PICK k : k = Now.key
  OBVIOUS
<1> PICK must : must = Now.must
  OBVIOUS
<1>1. /\ RowsAt({}) /\ Placed({}) /\ RowsInv /\ graph \in Graphs /\ todo # <<>>
      /\ k \in DOMAIN rows /\ k[3] >= 0
  <2>1. /\ RowsAt({}) /\ Placed({}) /\ RowsInv /\ graph \in Graphs /\ todo # <<>> /\ Pre(Now) /\ Now.op = "retry"
    BY Opening DEF RetriesRow
  <2>2. k \in DOMAIN rows
    BY DoingFacts DEF RetriesRow, RowOps, AllOps
  <2> QED
    BY <2>1, <2>2 DEF Pre
<1>2. graph' = graph /\ run' = run
  BY DEF RetriesRow, Moves, WritesRows
<1>3. CASE rows' = rows /\ Ends
  BY <1>1, <1>2, <1>3, StaleGoes
<1>4. CASE /\ St(k) = "awaiting"
           /\ rows' = [rows EXCEPT ![k] = [rows[k] EXCEPT !.st = "superseded", !.ans = "retried"]]
           /\ Then(Unpark(k, "readmit", must))
  <2>1. PICK row : row = [rows[k] EXCEPT !.st = "superseded", !.ans = "retried"]
    OBVIOUS
  <2>2. row.sel = rows[k].sel /\ row.st = "superseded" /\ rows' = [rows EXCEPT ![k] = row]
    BY <1>1, <1>4, <2>1, ToFacts
  <2>3. Plain(k) /\ Sole(k) /\ InFlight(k)
    BY <1>1, <1>4, PlainFacts DEF Placed, InFlight
  <2>4. Only(k) /\ St(k)' = "superseded"
    BY <1>1, <1>2, <2>2, RowOnly
  <2>5. NoFlight' /\ Quiet'
    BY <1>1, <2>3, <2>4, AloneMoved DEF InFlight
  <2>6. ASSUME NEW j \in DOMAIN rows, InFlight(j), j[3] < 0 PROVE k \notin Slot(j[1], j[2])
    <3>1. j = k
      BY <1>1, <2>3, <2>6, SoleIsAlone
    <3> QED
      BY <1>1, <2>6, <3>1, KeyFacts
  <2>7. k \notin Won(k[1])
    BY <1>4 DEF Won
  <2>8. Placed({} \ {k})' /\ \A p : Won(p)' = Won(p) \ {k}
    BY <1>1, <2>4, <2>6, <2>7, GoneKeeps DEF Gone
  <2>9. Placed({})'
    <3>1. {} \ {k} = {}
      OBVIOUS
    <3> QED
      BY <2>8, <3>1
  <2>10. k[2] = Last(k[1]) /\ Front(k[1])
    BY <1>1, <2>3, InFlightIsFront DEF Placed
  <2>11. \A p : Won(p)' = Won(p)
    <3> SUFFICES ASSUME NEW p PROVE k \notin Won(p)
      BY <2>8
    <3> QED
      BY <1>4 DEF Won
  <2>12. SameShape
    BY <2>4 DEF Only
  <2>13. Reached(k[1])' /\ k[2] = Last(k[1])'
    BY <2>10, <2>11, <2>12, ShapeSame DEF Front, Reached
  <2>14. ReadmitPre(k)'
    BY <1>2, <2>3, <2>4, <2>5, <2>13 DEF ReadmitPre, Plain
  <2>15. Pre(Unpark(k, "readmit", must))'
    BY <2>14, PreRow
  <2> QED
    BY <1>1, <1>2, <1>4, <2>5, <2>9, <2>15, WrittenThen
<1> QED
  BY <1>3, <1>4 DEF RetriesRow, Moves

LEMMA UnparksGoes == ASSUME ShapeInv, WalkInv, Unparks PROVE Goes
<1> PICK k : k = Now.key
  OBVIOUS
<1>1. /\ RowsAt({}) /\ Placed({}) /\ RowsInv /\ graph \in Graphs /\ todo # <<>> /\ run \notin TerminalRun
      /\ UnparkPre(Now) /\ IsInstr(Now) /\ Now.op = "unpark"
  <2>1. /\ RowsAt({}) /\ Placed({}) /\ RowsInv /\ graph \in Graphs /\ todo # <<>> /\ Pre(Now) /\ Now.op = "unpark"
        /\ run \notin TerminalRun
    BY Opening DEF Unparks
  <2>2. IsInstr(Now)
    BY DoingFacts DEF Unparks, OtherOps, AllOps
  <2> QED
    BY <2>1, <2>2 DEF Pre
<1>2. SameStatus /\ graph' = graph /\ run' \notin TerminalRun /\ run' # "awaiting"
  BY <1>1, RowsSame DEF Unparks, TerminalRun
<1>3. RowsAt({})'
  BY <1>1, <1>2, StatusKeeps DEF RowsAt, RunIsQuiet
<1>4. CASE Ends
  BY <1>3, <1>4, GoesEnds
<1>5. CASE Over
  BY <1>1, <1>3, <1>5, GoesOver DEF WalkInv
<1>6. CASE Then(I(Now.then, k))
  <2>1. PICK then : then = Now.then
    OBVIOUS
  <2>2. /\ then \in {"merge", "rejection", "readmit"} /\ k \in DOMAIN rows
        \/ then = "admit" \/ then = "settle"
    BY <1>1, <2>1 DEF IsInstr
  <2>3. CASE then \in {"merge", "settle"}
    <3>1. Quiet'
      BY <1>1, <1>2, <2>1, <2>3, SameFacts DEF UnparkPre
    <3>2. Pre(I(then, k))'
      BY <2>3, <3>1, PreRow
    <3> QED
      BY <1>1, <1>2, <1>3, <1>6, <2>1, <3>2, GoesThen DEF WalkInv
  <2>4. CASE then = "rejection" /\ k \in DOMAIN rows
    <3>1. FailedPre(k)'
      BY <1>1, <1>2, <2>1, <2>4, SamePre DEF UnparkPre
    <3>2. Pre(I(then, k))'
      BY <2>4, <3>1, PreRow
    <3> QED
      BY <1>1, <1>2, <1>3, <1>6, <2>1, <3>2, GoesThen DEF WalkInv
  <2>5. CASE then = "readmit" /\ k \in DOMAIN rows
    <3>1. ReadmitPre(k)'
      BY <1>1, <1>2, <2>1, <2>5, SamePre DEF UnparkPre
    <3>2. Pre(I(then, k))'
      BY <2>5, <3>1, PreRow
    <3> QED
      BY <1>1, <1>2, <1>3, <1>6, <2>1, <3>2, GoesThen DEF WalkInv
  <2>6. CASE then = "admit"
    <3>1. AdmitPre(k[1], k[2])'
      BY <1>1, <1>2, <2>1, <2>6, SamePre DEF UnparkPre
    <3>2. PICK i : i = I(then, k)
      OBVIOUS
    <3>3. i.op = "admit" /\ i.key = k
      BY <2>6, <3>2 DEF I
    <3>4. Pre(i)'
      BY <3>1, <3>3 DEF Pre
    <3> QED
      BY <1>1, <1>2, <1>3, <1>6, <2>1, <3>2, <3>4, GoesThen DEF WalkInv
  <2> QED
    BY <2>2, <2>3, <2>4, <2>5, <2>6
<1> QED
  BY <1>4, <1>5, <1>6 DEF Unparks

LEMMA ServesGoes == ASSUME ShapeInv, WalkInv, Serves PROVE Goes
BY RecoversGoes, LandsGoes, ResetsGoes, RederivesGoes, CancelsRunGoes, CancelsRowsGoes, ApprovesRowGoes,
   RetriesRowGoes, UnparksGoes, RejectionsGoes, ReadmitsGoes, WalksOnGoes, SettlesGoes
   DEF Serves

-----------------------------------------------------------------------------
(* The walk, and what is not a step of it.                                  *)

LEMMA WalksFront ==
  ASSUME ShapeInv, WalkInv, Walks
  PROVE  WalkInv'
<1>1. Goes
  BY StepGoes, GroupGoes, ServesGoes DEF Walks
<1>2. asked' = asked /\ old' = old \cup {h \in People : asked[h] # <<>>}
  BY DEF Walks
<1>3. \A h \in People : asked'[h] # <<>> =>
        AskedFits(asked[h][1])' /\ (h \notin old' => AskedFresh(asked[h][1])')
  <2> SUFFICES ASSUME NEW h \in People, asked[h] # <<>> PROVE AskedFits(asked[h][1])' /\ h \in old'
    BY <1>2
  <2>1. AskedFits(asked[h][1])
    BY DEF WalkInv
  <2> QED
    BY <1>2, <2>1 DEF AskedFits
<1> QED
  BY <1>1, <1>2, <1>3 DEF Goes, WalkInv

\* The same rows under the same run: everything said of them is said again.
LEMMA AllSame ==
  ASSUME graph' = graph, rows' = rows
  PROVE  /\ \A k : St(k)' = St(k) /\ InFlight(k)' = InFlight(k) /\ Plain(k)' = Plain(k) /\ Sole(k)' = Sole(k)
         /\ Quiet' = Quiet /\ Idle' = Idle /\ NoFlight' = NoFlight /\ Phases' = Phases
         /\ \A p : At(p)' = At(p) /\ Last(p)' = Last(p) /\ Won(p)' = Won(p)
         /\ \A p, a : Slot(p, a)' = Slot(p, a) /\ Group(p, a)' = Group(p, a)
         /\ \A p : Reached(p)' = Reached(p) /\ Front(p)' = Front(p) /\ Chosen(p)' = Chosen(p)
         /\ \A p, a : Spent(p, a)' = Spent(p, a) /\ AdmitPre(p, a)' = AdmitPre(p, a)
         /\ \A k : FailedPre(k)' = FailedPre(k) /\ ReadmitPre(k)' = ReadmitPre(k)
         /\ \A w : SelectPre(w)' = SelectPre(w)
<1>1. \A k : St(k)' = St(k) /\ InFlight(k)' = InFlight(k) /\ Plain(k)' = Plain(k) /\ Sole(k)' = Sole(k)
  BY DEF St, InFlight, Plain, Sole
<1>2. Quiet' = Quiet /\ Idle' = Idle /\ NoFlight' = NoFlight /\ Phases' = Phases
  BY <1>1 DEF Quiet, Idle, NoFlight, Phases
<1>3. \A p : At(p)' = At(p) /\ Last(p)' = Last(p)
  BY DEF At, Last
<1>4. \A p, a : Slot(p, a)' = Slot(p, a) /\ Group(p, a)' = Group(p, a)
  BY <1>3 DEF Slot, Group
<1>5. \A p : Won(p)' = Won(p)
  BY <1>1, <1>3, <1>4 DEF Won
<1>6. \A p : Reached(p)' = Reached(p) /\ Front(p)' = Front(p)
  BY <1>2, <1>5 DEF Reached, Front
<1>7. \A p : Chosen(p)' = Chosen(p)
  BY <1>3, <1>4 DEF Chosen
<1>8. \A p, a : Spent(p, a)' = Spent(p, a)
  BY <1>1, <1>3 DEF Spent
<1>9. \A p, a : AdmitPre(p, a)' = AdmitPre(p, a)
  BY <1>2, <1>3, <1>6, <1>8 DEF AdmitPre
<1>10. \A k : FailedPre(k)' = FailedPre(k) /\ ReadmitPre(k)' = ReadmitPre(k)
  BY <1>1, <1>2, <1>3, <1>6 DEF FailedPre, ReadmitPre
<1>11. \A w : SelectPre(w)' = SelectPre(w)
  BY <1>1, <1>4, <1>5 DEF SelectPre
<1> QED
  BY <1>1, <1>2, <1>3, <1>4, <1>5, <1>6, <1>7, <1>8, <1>9, <1>10, <1>11

LEMMA PreSame ==
  ASSUME graph' = graph, rows' = rows, run' = run, NEW i, Pre(i)
  PROVE  Pre(i)'
<1>1. /\ \A k : St(k)' = St(k) /\ InFlight(k)' = InFlight(k) /\ Plain(k)' = Plain(k) /\ Sole(k)' = Sole(k)
      /\ Quiet' = Quiet /\ Idle' = Idle /\ NoFlight' = NoFlight /\ Phases' = Phases
      /\ \A p : At(p)' = At(p) /\ Last(p)' = Last(p) /\ Won(p)' = Won(p)
      /\ \A p, a : Slot(p, a)' = Slot(p, a) /\ Group(p, a)' = Group(p, a)
      /\ \A p : Reached(p)' = Reached(p) /\ Front(p)' = Front(p) /\ Chosen(p)' = Chosen(p)
      /\ \A p, a : Spent(p, a)' = Spent(p, a) /\ AdmitPre(p, a)' = AdmitPre(p, a)
      /\ \A k : FailedPre(k)' = FailedPre(k) /\ ReadmitPre(k)' = ReadmitPre(k)
      /\ \A w : SelectPre(w)' = SelectPre(w)
  BY AllSame
<1>2. \A p, a : GroupPre(p, a)' = GroupPre(p, a)
  BY <1>1 DEF GroupPre
<1>3. CreatePre(i)' = CreatePre(i)
  BY <1>1, <1>2 DEF CreatePre, JudgeOf
<1>4. RetirePre(i)' = RetirePre(i)
  BY <1>1 DEF RetirePre
<1>5. SessionsPre(i)' = SessionsPre(i)
  BY <1>1, <1>2 DEF SessionsPre, JudgeOf
<1>6. RefusePre(i)' = RefusePre(i)
  BY <1>1 DEF RefusePre, JudgeOf
<1>7. UnparkPre(i)' = UnparkPre(i)
  BY <1>1 DEF UnparkPre
<1> QED
  BY <1>1, <1>2, <1>3, <1>4, <1>5, <1>6, <1>7 DEF Pre, JudgeOf

LEMMA AskedSame ==
  ASSUME graph' = graph, rows' = rows, NEW i
  PROVE  AskedFits(i)' = AskedFits(i) /\ AskedFresh(i)' = AskedFresh(i)
<1>1. AskedFits(i)' = AskedFits(i)
  BY DEF AskedFits
<1>2. AskedFresh(i)' = AskedFresh(i)
  BY AllSame DEF AskedFresh
<1> QED
  BY <1>1, <1>2

\* Nothing that the invariant is about changed.
LEMMA StillFront ==
  ASSUME WalkInv, graph' = graph, rows' = rows, run' = run, todo' = todo, asked' = asked, old' = old
  PROVE  WalkInv'
<1>1. PICK R : R = Retiring
  OBVIOUS
<1>2. Retiring' = R
  BY <1>1 DEF Retiring, Doing, Now, Rest
<1>3. RowsAt(R)'
  BY <1>1, RowsSame, SameRows DEF WalkInv
<1>4. RowsAt(Retiring)'
  BY <1>2, <1>3 DEF RowsAt, Placed, Beyond
<1>5. todo' # <<>> => Pre(Head(todo))'
  <2>1. PICK i : i = Head(todo)
    OBVIOUS
  <2>2. todo # <<>> => Pre(i)'
    BY <2>1, PreSame DEF WalkInv
  <2> QED
    BY <2>1, <2>2
<1>6. NoLandBehind'
  BY DEF WalkInv, NoLandBehind, LandRest
<1>7. \A h \in People : asked'[h] # <<>> =>
        AskedFits(asked[h][1])' /\ (h \notin old' => AskedFresh(asked[h][1])')
  <2> SUFFICES ASSUME NEW h \in People, asked[h] # <<>>
               PROVE  AskedFits(asked[h][1])' /\ (h \notin old => AskedFresh(asked[h][1])')
    OBVIOUS
  <2>1. PICK i : i = asked[h][1]
    OBVIOUS
  <2>2. asked'[h][1] = i
    BY <2>1
  <2> QED
    BY <2>1, <2>2, AskedSame DEF WalkInv
<1> QED
  BY <1>4, <1>5, <1>6, <1>7 DEF WalkInv

\* The commands that stay on their way.
LEMMA AskedStay ==
  ASSUME WalkInv, graph' = graph, rows' = rows, asked' = asked, old' = old
  PROVE  \A h \in People : asked'[h] # <<>> =>
           AskedFits(asked[h][1])' /\ (h \notin old' => AskedFresh(asked[h][1])')
<1> SUFFICES ASSUME NEW h \in People, asked[h] # <<>>
             PROVE  AskedFits(asked[h][1])' /\ (h \notin old => AskedFresh(asked[h][1])')
  OBVIOUS
<1>1. PICK i : i = asked[h][1]
  OBVIOUS
<1>2. asked'[h][1] = i
  BY <1>1
<1> QED
  BY <1>1, <1>2, AskedSame DEF WalkInv

\* A new walk starts: no rejection retires anything then.
LEMMA StartsOver ==
  ASSUME ShapeInv, WalkInv, Retiring = {}, graph' = graph, rows' = rows, run' = run,
         NEW i, i.op = "recover" \/ i.op = "cancel",
         todo' # <<>> => Head(todo') = i /\ (Tail(todo') = <<Rederive, Pass>> \/ Tail(todo') = <<>>)
  PROVE  RowsAt(Retiring)' /\ (todo' # <<>> => Pre(Head(todo))') /\ NoLandBehind'
<1>1. Retiring' = {}
  BY DEF Retiring, Doing, Now
<1>2. RowsAt({})'
  BY RowsSame, SameRows DEF WalkInv
<1>3. RowsAt(Retiring)'
  BY <1>1, <1>2 DEF RowsAt, Placed, Beyond
<1>4. Pre(i)'
  BY DEF Pre
<1>5. NoLandBehind'
  <2> SUFFICES ASSUME NEW K, todo' # <<>>, Tail(todo') = LandRest(K)' PROVE FALSE
    BY DEF NoLandBehind
  <2>1. PICK t : t = Tail(todo')
    OBVIOUS
  <2>2. t = <<[op |-> "land", keys |-> K], Rederive, Pass>>
    BY <2>1 DEF LandRest, Rederive, Pass, I
  <2>3. Len(t) = 3
    BY <2>2
  <2>4. t = <<Rederive, Pass>> => Len(t) = 2
    OBVIOUS
  <2>5. t = <<>> => Len(t) = 0
    OBVIOUS
  <2>6. t = <<Rederive, Pass>> \/ t = <<>>
    BY <2>1
  <2> QED
    BY <2>3, <2>4, <2>5, <2>6
<1> QED
  BY <1>3, <1>4, <1>5

LEMMA SweepsFront ==
  ASSUME ShapeInv, WalkInv, Sweeps
  PROVE  WalkInv'
<1>1. graph' = graph /\ rows' = rows /\ run' = run /\ asked' = asked /\ old' = old /\ todo = <<>>
  BY DEF Sweeps, rowVars
<1>2. Retiring = {}
  BY <1>1 DEF Retiring, Doing
<1>3. PICK i : i = I("recover", <<0, 0, 0>>)
  OBVIOUS
<1>4. i.op = "recover"
  BY <1>3 DEF I
<1>5. PICK t : t = <<Rederive, Pass>>
  OBVIOUS
<1>6. todo' = <<i, Rederive, Pass>>
  BY <1>3 DEF Sweeps, Rederive
<1>7. todo' # <<>> /\ Head(todo') = i /\ Tail(todo') = t
  BY <1>5, <1>6
<1>9. RowsAt(Retiring)' /\ (todo' # <<>> => Pre(Head(todo))') /\ NoLandBehind'
  BY <1>1, <1>2, <1>4, <1>5, <1>7, StartsOver
<1> QED
  BY <1>1, <1>9, AskedStay DEF WalkInv

\* What a stopped walk leaves undone may be a rejection's retirement, and then it tore.
LEMMA StopsFront ==
  ASSUME ShapeInv, WalkInv, ~ torn', TakesCancel \/ Drops
  PROVE  WalkInv'
<1>1. graph' = graph /\ rows' = rows /\ run' = run /\ asked' = asked /\ old' = old
  BY DEF TakesCancel, Drops, rowVars
<1>2. Retiring = {}
  BY DEF Retiring, TakesCancel, Drops, Tears
<1>3. PICK i : i = I("cancel", <<0, 0, 0>>)
  OBVIOUS
<1>4. i.op = "cancel"
  BY <1>3 DEF I
<1>5. todo' # <<>> => Head(todo') = i /\ Tail(todo') = <<>>
  <2>1. CASE TakesCancel
    BY <1>3, <2>1 DEF TakesCancel
  <2>2. CASE Drops
    BY <2>2 DEF Drops
  <2> QED
    BY <2>1, <2>2
<1>6. RowsAt(Retiring)' /\ (todo' # <<>> => Pre(Head(todo))') /\ NoLandBehind'
  BY <1>1, <1>2, <1>4, <1>5, StartsOver
<1> QED
  BY <1>1, <1>6, AskedStay DEF WalkInv

LEMMA AsksFront ==
  ASSUME ShapeInv, WalkInv, NEW h \in People, NEW i, Asks(h, i), AskedFits(i), AskedFresh(i)
  PROVE  WalkInv'
<1>1. graph' = graph /\ rows' = rows /\ run' = run /\ todo' = todo /\ old' = old
  BY DEF Asks, rowVars
<1>2. RowsAt(Retiring)' /\ (todo' # <<>> => Pre(Head(todo))') /\ NoLandBehind'
  <2>1. PICK R : R = Retiring
    OBVIOUS
  <2>2. Retiring' = R
    BY <1>1, <2>1 DEF Retiring, Doing, Now, Rest
  <2>3. RowsAt(R)'
    BY <1>1, <2>1, RowsSame, SameRows DEF WalkInv
  <2>4. RowsAt(Retiring)'
    BY <2>2, <2>3 DEF RowsAt, Placed, Beyond
  <2>5. PICK now : now = Head(todo)
    OBVIOUS
  <2>6. todo # <<>> => Pre(now)'
    BY <1>1, <2>5, PreSame DEF WalkInv
  <2>7. NoLandBehind'
    BY <1>1 DEF WalkInv, NoLandBehind, LandRest
  <2> QED
    BY <1>1, <2>4, <2>5, <2>6, <2>7
<1>3. PICK f : f = asked'
  OBVIOUS
<1>4. \A g \in People : f[g] = IF g = h THEN <<i>> ELSE asked[g]
  BY <1>3 DEF Asks, ShapeInv, AskedInv
<1>5. ASSUME NEW g \in People, f[g] # <<>>
      PROVE  AskedFits(f[g][1])' /\ (g \notin old => AskedFresh(f[g][1])')
  <2>1. PICK j : j = f[g][1]
    OBVIOUS
  <2>2. CASE g = h
    <3>1. j = i
      BY <1>4, <2>1, <2>2
    <3> QED
      BY <1>1, <2>1, <3>1, AskedSame
  <2>3. CASE g # h
    <3>1. asked[g] # <<>> /\ j = asked[g][1]
      BY <1>4, <1>5, <2>1, <2>3
    <3>2. AskedFits(j) /\ (g \notin old => AskedFresh(j))
      BY <3>1 DEF WalkInv
    <3> QED
      BY <1>1, <2>1, <3>2, AskedSame
  <2> QED
    BY <2>2, <2>3
<1>6. \A g \in People : asked'[g] # <<>> =>
        AskedFits(asked[g][1])' /\ (g \notin old' => AskedFresh(asked[g][1])')
  BY <1>1, <1>3, <1>5
<1> QED
  BY <1>2, <1>6 DEF WalkInv

-----------------------------------------------------------------------------
(* The commands: read, and carried out later.                               *)

\* A slot a person may retire or choose from: the latest, and nothing of it was selected.
LEMMA NotChosenOpen ==
  ASSUME NEW p, graph[p].fan > 1, ~ Chosen(p), graph[p].fan \in Nat
  PROVE  Won(p) = {}
BY DEF Won, Chosen

LEMMA RetriesFront ==
  ASSUME ShapeInv, WalkInv, NEW h \in People, Retries(h)
  PROVE  WalkInv'
<1>1. PICK k \in DOMAIN rows :
        /\ graph[k[1]].fan = 1 /\ St(k) \in {"awaiting", "failed"} /\ k[2] = Last(k[1])
        /\ LET unpark == Unpark(k, "readmit", run = "awaiting")
           IN  Asks(h, IF St(k) = "awaiting" THEN [unpark EXCEPT !.op = "retry"] ELSE unpark)
  BY DEF Retries
<1>2. k[3] >= 0
  <2>1. k[3] = 0
    BY <1>1 DEF WalkInv, RowsAt, Placed, Kinds
  <2> QED
    BY <2>1
<1>3. PICK unpark : unpark = Unpark(k, "readmit", run = "awaiting")
  OBVIOUS
<1>4. unpark.op = "unpark" /\ unpark.key = k /\ unpark.then = "readmit"
  BY <1>3 DEF Unpark
<1>5. PICK retry : retry = [unpark EXCEPT !.op = "retry"]
  OBVIOUS
<1>6. retry.op = "retry" /\ retry.key = k /\ retry.then = "readmit"
  BY <1>3, <1>5 DEF Unpark
<1>7. CASE St(k) = "awaiting"
  <2>1. Asks(h, retry)
    BY <1>1, <1>3, <1>5, <1>7
  <2>2. AskedFits(retry) /\ AskedFresh(retry)
    BY <1>2, <1>6 DEF AskedFits, AskedFresh
  <2> QED
    BY <2>1, <2>2, AsksFront
<1>8. CASE St(k) = "failed"
  <2>1. Asks(h, unpark)
    BY <1>1, <1>3, <1>8
  <2>2. FailedPre(k)
    BY <1>1, <1>8 DEF FailedPre, Plain
  <2>3. AskedFits(unpark) /\ AskedFresh(unpark)
    BY <1>4, <2>2 DEF AskedFits, AskedFresh
  <2> QED
    BY <2>1, <2>3, AsksFront
<1> QED
  BY <1>1, <1>7, <1>8

LEMMA RetriesGroupFront ==
  ASSUME ShapeInv, WalkInv, NEW h \in People, RetriesGroup(h)
  PROVE  WalkInv'
<1>1. PICK p \in Phases :
        /\ graph[p].fan > 1 /\ \A k \in Group(p, Last(p)) : ~ rows[k].sel
        /\ Asks(h, Retire(<<p, Last(p), 0>>, {p}, "unpark"))
  BY DEF RetriesGroup
<1>2. PICK i : i = Retire(<<p, Last(p), 0>>, {p}, "unpark")
  OBVIOUS
<1> DEFINE slots == {j \in DOMAIN rows : j[1] \in {p} /\ j[2] = Last(j[1]) /\ St(j) \notin Gone}
<1>3. /\ i.op = "retire" /\ i.key = <<p, Last(p), 0>> /\ i.keys = slots /\ i.was = [j \in slots |-> St(j)]
      /\ i.then = "unpark"
  BY <1>2 DEF Retire
<1>4. i.keys = {j \in At(p) : j[2] = Last(p) /\ St(j) \notin Gone}
  BY <1>3 DEF At
<1>5. \A j \in i.keys : St(j) = i.was[j]
  BY <1>3
<1>6. i.key[1] = p /\ i.key[2] = Last(p)
  BY <1>3
<1>7. ~ Chosen(p)
  BY <1>1 DEF Chosen
<1>8. AskedFits(i)
  BY <1>3 DEF AskedFits
<1>9. AskedFresh(i)
  BY <1>1, <1>3, <1>4, <1>5, <1>6, <1>7 DEF AskedFresh
<1> QED
  BY <1>1, <1>2, <1>8, <1>9, AsksFront

LEMMA PicksFront ==
  ASSUME ShapeInv, WalkInv, NEW h \in People, Picks(h)
  PROVE  WalkInv'
<1>0. RowsInv /\ graph \in Graphs /\ OldRows /\ Kinds /\ RunIsQuiet
  BY DEF ShapeInv, Counters, WalkInv, RowsAt, Placed
<1>1. PICK w \in DOMAIN rows :
        /\ w \in Group(w[1], w[2]) /\ Group(w[1], w[2]) # {w} /\ run = "awaiting"
        /\ \A k \in Group(w[1], w[2]) : ~ rows[k].sel
        /\ St(w) \in {"done", "awaiting"} /\ Asks(h, Select(w, "person"))
  BY DEF Picks
<1>2. w[3] >= 0 /\ w[1] \in Phases /\ w[2] <= Last(w[1]) /\ w[2] \in Nat /\ Last(w[1]) \in Nat
  BY <1>0, <1>1, KeyFacts, InGroup
<1>3. graph[w[1]].fan > 1
  <2>1. PICK j \in Group(w[1], w[2]) : j # w
    BY <1>1
  <2>2. /\ j \in DOMAIN rows /\ j[1] = w[1] /\ j[2] = w[2]
    BY <2>1, InGroup
  <2>3. ASSUME graph[w[1]].fan = 1 PROVE FALSE
    <3>1. j[3] = 0 /\ w[3] = 0
      BY <1>0, <2>2, <2>3 DEF Kinds
    <3>2. j = w
      BY <1>0, <2>2, <3>1, KeyFacts
    <3> QED
      BY <2>1, <3>2
  <2>4. graph[w[1]].fan \in Nat \ {0}
    BY <1>0, <1>2, GraphFacts
  <2> QED
    BY <2>3, <2>4
<1>4. St(w) = "done"
  BY <1>0, <1>1, <1>2, <1>3 DEF Kinds
<1>5. w[2] = Last(w[1])
  <2>1. ~ (w[2] < Last(w[1]))
    BY <1>0, <1>2, <1>4 DEF OldRows, Dead, Gone
  <2> QED
    BY <1>2, <2>1
<1>6. Won(w[1]) = {}
  <2>1. ~ Chosen(w[1])
    BY <1>1, <1>5 DEF Chosen
  <2> QED
    BY <1>0, <1>2, <1>3, <2>1, GraphFacts, NotChosenOpen
<1>7. \A k \in Group(w[1], w[2]) : St(k) # "running"
  BY <1>0, <1>1, InGroup DEF RunIsQuiet, Quiet
<1>8. SelectPre(w)
  BY <1>3, <1>6, <1>7 DEF SelectPre
<1>9. PICK i : i = Select(w, "person")
  OBVIOUS
<1>10. AskedFits(i) /\ AskedFresh(i)
  BY <1>8, <1>9 DEF AskedFits, AskedFresh, Select
<1> QED
  BY <1>1, <1>9, <1>10, AsksFront

LEMMA CommandsFront ==
  ASSUME ShapeInv, WalkInv, NEW h \in People,
         Approves(h) \/ Rejects(h) \/ Retries(h) \/ RetriesGroup(h) \/ Picks(h) \/ Resumes(h)
  PROVE  WalkInv'
<1>1. CASE Approves(h)
  <2>1. PICK k \in Asked : Asks(h, I("approve", k))
    BY <1>1 DEF Approves
  <2>2. AskedFits(I("approve", k)) /\ AskedFresh(I("approve", k))
    BY <2>1 DEF AskedFits, AskedFresh, I, Asked
  <2> QED
    BY <2>1, <2>2, AsksFront
<1>2. CASE Rejects(h)
  <2>1. PICK k \in Asked : Asks(h, Reject(k, "person"))
    BY <1>2 DEF Rejects
  <2>2. AskedFits(Reject(k, "person")) /\ AskedFresh(Reject(k, "person"))
    BY <2>1 DEF AskedFits, AskedFresh, Reject, Asked
  <2> QED
    BY <2>1, <2>2, AsksFront
<1>3. CASE Resumes(h)
  <2>1. Asks(h, I("resume", <<0, 0, 0>>))
    BY <1>3 DEF Resumes
  <2>2. AskedFits(I("resume", <<0, 0, 0>>)) /\ AskedFresh(I("resume", <<0, 0, 0>>))
    BY DEF AskedFits, AskedFresh, I
  <2> QED
    BY <2>1, <2>2, AsksFront
<1> QED
  BY <1>1, <1>2, <1>3, RetriesFront, RetriesGroupFront, PicksFront

\* A command whose turn comes finds the rows as it must: it is guarded, or nothing came before it.
LEMMA TakenPre ==
  ASSUME ShapeInv, RowsAt({}), NEW i, IsInstr(i), i.op \in AskedOps, AskedFits(i),
         Guarded(i) \/ AskedFresh(i)
  PROVE  Pre(i)
<1>1. RowsInv /\ graph \in Graphs /\ Placed({})
  BY DEF ShapeInv, Counters, RowsAt
<1>2. CASE i.op \in {"approve", "retry", "reject", "resume"}
  BY <1>2 DEF Pre, AskedFits
<1>3. CASE i.op = "select"
  <2>1. SelectPre(i.key)
    BY <1>3 DEF AskedFresh, Guarded
  <2> QED
    BY <1>3, <2>1 DEF Pre
<1>4. CASE i.op = "unpark"
  <2>1. i.then = "readmit" /\ i.key \in DOMAIN rows /\ FailedPre(i.key)
    BY <1>4 DEF AskedFits, AskedFresh, Guarded, IsInstr
  <2>2. PICK k \in DOMAIN rows : k = i.key
    BY <2>1
  <2>3. NoFlight /\ Front(k[1])
    BY <1>1, <2>1, <2>2, FailedIsFront
  <2>4. ReadmitPre(i.key)
    BY <2>1, <2>2, <2>3 DEF ReadmitPre, FailedPre, Front
  <2> QED
    BY <1>4, <2>1, <2>4 DEF Pre, UnparkPre
<1>5. CASE i.op = "retire"
  <2>1. PICK p : p = i.key[1]
    OBVIOUS
  <2>2. /\ graph[p].fan > 1 /\ i.key[2] = Last(p) /\ ~ Chosen(p) /\ i.then = "unpark"
        /\ i.keys = {k \in At(p) : k[2] = Last(p) /\ St(k) \notin Gone}
        /\ \A k \in i.keys : St(k) = i.was[k]
    BY <1>5, <2>1 DEF AskedFits, AskedFresh, Guarded
  <2>3. p \in Phases /\ Last(p) > 0
    <3>1. i.key \in Slots
      BY <1>5, <2>2 DEF IsInstr, KeysOps
    <3> QED
      BY <2>1, <2>2, <3>1 DEF Slots
  <2>4. Won(p) = {}
    BY <1>1, <2>2, <2>3, GraphFacts, NotChosenOpen
  <2>5. Reached(p)
    BY <1>1, <2>2, <2>3 DEF Placed, Beyond, Reached
  <2>6. \A k \in i.keys : k \in At(p) /\ k[1] = p /\ k[2] = Last(p) /\ St(k) \notin Gone
    BY <2>2 DEF At
  <2>7. ASSUME NEW k \in At(p), InFlight(k) PROVE k \in i.keys
    <3>1. k \in DOMAIN rows /\ k[1] = p
      BY DEF At
    <3>2. k[2] = Last(p)
      BY <1>1, <2>7, <3>1, InFlightIsFront DEF Placed
    <3> QED
      BY <2>2, <2>7, <3>2 DEF InFlight, Gone
  <2>8. ~ (graph[p].fan = 1)
    BY <2>2
  <2>9. RetirePre(i)
    BY <2>1, <2>2, <2>4, <2>5, <2>6, <2>7, <2>8 DEF RetirePre
  <2> QED
    BY <1>5, <2>9 DEF Pre
<1> QED
  BY <1>2, <1>3, <1>4, <1>5 DEF AskedOps

LEMMA TakesFront ==
  ASSUME ShapeInv, WalkInv, NEW h \in People, ~ late', Takes(h)
  PROVE  WalkInv'
<1>1. graph' = graph /\ rows' = rows /\ run' = run /\ todo = <<>>
  BY DEF Takes, rowVars
<1>2. RowsAt({})
  BY <1>1 DEF WalkInv, Retiring, Doing
<1>3. PICK i : i = asked[h][1]
  OBVIOUS
<1>4. asked[h] = <<i>> /\ IsInstr(i) /\ i.op \in AskedOps /\ AskedFits(i) /\ (h \notin old => AskedFresh(i))
  BY <1>3 DEF Takes, ShapeInv, AskedInv, WalkInv
<1>5. Guarded(i) \/ AskedFresh(i)
  <2>1. Head(asked[h]) = i
    BY <1>4
  <2> QED
    BY <1>4, <2>1 DEF Takes
<1>6. Pre(i)'
  BY <1>1, <1>2, <1>4, <1>5, TakenPre, PreSame
<1>7. PICK t : t = IF tails = "walk" THEN <<Pass>> ELSE <<>>
  OBVIOUS
<1>8. IsBack(t) /\ todo' = <<i>> \o t
  BY <1>4, <1>7 DEF IsBack, Takes
<1>9. todo' # <<>> /\ Head(todo') = i /\ Tail(todo') = t
  BY <1>8, BackIsSeq
<1>10. RowsAt(Retiring)'
  <2>1. Retiring' = {}
    <3>1. CASE i.op = "retire"
      <4>1. graph[i.key[1]].fan > 1
        BY <1>5, <3>1 DEF AskedFresh, Guarded
      <4>2. ~ (graph[i.key[1]].fan = 1)
        BY <4>1
      <4> QED
        BY <1>1, <1>9, <4>2 DEF Retiring, Now
    <3>2. CASE i.op # "retire"
      BY <1>9, <3>2 DEF Retiring, Doing
    <3> QED
      BY <3>1, <3>2
  <2>2. RowsAt({})'
    BY <1>1, <1>2, RowsSame, SameRows
  <2> QED
    BY <2>1, <2>2 DEF RowsAt, Placed, Beyond
<1>11. NoLandBehind'
  <2> SUFFICES ASSUME NEW K, t = LandRest(K)' PROVE FALSE
    BY <1>9 DEF NoLandBehind
  <2>1. t = <<[op |-> "land", keys |-> K], Rederive, Pass>>
    BY DEF LandRest, Rederive, Pass, I
  <2>2. Len(t) = 3
    BY <2>1
  <2>3. t = <<Pass>> => Len(t) = 1
    OBVIOUS
  <2>4. t = <<>> => Len(t) = 0
    OBVIOUS
  <2>5. t = <<Pass>> \/ t = <<>>
    BY <1>7
  <2> QED
    BY <2>2, <2>3, <2>4, <2>5
<1>12. \A g \in People : asked'[g] # <<>> =>
         AskedFits(asked[g][1])' /\ (g \notin old' => AskedFresh(asked[g][1])')
  <2>1. PICK f : f = asked'
    OBVIOUS
  <2>2. \A g \in People : f[g] = IF g = h THEN <<>> ELSE asked[g]
    BY <2>1 DEF Takes, ShapeInv, AskedInv
  <2>3. ASSUME NEW g \in People, f[g] # <<>>
        PROVE  AskedFits(f[g][1])' /\ (g \notin old' => AskedFresh(f[g][1])')
    <3>1. PICK j : j = f[g][1]
      OBVIOUS
    <3>2. g # h /\ asked[g] # <<>> /\ j = asked[g][1]
      BY <2>2, <2>3, <3>1
    <3>3. AskedFits(j) /\ (g \notin old' => AskedFresh(j))
      BY <3>2 DEF WalkInv, Takes
    <3> QED
      BY <1>1, <3>1, <3>3, AskedSame
  <2> QED
    BY <2>1, <2>3
<1> QED
  BY <1>6, <1>9, <1>10, <1>11, <1>12 DEF WalkInv

-----------------------------------------------------------------------------
(* The theorems.                                                            *)

LEMMA FrontInit ==
  ASSUME Init
  PROVE  FrontInv
<1>1. DOMAIN rows = {} /\ todo = <<>> /\ run = "running" /\ (\A h \in People : asked[h] = <<>>)
  BY DEF Init
<1>2. \A p : At(p) = {} /\ \A a : Group(p, a) = {}
  BY <1>1 DEF At, Group
<1>3. \A p : Last(p) = 0
  <2> SUFFICES ASSUME NEW p PROVE Last(p) = 0
    OBVIOUS
  <2>1. {0} \cup {k[2] : k \in At(p)} = {0}
    BY <1>2
  <2>2. {0} \in SUBSET Nat /\ {0} # {} /\ IsFiniteSet({0})
    BY FS_Singleton
  <2>3. Max({0}) \in {0}
    BY <2>2, MaxIsGreatest
  <2> QED
    BY <2>1, <2>3 DEF Last
<1>4. Retiring = {}
  BY <1>1 DEF Retiring, Doing
<1>5. Placed({})
  BY <1>1, <1>2, <1>3 DEF Placed, OldRows, Beyond, WonIsIdle, Kinds, Judged, SelectedIsDone
<1>6. RunIsQuiet
  BY <1>1 DEF RunIsQuiet, TerminalRun
<1> QED
  BY <1>1, <1>4, <1>5, <1>6 DEF FrontInv, WalkInv, RowsAt, NoLandBehind

LEMMA FrontNext ==
  ASSUME ShapeInv, FrontInv, [Next]_vars
  PROVE  FrontInv'
<1> SUFFICES ASSUME ~ late', ~ torn' PROVE WalkInv'
  BY DEF FrontInv
<1>1. CASE Walks
  BY <1>1, WalksFront DEF FrontInv, Walks
<1>2. CASE Sweeps
  BY <1>2, SweepsFront DEF FrontInv, Sweeps, history
<1>3. CASE Unblocks
  BY <1>3, StillFront DEF FrontInv, Unblocks, history
<1>4. CASE RequestsCancel
  BY <1>4, StillFront DEF FrontInv, RequestsCancel, rowVars, history
<1>5. CASE TakesCancel \/ Drops
  BY <1>5, StopsFront DEF FrontInv, TakesCancel, Drops, Tears
<1>6. ASSUME NEW h \in People, Takes(h) PROVE WalkInv'
  BY <1>6, TakesFront DEF FrontInv, Takes
<1>7. ASSUME NEW h \in People,
             Approves(h) \/ Rejects(h) \/ Retries(h) \/ RetriesGroup(h) \/ Picks(h) \/ Resumes(h)
      PROVE  WalkInv'
  <2>1. PICK i : Asks(h, i)
    BY <1>7 DEF Approves, Rejects, Retries, RetriesGroup, Picks, Resumes
  <2> QED
    BY <1>7, <2>1, CommandsFront DEF FrontInv, Asks, history
<1>8. CASE UNCHANGED vars
  BY <1>8, StillFront DEF FrontInv, vars, rowVars, history
<1> QED
  BY <1>1, <1>2, <1>3, <1>4, <1>5, <1>6, <1>7, <1>8 DEF Next, Commands

\* The rows are always as a walk that was neither overtaken nor torn leaves them, and what comes
\* next always finds them as it must, whoever takes the lease and wherever a walk was dropped:
\* the inductive invariant of the walk (engine.rs, run_to_rest; recover.rs; command.rs).
THEOREM FrontHolds == Spec => []FrontInv
<1>1. Init => FrontInv
  BY FrontInit
<1>2. ShapeInv /\ FrontInv /\ [Next]_vars => FrontInv'
  BY FrontNext
<1> QED
  BY <1>1, <1>2, ShapeHolds, PTL DEF Spec

\* The rows in flight belong to one attempt of one phase, for any graph, fan-out and number of
\* attempts, people, crashes and commands (gate.rs, retire_slot; engine.rs, run_to_rest).
THEOREM OneFrontHolds == Spec => []OneFront
<1>1. ShapeInv /\ FrontInv => OneFront
  <2> SUFFICES ASSUME ShapeInv, FrontInv, ~ late, ~ torn,
                      NEW j \in DOMAIN rows, NEW k \in DOMAIN rows, InFlight(j), InFlight(k)
               PROVE  j[1] = k[1] /\ j[2] = k[2]
    BY DEF OneFront
  <2>1. RowsAt(Retiring) /\ RowsInv /\ graph \in Graphs /\ (todo # <<>> => Pre(Now))
    BY DEF FrontInv, WalkInv, ShapeInv, Counters, Now
  <2>2. CASE Retiring = {}
    BY <2>1, <2>2, InFlightIsFront, OneFrontOnly, KeyFacts DEF RowsAt, Placed
  <2>3. CASE Retiring # {}
    <3>1. Doing("retire") /\ graph[Now.key[1]].fan = 1
      BY <2>3 DEF Retiring
    <3>2. NoFlight
      BY <2>1, <3>1 DEF Pre, RetirePre, Doing, Now
    <3> QED
      BY <3>2 DEF NoFlight
  <2> QED
    BY <2>2, <2>3
<1> QED
  BY <1>1, ShapeHolds, FrontHolds, PTL

\* A run that ended has no step that runs or awaits an answer, wherever its walks were cut short
\* and whoever ended it: the walk, a refusal, a failure or a cancel (engine.rs, cancel_leased).
THEOREM EndedIsSettledHolds == Spec => []EndedIsSettled
<1>1. FrontInv => EndedIsSettled
  BY DEF FrontInv, WalkInv, RowsAt, RunIsQuiet, Idle, EndedIsSettled
<1> QED
  BY <1>1, FrontHolds, PTL
=============================================================================
