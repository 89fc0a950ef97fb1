--------------------------- MODULE StepWalkProofs ---------------------------
(***************************************************************************)
(* Theorems about StepWalk, for every set of graphs that GraphsAssumption  *)
(* allows, any number of people and any bounds: what rows and instructions *)
(* are made of, whatever was overtaken or cut short, and one winner a      *)
(* group. StepFrontProofs goes on from here.                               *)
(***************************************************************************)
EXTENDS StepWalk, FiniteSetTheorems, NaturalsInduction, WellFoundedInduction, SequenceTheorems, TLAPS

-----------------------------------------------------------------------------
(* Least and greatest numbers: what Min and Max choose.                     *)

Less == {s \in Nat \X Nat : s[1] < s[2]}

LEMMA LessWellFounded == IsWellFoundedOn(Less, Nat)
BY NatLessThanWellFounded DEF OpToRel, Less

LEMMA LeastExists ==
  ASSUME NEW S \in SUBSET Nat, S # {}
  PROVE  \E x \in S : \A y \in S : x <= y
<1>1. PICK x \in S : \A y \in S : <<y, x>> \notin Less
  BY LessWellFounded, WFMin
<1>2. ASSUME NEW y \in S PROVE x <= y
  <2>1. <<y, x>> \in Nat \X Nat
    OBVIOUS
  <2>2. ~ (y < x)
    BY <1>1, <2>1 DEF Less
  <2> QED
    BY <2>2
<1> QED
  BY <1>2

LEMMA GreatestExists ==
  ASSUME NEW S \in SUBSET Nat, S # {}, NEW b \in Nat, \A y \in S : y <= b
  PROVE  \E x \in S : \A y \in S : x >= y
<1> DEFINE U == {n \in Nat : \A y \in S : y <= n}
<1>1. U \in SUBSET Nat /\ U # {}
  OBVIOUS
<1>2. PICK u \in U : \A n \in U : u <= n
  BY <1>1, LeastExists
<1>3. u \in S
  <2> SUFFICES ASSUME u \notin S PROVE FALSE
    OBVIOUS
  <2>1. PICK x \in S : TRUE
    OBVIOUS
  <2>2. \A y \in S : y < u
    BY <1>2
  <2>3. u - 1 \in U
    BY <2>1, <2>2, <1>2
  <2> QED
    BY <2>3, <1>2
<1> QED
  BY <1>2, <1>3

\* A finite set of numbers is bounded: a smallest set that is not would have a smaller one.
LEMMA FiniteIsBounded ==
  ASSUME NEW S \in SUBSET Nat, IsFiniteSet(S)
  PROVE  \E b \in Nat : \A y \in S : y <= b
<1> DEFINE Bounded(T) == \E b \in Nat : \A y \in T : y <= b
           B == {n \in Nat : \E T \in SUBSET Nat : IsFiniteSet(T) /\ Cardinality(T) = n /\ ~ Bounded(T)}
<1>1. B = {}
  <2> SUFFICES ASSUME B # {} PROVE FALSE
    OBVIOUS
  <2>1. PICK n \in B : \A m \in B : n <= m
    <3>1. B \in SUBSET Nat
      OBVIOUS
    <3> HIDE DEF B
    <3> QED
      BY <3>1, LeastExists
  <2>2. PICK T \in SUBSET Nat : IsFiniteSet(T) /\ Cardinality(T) = n /\ ~ Bounded(T)
    BY <2>1
  <2>3. PICK x \in T : TRUE
    BY <2>2
  <2>4. IsFiniteSet(T \ {x}) /\ Cardinality(T \ {x}) = n - 1 /\ Cardinality(T \ {x}) \in Nat
    BY <2>2, <2>3, FS_RemoveElement, FS_CardinalityType
  <2>5. Bounded(T \ {x})
    <3>1. n - 1 \in Nat /\ n \in Nat /\ T \ {x} \in SUBSET Nat
      BY <2>4
    <3>2. n - 1 \notin B
      <4> HIDE DEF B
      <4> QED
        BY <2>1, <3>1
    <3> QED
      BY <2>4, <3>1, <3>2
  <2>6. PICK b \in Nat : \A y \in T \ {x} : y <= b
    BY <2>5
  <2>7. \A y \in T : y <= b + x
    BY <2>6, <2>3
  <2>8. b + x \in Nat
    BY <2>6, <2>3
  <2> QED
    BY <2>2, <2>7, <2>8
<1>2. Cardinality(S) \in Nat
  BY FS_CardinalityType
<1> QED
  BY <1>1, <1>2

LEMMA MaxIsGreatest ==
  ASSUME NEW S \in SUBSET Nat, S # {}, IsFiniteSet(S)
  PROVE  Max(S) \in S /\ \A y \in S : y <= Max(S)
<1>1. PICK b \in Nat : \A y \in S : y <= b
  BY FiniteIsBounded
<1>2. \E x \in S : \A y \in S : x >= y
  BY <1>1, GreatestExists
<1>3. Max(S) \in S /\ \A y \in S : Max(S) >= y
  BY <1>2 DEF Max
<1> QED
  BY <1>3

LEMMA MinIsLeast ==
  ASSUME NEW S \in SUBSET Nat, S # {}
  PROVE  Min(S) \in S /\ \A y \in S : Min(S) <= y
<1>1. \E x \in S : \A y \in S : x <= y
  BY LeastExists
<1> QED
  BY <1>1 DEF Min

-----------------------------------------------------------------------------
(* What the rows and the instructions are made of.                          *)

Keys  == {k \in Phases \X (Nat \ {0}) \X Int : k[3] \in -1..graph[k[1]].fan - 1}
Slots == {k \in Phases \X (Nat \ {0}) \X Int : k[3] = 0}

Rederive == I("rederive", <<0, 0, 0>>)

LandRest(S) == <<[op |-> "land", keys |-> S], Rederive, Pass>>

\* What a walk goes back to when an instruction is over.
IsBack(t) ==
  \/ t = <<>> \/ t = <<Pass>> \/ t = <<Rederive, Pass>>
  \/ \E S \in SUBSET DOMAIN rows : t = LandRest(S)

RowOps == {"start", "session", "accept", "spend", "merge", "loop", "rejection", "readmit", "judge", "reset",
           "approve", "gate", "fail", "park", "reject", "select", "retry"}
SlotOps == {"admit", "fan", "choose", "group"}
KeysOps == {"retire", "refuse", "cancels"}
OtherOps == {"recover", "settle", "cancel", "resume", "finish", "block", "park_run", "create", "unpark"}

IsInstr(i) ==
  /\ i.op \in RowOps \cup SlotOps \cup KeysOps \cup OtherOps
  /\ i.op \in RowOps => i.key \in DOMAIN rows
  /\ i.op \in SlotOps => i.key \in Slots
  /\ i.op \in KeysOps => i.keys \subseteq DOMAIN rows
  /\ i.op = "group" =>
       /\ i = [op |-> "group", key |-> i.key, wait |-> i.wait, live |-> i.live]
       /\ i.wait \subseteq DOMAIN rows /\ i.live \subseteq DOMAIN rows
  /\ i.op = "judge" => i.key[3] < 0
  /\ i.op = "select" => i.key[3] >= 0 /\ (i.by = "judge" => JudgeOf(i.key[1], i.key[2]) \in DOMAIN rows)
  /\ i.op = "refuse" => i = Refuse(i.keys, i.block)
  /\ i.op = "cancels" => i = [op |-> "cancels", keys |-> i.keys]
  /\ i.op = "retire" =>
       /\ i = [op |-> "retire", key |-> i.key, keys |-> i.keys, was |-> i.was, then |-> i.then]
       /\ \/ i.then = "none" /\ i.key \in DOMAIN rows \cup Slots
          \/ i.then = "unpark" /\ i.key \in Slots
  /\ i.op \in {"unpark", "retry"} =>
       \/ i.then \in {"merge", "rejection", "readmit"} /\ i.key \in DOMAIN rows
       \/ i.then = "admit" /\ i.key \in Slots
       \/ i.then = "settle"
  /\ i.op = "create" =>
       /\ i = Create(i.keys, i.key, i.then)
       /\ i.keys \subseteq Keys
       /\ \/ i.then = "none" /\ i.key \in Slots
          \/ i.then = "fan" /\ i.key \in Slots
          \/ i.then = "start" /\ (i.key \in DOMAIN rows \/ i.key \in i.keys)
  /\ i.op = "finish" => i.to \in {"done", "failed", "cancelled"}

AskedOps == {"approve", "reject", "retry", "unpark", "retire", "select", "resume"}

RowsInv ==
  /\ IsFiniteSet(DOMAIN rows) /\ DOMAIN rows \subseteq Keys
  /\ rows \in [DOMAIN rows -> Rows]

TodoInv ==
  \/ IsBack(todo)
  \/ /\ todo # <<>> /\ IsInstr(Head(todo)) /\ IsBack(Tail(todo))
     /\ Head(todo).op = "recover" => Tail(todo) = <<Rederive, Pass>>

AskedInv ==
  /\ asked = [h \in People |-> asked[h]]
  /\ \A h \in People : asked[h] # <<>> =>
       /\ asked[h] = <<asked[h][1]>>
       /\ asked[h][1].op \in AskedOps /\ IsInstr(asked[h][1])

\* The rest of the state, by its kind.
Counters ==
  /\ graph \in Graphs /\ tails \in Tails /\ run \in RunStatuses \ {"queued", "stopped"} /\ blocked \in BOOLEAN
  /\ cancel \in {"none", "asked", "taken"} /\ events \in 0..MaxEvents /\ drops \in 0..MaxDrops
  /\ old \subseteq People /\ late \in BOOLEAN /\ torn \in BOOLEAN /\ blind \in BOOLEAN

ShapeInv ==
  /\ Counters /\ RowsInv /\ TodoInv /\ AskedInv
  /\ run \in TerminalRun => todo = <<>>

\* Only a candidate is selected, and no other of its attempt.
SelectedInv ==
  /\ OneWinner
  /\ \A k \in DOMAIN rows : rows[k].sel => k[3] >= 0

-----------------------------------------------------------------------------
(* The instructions and what they go back to.                               *)

LEMMA ConsFacts ==
  ASSUME NEW S, NEW t \in Seq(S), NEW x \in S
  PROVE  <<x>> \o t # <<>> /\ Head(<<x>> \o t) = x /\ Tail(<<x>> \o t) = t /\ <<x>> \o t \in Seq(S)
<1>1. <<x>> \in Seq(S) /\ Len(<<x>>) = 1
  OBVIOUS
<1>2. /\ <<x>> \o t \in Seq(S) /\ Len(<<x>> \o t) = 1 + Len(t)
      /\ \A i \in 1..1 + Len(t) : (<<x>> \o t)[i] = IF i <= 1 THEN <<x>>[i] ELSE t[i - 1]
  BY <1>1, ConcatProperties
<1>3. Len(t) \in Nat
  BY LenProperties
<1>4. <<x>> \o t # <<>>
  BY <1>2, <1>3, EmptySeq
<1>5. (<<x>> \o t)[1] = x
  BY <1>2, <1>3
<1>6. Head(<<x>> \o t) = x
  BY <1>2, <1>4, <1>5
<1>7. /\ Tail(<<x>> \o t) \in Seq(S) /\ Len(Tail(<<x>> \o t)) = Len(t)
      /\ \A i \in 1..Len(t) : Tail(<<x>> \o t)[i] = (<<x>> \o t)[i + 1]
  BY <1>2, <1>3, <1>4, HeadTailProperties
<1>8. \A i \in 1..Len(t) : Tail(<<x>> \o t)[i] = t[i]
  BY <1>2, <1>3, <1>7
<1>9. Tail(<<x>> \o t) = t
  BY <1>7, <1>8, SeqEqual
<1> QED
  BY <1>2, <1>4, <1>6, <1>9

LEMMA BackIsSeq ==
  ASSUME NEW t, IsBack(t), NEW i
  PROVE  <<i>> \o t # <<>> /\ Head(<<i>> \o t) = i /\ Tail(<<i>> \o t) = t
<1> DEFINE S == {i, Rederive, Pass} \cup {[op |-> "land", keys |-> K] : K \in SUBSET DOMAIN rows}
<1>1. Rederive \in S /\ Pass \in S /\ i \in S /\ \A K \in SUBSET DOMAIN rows : [op |-> "land", keys |-> K] \in S
  OBVIOUS
<1> HIDE DEF S
<1>2. t \in Seq(S)
  <2>1. <<>> \in Seq(S) /\ <<Pass>> \in Seq(S) /\ <<Rederive, Pass>> \in Seq(S)
    BY <1>1
  <2>2. ASSUME NEW K \in SUBSET DOMAIN rows PROVE LandRest(K) \in Seq(S)
    BY <1>1 DEF LandRest
  <2> QED
    BY <2>1, <2>2 DEF IsBack
<1> QED
  BY <1>1, <1>2, ConsFacts

\* What is left of a way back is one.
LEMMA BackTails ==
  ASSUME NEW t, IsBack(t), t # <<>>
  PROVE  /\ IsBack(Tail(t))
         /\ Head(t).op \in {"pass", "rederive", "land"}
         /\ Head(t).op = "pass" => t = <<Pass>>
         /\ Head(t).op = "rederive" => t = <<Rederive, Pass>>
         /\ Head(t).op = "land" => \E K \in SUBSET DOMAIN rows :
              Head(t) = [op |-> "land", keys |-> K] /\ Tail(t) = <<Rederive, Pass>>
<1>1. CASE t = <<Pass>>
  <2>1. Head(t) = Pass /\ Tail(t) = <<>>
    BY <1>1
  <2> QED
    BY <1>1, <2>1 DEF IsBack, Pass, I
<1>2. CASE t = <<Rederive, Pass>>
  <2>1. Head(t) = Rederive /\ Tail(t) = <<Pass>>
    BY <1>2
  <2> QED
    BY <1>2, <2>1 DEF IsBack, Rederive, I
<1>3. ASSUME NEW K \in SUBSET DOMAIN rows, t = LandRest(K)
      PROVE  Head(t) = [op |-> "land", keys |-> K] /\ Tail(t) = <<Rederive, Pass>>
  BY <1>3 DEF LandRest
<1>4. CASE \E K \in SUBSET DOMAIN rows : t = LandRest(K)
  BY <1>3, <1>4 DEF IsBack
<1> QED
  BY <1>1, <1>2, <1>4 DEF IsBack

LEMMA HeadFacts ==
  ASSUME TodoInv, todo # <<>>, Head(todo).op \notin {"pass", "rederive", "land"}
  PROVE  /\ IsInstr(Head(todo)) /\ IsBack(Tail(todo))
         /\ Head(todo).op = "recover" => Tail(todo) = <<Rederive, Pass>>
BY BackTails DEF TodoInv

LEMMA TailFacts ==
  ASSUME TodoInv, todo # <<>>
  PROVE  IsBack(Tail(todo))
BY BackTails DEF TodoInv

\* More rows take nothing away from an instruction, nor from what it goes back to.
LEMMA InstrGrows ==
  ASSUME NEW i, IsInstr(i), graph' = graph, DOMAIN rows \subseteq DOMAIN rows'
  PROVE  IsInstr(i)'
<1>1. Keys' = Keys /\ Slots' = Slots
  BY DEF Keys, Slots, Phases
<1>2. i.op \in KeysOps => i.keys \subseteq DOMAIN rows'
  BY DEF IsInstr
<1>3. i.op = "create" /\ i.then = "start" => (i.key \in DOMAIN rows' \/ i.key \in i.keys)
  BY DEF IsInstr
<1> QED
  BY <1>1, <1>2, <1>3 DEF IsInstr

LEMMA BackGrows ==
  ASSUME NEW t, IsBack(t), DOMAIN rows \subseteq DOMAIN rows'
  PROVE  IsBack(t)'
<1>1. ASSUME NEW K \in SUBSET DOMAIN rows PROVE K \in SUBSET DOMAIN rows'
  OBVIOUS
<1> QED
  BY <1>1 DEF IsBack, LandRest, Rederive, Pass, I

-----------------------------------------------------------------------------
(* What one step of the walk keeps.                                         *)

Kept ==
  /\ graph' = graph /\ tails' = tails /\ blocked' \in BOOLEAN
  /\ DOMAIN rows \subseteq DOMAIN rows' /\ RowsInv' /\ TodoInv'
  /\ run' \in RunStatuses \ {"queued", "stopped"}
  /\ run' \in TerminalRun => todo' = <<>>

\* What may come next: a recovery is where a sweep starts.
IsNext(i) == IsInstr(i) /\ i.op # "recover"

LEMMA ThenGrows ==
  ASSUME TodoInv, todo # <<>>, DOMAIN rows \subseteq DOMAIN rows',
         NEW i, IsInstr(i)', i.op # "recover", Then(i)
  PROVE  TodoInv'
<1>1. PICK t : t = Tail(todo)
  OBVIOUS
<1>2. IsBack(t)
  BY <1>1, TailFacts
<1>3. IsBack(t)'
  BY <1>2, BackGrows
<1>4. todo' # <<>> /\ Head(todo') = i /\ Tail(todo') = t
  BY <1>1, <1>2, BackIsSeq DEF Then
<1> QED
  BY <1>3, <1>4 DEF TodoInv

LEMMA ThenKeeps ==
  ASSUME TodoInv, todo # <<>>, graph' = graph, DOMAIN rows \subseteq DOMAIN rows',
         NEW i, IsNext(i), Then(i)
  PROVE  TodoInv'
<1>1. PICK j : j = i
  OBVIOUS
<1>2. IsInstr(j)' /\ j.op # "recover"
  BY <1>1, InstrGrows DEF IsNext
<1> QED
  BY <1>1, <1>2, ThenGrows

LEMMA OverKeeps ==
  ASSUME TodoInv, todo # <<>>, DOMAIN rows \subseteq DOMAIN rows', Over
  PROVE  TodoInv'
<1>1. PICK t : t = Tail(todo)
  OBVIOUS
<1> QED
  BY <1>1, TailFacts, BackGrows DEF TodoInv, Over

LEMMA EndsKeeps ==
  ASSUME Ends
  PROVE  TodoInv'
BY DEF Ends, TodoInv, IsBack

LEMMA DecidesKeeps ==
  ASSUME ShapeInv, todo # <<>>, Decides, TodoInv'
  PROVE  Kept
BY DEF ShapeInv, Counters, Decides, rowVars, Kept, RowsInv, Keys, Phases, RunStatuses

LEMMA WritesKeep ==
  ASSUME ShapeInv, todo # <<>>, WritesRows, RowsInv', DOMAIN rows \subseteq DOMAIN rows', TodoInv'
  PROVE  Kept
BY DEF ShapeInv, Counters, WritesRows, Kept, RunStatuses

LEMMA RowFields ==
  ASSUME RowsInv, NEW k \in DOMAIN rows
  PROVE  /\ k \in Keys /\ rows[k] \in Rows
         /\ \A st \in StepStatuses : To(k, st) \in Rows /\ To(k, st).st = st
BY DEF RowsInv, Rows, To

LEMMA RowWritten ==
  ASSUME RowsInv, graph' = graph, NEW k \in DOMAIN rows, NEW row \in Rows, rows' = [rows EXCEPT ![k] = row]
  PROVE  RowsInv' /\ DOMAIN rows' = DOMAIN rows
<1>1. DOMAIN rows' = DOMAIN rows
  OBVIOUS
<1>2. rows' \in [DOMAIN rows' -> Rows]
  BY <1>1 DEF RowsInv
<1> QED
  BY <1>1, <1>2 DEF RowsInv, Keys, Phases

LEMMA MovesKeep ==
  ASSUME ShapeInv, todo # <<>>, NEW k \in DOMAIN rows, NEW from, NEW row \in Rows,
         NEW next, IsNext(next), Moves(k, from, row, next)
  PROVE  Kept /\ DOMAIN rows' = DOMAIN rows
<1>1. RowsInv' /\ DOMAIN rows' = DOMAIN rows
  <2>1. CASE rows' = rows
    BY <2>1 DEF ShapeInv, Moves, WritesRows, RowsInv, Keys, Phases
  <2>2. CASE rows' = [rows EXCEPT ![k] = row]
    BY <2>2, RowWritten DEF ShapeInv, Moves, WritesRows
  <2> QED
    BY <2>1, <2>2 DEF Moves
<1>2. TodoInv'
  BY <1>1, ThenKeeps, EndsKeeps DEF Moves, WritesRows, ShapeInv
<1> QED
  BY <1>1, <1>2, WritesKeep DEF Moves

LEMMA DecideThen ==
  ASSUME ShapeInv, todo # <<>>, Decides, NEW i, IsNext(i), Then(i)
  PROVE  Kept
BY ThenKeeps, DecidesKeeps DEF ShapeInv, Decides, rowVars

LEMMA DecideOver ==
  ASSUME ShapeInv, todo # <<>>, Decides, Over \/ Ends
  PROVE  Kept
BY OverKeeps, EndsKeeps, DecidesKeeps DEF ShapeInv, Decides, rowVars

LEMMA RowKeeps ==
  ASSUME ShapeInv, todo # <<>>, WritesRows, NEW k \in DOMAIN rows, NEW row \in Rows,
         rows' = [rows EXCEPT ![k] = row] \/ rows' = rows,
         Over \/ Ends \/ \E i : IsNext(i) /\ Then(i)
  PROVE  Kept
<1>1. RowsInv' /\ DOMAIN rows' = DOMAIN rows
  <2>1. CASE rows' = rows
    BY <2>1 DEF ShapeInv, WritesRows, RowsInv, Keys, Phases
  <2>2. CASE rows' = [rows EXCEPT ![k] = row]
    BY <2>2, RowWritten DEF ShapeInv, WritesRows
  <2> QED
    BY <2>1, <2>2
<1>2. TodoInv'
  BY <1>1, ThenKeeps, OverKeeps, EndsKeeps DEF WritesRows, ShapeInv
<1> QED
  BY <1>1, <1>2, WritesKeep

-----------------------------------------------------------------------------
(* Where the walk is.                                                       *)

LEMMA GraphFacts ==
  ASSUME graph \in Graphs
  PROVE  /\ Phases \in SUBSET (Nat \ {0})
         /\ \A p \in Phases :
              /\ graph[p].fan \in Nat \ {0} /\ graph[p].limit \in Nat /\ graph[p].gate \in Gates
              /\ graph[p].name = "review" => graph[p].fan = 1
<1> DEFINE S == [name : STRING, gate : Gates, fan : Nat \ {0}, judge : BOOLEAN, limit : Nat]
<1>1. graph \in Seq(S) /\ \A p \in DOMAIN graph : graph[p].name = "review" => graph[p].fan = 1
  BY GraphsAssumption
<1>2. Len(graph) \in Nat /\ DOMAIN graph = 1..Len(graph) /\ graph \in [1..Len(graph) -> S]
  <2> HIDE DEF S
  <2> QED
    BY <1>1, LenProperties
<1>3. \A p \in Phases : graph[p] \in S
  BY <1>2 DEF Phases
<1> QED
  BY <1>1, <1>2, <1>3 DEF Phases

\* The latest attempt is the greatest number an attempt has.
LEMMA LastFacts ==
  ASSUME RowsInv, NEW p
  PROVE  /\ Last(p) \in Nat
         /\ \A k \in At(p) : k \in DOMAIN rows /\ k[2] \in Nat \ {0} /\ k[2] <= Last(p)
         /\ Last(p) = 0 \/ \E k \in At(p) : k[2] = Last(p)
<1> DEFINE T == {k[2] : k \in At(p)}
           f == [k \in At(p) |-> k[2]]
<1>1. At(p) \in SUBSET DOMAIN rows /\ \A k \in At(p) : k[2] \in Nat \ {0}
  BY DEF At, RowsInv, Keys
<1>2. f \in Surjection(At(p), T)
  BY DEF Surjection
<1>3. IsFiniteSet(At(p))
  BY <1>1, FS_Subset DEF RowsInv
<1>4. IsFiniteSet(T)
  <2> HIDE DEF f, T
  <2> QED
    BY <1>2, <1>3, FS_Surjection
<1>5. IsFiniteSet({0} \cup T)
  BY <1>4, FS_Singleton, FS_Union
<1>6. {0} \cup T \in SUBSET Nat
  BY <1>1
<1>7. Last(p) \in {0} \cup T /\ \A n \in {0} \cup T : n <= Last(p)
  <2> HIDE DEF f
  <2> QED
    BY <1>5, <1>6, MaxIsGreatest DEF Last
<1> QED
  BY <1>1, <1>6, <1>7

\* The first position nobody won, and what there is to do there.
LEMMA CursorFacts ==
  ASSUME RowsInv, graph \in Graphs
  PROVE  LET open == {p \in Phases : Won(p) = {}}
             p == Cursor.key[1]
             a == Last(p)
             S == {k \in At(p) : k[2] = a}
         IN  \/ Cursor = I("done", <<0, 0, 0>>) /\ open = {}
             \/ /\ Cursor.op # "done"
                /\ p \in open /\ \A q \in open : p <= q
                /\ \/ Cursor = Admit(p, a + 1) /\ \A j \in Group(p, a) : St(j) \in Gone
                   \/ /\ graph[p].fan = 1 /\ <<p, a, 0>> \in DOMAIN rows /\ a # 0
                      /\ Cursor = I(IF St(<<p, a, 0>>) = "pending" THEN "start" ELSE "rest", <<p, a, 0>>)
                   \/ /\ graph[p].fan > 1 /\ Cursor.op = "rest" /\ Cursor.key \in S
                      /\ St(Cursor.key) = "running" /\ Cursor = I("rest", Cursor.key)
                   \/ /\ graph[p].fan > 1 /\ a # 0 /\ \A j \in S : St(j) # "running"
                      /\ Cursor = I("choose", <<p, a, 0>>)
                      /\ Slot(p, a) \subseteq DOMAIN rows /\ \A j \in Group(p, a) : St(j) # "pending"
                   \/ /\ graph[p].fan > 1 /\ a # 0 /\ \A j \in S : St(j) # "running"
                      /\ Cursor = I("fan", <<p, a, 0>>)
                      /\ ~ (Slot(p, a) \subseteq DOMAIN rows /\ \A j \in Group(p, a) : St(j) # "pending")
<1> DEFINE open == {p \in Phases : Won(p) = {}}
<1>1. CASE open = {}
  BY <1>1 DEF Cursor
<1>2. CASE open # {}
  <2> DEFINE p == Min(open)
  <2>1. p \in open /\ p \in Phases /\ \A q \in open : p <= q
    <3>1. open \in SUBSET Nat
      BY GraphFacts
    <3> HIDE DEF open
    <3>2. p \in open /\ \A q \in open : p <= q
      BY <1>2, <3>1, MinIsLeast
    <3> QED
      BY <3>2 DEF open
  <2> DEFINE a == Last(p)
             group == Group(p, a)
             live == {j \in group \cup ({JudgeOf(p, a)} \cap DOMAIN rows) : St(j) = "running"}
  <2>2. a \in Nat /\ graph[p].fan \in Nat \ {0}
    BY <2>1, LastFacts, GraphFacts
  <2>3. Cursor =
        IF \A j \in group : St(j) \in Gone THEN Admit(p, a + 1)
        ELSE IF graph[p].fan = 1 THEN I(IF St(<<p, a, 0>>) = "pending" THEN "start" ELSE "rest", <<p, a, 0>>)
        ELSE IF live # {} THEN I("rest", CHOOSE j \in live : TRUE)
        ELSE IF Slot(p, a) \subseteq DOMAIN rows /\ \A j \in group : St(j) # "pending" THEN I("choose", <<p, a, 0>>)
        ELSE I("fan", <<p, a, 0>>)
    BY <1>2 DEF Cursor
  <2> HIDE DEF p
  <2>4. /\ \A j \in group : j \in DOMAIN rows /\ j[2] = a /\ a # 0 /\ j[3] \in 0..graph[p].fan - 1
        /\ \A j \in group : j = <<p, a, j[3]>>
        /\ \A j \in DOMAIN rows : j[1] = p /\ j[2] = a => j \in group \/ j = JudgeOf(p, a)
    <3>1. \A j \in DOMAIN rows : j = <<j[1], j[2], j[3]>> /\ j[2] \in Nat \ {0} /\ j[3] \in -1..graph[j[1]].fan - 1
      BY DEF RowsInv, Keys
    <3> QED
      BY <2>2, <3>1 DEF Group, At, JudgeOf
  <2>5. CASE \A j \in group : St(j) \in Gone
    <3>1. Cursor = Admit(p, a + 1)
      BY <2>3, <2>5
    <3>2. Cursor.op = "admit" /\ Cursor.key[1] = p
      BY <3>1 DEF Admit, I
    <3> QED
      BY <1>2, <2>1, <2>5, <3>1, <3>2
  <2>6. CASE ~ (\A j \in group : St(j) \in Gone) /\ graph[p].fan = 1
    <3>1. Cursor = I(IF St(<<p, a, 0>>) = "pending" THEN "start" ELSE "rest", <<p, a, 0>>)
      BY <2>3, <2>6
    <3>2. Cursor.op # "done" /\ Cursor.key[1] = p
      BY <3>1 DEF I
    <3>3. <<p, a, 0>> \in DOMAIN rows /\ a # 0
      BY <2>4, <2>6
    <3> QED
      BY <1>2, <2>1, <2>6, <3>1, <3>2, <3>3
  <2>7. CASE ~ (\A j \in group : St(j) \in Gone) /\ graph[p].fan # 1 /\ live # {}
    <3>1. PICK j : j = CHOOSE x \in live : TRUE
      OBVIOUS
    <3>2. Cursor = I("rest", j) /\ j \in live
      BY <2>3, <2>7, <3>1
    <3>3. Cursor.op = "rest" /\ Cursor.key = j
      BY <3>2 DEF I
    <3>4. j \in DOMAIN rows /\ j[1] = p /\ j[2] = a /\ St(j) = "running"
      BY <3>2, <2>4 DEF Group, At, JudgeOf
    <3> QED
      BY <1>2, <2>1, <2>2, <2>7, <3>2, <3>3, <3>4 DEF At
  <2>8. CASE ~ (\A j \in group : St(j) \in Gone) /\ graph[p].fan # 1 /\ live = {}
    <3>1. \A j \in At(p) : j[2] = a => St(j) # "running"
      BY <2>4, <2>8 DEF At
    <3>2. a # 0 /\ graph[p].fan > 1
      BY <2>2, <2>4, <2>8
    <3>3. CASE Slot(p, a) \subseteq DOMAIN rows /\ \A j \in group : St(j) # "pending"
      <4>1. Cursor = I("choose", <<p, a, 0>>)
        BY <2>3, <2>8, <3>3
      <4>2. Cursor.op # "done" /\ Cursor.key[1] = p
        BY <4>1 DEF I
      <4> QED
        BY <1>2, <2>1, <3>1, <3>2, <3>3, <4>1, <4>2
    <3>4. CASE ~ (Slot(p, a) \subseteq DOMAIN rows /\ \A j \in group : St(j) # "pending")
      <4>1. Cursor = I("fan", <<p, a, 0>>)
        BY <2>3, <2>8, <3>4
      <4>2. Cursor.op # "done" /\ Cursor.key[1] = p
        BY <4>1 DEF I
      <4> QED
        BY <1>2, <2>1, <3>1, <3>2, <3>4, <4>1, <4>2
    <3> QED
      BY <3>3, <3>4
  <2> QED
    BY <2>5, <2>6, <2>7, <2>8
<1> QED
  BY <1>1, <1>2

-----------------------------------------------------------------------------
(* The instructions that are given.                                         *)

AllOps == RowOps \cup SlotOps \cup KeysOps \cup OtherOps

LEMMA DoingFacts ==
  ASSUME ShapeInv, NEW op \in AllOps, Doing(op)
  PROVE  /\ todo # <<>> /\ Now.op = op /\ IsInstr(Now) /\ IsBack(Tail(todo)) /\ RowsInv /\ graph \in Graphs
         /\ op \in RowOps => Now.key \in DOMAIN rows /\ Now.key \in Keys /\ rows[Now.key] \in Rows
         /\ op \in SlotOps => Now.key \in Slots
         /\ op \in KeysOps => Now.keys \subseteq DOMAIN rows
<1>1. op \notin {"pass", "rederive", "land"}
  BY DEF AllOps, RowOps, SlotOps, KeysOps, OtherOps
<1>2. todo # <<>> /\ Now.op = op /\ IsInstr(Now) /\ IsBack(Tail(todo))
  BY <1>1, HeadFacts DEF ShapeInv, Doing, Now
<1> QED
  BY <1>2 DEF ShapeInv, IsInstr, RowsInv, Counters

LEMMA RowInstr ==
  ASSUME NEW k \in DOMAIN rows
  PROVE  /\ \A op \in RowOps \ {"select", "retry", "judge"} : IsNext(I(op, k))
         /\ k[3] < 0 => IsNext(I("judge", k))
         /\ \A x : IsNext(FailHard(k, x)) /\ IsNext(Park(k, x)) /\ IsNext(Reject(k, x))
         /\ \A x : k[3] >= 0 /\ (x = "judge" => JudgeOf(k[1], k[2]) \in DOMAIN rows) => IsNext(Select(k, x))
         /\ \A x : \A then \in {"merge", "rejection", "readmit"} : IsNext(Unpark(k, then, x))
<1>1. /\ \A op \in RowOps \ {"select", "retry", "judge"} : IsNext(I(op, k))
      /\ k[3] < 0 => IsNext(I("judge", k))
  BY DEF IsNext, IsInstr, I, RowOps, SlotOps, KeysOps, OtherOps
<1>2. \A x : IsNext(FailHard(k, x)) /\ IsNext(Park(k, x)) /\ IsNext(Reject(k, x))
  BY DEF IsNext, IsInstr, FailHard, Park, Reject, RowOps, SlotOps, KeysOps, OtherOps
<1>3. \A x : k[3] >= 0 /\ (x = "judge" => JudgeOf(k[1], k[2]) \in DOMAIN rows) => IsNext(Select(k, x))
  BY DEF IsNext, IsInstr, Select, RowOps, SlotOps, KeysOps, OtherOps
<1>4. \A x : \A then \in {"merge", "rejection", "readmit"} : IsNext(Unpark(k, then, x))
  BY DEF IsNext, IsInstr, Unpark, RowOps, SlotOps, KeysOps, OtherOps
<1> QED
  BY <1>1, <1>2, <1>3, <1>4

LEMMA RunInstr ==
  /\ IsNext(ParkRun) /\ IsNext(Escalate) /\ IsNext(Finish("done")) /\ IsNext(Finish("failed")) /\ IsNext(Finish("cancelled"))
  /\ \A x : IsNext(Block(x)) /\ IsNext(FailRun(x))
  /\ \A k : \A x : IsNext(Unpark(k, "settle", x))
<1>1. IsNext(ParkRun) /\ IsNext(Escalate)
  BY DEF IsNext, IsInstr, ParkRun, Escalate, RowOps, SlotOps, KeysOps, OtherOps
<1>2. \A to \in {"done", "failed", "cancelled"} : IsNext(Finish(to))
  BY DEF IsNext, IsInstr, Finish, RowOps, SlotOps, KeysOps, OtherOps
<1>3. \A x : IsNext(Block(x))
  BY DEF IsNext, IsInstr, Block, RowOps, SlotOps, KeysOps, OtherOps
<1>4. \A k : \A x : IsNext(Unpark(k, "settle", x))
  BY DEF IsNext, IsInstr, Unpark, RowOps, SlotOps, KeysOps, OtherOps
<1> QED
  BY <1>1, <1>2, <1>3, <1>4 DEF FailRun

LEMMA SlotInstr ==
  ASSUME graph \in Graphs, NEW p \in Phases, NEW a \in Nat \ {0}
  PROVE  /\ IsNext(Admit(p, a))
         /\ \A op \in SlotOps \ {"group"} : IsNext(I(op, <<p, a, 0>>))
         /\ <<p, a, 0>> \in Slots /\ Slot(p, a) \subseteq Keys /\ JudgeOf(p, a) \in Keys
         /\ \A S \in SUBSET Keys : \A then \in {"none", "fan"} : IsNext(Create(S, <<p, a, 0>>, then))
         /\ \A x : IsNext(Unpark(<<p, a, 0>>, "admit", x))
<1>1. <<p, a, 0>> \in Slots
  BY DEF Slots
<1>2. Slot(p, a) \subseteq Keys /\ JudgeOf(p, a) \in Keys
  BY GraphFacts DEF Slot, JudgeOf, Keys
<1>3. IsNext(Admit(p, a)) /\ \A op \in SlotOps \ {"group"} : IsNext(I(op, <<p, a, 0>>))
  BY <1>1 DEF IsNext, IsInstr, Admit, I, RowOps, SlotOps, KeysOps, OtherOps
<1>4. \A S \in SUBSET Keys : \A then \in {"none", "fan"} : IsNext(Create(S, <<p, a, 0>>, then))
  BY <1>1 DEF IsNext, IsInstr, Create, RowOps, SlotOps, KeysOps, OtherOps
<1>5. \A x : IsNext(Unpark(<<p, a, 0>>, "admit", x))
  BY <1>1 DEF IsNext, IsInstr, Unpark, RowOps, SlotOps, KeysOps, OtherOps
<1> QED
  BY <1>1, <1>2, <1>3, <1>4, <1>5

\* The next attempt of a row's position may be admitted.
LEMMA NextAttempt ==
  ASSUME RowsInv, graph \in Graphs, NEW k \in DOMAIN rows
  PROVE  IsNext(Admit(k[1], k[2] + 1)) /\ IsNext(Admit(k[1], Last(k[1]) + 1))
<1>1. k[1] \in Phases /\ k[2] + 1 \in Nat \ {0}
  BY DEF RowsInv, Keys
<1>2. Last(k[1]) + 1 \in Nat \ {0}
  BY LastFacts
<1> QED
  BY <1>1, <1>2, SlotInstr

LEMMA AppliedInstr ==
  ASSUME RowsInv, graph \in Graphs, NEW k \in DOMAIN rows, NEW verdict \in Works \ {"none"}, NEW miss
  PROVE  IsNext(Applied(k, verdict, miss))
<1>1. k[1] \in Phases /\ graph[k[1]].gate \in Gates
  BY GraphFacts DEF RowsInv, Keys
<1>2. IsNext(Park(k, miss)) /\ IsNext(I("accept", k)) /\ IsNext(I("spend", k)) /\ IsNext(I("gate", k))
  BY RowInstr DEF RowOps
<1>3. Applied(k, verdict, miss) \in {Park(k, miss), I("accept", k), I("spend", k), I("gate", k)}
  <2> DEFINE gate == graph[k[1]].gate
  <2>1. CASE gate = "always" \/ (gate = "on_failure" /\ verdict # "ok")
    BY <2>1 DEF Applied
  <2>2. CASE gate # "always" /\ verdict = "ok"
    BY <2>2 DEF Applied
  <2>3. CASE gate = "never" /\ verdict = "fail"
    BY <2>3 DEF Applied
  <2>4. CASE gate = "never" /\ verdict = "reject"
    BY <2>4 DEF Applied
  <2> QED
    BY <1>1, <2>1, <2>2, <2>3, <2>4 DEF Gates, Works
<1> QED
  BY <1>2, <1>3

LEMMA RejectionInstr ==
  ASSUME NEW k \in DOMAIN rows
  PROVE  IsNext(Rejection(k))
BY RowInstr, RunInstr DEF Rejection, RowOps

LEMMA SettledInstr ==
  ASSUME RowsInv, graph \in Graphs, NEW k \in DOMAIN rows
  PROVE  IsNext(SettleFailed(k))
BY NextAttempt, RejectionInstr, RunInstr DEF SettleFailed

LEMMA CursorInstr ==
  ASSUME RowsInv, graph \in Graphs
  PROVE  /\ Cursor.op \notin {"done", "rest"} => IsNext(Cursor)
         /\ Cursor.op = "rest" => Cursor.key \in DOMAIN rows
<1> DEFINE p == Cursor.key[1]
           a == Last(p)
           Slotted(op) == Cursor = I(op, <<p, a, 0>>) /\ a # 0
<1>1. a \in Nat
  BY LastFacts
<1>2. CASE Cursor.op = "done"
  BY <1>2
<1>3. CASE Cursor.op # "done"
  <2>1. /\ p \in Phases
        /\ \/ Cursor = Admit(p, a + 1)
           \/ Slotted("choose") \/ Slotted("fan")
           \/ <<p, a, 0>> \in DOMAIN rows /\ (Slotted("start") \/ Slotted("rest"))
           \/ Cursor.op = "rest" /\ Cursor.key \in DOMAIN rows
    BY <1>3, CursorFacts DEF I, At
  <2> HIDE DEF p, a
  <2>2. CASE Cursor = Admit(p, a + 1)
    <3>1. a + 1 \in Nat \ {0}
      BY <1>1
    <3>2. IsNext(Admit(p, a + 1))
      BY <2>1, <3>1, SlotInstr
    <3> QED
      BY <2>2, <3>2 DEF Admit, I
  <2>3. CASE Slotted("choose") \/ Slotted("fan")
    <3>1. IsNext(I("choose", <<p, a, 0>>)) /\ IsNext(I("fan", <<p, a, 0>>))
      BY <1>1, <2>1, <2>3, SlotInstr DEF SlotOps
    <3> QED
      BY <2>3, <3>1 DEF I
  <2>4. CASE <<p, a, 0>> \in DOMAIN rows /\ (Slotted("start") \/ Slotted("rest"))
    <3>1. IsNext(I("start", <<p, a, 0>>))
      BY <2>4, RowInstr DEF RowOps
    <3> QED
      BY <2>4, <3>1 DEF I
  <2>5. CASE Cursor.op = "rest" /\ Cursor.key \in DOMAIN rows
    BY <2>5
  <2> QED
    BY <2>1, <2>2, <2>3, <2>4, <2>5
<1> QED
  BY <1>2, <1>3

-----------------------------------------------------------------------------
(* The walk of a plain step keeps its shape.                                *)

LEMMA PassesKeep == ASSUME ShapeInv, Passes PROVE Kept
<1>1. todo # <<>> /\ todo = <<Pass>> /\ IsBack(todo)
  <2>1. todo # <<>> /\ Head(todo).op = "pass"
    BY DEF Passes, Doing
  <2>2. ~ IsInstr(Head(todo))
    BY <2>1 DEF IsInstr, RowOps, SlotOps, KeysOps, OtherOps
  <2> QED
    BY <2>1, <2>2, BackTails DEF ShapeInv, TodoInv
<1>2. ASSUME NEW i, IsNext(i), todo' = <<i>> \o todo PROVE TodoInv'
  <2>1. todo' # <<>> /\ Head(todo') = i /\ Tail(todo') = todo
    BY <1>1, <1>2, BackIsSeq
  <2>2. IsInstr(i)'
    BY <1>2, InstrGrows DEF Passes, Decides, rowVars, IsNext
  <2>3. PICK t : t = todo
    OBVIOUS
  <2>4. IsBack(t)'
    BY <1>1, <2>3, BackGrows DEF Passes, Decides, rowVars
  <2> QED
    BY <1>2, <2>1, <2>2, <2>3, <2>4 DEF TodoInv, IsNext
<1>3. IsNext(Finish("done")) /\ (Cursor.op \notin {"done", "rest"} => IsNext(Cursor))
  BY RunInstr, CursorInstr DEF ShapeInv, Counters
<1>4. RestsFailed => IsNext(SettleFailed(Cursor.key))
  BY CursorInstr, SettledInstr DEF ShapeInv, Counters, RestsFailed
<1>5. TodoInv'
  BY <1>2, <1>3, <1>4, EndsKeeps DEF Passes
<1> QED
  BY <1>1, <1>5, DecidesKeeps DEF Passes

LEMMA AdmitsKeep == ASSUME ShapeInv, Admits PROVE Kept
<1>1. todo # <<>> /\ Now.key \in Slots /\ graph \in Graphs
  BY DoingFacts DEF Admits, SlotOps, AllOps
<1>2. /\ Now.key[1] \in Phases /\ Now.key[2] \in Nat \ {0} /\ Now.key = <<Now.key[1], Now.key[2], 0>>
  BY <1>1 DEF Slots
<1>3. IsNext(Create(Slot(Now.key[1], Now.key[2]), Now.key, "none"))
  BY <1>1, <1>2, SlotInstr
<1> QED
  BY <1>1, <1>3, RunInstr, DecideThen DEF Admits

LEMMA StartsKeep == ASSUME ShapeInv, Starts PROVE Kept
<1> DEFINE k == Now.key
<1>1. todo # <<>> /\ k \in DOMAIN rows /\ To(k, "running") \in Rows
  BY DoingFacts, RowFields DEF Starts, RowOps, AllOps, StepStatuses
<1>2. IsNext(I(IF k[3] < 0 THEN "judge" ELSE "session", k))
  <2>1. CASE k[3] < 0
    BY <1>1, <2>1, RowInstr
  <2>2. CASE ~ (k[3] < 0)
    BY <1>1, <2>2, RowInstr DEF RowOps
  <2> QED
    BY <2>1, <2>2
<1> QED
  BY <1>1, <1>2, MovesKeep DEF Starts

LEMMA SessionsKeep == ASSUME ShapeInv, Sessions PROVE Kept
<1> DEFINE k == Now.key
<1>1. todo # <<>> /\ k \in DOMAIN rows /\ rows[k] \in Rows /\ RowsInv /\ graph \in Graphs /\ WritesRows
  BY DoingFacts DEF Sessions, RowOps, AllOps
<1>2. ASSUME NEW block, rows' = rows, Then(FailHard(k, block)) PROVE Kept
  BY <1>1, <1>2, RowInstr, RowKeeps
<1>3. ASSUME NEW work \in Works, NEW verdict \in {work, "fail"} \ {"none"},
             rows' = [rows EXCEPT ![k].work = work], Then(Applied(k, verdict, "fail"))
      PROVE  Kept
  <2>1. rows' = [rows EXCEPT ![k] = [rows[k] EXCEPT !.work = work]] /\ [rows[k] EXCEPT !.work = work] \in Rows
    BY <1>1, <1>3 DEF Rows
  <2>2. IsNext(Applied(k, verdict, "fail"))
    BY <1>1, AppliedInstr DEF Works
  <2> QED
    BY <1>1, <1>3, <2>1, <2>2, RowKeeps
<1> QED
  BY <1>2, <1>3 DEF Sessions

LEMMA ParksKeep == ASSUME ShapeInv, Parks PROVE Kept
<1> DEFINE k == Now.key
<1>1. todo # <<>> /\ k \in DOMAIN rows /\ To(k, "awaiting") \in Rows
  BY DoingFacts, RowFields DEF Parks, RowOps, AllOps, StepStatuses
<1>2. CASE St(k) = "running" /\ run = "running"
  <2>1. RowsInv' /\ DOMAIN rows' = DOMAIN rows
    BY <1>1, <1>2, RowWritten DEF Parks, ShapeInv
  <2>2. TodoInv'
    BY <1>2, EndsKeeps DEF Parks
  <2> QED
    BY <1>2, <2>1, <2>2 DEF Parks, Kept, ShapeInv, Counters, RunStatuses, ActiveRun, TerminalRun
<1>3. CASE ~ (St(k) = "running" /\ run = "running")
  <2>1. Decides /\ (Ends \/ Then(FailHard(k, FALSE)))
    BY <1>3 DEF Parks, Decides, rowVars
  <2> QED
    BY <1>1, <2>1, RowInstr, DecideOver, DecideThen
<1> QED
  BY <1>2, <1>3

LEMMA AcceptsKeep == ASSUME ShapeInv, Accepts PROVE Kept
<1> DEFINE k == Now.key
<1>1. todo # <<>> /\ k \in DOMAIN rows /\ rows[k] \in Rows /\ IsNext(I("merge", k))
  BY DoingFacts, RowInstr DEF Accepts, RowOps, AllOps
<1>2. [rows[k] EXCEPT !.st = "done", !.ans = "skipped"] \in Rows
  BY <1>1 DEF Rows, StepStatuses
<1> QED
  BY <1>1, <1>2, MovesKeep DEF Accepts

LEMMA FailsHardKeep == ASSUME ShapeInv, FailsHard PROVE Kept
<1> DEFINE k == Now.key
<1>1. todo # <<>> /\ k \in DOMAIN rows /\ To(k, "failed") \in Rows
  BY DoingFacts, RowFields DEF FailsHard, RowOps, AllOps, StepStatuses
<1> QED
  BY <1>1, RunInstr, MovesKeep DEF FailsHard

LEMMA SpendsKeep == ASSUME ShapeInv, Spends PROVE Kept
<1> DEFINE k == Now.key
<1>1. todo # <<>> /\ k \in DOMAIN rows /\ To(k, "failed") \in Rows /\ RowsInv /\ graph \in Graphs
  BY DoingFacts, RowFields DEF Spends, RowOps, AllOps, StepStatuses
<1>2. IsNext(IF MayAttempt(k[1], k[2] + 1) THEN Admit(k[1], k[2] + 1) ELSE Finish("failed"))
  BY <1>1, RunInstr, NextAttempt
<1> QED
  BY <1>1, <1>2, MovesKeep DEF Spends

LEMMA GatesItselfKeep == ASSUME ShapeInv, GatesItself PROVE Kept
<1> DEFINE k == Now.key
<1>1. todo # <<>> /\ k \in DOMAIN rows /\ To(k, "awaiting") \in Rows
  BY DoingFacts, RowFields DEF GatesItself, RowOps, AllOps, StepStatuses
<1> QED
  BY <1>1, RowInstr, MovesKeep DEF GatesItself

LEMMA RejectsRowKeep == ASSUME ShapeInv, RejectsRow PROVE Kept
<1> DEFINE k == Now.key
<1>1. todo # <<>> /\ k \in DOMAIN rows /\ rows[k] \in Rows
  BY DoingFacts DEF RejectsRow, RowOps, AllOps
<1>2. [rows[k] EXCEPT !.st = "failed", !.ans = "rejected"] \in Rows
  BY <1>1 DEF Rows, StepStatuses
<1>3. IsNext(IF Now.by = "person" THEN Unpark(k, "rejection", FALSE)
             ELSE IF k[3] < 0 THEN ParkRun ELSE I("loop", k))
  BY <1>1, RowInstr, RunInstr DEF RowOps
<1> QED
  BY <1>1, <1>2, <1>3, MovesKeep DEF RejectsRow

LEMMA MergesKeep == ASSUME ShapeInv, Merges PROVE Kept
<1> DEFINE k == Now.key
<1>1. todo # <<>> /\ k \in DOMAIN rows /\ rows[k] \in Rows /\ WritesRows
  BY DoingFacts DEF Merges, RowOps, AllOps
<1>2. CASE rows' = [rows EXCEPT ![k].merged = TRUE] /\ Over
  <2>1. /\ rows' = [rows EXCEPT ![k] = [rows[k] EXCEPT !.merged = TRUE]]
        /\ [rows[k] EXCEPT !.merged = TRUE] \in Rows
    BY <1>1, <1>2 DEF Rows
  <2> QED
    BY <1>1, <1>2, <2>1, RowKeeps
<1>3. CASE rows' = rows /\ Then(ParkRun)
  BY <1>1, <1>3, RunInstr, RowKeeps
<1> QED
  BY <1>2, <1>3 DEF Merges

\* A row is created with fields of their kinds.
LEMMA RowCreated ==
  ASSUME RowsInv, graph' = graph, NEW k \in Keys,
         rows' = [j \in DOMAIN rows \cup {k} |-> IF j = k THEN NewRow ELSE rows[j]]
  PROVE  RowsInv' /\ DOMAIN rows' = DOMAIN rows \cup {k}
<1>1. DOMAIN rows' = DOMAIN rows \cup {k}
  OBVIOUS
<1>2. NewRow \in Rows
  BY DEF NewRow, Rows, StepStatuses, Works
<1>3. rows' \in [DOMAIN rows' -> Rows]
  BY <1>1, <1>2 DEF RowsInv
<1>4. IsFiniteSet(DOMAIN rows')
  BY <1>1, FS_AddElement DEF RowsInv
<1>5. DOMAIN rows' \subseteq Keys'
  BY <1>1 DEF RowsInv, Keys, Phases
<1> QED
  BY <1>1, <1>3, <1>4, <1>5 DEF RowsInv

LEMMA CreatesKeep == ASSUME ShapeInv, Creates PROVE Kept
<1>1. /\ todo # <<>> /\ Now.op = "create" /\ IsInstr(Now) /\ WritesRows /\ RowsInv
      /\ Now = Create(Rest, Now.key, Now.then) /\ Rest \subseteq Keys
  BY DoingFacts DEF Creates, OtherOps, AllOps, IsInstr, Rest
<1>2. CASE Rest = {} /\ rows' = rows /\ (IF Now.then = "none" THEN Over ELSE Then(I(Now.then, Now.key)))
  <2>1. Decides
    BY <1>1, <1>2 DEF WritesRows, Decides, rowVars
  <2>2. Now.then # "none" => IsNext(I(Now.then, Now.key))
    <3>1. Now.then = "fan" => Now.key \in Slots
      BY <1>1 DEF IsInstr
    <3>2. Now.then = "start" => Now.key \in DOMAIN rows
      BY <1>1, <1>2 DEF IsInstr, Rest
    <3>3. Now.then \in {"none", "fan", "start"}
      BY <1>1 DEF IsInstr
    <3> QED
      BY <3>1, <3>2, <3>3 DEF IsNext, IsInstr, I, RowOps, SlotOps, KeysOps, OtherOps
  <2> QED
    BY <1>1, <1>2, <2>1, <2>2, DecideOver, DecideThen
<1>3. ASSUME NEW k \in First(Rest), k \in DOMAIN rows, rows' = rows, Ends PROVE Kept
  BY <1>1, <1>3, DecideOver DEF WritesRows, Decides, rowVars
<1>4. ASSUME NEW k \in First(Rest), k \notin DOMAIN rows, Then(Without(k)),
             rows' = [j \in DOMAIN rows \cup {k} |-> IF j = k THEN NewRow ELSE rows[j]]
      PROVE  Kept
  <2>1. k \in Keys /\ graph' = graph
    BY <1>1 DEF First, WritesRows
  <2>2. RowsInv' /\ DOMAIN rows' = DOMAIN rows \cup {k}
    BY <1>1, <1>4, <2>1, RowCreated
  <2>3. PICK now : now = Now
    OBVIOUS
  <2>4. PICK S : S = Rest
    OBVIOUS
  <2>5. now = Create(S, now.key, now.then) /\ IsInstr(now)
    BY <1>1, <2>3, <2>4
  <2>6. PICK i : i = Create(S \ {k}, now.key, now.then)
    OBVIOUS
  <2>7. Without(k) = i
    BY <2>3, <2>4, <2>5, <2>6 DEF Without, Create, Rest
  <2>8. IsInstr(i)'
    <3>1. IsInstr(now)'
      BY <2>1, <2>2, <2>5, InstrGrows
    <3>2. now.op = "create" /\ now.keys = S
      BY <2>5 DEF Create
    <3>3. /\ i.op = "create" /\ i.keys = S \ {k} /\ i.key = now.key /\ i.then = now.then
          /\ i = Create(i.keys, i.key, i.then)
      BY <2>6 DEF Create
    <3>4. now.key \in DOMAIN rows' \/ now.key \in S \ {k} \/ ~ (now.key \in DOMAIN rows' \/ now.key \in S)
      BY <2>2
    <3> HIDE DEF Create
    <3> QED
      BY <3>1, <3>2, <3>3, <3>4 DEF IsInstr, RowOps, SlotOps, KeysOps, OtherOps
  <2>9. i.op # "recover"
    BY <2>6 DEF Create
  <2>10. TodoInv'
    BY <1>1, <1>4, <2>2, <2>7, <2>8, <2>9, ThenGrows DEF ShapeInv
  <2> QED
    BY <1>1, <2>2, <2>10, WritesKeep
<1> QED
  BY <1>2, <1>3, <1>4 DEF Creates

LEMMA RetireInstr ==
  ASSUME NEW k, NEW P, NEW then \in {"none", "unpark"},
         k \in Slots \/ (then = "none" /\ k \in DOMAIN rows)
  PROVE  IsNext(Retire(k, P, then))
BY DEF IsNext, IsInstr, Retire, RowOps, SlotOps, KeysOps, OtherOps

LEMMA LoopsKeep == ASSUME ShapeInv, Loops PROVE Kept
<1>1. todo # <<>> /\ Now.key \in DOMAIN rows
  BY DoingFacts DEF Loops, RowOps, AllOps
<1>2. \A P : IsNext(Retire(Now.key, P, "none"))
  BY <1>1, RetireInstr
<1> QED
  BY <1>1, <1>2, RunInstr, DecideThen DEF Loops

\* An instruction that goes through rows, one row fewer.
LEMMA WithoutInstr ==
  ASSUME NEW op \in KeysOps, Now.op = op, IsInstr(Now), NEW k
  PROVE  IsNext(Without(k)) /\ Without(k).op = op /\ Without(k).keys = Rest \ {k}
<1>1. CASE op = "retire"
  <2>1. Now = [op |-> "retire", key |-> Now.key, keys |-> Now.keys, was |-> Now.was, then |-> Now.then]
    BY <1>1 DEF IsInstr
  <2>2. Without(k) = [op |-> "retire", key |-> Now.key, keys |-> Now.keys \ {k}, was |-> Now.was, then |-> Now.then]
    BY <2>1 DEF Without
  <2> QED
    BY <1>1, <2>2 DEF IsNext, IsInstr, Rest, RowOps, SlotOps, KeysOps, OtherOps
<1>2. CASE op = "refuse"
  <2>1. Now = [op |-> "refuse", keys |-> Now.keys, block |-> Now.block]
    BY <1>2 DEF IsInstr, Refuse
  <2>2. Without(k) = [op |-> "refuse", keys |-> Now.keys \ {k}, block |-> Now.block]
    BY <2>1 DEF Without
  <2> QED
    BY <1>2, <2>2 DEF IsNext, IsInstr, Rest, Refuse, RowOps, SlotOps, KeysOps, OtherOps
<1>3. CASE op = "cancels"
  <2>1. Now = [op |-> "cancels", keys |-> Now.keys]
    BY <1>3 DEF IsInstr
  <2>2. Without(k) = [op |-> "cancels", keys |-> Now.keys \ {k}]
    BY <2>1 DEF Without
  <2> QED
    BY <1>3, <2>2 DEF IsNext, IsInstr, Rest, RowOps, SlotOps, KeysOps, OtherOps
<1> QED
  BY <1>1, <1>2, <1>3 DEF KeysOps

LEMMA RetiresKeep == ASSUME ShapeInv, Retires PROVE Kept
<1>1. todo # <<>> /\ Now.op = "retire" /\ IsInstr(Now) /\ Rest \subseteq DOMAIN rows /\ RowsInv /\ graph \in Graphs
  BY DoingFacts DEF Retires, KeysOps, AllOps, Rest
<1>2. CASE Rest = {} /\ Decides /\ Now.then = "none" /\ Over
  BY <1>1, <1>2, DecideOver
<1>3. CASE Decides /\ Now.then # "none" /\ Then(Unpark(<<Now.key[1], Now.key[2] + 1, 0>>, "admit", FALSE))
  <2>1. Now.key[1] \in Phases /\ Now.key[2] + 1 \in Nat \ {0}
    BY <1>1, <1>3 DEF IsInstr, Slots
  <2>2. IsNext(Unpark(<<Now.key[1], Now.key[2] + 1, 0>>, "admit", FALSE))
    BY <1>1, <2>1, SlotInstr
  <2> QED
    BY <1>1, <1>3, <2>2, DecideThen
<1>4. ASSUME NEW k \in First(Rest), NEW st \in StepStatuses, Moves(k, Now.was[k], To(k, st), Without(k))
      PROVE  Kept
  <2>1. k \in DOMAIN rows /\ To(k, st) \in Rows
    BY <1>1, RowFields DEF First
  <2> QED
    BY <1>1, <1>4, <2>1, WithoutInstr, MovesKeep DEF KeysOps
<1> QED
  BY <1>2, <1>3, <1>4 DEF Retires, StepStatuses

LEMMA ParksRunKeep == ASSUME ShapeInv, ParksRun PROVE Kept
<1>1. todo # <<>> /\ graph' = graph /\ rows' = rows /\ RowsInv
  BY DoingFacts DEF ParksRun, OtherOps, AllOps
<1>2. TodoInv'
  BY <1>1, RunInstr, ThenKeeps, EndsKeeps DEF ParksRun, ShapeInv
<1> QED
  BY <1>1, <1>2 DEF ParksRun, Kept, ShapeInv, Counters, RowsInv, Keys, Phases, RunStatuses, ActiveRun, TerminalRun

LEMMA FinishesKeep == ASSUME ShapeInv, Finishes PROVE Kept
<1>1. todo # <<>> /\ graph' = graph /\ rows' = rows /\ RowsInv /\ Now.to \in {"done", "failed", "cancelled"}
  BY DoingFacts DEF Finishes, OtherOps, AllOps, IsInstr
<1>2. TodoInv' /\ todo' = <<>>
  BY EndsKeeps DEF Finishes, Ends
<1> QED
  BY <1>1, <1>2 DEF Finishes, Kept, ShapeInv, Counters, RowsInv, Keys, Phases, RunStatuses, ActiveRun, TerminalRun

LEMMA BlocksKeep == ASSUME ShapeInv, Blocks PROVE Kept
<1>1. todo # <<>> /\ graph' = graph /\ rows' = rows /\ RowsInv
  BY DoingFacts DEF Blocks, OtherOps, AllOps
<1>2. TodoInv'
  BY <1>1, RunInstr, ThenKeeps, EndsKeeps DEF Blocks, ShapeInv
<1> QED
  BY <1>1, <1>2 DEF Blocks, Kept, ShapeInv, Counters, RowsInv, Keys, Phases

-----------------------------------------------------------------------------
(* And so do a group's, its judge's and a selection.                        *)

LEMMA SlotDoing ==
  ASSUME ShapeInv, NEW op \in SlotOps, Doing(op)
  PROVE  /\ todo # <<>> /\ Now.op = op /\ IsInstr(Now) /\ RowsInv /\ graph \in Graphs
         /\ Now.key[1] \in Phases /\ Now.key[2] \in Nat \ {0}
         /\ Now.key = <<Now.key[1], Now.key[2], 0>> /\ Now.key \in Slots
<1>1. todo # <<>> /\ Now.op = op /\ IsInstr(Now) /\ RowsInv /\ graph \in Graphs /\ Now.key \in Slots
  BY DoingFacts DEF AllOps
<1> QED
  BY <1>1 DEF Slots

LEMMA RefuseInstr ==
  ASSUME NEW S \in SUBSET DOMAIN rows, NEW block
  PROVE  IsNext(Refuse(S, block))
BY DEF IsNext, IsInstr, Refuse, RowOps, SlotOps, KeysOps, OtherOps

LEMMA FansKeep == ASSUME ShapeInv, Fans PROVE Kept
<1> DEFINE p == Now.key[1]
           a == Now.key[2]
           missing == Slot(p, a) \ DOMAIN rows
           pending == {k \in Group(p, a) : St(k) = "pending"}
           group == [op |-> "group", key |-> Now.key, wait |-> pending, live |-> {}]
<1>1. /\ todo # <<>> /\ RowsInv /\ graph \in Graphs /\ p \in Phases /\ a \in Nat \ {0}
      /\ Now.key = <<p, a, 0>> /\ Now.key \in Slots
  BY SlotDoing DEF Fans, SlotOps
<1>2. IsNext(Create(missing, Now.key, "fan"))
  <2>1. missing \in SUBSET Keys
    BY <1>1, SlotInstr
  <2> HIDE DEF missing, p, a
  <2> QED
    BY <1>1, <2>1, SlotInstr
<1>3. pending \in SUBSET DOMAIN rows
  BY DEF Group, At
<1>4. \A block : IsNext(Refuse(pending, block))
  <2> HIDE DEF pending
  <2> QED
    BY <1>3, RefuseInstr
<1>5. IsNext(group)
  <2> HIDE DEF pending, p, a
  <2> QED
    BY <1>1, <1>3 DEF IsNext, IsInstr, RowOps, SlotOps, KeysOps, OtherOps
<1>6. Decides /\ (\/ Then(Create(missing, Now.key, "fan")) \/ Then(Block("fail")) \/ Then(group)
                  \/ \E block : Then(Refuse(pending, block)))
  BY DEF Fans
<1> HIDE DEF missing, pending, group
<1>7. IsNext(Block("fail"))
  BY RunInstr
<1>8. ASSUME NEW block, Then(Refuse(pending, block)) PROVE Kept
  BY <1>1, <1>4, <1>6, <1>8, DecideThen
<1>9. ASSUME NEW i, IsNext(i), Then(i) PROVE Kept
  BY <1>1, <1>6, <1>9, DecideThen
<1> QED
  BY <1>2, <1>5, <1>6, <1>7, <1>8, <1>9

LEMMA RefusesKeep == ASSUME ShapeInv, Refuses PROVE Kept
<1>1. /\ todo # <<>> /\ Now.op = "refuse" /\ IsInstr(Now) /\ Rest \subseteq DOMAIN rows /\ RowsInv
  BY DoingFacts DEF Refuses, KeysOps, AllOps, Rest
<1>2. CASE Decides /\ Then(FailRun(Now.block))
  BY <1>1, <1>2, RunInstr, DecideThen
<1>3. ASSUME NEW k \in First(Rest), Moves(k, "pending", To(k, "running"), Now) PROVE Kept
  <2>1. k \in DOMAIN rows /\ To(k, "running") \in Rows
    BY <1>1, RowFields DEF First, StepStatuses
  <2> QED
    BY <1>1, <1>3, <2>1, MovesKeep DEF IsNext
<1>4. ASSUME NEW k \in First(Rest), Moves(k, "running", To(k, "failed"), Without(k)) PROVE Kept
  <2>1. k \in DOMAIN rows /\ To(k, "failed") \in Rows
    BY <1>1, RowFields DEF First, StepStatuses
  <2> QED
    BY <1>1, <1>4, <2>1, WithoutInstr, MovesKeep DEF KeysOps
<1> QED
  BY <1>2, <1>3, <1>4 DEF Refuses

LEMMA StillInstr ==
  ASSUME IsInstr(Now), Now.op = "group", NEW wait \in SUBSET DOMAIN rows, NEW live \in SUBSET DOMAIN rows
  PROVE  IsNext([Now EXCEPT !.wait = wait, !.live = live])
<1>1. Now = [op |-> "group", key |-> Now.key, wait |-> Now.wait, live |-> Now.live]
  BY DEF IsInstr
<1>2. [Now EXCEPT !.wait = wait, !.live = live] = [op |-> "group", key |-> Now.key, wait |-> wait, live |-> live]
  <2>1. PICK i : i = Now
    OBVIOUS
  <2>2. i = [op |-> "group", key |-> i.key, wait |-> i.wait, live |-> i.live]
    BY <1>1, <2>1
  <2>3. PICK key : key = i.key
    OBVIOUS
  <2>4. [i EXCEPT !.wait = wait] = [op |-> "group", key |-> key, wait |-> wait, live |-> i.live]
    BY <2>2, <2>3
  <2>5. PICK j : j = [op |-> "group", key |-> key, wait |-> wait, live |-> i.live]
    OBVIOUS
  <2>6. [j EXCEPT !.live = live] = [op |-> "group", key |-> key, wait |-> wait, live |-> live]
    BY <2>5
  <2>7. [i EXCEPT !.wait = wait, !.live = live] = [[i EXCEPT !.wait = wait] EXCEPT !.live = live]
    OBVIOUS
  <2>8. [[i EXCEPT !.wait = wait] EXCEPT !.live = live] = [j EXCEPT !.live = live]
    BY <2>4, <2>5, Zenon
  <2>9. [i EXCEPT !.wait = wait, !.live = live] = [op |-> "group", key |-> key, wait |-> wait, live |-> live]
    BY <2>6, <2>7, <2>8
  <2> QED
    BY <2>1, <2>3, <2>9
<1> QED
  BY <1>2 DEF IsNext, IsInstr, RowOps, SlotOps, KeysOps, OtherOps

LEMMA CandidatesKeep ==
  ASSUME ShapeInv, CandidateStarts \/ CandidateWorks \/ CandidateEnds
  PROVE  Kept
<1>1. todo # <<>> /\ Now.op = "group" /\ IsInstr(Now) /\ RowsInv /\ WritesRows
  BY SlotDoing DEF SlotOps, CandidateStarts, CandidateWorks, CandidateEnds
<1>2. Now.wait \subseteq DOMAIN rows /\ Now.live \subseteq DOMAIN rows
  BY <1>1 DEF IsInstr
<1>3. ASSUME CandidateStarts PROVE Kept
  <2>1. PICK k \in Now.wait :
          rows' = [rows EXCEPT ![k] = To(k, "running")] /\ Still(Now.wait \ {k}, Now.live \cup {k})
    BY <1>3 DEF CandidateStarts
  <2>2. k \in DOMAIN rows /\ To(k, "running") \in Rows
    BY <1>1, <1>2, RowFields DEF StepStatuses
  <2>3. IsNext([Now EXCEPT !.wait = Now.wait \ {k}, !.live = Now.live \cup {k}])
    BY <1>1, <1>2, StillInstr
  <2> QED
    BY <1>1, <2>1, <2>2, <2>3, RowKeeps DEF Still
<1>4. ASSUME CandidateWorks PROVE Kept
  <2>1. PICK k \in Now.live, work \in {"ok", "fail"} : rows' = [rows EXCEPT ![k].work = work] /\ todo' = todo
    BY <1>4 DEF CandidateWorks
  <2>2. k \in DOMAIN rows /\ rows[k] \in Rows
    BY <1>1, <1>2, RowFields
  <2>3. /\ rows' = [rows EXCEPT ![k] = [rows[k] EXCEPT !.work = work]]
        /\ [rows[k] EXCEPT !.work = work] \in Rows
    BY <2>1, <2>2 DEF Rows, Works
  <2>4. RowsInv' /\ DOMAIN rows' = DOMAIN rows
    BY <1>1, <2>2, <2>3, RowWritten DEF WritesRows
  <2>5. PICK i : i = Head(todo)
    OBVIOUS
  <2>6. PICK t : t = Tail(todo)
    OBVIOUS
  <2>7. IsInstr(i)' /\ IsBack(t)' /\ i.op = "group"
    BY <1>1, <2>4, <2>5, <2>6, InstrGrows, BackGrows, TailFacts DEF WritesRows, ShapeInv, Now
  <2>8. TodoInv'
    BY <1>1, <2>1, <2>5, <2>6, <2>7 DEF TodoInv
  <2> QED
    BY <1>1, <2>4, <2>8, WritesKeep
<1>5. ASSUME CandidateEnds PROVE Kept
  <2>1. PICK k \in Now.live, to \in {"done", "failed"} :
          rows' = [rows EXCEPT ![k] = To(k, to)] /\ Still(Now.wait, Now.live \ {k})
    BY <1>5 DEF CandidateEnds
  <2>2. k \in DOMAIN rows /\ To(k, to) \in Rows
    BY <1>1, <1>2, RowFields DEF StepStatuses
  <2>3. IsNext([Now EXCEPT !.wait = Now.wait, !.live = Now.live \ {k}])
    BY <1>1, <1>2, StillInstr
  <2> QED
    BY <1>1, <2>1, <2>2, <2>3, RowKeeps DEF Still
<1> QED
  BY <1>3, <1>4, <1>5

LEMMA GroupEndsKeep == ASSUME ShapeInv, GroupEnds PROVE Kept
<1>1. todo # <<>>
  BY DEF GroupEnds, Doing
<1> QED
  BY <1>1, RunInstr, DecideThen, DecideOver DEF GroupEnds

LEMMA ChoosesKeep == ASSUME ShapeInv, Chooses PROVE Kept
<1> DEFINE p == Now.key[1]
           a == Now.key[2]
           j == JudgeOf(p, a)
<1>1. /\ todo # <<>> /\ RowsInv /\ graph \in Graphs /\ p \in Phases /\ a \in Nat \ {0}
      /\ Now.key \in Slots /\ Decides
  BY SlotDoing DEF Chooses, SlotOps
<1>2. j \in Keys
  BY <1>1, SlotInstr
<1>3. IsNext(Create({j}, j, "start"))
  <2> HIDE DEF j
  <2> QED
    BY <1>2 DEF IsNext, IsInstr, Create, RowOps, SlotOps, KeysOps, OtherOps
<1>4. j \in DOMAIN rows => IsNext(I("start", j)) /\ IsNext(Refuse({j}, FALSE))
  <2> HIDE DEF j
  <2> QED
    BY RowInstr, RefuseInstr DEF RowOps
<1>5. IsNext(Retire(Now.key, {p}, "none"))
  <2> HIDE DEF p
  <2> QED
    BY <1>1, RetireInstr
<1>6. \A w \in Passing(p, a) : IsNext(Select(w, "walk"))
  <2>1. \A w \in Passing(p, a) : w \in DOMAIN rows /\ w[3] >= 0
    BY DEF Passing, Group, At
  <2> QED
    BY <2>1, RowInstr
<1>7. \/ Then(ParkRun)
      \/ j \in DOMAIN rows /\ (Then(I("start", j)) \/ Then(Refuse({j}, FALSE)))
      \/ Then(Finish("failed"))
      \/ Then(Retire(Now.key, {p}, "none"))
      \/ \E w \in Passing(p, a) : Then(Select(w, "walk"))
      \/ Then(Create({j}, j, "start"))
  BY DEF Chooses
<1> HIDE DEF j, p, a
<1> QED
  BY <1>1, <1>3, <1>4, <1>5, <1>6, <1>7, RunInstr, DecideThen

LEMMA JudgeSessionsKeep == ASSUME ShapeInv, JudgeSessions PROVE Kept
<1>1. todo # <<>> /\ Now.key \in DOMAIN rows /\ Now.key \in Keys /\ Now.key[3] < 0
  BY DoingFacts DEF JudgeSessions, RowOps, AllOps, IsInstr
<1>2. JudgeOf(Now.key[1], Now.key[2]) = Now.key
  <2>1. Now.key[3] \in -1..graph[Now.key[1]].fan - 1 /\ Now.key = <<Now.key[1], Now.key[2], Now.key[3]>>
    BY <1>1 DEF Keys
  <2> QED
    BY <1>1, <2>1 DEF JudgeOf
<1>3. \A w \in Passing(Now.key[1], Now.key[2]) : IsNext(Select(w, "judge"))
  <2>1. \A w \in Passing(Now.key[1], Now.key[2]) :
          w \in DOMAIN rows /\ w[3] >= 0 /\ w[1] = Now.key[1] /\ w[2] = Now.key[2]
    BY DEF Passing, Group, At
  <2> QED
    BY <1>1, <1>2, <2>1, RowInstr
<1>4. IsNext(I("gate", Now.key))
  BY <1>1, RowInstr DEF RowOps
<1> QED
  BY <1>1, <1>3, <1>4, DecideThen DEF JudgeSessions

LEMMA SelectsKeep == ASSUME ShapeInv, Selects PROVE Kept
<1> DEFINE w == Now.key
           Settle(k) ==
             IF k = w THEN [rows[k] EXCEPT !.sel = TRUE, !.st = "done"]
             ELSE IF k \in Group(w[1], w[2])
               THEN [rows[k] EXCEPT !.sel = FALSE,
                       !.st = IF @ \in {"pending", "awaiting", "done"} THEN "superseded" ELSE @]
             ELSE IF k = JudgeOf(w[1], w[2])
               THEN [rows[k] EXCEPT !.st = IF @ \in {"pending", "running", "awaiting"} THEN "done" ELSE @]
             ELSE rows[k]
<1>1. todo # <<>> /\ w \in DOMAIN rows /\ w[3] >= 0 /\ RowsInv /\ WritesRows
  BY DoingFacts DEF Selects, RowOps, AllOps, IsInstr
<1>2. CASE /\ rows' = [k \in DOMAIN rows |-> Settle(k)]
           /\ Then(IF Now.by = "person" THEN Unpark(w, "merge", FALSE) ELSE I("merge", w))
  <2>1. ASSUME NEW k \in DOMAIN rows PROVE Settle(k) \in Rows
    <3>1. rows[k] \in Rows
      BY <1>1, RowFields
    <3>2. CASE k = w
      BY <3>1, <3>2 DEF Rows, StepStatuses
    <3>3. CASE k # w /\ k \in Group(w[1], w[2])
      BY <3>1, <3>3 DEF Rows, StepStatuses
    <3>4. CASE k # w /\ k \notin Group(w[1], w[2])
      BY <3>1, <3>4 DEF Rows, StepStatuses
    <3> QED
      BY <3>2, <3>3, <3>4
  <2>2. DOMAIN rows' = DOMAIN rows /\ rows' \in [DOMAIN rows' -> Rows]
    <3> HIDE DEF Settle
    <3> QED
      BY <1>2, <2>1
  <2>3. RowsInv'
    BY <1>1, <2>2 DEF RowsInv, Keys, Phases, WritesRows
  <2>4. IsNext(IF Now.by = "person" THEN Unpark(w, "merge", FALSE) ELSE I("merge", w))
    BY <1>1, RowInstr DEF RowOps
  <2>5. TodoInv'
    BY <1>1, <1>2, <2>2, <2>4, ThenKeeps DEF ShapeInv, WritesRows
  <2> QED
    BY <1>1, <2>2, <2>3, <2>5, WritesKeep
<1>3. CASE rows' = rows /\ Ends
  BY <1>1, <1>3, DecideOver DEF WritesRows, Decides, rowVars
<1>4. CASE rows' = rows /\ Then(I("gate", JudgeOf(w[1], w[2]))) /\ Now.by = "judge"
  <2>1. JudgeOf(w[1], w[2]) \in DOMAIN rows
    BY <1>4, DoingFacts DEF Selects, RowOps, AllOps, IsInstr
  <2>2. IsNext(I("gate", JudgeOf(w[1], w[2])))
    BY <2>1, RowInstr DEF RowOps
  <2> QED
    BY <1>1, <1>4, <2>2, DecideThen DEF WritesRows, Decides, rowVars
<1> QED
  BY <1>2, <1>3, <1>4 DEF Selects

-----------------------------------------------------------------------------
(* And so do recovery, the commands and the cancel.                         *)

LEMMA MergesFrontierKeeps ==
  ASSUME ShapeInv, todo # <<>>, Decides, MergesFrontier
  PROVE  Kept
<1>1. \A w \in Frontier : IsNext(I("merge", w))
  <2>1. \A p : \A w \in Won(p) : w \in DOMAIN rows
    BY DEF Won, Group, At
  <2>2. \A w \in Frontier : w \in DOMAIN rows
    BY <2>1 DEF Frontier
  <2> QED
    BY <2>2, RowInstr DEF RowOps
<1> QED
  BY <1>1, DecideOver, DecideThen DEF MergesFrontier

LEMMA LandOver == \A K : <<[op |-> "land", keys |-> K]>> \o <<Rederive, Pass>> = LandRest(K)
<1>1. ASSUME NEW x, NEW y, NEW z PROVE <<x>> \o <<y, z>> = <<x, y, z>>
  <2> DEFINE S == {x, y, z}
  <2>1. <<x>> \in Seq(S) /\ <<y, z>> \in Seq(S) /\ <<x, y, z>> \in Seq(S)
    OBVIOUS
  <2>2. Len(<<x>>) = 1 /\ Len(<<y, z>>) = 2 /\ Len(<<x, y, z>>) = 3
    OBVIOUS
  <2> HIDE DEF S
  <2>3. /\ <<x>> \o <<y, z>> \in Seq(S) /\ Len(<<x>> \o <<y, z>>) = 3
        /\ \A i \in 1..3 : (<<x>> \o <<y, z>>)[i] = IF i <= 1 THEN <<x>>[i] ELSE <<y, z>>[i - 1]
    BY <2>1, <2>2, ConcatProperties
  <2>4. \A i \in 1..3 : (<<x>> \o <<y, z>>)[i] = <<x, y, z>>[i]
    BY <2>3
  <2> QED
    BY <2>1, <2>2, <2>3, <2>4, SeqEqual
<1> QED
  BY <1>1, Zenon DEF LandRest

LEMMA RecoversKeep == ASSUME ShapeInv, Recovers PROVE Kept
<1> DEFINE running == {k \in DOMAIN rows : St(k) = "running"}
<1>1. todo # <<>> /\ Decides /\ Now.op = "recover" /\ Tail(todo) = <<Rederive, Pass>>
  BY DoingFacts, HeadFacts DEF Recovers, OtherOps, AllOps, ShapeInv, Now
<1>2. CASE Then([op |-> "land", keys |-> running])
  <2>1. todo' = LandRest(running)
    <3>1. todo' = <<[op |-> "land", keys |-> running]>> \o <<Rederive, Pass>>
      BY <1>1, <1>2 DEF Then
    <3> QED
      BY <3>1, LandOver
  <2>2. running \in SUBSET DOMAIN rows'
    BY <1>1 DEF Decides, rowVars
  <2>3. TodoInv'
    <3> HIDE DEF running
    <3>1. PICK K : K = running
      OBVIOUS
    <3>2. IsBack(todo)'
      BY <2>1, <2>2, <3>1 DEF IsBack, LandRest, Rederive, Pass, I
    <3> QED
      BY <3>2 DEF TodoInv
  <2> QED
    BY <1>1, <2>3, DecidesKeeps
<1>3. CASE MergesFrontier
  BY <1>1, <1>3, MergesFrontierKeeps
<1> QED
  BY <1>2, <1>3 DEF Recovers

LEMMA LandsKeep == ASSUME ShapeInv, Lands PROVE Kept
<1>1. todo # <<>> /\ Now.op = "land" /\ WritesRows /\ RowsInv /\ graph \in Graphs /\ TodoInv
  BY DEF Lands, Doing, Now, ShapeInv, Counters
<1>2. PICK K \in SUBSET DOMAIN rows : Now = [op |-> "land", keys |-> K] /\ Tail(todo) = <<Rederive, Pass>>
  <2>1. ~ IsInstr(Head(todo))
    BY <1>1 DEF IsInstr, RowOps, SlotOps, KeysOps, OtherOps, Now
  <2> QED
    BY <1>1, <2>1, BackTails DEF TodoInv, Now
<1>3. Rest = K /\ \A k : Without(k) = [op |-> "land", keys |-> K \ {k}]
  <2>1. PICK now : now = Now
    OBVIOUS
  <2>2. now = [op |-> "land", keys |-> K]
    BY <1>2, <2>1
  <2>3. now.keys = K /\ \A k : [now EXCEPT !.keys = now.keys \ {k}] = [op |-> "land", keys |-> K \ {k}]
    BY <2>2
  <2> QED
    BY <2>1, <2>3 DEF Rest, Without
<1>4. ASSUME NEW k PROVE IsBack(<<Without(k)>> \o Tail(todo))
  <2>1. <<Without(k)>> \o Tail(todo) = LandRest(K \ {k})
    <3>1. <<Without(k)>> \o Tail(todo) = <<[op |-> "land", keys |-> K \ {k}]>> \o <<Rederive, Pass>>
      BY <1>2, <1>3
    <3> QED
      BY <3>1, LandOver
  <2>2. K \ {k} \in SUBSET DOMAIN rows
    BY <1>2
  <2> QED
    BY <2>1, <2>2 DEF IsBack
<1>5. CASE Over /\ rows' = rows
  BY <1>1, <1>5, DecideOver DEF WritesRows, Decides, rowVars
<1>6. ASSUME NEW k \in First(Rest), graph[k[1]].fan > 1, Then(Without(k)),
             rows' = [rows EXCEPT ![k] =
                        IF rows[k].work # "none" /\ k[3] >= 0 THEN To(k, "done")
                        ELSE [To(k, "failed") EXCEPT !.note = "interrupted"]]
      PROVE  Kept
  <2>1. k \in DOMAIN rows
    BY <1>2, <1>3 DEF First
  <2>2. To(k, "done") \in Rows /\ [To(k, "failed") EXCEPT !.note = "interrupted"] \in Rows
    BY <1>1, <2>1, RowFields DEF StepStatuses, Rows
  <2>3. RowsInv' /\ DOMAIN rows' = DOMAIN rows
    BY <1>1, <1>6, <2>1, <2>2, RowWritten DEF WritesRows
  <2>4. PICK t : t = <<Without(k)>> \o Tail(todo)
    OBVIOUS
  <2>5. IsBack(t)'
    BY <1>4, <2>3, <2>4, BackGrows
  <2>6. TodoInv'
    BY <1>6, <2>4, <2>5 DEF Then, TodoInv
  <2> QED
    BY <1>1, <2>3, <2>6, WritesKeep
<1>7. ASSUME NEW k \in First(Rest), rows' = rows,
             todo' = <<IF rows[k].work # "none" THEN Applied(k, rows[k].work, "end") ELSE I("reset", k),
                       Without(k)>> \o Tail(todo)
      PROVE  Kept
  <2>1. k \in DOMAIN rows
    BY <1>2, <1>3 DEF First
  <2>2. PICK t : t = <<Without(k)>> \o Tail(todo)
    OBVIOUS
  <2>3. PICK i : i = IF rows[k].work # "none" THEN Applied(k, rows[k].work, "end") ELSE I("reset", k)
    OBVIOUS
  <2>4. IsNext(i)
    <3>1. rows[k].work \in Works
      BY <1>1, <2>1, RowFields DEF Rows
    <3>2. rows[k].work # "none" => IsNext(Applied(k, rows[k].work, "end"))
      BY <1>1, <2>1, <3>1, AppliedInstr
    <3>3. IsNext(I("reset", k))
      BY <2>1, RowInstr DEF RowOps
    <3> QED
      BY <2>3, <3>2, <3>3
  <2>5. todo' = <<i>> \o t
    BY <1>2, <1>7, <2>2, <2>3
  <2>6. IsBack(t)
    BY <1>4, <2>2
  <2>7. todo' # <<>> /\ Head(todo') = i /\ Tail(todo') = t
    BY <2>5, <2>6, BackIsSeq
  <2>8. IsBack(t)' /\ IsInstr(i)'
    BY <1>1, <1>7, <2>4, <2>6, BackGrows, InstrGrows DEF IsNext, WritesRows
  <2>9. TodoInv'
    BY <2>4, <2>7, <2>8 DEF TodoInv, IsNext
  <2> QED
    BY <1>1, <1>7, <2>9, DecidesKeeps DEF WritesRows, Decides, rowVars
<1> QED
  BY <1>5, <1>6, <1>7 DEF Lands

LEMMA ResetsKeep == ASSUME ShapeInv, Resets PROVE Kept
<1> DEFINE k == Now.key
<1>1. todo # <<>> /\ k \in DOMAIN rows /\ RowsInv /\ graph \in Graphs /\ WritesRows
  BY DoingFacts DEF Resets, RowOps, AllOps
<1>2. \A note \in {"interrupted", "not_reset"} : [To(k, "failed") EXCEPT !.note = note] \in Rows
  BY <1>1, RowFields DEF StepStatuses, Rows
<1>3. IsNext(IF MayAttempt(k[1], k[2] + 1) THEN Admit(k[1], k[2] + 1) ELSE ParkRun)
  BY <1>1, NextAttempt, RunInstr
<1>4. IsNext(ParkRun)
  BY RunInstr
<1>5. CASE rows' = rows /\ Over
  BY <1>1, <1>5, DecideOver DEF WritesRows, Decides, rowVars
<1>6. ASSUME NEW note \in {"interrupted", "not_reset"}, NEW i, IsNext(i), Then(i),
             rows' = [rows EXCEPT ![k] = [To(k, "failed") EXCEPT !.note = note]]
      PROVE  Kept
  BY <1>1, <1>2, <1>6, RowKeeps
<1> QED
  BY <1>3, <1>4, <1>5, <1>6 DEF Resets

LEMMA RederivesKeep == ASSUME ShapeInv, Rederives PROVE Kept
<1>1. todo # <<>> /\ Decides
  BY DEF Rederives, Doing
<1>2. RestsFailed => IsNext(SettleFailed(Cursor.key))
  BY CursorInstr, SettledInstr DEF ShapeInv, Counters, RestsFailed
<1> QED
  BY <1>1, <1>2, RunInstr, DecideThen, DecideOver DEF Rederives

LEMMA CancelsRunKeep == ASSUME ShapeInv, CancelsRun PROVE Kept
<1> DEFINE open == {k \in DOMAIN rows : St(k) \notin TerminalStep}
<1>1. todo # <<>> /\ Decides
  BY DEF CancelsRun, Doing
<1>2. IsNext([op |-> "cancels", keys |-> open])
  <2>1. open \subseteq DOMAIN rows
    OBVIOUS
  <2> HIDE DEF open
  <2> QED
    BY <2>1 DEF IsNext, IsInstr, RowOps, SlotOps, KeysOps, OtherOps
<1>3. Then([op |-> "cancels", keys |-> open])
  BY DEF CancelsRun
<1> HIDE DEF open
<1> QED
  BY <1>1, <1>2, <1>3, DecideThen

LEMMA CancelsRowsKeep == ASSUME ShapeInv, CancelsRows PROVE Kept
<1>1. /\ todo # <<>> /\ Now.op = "cancels" /\ IsInstr(Now) /\ Rest \subseteq DOMAIN rows /\ RowsInv /\ WritesRows
  BY DoingFacts DEF CancelsRows, KeysOps, AllOps, Rest
<1>2. CASE rows' = rows /\ Then(Finish("cancelled"))
  BY <1>1, <1>2, RunInstr, DecideThen DEF WritesRows, Decides, rowVars
<1>3. ASSUME NEW k \in First(Rest), rows' = [rows EXCEPT ![k] = To(k, "cancelled")], Then(Without(k)) PROVE Kept
  <2>1. k \in DOMAIN rows /\ To(k, "cancelled") \in Rows
    BY <1>1, RowFields DEF First, StepStatuses
  <2>2. IsNext(Without(k))
    BY <1>1, WithoutInstr DEF KeysOps
  <2> QED
    BY <1>1, <1>3, <2>1, <2>2, RowKeeps
<1> QED
  BY <1>2, <1>3 DEF CancelsRows

LEMMA ApprovesRowKeep == ASSUME ShapeInv, ApprovesRow PROVE Kept
<1> DEFINE k == Now.key
<1>1. todo # <<>> /\ k \in DOMAIN rows /\ rows[k] \in Rows /\ IsNext(Unpark(k, "merge", FALSE))
  BY DoingFacts, RowInstr DEF ApprovesRow, RowOps, AllOps
<1>2. [rows[k] EXCEPT !.st = "done", !.ans = "approved"] \in Rows
  BY <1>1 DEF Rows, StepStatuses
<1> QED
  BY <1>1, <1>2, MovesKeep DEF ApprovesRow

LEMMA RetriesRowKeep == ASSUME ShapeInv, RetriesRow PROVE Kept
<1> DEFINE k == Now.key
<1>1. todo # <<>> /\ k \in DOMAIN rows /\ rows[k] \in Rows /\ IsNext(Unpark(k, "readmit", Now.must))
  BY DoingFacts, RowInstr DEF RetriesRow, RowOps, AllOps
<1>2. [rows[k] EXCEPT !.st = "superseded", !.ans = "retried"] \in Rows
  BY <1>1 DEF Rows, StepStatuses
<1> QED
  BY <1>1, <1>2, MovesKeep DEF RetriesRow

LEMMA UnparksKeep == ASSUME ShapeInv, Unparks PROVE Kept
<1>1. todo # <<>> /\ IsInstr(Now) /\ Now.op = "unpark" /\ graph' = graph /\ rows' = rows /\ RowsInv
  BY DoingFacts DEF Unparks, OtherOps, AllOps
<1>2. IsNext(I(Now.then, Now.key))
  <2>1. \/ Now.then \in {"merge", "rejection", "readmit"} /\ Now.key \in DOMAIN rows
        \/ Now.then = "admit" /\ Now.key \in Slots
        \/ Now.then = "settle"
    BY <1>1 DEF IsInstr
  <2>2. CASE Now.then \in {"merge", "rejection", "readmit"} /\ Now.key \in DOMAIN rows
    BY <2>2, RowInstr DEF RowOps
  <2>3. CASE Now.then = "admit" /\ Now.key \in Slots
    BY <2>3 DEF IsNext, IsInstr, I, RowOps, SlotOps, KeysOps, OtherOps
  <2>4. CASE Now.then = "settle"
    BY <2>4 DEF IsNext, IsInstr, I, RowOps, SlotOps, KeysOps, OtherOps
  <2> QED
    BY <2>1, <2>2, <2>3, <2>4
<1>3. TodoInv'
  BY <1>1, <1>2, ThenKeeps, OverKeeps, EndsKeeps DEF Unparks, ShapeInv
<1> QED
  BY <1>1, <1>3 DEF Unparks, Kept, ShapeInv, Counters, RowsInv, Keys, Phases, RunStatuses, ActiveRun, TerminalRun

LEMMA TailsKeep ==
  ASSUME ShapeInv, Rejections \/ Readmits \/ WalksOn \/ Settles
  PROVE  Kept
<1>1. CASE Rejections
  <2>1. todo # <<>> /\ Now.key \in DOMAIN rows
    BY <1>1, DoingFacts DEF Rejections, RowOps, AllOps
  <2> QED
    BY <1>1, <2>1, RejectionInstr, DecideThen DEF Rejections
<1>2. CASE Readmits
  <2>1. todo # <<>> /\ Now.key \in DOMAIN rows /\ RowsInv /\ graph \in Graphs
    BY <1>2, DoingFacts DEF Readmits, RowOps, AllOps
  <2> QED
    BY <1>2, <2>1, NextAttempt, DecideThen DEF Readmits
<1>3. CASE WalksOn
  BY <1>3, RunInstr, DecideOver, DecideThen DEF WalksOn, Doing
<1>4. CASE Settles
  <2>1. todo # <<>> /\ Decides
    BY <1>4 DEF Settles, Doing
  <2>2. RestsFailed => IsNext(SettleFailed(Cursor.key))
    BY CursorInstr, SettledInstr DEF ShapeInv, Counters, RestsFailed
  <2> QED
    BY <1>4, <2>1, <2>2, MergesFrontierKeeps, DecideThen DEF Settles
<1> QED
  BY <1>1, <1>2, <1>3, <1>4

\* Every step of the holder of the lease.
LEMMA WalksKeep == ASSUME ShapeInv, Walks PROVE Kept
<1>1. CASE WalksStep
  BY <1>1, PassesKeep, AdmitsKeep, CreatesKeep, StartsKeep, SessionsKeep, ParksKeep, AcceptsKeep, FailsHardKeep,
     SpendsKeep, GatesItselfKeep, RejectsRowKeep, MergesKeep, LoopsKeep, RetiresKeep, ParksRunKeep,
     FinishesKeep, BlocksKeep DEF WalksStep
<1>2. CASE WalksGroup
  BY <1>2, FansKeep, RefusesKeep, CandidatesKeep, GroupEndsKeep, ChoosesKeep, JudgeSessionsKeep, SelectsKeep
     DEF WalksGroup
<1>3. CASE Serves
  BY <1>3, RecoversKeep, LandsKeep, ResetsKeep, RederivesKeep, CancelsRunKeep, CancelsRowsKeep, ApprovesRowKeep,
     RetriesRowKeep, UnparksKeep, TailsKeep DEF Serves
<1> QED
  BY <1>1, <1>2, <1>3 DEF Walks

-----------------------------------------------------------------------------
(* The shape is kept by every step of the system.                           *)

LEMMA TypeFromShape ==
  ASSUME RowsInv, AskedInv, Counters
  PROVE  TypeOK
<1>1. \A k \in DOMAIN rows :
        /\ k[1] \in Phases /\ k[2] \in Nat \ {0} /\ k[3] \in -1..graph[k[1]].fan - 1
        /\ rows[k] \in Rows
  BY DEF RowsInv, Keys
<1>2. ASSUME NEW h \in People PROVE asked[h] = <<>> \/ (Len(asked[h]) = 1 /\ asked[h][1].op \in AskedOps)
  <2>1. CASE asked[h] # <<>>
    <3>1. PICK i : i = asked[h][1]
      OBVIOUS
    <3>2. asked[h] = <<i>> /\ i.op \in AskedOps
      BY <2>1, <3>1 DEF AskedInv
    <3> QED
      BY <3>1, <3>2
  <2> QED
    BY <2>1
<1> QED
  BY <1>1, <1>2 DEF TypeOK, Counters, AskedOps

LEMMA AskedGrows ==
  ASSUME AskedInv, asked' = asked, graph' = graph, DOMAIN rows \subseteq DOMAIN rows'
  PROVE  AskedInv'
<1>1. asked' = [h \in People |-> asked'[h]]
  BY DEF AskedInv
<1>2. PICK f : f = asked
  OBVIOUS
<1>3. ASSUME NEW h \in People, f[h] # <<>>
      PROVE  f[h] = <<f[h][1]>> /\ f[h][1].op \in AskedOps /\ IsInstr(f[h][1])'
  <2>1. PICK i : i = f[h][1]
    OBVIOUS
  <2>2. IsInstr(i)' /\ i.op \in AskedOps /\ f[h] = <<i>>
    BY <1>2, <1>3, <2>1, InstrGrows DEF AskedInv
  <2> QED
    BY <2>1, <2>2
<1> QED
  BY <1>1, <1>2, <1>3 DEF AskedInv

\* A command is added to those on their way.
LEMMA AsksKeep ==
  ASSUME ShapeInv, NEW h \in People, NEW i, IsInstr(i), i.op \in AskedOps, Asks(h, i)
  PROVE  ShapeInv'
<1>1. rows' = rows /\ graph' = graph /\ todo' = todo /\ run' = run
  BY DEF Asks, rowVars
<1>2. RowsInv'
  BY <1>1 DEF ShapeInv, RowsInv, Keys, Phases
<1>3. TodoInv'
  <2>1. CASE IsBack(todo)
    <3>1. PICK t : t = todo
      OBVIOUS
    <3> QED
      BY <1>1, <2>1, <3>1, BackGrows DEF TodoInv
  <2>2. CASE ~ IsBack(todo)
    <3>1. PICK j : j = Head(todo)
      OBVIOUS
    <3>2. PICK t : t = Tail(todo)
      OBVIOUS
    <3>3. IsInstr(j)' /\ IsBack(t)'
      BY <1>1, <2>2, <3>1, <3>2, InstrGrows, BackGrows DEF ShapeInv, TodoInv
    <3> QED
      BY <1>1, <2>2, <3>1, <3>2, <3>3 DEF ShapeInv, TodoInv
  <2> QED
    BY <2>1, <2>2
<1>4. AskedInv'
  <2>1. PICK f : f = asked'
    OBVIOUS
  <2>2. f = [g \in People |-> IF g = h THEN <<i>> ELSE asked[g]]
    BY <2>1 DEF Asks, ShapeInv, AskedInv
  <2>3. f = [g \in People |-> f[g]]
    BY <2>2
  <2>4. ASSUME NEW g \in People, f[g] # <<>>
        PROVE  f[g] = <<f[g][1]>> /\ f[g][1].op \in AskedOps /\ IsInstr(f[g][1])'
    <3>1. PICK j : j = f[g][1]
      OBVIOUS
    <3>2. CASE g = h
      <4>1. f[g] = <<i>> /\ j = i
        BY <2>2, <3>1, <3>2
      <4> QED
        BY <1>1, <3>1, <4>1, InstrGrows
    <3>3. CASE g # h
      <4>1. f[g] = asked[g] /\ j = asked[g][1]
        BY <2>2, <3>1, <3>3
      <4>2. f[g] = <<j>> /\ j.op \in AskedOps /\ IsInstr(j)
        BY <2>4, <4>1 DEF ShapeInv, AskedInv
      <4> QED
        BY <1>1, <3>1, <4>2, InstrGrows
    <3> QED
      BY <3>2, <3>3
  <2> QED
    BY <2>1, <2>3, <2>4 DEF AskedInv
<1>5. Counters'
  BY BoundsAssumption DEF ShapeInv, Counters, Asks, rowVars, history
<1>6. run' \in TerminalRun => todo' = <<>>
  BY <1>1 DEF ShapeInv
<1> QED
  BY <1>2, <1>3, <1>4, <1>5, <1>6 DEF ShapeInv

LEMMA AsksShaped ==
  ASSUME ShapeInv, NEW h \in People,
         Approves(h) \/ Rejects(h) \/ Retries(h) \/ RetriesGroup(h) \/ Picks(h) \/ Resumes(h)
  PROVE  ShapeInv'
<1> USE DEF RowOps, SlotOps, KeysOps, OtherOps, AskedOps
<1>1. CASE Approves(h)
  <2>1. PICK k \in DOMAIN rows : Asks(h, I("approve", k))
    BY <1>1 DEF Approves, Asked
  <2>2. IsInstr(I("approve", k)) /\ I("approve", k).op \in AskedOps
    BY DEF IsInstr, I
  <2> QED
    BY <2>1, <2>2, AsksKeep
<1>2. CASE Rejects(h)
  <2>1. PICK k \in DOMAIN rows : Asks(h, Reject(k, "person"))
    BY <1>2 DEF Rejects, Asked
  <2>2. IsInstr(Reject(k, "person")) /\ Reject(k, "person").op \in AskedOps
    BY DEF IsInstr, Reject
  <2> QED
    BY <2>1, <2>2, AsksKeep
<1>3. CASE Retries(h)
  <2>1. PICK k \in DOMAIN rows :
          LET unpark == Unpark(k, "readmit", run = "awaiting")
          IN  Asks(h, IF St(k) = "awaiting" THEN [unpark EXCEPT !.op = "retry"] ELSE unpark)
    BY <1>3 DEF Retries
  <2>2. \A must : /\ IsInstr(Unpark(k, "readmit", must)) /\ Unpark(k, "readmit", must).op \in AskedOps
                  /\ IsInstr([Unpark(k, "readmit", must) EXCEPT !.op = "retry"])
                  /\ [Unpark(k, "readmit", must) EXCEPT !.op = "retry"].op \in AskedOps
    BY DEF IsInstr, Unpark
  <2> QED
    BY <2>1, <2>2, AsksKeep
<1>4. CASE RetriesGroup(h)
  <2>1. PICK p \in Phases : Last(p) > 0 /\ Asks(h, Retire(<<p, Last(p), 0>>, {p}, "unpark"))
    BY <1>4 DEF RetriesGroup
  <2>2. <<p, Last(p), 0>> \in Slots
    BY <2>1, LastFacts DEF Slots, ShapeInv
  <2>3. IsInstr(Retire(<<p, Last(p), 0>>, {p}, "unpark"))
    BY <2>2, RetireInstr DEF IsNext
  <2>4. Retire(<<p, Last(p), 0>>, {p}, "unpark").op = "retire"
    BY DEF Retire
  <2> QED
    BY <2>1, <2>3, <2>4, AsksKeep
<1>5. CASE Picks(h)
  <2>1. PICK w \in DOMAIN rows : w \in Group(w[1], w[2]) /\ Asks(h, Select(w, "person"))
    BY <1>5 DEF Picks
  <2>2. w[3] >= 0
    BY <2>1 DEF Group
  <2>3. IsInstr(Select(w, "person")) /\ Select(w, "person").op \in AskedOps
    BY <2>2 DEF IsInstr, Select
  <2> QED
    BY <2>1, <2>3, AsksKeep
<1>6. CASE Resumes(h)
  <2>1. Asks(h, I("resume", <<0, 0, 0>>))
    BY <1>6 DEF Resumes
  <2>2. IsInstr(I("resume", <<0, 0, 0>>)) /\ I("resume", <<0, 0, 0>>).op \in AskedOps
    BY DEF IsInstr, I
  <2> QED
    BY <2>1, <2>2, AsksKeep
<1> QED
  BY <1>1, <1>2, <1>3, <1>4, <1>5, <1>6

LEMMA TakesShaped ==
  ASSUME ShapeInv, NEW h \in People, Takes(h)
  PROVE  ShapeInv'
<1>1. rows' = rows /\ graph' = graph /\ run' = run /\ run \in {"running", "awaiting"}
  BY DEF Takes, rowVars
<1>2. RowsInv'
  BY <1>1 DEF ShapeInv, RowsInv, Keys, Phases
<1>3. TodoInv'
  <2>1. PICK i : i = asked[h][1]
    OBVIOUS
  <2>2. asked[h] = <<i>> /\ IsInstr(i) /\ i.op \in AskedOps
    BY <2>1 DEF Takes, ShapeInv, AskedInv
  <2>3. PICK t : t = IF tails = "walk" THEN <<Pass>> ELSE <<>>
    OBVIOUS
  <2>4. IsBack(t) /\ todo' = <<i>> \o t
    BY <2>2, <2>3 DEF IsBack, Takes
  <2>5. todo' # <<>> /\ Head(todo') = i /\ Tail(todo') = t
    BY <2>4, BackIsSeq
  <2>6. IsInstr(i)' /\ IsBack(t)' /\ i.op # "recover"
    BY <1>1, <2>2, <2>4, InstrGrows, BackGrows DEF AskedOps
  <2> QED
    BY <2>5, <2>6 DEF TodoInv
<1>4. AskedInv'
  <2>1. PICK f : f = asked'
    OBVIOUS
  <2>2. f = [g \in People |-> IF g = h THEN <<>> ELSE asked[g]]
    BY <2>1 DEF Takes, ShapeInv, AskedInv
  <2>3. f = [g \in People |-> f[g]]
    BY <2>2
  <2>4. ASSUME NEW g \in People, f[g] # <<>>
        PROVE  f[g] = <<f[g][1]>> /\ f[g][1].op \in AskedOps /\ IsInstr(f[g][1])'
    <3>1. PICK j : j = f[g][1]
      OBVIOUS
    <3>2. f[g] = asked[g] /\ j = asked[g][1]
      BY <2>2, <2>4, <3>1
    <3>3. f[g] = <<j>> /\ j.op \in AskedOps /\ IsInstr(j)
      BY <2>4, <3>2 DEF ShapeInv, AskedInv
    <3> QED
      BY <1>1, <3>1, <3>3, InstrGrows
  <2> QED
    BY <2>1, <2>3, <2>4 DEF AskedInv
<1>5. Counters'
  BY DEF ShapeInv, Counters, Takes, rowVars
<1> QED
  BY <1>1, <1>2, <1>3, <1>4, <1>5 DEF ShapeInv, TerminalRun

\* What the sweep, the cancel and a crash make of the walk.
LEMMA RestShaped ==
  ASSUME ShapeInv, Sweeps \/ Unblocks \/ RequestsCancel \/ TakesCancel \/ Drops \/ UNCHANGED vars
  PROVE  ShapeInv'
<1>1. rows' = rows /\ graph' = graph /\ run' = run /\ asked' = asked
  BY DEF Sweeps, Unblocks, RequestsCancel, TakesCancel, Drops, vars, rowVars
<1>2. RowsInv'
  BY <1>1 DEF ShapeInv, RowsInv, Keys, Phases
<1>3. AskedInv'
  BY <1>1, AskedGrows DEF ShapeInv
<1>4. Counters'
  <2>1. CASE Sweeps \/ UNCHANGED vars
    BY <2>1 DEF ShapeInv, Counters, Sweeps, vars, rowVars, history
  <2>2. CASE Unblocks
    <3>1. blocked' \in BOOLEAN
      BY <2>2, Zenon DEF Unblocks
    <3>2. events' \in 0..MaxEvents
      BY <2>2, BoundsAssumption DEF ShapeInv, Counters, Unblocks
    <3> QED
      BY <2>2, <3>1, <3>2 DEF ShapeInv, Counters, Unblocks, history
  <2>3. CASE RequestsCancel
    BY <2>3, BoundsAssumption DEF ShapeInv, Counters, RequestsCancel, rowVars, history
  <2>4. CASE TakesCancel
    BY <2>4 DEF ShapeInv, Counters, TakesCancel, Tears, Doing, rowVars
  <2>5. CASE Drops
    BY <2>5, BoundsAssumption DEF ShapeInv, Counters, Drops, Tears, Doing, rowVars
  <2> QED
    BY <2>1, <2>2, <2>3, <2>4, <2>5
<1>5. TodoInv' /\ (run' \in TerminalRun => todo' = <<>>)
  <2>1. CASE todo' = todo
    <3>1. TodoInv'
      <4>1. CASE IsBack(todo)
        <5>1. PICK t : t = todo
          OBVIOUS
        <5> QED
          BY <1>1, <2>1, <4>1, <5>1, BackGrows DEF TodoInv
      <4>2. CASE ~ IsBack(todo)
        <5>1. PICK j : j = Head(todo)
          OBVIOUS
        <5>2. PICK t : t = Tail(todo)
          OBVIOUS
        <5>3. IsInstr(j)' /\ IsBack(t)'
          BY <1>1, <4>2, <5>1, <5>2, InstrGrows, BackGrows DEF ShapeInv, TodoInv
        <5> QED
          BY <1>1, <2>1, <4>2, <5>1, <5>2, <5>3 DEF ShapeInv, TodoInv
      <4> QED
        BY <4>1, <4>2
    <3> QED
      BY <1>1, <2>1, <3>1 DEF ShapeInv
  <2>2. CASE todo' = <<>>
    BY <2>2 DEF TodoInv, IsBack
  <2>3. CASE Sweeps
    <3>1. PICK i : i = I("recover", <<0, 0, 0>>)
      OBVIOUS
    <3>2. PICK t : t = <<Rederive, Pass>>
      OBVIOUS
    <3>3. todo' = <<i, Rederive, Pass>>
      BY <2>3, <3>1 DEF Sweeps, Rederive
    <3>4. todo' # <<>> /\ Head(todo') = i /\ Tail(todo') = t
      BY <3>2, <3>3
    <3>5. IsInstr(i)' /\ IsBack(t)'
      BY <3>1, <3>2 DEF IsInstr, IsBack, I, Rederive, Pass, RowOps, SlotOps, KeysOps, OtherOps
    <3> QED
      BY <1>1, <2>3, <3>2, <3>4, <3>5 DEF TodoInv, Sweeps, TerminalRun, Rederive, Pass, I
  <2>4. CASE TakesCancel
    <3>1. PICK i : i = I("cancel", <<0, 0, 0>>)
      OBVIOUS
    <3>2. todo' # <<>> /\ Head(todo') = i /\ Tail(todo') = <<>>
      BY <2>4, <3>1 DEF TakesCancel
    <3>3. IsInstr(i)' /\ IsBack(<<>>)' /\ i.op # "recover"
      BY <3>1 DEF IsInstr, IsBack, I, RowOps, SlotOps, KeysOps, OtherOps
    <3> QED
      BY <1>1, <2>4, <3>2, <3>3 DEF TodoInv, TakesCancel, TerminalRun
  <2> QED
    BY <2>1, <2>2, <2>3, <2>4 DEF Sweeps, Unblocks, RequestsCancel, TakesCancel, Drops, vars
<1> QED
  BY <1>2, <1>3, <1>4, <1>5 DEF ShapeInv

LEMMA WalksShaped ==
  ASSUME ShapeInv, Walks
  PROVE  ShapeInv'
<1>1. Kept /\ asked' = asked
  BY WalksKeep DEF Walks
<1>2. AskedInv'
  BY <1>1, AskedGrows DEF Kept, ShapeInv
<1>3. Counters'
  BY <1>1 DEF ShapeInv, Kept, Counters, Walks, Doing, Overlooks
<1> QED
  BY <1>1, <1>2, <1>3 DEF ShapeInv, Kept

LEMMA ShapeInit ==
  ASSUME Init
  PROVE  ShapeInv
<1>1. DOMAIN rows = {}
  BY DEF Init
<1>2. RowsInv
  BY <1>1, FS_EmptySet DEF Init, RowsInv
<1>3. TodoInv /\ AskedInv
  BY DEF Init, TodoInv, IsBack, AskedInv
<1>4. Counters
  <2>1. blocked \in BOOLEAN /\ late \in BOOLEAN /\ torn \in BOOLEAN /\ blind \in BOOLEAN
    BY Zenon DEF Init
  <2>2. events \in 0..MaxEvents /\ drops \in 0..MaxDrops
    BY BoundsAssumption DEF Init
  <2> QED
    BY <2>1, <2>2 DEF Init, Counters, RunStatuses, ActiveRun
<1> QED
  BY <1>2, <1>3, <1>4 DEF ShapeInv, Init, TerminalRun

LEMMA ShapeNext ==
  ASSUME ShapeInv, [Next]_vars
  PROVE  ShapeInv'
<1>1. CASE Walks
  BY <1>1, WalksShaped
<1>2. CASE Sweeps \/ Unblocks \/ RequestsCancel \/ TakesCancel \/ Drops \/ UNCHANGED vars
  BY <1>2, RestShaped
<1>3. ASSUME NEW h \in People, Commands(h) PROVE ShapeInv'
  BY <1>3, AsksShaped, TakesShaped DEF Commands
<1> QED
  BY <1>1, <1>2, <1>3 DEF Next

\* What there is to do is always one instruction of the walk and what the walk goes back to, and
\* every instruction and every command on its way is about rows or slots the graph has, also after
\* a command was overtaken (late) or a walk cut short (torn): engine.rs, run_to_rest.
THEOREM ShapeHolds == Spec => []ShapeInv
<1>1. Init => ShapeInv
  BY ShapeInit
<1>2. ShapeInv /\ [Next]_vars => ShapeInv'
  BY ShapeNext
<1> QED
  BY <1>1, <1>2, PTL DEF Spec

\* Every row is a candidate or a judge of the graph's positions, with fields of their kinds
\* (write.rs, create_step and the row moves).
THEOREM TypeHolds == Spec => []TypeOK
<1>1. ShapeInv => TypeOK
  BY TypeFromShape DEF ShapeInv
<1> QED
  BY <1>1, ShapeHolds, PTL

-----------------------------------------------------------------------------
(* One winner a group: only a selection selects, and it does away with any  *)
(* that was selected before.                                                *)

NoneSelected ==
  /\ graph' = graph
  /\ \A k \in DOMAIN rows' : rows'[k].sel => k \in DOMAIN rows /\ rows[k].sel

LEMMA NoneSelectedKeeps ==
  ASSUME SelectedInv, NoneSelected
  PROVE  SelectedInv'
BY DEF SelectedInv, OneWinner, NoneSelected

LEMMA RowNotSelected ==
  ASSUME graph' = graph, NEW k \in DOMAIN rows, NEW row, row.sel = rows[k].sel,
         rows' = rows \/ rows' = [rows EXCEPT ![k] = row]
  PROVE  NoneSelected
BY DEF NoneSelected

LEMMA MovedNotSelected ==
  ASSUME NEW k \in DOMAIN rows, NEW row, row.sel = rows[k].sel, NEW from, NEW next, Moves(k, from, row, next)
  PROVE  NoneSelected
<1>1. graph' = graph /\ (rows' = rows \/ rows' = [rows EXCEPT ![k] = row])
  BY DEF Moves, WritesRows
<1> QED
  BY <1>1, RowNotSelected

\* What a write leaves alone of a row.
LEMMA RowExcept ==
  ASSUME RowsInv, NEW k \in DOMAIN rows
  PROVE  /\ \A st : /\ To(k, st).sel = rows[k].sel
                    /\ \A x : [To(k, st) EXCEPT !.note = x].sel = rows[k].sel
         /\ \A st : \A x : [rows[k] EXCEPT !.st = st, !.ans = x].sel = rows[k].sel
         /\ \A x : /\ [rows[k] EXCEPT !.work = x].sel = rows[k].sel
                   /\ [rows[k] EXCEPT !.merged = x].sel = rows[k].sel
<1>1. rows[k] \in Rows
  BY RowFields
<1> QED
  BY <1>1 DEF To, Rows

LEMMA DecidesNotSelects ==
  ASSUME Decides \/ UNCHANGED <<graph, rows>>
  PROVE  NoneSelected
BY DEF Decides, rowVars, NoneSelected

\* The writes of a row that was decided on in some status.
LEMMA MovesNotSelect ==
  ASSUME ShapeInv,
         \/ Starts \/ Accepts \/ FailsHard \/ Spends \/ GatesItself \/ RejectsRow \/ ApprovesRow \/ RetriesRow
         \/ Parks \/ Merges \/ Sessions \/ Resets
  PROVE  NoneSelected
<1> DEFINE k == Now.key
<1>1. k \in DOMAIN rows /\ RowsInv
  BY DoingFacts DEF RowOps, AllOps, Starts, Accepts, FailsHard, Spends, GatesItself, RejectsRow, ApprovesRow,
     RetriesRow, Parks, Merges, Sessions, Resets
<1>2. \A st : To(k, st).sel = rows[k].sel /\ \A x : [To(k, st) EXCEPT !.note = x].sel = rows[k].sel
  BY <1>1, RowExcept
<1>3. \A st : \A x : [rows[k] EXCEPT !.st = st, !.ans = x].sel = rows[k].sel
  BY <1>1, RowExcept
<1>4. \A x : [rows[k] EXCEPT !.work = x].sel = rows[k].sel /\ [rows[k] EXCEPT !.merged = x].sel = rows[k].sel
  BY <1>1, RowExcept
<1>5. CASE Starts \/ FailsHard \/ Spends \/ GatesItself
  BY <1>1, <1>2, <1>5, MovedNotSelected DEF Starts, FailsHard, Spends, GatesItself
<1>6. CASE Accepts \/ RejectsRow \/ ApprovesRow \/ RetriesRow
  BY <1>1, <1>3, <1>6, MovedNotSelected DEF Accepts, RejectsRow, ApprovesRow, RetriesRow
<1>7. CASE Parks
  <2>1. graph' = graph /\ (rows' = rows \/ rows' = [rows EXCEPT ![k] = To(k, "awaiting")])
    BY <1>7 DEF Parks
  <2> QED
    BY <1>1, <1>2, <2>1, RowNotSelected
<1>8. CASE Merges
  <2>1. graph' = graph /\ (rows' = rows \/ rows' = [rows EXCEPT ![k] = [rows[k] EXCEPT !.merged = TRUE]])
    BY <1>8 DEF Merges, WritesRows
  <2> QED
    BY <1>1, <1>4, <2>1, RowNotSelected
<1>9. CASE Sessions
  <2>1. graph' = graph /\ (rows' = rows \/ \E work : rows' = [rows EXCEPT ![k] = [rows[k] EXCEPT !.work = work]])
    BY <1>9 DEF Sessions, WritesRows
  <2> QED
    BY <1>1, <1>4, <2>1, RowNotSelected
<1>10. CASE Resets
  <2>1. /\ graph' = graph
        /\ rows' = rows \/ \E note : rows' = [rows EXCEPT ![k] = [To(k, "failed") EXCEPT !.note = note]]
    BY <1>10 DEF Resets, WritesRows
  <2> QED
    BY <1>1, <1>2, <2>1, RowNotSelected
<1> QED
  BY <1>5, <1>6, <1>7, <1>8, <1>9, <1>10

\* The writes that go through several rows.
LEMMA SweepsNotSelect ==
  ASSUME ShapeInv, Creates \/ Retires \/ Refuses \/ CancelsRows \/ Lands \/ CandidateStarts \/ CandidateWorks \/ CandidateEnds
  PROVE  NoneSelected
<1>1. RowsInv
  BY DEF ShapeInv
<1>2. CASE Creates
  <2>1. graph' = graph
    BY <1>2 DEF Creates, WritesRows
  <2>2. CASE rows' = rows
    BY <2>1, <2>2 DEF NoneSelected
  <2>3. ASSUME NEW k, k \notin DOMAIN rows,
               rows' = [j \in DOMAIN rows \cup {k} |-> IF j = k THEN NewRow ELSE rows[j]]
        PROVE  NoneSelected
    <3>1. ~ NewRow.sel
      BY DEF NewRow
    <3>2. /\ DOMAIN rows' = DOMAIN rows \cup {k} /\ rows'[k] = NewRow
          /\ \A j \in DOMAIN rows : rows'[j] = rows[j]
      BY <2>3
    <3> QED
      BY <2>1, <3>1, <3>2 DEF NoneSelected
  <2> QED
    BY <1>2, <2>2, <2>3 DEF Creates
<1>3. CASE Retires \/ Refuses \/ CancelsRows
  <2>1. Rest \subseteq DOMAIN rows
    BY <1>3, DoingFacts DEF Retires, Refuses, CancelsRows, KeysOps, AllOps, Rest
  <2>2. CASE Decides \/ UNCHANGED <<graph, rows>>
    BY <2>2, DecidesNotSelects
  <2>3. ASSUME NEW k \in First(Rest), NEW from, NEW st, NEW next, Moves(k, from, To(k, st), next)
        PROVE  NoneSelected
    BY <1>1, <2>1, <2>3, RowExcept, MovedNotSelected DEF First
  <2>4. ASSUME NEW k \in First(Rest), graph' = graph, rows' = [rows EXCEPT ![k] = To(k, "cancelled")]
        PROVE  NoneSelected
    BY <1>1, <2>1, <2>4, RowExcept, RowNotSelected DEF First
  <2>5. CASE Retires
    BY <2>2, <2>3, <2>5 DEF Retires
  <2>6. CASE Refuses
    BY <2>2, <2>3, <2>6 DEF Refuses
  <2>7. CASE CancelsRows
    BY <2>2, <2>4, <2>7 DEF CancelsRows, WritesRows
  <2> QED
    BY <1>3, <2>5, <2>6, <2>7
<1>4. CASE Lands
  <2>1. Rest \subseteq DOMAIN rows
    <3>1. todo # <<>> /\ Head(todo).op = "land" /\ ~ IsInstr(Head(todo))
      BY <1>4 DEF Lands, Doing, IsInstr, RowOps, SlotOps, KeysOps, OtherOps
    <3> QED
      BY <3>1, BackTails DEF ShapeInv, TodoInv, Rest, Now
  <2>2. graph' = graph
    BY <1>4 DEF Lands, WritesRows
  <2>3. \/ rows' = rows
        \/ \E k \in Rest : \/ rows' = [rows EXCEPT ![k] = To(k, "done")]
                           \/ rows' = [rows EXCEPT ![k] = [To(k, "failed") EXCEPT !.note = "interrupted"]]
    BY <1>4 DEF Lands, First
  <2>4. CASE rows' = rows
    BY <2>2, <2>4 DEF NoneSelected
  <2>5. ASSUME NEW k \in Rest, NEW row, row.sel = rows[k].sel, rows' = [rows EXCEPT ![k] = row]
        PROVE  NoneSelected
    BY <2>1, <2>2, <2>5, RowNotSelected
  <2>6. \A k \in Rest : \A st : To(k, st).sel = rows[k].sel /\ \A x : [To(k, st) EXCEPT !.note = x].sel = rows[k].sel
    BY <1>1, <2>1, RowExcept
  <2>7. ASSUME NEW k \in Rest,
               \/ rows' = [rows EXCEPT ![k] = To(k, "done")]
               \/ rows' = [rows EXCEPT ![k] = [To(k, "failed") EXCEPT !.note = "interrupted"]]
        PROVE  NoneSelected
    <3>1. To(k, "done").sel = rows[k].sel
      BY <2>6
    <3>2. [To(k, "failed") EXCEPT !.note = "interrupted"].sel = rows[k].sel
      BY <2>6
    <3> QED
      BY <2>5, <2>7, <3>1, <3>2
  <2> QED
    BY <2>3, <2>4, <2>7
<1>5. CASE CandidateStarts \/ CandidateWorks \/ CandidateEnds
  <2>1. Now.wait \subseteq DOMAIN rows /\ Now.live \subseteq DOMAIN rows
    <3>1. Now.op = "group" /\ IsInstr(Now)
      BY <1>5, SlotDoing DEF SlotOps, CandidateStarts, CandidateWorks, CandidateEnds
    <3> QED
      BY <3>1 DEF IsInstr
  <2>2. graph' = graph
    BY <1>5 DEF CandidateStarts, CandidateWorks, CandidateEnds, WritesRows
  <2>3. \E k \in Now.wait \cup Now.live :
          \/ \E st : rows' = [rows EXCEPT ![k] = To(k, st)]
          \/ \E work : rows' = [rows EXCEPT ![k] = [rows[k] EXCEPT !.work = work]]
    <3>1. CASE CandidateStarts
      BY <3>1 DEF CandidateStarts
    <3>2. CASE CandidateWorks
      <4>1. PICK k \in Now.live, work \in {"ok", "fail"} : rows' = [rows EXCEPT ![k].work = work]
        BY <3>2 DEF CandidateWorks
      <4>2. rows' = [rows EXCEPT ![k] = [rows[k] EXCEPT !.work = work]]
        BY <4>1
      <4> QED
        BY <4>2
    <3>3. CASE CandidateEnds
      BY <3>3 DEF CandidateEnds
    <3> QED
      BY <1>5, <3>1, <3>2, <3>3
  <2>4. ASSUME NEW k \in Now.wait \cup Now.live, NEW st, rows' = [rows EXCEPT ![k] = To(k, st)]
        PROVE  NoneSelected
    <3>1. k \in DOMAIN rows
      BY <2>1
    <3>2. To(k, st).sel = rows[k].sel
      BY <1>1, <3>1, RowExcept
    <3> QED
      BY <2>2, <2>4, <3>1, <3>2, RowNotSelected
  <2>5. ASSUME NEW k \in Now.wait \cup Now.live, NEW work, rows' = [rows EXCEPT ![k] = [rows[k] EXCEPT !.work = work]]
        PROVE  NoneSelected
    <3>1. k \in DOMAIN rows
      BY <2>1
    <3>2. [rows[k] EXCEPT !.work = work].sel = rows[k].sel
      BY <1>1, <3>1, RowExcept
    <3> QED
      BY <2>2, <2>5, <3>1, <3>2, RowNotSelected
  <2> QED
    BY <2>3, <2>4, <2>5
<1> QED
  BY <1>2, <1>3, <1>4, <1>5

\* The winner is the only one of its slot that is selected, the judge's row never is.
LEMMA SelectsOne ==
  ASSUME ShapeInv, SelectedInv, Selects
  PROVE  SelectedInv'
<1> DEFINE w == Now.key
<1>1. w \in DOMAIN rows /\ w[3] >= 0 /\ RowsInv /\ graph' = graph
  BY DoingFacts DEF Selects, RowOps, AllOps, IsInstr, WritesRows
<1>2. CASE rows' = rows
  BY <1>1, <1>2, NoneSelectedKeeps DEF NoneSelected
<1>3. CASE rows' # rows
  <2>1. /\ DOMAIN rows' = DOMAIN rows
        /\ \A k \in DOMAIN rows :
             rows'[k] = IF k = w THEN [rows[k] EXCEPT !.sel = TRUE, !.st = "done"]
                        ELSE IF k \in Group(w[1], w[2])
                          THEN [rows[k] EXCEPT !.sel = FALSE,
                                  !.st = IF @ \in {"pending", "awaiting", "done"} THEN "superseded" ELSE @]
                        ELSE IF k = JudgeOf(w[1], w[2])
                          THEN [rows[k] EXCEPT !.st = IF @ \in {"pending", "running", "awaiting"} THEN "done" ELSE @]
                        ELSE rows[k]
    BY <1>3 DEF Selects
  <2>2. \A k \in DOMAIN rows : rows[k] \in Rows
    BY <1>1, RowFields
  <2>3. \A k \in Group(w[1], w[2]) : k # w => ~ rows'[k].sel
    BY <2>1, <2>2 DEF Rows, Group, At
  <2>4. \A k \in DOMAIN rows : k # w /\ k \notin Group(w[1], w[2]) => rows'[k].sel = rows[k].sel
    BY <2>1, <2>2 DEF Rows
  <2>5. \A k \in DOMAIN rows : rows'[k].sel => k[3] >= 0 /\ (k = w \/ rows[k].sel)
    BY <1>1, <2>3, <2>4 DEF SelectedInv
  <2>6. \A k \in DOMAIN rows : rows'[k].sel /\ k[1] = w[1] /\ k[2] = w[2] => k = w
    BY <2>3, <2>5 DEF Group, At
  <2>7. \A j, k \in DOMAIN rows : rows'[j].sel /\ rows'[k].sel /\ j[1] = k[1] /\ j[2] = k[2] => j = k
    BY <2>5, <2>6 DEF SelectedInv, OneWinner
  <2> QED
    BY <2>1, <2>5, <2>7 DEF SelectedInv, OneWinner
<1> QED
  BY <1>2, <1>3

LEMMA SelectedNext ==
  ASSUME ShapeInv, SelectedInv, [Next]_vars
  PROVE  SelectedInv'
<1>1. CASE Walks
  <2>1. CASE WalksStep
    <3>1. CASE Passes \/ Admits \/ Loops \/ ParksRun \/ Finishes \/ Blocks
      BY <3>1, DecidesNotSelects, NoneSelectedKeeps DEF Passes, Admits, Loops, ParksRun, Finishes, Blocks
    <3> QED
      BY <2>1, <3>1, MovesNotSelect, SweepsNotSelect, NoneSelectedKeeps DEF WalksStep
  <2>2. CASE WalksGroup
    <3>1. CASE Fans \/ GroupEnds \/ Chooses \/ JudgeSessions
      BY <3>1, DecidesNotSelects, NoneSelectedKeeps DEF Fans, GroupEnds, Chooses, JudgeSessions
    <3> QED
      BY <2>2, <3>1, SelectsOne, SweepsNotSelect, NoneSelectedKeeps DEF WalksGroup
  <2>3. CASE Serves
    <3>1. CASE Recovers \/ Rederives \/ CancelsRun \/ Unparks \/ Rejections \/ Readmits \/ WalksOn \/ Settles
      BY <3>1, DecidesNotSelects, NoneSelectedKeeps
         DEF Recovers, Rederives, CancelsRun, Unparks, Rejections, Readmits, WalksOn, Settles
    <3> QED
      BY <2>3, <3>1, MovesNotSelect, SweepsNotSelect, NoneSelectedKeeps DEF Serves
  <2> QED
    BY <1>1, <2>1, <2>2, <2>3 DEF Walks
<1>2. CASE Sweeps \/ Unblocks \/ RequestsCancel \/ TakesCancel \/ Drops \/ UNCHANGED vars
  BY <1>2, DecidesNotSelects, NoneSelectedKeeps
     DEF Sweeps, Unblocks, RequestsCancel, TakesCancel, Drops, vars, rowVars
<1>3. ASSUME NEW h \in People, Commands(h) PROVE SelectedInv'
  <2>1. UNCHANGED <<graph, rows>>
    BY <1>3 DEF Commands, Approves, Rejects, Retries, RetriesGroup, Picks, Resumes, Takes, Asks, rowVars
  <2> QED
    BY <2>1, DecidesNotSelects, NoneSelectedKeeps
<1> QED
  BY <1>1, <1>2, <1>3 DEF Next

\* At most one candidate of an attempt is selected, whoever chooses and whatever was overtaken:
\* no count of candidates, people, crashes or commands makes two (write.rs, select_fanout).
THEOREM OneWinnerHolds == Spec => []OneWinner
<1>1. Init => SelectedInv
  BY DEF Init, SelectedInv, OneWinner
<1>2. ShapeInv /\ SelectedInv /\ [Next]_vars => SelectedInv'
  BY SelectedNext
<1>3. SelectedInv => OneWinner
  BY DEF SelectedInv
<1> QED
  BY <1>1, <1>2, <1>3, ShapeHolds, PTL DEF Spec
=============================================================================
