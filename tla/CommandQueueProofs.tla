------------------------- MODULE CommandQueueProofs -------------------------
(***************************************************************************)
(* The safety of the command queue, for any calls and limits: slots,       *)
(* children, ends and answers, and that it implements the pool of slots.   *)
(***************************************************************************)
EXTENDS CommandQueue, FiniteSetTheorems, TLAPS

\* The stages that follow an admission, with the child not yet answered for.
RunStages == {"admitted", "running", "finishing", "leaseLost"}

\* What a call's row may be at each of its stages.
StageInv ==
  \A c \in Calls :
    /\ pc[c] = "idle" => status[c] = "none"
    /\ pc[c] = "asking" => status[c] \in Ended \cup {"queued"}
    /\ pc[c] \in InClaim => status[c] = "queued"
    /\ pc[c] \in RunStages => status[c] \in Ended \cup {"running"}
    /\ pc[c] = "taken" => status[c] \in Ended

\* Rows a claim has reaped are alive in the table, not beaten, and nobody else's to ask with.
ReapInv ==
  \A c \in Calls :
    /\ reap[c] # {} => pc[c] \in {"reaped", "admits", "waits"}
    /\ \A d \in reap[c] :
         /\ status[d] \in {"queued", "running"}
         /\ ~fresh[d]
         /\ d # c => pc[d] \notin InClaim

\* One claim at a time has the pair.
PairInv == \A c, d \in Calls : pc[c] \in InPair /\ pc[d] \in InPair => c = d

\* What a claim has counted still holds when it commits.
AdmitInv ==
  \A c \in Calls :
    pc[c] = "admits" => c \notin reap[c] /\ Cardinality(Running \ reap[c]) < Allowed(c)

ChildInv ==
  \A c \in Calls :
    /\ child[c] => pc[c] \in {"running", "over"}
    /\ child[c] \/ pc[c] = "admitted" => status[c] = "running" \/ ~fresh[c]

SaidInv == \A c \in Calls : said[c] \in Ended => pc[c] = "over" /\ status[c] = said[c]

QueueInv ==
  TypeOK /\ StageInv /\ ReapInv /\ PairInv /\ AdmitInv /\ ChildInv /\ SaidInv /\ SlotsHold

-----------------------------------------------------------------------------
LEMMA AllowedIsNat == \A c \in Calls : Allowed(c) \in Nat /\ Allowed(c) > 0
BY QueueAssumption DEF Allowed

\* The ways a step may change the rows.
Inserted(c) == status[c] = "none" /\ status' = [status EXCEPT ![c] = "queued"]
EndedOne(c) ==
  /\ status[c] \in {"queued", "running"} /\ pc[c] \notin InClaim
  /\ \A d \in Calls : c \notin reap[d]
  /\ \E e \in Ended : status' = [status EXCEPT ![c] = e]
Waited(c) == pc[c] = "waits" /\ status' = Reaped(c)
Admitted(c) == pc[c] = "admits" /\ status' = [Reaped(c) EXCEPT ![c] = "running"]
Moved(c) == Inserted(c) \/ EndedOne(c) \/ Waited(c) \/ Admitted(c)

LEMMA EndMoves ==
  ASSUME NEW c \in Calls, NEW e \in Ended, TypeOK, pc[c] \notin InClaim, ~Locked(c), End(c, e)
  PROVE  UNCHANGED status \/ EndedOne(c)
BY DEF End, EndedOne, Locked, TypeOK

LEMMA StepMoves ==
  ASSUME NEW c \in Calls, TypeOK, StageInv, CallStep(c)
  PROVE  UNCHANGED status \/ Moved(c)
<1> USE DEF InClaim, InPair, Armed, Waiting
<1>1. CASE Enqueues(c) \/ EnqueueUnheard(c)
  BY <1>1 DEF Enqueues, EnqueueUnheard, StageInv, Moved, Inserted
<1>2. ASSUME NEW heard \in BOOLEAN, Commits(c, heard) PROVE Moved(c)
  BY <1>2 DEF Commits, Moved, Waited, Admitted
<1>3. ASSUME NEW how \in HowEnded, Finishes(c, how) \/ FinishUnheard(c, how)
      PROVE  UNCHANGED status \/ Moved(c)
  <2>1. how \in Ended
    BY DEF HowEnded, Ended
  <2>2. pc[c] \notin InClaim /\ ~Locked(c) /\ End(c, how)
    BY <1>3 DEF Finishes, FinishUnheard
  <2> QED
    BY <2>1, <2>2, EndMoves DEF Moved
<1>4. CASE FinishLeaseLost(c)
  <2>1. pc[c] \notin InClaim /\ ~Locked(c) /\ End(c, "cancelled") /\ "cancelled" \in Ended
    BY <1>4 DEF FinishLeaseLost, Ended
  <2> QED
    BY <2>1, EndMoves DEF Moved
<1>5. CASE Cancels(c)
  BY <1>5 DEF Cancels, Moved, EndedOne, Locked, Ended, TypeOK
<1>6. CASE EnqueueFenced(c) \/ ClaimBegins(c) \/ ClaimRefused(c) \/ TakesPair(c) \/ Reaps(c)
           \/ Judges(c) \/ Spawns(c) \/ ChildEnds(c) \/ Beats(c) \/ BeatTaken(c)
           \/ SeesLeaseLost(c) \/ AnswersRow(c) \/ CallDrops(c) \/ CancelFails(c)
           \/ Crashes(c) \/ OrphanEnds(c) \/ GoesStale(c)
  BY <1>6 DEF EnqueueFenced, ClaimBegins, ClaimRefused, TakesPair, Reaps, Judges, Spawns,
              ChildEnds, Beats, BeatTaken, SeesLeaseLost, AnswersRow, CallDrops, CancelFails,
              Crashes, OrphanEnds, GoesStale, rows
<1> QED
  BY <1>1, <1>2, <1>3, <1>4, <1>5, <1>6 DEF CallStep

-----------------------------------------------------------------------------
(* The steps keep the invariant, one part at a time. *)

LEMMA TypeKept ==
  ASSUME NEW c \in Calls, TypeOK, StageInv, CallStep(c)
  PROVE  TypeOK'
<1> USE DEF TypeOK
<1>1. pc' \in [Calls -> Stages]
  BY DEF Stages, Armed, Waiting, InClaim, InPair,
         CallStep, Enqueues, EnqueueUnheard, EnqueueFenced, ClaimBegins, ClaimRefused,
         TakesPair, Reaps, Judges, Commits, Spawns, ChildEnds, Beats, BeatTaken, SeesLeaseLost,
         Finishes, FinishUnheard, AnswersRow, FinishLeaseLost, CallDrops, Cancels, CancelFails,
         Crashes, OrphanEnds, GoesStale, rows
<1>2. status' \in [Calls -> Ended \cup {"none", "queued", "running"}]
  <2>1. Reaped(c) \in [Calls -> Ended \cup {"none", "queued", "running"}]
    BY DEF Reaped, Ended
  <2> QED
    BY <2>1, StepMoves DEF Moved, Inserted, EndedOne, Waited, Admitted
<1>3. fresh' \in [Calls -> BOOLEAN]
  BY DEF CallStep, Enqueues, EnqueueUnheard, EnqueueFenced, ClaimBegins, ClaimRefused,
         TakesPair, Reaps, Judges, Commits, Spawns, ChildEnds, Beats, BeatTaken, SeesLeaseLost,
         Finishes, FinishUnheard, AnswersRow, FinishLeaseLost, CallDrops, Cancels, CancelFails,
         Crashes, OrphanEnds, GoesStale, rows
<1>4. reap' \in [Calls -> SUBSET Calls]
  BY DEF Stale,
         CallStep, Enqueues, EnqueueUnheard, EnqueueFenced, ClaimBegins, ClaimRefused,
         TakesPair, Reaps, Judges, Commits, Spawns, ChildEnds, Beats, BeatTaken, SeesLeaseLost,
         Finishes, FinishUnheard, AnswersRow, FinishLeaseLost, CallDrops, Cancels, CancelFails,
         Crashes, OrphanEnds, GoesStale, rows
<1>5. child' \in [Calls -> BOOLEAN]
  BY DEF CallStep, Enqueues, EnqueueUnheard, EnqueueFenced, ClaimBegins, ClaimRefused,
         TakesPair, Reaps, Judges, Commits, Spawns, ChildEnds, Beats, BeatTaken, SeesLeaseLost,
         Finishes, FinishUnheard, AnswersRow, FinishLeaseLost, CallDrops, Cancels, CancelFails,
         Crashes, OrphanEnds, GoesStale, rows
<1>6. said' \in [Calls -> Ended \cup {"none"}]
  BY DEF StageInv, HowEnded, Ended,
         CallStep, Enqueues, EnqueueUnheard, EnqueueFenced, ClaimBegins, ClaimRefused,
         TakesPair, Reaps, Judges, Commits, Spawns, ChildEnds, Beats, BeatTaken, SeesLeaseLost,
         Finishes, FinishUnheard, AnswersRow, FinishLeaseLost, CallDrops, Cancels, CancelFails,
         Crashes, OrphanEnds, GoesStale, rows
<1> QED
  BY <1>1, <1>2, <1>3, <1>4, <1>5, <1>6

\* A call moves only its own stage.
LEMMA OwnStage ==
  ASSUME NEW c \in Calls, TypeOK, CallStep(c)
  PROVE  /\ \A d \in Calls : d # c => pc'[d] = pc[d] /\ child'[d] = child[d] /\ said'[d] = said[d]
         /\ \A d \in Calls : d # c => reap'[d] = reap[d]
         /\ \A d \in Calls : d # c => fresh'[d] = fresh[d]
BY DEF TypeOK, CallStep, Enqueues, EnqueueUnheard, EnqueueFenced, ClaimBegins, ClaimRefused,
       TakesPair, Reaps, Judges, Commits, Spawns, ChildEnds, Beats, BeatTaken, SeesLeaseLost,
       Finishes, FinishUnheard, AnswersRow, FinishLeaseLost, CallDrops, Cancels, CancelFails,
       Crashes, OrphanEnds, GoesStale, rows

\* How a call enters the pair, and who then holds rows there.
LEMMA PairKept ==
  ASSUME NEW c \in Calls, TypeOK, PairInv, CallStep(c)
  PROVE  PairInv'
<1>1. \A d \in Calls : d # c => pc'[d] = pc[d]
  BY OwnStage
<1>2. pc'[c] \in InPair => pc[c] \in InPair \/ ~PairHeld
  BY DEF TypeOK, CallStep, Enqueues, EnqueueUnheard, EnqueueFenced, ClaimBegins, ClaimRefused,
         TakesPair, Reaps, Judges, Commits, Spawns, ChildEnds, Beats, BeatTaken, SeesLeaseLost,
         Finishes, FinishUnheard, AnswersRow, FinishLeaseLost, CallDrops, Cancels, CancelFails,
         Crashes, OrphanEnds, GoesStale, rows, InPair
<1> QED
  BY <1>1, <1>2 DEF PairInv, PairHeld

\* The row of another call moves only when a claim has reaped it.
LEMMA OthersRows ==
  ASSUME NEW c \in Calls, NEW d \in Calls, d # c, TypeOK, StageInv, CallStep(c)
  PROVE  \/ status'[d] = status[d]
         \/ d \in reap[c] /\ status'[d] \in Ended /\ pc[c] \in {"admits", "waits"}
<1>1. CASE Inserted(c) \/ EndedOne(c)
  BY <1>1 DEF Inserted, EndedOne, TypeOK
<1>2. CASE Waited(c) \/ Admitted(c)
  BY <1>2 DEF Waited, Admitted, Reaped, TypeOK, Ended
<1> QED
  BY <1>1, <1>2, StepMoves DEF Moved

LEMMA StageKept ==
  ASSUME NEW c \in Calls, TypeOK, StageInv, ReapInv, AdmitInv, CallStep(c)
  PROVE  StageInv'
<1> DEFINE Fits(d) == /\ pc[d] = "idle" => status[d] = "none"
                      /\ pc[d] = "asking" => status[d] \in Ended \cup {"queued"}
                      /\ pc[d] \in InClaim => status[d] = "queued"
                      /\ pc[d] \in RunStages => status[d] \in Ended \cup {"running"}
                      /\ pc[d] = "taken" => status[d] \in Ended
<1>1. ASSUME NEW d \in Calls, d # c PROVE Fits(d)'
  <2>1. Fits(d) /\ pc'[d] = pc[d]
    BY <1>1, OwnStage DEF StageInv
  <2>2. CASE status'[d] = status[d]
    BY <2>1, <2>2
  <2>3. CASE d \in reap[c] /\ status'[d] \in Ended
    <3>1. status[d] \in {"queued", "running"} /\ pc[d] \notin InClaim
      BY <1>1, <2>3 DEF ReapInv
    <3> QED
      BY <2>1, <2>3, <3>1 DEF Ended
  <2> QED
    BY <1>1, <2>2, <2>3, OthersRows
<1>2. Fits(c)'
  <2> USE DEF InClaim, InPair, RunStages, Ended, TypeOK
  <2>1. ASSUME NEW heard \in BOOLEAN, Commits(c, heard) PROVE Fits(c)'
    <3>1. CASE pc[c] = "admits"
      BY <2>1, <3>1 DEF Commits, Reaped
    <3>2. CASE pc[c] = "waits"
      BY <2>1, <3>2 DEF Commits, Reaped, StageInv
    <3> QED
      BY <2>1, <3>1, <3>2 DEF Commits
  <2>2. ASSUME NEW how \in HowEnded, Finishes(c, how) \/ FinishUnheard(c, how) PROVE Fits(c)'
    BY <2>2 DEF Finishes, FinishUnheard, End, HowEnded, StageInv
  <2>3. CASE Enqueues(c) \/ EnqueueUnheard(c) \/ EnqueueFenced(c)
    BY <2>3 DEF Enqueues, EnqueueUnheard, EnqueueFenced, rows
  <2>4. CASE ClaimBegins(c) \/ ClaimRefused(c) \/ TakesPair(c) \/ Reaps(c) \/ Judges(c)
    BY <2>4 DEF ClaimBegins, ClaimRefused, TakesPair, Reaps, Judges, StageInv, rows
  <2>5. CASE Spawns(c) \/ ChildEnds(c) \/ Beats(c) \/ BeatTaken(c) \/ SeesLeaseLost(c)
    BY <2>5 DEF Spawns, ChildEnds, Beats, BeatTaken, SeesLeaseLost, StageInv, rows
  <2>6. CASE AnswersRow(c) \/ FinishLeaseLost(c) \/ CallDrops(c) \/ Cancels(c) \/ CancelFails(c)
    BY <2>6 DEF AnswersRow, FinishLeaseLost, End, CallDrops, Cancels, CancelFails, rows
  <2>7. CASE Crashes(c) \/ OrphanEnds(c) \/ GoesStale(c)
    BY <2>7 DEF Crashes, OrphanEnds, GoesStale, StageInv, rows
  <2> QED
    BY <2>1, <2>2, <2>3, <2>4, <2>5, <2>6, <2>7 DEF CallStep
<1> QED
  BY <1>1, <1>2 DEF StageInv

\* A row that another claim has reaped, or that its own is asking with, is not beaten anew
\* by its call, nor is its reaping undone but by the claim.
LEMMA ReapKept ==
  ASSUME NEW c \in Calls, TypeOK, StageInv, ReapInv, PairInv, CallStep(c)
  PROVE  ReapInv'
<1> DEFINE Taken(e, d) == /\ status[d] \in {"queued", "running"}
                          /\ ~fresh[d]
                          /\ d # e => pc[d] \notin InClaim
<1>1. reap'[c] # {} => pc'[c] \in {"reaped", "admits", "waits"}
  BY DEF ReapInv, TypeOK, CallStep, Enqueues, EnqueueUnheard, EnqueueFenced, ClaimBegins,
         ClaimRefused, TakesPair, Reaps, Judges, Commits, Spawns, ChildEnds, Beats, BeatTaken,
         SeesLeaseLost, Finishes, FinishUnheard, AnswersRow, FinishLeaseLost, CallDrops, Cancels,
         CancelFails, Crashes, OrphanEnds, GoesStale, rows
<1>2. \A e \in Calls \ {c} : reap'[e] = reap[e] /\ pc'[e] = pc[e]
  BY OwnStage
<1>3. ASSUME NEW e \in Calls, e # c, NEW d \in reap[e] PROVE Taken(e, d)'
  <2>1. d \in Calls /\ Taken(e, d) /\ Locked(d)
    BY <1>3 DEF ReapInv, TypeOK, Locked
  <2>2. pc[e] \in InPair
    BY <1>3 DEF ReapInv, InPair
  <2>3. pc[c] \notin InPair
    BY <1>3, <2>2 DEF PairInv
  <2>4. CASE d # c
    <3>1. status'[d] = status[d]
      BY <2>1, <2>3, <2>4, OthersRows DEF InPair
    <3> QED
      BY <2>1, <2>4, <3>1, OwnStage
  <2>5. CASE d = c
    <3>1. pc[c] \notin InClaim /\ status[c] \in {"queued", "running"} /\ Locked(c) /\ ~fresh[c]
      BY <1>3, <2>1, <2>5
    <3>2. status' = status
      BY <1>3, <2>5, <3>1, StepMoves
         DEF Moved, Inserted, EndedOne, Waited, Admitted, InClaim, InPair
    <3>3. ~fresh'[c] /\ pc'[c] \notin InClaim
      BY <3>1 DEF TypeOK, StageInv, InClaim, InPair, RunStages, CallStep, Enqueues,
         EnqueueUnheard, EnqueueFenced,
         ClaimBegins, ClaimRefused, TakesPair, Reaps, Judges, Commits, Spawns, ChildEnds, Beats,
         BeatTaken, SeesLeaseLost, Finishes, FinishUnheard, AnswersRow, FinishLeaseLost,
         CallDrops, Cancels, CancelFails, Crashes, OrphanEnds, GoesStale, rows
    <3> QED
      BY <2>1, <2>5, <3>2, <3>3
  <2> QED
    BY <2>4, <2>5
<1>4. ASSUME NEW d \in reap'[c] PROVE Taken(c, d)'
  <2>1. \/ Reaps(c) /\ reap'[c] = Stale(c)
        \/ /\ reap'[c] = reap[c] /\ reap[c] # {}
           /\ Judges(c) \/ GoesStale(c)
    BY <1>4 DEF ReapInv, TypeOK, InClaim, InPair, CallStep, Enqueues, EnqueueUnheard,
         EnqueueFenced, ClaimBegins,
         ClaimRefused, TakesPair, Reaps, Judges, Commits, Spawns, ChildEnds, Beats, BeatTaken,
         SeesLeaseLost, Finishes, FinishUnheard, AnswersRow, FinishLeaseLost, CallDrops, Cancels,
         CancelFails, Crashes, OrphanEnds, GoesStale, rows
  <2>2. CASE Reaps(c)
    <3>1. d \in Calls /\ d \in Stale(c) /\ status' = status /\ fresh' = fresh
      BY <1>4, <2>1, <2>2 DEF Reaps, rows, Stale, TypeOK
    <3>2. d # c => pc[d] \notin InClaim
      BY <3>1 DEF Stale, Locked, StageInv
    <3> QED
      BY <3>1, <3>2, OwnStage DEF Stale
  <2>3. CASE reap'[c] = reap[c] /\ (Judges(c) \/ GoesStale(c))
    BY <1>4, <2>3, OwnStage DEF ReapInv, TypeOK, Judges, GoesStale, rows
  <2> QED
    BY <2>1, <2>2, <2>3
<1> QED
  BY <1>1, <1>2, <1>3, <1>4 DEF ReapInv

LEMMA RunningFinite == IsFiniteSet(Running)
BY QueueAssumption, FS_Subset DEF Running

\* A slot is taken only by the claim that has the pair; any other step only frees slots.
LEMMA RunningShrinks ==
  ASSUME NEW c \in Calls, TypeOK, StageInv, CallStep(c), pc[c] # "admits"
  PROVE  Running' \subseteq Running
<1>1. CASE UNCHANGED status
  BY <1>1 DEF Running
<1>2. CASE Inserted(c)
  BY <1>2 DEF Inserted, Running, TypeOK
<1>3. CASE EndedOne(c)
  BY <1>3 DEF EndedOne, Running, TypeOK, Ended
<1>4. CASE Waited(c)
  BY <1>4 DEF Waited, Reaped, Running, TypeOK
<1> QED
  BY <1>1, <1>2, <1>3, <1>4, StepMoves DEF Moved, Admitted

LEMMA AdmitKept ==
  ASSUME NEW c \in Calls, TypeOK, StageInv, ReapInv, PairInv, AdmitInv, CallStep(c)
  PROVE  AdmitInv'
<1>1. ASSUME NEW e \in Calls, pc'[e] = "admits", e # c
      PROVE  e \notin reap'[e] /\ (Cardinality(Running \ reap[e]) < Allowed(e))'
  <2>1. pc[e] = "admits" /\ reap'[e] = reap[e]
    BY <1>1, OwnStage
  <2>2. pc[c] \notin InPair
    BY <1>1, <2>1 DEF PairInv, InPair
  <2>3. Running' \subseteq Running
    BY <2>2, RunningShrinks DEF InPair
  <2>4. e \notin reap[e] /\ Cardinality(Running \ reap[e]) < Allowed(e)
    BY <2>1 DEF AdmitInv
  <2>5. Cardinality(Running' \ reap[e]) <= Cardinality(Running \ reap[e])
    <3>1. Running' \ reap[e] \subseteq Running \ reap[e]
      BY <2>3
    <3>2. IsFiniteSet(Running \ reap[e])
      BY RunningFinite, FS_Subset
    <3> QED
      BY <3>1, <3>2, FS_Subset
  <2>6. Cardinality(Running \ reap[e]) \in Nat /\ Cardinality(Running' \ reap[e]) \in Nat
    <3>1. IsFiniteSet(Running \ reap[e]) /\ IsFiniteSet(Running' \ reap[e])
      BY <2>3, RunningFinite, FS_Subset
    <3> QED
      BY <3>1, FS_CardinalityType
  <2>7. Cardinality(Running' \ reap[e]) < Allowed(e)
    BY <2>4, <2>5, <2>6, AllowedIsNat
  <2> QED
    BY <2>1, <2>4, <2>7 DEF Allowed
<1>2. ASSUME pc'[c] = "admits"
      PROVE  c \notin reap'[c] /\ (Cardinality(Running \ reap[c]) < Allowed(c))'
  <2>1. /\ status' = status /\ reap' = reap
        /\ pc[c] = "admits" \/ (pc[c] = "reaped" /\ MayRun(c))
    BY <1>2 DEF TypeOK, CallStep, Enqueues, EnqueueUnheard, EnqueueFenced, ClaimBegins,
         ClaimRefused, TakesPair, Reaps, Judges, Commits, Spawns, ChildEnds, Beats, BeatTaken,
         SeesLeaseLost, Finishes, FinishUnheard, AnswersRow, FinishLeaseLost, CallDrops, Cancels,
         CancelFails, Crashes, OrphanEnds, GoesStale, rows
  <2>2. c \notin reap[c] /\ Cardinality(Running \ reap[c]) < Allowed(c)
    BY <2>1 DEF AdmitInv, MayRun
  <2>3. Running' = Running
    BY <2>1 DEF Running
  <2> QED
    BY <2>1, <2>2, <2>3 DEF Allowed
<1> QED
  BY <1>1, <1>2 DEF AdmitInv

LEMMA SlotsKept ==
  ASSUME NEW c \in Calls, TypeOK, StageInv, AdmitInv, SlotsHold, CallStep(c)
  PROVE  SlotsHold'
<1>1. CASE pc[c] # "admits" \/ UNCHANGED status
  <2>1. Running' \subseteq Running
    BY <1>1, RunningShrinks DEF Running
  <2>2. CASE Running' = {}
    BY <2>2 DEF SlotsHold
  <2>3. CASE Running' # {}
    <3>1. PICK e \in Calls : Cardinality(Running) <= Allowed(e)
      BY <2>1, <2>3 DEF SlotsHold
    <3>2. Cardinality(Running') <= Cardinality(Running)
      BY <2>1, RunningFinite, FS_Subset
    <3>3. Cardinality(Running) \in Nat /\ Cardinality(Running') \in Nat
      BY <2>1, RunningFinite, FS_Subset, FS_CardinalityType
    <3>4. Cardinality(Running') <= Allowed(e)
      BY <3>1, <3>2, <3>3, AllowedIsNat
    <3> QED
      BY <3>4 DEF SlotsHold, Allowed
  <2> QED
    BY <2>2, <2>3
<1>2. CASE Admitted(c)
  <2> DEFINE kept == Running \ reap[c]
  <2>1. IsFiniteSet(kept) /\ Cardinality(kept) \in Nat
    BY RunningFinite, FS_Subset, FS_CardinalityType
  <2>2. Cardinality(kept) < Allowed(c)
    BY <1>2 DEF Admitted, AdmitInv
  <2>3. Running' = kept \cup {c}
    BY <1>2 DEF Admitted, Reaped, Running, TypeOK, Ended
  <2> HIDE DEF kept
  <2>4. Cardinality(Running') =
          IF c \in kept THEN Cardinality(kept) ELSE Cardinality(kept) + 1
    BY <2>1, <2>3, FS_AddElement
  <2>5. Cardinality(Running') <= Allowed(c)
    BY <2>1, <2>2, <2>4, AllowedIsNat
  <2> QED
    BY <2>5 DEF SlotsHold, Allowed
<1> QED
  BY <1>1, <1>2, StepMoves DEF Moved, Inserted, EndedOne, Waited, Admitted, InClaim, InPair,
     StageInv

LEMMA ChildKept ==
  ASSUME NEW c \in Calls, TypeOK, StageInv, ReapInv, ChildInv, CallStep(c)
  PROVE  ChildInv'
<1> DEFINE InSlot(d) == /\ child[d] => pc[d] \in {"running", "over"}
                        /\ child[d] \/ pc[d] = "admitted" => status[d] = "running" \/ ~fresh[d]
<1>1. ASSUME NEW d \in Calls, d # c PROVE InSlot(d)'
  BY <1>1, OwnStage, OthersRows DEF ChildInv, ReapInv
<1>2. InSlot(c)'
  <2>1. child'[c] => pc'[c] \in {"running", "over"}
    BY DEF ChildInv, TypeOK, CallStep, Enqueues, EnqueueUnheard, EnqueueFenced, ClaimBegins,
         ClaimRefused, TakesPair, Reaps, Judges, Commits, Spawns, ChildEnds, Beats, BeatTaken,
         SeesLeaseLost, Finishes, FinishUnheard, AnswersRow, FinishLeaseLost, CallDrops, Cancels,
         CancelFails, Crashes, OrphanEnds, GoesStale, rows, Armed, Waiting, InClaim, InPair
  <2>2. ASSUME child'[c] \/ pc'[c] = "admitted" PROVE (status[c] = "running" \/ ~fresh[c])'
    BY <2>2 DEF ChildInv, Reaped, TypeOK, CallStep, Enqueues, EnqueueUnheard, EnqueueFenced,
         ClaimBegins,
         ClaimRefused, TakesPair, Reaps, Judges, Commits, Spawns, ChildEnds, Beats, BeatTaken,
         SeesLeaseLost, Finishes, FinishUnheard, AnswersRow, FinishLeaseLost, CallDrops, Cancels,
         CancelFails, Crashes, OrphanEnds, GoesStale, rows, Armed, Waiting, InClaim, InPair
  <2> QED
    BY <2>1, <2>2
<1> QED
  BY <1>1, <1>2 DEF ChildInv

LEMMA SaidKept ==
  ASSUME NEW c \in Calls, TypeOK, StageInv, ReapInv, SaidInv, CallStep(c)
  PROVE  SaidInv'
<1>1. ASSUME NEW d \in Calls, d # c, said'[d] \in Ended
      PROVE  pc'[d] = "over" /\ status'[d] = said'[d]
  BY <1>1, OwnStage, OthersRows DEF SaidInv, ReapInv, Ended
<1>2. ASSUME said'[c] \in Ended PROVE pc'[c] = "over" /\ status'[c] = said'[c]
  BY <1>2 DEF SaidInv, Ended, HowEnded, End, TypeOK, CallStep, Enqueues, EnqueueUnheard,
         EnqueueFenced, ClaimBegins,
         ClaimRefused, TakesPair, Reaps, Judges, Commits, Spawns, ChildEnds, Beats, BeatTaken,
         SeesLeaseLost, Finishes, FinishUnheard, AnswersRow, FinishLeaseLost, CallDrops, Cancels,
         CancelFails, Crashes, OrphanEnds, GoesStale, rows, Armed, Waiting, InClaim, InPair
<1> QED
  BY <1>1, <1>2 DEF SaidInv

-----------------------------------------------------------------------------
(* The theorems. *)

LEMMA InvInit == Init => QueueInv
<1> SUFFICES ASSUME Init PROVE QueueInv
  OBVIOUS
<1>1. TypeOK
  BY DEF Init, TypeOK, Stages, Armed
<1>2. Running = {}
  BY DEF Init, Running
<1> QED
  BY <1>1, <1>2 DEF Init, QueueInv, StageInv, ReapInv, PairInv, AdmitInv, ChildInv, SaidInv,
     SlotsHold, InClaim, InPair, RunStages, Ended

LEMMA InvKept == QueueInv /\ [Next]_vars => QueueInv'
<1> SUFFICES ASSUME QueueInv, [Next]_vars PROVE QueueInv'
  OBVIOUS
<1>1. ASSUME NEW c \in Calls, CallStep(c) PROVE QueueInv'
  BY <1>1, TypeKept, StageKept, ReapKept, PairKept, AdmitKept, ChildKept, SaidKept, SlotsKept
     DEF QueueInv
<1>2. CASE UNCHANGED vars
  BY <1>2 DEF vars, rows, QueueInv, TypeOK, StageInv, ReapInv, PairInv, AdmitInv, ChildInv,
     SaidInv, SlotsHold, Running, Allowed
<1> QED
  BY <1>1, <1>2 DEF Next, Rests

THEOREM QueueInvHolds == Spec => []QueueInv
BY InvInit, InvKept, PTL DEF Spec

\* Every reachable state of the queue is type-correct: an end is an end.
THEOREM QueueTypes == Spec => []TypeOK
<1>1. QueueInv => TypeOK
  BY DEF QueueInv
<1> QED
  BY <1>1, QueueInvHolds, PTL

\* The running rows never outnumber the limit, for any calls, limits and interleaving of the
\* claims' statements with ends and reaps (claim_command).
THEOREM SlotsAreHeld == Spec => []SlotsHold
<1>1. QueueInv => SlotsHold
  BY DEF QueueInv
<1> QED
  BY <1>1, QueueInvHolds, PTL

\* A command's processes are outside a slot only after a late beat (call, run_shell, Enqueued).
THEOREM ChildrenInSlots == Spec => []ChildInSlot
<1>1. QueueInv => ChildInSlot
  BY DEF QueueInv, ChildInv, ChildInSlot
<1> QED
  BY <1>1, QueueInvHolds, PTL

\* What the agent is told is what the row says (call, stored_row).
THEOREM AnswersAreRows == Spec => []AnswerIsRow
<1>1. QueueInv => AnswerIsRow
  BY DEF QueueInv, SaidInv, AnswerIsRow
<1> QED
  BY <1>1, QueueInvHolds, PTL

LEMMA EndsStay ==
  ASSUME QueueInv, [Next]_vars, NEW d \in Calls, status[d] \in Ended
  PROVE  status'[d] = status[d]
<1>1. ASSUME NEW c \in Calls, CallStep(c) PROVE status'[d] = status[d]
  <2>1. \A e \in Calls : reap[e] # {} => d \notin reap[e]
    BY DEF QueueInv, ReapInv, Ended
  <2>2. CASE d # c
    BY <1>1, <2>1, <2>2, OthersRows DEF QueueInv
  <2>3. CASE d = c
    BY <1>1, <2>1, <2>3, StepMoves DEF QueueInv, Moved, Inserted, EndedOne, Waited, Admitted,
       Reaped, TypeOK, StageInv, InClaim, InPair, Ended
  <2> QED
    BY <2>2, <2>3
<1>2. CASE UNCHANGED vars
  BY <1>2 DEF vars, rows
<1> QED
  BY <1>1, <1>2 DEF Next, Rests

\* A row ends once, whoever ends it (finish_command, cancel_command, the reaps).
THEOREM EndsAreFinal == Spec => EndsOnce
<1>1. QueueInv /\ [Next]_vars => [\A c \in Calls : status[c] \in Ended => status'[c] = status[c]]_vars
  BY EndsStay
<1> QED
  BY <1>1, QueueInvHolds, PTL DEF Spec, EndsOnce

-----------------------------------------------------------------------------
(* The queue implements the pool. *)

OverRows == {c \in Calls : status[c] \in Ended}

LEMMA PoolInit == Init => Slots!Init
BY DEF Init, Slots!Init, Queued, Running, Ended

LEMMA PoolStep ==
  ASSUME QueueInv, NEW c \in Calls, CallStep(c)
  PROVE  [Slots!Next]_<<Queued, Running, OverRows>>
<1> USE DEF QueueInv
<1>1. CASE UNCHANGED status
  BY <1>1 DEF Queued, Running, OverRows
<1>2. CASE Inserted(c)
  <2>1. /\ c \in Calls \ (Queued \cup Running \cup OverRows)
        /\ Queued' = Queued \cup {c} /\ Running' = Running /\ OverRows' = OverRows
    BY <1>2 DEF Inserted, Queued, Running, OverRows, TypeOK, Ended
  <2> QED
    BY <2>1 DEF Slots!Next, Slots!Joins, OverRows
<1>3. CASE EndedOne(c)
  <2>1. /\ {c} \subseteq Queued \cup Running
        /\ Queued' = Queued \ {c} /\ Running' = Running \ {c} /\ OverRows' = OverRows \cup {c}
    BY <1>3 DEF EndedOne, Queued, Running, OverRows, TypeOK, Ended
  <2> QED
    BY <2>1 DEF Slots!Next, Slots!Leaves, Slots!Leave, OverRows
<1>4. reap[c] \subseteq Queued \cup Running /\ reap[c] \in SUBSET Calls
  BY DEF ReapInv, TypeOK, Queued, Running
<1>5. CASE Waited(c)
  <2>1. /\ Queued' = Queued \ reap[c] /\ Running' = Running \ reap[c]
        /\ OverRows' = OverRows \cup reap[c]
    BY <1>4, <1>5 DEF Waited, Reaped, Queued, Running, OverRows, TypeOK, Ended
  <2> QED
    BY <1>4, <2>1 DEF Slots!Next, Slots!Leaves, Slots!Leave, OverRows
<1>6. CASE Admitted(c)
  <2>1. c \notin reap[c] /\ Cardinality(Running \ reap[c]) < Allowed(c) /\ status[c] = "queued"
    BY <1>6 DEF Admitted, AdmitInv, StageInv, InClaim, InPair
  <2>2. /\ Queued' = Queued \ (reap[c] \cup {c}) /\ Running' = (Running \ reap[c]) \cup {c}
        /\ OverRows' = OverRows \cup reap[c]
    BY <1>4, <1>6, <2>1 DEF Admitted, Reaped, Queued, Running, OverRows, TypeOK, Ended
  <2>3. c \in Queued \ reap[c]
    BY <2>1 DEF Queued
  <2>4. Slots!Cardinality(Running \ reap[c]) = Cardinality(Running \ reap[c])
    BY DEF Slots!Cardinality, Cardinality
  <2> QED
    BY <1>4, <2>1, <2>2, <2>3, <2>4 DEF Slots!Next, Slots!Takes, Slots!Leave, OverRows
<1> QED
  BY <1>1, <1>2, <1>3, <1>5, <1>6, StepMoves DEF Moved

\* The queue of commands is a pool of slots, for any calls and limits.
THEOREM QueueIsSlotPool == Spec => IsSlotPool
<1>1. Init => Slots!Init
  BY PoolInit
<1>2. QueueInv /\ [Next]_vars => [Slots!Next]_(Slots!Pool)
  <2> SUFFICES ASSUME QueueInv, [Next]_vars PROVE [Slots!Next]_(Slots!Pool)
    OBVIOUS
  <2>1. ASSUME NEW c \in Calls, CallStep(c) PROVE [Slots!Next]_(Slots!Pool)
    BY <2>1, PoolStep DEF Slots!Pool, OverRows
  <2>2. CASE UNCHANGED vars
    BY <2>2 DEF vars, rows, Slots!Pool, Queued, Running
  <2> QED
    BY <2>1, <2>2 DEF Next, Rests
<1> QED
  BY <1>1, <1>2, QueueInvHolds, PTL DEF Spec, IsSlotPool, Slots!Spec
=============================================================================
