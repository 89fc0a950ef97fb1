--------------------------- MODULE RunLeaseProofs ---------------------------
(***************************************************************************)
(* The safety of the run lease, for any processes, runs and lease times.   *)
(***************************************************************************)
EXTENDS RunLease, TLAPS

\* The parts of TypeOK the actions move together.
RowOK ==
  /\ status \in [Runs -> RunStatuses]
  /\ owner \in [Runs -> Procs \cup {Nobody}]
  /\ lease \in [Runs -> 0..TTL]
  /\ stopped \in BOOLEAN
TaskOK ==
  /\ stage \in [Procs -> [Runs -> Stages]]
  /\ kind \in [Procs -> [Runs -> Kinds]]
  /\ rem \in [Procs -> [Runs -> 0..TTL]]
BeatOK ==
  /\ beat \in [Procs -> [Runs -> Beats]]
  /\ beatRem \in [Procs -> [Runs -> 0..TTL]]
LateOK == late \in [Procs -> SUBSET Runs]
DeadOK == dead \in [Procs -> SUBSET Runs]
TodoOK == todo \in [Procs -> SUBSET Runs]
ResumesOK == resumes \in [Procs -> SUBSET Runs]
LooseOK == loose \in [Procs -> SUBSET Runs]
UpOK == up \subseteq Procs

\* TypeOK is its parts.
LEMMA TypeParts ==
  TypeOK <=> /\ RowOK /\ TaskOK /\ BeatOK /\ LateOK /\ DeadOK /\ TodoOK
             /\ ResumesOK /\ LooseOK /\ UpOK
BY DEF TypeOK, RowOK, TaskOK, BeatOK, LateOK, DeadOK, TodoOK, ResumesOK, LooseOK, UpOK

\* And so it is after a step.
LEMMA TypePartsNext ==
  TypeOK' <=> /\ RowOK' /\ TaskOK' /\ BeatOK' /\ LateOK' /\ DeadOK' /\ TodoOK'
              /\ ResumesOK' /\ LooseOK' /\ UpOK'
BY DEF TypeOK, RowOK, TaskOK, BeatOK, LateOK, DeadOK, TodoOK, ResumesOK, LooseOK, UpOK

-----------------------------------------------------------------------------
(* What the shared operators do to the types. *)

\* No write of the store leaves a row of another type.
LEMMA RowTypes ==
  ASSUME RowOK, NEW p \in Procs, NEW r \in Runs,
         NEW to \in RunStatuses, NEW adopted \in SUBSET Runs,
         \/ UNCHANGED db
         \/ TakeLands(p, r)
         \/ RefreshLands(p, r)
         \/ ReleaseLands(p, r)
         \/ MoveRun(r, to)
         \/ Admitted(p, r)
         \/ AdoptLands(p, adopted)
  PROVE  RowOK'
<1>1. TTL \in Nat /\ "running" \in RunStatuses /\ "stopped" \in RunStatuses
  BY TimesAssumption DEF RunStatuses, ActiveRun, TerminalRun
<1>2. CASE UNCHANGED db
  BY <1>2 DEF RowOK, db
<1>3. CASE TakeLands(p, r)
  BY <1>1, <1>3 DEF RowOK, TakeLands, WriteLease
<1>4. CASE RefreshLands(p, r)
  BY <1>1, <1>4 DEF RowOK, RefreshLands
<1>5. CASE ReleaseLands(p, r)
  BY <1>1, <1>5 DEF RowOK, ReleaseLands
<1>6. CASE MoveRun(r, to)
  BY <1>6 DEF RowOK, MoveRun
<1>7. CASE Admitted(p, r)
  BY <1>1, <1>7 DEF RowOK, Admitted, WriteLease
<1>8. CASE AdoptLands(p, adopted)
  BY <1>1, <1>8 DEF RowOK, AdoptLands
<1> QED
  BY <1>2, <1>3, <1>4, <1>5, <1>6, <1>7, <1>8

\* A task's move or drop keeps the types of the tasks.
LEMMA GoTypes ==
  ASSUME TaskOK, NEW p \in Procs, NEW r \in Runs, NEW s \in Stages,
         Go(p, r, s) \/ Drop(p, r)
  PROVE  TaskOK'
<1>1. 0 \in 0..TTL
  BY TimesAssumption
<1>2. "abandoning" \in Stages /\ "none" \in Kinds /\ "dropped" \in Kinds
  BY DEF Stages, Kinds
<1>3. CASE Drop(p, r)
  BY <1>1, <1>2, <1>3 DEF TaskOK, Drop
<1>4. CASE Go(p, r, s)
  <2>1. stage' \in [Procs -> [Runs -> Stages]]
    BY <1>4 DEF TaskOK, Go
  <2>2. kind' \in [Procs -> [Runs -> Kinds]]
    BY <1>2, <1>4 DEF TaskOK, Go
  <2>3. rem' \in [Procs -> [Runs -> 0..TTL]]
    BY <1>1, <1>4 DEF TaskOK, Go
  <2> QED
    BY <2>1, <2>2, <2>3 DEF TaskOK
<1> QED
  BY <1>3, <1>4

\* So does a task's start, its call sent or not.
LEMMA EnterTypes ==
  ASSUME TaskOK, NEW p \in Procs, NEW r \in Runs, NEW s \in Stages, NEW k \in Kinds,
         Enter(p, r, s, k), UNCHANGED rem \/ rem' = [rem EXCEPT ![p][r] = TTL]
  PROVE  TaskOK'
<1>1. TTL \in 0..TTL
  BY TimesAssumption
<1>2. rem' \in [Procs -> [Runs -> 0..TTL]]
  BY <1>1 DEF TaskOK
<1>3. stage' \in [Procs -> [Runs -> Stages]] /\ kind' \in [Procs -> [Runs -> Kinds]]
  BY DEF TaskOK, Enter
<1> QED
  BY <1>2, <1>3 DEF TaskOK

\* A dropped heartbeat keeps the types.
LEMMA DropBeatTypes ==
  ASSUME BeatOK, LateOK, NEW p \in Procs, NEW r \in Runs, DropBeat(p, r)
  PROVE  BeatOK' /\ LateOK'
BY TimesAssumption DEF BeatOK, LateOK, DropBeat, Beats

\* So does a walk's beginning, or its end at the fence.
LEMMA BeginTypes ==
  ASSUME TaskOK, LateOK, NEW p \in Procs, NEW r \in Runs,
         NEW d \in [Procs -> SUBSET Runs], Begin(p, r, d)
  PROVE  TaskOK' /\ LateOK' /\ DeadOK'
<1>1. "walk" \in Stages /\ "free" \in Stages
  BY DEF Stages
<1>2. TaskOK'
  BY <1>1, GoTypes DEF Begin
<1> QED
  BY <1>2 DEF Begin, LateOK, DeadOK

\* A process's set of runs gains and loses runs alone.
LEMMA SetTypes ==
  ASSUME NEW f \in [Procs -> SUBSET Runs], NEW p \in Procs, NEW r \in Runs
  PROVE  /\ [f EXCEPT ![p] = @ \cup {r}] \in [Procs -> SUBSET Runs]
         /\ [f EXCEPT ![p] = @ \ {r}] \in [Procs -> SUBSET Runs]
OBVIOUS

-----------------------------------------------------------------------------
(* Type correctness. *)

\* The initial state is of its types.
LEMMA InitTypes == Init => TypeOK
<1> SUFFICES ASSUME Init PROVE TypeOK
  OBVIOUS
<1>1. 0 \in 0..TTL /\ "queued" \in RunStatuses /\ "free" \in Stages /\ "none" \in Kinds
      /\ "asleep" \in Beats
  BY TimesAssumption DEF RunStatuses, ActiveRun, TerminalRun, Stages, Kinds, Beats
<1>2. RowOK
  BY <1>1 DEF Init, RowOK
<1>3. TaskOK /\ BeatOK
  BY <1>1 DEF Init, TaskOK, BeatOK
<1>4. LateOK /\ DeadOK /\ TodoOK /\ ResumesOK /\ LooseOK /\ UpOK
  BY DEF Init, LateOK, DeadOK, TodoOK, ResumesOK, LooseOK, UpOK
<1> QED
  BY <1>2, <1>3, <1>4, TypeParts

\* Every step of a task that holds a run's lock keeps the types.
LEMMA TaskTypes ==
  ASSUME TypeOK, NEW p \in Procs, NEW r \in Runs, TaskStep(p, r)
  PROVE  TypeOK'
<1> USE TypeParts, TypePartsNext
<1>l. \A s \in {"free", "walk", "window", "reread", "cancelled", "abandoning", "releasing"} :
        s \in Stages
  BY DEF Stages
<1>s. \A s \in {"running", "awaiting", "done", "failed", "cancelled"} : s \in RunStatuses
  BY DEF RunStatuses, ActiveRun, TerminalRun
<1>1. CASE ClaimRun(p, r)
  <2>1. RowOK'
    BY <1>1, <1>s, RowTypes DEF ClaimRun
  <2>2. TaskOK' /\ LateOK' /\ DeadOK'
    BY <1>1, <1>l, GoTypes, BeginTypes DEF ClaimRun, LateOK, DeadOK
  <2> QED
    BY <1>1, <2>1, <2>2 DEF ClaimRun, BeatOK, TodoOK, ResumesOK, LooseOK, UpOK
<1>2. CASE TakeLease(p, r)
  <2>1. RowOK'
    BY <1>2, <1>s, RowTypes DEF TakeLease
  <2>2. TaskOK' /\ LateOK' /\ DeadOK'
    <3>1. [dead EXCEPT ![p] = @ \ {r}] \in [Procs -> SUBSET Runs]
      BY SetTypes DEF DeadOK
    <3> QED
      BY <1>2, <1>l, <3>1, GoTypes, BeginTypes DEF TakeLease, LateOK, DeadOK
  <2> QED
    BY <1>2, <2>1, <2>2 DEF TakeLease, BeatOK, TodoOK, ResumesOK, LooseOK, UpOK
<1>3. CASE WindowGoesOn(p, r)
  <2>1. RowOK'
    BY <1>3, <1>s, RowTypes DEF WindowGoesOn
  <2>2. TaskOK' /\ LateOK' /\ DeadOK'
    BY <1>3, <1>l, GoTypes, BeginTypes DEF WindowGoesOn, LateOK, DeadOK
  <2> QED
    BY <1>3, <2>1, <2>2 DEF WindowGoesOn, BeatOK, TodoOK, ResumesOK, LooseOK, UpOK
<1>4. CASE WindowEnds(p, r)
  <2>1. RowOK'
    BY <1>4, <1>s, RowTypes DEF WindowEnds
  <2>2. TaskOK'
    BY <1>4, <1>l, GoTypes DEF WindowEnds
  <2> QED
    BY <1>4, <2>1, <2>2
    DEF WindowEnds, BeatOK, LateOK, DeadOK, TodoOK, ResumesOK, LooseOK, UpOK
<1>5. CASE WalkRests(p, r)
  <2>1. RowOK'
    BY <1>5, <1>s, RowTypes DEF WalkRests
  <2>2. TaskOK' /\ BeatOK' /\ LateOK'
    BY <1>5, <1>l, GoTypes, DropBeatTypes DEF WalkRests, Ends
  <2> QED
    BY <1>5, <2>1, <2>2 DEF WalkRests, DeadOK, TodoOK, ResumesOK, LooseOK, UpOK
<1>6. CASE WalkUnparks(p, r)
  <2>1. RowOK'
    BY <1>6, <1>s, RowTypes DEF WalkUnparks
  <2> QED
    BY <1>6, <2>1
    DEF WalkUnparks, heart, TaskOK, BeatOK, LateOK, DeadOK, TodoOK, ResumesOK, LooseOK, UpOK
<1>7. CASE RecoveryWalksOn(p, r)
  <2>1. TaskOK' /\ BeatOK' /\ LateOK'
    BY <1>7, <1>l, GoTypes, DropBeatTypes DEF RecoveryWalksOn, Ends
  <2>2. RowOK' /\ ResumesOK'
    BY <1>7, SetTypes, RowTypes, <1>s DEF RecoveryWalksOn, ResumesOK
  <2> QED
    BY <1>7, <2>1, <2>2 DEF RecoveryWalksOn, DeadOK, TodoOK, LooseOK, UpOK
<1>8. CASE WalkFails(p, r) \/ WalkFenced(p, r)
  <2>1. TaskOK' /\ BeatOK' /\ LateOK'
    BY <1>8, <1>l, GoTypes, DropBeatTypes DEF WalkFails, WalkFenced, Ends
  <2>2. RowOK'
    BY <1>8, RowTypes, <1>s DEF WalkFails, WalkFenced
  <2> QED
    BY <1>8, <2>1, <2>2 DEF WalkFails, WalkFenced, DeadOK, TodoOK, ResumesOK, LooseOK, UpOK
<1>9. CASE WalkPanics(p, r)
  <2>1. TaskOK' /\ BeatOK' /\ LateOK'
    BY <1>9, <1>l, GoTypes, DropBeatTypes DEF WalkPanics, Ends
  <2>2. RowOK' /\ DeadOK'
    BY <1>9, RowTypes, SetTypes, <1>s DEF WalkPanics, DeadOK
  <2> QED
    BY <1>9, <2>1, <2>2 DEF WalkPanics, TodoOK, ResumesOK, LooseOK, UpOK
<1>10. CASE Reread(p, r)
  <2>1. TaskOK' /\ RowOK'
    BY <1>10, <1>l, <1>s, GoTypes, RowTypes DEF Reread
  <2> QED
    BY <1>10, <2>1 DEF Reread, BeatOK, LateOK, DeadOK, TodoOK, ResumesOK, LooseOK, UpOK
<1>11. CASE Release(p, r)
  <2>1. TaskOK' /\ RowOK'
    BY <1>11, <1>l, <1>s, GoTypes, RowTypes DEF Release, AfterRelease
  <2>2. DeadOK'
    BY <1>11, SetTypes DEF Release, DeadOK
  <2> QED
    BY <1>11, <2>1, <2>2 DEF Release, BeatOK, LateOK, TodoOK, ResumesOK, LooseOK, UpOK
<1>12. CASE HardDrop(p, r)
  <2>1. TaskOK' /\ BeatOK' /\ LateOK' /\ RowOK'
    BY <1>12, <1>l, <1>s, GoTypes, DropBeatTypes, RowTypes DEF HardDrop
  <2> QED
    BY <1>12, <2>1 DEF HardDrop, DeadOK, TodoOK, ResumesOK, LooseOK, UpOK
<1>13. CASE Abandon(p, r)
  <2>1. TaskOK' /\ RowOK'
    BY <1>13, <1>l, <1>s, GoTypes, RowTypes DEF Abandon
  <2> QED
    BY <1>13, <2>1 DEF Abandon, BeatOK, LateOK, DeadOK, TodoOK, ResumesOK, LooseOK, UpOK
<1> QED
  BY <1>1, <1>2, <1>3, <1>4, <1>5, <1>6, <1>7, <1>8, <1>9, <1>10, <1>11, <1>12, <1>13
  DEF TaskStep

\* Every step of a heartbeat keeps the types.
LEMMA BeatTypes ==
  ASSUME TypeOK, NEW p \in Procs, NEW r \in Runs, BeatStep(p, r)
  PROVE  TypeOK'
<1> USE TypeParts, TypePartsNext
<1>1. 0 \in 0..TTL /\ TTL \in 0..TTL /\ "running" \in RunStatuses /\ "free" \in Stages
  BY TimesAssumption DEF RunStatuses, ActiveRun, Stages
<1>2. \A b \in {"asleep", "sent", "yes", "no"} : b \in Beats
  BY DEF Beats
<1>3. CASE BeatSends(p, r) \/ BeatErrs(p, r) \/ BeatLands(p, r)
  <2>1. RowOK'
    BY <1>1, <1>3, RowTypes DEF BeatSends, BeatErrs, BeatLands
  <2>2. BeatOK'
    <3>1. CASE BeatSends(p, r)
      BY <1>1, <1>2, <3>1 DEF BeatSends, BeatOK
    <3>2. CASE BeatErrs(p, r)
      BY <1>1, <1>2, <3>2 DEF BeatErrs, BeatOK
    <3>3. CASE BeatLands(p, r)
      BY <1>2, <3>3 DEF BeatLands, BeatOK
    <3> QED
      BY <1>3, <3>1, <3>2, <3>3
  <2>3. TaskOK'
    BY <1>3 DEF BeatSends, BeatErrs, BeatLands, TaskOK
  <2> QED
    BY <1>3, <2>1, <2>2, <2>3
    DEF BeatSends, BeatErrs, BeatLands, LateOK, DeadOK, TodoOK, ResumesOK, LooseOK, UpOK
<1>4. CASE BeatRenews(p, r)
  <2>1. RowOK'
    BY <1>1, <1>4, RowTypes DEF BeatRenews
  <2>2. BeatOK' /\ TaskOK'
    BY <1>1, <1>2, <1>4 DEF BeatRenews, BeatOK, TaskOK
  <2> QED
    BY <1>4, <2>1, <2>2 DEF BeatRenews, LateOK, DeadOK, TodoOK, ResumesOK, LooseOK, UpOK
<1>5. CASE BeatAbandons(p, r)
  <2>1. TaskOK' /\ BeatOK' /\ LateOK' /\ RowOK'
    BY <1>1, <1>5, GoTypes, DropBeatTypes, RowTypes DEF BeatAbandons, Ends
  <2> QED
    BY <1>5, <2>1 DEF BeatAbandons, DeadOK, TodoOK, ResumesOK, LooseOK, UpOK
<1>6. CASE BeatExpires(p, r)
  <2>1. TaskOK' /\ RowOK'
    BY <1>1, <1>6, GoTypes, RowTypes DEF BeatExpires
  <2>2. BeatOK'
    BY <1>1, <1>2, <1>6 DEF BeatExpires, BeatOK
  <2>3. LateOK' /\ DeadOK'
    BY <1>6, SetTypes DEF BeatExpires, LateOK, DeadOK
  <2> QED
    BY <1>6, <2>1, <2>2, <2>3 DEF BeatExpires, TodoOK, ResumesOK, LooseOK, UpOK
<1>7. CASE LateRefreshLands(p, r)
  <2>1. RowOK' /\ LateOK'
    BY <1>1, <1>7, RowTypes, SetTypes DEF LateRefreshLands, LateOK
  <2> QED
    BY <1>7, <2>1
    DEF LateRefreshLands, heart, TaskOK, BeatOK, DeadOK, TodoOK, ResumesOK, LooseOK, UpOK
<1> QED
  BY <1>3, <1>4, <1>5, <1>6, <1>7 DEF BeatStep

\* Every step of a sweep keeps the types.
LEMMA SweepTypes ==
  ASSUME TypeOK, NEW p \in Procs, SweepStep(p)
  PROVE  TypeOK'
<1> USE TypeParts, TypePartsNext
<1>1. "running" \in RunStatuses /\ "sweep" \in Kinds /\ "taking" \in Stages
      /\ "releasing" \in Stages
  BY DEF RunStatuses, ActiveRun, Stages, Kinds
<1>2. CASE Adopt(p)
  <2> PICK adopted \in SUBSET Runs :
        \/ AdoptLands(p, adopted) /\ todo' = [todo EXCEPT ![p] = adopted]
        \/ Faulty /\ AdoptLands(p, adopted) /\ UNCHANGED todo
    BY <1>2 DEF Adopt
  <2>1. TodoOK'
    BY DEF TodoOK
  <2>2. RowOK'
    <3>1. AdoptLands(p, adopted)
      OBVIOUS
    <3>2. TTL \in 0..TTL /\ "stopped" \in RunStatuses
      BY TimesAssumption DEF RunStatuses, ActiveRun
    <3> QED
      BY <3>1, <3>2 DEF RowOK, AdoptLands
  <2> QED
    BY <1>2, <2>1, <2>2
    DEF Adopt, heart, TaskOK, BeatOK, LateOK, DeadOK, ResumesOK, LooseOK, UpOK
<1>3. ASSUME NEW r \in Runs, GiveBack(p, r)
      PROVE  TypeOK'
  <2>1. TaskOK' /\ RowOK'
    BY <1>1, <1>3, EnterTypes, RowTypes DEF GiveBack, heart
  <2> QED
    BY <1>3, <2>1
    DEF GiveBack, heart, BeatOK, LateOK, DeadOK, TodoOK, ResumesOK, LooseOK, UpOK
<1>4. ASSUME NEW r \in Runs, SweepTakes(p, r)
      PROVE  TypeOK'
  <2>1. TodoOK'
    BY <1>4, SetTypes DEF SweepTakes, TodoOK
  <2>2. CASE Enter(p, r, "taking", "sweep") /\ Send(p, r) /\ UNCHANGED dead
    <3>1. TaskOK' /\ RowOK'
      BY <1>1, <2>2, EnterTypes, RowTypes DEF Send
    <3> QED
      BY <1>4, <2>1, <2>2, <3>1
      DEF SweepTakes, Send, BeatOK, LateOK, DeadOK, ResumesOK, LooseOK, UpOK
  <2>3. CASE /\ dead' = [dead EXCEPT ![p] = @ \cup {r}]
             /\ UNCHANGED <<db, up, stage, kind, heart, late>>
    <3>1. DeadOK' /\ RowOK'
      BY <1>1, <2>3, SetTypes, RowTypes DEF DeadOK
    <3> QED
      BY <1>4, <2>1, <2>3, <3>1
      DEF SweepTakes, heart, TaskOK, BeatOK, LateOK, ResumesOK, LooseOK, UpOK
  <2> QED
    BY <1>4, <2>2, <2>3 DEF SweepTakes
<1> QED
  BY <1>2, <1>3, <1>4 DEF SweepStep

\* Every step of a resume that waits keeps the types.
LEMMA ResumeTypes ==
  ASSUME TypeOK, NEW p \in Procs, NEW r \in Runs, ResumeStep(p, r)
  PROVE  TypeOK'
<1> USE TypeParts, TypePartsNext
<1>1. "running" \in RunStatuses /\ "resume" \in Kinds /\ "taking" \in Stages
  BY DEF RunStatuses, ActiveRun, Stages, Kinds
<1>2. CASE ResumeStarts(p, r)
  <2>1. ResumesOK'
    BY <1>2, SetTypes DEF ResumeStarts, ResumesOK
  <2>2. CASE Enter(p, r, "taking", "resume") /\ Send(p, r) /\ UNCHANGED dead
    <3>1. TaskOK' /\ RowOK'
      BY <1>1, <2>2, EnterTypes, RowTypes DEF Send
    <3> QED
      BY <1>2, <2>1, <2>2, <3>1
      DEF ResumeStarts, Send, BeatOK, LateOK, DeadOK, TodoOK, LooseOK, UpOK
  <2>3. CASE /\ dead' = [dead EXCEPT ![p] = @ \cup {r}]
             /\ UNCHANGED <<db, up, stage, kind, heart, late>>
    <3>1. DeadOK' /\ RowOK'
      BY <1>1, <2>3, SetTypes, RowTypes DEF DeadOK
    <3> QED
      BY <1>2, <2>1, <2>3, <3>1
      DEF ResumeStarts, heart, TaskOK, BeatOK, LateOK, TodoOK, LooseOK, UpOK
  <2> QED
    BY <1>2, <2>2, <2>3 DEF ResumeStarts
<1>3. CASE ResumeRefused(p, r) \/ BackoffCancelled(p, r) \/ LooseRelease(p, r)
  <2>1. RowOK'
    BY <1>1, <1>3, RowTypes DEF ResumeRefused, BackoffCancelled, LooseRelease
  <2>2. ResumesOK' /\ LooseOK'
    BY <1>3, SetTypes DEF ResumeRefused, BackoffCancelled, LooseRelease, ResumesOK, LooseOK
  <2> QED
    BY <1>3, <2>1, <2>2
    DEF ResumeRefused, BackoffCancelled, LooseRelease, heart, TaskOK, BeatOK, LateOK,
        DeadOK, TodoOK, UpOK
<1> QED
  BY <1>2, <1>3 DEF ResumeStep

\* A countdown stays within the lease time.
LEMMA DecTypes ==
  ASSUME NEW n \in 0..TTL
  PROVE  Dec(n) \in 0..TTL
BY TimesAssumption DEF Dec

\* Time, crashes, the workspace stop and the calls just sent keep the types.
LEMMA EnvironmentTypes ==
  ASSUME TypeOK,
         \/ Tick \/ Suspend \/ StopWorkspace \/ UNCHANGED vars
         \/ \E p \in Procs : Crash(p)
         \/ \E p \in Procs : \E r \in Runs :
              ClaimSend(p, r) \/ Command(p, r) \/ CancelQueued(p, r)
  PROVE  TypeOK'
<1> USE TypeParts, TypePartsNext
<1>1. 0 \in 0..TTL /\ "running" \in RunStatuses /\ "cancelled" \in RunStatuses
      /\ "free" \in Stages /\ "claiming" \in Stages /\ "taking" \in Stages
      /\ "none" \in Kinds /\ "claim" \in Kinds /\ "command" \in Kinds /\ "asleep" \in Beats
  BY TimesAssumption DEF RunStatuses, ActiveRun, TerminalRun, Stages, Kinds, Beats
<1>2. CASE Tick
  <2>1. RowOK'
    BY <1>2, DecTypes DEF Tick, RowOK
  <2>2. TaskOK' /\ BeatOK'
    BY <1>2, DecTypes DEF Tick, DecAll, TaskOK, BeatOK
  <2> QED
    BY <1>2, <2>1, <2>2 DEF Tick, LateOK, DeadOK, TodoOK, ResumesOK, LooseOK, UpOK
<1>3. CASE Suspend
  <2>1. RowOK'
    BY <1>3, DecTypes DEF Suspend, RowOK
  <2> QED
    BY <1>3, <2>1
    DEF Suspend, heart, TaskOK, BeatOK, LateOK, DeadOK, TodoOK, ResumesOK, LooseOK, UpOK
<1>4. CASE StopWorkspace \/ UNCHANGED vars
  BY <1>4
  DEF StopWorkspace, vars, heart, RowOK, TaskOK, BeatOK, LateOK, DeadOK, TodoOK, ResumesOK,
      LooseOK, UpOK
<1>5. ASSUME NEW p \in Procs, Crash(p)
      PROVE  TypeOK'
  <2>1. TaskOK' /\ BeatOK'
    BY <1>1, <1>5 DEF Crash, TaskOK, BeatOK
  <2>2. LateOK' /\ DeadOK' /\ TodoOK' /\ ResumesOK' /\ LooseOK' /\ UpOK'
    BY <1>5 DEF Crash, LateOK, DeadOK, TodoOK, ResumesOK, LooseOK, UpOK
  <2> QED
    BY <1>5, <2>1, <2>2 DEF Crash, db, RowOK
<1>6. ASSUME NEW p \in Procs, NEW r \in Runs,
             ClaimSend(p, r) \/ Command(p, r) \/ CancelQueued(p, r)
      PROVE  TypeOK'
  <2>1. CASE ClaimSend(p, r) \/ Command(p, r)
    <3>1. TaskOK'
      BY <1>1, <2>1, EnterTypes DEF ClaimSend, Command, Send
    <3> QED
      BY <2>1, <3>1
      DEF ClaimSend, Command, Send, db, RowOK, BeatOK, LateOK, DeadOK, TodoOK, ResumesOK,
          LooseOK, UpOK
  <2>2. CASE CancelQueued(p, r)
    <3>1. RowOK'
      BY <1>1, <2>2, RowTypes DEF CancelQueued
    <3> QED
      BY <2>2, <3>1
      DEF CancelQueued, heart, TaskOK, BeatOK, LateOK, DeadOK, TodoOK, ResumesOK, LooseOK, UpOK
  <2> QED
    BY <1>6, <2>1, <2>2
<1> QED
  BY <1>2, <1>3, <1>4, <1>5, <1>6

\* Every value the model's variables take is of its type: the row, the tasks, the clocks.
THEOREM TypeCorrect == Spec => []TypeOK
<1>1. TypeOK /\ [Next]_vars => TypeOK'
  BY TaskTypes, BeatTypes, SweepTypes, ResumeTypes, EnvironmentTypes DEF Next
<1> QED
  BY InitTypes, <1>1, PTL DEF Spec

-----------------------------------------------------------------------------
(***************************************************************************)
(* The clocks are safe.  LeaseInv, pair by pair of process and run: an     *)
(* action's own pair is looked at action by action, every other pair       *)
(* follows from what the store's writes keep (RowKeeps).                   *)
(***************************************************************************)

PairInv(p, r) ==
  /\ stage[p][r] = "walk" => rem[p][r] > 0
  /\ stage[p][r] \in {"window", "walk"} /\ rem[p][r] > 0
       => owner[r] = p /\ lease[r] >= rem[p][r]
  /\ beat[p][r] # "asleep" => stage[p][r] = "walk" /\ beatRem[p][r] >= rem[p][r]
  /\ beat[p][r] = "yes" => lease[r] >= beatRem[p][r]
QueuedFree == \A r \in Runs : status[r] = "queued" => owner[r] = Nobody
NoLoose == \A p \in Procs : loose[p] = {}

\* LeaseInv, pair by pair.
LEMMA InvParts ==
  LeaseInv <=> /\ \A p \in Procs : \A r \in Runs : PairInv(p, r)
               /\ QueuedFree /\ NoLoose
BY DEF LeaseInv, ClockIsSafe, PairInv, QueuedFree, NoLoose
\* The same after a step.
LEMMA InvPartsNext ==
  LeaseInv' <=> /\ \A p \in Procs : \A r \in Runs : PairInv(p, r)'
                /\ QueuedFree' /\ NoLoose'
BY DEF LeaseInv, ClockIsSafe, PairInv, QueuedFree, NoLoose

\* What a statement of p's on r does to the rows.
Statement(p, r) ==
  \/ TakeLands(p, r) \/ RefreshLands(p, r) \/ ReleaseLands(p, r)
  \/ \E to \in RunStatuses \ {"queued"} : MoveRun(r, to)
  \/ Admitted(p, r)
Passes == /\ lease' = [r \in Runs |-> Dec(lease[r])]
          /\ UNCHANGED <<status, owner>>
StoreStep ==
  \/ UNCHANGED <<status, owner, lease>>
  \/ Passes
  \/ \E p \in Procs : \E r \in Runs : Statement(p, r)
  \/ \E p \in Procs : \E adopted \in SUBSET Runs : AdoptLands(p, adopted)

\* A queued run has no owner, whatever the statement.
LEMMA QueuedStaysFree ==
  ASSUME RowOK, QueuedFree, StoreStep
  PROVE  QueuedFree'
<1> USE DEF RowOK, QueuedFree
<1>1. CASE UNCHANGED <<status, owner, lease>> \/ Passes
  BY <1>1 DEF Passes
<1>2. ASSUME NEW p \in Procs, NEW r \in Runs, Statement(p, r)
      PROVE  QueuedFree'
  <2>1. CASE TakeLands(p, r)
    BY <2>1 DEF TakeLands, Takeable, Leasable, WriteLease
  <2>2. CASE RefreshLands(p, r) \/ ReleaseLands(p, r)
    BY <2>2 DEF RefreshLands, ReleaseLands
  <2>3. CASE \E to \in RunStatuses \ {"queued"} : MoveRun(r, to)
    BY <2>3 DEF MoveRun
  <2>4. CASE Admitted(p, r)
    BY <2>4 DEF Admitted, WriteLease
  <2> QED
    BY <1>2, <2>1, <2>2, <2>3, <2>4 DEF Statement
<1>3. ASSUME NEW p \in Procs, NEW adopted \in SUBSET Runs, AdoptLands(p, adopted)
      PROVE  QueuedFree'
  BY <1>3 DEF AdoptLands, Adoptable
<1> QED
  BY <1>1, <1>2, <1>3 DEF StoreStep

\* A write of p's on r, or an adoption of p's, as it lands on the rows.
RowStep(p, r) ==
  \/ UNCHANGED db
  \/ TakeLands(p, r)
  \/ RefreshLands(p, r)
  \/ ReleaseLands(p, r) /\ stage[p][r] \notin {"window", "walk"}
  \/ \E to \in RunStatuses \ {"queued"} : MoveRun(r, to)
  \/ Admitted(p, r)
  \/ \E adopted \in SUBSET Runs : AdoptLands(p, adopted)

\* The same of a task's own write.
LEMMA QueuedKept ==
  ASSUME RowOK, QueuedFree, NEW p \in Procs, NEW r \in Runs, RowStep(p, r)
  PROVE  QueuedFree'
<1>1. StoreStep
  BY DEF RowStep, StoreStep, Statement, db
<1> QED
  BY <1>1, QueuedStaysFree

\* No write takes from q a lease that has time left, but q's own release.
LEMMA RowKeeps ==
  ASSUME RowOK, QueuedFree, NEW p \in Procs, NEW r \in Runs, RowStep(p, r),
         NEW q \in Procs, NEW s \in Runs, owner[s] = q, lease[s] > 0,
         p = q /\ r = s => stage[p][r] \in {"window", "walk"}
  PROVE  owner'[s] = q /\ lease'[s] >= lease[s]
<1> USE TimesAssumption DEF RowOK
<1>0. q # Nobody /\ lease[s] \in 0..TTL /\ lease[s] # 0
  BY ProcsAssumption
<1>1. CASE UNCHANGED db
  BY <1>0, <1>1 DEF db
<1>2. CASE TakeLands(p, r)
  BY <1>0, <1>2 DEF TakeLands, Takeable, WriteLease
<1>3. CASE RefreshLands(p, r)
  BY <1>0, <1>3 DEF RefreshLands
<1>4. CASE ReleaseLands(p, r) /\ stage[p][r] \notin {"window", "walk"}
  BY <1>0, <1>4 DEF ReleaseLands
<1>5. CASE \E to \in RunStatuses \ {"queued"} : MoveRun(r, to)
  BY <1>0, <1>5 DEF MoveRun
<1>6. CASE Admitted(p, r)
  BY <1>0, <1>6 DEF Admitted, WriteLease, QueuedFree
<1>7. CASE \E adopted \in SUBSET Runs : AdoptLands(p, adopted)
  BY <1>0, <1>7 DEF AdoptLands, Adoptable
<1> QED
  BY <1>1, <1>2, <1>3, <1>4, <1>5, <1>6, <1>7 DEF RowStep

\* A pair whose task the step leaves alone.
SameTask(q, s) ==
  /\ stage'[q][s] = stage[q][s] /\ rem'[q][s] = rem[q][s]
  /\ beat'[q][s] = beat[q][s] /\ beatRem'[q][s] = beatRem[q][s]

\* A pair whose task the step leaves alone keeps its invariant, whatever the rows see.
LEMMA SamePair ==
  ASSUME TypeOK, TypeOK', QueuedFree, NEW p \in Procs, NEW r \in Runs, RowStep(p, r),
         NEW q \in Procs, NEW s \in Runs, PairInv(q, s), SameTask(q, s)
  PROVE  PairInv(q, s)'
<1> USE DEF SameTask
<1>1. /\ rem[q][s] \in 0..TTL /\ beatRem[q][s] \in 0..TTL /\ lease[s] \in 0..TTL
      /\ lease'[s] \in 0..TTL /\ TTL \in Nat
  BY TimesAssumption DEF TypeOK
<1>2. CASE stage[q][s] \in {"window", "walk"} /\ rem[q][s] > 0
  <2>1. owner[s] = q /\ lease[s] > 0
    BY <1>1, <1>2 DEF PairInv
  <2>2. owner'[s] = q /\ lease'[s] >= lease[s]
    BY <1>2, <2>1, RowKeeps, TypeParts
  <2> QED
    BY <1>1, <1>2, <2>2 DEF PairInv
<1>3. CASE ~(stage[q][s] \in {"window", "walk"} /\ rem[q][s] > 0)
  BY <1>1, <1>3 DEF PairInv
<1> QED
  BY <1>2, <1>3

\* It is enough to look at the pair whose task acts.
LEMMA OtherPairs ==
  ASSUME TypeOK, TypeOK', LeaseInv, NEW p \in Procs, NEW r \in Runs, RowStep(p, r),
         \A q \in Procs : \A s \in Runs : q # p \/ s # r => SameTask(q, s),
         PairInv(p, r)', UNCHANGED loose
  PROVE  LeaseInv'
<1>1. QueuedFree'
  BY QueuedKept, InvParts, TypeParts
<1>2. \A q \in Procs : \A s \in Runs : PairInv(q, s)'
  BY SamePair, InvParts
<1>3. NoLoose'
  BY InvParts DEF NoLoose
<1> QED
  BY <1>1, <1>2, <1>3, InvPartsNext

\* A task's move leaves every other pair's task alone.
LEMMA GoElsewhere ==
  ASSUME TaskOK, NEW p \in Procs, NEW r \in Runs, NEW s, Go(p, r, s) \/ Drop(p, r)
  PROVE  /\ \A q \in Procs : \A t \in Runs : q # p \/ t # r =>
              stage'[q][t] = stage[q][t] /\ rem'[q][t] = rem[q][t]
         /\ Go(p, r, s) => stage'[p][r] = s
         /\ Go(p, r, s) /\ s \in {"window", "walk"} => rem'[p][r] = rem[p][r]
         /\ Drop(p, r) => stage'[p][r] = "abandoning"
BY DEF TaskOK, Go, Drop
\* A dropped heartbeat leaves every other alone.
LEMMA DropBeatElsewhere ==
  ASSUME BeatOK, NEW p \in Procs, NEW r \in Runs, DropBeat(p, r)
  PROVE  /\ \A q \in Procs : \A t \in Runs : q # p \/ t # r =>
              beat'[q][t] = beat[q][t] /\ beatRem'[q][t] = beatRem[q][t]
         /\ beat'[p][r] = "asleep"
BY DEF BeatOK, DropBeat

\* A task that neither holds a window nor walks, and does not beat, owes nothing.
LEMMA IdlePair ==
  ASSUME NEW p, NEW r, stage'[p][r] \notin {"window", "walk"}, beat'[p][r] = "asleep"
  PROVE  PairInv(p, r)'
BY DEF PairInv

\* The steps that end a walk or move a task on, the row written or not.
LEMMA LeaveSafe ==
  ASSUME TypeOK, TypeOK', LeaseInv, NEW p \in Procs, NEW r \in Runs, NEW s,
         Go(p, r, s) \/ Drop(p, r), s \notin {"window", "walk"},
         DropBeat(p, r) \/ (UNCHANGED <<beat, beatRem>> /\ stage[p][r] # "walk"),
         RowStep(p, r), UNCHANGED loose
  PROVE  LeaseInv'
<1> USE TypeParts
<1>1. stage'[p][r] \notin {"window", "walk"}
  BY GoElsewhere
<1>2. beat'[p][r] = "asleep"
  BY DropBeatElsewhere, InvParts DEF PairInv
<1>3. \A q \in Procs : \A t \in Runs : q # p \/ t # r => SameTask(q, t)
  BY GoElsewhere, DropBeatElsewhere DEF SameTask
<1> QED
  BY <1>1, <1>2, <1>3, IdlePair, OtherPairs

\* A walk begins, in time or past its fence, under a row that is its process's own.
LEMMA BeginSafe ==
  ASSUME TypeOK, TypeOK', LeaseInv, NEW p \in Procs, NEW r \in Runs, NEW d,
         Begin(p, r, d), UNCHANGED <<beat, beatRem, loose>>, stage[p][r] # "walk",
         RowStep(p, r), rem[p][r] > 0 => owner'[r] = p /\ lease'[r] >= rem[p][r]
  PROVE  LeaseInv'
<1> USE TypeParts
<1>1. CASE rem[p][r] > Refresh
  <2>1. Go(p, r, "walk")
    BY <1>1 DEF Begin
  <2>2. rem[p][r] \in Nat /\ Refresh \in Nat
    BY TimesAssumption DEF TaskOK
  <2>3. beat[p][r] = "asleep"
    BY InvParts DEF PairInv
  <2>4. PairInv(p, r)'
    BY <1>1, <2>1, <2>2, <2>3, GoElsewhere DEF PairInv
  <2>5. \A q \in Procs : \A t \in Runs : q # p \/ t # r => SameTask(q, t)
    BY <2>1, GoElsewhere DEF SameTask
  <2> QED
    BY <2>4, <2>5, OtherPairs
<1>2. CASE ~(rem[p][r] > Refresh)
  <2>1. Go(p, r, "free")
    BY <1>2 DEF Begin
  <2> QED
    BY <2>1, LeaveSafe
<1> QED
  BY <1>1, <1>2

\* Every step of a task keeps the clocks safe: takes count from their sending, and a
\* release ends the walk it releases for.
LEMMA TaskSafe ==
  ASSUME TypeOK, TypeOK', LeaseInv, NEW p \in Procs, NEW r \in Runs, TaskStep(p, r)
  PROVE  LeaseInv'
<1> USE TypeParts
<1>t. rem[p][r] \in 0..TTL /\ TTL \in Nat
  BY TimesAssumption DEF TaskOK
<1>m. \A to \in {"running", "awaiting", "done", "failed", "cancelled"} :
        to \in RunStatuses \ {"queued"}
  BY DEF RunStatuses, ActiveRun, TerminalRun
<1>1. CASE ClaimRun(p, r)
  <2> stage[p][r] # "walk" /\ UNCHANGED <<beat, beatRem, loose>>
    BY <1>1 DEF ClaimRun
  <2>1. CASE Admitted(p, r) /\ Begin(p, r, dead)
    <3>1. owner'[r] = p /\ lease'[r] = TTL
      BY <2>1 DEF Admitted, WriteLease, RowOK
    <3>2. RowStep(p, r)
      BY <2>1 DEF RowStep
    <3> QED
      BY <1>t, <2>1, <3>1, <3>2, BeginSafe
  <2>2. CASE ~(Admitted(p, r) /\ Begin(p, r, dead))
    BY <1>1, <1>m, <2>2, LeaveSafe DEF ClaimRun, RowStep
  <2> QED
    BY <2>1, <2>2
<1>2. CASE TakeLease(p, r)
  <2> stage[p][r] # "walk" /\ UNCHANGED <<beat, beatRem, loose>>
    BY <1>2 DEF TakeLease
  <2>1. CASE Takeable(p, r) /\ TakeLands(p, r)
    <3>1. owner'[r] = p /\ lease'[r] = TTL
      BY <2>1 DEF TakeLands, WriteLease, RowOK
    <3>2. RowStep(p, r)
      BY <2>1 DEF RowStep
    <3>3. CASE Begin(p, r, [dead EXCEPT ![p] = @ \ {r}])
      BY <1>t, <3>1, <3>2, <3>3, BeginSafe
    <3>4. CASE Go(p, r, "window")
      <4>1. PairInv(p, r)'
        BY <1>t, <3>1, <3>4, GoElsewhere, InvParts DEF PairInv
      <4>2. \A q \in Procs : \A t \in Runs : q # p \/ t # r => SameTask(q, t)
        BY <3>4, GoElsewhere DEF SameTask
      <4> QED
        BY <3>2, <4>1, <4>2, OtherPairs
    <3>5. CASE \E s \in {"free", "releasing"} : Go(p, r, s)
      BY <3>2, <3>5, LeaveSafe
    <3> QED
      BY <1>2, <3>3, <3>4, <3>5 DEF TakeLease
  <2>2. CASE ~(Takeable(p, r) /\ TakeLands(p, r))
    <3>1. \E s \in {"free", "releasing"} : Go(p, r, s)
      BY <1>2, <2>2 DEF TakeLease
    <3>2. RowStep(p, r)
      BY <1>2, <2>2 DEF TakeLease, RowStep
    <3> QED
      BY <3>1, <3>2, LeaveSafe
  <2> QED
    BY <2>1, <2>2
<1>3. CASE WindowGoesOn(p, r)
  <2>1. stage[p][r] = "window" /\ UNCHANGED <<beat, beatRem, loose, owner, lease>>
    BY <1>3 DEF WindowGoesOn, MoveRun, db
  <2>2. RowStep(p, r)
    BY <1>3, <1>m DEF WindowGoesOn, RowStep
  <2>3. CASE Begin(p, r, dead)
    <3>1. rem[p][r] > 0 => owner'[r] = p /\ lease'[r] >= rem[p][r]
      BY <2>1, InvParts DEF PairInv
    <3> QED
      BY <2>1, <2>2, <2>3, <3>1, BeginSafe
  <2>4. CASE Go(p, r, "releasing")
    BY <2>1, <2>2, <2>4, LeaveSafe
  <2> QED
    BY <1>3, <2>3, <2>4 DEF WindowGoesOn
<1>4. CASE WindowEnds(p, r) \/ Reread(p, r) \/ Abandon(p, r)
  <2>1. \E s \in {"releasing", "free"} : Go(p, r, s)
    BY <1>4 DEF WindowEnds, Reread, Abandon
  <2>2. RowStep(p, r)
    BY <1>4, <1>m DEF WindowEnds, Reread, Abandon, RowStep
  <2>3. stage[p][r] # "walk" /\ UNCHANGED <<beat, beatRem, loose>>
    BY <1>4 DEF WindowEnds, Reread, Abandon
  <2> QED
    BY <2>1, <2>2, <2>3, LeaveSafe
<1>5. CASE Release(p, r)
  <2>1. Go(p, r, "free") \/ Drop(p, r)
    BY <1>5 DEF Release, AfterRelease
  <2>2. RowStep(p, r)
    BY <1>5 DEF Release, RowStep
  <2>3. stage[p][r] # "walk" /\ UNCHANGED <<beat, beatRem, loose>>
    BY <1>5 DEF Release
  <2> QED
    BY <2>1, <2>2, <2>3, LeaveSafe
<1>6. CASE WalkRests(p, r)
  <2>1. RowStep(p, r)
    BY <1>6, <1>m DEF WalkRests, RowStep
  <2> QED
    BY <1>6, <2>1, LeaveSafe DEF WalkRests, Ends
<1>7. CASE \/ RecoveryWalksOn(p, r) \/ WalkFails(p, r) \/ WalkFenced(p, r)
           \/ WalkPanics(p, r) \/ HardDrop(p, r)
  <2>1. \/ \E s \in {"free", "reread", "releasing", "cancelled"} : Go(p, r, s)
        \/ Drop(p, r)
    BY <1>7 DEF RecoveryWalksOn, WalkFails, WalkFenced, WalkPanics, HardDrop, Ends
  <2>2. DropBeat(p, r) /\ RowStep(p, r) /\ UNCHANGED loose
    BY <1>7 DEF RecoveryWalksOn, WalkFails, WalkFenced, WalkPanics, HardDrop, Ends, RowStep
  <2> QED
    BY <2>1, <2>2, LeaveSafe
<1>8. CASE WalkUnparks(p, r)
  <2>1. RowStep(p, r)
    BY <1>8, <1>m DEF WalkUnparks, RowStep
  <2>2. \A q \in Procs : \A t \in Runs : SameTask(q, t)
    BY <1>8 DEF WalkUnparks, heart, SameTask
  <2>3. PairInv(p, r)'
    BY <2>1, <2>2, SamePair, InvParts
  <2> QED
    BY <1>8, <2>1, <2>2, <2>3, OtherPairs DEF WalkUnparks
<1> QED
  BY <1>1, <1>2, <1>3, <1>4, <1>5, <1>6, <1>7, <1>8 DEF TaskStep

\* A step that moves no task: it writes the rows at most.
LEMMA RowsSafe ==
  ASSUME TypeOK, TypeOK', LeaseInv, NEW p \in Procs, NEW r \in Runs, RowStep(p, r),
         UNCHANGED <<stage, heart, loose>>
  PROVE  LeaseInv'
<1>1. \A q \in Procs : \A t \in Runs : SameTask(q, t)
  BY DEF heart, SameTask
<1>2. PairInv(p, r)'
  BY <1>1, SamePair, InvParts
<1> QED
  BY <1>1, <1>2, OtherPairs

\* Every step of a heartbeat keeps the clocks safe: a refresh counts from its sending.
LEMMA BeatSafe ==
  ASSUME TypeOK, TypeOK', LeaseInv, NEW p \in Procs, NEW r \in Runs, BeatStep(p, r)
  PROVE  LeaseInv'
<1> USE TypeParts
<1>t. /\ rem[p][r] \in 0..TTL /\ beatRem[p][r] \in 0..TTL /\ lease[r] \in 0..TTL
      /\ TTL \in Nat /\ PairInv(p, r)
  BY TimesAssumption, InvParts DEF TaskOK, BeatOK, RowOK
<1>1. CASE BeatSends(p, r)
  <2>1. PairInv(p, r)'
    BY <1>1, <1>t DEF BeatSends, PairInv, db, BeatOK
  <2>2. \A q \in Procs : \A t \in Runs : q # p \/ t # r => SameTask(q, t)
    BY <1>1 DEF BeatSends, SameTask, BeatOK
  <2> QED
    BY <1>1, <2>1, <2>2, OtherPairs DEF BeatSends, RowStep
<1>2. CASE BeatLands(p, r)
  <2>1. owner[r] = p /\ stage[p][r] = "walk"
    BY <1>2, <1>t DEF BeatLands, PairInv
  <2>2. PairInv(p, r)'
    BY <1>2, <1>t, <2>1 DEF BeatLands, RefreshLands, PairInv, BeatOK, RowOK
  <2>3. \A q \in Procs : \A t \in Runs : q # p \/ t # r => SameTask(q, t)
    BY <1>2 DEF BeatLands, SameTask, BeatOK
  <2> QED
    BY <1>2, <2>2, <2>3, OtherPairs DEF BeatLands, RowStep
<1>3. CASE BeatErrs(p, r)
  <2>1. RowStep(p, r)
    BY <1>3 DEF BeatErrs, RowStep
  <2>2. PairInv(p, r)'
    BY <1>3, <1>t DEF BeatErrs, RefreshLands, PairInv, BeatOK, RowOK, db
  <2>3. \A q \in Procs : \A t \in Runs : q # p \/ t # r => SameTask(q, t)
    BY <1>3 DEF BeatErrs, SameTask, BeatOK
  <2> QED
    BY <1>3, <2>1, <2>2, <2>3, OtherPairs DEF BeatErrs
<1>4. CASE BeatRenews(p, r)
  <2>1. PairInv(p, r)'
    BY <1>4, <1>t DEF BeatRenews, PairInv, BeatOK, TaskOK, db
  <2>2. \A q \in Procs : \A t \in Runs : q # p \/ t # r => SameTask(q, t)
    BY <1>4 DEF BeatRenews, SameTask, BeatOK, TaskOK
  <2> QED
    BY <1>4, <2>1, <2>2, OtherPairs DEF BeatRenews, RowStep
<1>5. CASE BeatAbandons(p, r)
  BY <1>5, LeaveSafe DEF BeatAbandons, Ends, RowStep
<1>6. CASE BeatExpires(p, r)
  <2>1. Go(p, r, "free") /\ RowStep(p, r) /\ UNCHANGED loose
    BY <1>6 DEF BeatExpires, RowStep
  <2>2. beat'[p][r] = "asleep"
    BY <1>6 DEF BeatExpires, BeatOK
  <2>3. \A q \in Procs : \A t \in Runs : q # p \/ t # r => SameTask(q, t)
    BY <1>6, <2>1, GoElsewhere DEF BeatExpires, SameTask, BeatOK
  <2>4. PairInv(p, r)'
    BY <2>1, <2>2, GoElsewhere, IdlePair
  <2> QED
    BY <2>1, <2>3, <2>4, OtherPairs
<1>7. CASE LateRefreshLands(p, r)
  BY <1>7, RowsSafe DEF LateRefreshLands, RowStep
<1> QED
  BY <1>1, <1>2, <1>3, <1>4, <1>5, <1>6, <1>7 DEF BeatStep

\* The sweep writes rows, and starts tasks that neither hold a window nor walk.
LEMMA EnterSafe ==
  ASSUME TypeOK, TypeOK', LeaseInv, NEW p \in Procs, NEW r \in Runs, NEW s, NEW k,
         Enter(p, r, s, k), s \notin {"window", "walk"},
         UNCHANGED rem \/ rem' = [rem EXCEPT ![p][r] = TTL],
         UNCHANGED <<db, beat, beatRem, loose>>
  PROVE  LeaseInv'
<1> USE TypeParts
<1>1. stage'[p][r] \notin {"window", "walk"}
  BY DEF Enter, TaskOK
<1>2. beat'[p][r] = "asleep"
  BY InvParts DEF PairInv, Enter
<1>3. \A q \in Procs : \A t \in Runs : q # p \/ t # r => SameTask(q, t)
  BY DEF SameTask, Enter, TaskOK
<1>4. RowStep(p, r)
  BY DEF RowStep
<1> QED
  BY <1>1, <1>2, <1>3, <1>4, IdlePair, OtherPairs

\* The sweep keeps the clocks safe: it adopts lapsed leases alone.
LEMMA SweepSafe ==
  ASSUME TypeOK, TypeOK', LeaseInv, NEW p \in Procs, SweepStep(p)
  PROVE  LeaseInv'
<1>1. CASE Adopt(p)
  <2>1. PICK adopted \in SUBSET Runs : AdoptLands(p, adopted)
    BY <1>1 DEF Adopt
  <2>2. UNCHANGED <<stage, heart, loose>>
    BY <1>1 DEF Adopt
  <2>3. CASE Runs = {}
    BY <2>3, <2>2, InvParts, InvPartsNext DEF QueuedFree, NoLoose
  <2>4. CASE Runs # {}
    <3>1. PICK r \in Runs : TRUE
      BY <2>4
    <3>2. RowStep(p, r)
      BY <2>1 DEF RowStep
    <3> QED
      BY <2>2, <3>2, RowsSafe
  <2> QED
    BY <2>3, <2>4
<1>2. ASSUME NEW r \in Runs, GiveBack(p, r)
      PROVE  LeaseInv'
  BY <1>2, EnterSafe DEF GiveBack, heart
<1>3. ASSUME NEW r \in Runs, SweepTakes(p, r)
      PROVE  LeaseInv'
  <2>1. CASE Enter(p, r, "taking", "sweep") /\ Send(p, r)
    <3>1. UNCHANGED <<db, beat, beatRem, loose>> /\ rem' = [rem EXCEPT ![p][r] = TTL]
      BY <1>3, <2>1 DEF SweepTakes, Send
    <3>2. \E s \in {"taking"} : \E k \in Kinds : Enter(p, r, s, k)
      BY <2>1 DEF Kinds
    <3> QED
      BY <3>1, <3>2, EnterSafe
  <2>2. CASE UNCHANGED <<db, up, stage, kind, heart, late>>
    BY <1>3, <2>2, RowsSafe DEF SweepTakes, RowStep
  <2> QED
    BY <1>3, <2>1, <2>2 DEF SweepTakes
<1> QED
  BY <1>1, <1>2, <1>3 DEF SweepStep

\* Where no process backs a failing resume off, none releases without the lock.
LEMMA ResumeSafe ==
  ASSUME TypeOK, TypeOK', LeaseInv, BacksOff = {},
         NEW p \in Procs, NEW r \in Runs, ResumeStep(p, r)
  PROVE  LeaseInv'
<1>1. CASE ResumeStarts(p, r)
  <2>1. CASE Enter(p, r, "taking", "resume") /\ Send(p, r)
    <3>1. UNCHANGED <<db, beat, beatRem, loose>> /\ rem' = [rem EXCEPT ![p][r] = TTL]
      BY <1>1, <2>1 DEF ResumeStarts, Send
    <3>2. \E s \in {"taking"} : \E k \in Kinds : Enter(p, r, s, k)
      BY <2>1 DEF Kinds
    <3> QED
      BY <3>1, <3>2, EnterSafe
  <2>2. CASE UNCHANGED <<db, up, stage, kind, heart, late>>
    BY <1>1, <2>2, RowsSafe DEF ResumeStarts, RowStep
  <2> QED
    BY <1>1, <2>1, <2>2 DEF ResumeStarts
<1>2. CASE ResumeRefused(p, r)
  BY <1>2, RowsSafe DEF ResumeRefused, RowStep
<1>3. CASE BackoffCancelled(p, r)
  BY <1>3 DEF BackoffCancelled
<1>4. CASE LooseRelease(p, r)
  BY <1>4, InvParts DEF LooseRelease, NoLoose
<1> QED
  BY <1>1, <1>2, <1>3, <1>4 DEF ResumeStep

\* Time keeps a safe clock safe: the store's and the process's clocks run together, and no
\* walk is let past its fence.
LEMMA TickSafe ==
  ASSUME TypeOK, LeaseInv, Tick
  PROVE  LeaseInv'
<1> USE TypeParts
<1>1. ASSUME NEW p \in Procs, NEW r \in Runs
      PROVE  PairInv(p, r)'
  <2>1. /\ rem[p][r] \in Nat /\ beatRem[p][r] \in Nat /\ lease[r] \in Nat
        /\ PairInv(p, r)
    BY TimesAssumption, InvParts DEF TaskOK, BeatOK, RowOK
  <2>2. /\ rem'[p][r] = Dec(rem[p][r]) /\ beatRem'[p][r] = Dec(beatRem[p][r])
        /\ lease'[r] = Dec(lease[r])
    BY DEF Tick, DecAll
  <2>3. stage'[p][r] = stage[p][r] /\ beat'[p][r] = beat[p][r] /\ owner'[r] = owner[r]
    BY DEF Tick
  <2>4. stage[p][r] = "walk" => Dec(rem[p][r]) > 0
    <3>1. stage[p][r] = "walk" => ~(rem[p][r] <= Refresh - Lag)
      BY DEF Tick, Overdue
    <3> QED
      BY <2>1, <3>1, TimesAssumption DEF Dec
  <2>5. \A m, n \in Nat : m >= n => Dec(m) >= Dec(n)
    BY DEF Dec
  <2>6. Dec(rem[p][r]) > 0 => rem[p][r] > 0
    BY <2>1 DEF Dec
  <2> QED
    BY <2>1, <2>2, <2>3, <2>4, <2>5, <2>6 DEF PairInv
<1>2. QueuedFree' /\ NoLoose'
  BY InvParts DEF Tick, QueuedFree, NoLoose
<1> QED
  BY <1>1, <1>2, InvPartsNext

\* A crash leaves the rows, and the dead process without tasks.
LEMMA CrashSafe ==
  ASSUME TypeOK, LeaseInv, NEW p \in Procs, Crash(p)
  PROVE  LeaseInv'
<1> USE TypeParts
<1>1. ASSUME NEW q \in Procs, NEW r \in Runs
      PROVE  PairInv(q, r)'
  <2>1. UNCHANGED <<status, owner, lease, loose>>
    BY DEF Crash, db
  <2>2. CASE q = p
    <3>1. stage'[q][r] = "free" /\ beat'[q][r] = "asleep"
      BY <2>2 DEF Crash, TaskOK, BeatOK
    <3> QED
      BY <3>1, IdlePair
  <2>3. CASE q # p
    <3>1. SameTask(q, r)
      BY <2>3 DEF Crash, SameTask, TaskOK, BeatOK
    <3> QED
      BY <2>1, <3>1, InvParts DEF PairInv, SameTask
  <2> QED
    BY <2>2, <2>3
<1>2. QueuedFree' /\ NoLoose'
  BY InvParts DEF Crash, db, QueuedFree, NoLoose
<1> QED
  BY <1>1, <1>2, InvPartsNext

\* The environment's other steps, and the calls just sent, write no clock that counts.
LEMMA EnvironmentSafe ==
  ASSUME TypeOK, TypeOK', LeaseInv, Suspends = FALSE,
         \/ Tick \/ Suspend \/ StopWorkspace \/ UNCHANGED vars
         \/ \E p \in Procs : Crash(p)
         \/ \E p \in Procs : \E r \in Runs :
              ClaimSend(p, r) \/ Command(p, r) \/ CancelQueued(p, r)
  PROVE  LeaseInv'
<1>1. CASE StopWorkspace \/ UNCHANGED vars
  BY <1>1 DEF StopWorkspace, vars, heart, LeaseInv, ClockIsSafe
<1>2. ASSUME NEW p \in Procs, NEW r \in Runs,
             ClaimSend(p, r) \/ Command(p, r)
      PROVE  LeaseInv'
  <2>1. \E s \in {"claiming", "taking"} : \E k \in {"claim", "command"} : Enter(p, r, s, k)
    BY <1>2 DEF ClaimSend, Command
  <2>2. UNCHANGED <<db, beat, beatRem, loose>> /\ rem' = [rem EXCEPT ![p][r] = TTL]
    BY <1>2 DEF ClaimSend, Command, Send
  <2> QED
    BY <2>1, <2>2, EnterSafe
<1>3. ASSUME NEW p \in Procs, NEW r \in Runs, CancelQueued(p, r)
      PROVE  LeaseInv'
  <2>1. "cancelled" \in RunStatuses \ {"queued"}
    BY DEF RunStatuses, ActiveRun, TerminalRun
  <2> QED
    BY <1>3, <2>1, RowsSafe DEF CancelQueued, RowStep
<1> QED
  BY <1>1, <1>2, <1>3, TickSafe, CrashSafe DEF Suspend

\* Nothing is queued's or walked at the start.
LEMMA InitSafe == Init => LeaseInv
BY DEF Init, LeaseInv, ClockIsSafe

-----------------------------------------------------------------------------
\* The clocks of the leases stay safe on a host that is never suspended, while no process
\* gives a lease back without its run's lock: the strengthening the next theorems rest on.
THEOREM LeaseInvHolds ==
  ASSUME Suspends = FALSE, BacksOff = {}
  PROVE  Spec => []LeaseInv
<1>1. TypeOK /\ TypeOK' /\ LeaseInv /\ [Next]_vars => LeaseInv'
  BY TaskSafe, BeatSafe, SweepSafe, ResumeSafe, EnvironmentSafe DEF Next
<1> QED
  BY InitSafe, TypeCorrect, <1>1, PTL DEF Spec

\* A walk whose clock has time left holds the lease in the store, for at least that long.
THEOREM ClockSafety ==
  ASSUME Suspends = FALSE, BacksOff = {}
  PROVE  Spec => []ClockIsSafe
<1>1. LeaseInv => ClockIsSafe
  BY DEF LeaseInv
<1> QED
  BY <1>1, LeaseInvHolds, PTL

\* Two processes never walk one run.
THEOREM MutualExclusion ==
  ASSUME Suspends = FALSE, BacksOff = {}
  PROVE  Spec => []OneWalk
<1>1. LeaseInv => OneWalk
  BY DEF LeaseInv, ClockIsSafe, OneWalk
<1> QED
  BY <1>1, LeaseInvHolds, PTL

\* The unfenced writes that park or settle a walked run are its lease owner's.
THEOREM RestsUnderLease ==
  ASSUME Suspends = FALSE, BacksOff = {}
  PROVE  Spec => OnlyOwnerRests
<1>1. LeaseInv =>
        \A p \in Procs : \A r \in Runs :
          stage[p][r] = "walk" /\ stage'[p][r] = "reread" /\ status'[r] # status[r]
            => owner[r] = p
  BY DEF LeaseInv, ClockIsSafe
<1> QED
  BY <1>1, LeaseInvHolds, PTL DEF OnlyOwnerRests

-----------------------------------------------------------------------------
(***************************************************************************)
(* The lease is the abstract lock, with no assumption on the clocks, the   *)
(* faults or the releases: the store's predicates alone carry it.          *)
(***************************************************************************)

\* Whatever the program does, the rows see one statement, or time, or nothing.
LEMMA EveryStep ==
  ASSUME [Next]_vars
  PROVE  StoreStep
<1>m. \A to \in {"running", "awaiting", "done", "failed", "cancelled"} :
        to \in RunStatuses \ {"queued"}
  BY DEF RunStatuses, ActiveRun, TerminalRun
<1>1. CASE Tick \/ Suspend \/ StopWorkspace \/ UNCHANGED vars
  BY <1>1 DEF Tick, Suspend, StopWorkspace, vars, StoreStep, Passes
<1>2. ASSUME NEW p \in Procs, Crash(p) \/ SweepStep(p)
      PROVE  StoreStep
  <2>1. CASE Crash(p)
    BY <2>1 DEF Crash, StoreStep, db
  <2>2. CASE Adopt(p)
    BY <2>2 DEF Adopt, StoreStep
  <2>3. ASSUME NEW r \in Runs, GiveBack(p, r) \/ SweepTakes(p, r)
        PROVE  StoreStep
    BY <2>3 DEF GiveBack, SweepTakes, Send, StoreStep, db
  <2> QED
    BY <1>2, <2>1, <2>2, <2>3 DEF SweepStep
<1>3. ASSUME NEW p \in Procs, NEW r \in Runs,
             \/ ClaimSend(p, r) \/ Command(p, r) \/ CancelQueued(p, r)
             \/ TaskStep(p, r) \/ BeatStep(p, r) \/ ResumeStep(p, r)
      PROVE  UNCHANGED db \/ Statement(p, r)
  <2>1. CASE ClaimSend(p, r) \/ Command(p, r) \/ CancelQueued(p, r)
    BY <1>m, <2>1 DEF ClaimSend, Command, CancelQueued, Send, Statement
  <2>2. CASE BeatStep(p, r) \/ ResumeStep(p, r)
    BY <2>2
    DEF BeatStep, BeatSends, BeatLands, BeatErrs, BeatRenews, BeatAbandons, BeatExpires,
        LateRefreshLands, ResumeStep, ResumeStarts, ResumeRefused, BackoffCancelled,
        LooseRelease, Send, Statement
  <2>3. CASE TaskStep(p, r)
    <3>1. CASE ClaimRun(p, r) \/ TakeLease(p, r)
      BY <1>m, <3>1 DEF ClaimRun, TakeLease, Statement
    <3>2. CASE WindowGoesOn(p, r) \/ WindowEnds(p, r) \/ WalkRests(p, r) \/ WalkUnparks(p, r)
      BY <1>m, <3>2 DEF WindowGoesOn, WindowEnds, WalkRests, WalkUnparks, Statement
    <3>3. CASE \/ RecoveryWalksOn(p, r) \/ WalkFails(p, r) \/ WalkFenced(p, r)
               \/ WalkPanics(p, r) \/ Reread(p, r) \/ Release(p, r)
               \/ HardDrop(p, r) \/ Abandon(p, r)
      BY <3>3 DEF RecoveryWalksOn, WalkFails, WalkFenced, WalkPanics, Reread, Release,
                  HardDrop, Abandon, Statement
    <3> QED
      BY <2>3, <3>1, <3>2, <3>3 DEF TaskStep
  <2> QED
    BY <1>3, <2>1, <2>2, <2>3
<1>4. ASSUME NEW p \in Procs, NEW r \in Runs, UNCHANGED db \/ Statement(p, r)
      PROVE  StoreStep
  BY <1>4 DEF StoreStep, db
<1> QED
  BY <1>1, <1>2, <1>3, <1>4 DEF Next

\* Each statement is a use of the abstract lock, or leaves it alone.
LEMMA StatementsAreLockSteps ==
  ASSUME RowOK, QueuedFree, StoreStep
  PROVE  [Lock!Next]_<<owner, lease>>
<1> USE DEF RowOK
<1>1. CASE UNCHANGED <<status, owner, lease>>
  BY <1>1
<1>2. CASE Passes
  BY <1>2 DEF Passes, Dec, Lock!Next, Lock!Age
<1>3. ASSUME NEW p \in Procs, NEW r \in Runs, Lock!Free(p, r), WriteLease(p, r)
      PROVE  Lock!Next
  <2>1. Lock!Acquire(p, {r})
    BY <1>3 DEF WriteLease, Lock!Acquire, Lock!Free
  <2> QED
    BY <2>1 DEF Lock!Next
<1>4. ASSUME NEW p \in Procs, NEW r \in Runs, Statement(p, r)
      PROVE  [Lock!Next]_<<owner, lease>>
  <2>1. CASE TakeLands(p, r)
    BY <1>3, <2>1 DEF TakeLands, Takeable, Lock!Free
  <2>2. CASE RefreshLands(p, r)
    <3>1. CASE owner[r] = p
      <4>1. WriteLease(p, r) /\ Lock!Free(p, r)
        BY <2>2, <3>1 DEF RefreshLands, WriteLease, Lock!Free
      <4> QED
        BY <1>3, <4>1
    <3>2. CASE owner[r] # p
      BY <2>2, <3>2 DEF RefreshLands
    <3> QED
      BY <3>1, <3>2
  <2>3. CASE ReleaseLands(p, r)
    BY <2>3 DEF ReleaseLands, Lock!Next, Lock!GiveUp
  <2>4. CASE \E to \in RunStatuses \ {"queued"} : MoveRun(r, to)
    BY <2>4 DEF MoveRun
  <2>5. CASE Admitted(p, r)
    <3>1. Lock!Free(p, r)
      BY <2>5 DEF Admitted, QueuedFree, Lock!Free
    <3> QED
      BY <1>3, <2>5, <3>1 DEF Admitted
  <2> QED
    BY <1>4, <2>1, <2>2, <2>3, <2>4, <2>5 DEF Statement
<1>5. ASSUME NEW p \in Procs, NEW adopted \in SUBSET Runs, AdoptLands(p, adopted)
      PROVE  Lock!Next
  <2>1. PICK free \in SUBSET {r \in Runs : Adoptable(p, r)} :
          IF stopped
          THEN /\ owner' = [r \in Runs |-> IF r \in free THEN Nobody ELSE owner[r]]
               /\ UNCHANGED lease
          ELSE /\ owner' = [r \in Runs |-> IF r \in free THEN p ELSE owner[r]]
               /\ lease' = [r \in Runs |-> IF r \in free THEN TTL ELSE lease[r]]
    BY <1>5 DEF AdoptLands
  <2>2. free \in SUBSET Runs /\ \A r \in free : lease[r] = 0
    BY DEF Adoptable
  <2>3. CASE stopped
    BY <2>1, <2>2, <2>3 DEF Lock!Next, Lock!Clear
  <2>4. CASE ~stopped
    <3>1. Lock!Acquire(p, free)
      BY <2>1, <2>2, <2>4 DEF Lock!Acquire, Lock!Free
    <3> QED
      BY <2>2, <3>1 DEF Lock!Next
  <2> QED
    BY <2>3, <2>4
<1> QED
  BY <1>1, <1>2, <1>4, <1>5 DEF StoreStep

\* Whatever clocks stall, calls fail and releases stray, no live lease is taken from its
\* owner: the leases implement the abstract lock.
THEOREM LeasesAreLocks == Spec => IsLeaseLock
<1>1. Init => Lock!Init /\ QueuedFree
  BY DEF Init, Lock!Init, QueuedFree
<1>2. TypeOK /\ QueuedFree /\ [Next]_vars => QueuedFree' /\ [Lock!Next]_<<owner, lease>>
  BY TypeParts, EveryStep, QueuedStaysFree, StatementsAreLockSteps
<1> QED
  BY <1>1, <1>2, TypeCorrect, PTL DEF Spec, IsLeaseLock, Lock!Spec

-----------------------------------------------------------------------------
(***************************************************************************)
(* No run is left with a live process that has forgotten it.  Where calls  *)
(* answer, no host sleeps and no user's command steps in, a task of the    *)
(* run's owner goes on with it, or leaves it to its sweep.                 *)
(***************************************************************************)

Benign == Suspends = FALSE /\ Faulty = FALSE /\ BacksOff = {} /\ Commanders = {}

Noted(p, r) == r \in dead[p] \cup todo[p] \cup resumes[p] \cup loose[p]
\* The stages whose task may end without a note or a release.
Ending == {"free", "claiming", "reread"}
\* A task about to end leaves no run of its process's without a note; no refresh meets a
\* stranger's lease, and no task is a command's.
OwnInv(p, r) ==
  /\ p \in up /\ status[r] = "running" /\ owner[r] = p /\ stage[p][r] \in Ending => Noted(p, r)
  /\ beat[p][r] # "no" /\ kind[p][r] # "command"
TendedInv == \A p \in Procs : \A r \in Runs : OwnInv(p, r)

\* What a step of p's task on r leaves alone: the other pairs' tasks and notes,
Elsewhere(p, r) ==
  /\ UNCHANGED up
  /\ \A q \in Procs : \A s \in Runs : q # p \/ s # r =>
       /\ stage'[q][s] = stage[q][s] /\ kind'[q][s] = kind[q][s] /\ beat'[q][s] = beat[q][s]
       /\ Noted(q, s) => Noted(q, s)'
\* and whose the running runs are.
NoNewOwner(p, r) ==
  \A q \in Procs : \A s \in Runs : q # p \/ s # r =>
    (status'[s] = "running" /\ owner'[s] = q => status[s] = "running" /\ owner[s] = q)

\* So it is enough to look at the pair whose task acts.
LEMMA OwnPairOnly ==
  ASSUME TendedInv, NEW p \in Procs, NEW r \in Runs,
         Elsewhere(p, r), NoNewOwner(p, r), OwnInv(p, r)'
  PROVE  TendedInv'
<1> SUFFICES ASSUME NEW q \in Procs, NEW s \in Runs, q # p \/ s # r PROVE OwnInv(q, s)'
  BY DEF TendedInv
<1> QED
  BY DEF TendedInv, OwnInv, Elsewhere, NoNewOwner

\* No statement of p's on r makes a run another's, or another's run running.
LEMMA RowsKeepOwners ==
  ASSUME RowOK, NEW p \in Procs, NEW r \in Runs,
         \/ UNCHANGED db \/ TakeLands(p, r) \/ RefreshLands(p, r) \/ ReleaseLands(p, r)
         \/ Admitted(p, r)
         \/ \E to \in RunStatuses : MoveRun(r, to) /\ (to # "running" \/ owner[r] = p)
  PROVE  NoNewOwner(p, r)
<1> USE ProcsAssumption DEF RowOK, NoNewOwner
<1>1. CASE UNCHANGED db \/ RefreshLands(p, r)
  BY <1>1 DEF db, RefreshLands
<1>2. CASE TakeLands(p, r) \/ Admitted(p, r)
  BY <1>2 DEF TakeLands, Admitted, WriteLease
<1>3. CASE ReleaseLands(p, r)
  BY <1>3 DEF ReleaseLands
<1>4. CASE \E to \in RunStatuses : MoveRun(r, to) /\ (to # "running" \/ owner[r] = p)
  BY <1>4 DEF MoveRun
<1> QED
  BY <1>1, <1>2, <1>3, <1>4

\* The moves of a task, and the notes it makes or strikes of its own run.
TaskMoves(p, r) == (\E s : Go(p, r, s)) \/ Drop(p, r) \/ UNCHANGED <<stage, kind>>
BeatMoves(p, r) == DropBeat(p, r) \/ UNCHANGED beat
Notes(p, r) ==
  /\ UNCHANGED <<up, todo, loose>>
  /\ \/ UNCHANGED dead
     \/ dead' = [dead EXCEPT ![p] = @ \cup {r}] \/ dead' = [dead EXCEPT ![p] = @ \ {r}]
     \/ dead' = [[dead EXCEPT ![p] = @ \ {r}] EXCEPT ![p] = @ \cup {r}]
  /\ UNCHANGED resumes \/ resumes' = [resumes EXCEPT ![p] = @ \cup {r}]

LEMMA MovesStayHere ==
  ASSUME TypeOK, NEW p \in Procs, NEW r \in Runs,
         TaskMoves(p, r), BeatMoves(p, r), Notes(p, r)
  PROVE  /\ Elsewhere(p, r)
         /\ kind'[p][r] # "command" \/ kind'[p][r] = kind[p][r]
         /\ beat'[p][r] # "no" \/ beat'[p][r] = beat[p][r]
<1> USE DEF TypeOK
<1>1. /\ \A q \in Procs : \A s \in Runs : q # p \/ s # r =>
              stage'[q][s] = stage[q][s] /\ kind'[q][s] = kind[q][s]
      /\ kind'[p][r] # "command" \/ kind'[p][r] = kind[p][r]
  <2>1. CASE \E s : Go(p, r, s)
    BY <2>1 DEF Go
  <2>2. CASE Drop(p, r) \/ UNCHANGED <<stage, kind>>
    BY <2>2 DEF Drop
  <2> QED
    BY <2>1, <2>2 DEF TaskMoves
<1>2. /\ \A q \in Procs : \A s \in Runs : q # p \/ s # r => beat'[q][s] = beat[q][s]
      /\ beat'[p][r] # "no" \/ beat'[p][r] = beat[p][r]
  BY DEF BeatMoves, DropBeat
<1>3. UNCHANGED up /\ \A q \in Procs : \A s \in Runs : q # p \/ s # r =>
                          (Noted(q, s) => Noted(q, s)')
  BY DEF Notes, Noted
<1> QED
  BY <1>1, <1>2, <1>3 DEF Elsewhere

\* A walk that begins too late is noted.
LEMMA BeginNotes ==
  ASSUME TypeOK, NEW p \in Procs, NEW r \in Runs, NEW d \in [Procs -> SUBSET Runs], Begin(p, r, d)
  PROVE  /\ TaskMoves(p, r)
         /\ dead' = d \/ dead' = [d EXCEPT ![p] = @ \cup {r}]
         /\ stage'[p][r] = "walk" \/ r \in dead'[p]
<1>1. CASE rem[p][r] > Refresh
  <2>1. Go(p, r, "walk") /\ dead' = d
    BY <1>1 DEF Begin
  <2>2. stage'[p][r] = "walk"
    BY <2>1 DEF TypeOK, Go
  <2> QED
    BY <2>1, <2>2 DEF TaskMoves
<1>2. CASE ~(rem[p][r] > Refresh)
  <2>1. Go(p, r, "free") /\ dead' = [d EXCEPT ![p] = @ \cup {r}]
    BY <1>2 DEF Begin
  <2> QED
    BY <2>1 DEF TaskMoves
<1> QED
  BY <1>1, <1>2

\* Every step of a task keeps the runs tended.
LEMMA TaskTends ==
  ASSUME TypeOK, LeaseInv, TendedInv, Benign, NEW p \in Procs, NEW r \in Runs, TaskStep(p, r)
  PROVE  TendedInv'
<1>1. /\ RowOK /\ dead \in [Procs -> SUBSET Runs] /\ p # Nobody
      /\ OwnInv(p, r)
      /\ stage[p][r] = "walk" => owner[r] = p
  BY TypeParts, ProcsAssumption DEF DeadOK, TendedInv, LeaseInv, ClockIsSafe
\* It is enough that the step is p's on r, and that the run is noted if its task is ending.
<1>2. ASSUME TaskMoves(p, r), BeatMoves(p, r), Notes(p, r), NoNewOwner(p, r),
             p \in up /\ status'[r] = "running" /\ owner'[r] = p /\ stage'[p][r] \in Ending
               => Noted(p, r)'
      PROVE  TendedInv'
  <2>1. up' = up
    BY <1>2 DEF Notes
  <2>2. kind'[p][r] # "command" /\ beat'[p][r] # "no"
    BY <1>1, <1>2, MovesStayHere DEF OwnInv
  <2>3. OwnInv(p, r)'
    BY <1>2, <2>1, <2>2 DEF OwnInv
  <2> QED
    BY <1>2, <2>3, MovesStayHere, OwnPairOnly
<1>3. ASSUME NEW s, Go(p, r, s) PROVE stage'[p][r] = s /\ TaskMoves(p, r)
  BY <1>3 DEF TypeOK, Go, TaskMoves
<1>4. ASSUME NEW d \in [Procs -> SUBSET Runs], Begin(p, r, d), UNCHANGED <<up, todo, resumes, loose>>,
             d \in {dead, [dead EXCEPT ![p] = @ \ {r}]}, UNCHANGED beat, NoNewOwner(p, r)
      PROVE  TendedInv'
  <2>1. Notes(p, r) /\ TaskMoves(p, r)
    BY <1>4, BeginNotes DEF Notes
  <2>2. stage'[p][r] \in Ending => Noted(p, r)'
    BY <1>4, BeginNotes DEF Ending, Noted
  <2> QED
    BY <1>2, <1>4, <2>1, <2>2 DEF BeatMoves
<1>5. CASE ClaimRun(p, r)
  <2>1. CASE Admitted(p, r) /\ Begin(p, r, dead)
    BY <1>1, <1>4, <1>5, <2>1, RowsKeepOwners DEF ClaimRun
  <2>2. CASE (MoveRun(r, "failed") \/ UNCHANGED db) /\ Go(p, r, "free") /\ UNCHANGED dead
    <3>1. NoNewOwner(p, r)
      BY <1>1, <2>2, RowsKeepOwners DEF RunStatuses, TerminalRun
    <3>2. stage[p][r] = "claiming"
      BY <1>5 DEF ClaimRun
    <3>3. status'[r] = "running" => status[r] = "running" /\ owner'[r] = owner[r]
      BY <1>1, <2>2 DEF MoveRun, RowOK, db
    <3>4. Notes(p, r) /\ BeatMoves(p, r) /\ (Noted(p, r) => Noted(p, r)')
      BY <1>5, <2>2 DEF ClaimRun, Notes, BeatMoves, Noted
    <3> QED
      BY <1>1, <1>2, <1>3, <2>2, <3>1, <3>2, <3>3, <3>4 DEF OwnInv, Ending
  <2> QED
    BY <1>5, <2>1, <2>2 DEF ClaimRun, Benign
<1>6. CASE TakeLease(p, r)
  <2> DEFINE d == [dead EXCEPT ![p] = @ \ {r}]
  <2>1. UNCHANGED <<up, beat, todo, resumes, loose>>
    BY <1>6 DEF TakeLease
  <2>2. NoNewOwner(p, r)
    BY <1>1, <1>6, RowsKeepOwners DEF TakeLease, Benign, db
  <2>3. CASE Takeable(p, r) /\ Begin(p, r, d)
    BY <1>1, <1>4, <2>1, <2>2, <2>3
  <2>4. CASE Takeable(p, r) /\ Go(p, r, "window") /\ dead' = d
    BY <1>2, <1>3, <2>1, <2>2, <2>4 DEF Notes, BeatMoves, Ending
  <2>5. CASE ~Takeable(p, r) /\ Go(p, r, "free") /\ UNCHANGED <<db, dead>>
    <3>1. ~(status[r] = "running" /\ owner[r] = p)
      BY <2>5 DEF Takeable, Leasable
    <3> QED
      BY <1>2, <1>3, <2>1, <2>2, <2>5, <3>1 DEF Notes, BeatMoves, db
  <2> QED
    BY <1>6, <2>3, <2>4, <2>5 DEF TakeLease, Benign
<1>7. CASE WindowGoesOn(p, r)
  <2>1. UNCHANGED db /\ UNCHANGED <<up, beat, todo, resumes, loose>>
    BY <1>1, <1>7 DEF WindowGoesOn, OwnInv
  <2>2. NoNewOwner(p, r)
    BY <1>1, <2>1, RowsKeepOwners
  <2>3. CASE Begin(p, r, dead)
    BY <1>1, <1>4, <2>1, <2>2, <2>3
  <2>4. CASE Go(p, r, "releasing") /\ UNCHANGED dead
    BY <1>2, <1>3, <2>1, <2>2, <2>4 DEF Notes, BeatMoves, Ending
  <2> QED
    BY <1>7, <2>3, <2>4 DEF WindowGoesOn
\* The task goes on to a stage it does not end in.
<1>8. ASSUME TaskMoves(p, r), BeatMoves(p, r), UNCHANGED <<up, todo, resumes, loose, dead>>,
             stage'[p][r] \notin Ending,
             \/ UNCHANGED db \/ RefreshLands(p, r)
             \/ \E to \in RunStatuses : MoveRun(r, to) /\ (to # "running" \/ owner[r] = p)
      PROVE  TendedInv'
  <2>1. NoNewOwner(p, r)
    BY <1>1, <1>8, RowsKeepOwners
  <2> QED
    BY <1>2, <1>8, <2>1 DEF Notes
<1>9. CASE WindowEnds(p, r) \/ Abandon(p, r)
  <2>1. Go(p, r, "releasing") /\ UNCHANGED <<up, beat, todo, resumes, loose, dead>>
    BY <1>9 DEF WindowEnds, Abandon
  <2>2. \/ UNCHANGED db \/ RefreshLands(p, r)
        \/ \E to \in RunStatuses : MoveRun(r, to) /\ (to # "running" \/ owner[r] = p)
    BY <1>9 DEF WindowEnds, Abandon, RunStatuses, ActiveRun, TerminalRun
  <2> QED
    BY <1>3, <1>8, <2>1, <2>2 DEF BeatMoves, Ending
<1>10. CASE WalkFails(p, r) \/ HardDrop(p, r)
  <2>1. DropBeat(p, r) /\ UNCHANGED db /\ UNCHANGED <<up, todo, resumes, loose, dead>>
    BY <1>10 DEF WalkFails, HardDrop, Ends
  <2>2. CASE WalkFails(p, r)
    BY <1>3, <1>8, <2>1, <2>2 DEF WalkFails, Ends, BeatMoves, Ending
  <2>3. CASE HardDrop(p, r)
    <3>1. stage'[p][r] = "abandoning"
      BY <2>3 DEF HardDrop, Drop, TypeOK
    <3> QED
      BY <1>8, <2>1, <2>3, <3>1 DEF HardDrop, TaskMoves, BeatMoves, Ending
  <2> QED
    BY <1>10, <2>2, <2>3
<1>11. CASE WalkUnparks(p, r)
  <2>1. /\ stage'[p][r] = "walk" /\ MoveRun(r, "running") /\ owner[r] = p
        /\ UNCHANGED <<up, stage, kind, beat, todo, resumes, loose, dead>>
    BY <1>1, <1>11 DEF WalkUnparks, heart
  <2> QED
    BY <1>8, <2>1 DEF TaskMoves, BeatMoves, Ending, RunStatuses, ActiveRun
\* The walk ends.
<1>12. CASE WalkRests(p, r)
  <2>1. Go(p, r, "reread") /\ DropBeat(p, r) /\ UNCHANGED <<up, dead, todo, resumes, loose>>
    BY <1>12 DEF WalkRests, Ends
  <2>2. status'[r] # "running"
    BY <1>1, <1>12 DEF WalkRests, MoveRun, RowOK, db
  <2>3. NoNewOwner(p, r)
    BY <1>1, <1>12, RowsKeepOwners DEF WalkRests, RunStatuses, ActiveRun, TerminalRun
  <2> QED
    BY <1>2, <1>3, <2>1, <2>2, <2>3 DEF Notes, BeatMoves
<1>13. CASE RecoveryWalksOn(p, r) \/ WalkPanics(p, r)
  <2>1. NoNewOwner(p, r)
    BY <1>1, <1>13, RowsKeepOwners DEF RecoveryWalksOn, WalkPanics
  <2>2. TaskMoves(p, r) /\ BeatMoves(p, r) /\ Notes(p, r)
    BY <1>13 DEF RecoveryWalksOn, WalkPanics, Ends, TaskMoves, BeatMoves, Notes
  <2>3. Noted(p, r)'
    BY <1>13 DEF RecoveryWalksOn, WalkPanics, Noted, TypeOK
  <2> QED
    BY <1>2, <2>1, <2>2, <2>3
<1>14. CASE WalkFenced(p, r)
  BY <1>1, <1>14 DEF WalkFenced, Ends
<1>15. CASE Reread(p, r)
  <2>1. /\ stage[p][r] = "reread" /\ UNCHANGED db /\ UNCHANGED <<up, beat, dead, todo, resumes, loose>>
        /\ TaskMoves(p, r)
    BY <1>15 DEF Reread, TaskMoves
  <2>2. NoNewOwner(p, r)
    BY <1>1, <2>1, RowsKeepOwners
  <2> QED
    BY <1>1, <1>2, <2>1, <2>2 DEF OwnInv, Notes, BeatMoves, Ending, Noted, db
<1>16. CASE Release(p, r)
  <2>1. /\ ReleaseLands(p, r) /\ UNCHANGED <<up, beat, todo, resumes, loose>>
        /\ dead' = [dead EXCEPT ![p] = @ \ {r}]
        /\ TaskMoves(p, r)
    BY <1>16 DEF Release, AfterRelease, TaskMoves, Benign
  <2>2. owner'[r] # p
    BY <1>1, <2>1 DEF ReleaseLands, RowOK
  <2>3. NoNewOwner(p, r)
    BY <1>1, <2>1, RowsKeepOwners
  <2> QED
    BY <1>2, <2>1, <2>2, <2>3 DEF Notes, BeatMoves
<1> QED
  BY <1>5, <1>6, <1>7, <1>9, <1>10, <1>11, <1>12, <1>13, <1>14, <1>15, <1>16 DEF TaskStep

\* So does a heartbeat: a walk's owner is its process, so no refresh is refused.
LEMMA BeatTends ==
  ASSUME TypeOK, LeaseInv, TendedInv, Benign, NEW p \in Procs, NEW r \in Runs, BeatStep(p, r)
  PROVE  TendedInv'
<1>1. /\ RowOK /\ OwnInv(p, r)
      /\ stage[p][r] = "walk" => owner[r] = p
      /\ beat[p][r] # "asleep" => stage[p][r] = "walk"
  BY TypeParts DEF TendedInv, LeaseInv, ClockIsSafe
\* The heartbeat goes on, and so does the walk.
<1>2. ASSUME UNCHANGED <<up, stage, kind, dead, todo, resumes, loose>>,
             UNCHANGED db \/ RefreshLands(p, r),
             NEW b, b # "no", beat' = [beat EXCEPT ![p][r] = b] \/ UNCHANGED beat
      PROVE  TendedInv'
  <2>1. NoNewOwner(p, r)
    BY <1>1, <1>2, RowsKeepOwners
  <2>2. Elsewhere(p, r) /\ beat'[p][r] # "no"
    BY <1>1, <1>2 DEF Elsewhere, Noted, OwnInv, TypeOK
  <2>3. UNCHANGED <<status, owner>>
    BY <1>2 DEF RefreshLands, db
  <2>4. OwnInv(p, r)'
    BY <1>1, <1>2, <2>2, <2>3 DEF OwnInv, Noted
  <2> QED
    BY <2>1, <2>2, <2>4, OwnPairOnly
<1>3. CASE BeatSends(p, r) \/ BeatRenews(p, r) \/ LateRefreshLands(p, r)
  BY <1>2, <1>3 DEF BeatSends, BeatRenews, LateRefreshLands, heart
<1>4. CASE BeatLands(p, r)
  <2>1. owner[r] = p
    BY <1>1, <1>4 DEF BeatLands
  <2> QED
    BY <1>2, <1>4, <2>1 DEF BeatLands
<1>5. CASE BeatErrs(p, r) \/ BeatAbandons(p, r)
  BY <1>1, <1>5 DEF BeatErrs, BeatAbandons, Benign, OwnInv
<1>6. CASE BeatExpires(p, r)
  <2>1. NoNewOwner(p, r)
    BY <1>1, <1>6, RowsKeepOwners DEF BeatExpires
  <2>2. Elsewhere(p, r) /\ kind'[p][r] # "command" /\ beat'[p][r] # "no"
    BY <1>1, <1>6 DEF BeatExpires, Go, Elsewhere, Noted, OwnInv, TypeOK
  <2>3. Noted(p, r)'
    BY <1>6 DEF BeatExpires, Noted, TypeOK
  <2> QED
    BY <2>1, <2>2, <2>3, OwnPairOnly DEF OwnInv
<1> QED
  BY <1>3, <1>4, <1>5, <1>6 DEF BeatStep

\* A task that starts for another reason than a command, a note it takes up handed to it.
LEMMA StartTends ==
  ASSUME TypeOK, TendedInv, NEW p \in Procs, NEW r \in Runs,
         NEW s \in {"claiming", "taking", "releasing"}, NEW k \in Kinds \ {"command"},
         Enter(p, r, s, k), UNCHANGED <<status, owner, up, beat, dead, loose>>,
         \/ UNCHANGED <<todo, resumes>>
         \/ /\ s # "claiming"
            /\ \/ todo' = [todo EXCEPT ![p] = @ \ {r}] /\ UNCHANGED resumes
               \/ resumes' = [resumes EXCEPT ![p] = @ \ {r}] /\ UNCHANGED todo
  PROVE  TendedInv'
<1>1. OwnInv(p, r)
  BY DEF TendedInv
<1>2. stage[p][r] = "free" /\ stage'[p][r] = s /\ kind'[p][r] = k
  BY DEF Enter, TypeOK
<1>3. Elsewhere(p, r)
  BY DEF Elsewhere, Enter, Noted, TypeOK
<1>4. NoNewOwner(p, r)
  BY DEF NoNewOwner
<1>5. OwnInv(p, r)'
  BY <1>1, <1>2 DEF OwnInv, Ending, Noted
<1> QED
  BY <1>3, <1>4, <1>5, OwnPairOnly

\* A note that changes hands, no task moved.
LEMMA NoteTends ==
  ASSUME TendedInv, UNCHANGED <<up, stage, kind, beat>>,
         \A q \in Procs : \A s \in Runs : Noted(q, s) => Noted(q, s)',
         \A q \in Procs : \A s \in Runs :
           status'[s] = "running" /\ owner'[s] = q
             => (status[s] = "running" /\ owner[s] = q) \/ Noted(q, s)'
  PROVE  TendedInv'
BY DEF TendedInv, OwnInv

\* The sweep notes what it adopts, and gives back or takes what it had noted.
LEMMA SweepTends ==
  ASSUME TypeOK, TendedInv, Benign, NEW p \in Procs, SweepStep(p)
  PROVE  TendedInv'
<1>1. CASE Adopt(p)
  <2>1. PICK adopted \in SUBSET Runs :
          AdoptLands(p, adopted) /\ todo' = [todo EXCEPT ![p] = adopted]
    BY <1>1 DEF Adopt, Benign
  <2>2. /\ UNCHANGED <<up, stage, kind, beat, dead, resumes, loose>> /\ todo[p] = {}
        /\ todo'[p] = adopted /\ \A q \in Procs \ {p} : todo'[q] = todo[q]
    BY <1>1, <2>1 DEF Adopt, heart, TypeOK
  <2>3. \A q \in Procs : \A s \in Runs : Noted(q, s) => Noted(q, s)'
    BY <2>2 DEF Noted
  <2>4. ASSUME NEW q \in Procs, NEW s \in Runs, status'[s] = "running", owner'[s] = q
        PROVE  (status[s] = "running" /\ owner[s] = q) \/ Noted(q, s)'
    <3>1. PICK free \in SUBSET {r \in Runs : Adoptable(p, r)} :
            IF stopped
            THEN /\ status' = [r \in Runs |-> IF r \in free THEN "stopped" ELSE status[r]]
                 /\ owner' = [r \in Runs |-> IF r \in free THEN Nobody ELSE owner[r]]
            ELSE /\ adopted = free /\ UNCHANGED status
                 /\ owner' = [r \in Runs |-> IF r \in free THEN p ELSE owner[r]]
      BY <2>1 DEF AdoptLands
    <3>2. CASE stopped
      BY <2>4, <3>1, <3>2
    <3>3. CASE ~stopped
      BY <2>2, <2>4, <3>1, <3>3 DEF Noted
    <3> QED
      BY <3>2, <3>3
  <2> QED
    BY <2>2, <2>3, <2>4, NoteTends
<1>2. ASSUME NEW r \in Runs, GiveBack(p, r) PROVE TendedInv'
  BY <1>2, StartTends DEF GiveBack, db, heart, Kinds
<1>3. ASSUME NEW r \in Runs, SweepTakes(p, r) PROVE TendedInv'
  <2>1. CASE Enter(p, r, "taking", "sweep") /\ Send(p, r) /\ UNCHANGED dead
    BY <1>3, <2>1, StartTends DEF SweepTakes, Send, db, Kinds
  <2>2. CASE dead' = [dead EXCEPT ![p] = @ \cup {r}] /\ UNCHANGED <<db, up, stage, kind, heart, late>>
    <3>1. todo' = [todo EXCEPT ![p] = @ \ {r}] /\ UNCHANGED <<resumes, loose>>
      BY <1>3 DEF SweepTakes
    <3>2. \A q \in Procs : \A s \in Runs : Noted(q, s) => Noted(q, s)'
      BY <2>2, <3>1 DEF Noted, TypeOK
    <3> QED
      BY <2>2, <3>2, NoteTends DEF db, heart
  <2> QED
    BY <1>3, <2>1, <2>2 DEF SweepTakes
<1> QED
  BY <1>1, <1>2, <1>3 DEF SweepStep

\* A resume takes the lease again; without a fault nothing else becomes of one.
LEMMA ResumeTends ==
  ASSUME TypeOK, LeaseInv, TendedInv, Benign, NEW p \in Procs, NEW r \in Runs, ResumeStep(p, r)
  PROVE  TendedInv'
<1>1. CASE ResumeStarts(p, r)
  BY <1>1, StartTends DEF ResumeStarts, Benign, Send, db, Kinds
<1>2. CASE ResumeRefused(p, r) \/ BackoffCancelled(p, r) \/ LooseRelease(p, r)
  BY <1>2 DEF ResumeRefused, BackoffCancelled, LooseRelease, Benign, LeaseInv
<1> QED
  BY <1>1, <1>2 DEF ResumeStep

\* Time, the user and a crash make no run a live process's.
LEMMA EnvironmentTends ==
  ASSUME TypeOK, TendedInv, Benign,
         \/ Tick \/ Suspend \/ StopWorkspace \/ UNCHANGED vars
         \/ \E p \in Procs : Crash(p)
         \/ \E p \in Procs, r \in Runs : ClaimSend(p, r) \/ Command(p, r) \/ CancelQueued(p, r)
  PROVE  TendedInv'
<1>1. CASE Tick \/ Suspend \/ StopWorkspace \/ UNCHANGED vars
  <2>1. UNCHANGED <<status, owner, up, stage, kind, beat, dead, todo, resumes, loose>>
    BY <1>1 DEF Tick, Suspend, StopWorkspace, heart, vars
  <2> QED
    BY <2>1, NoteTends DEF Noted
<1>2. ASSUME NEW p \in Procs, Crash(p) PROVE TendedInv'
  <2> SUFFICES ASSUME NEW q \in Procs, NEW s \in Runs PROVE OwnInv(q, s)'
    BY DEF TendedInv
  <2>1. OwnInv(q, s) /\ UNCHANGED <<status, owner>> /\ up' = up \ {p}
    BY <1>2 DEF TendedInv, Crash, db
  <2>2. CASE q = p
    <3>1. beat'[q][s] = "asleep" /\ kind'[q][s] = "none"
      BY <1>2, <2>2 DEF Crash, TypeOK
    <3> QED
      BY <2>1, <2>2, <3>1 DEF OwnInv
  <2>3. CASE q # p
    <3>1. /\ stage'[q] = stage[q] /\ kind'[q] = kind[q] /\ beat'[q] = beat[q]
          /\ dead'[q] = dead[q] /\ todo'[q] = todo[q] /\ resumes'[q] = resumes[q] /\ loose' = loose
      BY <1>2, <2>3 DEF Crash, TypeOK
    <3> QED
      BY <2>1, <3>1 DEF OwnInv, Noted
  <2> QED
    BY <2>2, <2>3
<1>3. ASSUME NEW p \in Procs, NEW r \in Runs, ClaimSend(p, r) PROVE TendedInv'
  BY <1>3, StartTends DEF ClaimSend, Send, db, Kinds
<1>4. ASSUME NEW p \in Procs, NEW r \in Runs, CancelQueued(p, r) PROVE TendedInv'
  <2>1. /\ UNCHANGED <<owner, up, stage, kind, beat, dead, todo, resumes, loose>>
        /\ status' = [status EXCEPT ![r] = "cancelled"]
    BY <1>4 DEF CancelQueued, MoveRun, heart
  <2>2. \A s \in Runs : status'[s] = "running" => status[s] = "running"
    BY <2>1 DEF TypeOK
  <2> QED
    BY <2>1, <2>2, NoteTends DEF Noted
<1>5. ASSUME NEW p \in Procs, NEW r \in Runs PROVE ~Command(p, r)
  BY DEF Command, Benign
<1> QED
  BY <1>1, <1>2, <1>3, <1>4, <1>5

\* A live process whose name is on a running run works on it, or has it noted, however many
\* processes crash around it.
THEOREM RunsAreTended ==
  ASSUME Benign PROVE Spec => []Tended
<1>1. Init => TendedInv
  BY DEF Init, TendedInv, OwnInv
<1>2. TypeOK /\ LeaseInv /\ TendedInv /\ [Next]_vars => TendedInv'
  <2> SUFFICES ASSUME TypeOK, LeaseInv, TendedInv, [Next]_vars PROVE TendedInv'
    OBVIOUS
  <2>1. ASSUME NEW p \in Procs, NEW r \in Runs, TaskStep(p, r) \/ BeatStep(p, r) \/ ResumeStep(p, r)
        PROVE  TendedInv'
    BY <2>1, TaskTends, BeatTends, ResumeTends
  <2>2. ASSUME NEW p \in Procs, SweepStep(p) PROVE TendedInv'
    BY <2>2, SweepTends
  <2>3. ASSUME NEW p \in Procs, NEW r \in Runs,
               ClaimSend(p, r) \/ Command(p, r) \/ CancelQueued(p, r)
        PROVE  TendedInv'
    BY <2>3, EnvironmentTends
  <2>4. CASE Tick \/ Suspend \/ StopWorkspace \/ UNCHANGED vars \/ \E p \in Procs : Crash(p)
    BY <2>4, EnvironmentTends
  <2> QED
    BY <2>1, <2>2, <2>3, <2>4 DEF Next
<1>3. TypeOK /\ TendedInv => Tended
  BY DEF TypeOK, TendedInv, OwnInv, Ending, Noted, Tended
<1>4. Suspends = FALSE /\ BacksOff = {}
  BY DEF Benign
<1>5. Spec => []LeaseInv
  BY <1>4, LeaseInvHolds
<1> QED
  BY <1>1, <1>2, <1>3, <1>5, TypeCorrect, PTL DEF Spec
=============================================================================
