--------------------------- MODULE RunRelayProofs ---------------------------
(***************************************************************************)
(* The safety of the relay's rows for any processes, sessions and          *)
(* follow-ups, with every fault the model knows.                           *)
(***************************************************************************)
EXTENDS RunRelay, TLAPS

\* An enqueue that holds a window's row keeps it open, and out of reach of a close.
SharedInv ==
  \A f \in FollowUp :
    fu[f] = "inserted" => to[f] \in Session /\ win[to[f]] = "open" /\ at[to[f]] # "closing"

\* A session opens its window once and never reopens it.
WindowInv ==
  \A s \in Session :
    /\ at[s] = "new" => win[s] = "none"
    /\ at[s] = "closing" => win[s] = "open"
    /\ at[s] = "closed" => win[s] \in {"none", "closed"}
    /\ win[s] \in Process => at[s] # "closing"

\* A follow-up is addressed before it is asked for.
AddressInv == \A f \in FollowUp : fu[f] # "none" => to[f] \in Session

\* Only a row that was claimed has been sent.
SentInv == \A f \in FollowUp : fu[f] # "applied" => sent[f] = {}

\* Only a clean-up that is not a hand-back goes on to stale requests.
StaleInv == \A p \in Process : job[p] = "stale" => next[p] # "handback"

RelayInv == TypeOK /\ StaleInv /\ SharedInv /\ WindowInv /\ AddressInv /\ SentInv /\ ClosedIsQuiet

-----------------------------------------------------------------------------
(* Types.                                                                  *)

LEMMA ClientTypes == ASSUME TypeOK, Clients PROVE TypeOK'
<1> USE DEF TypeOK, leaseVars, jobVars, sessVars, fuVars
<1>1. ASSUME NEW f \in FollowUp, NEW s \in Session, Asks(f, s) PROVE TypeOK'
  BY <1>1 DEF Asks, Mail, Driven
<1>2. ASSUME NEW f \in FollowUp, Inserts(f) PROVE TypeOK'
  BY <1>2 DEF Inserts, Mail, Driven
<1>3. ASSUME NEW f \in FollowUp, Enqueued(f) PROVE TypeOK'
  BY <1>3 DEF Enqueued, Mail, Driven
<1>4. CASE RequestsCancel
  BY <1>4 DEF RequestsCancel, Becomes, Mail, Driven
<1>5. ASSUME NEW s \in Session, Answers(s) PROVE TypeOK'
  BY <1>5 DEF Answers, Perms, Driven
<1> QED
  BY <1>1, <1>2, <1>3, <1>4, <1>5 DEF Clients

LEMMA SettledType ==
  ASSUME TypeOK, NEW ss, NEW how \in Perms
  PROVE  Settled(ss, how) \in [Session -> Perms]
BY DEF TypeOK, Settled

LEMMA BecomesType ==
  ASSUME TypeOK, NEW rows, NEW how \in Mail
  PROVE  Becomes(rows, how) \in [FollowUp -> Mail]
BY DEF TypeOK, Becomes

LEMMA TurnTypes == ASSUME TypeOK, NEW s \in Session, Turns(s) PROVE TypeOK'
<1> USE DEF TypeOK, leaseVars, jobVars, sessVars, fuVars, Driven
<1>1. ASSUME NEW p \in Process, Starts(p, s) PROVE TypeOK'
  BY <1>1, RelayAssumption DEF Starts, Stages
<1>2. ASSUME NEW f \in FollowUp, Reads(s, f) PROVE TypeOK'
  BY <1>2 DEF Reads, Stages
<1>3. CASE Claims(s)
  <2>1. \A rows : Becomes(rows, "applied") \in [FollowUp -> Mail] /\ Becomes(rows, "refused") \in [FollowUp -> Mail]
    BY BecomesType DEF Mail
  <2> QED
    BY <1>3, <2>1 DEF Claims, Stages
<1>4. CASE Parks(s)
  <2>1. \A ss : Settled(ss, "stale") \in [Session -> Perms]
    BY SettledType DEF Perms
  <2> QED
    BY <1>4, <2>1 DEF Parks, Stages, Perms
<1>5. CASE Polls(s)
  BY <1>5 DEF Polls, Stages, Perms
<1>6. CASE Ends(s)
  <2>1. \A ss : Settled(ss, "stale") \in [Session -> Perms] /\ Settled(ss, "cancelled") \in [Session -> Perms]
    BY SettledType DEF Perms
  <2> QED
    BY <1>6, <2>1 DEF Ends, Stages
<1>7. CASE CloseLocks(s)
  BY <1>7 DEF CloseLocks, Stages
<1>8. CASE CloseCommits(s)
  <2>1. \A rows : Becomes(rows, "refused") \in [FollowUp -> Mail]
    BY BecomesType DEF Mail
  <2> QED
    BY <1>8, <2>1, RelayAssumption DEF CloseCommits, Stages
<1>9. CASE CloseGivesUp(s)
  BY <1>9 DEF CloseGivesUp, Stages
<1>10. CASE FinishesStep(s)
  BY <1>10 DEF FinishesStep
<1> QED
  BY <1>1, <1>2, <1>3, <1>4, <1>5, <1>6, <1>7, <1>8, <1>9, <1>10 DEF Turns

LEMMA WorkTypes == ASSUME TypeOK, StaleInv, NEW p \in Process, Works(p) PROVE TypeOK'
<1> USE RelayAssumption DEF TypeOK, leaseVars, jobVars, sessVars, fuVars, Driven, Enter, Jobs
<1>1. CASE Adopts(p)
  <2>1. lent' \in [Session -> BOOLEAN] /\ owner' \in Process /\ live' \in BOOLEAN
    BY <1>1 DEF Adopts, Grants
  <2>2. /\ job' = [job EXCEPT ![p] = "drop"] \/ job' = job
        /\ next' = [next EXCEPT ![p] = "walk"] \/ next' = next
        /\ marked' = [marked EXCEPT ![p] = TRUE] \/ marked' = [marked EXCEPT ![p] = FALSE]
    BY <1>1 DEF Adopts
  <2>3. \A q \in Process : job[q] \in {"walk", "dropping"} => job'[q] = job[q]
    BY <1>1 DEF Adopts
  <2>4. UNCHANGED <<run, row, at, host, mode, claim, win, perm, fu, to, sent, cancel>>
    BY <1>1 DEF Adopts
  <2>5. marked' \in [Process -> BOOLEAN]
    BY <2>2
  <2>6. job' \in [Process -> Jobs] /\ next' \in [Process -> {"walk", "cancel", "release", "handback"}]
    BY <2>2
  <2> QED
    BY <2>1, <2>3, <2>4, <2>5, <2>6
<1>2. CASE GivesBackDead(p)
  BY <1>2 DEF GivesBackDead
<1>3. CASE AnswersGate(p)
  BY <1>3 DEF AnswersGate, TakenBy, Grants
<1>4. CASE TakesCancel(p)
  BY <1>4 DEF TakesCancel, TakenBy, Grants
<1>5. CASE CancelsRun(p)
  BY <1>5 DEF CancelsRun
<1>6. CASE ResolvesCancel(p)
  BY <1>6 DEF ResolvesCancel
<1>7. CASE Rests(p)
  BY <1>7 DEF Rests, Done
<1>8. CASE Errs(p)
  BY <1>8 DEF Errs, Undriven
<1>9. CASE Refreshes(p)
  BY <1>9 DEF Refreshes
<1>10. CASE Abandons(p)
  BY <1>10 DEF Abandons, Dropped, Stages
<1>11. CASE Dies(p)
  BY <1>11 DEF Dies, Dropped, Stages
<1>12. CASE Preempts(p)
  BY <1>12 DEF Preempts, Dropped, Stages
<1>13. CASE CleansAbandoned(p)
  <2>1. next' \in [Process -> {"walk", "cancel", "release", "handback"}] /\ live' \in BOOLEAN
    BY <1>13 DEF CleansAbandoned
  <2>2. job' \in [Process -> Jobs]
    BY <1>13 DEF CleansAbandoned
  <2>3. \A q \in Process : job[q] \in {"walk", "dropping"} => job'[q] = job[q]
    BY <1>13 DEF CleansAbandoned
  <2>4. UNCHANGED <<run, owner, marked, row, at, host, mode, claim, win, perm, lent, fu, to, sent, cancel>>
    BY <1>13 DEF CleansAbandoned
  <2> QED
    BY <2>1, <2>2, <2>3, <2>4
<1>14. CASE DropLocks(p)
  BY <1>14 DEF DropLocks
<1>15. CASE DropCommits(p)
  <2>1. \A rows : Becomes(rows, "refused") \in [FollowUp -> Mail]
    BY BecomesType DEF Mail
  <2> QED
    BY <1>15, <2>1 DEF DropCommits, Unlock, AfterDrop
<1>16. CASE DropSkips(p)
  BY <1>16 DEF DropSkips, Unlock, AfterDrop
<1>17. CASE Stales(p)
  <2>1. \A ss : Settled(ss, "stale") \in [Session -> Perms]
    BY SettledType DEF Perms
  <2> QED
    <3>1. perm' \in [Session -> Perms]
      <4> DEFINE ss == {s \in Session : perm[s] = "pending" /\ host[s] = owner /\ live}
      <4>1. perm' = perm \/ perm' = Settled(ss, "stale")
        BY <1>17, Zenon DEF Stales
      <4> QED
        BY <4>1, <2>1
    <3>2. job' \in [Process -> Jobs] /\ run' \in {"running", "parked", "over", "cancelled"}
      <4>1. next[p] \in Jobs
        BY <1>17 DEF Stales, StaleInv
      <4> QED
        BY <1>17, <4>1 DEF Stales, GoesOn
    <3>3. row' \in [Session -> {"pending", "running", "settled"}]
      BY <1>17 DEF Stales, GoesOn
    <3>4. \A q \in Process : job[q] \in {"walk", "dropping"} => job'[q] = job[q]
      BY <1>17 DEF Stales, GoesOn
    <3>5. UNCHANGED <<owner, live, next, marked, at, host, mode, claim, win, lent, fu, to, sent, cancel>>
      BY <1>17 DEF Stales
    <3> QED
      BY <3>1, <3>2, <3>3, <3>4, <3>5
<1>18. CASE Releases(p)
  <2>1. owner' \in Process \cup {Nobody} /\ live' \in BOOLEAN
    BY <1>18 DEF Releases
  <2>2. \E m \in BOOLEAN : marked' = [marked EXCEPT ![p] = m]
    BY <1>18 DEF Releases
  <2>3. job' \in [Process -> Jobs] /\ \A q \in Process : job[q] \in {"walk", "dropping"} => job'[q] = job[q]
    BY <1>18 DEF Releases
  <2>4. UNCHANGED <<run, next, row, at, host, mode, claim, win, perm, lent, fu, to, sent, cancel>>
    BY <1>18 DEF Releases
  <2>5. marked' \in [Process -> BOOLEAN]
    BY <2>2
  <2> QED
    BY <2>1, <2>3, <2>4, <2>5
<1>19. CASE Crashes(p)
  BY <1>19 DEF Crashes, Unlock, Dropped, Stages
<1> QED
  BY <1>1, <1>2, <1>3, <1>4, <1>5, <1>6, <1>7, <1>8, <1>9, <1>10, <1>11, <1>12, <1>13, <1>14,
     <1>15, <1>16, <1>17, <1>18, <1>19 DEF Works

LEMMA LapseTypes == ASSUME TypeOK, Lapses PROVE TypeOK'
BY DEF TypeOK, Lapses, jobVars, sessVars, fuVars, Driven

-----------------------------------------------------------------------------
(* What a step of each kind keeps of the rest.                             *)

RestInv == StaleInv /\ SharedInv /\ WindowInv /\ AddressInv /\ SentInv /\ ClosedIsQuiet

\* RefusedIsNotSent, of one step.
RefusedStep ==
  \A f \in FollowUp : fu[f] = "refused" => fu'[f] = "refused" /\ sent'[f] = {}

LEMMA ClientKeeps == ASSUME RelayInv, Clients PROVE RestInv' /\ RefusedStep
<1> USE DEF RelayInv, RestInv, TypeOK, StaleInv, SharedInv, WindowInv, AddressInv, SentInv,
            ClosedIsQuiet, RefusedStep, leaseVars, jobVars, sessVars, fuVars
<1>1. ASSUME NEW f \in FollowUp, NEW s \in Session, Asks(f, s) PROVE RestInv' /\ RefusedStep
  BY <1>1 DEF Asks
<1>2. ASSUME NEW f \in FollowUp, Inserts(f) PROVE RestInv' /\ RefusedStep
  BY <1>2, RelayAssumption DEF Inserts, Locked
<1>3. ASSUME NEW f \in FollowUp, Enqueued(f) PROVE RestInv' /\ RefusedStep
  BY <1>3 DEF Enqueued
<1>4. CASE RequestsCancel
  BY <1>4 DEF RequestsCancel, Becomes
<1>5. ASSUME NEW s \in Session, Answers(s) PROVE RestInv' /\ RefusedStep
  BY <1>5 DEF Answers
<1> QED
  BY <1>1, <1>2, <1>3, <1>4, <1>5 DEF Clients

LEMMA TurnKeeps == ASSUME RelayInv, NEW s \in Session, Turns(s) PROVE RestInv' /\ RefusedStep
<1> USE RelayAssumption
    DEF RelayInv, RestInv, TypeOK, StaleInv, SharedInv, WindowInv, AddressInv, SentInv,
        ClosedIsQuiet, RefusedStep, leaseVars, jobVars, sessVars, fuVars
<1>1. ASSUME NEW p \in Process, Starts(p, s) PROVE RestInv' /\ RefusedStep
  BY <1>1 DEF Starts
<1>2. ASSUME NEW f \in FollowUp, Reads(s, f) PROVE RestInv' /\ RefusedStep
  BY <1>2 DEF Reads
<1>3. CASE Claims(s)
  <2> DEFINE c == claim[s]
  <2>1. /\ at[s] = "claim"
        /\ \E t \in {"turn", "dropped", "close"} : at' = [at EXCEPT ![s] = t]
        /\ UNCHANGED <<job, next, win, to>>
    BY <1>3 DEF Claims
  <2>2. \/ UNCHANGED <<fu, sent>>
        \/ fu[c] = "pending" /\ fu' = Becomes({c}, "refused") /\ sent' = sent
        \/ fu[c] = "pending" /\ fu' = Becomes({c}, "applied") /\ sent' = [sent EXCEPT ![c] = @ \cup {s}]
    BY <1>3, Zenon DEF Claims
  <2>3. StaleInv' /\ WindowInv'
    BY <2>1
  <2>4. SharedInv' /\ AddressInv' /\ ClosedIsQuiet'
    BY <2>1, <2>2 DEF Becomes
  <2>5. SentInv' /\ RefusedStep
    BY <2>2 DEF Becomes
  <2> QED
    BY <2>3, <2>4, <2>5
<1>4. CASE Parks(s)
  BY <1>4 DEF Parks
<1>5. CASE Polls(s)
  BY <1>5 DEF Polls
<1>6. CASE Ends(s)
  BY <1>6 DEF Ends
<1>7. CASE CloseLocks(s)
  BY <1>7 DEF CloseLocks, Shared, Locked
<1>8. CASE CloseCommits(s)
  BY <1>8 DEF CloseCommits, Becomes, Waiting
<1>9. CASE CloseGivesUp(s)
  BY <1>9 DEF CloseGivesUp
<1>10. CASE FinishesStep(s)
  BY <1>10 DEF FinishesStep
<1> QED
  BY <1>1, <1>2, <1>3, <1>4, <1>5, <1>6, <1>7, <1>8, <1>9, <1>10 DEF Turns

\* Each step a process takes on the run keeps every part of the invariant but those
\* of the windows' closes, and sends no refused follow-up.
LEMMA WorkKeeps == ASSUME RelayInv, NEW p \in Process, Works(p) PROVE RestInv' /\ RefusedStep
<1> USE RelayAssumption
    DEF RelayInv, RestInv, TypeOK, StaleInv, SharedInv, WindowInv, AddressInv, SentInv,
        ClosedIsQuiet, RefusedStep, leaseVars, jobVars, sessVars, fuVars, Enter
<1>1. CASE Adopts(p)
  BY <1>1 DEF Adopts
<1>2. CASE GivesBackDead(p)
  BY <1>2 DEF GivesBackDead
<1>3. CASE AnswersGate(p)
  BY <1>3 DEF AnswersGate, TakenBy
<1>4. CASE TakesCancel(p)
  BY <1>4 DEF TakesCancel, TakenBy
<1>5. CASE CancelsRun(p)
  <2>1. UNCHANGED <<at, win, fu, to, sent>>
    BY <1>5 DEF CancelsRun
  <2>2. StaleInv'
    BY <1>5 DEF CancelsRun
  <2> QED
    BY <2>1, <2>2
<1>6. CASE ResolvesCancel(p)
  BY <1>6 DEF ResolvesCancel
<1>7. CASE Rests(p)
  BY <1>7 DEF Rests
<1>8. CASE Errs(p)
  BY <1>8 DEF Errs
<1>9. CASE Refreshes(p)
  BY <1>9 DEF Refreshes
<1>10. CASE Abandons(p)
  BY <1>10 DEF Abandons, Dropped, Driven
<1>11. CASE Dies(p)
  BY <1>11 DEF Dies, Dropped, Driven
<1>12. CASE Preempts(p)
  BY <1>12 DEF Preempts, Dropped, Driven
<1>13. CASE CleansAbandoned(p)
  BY <1>13 DEF CleansAbandoned
<1>14. CASE DropLocks(p)
  BY <1>14 DEF DropLocks, Shared, Locked
<1>15. CASE DropCommits(p)
  BY <1>15 DEF DropCommits, Unlock, AfterDrop, Becomes
<1>16. CASE DropSkips(p)
  BY <1>16 DEF DropSkips, Unlock, AfterDrop
<1>17. CASE Stales(p)
  BY <1>17 DEF Stales, GoesOn
<1>18. CASE Releases(p)
  BY <1>18 DEF Releases
<1>19. CASE Crashes(p)
  BY <1>19 DEF Crashes, Unlock, Dropped, Driven
<1> QED
  BY <1>1, <1>2, <1>3, <1>4, <1>5, <1>6, <1>7, <1>8, <1>9, <1>10, <1>11, <1>12, <1>13, <1>14,
     <1>15, <1>16, <1>17, <1>18, <1>19 DEF Works

LEMMA LapseKeeps == ASSUME RelayInv, Lapses PROVE RestInv' /\ RefusedStep
BY DEF RelayInv, RestInv, TypeOK, StaleInv, SharedInv, WindowInv, AddressInv, SentInv,
       ClosedIsQuiet, RefusedStep, Lapses, jobVars, sessVars, fuVars

-----------------------------------------------------------------------------
LEMMA InitHolds == Init => RelayInv
BY RelayAssumption
   DEF Init, RelayInv, TypeOK, StaleInv, SharedInv, WindowInv, AddressInv, SentInv,
       ClosedIsQuiet, Driven, Jobs, Stages, Perms, Mail

LEMMA StepHolds == RelayInv /\ [Next]_vars => RelayInv' /\ [RefusedStep]_vars
<1> SUFFICES ASSUME RelayInv, [Next]_vars PROVE RelayInv' /\ [RefusedStep]_vars
  OBVIOUS
<1>1. CASE Clients
  BY <1>1, ClientTypes, ClientKeeps DEF RelayInv, RestInv
<1>2. CASE Lapses
  BY <1>2, LapseTypes, LapseKeeps DEF RelayInv, RestInv
<1>3. ASSUME NEW s \in Session, Turns(s) PROVE RelayInv' /\ RefusedStep
  BY <1>3, TurnTypes, TurnKeeps DEF RelayInv, RestInv
<1>4. ASSUME NEW p \in Process, Works(p) PROVE RelayInv' /\ RefusedStep
  BY <1>4, WorkTypes, WorkKeeps DEF RelayInv, RestInv
<1>5. CASE UNCHANGED vars
  BY <1>5 DEF RelayInv, TypeOK, StaleInv, SharedInv, WindowInv, AddressInv, SentInv,
              ClosedIsQuiet, Driven, vars, leaseVars, jobVars, sessVars, fuVars
<1> QED
  BY <1>1, <1>2, <1>3, <1>4, <1>5 DEF Next

\* Every reachable state of the relay model is type-correct, and only the sessions of a
\* process that walks the run are driven (heartbeaten drops the rest).
THEOREM RelayTypes == Spec => []TypeOK
<1>1. RelayInv => TypeOK
  BY DEF RelayInv
<1> QED
  BY InitHolds, StepHolds, <1>1, PTL DEF Spec

\* A session whose close_follow_ups has returned leaves no follow-up behind, for any
\* number of clients, sessions and processes, and whichever calls fail.
THEOREM CloseIsFinal == Spec => []ClosedIsQuiet
<1>1. RelayInv => ClosedIsQuiet
  BY DEF RelayInv
<1> QED
  BY InitHolds, StepHolds, <1>1, PTL DEF Spec

\* settle_follow_up's compare-and-set never sends what a person was told was refused.
THEOREM RefusalIsFinal == Spec => RefusedIsNotSent
<1>1. Spec => [][RefusedStep]_vars
  BY InitHolds, StepHolds, PTL DEF Spec
<1> QED
  BY <1>1, PTL DEF RefusedIsNotSent, RefusedStep

-----------------------------------------------------------------------------
(***************************************************************************)
(* While no store call fails.  A process at work on the run, but for its   *)
(* walk, keeps its lease renewed; so a clean-up meets no other's session,  *)
(* and a run that ended is not given back before its windows are closed.   *)
(***************************************************************************)

Calm == Faults = FALSE

\* A process that cleans up before it goes on, or cancels the run, has its lease.
Cleans(p) == job[p] \in {"drop", "dropping", "stale"} /\ next[p] # "handback"
LeaseKept == \A p \in Process : job[p] = "cancel" \/ Cleans(p) => owner = p /\ live

\* The judges are asked one after another.
JudgesInv == \A s, t \in Judges : Driven(s) /\ Driven(t) => s = t

\* A run that ended is its last owner's until the windows are closed, under locks that no
\* other process has, and what they hold is refused; or until that owner has died.
ClosedWindows == \A s \in Session : win[s] \in {"none", "closed"}
Drained == \A f \in FollowUp : fu[f] \notin {"inserted", "pending"}
Ended == run \in {"over", "cancelled"}
OverInv ==
  Ended =>
    \/ owner \in Process /\ job[owner] \in {"drop", "gone"}
    \/ /\ owner \in Process /\ job[owner] = "dropping"
       /\ \A s \in Session : win[s] \in {"none", "closed", owner}
    \/ ClosedWindows /\ Drained

CalmInv == LeaseKept /\ JudgesInv /\ OverInv

\* AskingIsKept, of one step.
AskingStep ==
  \A s \in Session :
    at[s] = "parked" /\ at'[s] = "parked" /\ perm[s] \in {"pending", "answered"}
      => perm'[s] # "stale"

LEMMA CalmClients == ASSUME RelayInv, CalmInv, Clients PROVE CalmInv' /\ AskingStep
<1> USE RelayAssumption
    DEF RelayInv, TypeOK, SharedInv, CalmInv, LeaseKept, Cleans, JudgesInv, OverInv, ClosedWindows,
        Drained, Ended, AskingStep, Driven, leaseVars, jobVars, sessVars, fuVars
<1>1. ASSUME NEW f \in FollowUp, NEW s \in Session, Asks(f, s) PROVE CalmInv' /\ AskingStep
  BY <1>1 DEF Asks
<1>2. ASSUME NEW f \in FollowUp, Inserts(f) PROVE CalmInv' /\ AskingStep
  BY <1>2 DEF Inserts, AddressInv
<1>3. ASSUME NEW f \in FollowUp, Enqueued(f) PROVE CalmInv' /\ AskingStep
  BY <1>3 DEF Enqueued
<1>4. CASE RequestsCancel
  BY <1>4 DEF RequestsCancel, Becomes
<1>5. ASSUME NEW s \in Session, Answers(s) PROVE CalmInv' /\ AskingStep
  BY <1>5 DEF Answers
<1> QED
  BY <1>1, <1>2, <1>3, <1>4, <1>5 DEF Clients

LEMMA CalmTurns ==
  ASSUME RelayInv, CalmInv, Calm, NEW s \in Session, Turns(s) PROVE CalmInv' /\ AskingStep
<1> USE RelayAssumption
    DEF RelayInv, TypeOK, CalmInv, LeaseKept, Cleans, JudgesInv, OverInv, ClosedWindows,
        Drained, Ended, AskingStep, Driven, leaseVars, jobVars, sessVars, fuVars
<1>1. ASSUME NEW p \in Process, Starts(p, s) PROVE CalmInv' /\ AskingStep
  BY <1>1 DEF Starts
<1>2. ASSUME NEW f \in FollowUp, Reads(s, f) PROVE CalmInv' /\ AskingStep
  BY <1>2 DEF Reads
<1>3. CASE Claims(s)
  <2>1. /\ UNCHANGED <<leaseVars, jobVars, win, perm>> /\ at[s] = "claim"
        /\ \A t \in Session : at'[t] = at[t] \/ (t = s /\ at'[t] # "parked")
    BY <1>3 DEF Claims
  <2>2. \A f \in FollowUp : fu'[f] \in {"inserted", "pending"} => fu'[f] = fu[f]
    BY <1>3 DEF Claims, Becomes
  <2> QED
    BY <2>1, <2>2
<1>4. CASE Parks(s)
  <2>1. /\ UNCHANGED <<leaseVars, jobVars, win, fu>> /\ Driven(s) /\ at[s] # "parked"
        /\ at' \in {[at EXCEPT ![s] = "parked"], [at EXCEPT ![s] = "dropped"]}
    BY <1>4 DEF Parks
  <2>2. CalmInv'
    BY <2>1
  <2>3. \A t \in Session \ {s} : perm'[t] # perm[t] => s \in Judges /\ t \in Judges
    BY <1>4 DEF Parks, Settled
  <2>4. AskingStep
    BY <2>1, <2>3
  <2> QED
    BY <2>2, <2>4
<1>5. CASE Polls(s)
  BY <1>5 DEF Polls
<1>6. CASE Ends(s)
  <2>1. /\ UNCHANGED <<leaseVars, jobVars, win, fu>> /\ at' = [at EXCEPT ![s] = "close"]
        /\ \A t \in Session \ {s} : perm'[t] = perm[t]
    BY <1>6 DEF Ends, Settled, Calm
  <2> QED
    BY <1>6, <2>1 DEF Ends
<1>7. CASE CloseLocks(s)
  BY <1>7 DEF CloseLocks
<1>8. CASE CloseCommits(s)
  BY <1>8 DEF CloseCommits, Becomes, Waiting
<1>9. CASE CloseGivesUp(s) \/ FinishesStep(s)
  BY <1>9 DEF CloseGivesUp, FinishesStep, Calm
<1> QED
  BY <1>1, <1>2, <1>3, <1>4, <1>5, <1>6, <1>7, <1>8, <1>9 DEF Turns

LEMMA CalmWorks ==
  ASSUME RelayInv, CalmInv, Calm, NEW p \in Process, Works(p) PROVE CalmInv' /\ AskingStep
<1> USE RelayAssumption
    DEF RelayInv, TypeOK, CalmInv, LeaseKept, Cleans, JudgesInv, OverInv, ClosedWindows,
        Drained, Ended, AskingStep, Driven, leaseVars, jobVars, sessVars, fuVars, Enter
<1>1. CASE Adopts(p)
  BY <1>1 DEF Adopts, Grants
<1>2. CASE GivesBackDead(p)
  BY <1>2 DEF GivesBackDead
<1>3. CASE AnswersGate(p)
  BY <1>3 DEF AnswersGate, TakenBy, Grants, Takeable
<1>4. CASE TakesCancel(p)
  BY <1>4 DEF TakesCancel, TakenBy, Grants, Takeable
<1>5. CASE CancelsRun(p)
  BY <1>5 DEF CancelsRun
<1>6. CASE ResolvesCancel(p)
  BY <1>6 DEF ResolvesCancel
<1>7. CASE Rests(p)
  BY <1>7 DEF Rests
<1>8. CASE Errs(p)
  BY <1>8 DEF Errs
<1>9. CASE Refreshes(p)
  BY <1>9 DEF Refreshes
<1>10. CASE Abandons(p)
  BY <1>10 DEF Abandons, Dropped
<1>11. CASE Dies(p)
  BY <1>11 DEF Dies, Dropped
<1>12. CASE Preempts(p)
  BY <1>12 DEF Preempts, Dropped
<1>13. CASE CleansAbandoned(p)
  BY <1>13 DEF CleansAbandoned, Calm
<1>14. CASE DropLocks(p)
  BY <1>14 DEF DropLocks, Locked
<1>15. CASE DropCommits(p)
  BY <1>15 DEF DropCommits, Unlock, AfterDrop, Becomes, SharedInv
<1>16. CASE DropSkips(p)
  BY <1>16 DEF DropSkips, Unlock, AfterDrop, Calm
<1>17. CASE Stales(p)
  BY <1>17 DEF Stales, GoesOn, Settled, StaleInv, Calm
<1>18. CASE Releases(p)
  BY <1>18 DEF Releases, Calm
<1>19. CASE Crashes(p)
  BY <1>19 DEF Crashes, Unlock, Dropped
<1> QED
  BY <1>1, <1>2, <1>3, <1>4, <1>5, <1>6, <1>7, <1>8, <1>9, <1>10, <1>11, <1>12, <1>13, <1>14,
     <1>15, <1>16, <1>17, <1>18, <1>19 DEF Works

LEMMA CalmLapse == ASSUME RelayInv, CalmInv, Calm, Lapses PROVE CalmInv' /\ AskingStep
BY RelayAssumption
   DEF RelayInv, TypeOK, CalmInv, LeaseKept, Cleans, JudgesInv, OverInv, ClosedWindows, Drained,
       Ended, AskingStep, Driven, Calm, Lapses, jobVars, sessVars, fuVars

LEMMA CalmInit == Init => CalmInv
BY RelayAssumption DEF Init, CalmInv, LeaseKept, Cleans, JudgesInv, OverInv, Ended, Driven

LEMMA CalmHolds ==
  ASSUME Calm
  PROVE  RelayInv /\ CalmInv /\ [Next]_vars => CalmInv' /\ [AskingStep]_vars
<1> SUFFICES ASSUME RelayInv, CalmInv, [Next]_vars PROVE CalmInv' /\ [AskingStep]_vars
  OBVIOUS
<1>1. CASE Clients
  BY <1>1, CalmClients
<1>2. CASE Lapses
  BY <1>2, CalmLapse
<1>3. ASSUME NEW s \in Session, Turns(s) PROVE CalmInv' /\ AskingStep
  BY <1>3, CalmTurns
<1>4. ASSUME NEW p \in Process, Works(p) PROVE CalmInv' /\ AskingStep
  BY <1>4, CalmWorks
<1>5. CASE UNCHANGED vars
  BY <1>5 DEF CalmInv, LeaseKept, Cleans, JudgesInv, OverInv, ClosedWindows, Drained, Ended,
              Driven, vars, leaseVars, jobVars, sessVars, fuVars
<1> QED
  BY <1>1, <1>2, <1>3, <1>4, <1>5 DEF Next

\* While no store call fails, no clean-up (stale_dropped_requests) stales the request of
\* a session that still waits for its answer, for any number of processes and sessions:
\* the process that lists the owner's requests is the owner, and drives no session then.
THEOREM AsksAreKept == ASSUME Calm PROVE Spec => AskingIsKept
<1>1. Spec => [][AskingStep]_vars
  BY InitHolds, StepHolds, CalmInit, CalmHolds, PTL DEF Spec
<1> QED
  BY <1>1, PTL DEF AskingIsKept, AskingStep

\* While no store call fails, a run that ended goes back (release) only after its windows
\* were closed under the lease, so nobody's follow-up waits in it for good.
THEOREM OverRunsAreQuiet == ASSUME Calm PROVE Spec => []OverIsQuiet
<1>1. CalmInv => OverIsQuiet
  BY RelayAssumption DEF CalmInv, OverInv, Ended, Drained, OverIsQuiet
<1> QED
  BY InitHolds, StepHolds, CalmInit, CalmHolds, <1>1, PTL DEF Spec

\* A process's sessions are driven under the lease it started them with, or another has
\* had it since.
HeldInv == \A s \in Session : Driven(s) /\ ~lent[s] => owner = host[s] /\ run = "running"

\* A request was opened by a session that some process started.
Begun == \A s \in Session : perm[s] # "none" => host[s] \in Process /\ at[s] # "new"

\* The process will stale the requests its sessions left before it walks again.
Unclean(p) ==
  \/ job[p] = "idle" /\ marked[p]
  \/ job[p] \in {"abandon", "cancel", "gone"}
  \/ job[p] \in {"drop", "dropping", "stale"} /\ next[p] # "handback"

\* A request nobody waits for is its process's to clean up, or the lease went back and
\* whoever adopts the run cleans up first.
GhostInv ==
  \A s \in Session :
    perm[s] = "pending" /\ ~lent[s] /\ ~Ended =>
      /\ run = "running"
      /\ \/ at[s] = "parked"
         \/ ~Driven(s) /\ owner = host[s] /\ Unclean(host[s])
         \/ ~Driven(s) /\ owner = Nobody /\ job[host[s]] \in {"idle", "gone"}

AskedInv == HeldInv /\ Begun /\ GhostInv

LEMMA AskedClients == ASSUME RelayInv, AskedInv, Clients PROVE AskedInv'
BY DEF RelayInv, TypeOK, AskedInv, HeldInv, Begun, GhostInv, Unclean, Ended, Driven, Clients, Asks,
       Inserts, Enqueued, RequestsCancel, Answers, leaseVars, jobVars, sessVars, fuVars

LEMMA AskedTurns == ASSUME RelayInv, AskedInv, Calm, NEW s \in Session, Turns(s) PROVE AskedInv'
<1> USE RelayAssumption
    DEF RelayInv, TypeOK, AskedInv, HeldInv, Begun, GhostInv, Unclean, Ended, Driven,
        leaseVars, jobVars, sessVars, fuVars
<1>1. ASSUME NEW p \in Process, Starts(p, s) PROVE AskedInv'
  <2>1. UNCHANGED leaseVars /\ run = "running"
    BY <1>1 DEF Starts
  <2>2. host' = [host EXCEPT ![s] = p] /\ lent' = [lent EXCEPT ![s] = (owner # p)]
    BY <1>1 DEF Starts
  <2>3. at' = [at EXCEPT ![s] = "turn"] \/ at' = [at EXCEPT ![s] = "dropped"]
    BY <1>1 DEF Starts
  <2>4. HeldInv'
    <3>1. \A t \in Session \ {s} : at'[t] = at[t] /\ host'[t] = host[t] /\ lent'[t] = lent[t]
      BY <2>2, <2>3
    <3>2. host'[s] = p /\ (~lent'[s] => owner = p)
      BY <2>2
    <3> QED
      BY <2>1, <3>1, <3>2
  <2>5. Begun'
    BY <1>1 DEF Starts, Calm
  <2>6. GhostInv'
    BY <1>1 DEF Starts, Calm
  <2> QED
    BY <2>4, <2>5, <2>6
<1>2. ASSUME NEW f \in FollowUp, Reads(s, f) PROVE AskedInv'
  BY <1>2 DEF Reads
<1>3. CASE Claims(s)
  BY <1>3 DEF Claims, Calm
<1>4. CASE Parks(s)
  <2>1. /\ UNCHANGED <<leaseVars, jobVars, host, lent>> /\ Driven(s)
        /\ at' = [at EXCEPT ![s] = "parked"] \/ at' = [at EXCEPT ![s] = "dropped"]
        /\ perm[s] = "none"
    BY <1>4 DEF Parks
  <2>2. \A t \in Session \ {s} : perm'[t] = perm[t] \/ (perm'[t] = "stale" /\ perm[t] # "none")
    BY <1>4 DEF Parks, Settled
  <2>3. at'[s] = "parked" \/ perm'[s] = "none"
    BY <1>4 DEF Parks
  <2>4. HeldInv' /\ Begun'
    BY <2>1, <2>2
  <2>5. GhostInv'
    BY <2>1, <2>2, <2>3
  <2> QED
    BY <2>4, <2>5
<1>5. CASE Polls(s)
  BY <1>5 DEF Polls
<1>6. CASE Ends(s)
  BY <1>6 DEF Ends, Settled, Calm
<1>7. CASE CloseLocks(s) \/ CloseCommits(s)
  BY <1>7 DEF CloseLocks, CloseCommits
<1>8. CASE CloseGivesUp(s) \/ FinishesStep(s)
  BY <1>8 DEF CloseGivesUp, FinishesStep
<1> QED
  BY <1>1, <1>2, <1>3, <1>4, <1>5, <1>6, <1>7, <1>8 DEF Turns

LEMMA AskedWorks ==
  ASSUME RelayInv, CalmInv, AskedInv, Calm, NEW p \in Process, Works(p) PROVE AskedInv'
<1> USE RelayAssumption
    DEF RelayInv, TypeOK, AskedInv, HeldInv, Begun, GhostInv, Unclean, Ended, Driven,
        leaseVars, jobVars, sessVars, fuVars, Enter
<1>1. CASE Adopts(p)
  <2>1. HeldInv'
    BY <1>1 DEF Adopts, Grants
  <2>2. Begun'
    BY <1>1 DEF Adopts, Grants
  <2>3. SUFFICES ASSUME NEW s \in Session, perm[s] = "pending", ~lent'[s], ~Ended'
                 PROVE  /\ run' = "running"
                        /\ \/ at'[s] = "parked"
                           \/ ~Driven(s)' /\ owner' = host'[s] /\ Unclean(host[s])'
    BY <2>1, <2>2, <1>1 DEF Adopts, Grants
  <2>4. host[s] = p /\ ~lent[s] /\ owner' = p /\ ~Ended /\ run' = run
    BY <2>3, <1>1 DEF Adopts, Grants
  <2>5. ~Driven(s) /\ job[p] = "idle"
    BY <2>3, <2>4, <1>1 DEF Adopts
  <2> QED
    BY <2>3, <2>4, <2>5, <1>1 DEF Adopts
<1>2. CASE GivesBackDead(p)
  BY <1>2 DEF GivesBackDead
<1>3. CASE AnswersGate(p)
  BY <1>3 DEF AnswersGate, TakenBy, Grants, Takeable
<1>4. CASE TakesCancel(p)
  <2>1. HeldInv'
    BY <1>4 DEF TakesCancel, TakenBy, Grants, Takeable
  <2>2. Begun'
    BY <1>4 DEF TakesCancel, TakenBy, Grants, Takeable
  <2>3. SUFFICES ASSUME NEW s \in Session, perm[s] = "pending", ~lent'[s], ~Ended'
                 PROVE  /\ run' = "running"
                        /\ \/ at'[s] = "parked"
                           \/ ~Driven(s)' /\ owner' = host'[s] /\ Unclean(host[s])'
    BY <2>1, <2>2, <1>4 DEF TakesCancel, TakenBy, Grants
  <2>4. host[s] = p /\ ~lent[s] /\ owner' = p /\ ~Ended /\ run' = run
    BY <2>3, <1>4 DEF TakesCancel, TakenBy, Grants
  <2>5. ~Driven(s) /\ job[p] = "idle"
    BY <2>3, <2>4, <1>4 DEF TakesCancel
  <2> QED
    BY <2>3, <2>4, <2>5, <1>4 DEF TakesCancel, TakenBy
<1>5. CASE CancelsRun(p)
  BY <1>5 DEF CancelsRun, CalmInv, LeaseKept
<1>6. CASE ResolvesCancel(p)
  BY <1>6 DEF ResolvesCancel
<1>7. CASE Rests(p)
  BY <1>7 DEF Rests, Done
<1>8. CASE Errs(p)
  BY <1>8 DEF Errs, Undriven
<1>9. CASE Refreshes(p)
  BY <1>9 DEF Refreshes
<1>10. CASE Abandons(p)
  BY <1>10 DEF Abandons, Dropped
<1>11. CASE Dies(p)
  BY <1>11 DEF Dies, Dropped
<1>12. CASE Preempts(p)
  BY <1>12 DEF Preempts, Dropped
<1>13. CASE CleansAbandoned(p)
  BY <1>13 DEF CleansAbandoned, Calm
<1>14. CASE DropLocks(p)
  BY <1>14 DEF DropLocks
<1>15. CASE DropCommits(p)
  BY <1>15 DEF DropCommits, AfterDrop
<1>16. CASE DropSkips(p)
  BY <1>16 DEF DropSkips, AfterDrop, Calm
<1>17. CASE Stales(p)
  BY <1>17 DEF Stales, GoesOn, Settled, Calm, CalmInv, LeaseKept, Cleans
<1>18. CASE Releases(p)
  BY <1>18 DEF Releases, Calm
<1>19. CASE Crashes(p)
  BY <1>19 DEF Crashes, Dropped
<1> QED
  BY <1>1, <1>2, <1>3, <1>4, <1>5, <1>6, <1>7, <1>8, <1>9, <1>10, <1>11, <1>12, <1>13, <1>14,
     <1>15, <1>16, <1>17, <1>18, <1>19 DEF Works

LEMMA AskedHolds ==
  ASSUME Calm
  PROVE  RelayInv /\ CalmInv /\ AskedInv /\ [Next]_vars => AskedInv'
<1> SUFFICES ASSUME RelayInv, CalmInv, AskedInv, [Next]_vars PROVE AskedInv'
  OBVIOUS
<1>1. CASE Lapses \/ UNCHANGED vars
  BY <1>1 DEF AskedInv, HeldInv, Begun, GhostInv, Unclean, Ended, Driven, Lapses, vars,
              leaseVars, jobVars, sessVars, fuVars
<1> QED
  BY <1>1, AskedClients, AskedTurns, AskedWorks DEF Next

\* While no store call fails, a request a person may answer (list_permissions lists the
\* owner's) has its session, or a clean-up its process owes, or a lease that was another's.
THEOREM GhostsAreLent == ASSUME Calm PROVE Spec => []GhostsWereLent
<1>1. Init => AskedInv
  BY RelayAssumption DEF Init, AskedInv, HeldInv, Begun, GhostInv, Driven
<1>2. RelayInv /\ AskedInv => GhostsWereLent
  BY RelayAssumption DEF RelayInv, TypeOK, AskedInv, Begun, GhostInv, Unclean, Ended,
     GhostsWereLent, Answerable, Owed
<1> QED
  BY InitHolds, StepHolds, CalmInit, CalmHolds, AskedHolds, <1>1, <1>2, PTL DEF Spec
=============================================================================
