-------------------------- MODULE SharedFilesProofs --------------------------
(* Proofs about what several processes share on disk: about RunRecovery, for any *)
(* number of processes, runs and children; about IndexCache, for any number of   *)
(* front ends, files, sweeps and faults, whatever the clock answers.             *)
EXTENDS RunRecovery, IndexCache, TLAPS

\* Every variable of the data directory and its processes keeps its type.
THEOREM TypeCorrect == Spec => []TypeOK
<1> USE RecoveryAssumption DEF RunTerminal, ProcState, Reasons, NoPending, NoPlan, Unseen
<1>1. Init => TypeOK
  BY DEF Init, TypeOK
<1>2. TypeOK /\ [Next]_vars => TypeOK'
  <2> SUFFICES ASSUME TypeOK, [Next]_vars PROVE TypeOK'
    OBVIOUS
  <2> USE DEF TypeOK, storeVars, fileVars, procVars, sweepVars
  <2>1. ASSUME NEW p \in Proc, OpenLease(p) PROVE TypeOK'
    BY <2>1 DEF OpenLease
  <2>2. ASSUME NEW p \in Proc, BeginSweep(p) PROVE TypeOK'
    BY <2>2 DEF BeginSweep
  <2>3. ASSUME NEW p \in Proc, GiveUpSweep(p) PROVE TypeOK'
    BY <2>3 DEF GiveUpSweep
  <2>4. ASSUME NEW p \in Proc, NEW o \in Proc, Examine(p, o) PROVE TypeOK'
    BY <2>4 DEF Examine, Liveness, Reason
  <2>5. ASSUME NEW p \in Proc, NEW r \in Run, SkipRun(p, r) \/ ExamineFails(p, r) PROVE TypeOK'
    <3>1. CASE SkipRun(p, r)
      BY <3>1 DEF SkipRun
    <3>2. CASE ExamineFails(p, r)
      <4>1. /\ failures' \in [Proc -> SUBSET Run]
            /\ todo' \in [Proc -> SUBSET Run]
        BY <3>2 DEF ExamineFails
      <4>2. QED
        BY <3>2, <4>1 DEF ExamineFails
    <3>3. QED
      BY <2>5, <3>1, <3>2
  <2>6. ASSUME NEW p \in Proc, NEW r \in Run, PlanInterrupt(p, r) PROVE TypeOK'
    BY <2>6 DEF PlanInterrupt, OpenChildren
  <2>7. ASSUME NEW p \in Proc, ApplyInterrupt(p) PROVE TypeOK'
    <3>1. plan[p].of \in Run /\ plan' \in [Proc -> [of : Run \cup {NoRun}, marks : SUBSET Child]]
      BY <2>7 DEF ApplyInterrupt
    <3>2. CASE run[plan[p].of] \in RunTerminal
      BY <2>7, <3>1, <3>2 DEF ApplyInterrupt
    <3>3. CASE run[plan[p].of] \notin RunTerminal
      <4>1. run' \in [Run -> {"absent", "open"} \cup RunTerminal]
        BY <2>7, <3>1, <3>3 DEF ApplyInterrupt
      <4>2. child' \in [Child -> {"absent", "open", "closed", "interrupted"}]
        BY <2>7, <3>3 DEF ApplyInterrupt
      <4>3. row' \in [Proc -> {"none", "live", "released"}]
        <5>1. CASE owner[plan[p].of] = NoProc
          BY <2>7, <3>3, <5>1 DEF ApplyInterrupt
        <5>2. CASE owner[plan[p].of] \in Proc
          <6>1. row' = Released(owner[plan[p].of])
            BY <2>7, <3>3, <5>2 DEF ApplyInterrupt
          <6>2. QED
            BY <5>2, <6>1 DEF Released
        <5>3. QED
          BY <3>1, <5>1, <5>2
      <4>4. QED
        BY <2>7, <3>1, <4>1, <4>2, <4>3 DEF ApplyInterrupt
    <3>4. QED
      BY <3>2, <3>3
  <2>8. ASSUME NEW p \in Proc, InterruptFails(p) PROVE TypeOK'
    <3>1. plan[p].of \in Run
      BY <2>8 DEF InterruptFails
    <3>2. failures' \in [Proc -> SUBSET Run]
      BY <2>8, <3>1 DEF InterruptFails
    <3>3. QED
      BY <2>8, <3>2 DEF InterruptFails
  <2>9. ASSUME NEW p \in Proc, EndSweep(p) PROVE TypeOK'
    BY <2>9 DEF EndSweep
  <2>10. ASSUME NEW p \in Proc, NEW r \in Run, StartRun(p, r) PROVE TypeOK'
    BY <2>10 DEF StartRun, InsertRun, EnsureRow
  <2>11. ASSUME NEW p \in Proc, NEW r \in Run, RetryCheck(p, r) PROVE TypeOK'
    BY <2>11 DEF RetryCheck
  <2>12. ASSUME NEW p \in Proc, NEW r \in Run, RetryRun(p, r) PROVE TypeOK'
    BY <2>12 DEF RetryRun, InsertRun, EnsureRow
  <2>13. ASSUME NEW c \in Child, AddChild(c) PROVE TypeOK'
    BY <2>13 DEF AddChild
  <2>14. ASSUME NEW c \in Child, StartWrite(c) PROVE TypeOK'
    BY <2>14 DEF StartWrite
  <2>15. ASSUME NEW c \in Child, CloseChild(c) PROVE TypeOK'
    BY <2>15 DEF CloseChild
  <2>16. ASSUME NEW r \in Run, NEW s \in {"succeeded", "failed"}, FinishRun(r, s) PROVE TypeOK'
    BY <2>16 DEF FinishRun
  <2>17. ASSUME NEW r \in Run, LoseWorker(r) PROVE TypeOK'
    BY <2>17 DEF LoseWorker
  <2>18. ASSUME NEW p \in Proc, BeginShutdown(p) PROVE TypeOK'
    BY <2>18 DEF BeginShutdown
  <2>19. ASSUME NEW p \in Proc, DeadlinePasses(p) \/ ReleaseRow(p) PROVE TypeOK'
    BY <2>19 DEF DeadlinePasses, ReleaseRow, Released
  <2>20. ASSUME NEW p \in Proc, ReleaseFile(p) PROVE TypeOK'
    BY <2>20 DEF ReleaseFile
  <2>21. ASSUME NEW p \in Proc, Die(p) PROVE TypeOK'
    BY <2>21 DEF Die
  <2>22. ASSUME NEW p \in Proc, Renew(p) PROVE TypeOK'
    BY <2>22 DEF Renew
  <2>23. CASE Ages
    <3>1. young' \subseteq Proc /\ recStale' \subseteq Proc /\ rowStale' \subseteq Proc
      BY <2>23 DEF Ages
    <3>2. QED
      BY <2>23, <3>1 DEF Ages
  <2>24. CASE UNCHANGED vars
    BY <2>24 DEF vars
  <2> HIDE DEF TypeOK
  <2>25. QED
    BY <2>1, <2>2, <2>3, <2>4, <2>5, <2>6, <2>7, <2>8, <2>9, <2>10, <2>11, <2>12, <2>13,
       <2>14, <2>15, <2>16, <2>17, <2>18, <2>19, <2>20, <2>21, <2>22, <2>23, <2>24
       DEF Next, Sweep
<1>3. QED
  BY <1>1, <1>2, PTL DEF Spec

-----------------------------------------------------------------------------
(***************************************************************************)
(* Why a live coordinator keeps its runs.  A lease is used once, so a      *)
(* coordinator that has given up its claim, by shutdown or by death, never *)
(* gets it back: Gone is stable.  Everything a sweep may conclude from     *)
(* files and rows therefore stays true until it acts on it, however late.  *)
(***************************************************************************)
Gone(p) == ppc[p] \in {"unclaimed", "down", "dead"}

\* Nobody has heard of a lease that has not been taken.
OffIsFresh == \A p \in Proc : ppc[p] = "off" => row[p] = "none"

\* A claiming coordinator has its file locked.
LockHeld ==
    \A p \in Proc : ppc[p] \notin {"off", "down", "dead"} => file[p] = "locked"

\* A released row belongs to a coordinator that is gone.
ReleasedIsGone == \A p \in Proc : row[p] = "released" => Gone(p)

\* The owner of a run has a row.
OwnerHasRow == \A r \in Run : owner[r] \in Proc => row[owner[r]] # "none"

\* A verdict against a lease was found of a coordinator that is gone, and a
\* free lock of one that has let go of its file.
VerdictSound ==
    \A p, o \in Proc :
        /\ seen[p][o].reason \notin {"unseen", "keep"} => Gone(o)
        /\ seen[p][o].free => ppc[o] \in {"down", "dead"}

\* A run that is not recorded has no owner, and no sweep knows it.
AbsentUnknown ==
    \A r \in Run : run[r] = "absent" =>
        /\ owner[r] = NoProc
        /\ \A p \in Proc : r \notin todo[p] /\ plan[p].of # r

OwnerGone(r) == owner[r] \in Proc => Gone(owner[r])

\* What is planned, and what has been done, was against a dead owner.
PlanSound == \A p \in Proc : plan[p].of # NoRun => OwnerGone(plan[p].of)
InterruptSound == \A r \in Run : run[r] = "interrupted" => OwnerGone(r)

ClaimInv ==
    /\ OffIsFresh /\ LockHeld /\ ReleasedIsGone /\ OwnerHasRow /\ VerdictSound
    /\ AbsentUnknown /\ PlanSound /\ InterruptSound

\* The claim invariant is inductive, given the types and probes that answer.
LEMMA ClaimInvStep ==
    ASSUME MayFailProbe = FALSE, TypeOK, ClaimInv, [Next]_vars
    PROVE  ClaimInv'
<1> USE RecoveryAssumption
<1> USE DEF TypeOK, ClaimInv, OffIsFresh, LockHeld, ReleasedIsGone, OwnerHasRow, VerdictSound,
            AbsentUnknown, PlanSound, InterruptSound, OwnerGone, Gone,
            storeVars, fileVars, procVars, sweepVars,
            RunTerminal, ProcState, Reasons, NoPending, NoPlan, Unseen
<1>1. ASSUME NEW p \in Proc, OpenLease(p) PROVE ClaimInv'
  BY <1>1 DEF OpenLease
<1>2. ASSUME NEW p \in Proc, BeginSweep(p) PROVE ClaimInv'
  BY <1>2 DEF BeginSweep
<1>3. ASSUME NEW p \in Proc, GiveUpSweep(p) PROVE ClaimInv'
  BY <1>3 DEF GiveUpSweep
<1>4. ASSUME NEW p \in Proc, NEW o \in Proc, Examine(p, o) PROVE ClaimInv'
  BY <1>4 DEF Examine, Liveness, Reason
<1>5. ASSUME NEW p \in Proc, NEW r \in Run, SkipRun(p, r) \/ ExamineFails(p, r) PROVE ClaimInv'
  <2>1. CASE SkipRun(p, r)
    BY <2>1 DEF SkipRun
  <2>2. CASE ExamineFails(p, r)
    BY <2>2 DEF ExamineFails
  <2>3. QED
    BY <1>5, <2>1, <2>2
<1>6. ASSUME NEW p \in Proc, NEW r \in Run, PlanInterrupt(p, r) PROVE ClaimInv'
  BY <1>6 DEF PlanInterrupt, OpenChildren, Verdict
<1>7. ASSUME NEW p \in Proc, ApplyInterrupt(p) PROVE ClaimInv'
  BY <1>7 DEF ApplyInterrupt, Released
<1>8. ASSUME NEW p \in Proc, InterruptFails(p) PROVE ClaimInv'
  BY <1>8 DEF InterruptFails
<1>9. ASSUME NEW p \in Proc, EndSweep(p) PROVE ClaimInv'
  <2>1. LockHeld'
    BY <1>9 DEF EndSweep, Discarded
  <2>2. (OffIsFresh /\ ReleasedIsGone /\ OwnerHasRow)'
    BY <1>9 DEF EndSweep
  <2>3. (VerdictSound /\ AbsentUnknown /\ PlanSound /\ InterruptSound)'
    BY <1>9 DEF EndSweep
  <2>4. QED
    BY <2>1, <2>2, <2>3
<1>10. ASSUME NEW p \in Proc, NEW r \in Run, StartRun(p, r) PROVE ClaimInv'
  BY <1>10 DEF StartRun, InsertRun, EnsureRow
<1>11. ASSUME NEW p \in Proc, NEW r \in Run, RetryCheck(p, r) PROVE ClaimInv'
  BY <1>11 DEF RetryCheck
<1>12. ASSUME NEW p \in Proc, NEW r \in Run, RetryRun(p, r) PROVE ClaimInv'
  BY <1>12 DEF RetryRun, InsertRun, EnsureRow
<1>13. ASSUME NEW c \in Child, AddChild(c) \/ StartWrite(c) \/ CloseChild(c) PROVE ClaimInv'
  BY <1>13 DEF AddChild, StartWrite, CloseChild
<1>14. ASSUME NEW r \in Run, NEW s \in {"succeeded", "failed"}, FinishRun(r, s) PROVE ClaimInv'
  BY <1>14 DEF FinishRun
<1>15. ASSUME NEW r \in Run, LoseWorker(r) PROVE ClaimInv'
  BY <1>15 DEF LoseWorker
<1>16. ASSUME NEW p \in Proc, BeginShutdown(p) PROVE ClaimInv'
  BY <1>16 DEF BeginShutdown
<1>17. ASSUME NEW p \in Proc, DeadlinePasses(p) \/ ReleaseRow(p) PROVE ClaimInv'
  <2>1. CASE DeadlinePasses(p)
    BY <2>1 DEF DeadlinePasses
  <2>2. CASE ReleaseRow(p)
    BY <2>2 DEF ReleaseRow, Released
  <2>3. QED
    BY <1>17, <2>1, <2>2
<1>18. ASSUME NEW p \in Proc, ReleaseFile(p) PROVE ClaimInv'
  BY <1>18 DEF ReleaseFile
<1>19. ASSUME NEW p \in Proc, Die(p) PROVE ClaimInv'
  BY <1>19 DEF Die, Alive
<1>20. ASSUME NEW p \in Proc, Renew(p) PROVE ClaimInv'
  BY <1>20 DEF Renew
<1>21. CASE Ages
  BY <1>21 DEF Ages
<1>22. CASE UNCHANGED vars
  BY <1>22 DEF vars
<1> HIDE DEF TypeOK, ClaimInv
<1>23. QED
  BY <1>1, <1>2, <1>3, <1>4, <1>5, <1>6, <1>7, <1>8, <1>9, <1>10, <1>11, <1>12, <1>13, <1>14,
     <1>15, <1>16, <1>17, <1>18, <1>19, <1>20, <1>21, <1>22 DEF Next, Sweep

\* Recovery never takes a run from a coordinator that still claims it, when a
\* lease file that exists can be probed: for any number of processes sweeping,
\* starting, stopping and dying in any order.
THEOREM LiveClaimsSafe ==
    ASSUME MayFailProbe = FALSE
    PROVE  Spec => []LiveClaimKept
<1>1. Init => ClaimInv
  BY RecoveryAssumption
  DEF Init, ClaimInv, OffIsFresh, LockHeld, ReleasedIsGone, OwnerHasRow, VerdictSound,
      AbsentUnknown, PlanSound, InterruptSound, OwnerGone, Gone, NoPlan, Unseen
<1>2. TypeOK /\ ClaimInv /\ [Next]_vars => ClaimInv'
  BY ClaimInvStep
<1>3. ClaimInv => LiveClaimKept
  BY DEF ClaimInv, InterruptSound, OwnerGone, Gone, LiveClaimKept, Claiming
<1>4. QED
  BY <1>1, <1>2, <1>3, TypeCorrect, PTL DEF Spec

-----------------------------------------------------------------------------
(***************************************************************************)
(* What holds besides: a run that is over is really over, but for the work *)
(* of a worker that outlived the deadline of its shutdown.                 *)
(***************************************************************************)

\* A worker drives an unfinished run of a coordinator that claims it, or has
\* outlived the deadline.
DrivenOpen ==
    \A r \in driving :
        /\ owner[r] \in Proc /\ run[r] # "absent"
        /\ r \in overran \/ (~Gone(owner[r]) /\ run[r] = "open")

\* Nothing refers to a run that is not recorded.
AbsentBare ==
    \A r \in Run : run[r] = "absent" =>
        /\ r \notin modified /\ retryOf[r] = NoRun /\ r \notin overran
        /\ \A c \in Child : ChildOf[c] = r => child[c] = "absent"

\* The description of an interruption stays complete until it is applied.
PlanCovers ==
    \A p \in Proc, c \in Child :
        (plan[p].of = ChildOf[c] /\ child[c] = "open")
            => c \in plan[p].marks \/ ChildOf[c] \in overran

\* Only a run that is over is followed by another, and what was found out
\* about it when the retry was asked for is still so.
RetriedIsOver ==
    /\ \A r \in Run : retryOf[r] \in Run => run[retryOf[r]] \in RunTerminal
    /\ \A p \in Proc : pending[p].of \in Run =>
         /\ run[pending[p].of] \in RunTerminal
         /\ \/ pending[p].of \in modified
            \/ pending[p].of \in wrote /\ pending[p].of \notin overran
            => pending[p].flag = TRUE

WorkInv ==
    DrivenOpen /\ AbsentBare /\ PlanCovers /\ RetriedIsOver /\ ChildrenEnd /\ WarningCarried

\* The work invariant is inductive, given the claim invariant.
LEMMA WorkInvStep ==
    ASSUME TypeOK, ClaimInv, WorkInv, [Next]_vars
    PROVE  WorkInv'
<1> USE RecoveryAssumption
<1> USE DEF TypeOK, WorkInv, DrivenOpen, AbsentBare, PlanCovers, RetriedIsOver, ChildrenEnd,
            WarningCarried, OpenChildren, Driven, Gone,
            storeVars, fileVars, procVars, sweepVars,
            RunTerminal, ProcState, NoPending, NoPlan
<1>1. ASSUME NEW p \in Proc, OpenLease(p) PROVE WorkInv'
  BY <1>1 DEF OpenLease
<1>2. ASSUME NEW p \in Proc, BeginSweep(p) PROVE WorkInv'
  BY <1>2 DEF BeginSweep
<1>3. ASSUME NEW p \in Proc, GiveUpSweep(p) PROVE WorkInv'
  BY <1>3 DEF GiveUpSweep
<1>4. ASSUME NEW p \in Proc, NEW o \in Proc, Examine(p, o) PROVE WorkInv'
  BY <1>4 DEF Examine
<1>5. ASSUME NEW p \in Proc, NEW r \in Run, SkipRun(p, r) \/ ExamineFails(p, r) PROVE WorkInv'
  BY <1>5 DEF SkipRun, ExamineFails
<1>6. ASSUME NEW p \in Proc, NEW r \in Run, PlanInterrupt(p, r) PROVE WorkInv'
  BY <1>6 DEF PlanInterrupt
<1>7. ASSUME NEW p \in Proc, ApplyInterrupt(p) PROVE WorkInv'
  <2> DEFINE r == plan[p].of
  <2>1. /\ r \in Run /\ plan' = [plan EXCEPT ![p] = NoPlan]
        /\ UNCHANGED <<owner, retryOf, modified, wrote, ppc, driving, overran, pending>>
    BY <1>7 DEF ApplyInterrupt
  <2>2. CASE run[r] \in RunTerminal
    BY <1>7, <2>1, <2>2 DEF ApplyInterrupt
  <2>3. CASE run[r] \notin RunTerminal
    <3>1. /\ run' = [run EXCEPT ![r] = "interrupted"]
          /\ child' = [c \in Child |-> IF c \in plan[p].marks /\ child[c] = "open"
                                         THEN "interrupted" ELSE child[c]]
      BY <1>7, <2>3 DEF ApplyInterrupt
    <3>2. (r \notin driving \/ r \in overran) /\ run[r] = "open"
      BY <1>7, <2>1, <2>3 DEF ApplyInterrupt, ClaimInv, PlanSound, OwnerGone, AbsentUnknown
    <3>3. (DrivenOpen /\ AbsentBare /\ RetriedIsOver /\ WarningCarried)'
      BY <2>1, <3>1, <3>2
    <3>4. (PlanCovers /\ ChildrenEnd)'
      BY <2>1, <3>1, <3>2
    <3>5. QED
      BY <3>3, <3>4
  <2>4. QED
    BY <2>2, <2>3
<1>8. ASSUME NEW p \in Proc, InterruptFails(p) PROVE WorkInv'
  BY <1>8 DEF InterruptFails
<1>9. ASSUME NEW p \in Proc, EndSweep(p) PROVE WorkInv'
  BY <1>9 DEF EndSweep
<1>10. ASSUME NEW p \in Proc, NEW r \in Run, StartRun(p, r) PROVE WorkInv'
  BY <1>10 DEF StartRun, InsertRun, ClaimInv, AbsentUnknown
<1>11. ASSUME NEW p \in Proc, NEW r \in Run, RetryCheck(p, r) PROVE WorkInv'
  <2>1. UNCHANGED <<run, owner, retryOf, modified, child, wrote, ppc, driving, overran, plan>>
    BY <1>11 DEF RetryCheck
  <2>2. /\ run[r] \in RunTerminal
        /\ pending' = [pending EXCEPT ![p] = [of |-> r, flag |-> r \in modified \/ r \in wrote]]
    BY <1>11 DEF RetryCheck
  <2>3. ASSUME NEW q \in Proc, pending'[q].of \in Run
        PROVE  /\ run[pending'[q].of] \in RunTerminal
               /\ \/ pending'[q].of \in modified
                  \/ pending'[q].of \in wrote /\ pending'[q].of \notin overran
                  => pending'[q].flag = TRUE
    <3>1. CASE q = p
      <4>1. pending'[q] = [of |-> r, flag |-> r \in modified \/ r \in wrote]
        BY <2>2, <3>1
      <4>2. pending'[q].of = r
        BY <4>1
      <4>3. ASSUME r \in modified \/ r \in wrote PROVE pending'[q].flag = TRUE
        <5>1. (r \in modified \/ r \in wrote) = TRUE
          BY <4>3
        <5>2. pending'[q] = [of |-> r, flag |-> TRUE]
          BY <4>1, <5>1, Zenon
        <5>3. QED
          BY <5>2
      <4>4. run[pending'[q].of] \in RunTerminal
        BY <2>2, <4>2
      <4>5. \/ pending'[q].of \in modified
            \/ pending'[q].of \in wrote /\ pending'[q].of \notin overran
            => pending'[q].flag = TRUE
        BY <4>2, <4>3, Zenon
      <4>6. QED
        BY <4>4, <4>5, Zenon
    <3>2. CASE q # p
      BY <2>2, <2>3, <3>2
    <3>3. QED
      BY <3>1, <3>2
  <2>4. RetriedIsOver'
    BY <2>1, <2>3
  <2>5. QED
    BY <2>1, <2>4
<1>12. ASSUME NEW p \in Proc, NEW r \in Run, RetryRun(p, r) PROVE WorkInv'
  BY <1>12 DEF RetryRun, InsertRun, ClaimInv, AbsentUnknown
<1>13. ASSUME NEW c \in Child, AddChild(c) PROVE WorkInv'
  BY <1>13 DEF AddChild, ClaimInv, PlanSound, OwnerGone
<1>14. ASSUME NEW c \in Child, StartWrite(c) PROVE WorkInv'
  <2>1. /\ ChildOf[c] \in driving /\ ChildOf[c] \in Run
        /\ run[ChildOf[c]] = "open" \/ ChildOf[c] \in overran
    BY <1>14 DEF StartWrite
  <2>2. wrote' = wrote \cup {ChildOf[c]}
    BY <1>14 DEF StartWrite
  <2>3. UNCHANGED <<run, owner, retryOf, modified, child, ppc, driving, overran, pending, plan>>
    BY <1>14 DEF StartWrite
  <2>4. RetriedIsOver'
    BY <2>1, <2>2, <2>3
  <2>5. WarningCarried'
    <3> SUFFICES ASSUME NEW r \in Run, NEW o \in Run, retryOf[r] = o,
                        o \in modified \/ (o \in wrote' /\ o \notin overran)
                 PROVE  r \in modified
      BY <2>3
    <3>1. o = ChildOf[c] => o \in overran
      BY <2>1
    <3>2. QED
      BY <2>2, <3>1
  <2>6. QED
    BY <2>3, <2>4, <2>5
<1>15. ASSUME NEW c \in Child, CloseChild(c) PROVE WorkInv'
  BY <1>15 DEF CloseChild
<1>16. ASSUME NEW r \in Run, NEW s \in {"succeeded", "failed"}, FinishRun(r, s) PROVE WorkInv'
  BY <1>16 DEF FinishRun
<1>17. ASSUME NEW r \in Run, LoseWorker(r) PROVE WorkInv'
  BY <1>17 DEF LoseWorker
<1>18. ASSUME NEW p \in Proc, BeginShutdown(p) PROVE WorkInv'
  BY <1>18 DEF BeginShutdown
<1>19. ASSUME NEW p \in Proc, DeadlinePasses(p) \/ ReleaseRow(p) PROVE WorkInv'
  <2>1. CASE DeadlinePasses(p)
    BY <2>1 DEF DeadlinePasses
  <2>2. CASE ReleaseRow(p)
    BY <2>2 DEF ReleaseRow
  <2>3. QED
    BY <1>19, <2>1, <2>2
<1>20. ASSUME NEW p \in Proc, ReleaseFile(p) PROVE WorkInv'
  BY <1>20 DEF ReleaseFile
<1>21. ASSUME NEW p \in Proc, Die(p) PROVE WorkInv'
  BY <1>21 DEF Die
<1>22. ASSUME NEW p \in Proc, Renew(p) PROVE WorkInv'
  BY <1>22 DEF Renew
<1>23. CASE Ages
  BY <1>23 DEF Ages
<1>24. CASE UNCHANGED vars
  BY <1>24 DEF vars
<1> HIDE DEF TypeOK, WorkInv
<1>25. QED
  BY <1>1, <1>2, <1>3, <1>4, <1>5, <1>6, <1>7, <1>8, <1>9, <1>10, <1>11, <1>12, <1>13,
     <1>14, <1>15, <1>16, <1>17, <1>18, <1>19, <1>20, <1>21, <1>22, <1>23, <1>24
     DEF Next, Sweep

\* When probes answer, whatever fails in the store and however late a worker
\* ends: a run that reads `interrupted` has been abandoned, an ended run that
\* nobody drives has no open step, call or approval, and a retry carries the
\* warning of the attempt it follows, each but for the workers the shutdown of
\* their own process waited for in vain.
THEOREM OverIsOver ==
    ASSUME MayFailProbe = FALSE
    PROVE  Spec => [](InterruptedIsAbandoned /\ ChildrenEnd /\ WarningCarried)
<1>1. Init => ClaimInv /\ WorkInv
  BY RecoveryAssumption
  DEF Init, ClaimInv, OffIsFresh, LockHeld, ReleasedIsGone, OwnerHasRow, VerdictSound,
      AbsentUnknown, PlanSound, InterruptSound, OwnerGone, Gone, NoPlan, Unseen,
      WorkInv, DrivenOpen, AbsentBare, PlanCovers, RetriedIsOver, ChildrenEnd,
      WarningCarried, OpenChildren, RunTerminal, NoPending
<1>2. TypeOK /\ ClaimInv /\ [Next]_vars => ClaimInv'
  BY ClaimInvStep
<1>3. TypeOK /\ ClaimInv /\ WorkInv /\ [Next]_vars => WorkInv'
  BY WorkInvStep
<1>4. WorkInv => InterruptedIsAbandoned /\ ChildrenEnd /\ WarningCarried
  BY DEF WorkInv, DrivenOpen, InterruptedIsAbandoned
<1>5. QED
  BY <1>1, <1>2, <1>3, <1>4, TypeCorrect, PTL DEF Spec

\* An ended run that nobody drives has no step, call or approval left open,
\* whoever ended it: its worker, a sweep, a shutdown, or a later process.
COROLLARY EndedRunsAreBare ==
    ASSUME MayFailProbe = FALSE
    PROVE  Spec => []ChildrenEnd
BY OverIsOver, PTL

\* A retry says whether the attempt it follows may have left the workspace
\* modified, however long ago the user asked for it.
COROLLARY RetriesAreWarned ==
    ASSUME MayFailProbe = FALSE
    PROVE  Spec => []WarningCarried
BY OverIsOver, PTL

\* Whatever fails and whoever overruns, no step rewrites an ending: not that of
\* a run, and not that of a step, call or approval.
THEOREM EndingsKept == Spec => EndingsFinal
<1> DEFINE Kept == /\ \A r \in Run : run[r] \in RunTerminal => run'[r] = run[r]
                  /\ \A c \in Child : child[c] \in {"closed", "interrupted"} => child'[c] = child[c]
<1>1. TypeOK /\ [Next]_vars => [Kept]_vars
  <2> SUFFICES ASSUME TypeOK, Next PROVE Kept
    OBVIOUS
  <2> USE RecoveryAssumption DEF TypeOK, RunTerminal, storeVars, fileVars, procVars, sweepVars
  <2>1. ASSUME NEW p \in Proc, ApplyInterrupt(p) PROVE Kept
    BY <2>1 DEF ApplyInterrupt
  <2>2. ASSUME NEW p \in Proc, NEW r \in Run, InsertRun(p, r), UNCHANGED child PROVE Kept
    BY <2>2 DEF InsertRun
  <2>3. ASSUME NEW r \in Run, NEW s \in {"succeeded", "failed"}, FinishRun(r, s) PROVE Kept
    BY <2>3 DEF FinishRun
  <2>4. ASSUME NEW c \in Child, AddChild(c) \/ CloseChild(c) PROVE Kept
    BY <2>4 DEF AddChild, CloseChild
  <2>5. ASSUME UNCHANGED <<run, child>> PROVE Kept
    BY <2>5
  <2>6. ASSUME NEW p \in Proc,
               \/ OpenLease(p) \/ BeginSweep(p) \/ GiveUpSweep(p) \/ InterruptFails(p)
               \/ EndSweep(p) \/ BeginShutdown(p) \/ DeadlinePasses(p) \/ ReleaseRow(p)
               \/ ReleaseFile(p)
               \/ Die(p) \/ Renew(p) \/ \E o \in Proc : Examine(p, o)
               \/ \E r \in Run : \/ SkipRun(p, r) \/ ExamineFails(p, r)
                                 \/ PlanInterrupt(p, r) \/ RetryCheck(p, r)
        PROVE  UNCHANGED <<run, child>>
    BY <2>6 DEF OpenLease, BeginSweep, GiveUpSweep, InterruptFails, EndSweep, BeginShutdown,
       DeadlinePasses, ReleaseRow, ReleaseFile, Die, Renew, Examine, SkipRun, ExamineFails,
       PlanInterrupt, RetryCheck
  <2>7. ASSUME \/ Ages
               \/ \E c \in Child : StartWrite(c)
               \/ \E r \in Run : LoseWorker(r)
        PROVE  UNCHANGED <<run, child>>
    BY <2>7 DEF Ages, StartWrite, LoseWorker
  <2>8. ASSUME NEW p \in Proc, NEW r \in Run, StartRun(p, r) \/ RetryRun(p, r)
        PROVE  InsertRun(p, r) /\ UNCHANGED child
    BY <2>8 DEF StartRun, RetryRun
  <2> HIDE DEF TypeOK, Kept
  <2>9. QED
    BY <2>1, <2>2, <2>3, <2>4, <2>5, <2>6, <2>7, <2>8 DEF Next, Sweep
<1>2. QED
  BY <1>1, TypeCorrect, PTL DEF Spec, EndingsFinal

-----------------------------------------------------------------------------
\* The index cache: the inductive invariant

Places == {"out", "lock", "probe", "grace", "adopt", "reopen", "settle", "quarantine",
           "create", "commit", "open"}
BuildType == [schema : Nat, comp : Nat]
InodeType == [st : {"blank", "bad", "built"}, schema : Nat, comp : Nat, gen : Nat,
              mine : BOOLEAN]
CacheType == [pc : Places, op : {"open", "refresh"}, conn : Nat, ready : BOOLEAN, gen : Nat,
              comp : Nat, found : Nat, foundComp : Nat, floor : Nat, seen : Nat, lock : Nat,
              held : BOOLEAN]

CacheTypes ==
    /\ build \in [FrontEnd -> BuildType]
    /\ inodes \in Seq(InodeType)
    /\ named \in 0 .. Len(inodes)
    /\ lockfile \in Nat /\ locks \in Nat
    /\ caches \in [FrontEnd -> CacheType]
    /\ sweep \in [pc : {"idle", "claim", "remove", "release", "unlink"}, lock : Nat]
    /\ clock \in Nat /\ generations \in SUBSET (Nat \ {0})
    /\ repeated \in BOOLEAN /\ forgotten \in BOOLEAN
    /\ calm \in [FrontEnd -> BOOLEAN]

\* What the path names.
IsBuilt(i) == inodes[i].st = "built"
NamesBuilt == named # 0 /\ IsBuilt(named)
Made(p, g, c) == [Built(build[p], g) EXCEPT !.comp = c]
Holds(p, g, c) == named # 0 /\ inodes[named] = Made(p, g, c)

\* Where a process is, and what it has in its hands there.
Seated(r) ==
    /\ r.conn \in 0 .. Len(inodes) /\ r.seen \in 0 .. Len(inodes)
    /\ r.ready => r.conn # 0
    /\ r.pc \in {"settle", "commit"} => r.conn # 0
    /\ r.pc = "grace" => r.seen # 0
    /\ r.op = "open" /\ r.pc \notin {"open", "commit"} => r.conn = 0
    /\ r.op = "open" /\ r.pc # "open" => r.gen = 0
    /\ r.pc \in {"reopen", "settle"} => r.op = "refresh"
    /\ r.pc = "commit" => r.found # 0
    /\ r.pc = "reopen" => r.conn = 0
    /\ r.pc = "adopt" => r.op = "open"
    /\ r.op = "open" /\ r.pc \in {"lock", "probe", "grace", "adopt"} => r.floor = 0

\* With several processes the clock moves on at every reading.
Dated(r) ==
    /\ r.gen <= clock /\ r.found <= clock /\ r.floor <= clock
    /\ r.gen \in generations \cup {0}
    /\ r.pc \in {"adopt", "reopen", "settle"} => r.found \in generations
    /\ r.pc = "commit" => r.found \notin generations

\* If the path names a file of generation g, handle c is on that file.
OnlyAt(c, g) == c # 0 /\ NamesBuilt /\ inodes[named].gen = g => c = named
OneFile(r) == OnlyAt(r.conn, r.gen) /\ (r.pc = "settle" => OnlyAt(r.conn, r.found))

\* A process that works alone.
Has(r) == r.pc = "open" \/ r.op = "refresh"

Solitary(p, r) ==
    /\ named # 0 /\ Conflict(p, inodes[named]) => r.pc \in {"out", "lock", "probe"} /\ r.op = "open"
    /\ r.conn # 0 /\ named # 0 => r.conn = named
    /\ r.pc = "grace" => inodes[r.seen].st # "built"
    /\ r.pc = "adopt" /\ NamesBuilt => inodes[named].gen = r.found
    /\ r.pc = "create" => named = 0
    /\ r.pc = "commit" => inodes[r.conn].st = "blank"
    /\ r.pc \in {"quarantine", "create"} => r.floor >= r.gen
    /\ r.pc = "commit" => r.floor >= r.gen /\ r.found > r.floor
    /\ r.pc = "commit" /\ ~forgotten => r.found \notin generations
    /\ r.pc \in {"reopen", "settle"} => r.found = r.gen
    /\ Has(r) => /\ r.floor <= r.gen
                 /\ NamesBuilt => inodes[named].gen = r.gen
                 /\ r.conn # 0 /\ IsBuilt(r.conn) => inodes[r.conn].gen = r.gen

\* What a process may rely on while nobody else touches the file.
Calm(p, r) ==
    /\ r.pc = "grace" => r.seen = named /\ inodes[named].st = "blank"
    /\ r.pc \in {"adopt", "reopen", "settle"} => Holds(p, r.found, r.foundComp)
    /\ r.pc = "settle" => r.conn = named
    /\ r.pc = "create" => named = 0
    /\ r.pc = "commit" => r.conn = named /\ inodes[named].st = "blank"
    /\ r.pc = "open" => /\ r.ready /\ r.conn = named
                        /\ Holds(p, r.gen, r.comp)
                        /\ r.op = "refresh" => r.comp = build[p].comp

Hand(p, r) ==
    /\ Seated(r)
    /\ alone = "none" => Dated(r) /\ OneFile(r)
    /\ alone = p => Solitary(p, r)
    /\ alone \notin {"none", p} => r = Closed
    /\ calm[p] => Calm(p, r)

\* The generations of several processes.
Stamped ==
    /\ repeated = FALSE
    /\ \A g \in generations : g <= clock
    /\ \A i \in DOMAIN inodes : IsBuilt(i) => inodes[i].gen \in generations
    /\ \A i, j \in DOMAIN inodes :
          IsBuilt(i) /\ IsBuilt(j) /\ inodes[i].gen = inodes[j].gen => i = j

\* No two of them are about to store the same one.
Apart ==
    \A p, q \in FrontEnd :
       caches[p].pc = "commit" /\ caches[q].pc = "commit" /\ caches[p].found = caches[q].found
         => p = q

\* The memory of a single one.
Recalled == (repeated => forgotten) /\ (~forgotten => Remembered)

Sweeping ==
    /\ sweep.pc # "idle" => sweep.lock = lockfile /\ lockfile # 0
    /\ sweep.pc = "remove" => Claimable

CacheInv ==
    /\ CacheTypes
    /\ \A p \in FrontEnd : Hand(p, caches[p])
    /\ IF alone = "none" THEN Stamped /\ Apart ELSE Recalled
    /\ Sweeping

-----------------------------------------------------------------------------
\* What a step leaves alone

\* CacheNext's own part of every step.
Remembering == forgotten' = (forgotten \/ ~Remembered')

\* Files stay what they are but for the i-th, and so does what the path names.
FilesStay(i) ==
    /\ Len(inodes) <= Len(inodes')
    /\ \A j \in DOMAIN inodes' :
          j # i /\ inodes'[j].st = "built" =>
             j \in DOMAIN inodes /\ IsBuilt(j) /\ inodes'[j].gen = inodes[j].gen
    /\ named' \notin {0, i} /\ inodes'[named'].st = "built" => named' = named

\* No generation is stored; and generation g is, in the i-th file.
Quietly ==
    /\ FilesStay(0) /\ clock <= clock'
    /\ generations' = generations /\ repeated' = repeated
Stored(i, g) ==
    /\ FilesStay(i) /\ clock <= clock' /\ g <= clock' /\ Stores(g)
    /\ i \in DOMAIN inodes' /\ inodes'[i].gen = g
NewTo(p, g) ==
    /\ g # 0 /\ g \notin generations
    /\ \A q \in FrontEnd \ {p} : caches[q].pc = "commit" => caches[q].found # g

Undisturbed(q) == calm'[q] => calm[q] /\ inodes' = inodes /\ named' = named

LEMMA QuietStamps ==
    ASSUME CacheTypes, CacheTypes', Stamped, Quietly
    PROVE  Stamped'
<1>1. /\ repeated' = FALSE
      /\ \A g \in generations' : g <= clock'
  BY DEF Stamped, Quietly, CacheTypes
<1>2. \A j \in DOMAIN inodes' : inodes'[j].st = "built" =>
         j \in DOMAIN inodes /\ IsBuilt(j) /\ inodes'[j].gen = inodes[j].gen
  BY DEF Quietly, FilesStay, CacheTypes
<1>3. \A j \in DOMAIN inodes' : inodes'[j].st = "built" => inodes'[j].gen \in generations'
  BY <1>2 DEF Stamped, Quietly
<1>4. \A i, j \in DOMAIN inodes' :
         inodes'[i].st = "built" /\ inodes'[j].st = "built" /\ inodes'[i].gen = inodes'[j].gen
           => i = j
  BY <1>2 DEF Stamped
<1> QED BY <1>1, <1>3, <1>4 DEF Stamped, IsBuilt

LEMMA StoredStamps ==
    ASSUME CacheTypes, CacheTypes', Stamped, NEW i, NEW g, Stored(i, g), g \notin generations
    PROVE  Stamped'
<1>1. /\ repeated' = FALSE /\ generations' = generations \cup {g}
      /\ \A h \in generations' : h <= clock'
  BY DEF Stamped, Stored, Stores, CacheTypes
<1>2. \A j \in DOMAIN inodes' : j # i /\ inodes'[j].st = "built" =>
         j \in DOMAIN inodes /\ IsBuilt(j) /\ inodes'[j].gen = inodes[j].gen
  BY DEF Stored, FilesStay
<1>3. \A j \in DOMAIN inodes' : j # i /\ inodes'[j].st = "built" => inodes'[j].gen \in generations
  BY <1>2 DEF Stamped
<1>4. inodes'[i].gen = g
  BY DEF Stored
<1>5. \A j \in DOMAIN inodes' : inodes'[j].st = "built" => inodes'[j].gen \in generations'
  BY <1>1, <1>3, <1>4
<1>6. \A a, b \in DOMAIN inodes' :
         inodes'[a].st = "built" /\ inodes'[b].st = "built" /\ inodes'[a].gen = inodes'[b].gen
           => a = b
  <2>1. TAKE a, b \in DOMAIN inodes'
  <2>2. CASE a # i /\ b # i
    BY <1>2, <2>2 DEF Stamped
  <2>3. CASE a = i \/ b = i
    BY <1>3, <1>4, <2>3
  <2> QED BY <2>2, <2>3
<1> QED BY <1>1, <1>5, <1>6 DEF Stamped, IsBuilt

LEMMA QuietDates ==
    ASSUME CacheTypes, CacheTypes', NEW r \in CacheType, Dated(r), OneFile(r), Quietly
    PROVE  (Dated(r) /\ OneFile(r))'
<1>1. clock <= clock' /\ generations' = generations /\ clock \in Nat /\ clock' \in Nat
  BY DEF Quietly, CacheTypes
<1>2. Dated(r)'
  BY <1>1 DEF Dated, CacheType
<1>3. named' # 0 /\ inodes'[named'].st = "built" =>
         named' = named /\ IsBuilt(named) /\ inodes'[named'].gen = inodes[named].gen
  BY DEF Quietly, FilesStay, CacheTypes
<1>4. OneFile(r)'
  BY <1>3 DEF OneFile, OnlyAt, NamesBuilt, IsBuilt
<1> QED BY <1>2, <1>4

LEMMA StoredDates ==
    ASSUME CacheTypes, CacheTypes', NEW r \in CacheType, Dated(r), OneFile(r),
           NEW i, NEW g, Stored(i, g), g # 0, g \notin generations,
           r.pc = "commit" => r.found # g
    PROVE  (Dated(r) /\ OneFile(r))'
<1>1. clock <= clock' /\ generations' = generations \cup {g} /\ clock \in Nat /\ clock' \in Nat
  BY DEF Stored, Stores, CacheTypes
<1>2. Dated(r)'
  BY <1>1 DEF Dated, CacheType
<1>3. named' # 0 /\ inodes'[named'].st = "built" =>
         \/ named' = named /\ IsBuilt(named) /\ inodes'[named'].gen = inodes[named].gen
         \/ inodes'[named'].gen = g
  BY DEF Stored, FilesStay, CacheTypes
<1>4. r.gen # g /\ (r.pc = "settle" => r.found # g)
  BY DEF Dated
<1>5. OneFile(r)'
  BY <1>3, <1>4 DEF OneFile, OnlyAt, NamesBuilt, IsBuilt
<1> QED BY <1>2, <1>5

-----------------------------------------------------------------------------
\* A step of one process, and what the others make of it

Acts(p, n) ==
    /\ caches' = [caches EXCEPT ![p] = n]
    /\ build' = build /\ alone' = alone /\ alone \in {"none", p}
    /\ \A q \in FrontEnd \ {p} : Undisturbed(q)
    /\ Len(inodes) <= Len(inodes')

\* What p did to the generations, when it is not the only one.
Mints(p, n) ==
    /\ Quietly \/ \E i, g : Stored(i, g) /\ NewTo(p, g)
    /\ n.pc = "commit" =>
          \A q \in FrontEnd \ {p} : caches[q].pc = "commit" => caches[q].found # n.found

LEMMA OthersSeated ==
    ASSUME CacheTypes, CacheTypes', NEW r \in CacheType, Seated(r), Len(inodes) <= Len(inodes')
    PROVE  Seated(r)'
<1>1. Len(inodes) \in Nat /\ Len(inodes') \in Nat
  BY DEF CacheTypes
<1> QED BY <1>1 DEF Seated, CacheType

LEMMA OthersKeep ==
    ASSUME CacheInv, CacheTypes', NEW p \in FrontEnd, NEW n, Acts(p, n),
           alone = "none" => Mints(p, n), NEW q \in FrontEnd, q # p
    PROVE  Hand(q, caches[q])'
<1>1. PICK r : r = caches[q]
  OBVIOUS
<1>2. caches'[q] = r /\ r \in CacheType /\ Hand(q, r) /\ CacheTypes
  BY <1>1 DEF CacheInv, CacheTypes, Acts
<1>3. alone' = alone /\ alone \in {"none", p} /\ build' = build /\ "none" \notin FrontEnd
  BY CacheConstants DEF Acts
<1>4. Seated(r)'
  BY <1>2, OthersSeated DEF Acts, Hand
<1>5. alone = "none" => (Dated(r) /\ OneFile(r))'
  <2>1. SUFFICES ASSUME alone = "none" PROVE (Dated(r) /\ OneFile(r))'
    OBVIOUS
  <2>2. Dated(r) /\ OneFile(r) /\ Mints(p, n)
    BY <1>2, <2>1 DEF Hand
  <2>3. CASE Quietly
    BY <1>2, <2>2, <2>3, QuietDates
  <2>4. ASSUME NEW i, NEW g, Stored(i, g), NewTo(p, g) PROVE (Dated(r) /\ OneFile(r))'
    <3>1. g # 0 /\ g \notin generations /\ (r.pc = "commit" => r.found # g)
      BY <1>1, <2>4 DEF NewTo
    <3> QED BY <1>2, <2>2, <2>4, <3>1, StoredDates
  <2> QED BY <2>2, <2>3, <2>4 DEF Mints
<1>6. alone # q
  BY <1>3
<1>7. alone \notin {"none", q} => r = Closed
  BY <1>2 DEF Hand
<1>8. calm'[q] => calm[q] /\ inodes' = inodes /\ named' = named
  BY DEF Acts, Undisturbed
<1>9. calm'[q] => Calm(q, r)'
  <2>1. calm[q] => Calm(q, r)
    BY <1>2 DEF Hand
  <2>2. inodes' = inodes /\ named' = named /\ Calm(q, r) => Calm(q, r)'
    BY <1>3 DEF Calm, Holds, Made
  <2> QED BY <1>8, <2>1, <2>2
<1>10. Hand(q, r)'
  BY <1>3, <1>4, <1>5, <1>6, <1>7, <1>9 DEF Hand
<1> QED BY <1>2, <1>10 DEF Hand, Seated, Dated, OneFile, Solitary, Calm, Conflict

LEMMA ActorKeeps ==
    ASSUME CacheInv, CacheTypes', NEW p \in FrontEnd, NEW n, Acts(p, n),
           Hand(p, n)', alone = "none" => Mints(p, n), Remembering,
           alone # "none" /\ ~forgotten' => repeated' = repeated, Sweeping'
    PROVE  CacheInv'
<1>1. caches' = [caches EXCEPT ![p] = n] /\ caches \in [FrontEnd -> CacheType] /\ alone' = alone
  BY DEF Acts, CacheInv, CacheTypes
<1>2. caches'[p] = n /\ \A q \in FrontEnd \ {p} : caches'[q] = caches[q]
  BY <1>1
<1>3. \A q \in FrontEnd : Hand(q, caches[q])'
  <2>1. Hand(p, caches[p])'
    BY <1>2 DEF Hand, Seated, Dated, OneFile, Solitary, Calm, Conflict
  <2> QED BY <2>1, OthersKeep
<1>4. CASE alone = "none"
  <2>1. CacheTypes /\ Stamped /\ Apart /\ Mints(p, n)
    BY <1>4 DEF CacheInv
  <2>2. Stamped'
    <3>1. CASE Quietly
      BY <2>1, <3>1, QuietStamps
    <3>2. ASSUME NEW i, NEW g, Stored(i, g), NewTo(p, g) PROVE Stamped'
      BY <2>1, <3>2, StoredStamps DEF NewTo
    <3> QED BY <2>1, <3>1, <3>2 DEF Mints
  <2>3. Apart'
    BY <1>2, <2>1 DEF Apart, Mints
  <2> QED BY <1>1, <1>3, <1>4, <2>2, <2>3 DEF CacheInv
<1>5. CASE alone # "none"
  <2>1. (repeated => forgotten) /\ forgotten \in BOOLEAN /\ repeated \in BOOLEAN
    BY <1>5 DEF CacheInv, Recalled, CacheTypes
  <2>2. forgotten' = (forgotten \/ ~Remembered') /\ repeated' \in BOOLEAN
    BY DEF Remembering, CacheTypes
  <2>3. ~forgotten' => Remembered' /\ ~forgotten
    BY <2>2, Zenon
  <2>4. ~forgotten' => repeated' = repeated
    BY <1>5
  <2>5. ~forgotten' => ~repeated'
    BY ONLY <2>1, <2>3, <2>4
  <2>6. Recalled'
    BY ONLY <2>3, <2>5, Zenon DEF Recalled
  <2> QED BY <1>1, <1>3, <1>5, <2>6 DEF CacheInv
<1> QED BY <1>4, <1>5

\* The sweep goes by the locks that are held.
LEMMA SweepStands ==
    ASSUME CacheInv, NEW p \in FrontEnd, NEW n, caches' = [caches EXCEPT ![p] = n],
           n.held => caches[p].held /\ n.lock = caches[p].lock,
           sweep' = sweep, lockfile' = lockfile
    PROVE  Sweeping'
<1>1. \A q \in FrontEnd : caches'[q].held => caches[q].held /\ caches'[q].lock = caches[q].lock
  BY DEF CacheInv, CacheTypes
<1>2. Sweeping
  BY DEF CacheInv
<1> QED BY <1>1, <1>2 DEF Sweeping, Claimable

-----------------------------------------------------------------------------
\* Steps that only move their process on

Turn(p, n) ==
    /\ n \in CacheType /\ n.pc # "commit"
    /\ caches' = [caches EXCEPT ![p] = n] /\ alone \in {"none", p}
    /\ build' = build /\ alone' = alone /\ inodes' = inodes /\ named' = named
    /\ clock' = clock /\ generations' = generations /\ repeated' = repeated
    /\ sweep' = sweep /\ lockfile' \in Nat /\ locks' \in Nat
    /\ calm' \in [FrontEnd -> BOOLEAN] /\ \A q \in FrontEnd \ {p} : calm'[q] => calm[q]

\* All that Hand asks of it, but for a calm that is over.
Poised(p, n) ==
    /\ Seated(n)
    /\ alone = "none" => Dated(n) /\ OneFile(n)
    /\ alone = p => Solitary(p, n)

LEMMA TurnKeeps ==
    ASSUME CacheInv, NEW p \in FrontEnd, NEW n, Turn(p, n), Poised(p, n),
           calm'[p] => Calm(p, n), Remembering, Sweeping'
    PROVE  CacheInv'
<1>1. CacheTypes /\ CacheConstants
  BY CacheConstants DEF CacheInv
<1>2. CacheTypes'
  <2>1. forgotten' \in BOOLEAN
    BY DEF Remembering
  <2> QED BY <1>1, <2>1 DEF CacheTypes, Turn
<1>3. Acts(p, n)
  BY <1>1 DEF Turn, Acts, Undisturbed, CacheTypes
<1>4. Mints(p, n)
  BY <1>1 DEF Mints, Quietly, FilesStay, Turn, CacheTypes, IsBuilt
<1>5. Seated(n)' /\ (alone = "none" => Dated(n)' /\ OneFile(n)')
  BY DEF Poised, Turn, Seated, Dated, OneFile, OnlyAt, NamesBuilt, IsBuilt
<1>6. alone = p => Solitary(p, n)'
  BY DEF Poised, Turn, Solitary, Conflict, NamesBuilt, IsBuilt
<1>7. calm'[p] => Calm(p, n)'
  <2>1. Calm(p, n) => Calm(p, n)'
    BY DEF Turn, Calm, Holds, Made
  <2> QED BY <2>1
<1>8. Hand(p, n)'
  BY <1>1, <1>5, <1>6, <1>7 DEF Hand, Turn
<1> QED BY <1>2, <1>3, <1>4, <1>8, ActorKeeps DEF Turn

\* What is known of p before a step of its own.
LEMMA InHand ==
    ASSUME CacheInv, NEW p \in FrontEnd, alone \in {"none", p}
    PROVE  /\ CacheTypes /\ caches[p] \in CacheType /\ p # "none"
           /\ alone # "none" => alone = p
           /\ Poised(p, caches[p])
           /\ calm[p] => Calm(p, caches[p])
<1>1. CacheTypes /\ Hand(p, caches[p]) /\ p # "none"
  BY CacheConstants DEF CacheInv
<1> QED BY <1>1 DEF CacheTypes, Hand, Poised

LEMMA ClosedIs ==
    ASSUME NEW p \in FrontEnd, CacheTypes
    PROVE  Closed \in CacheType /\ Poised(p, Closed) /\ Calm(p, Closed) /\ Closed.held = FALSE
<1>1. Closed \in CacheType /\ Closed.pc = "out" /\ Closed.conn = 0 /\ Closed.seen = 0
      /\ Closed.op = "open" /\ Closed.gen = 0 /\ Closed.found = 0 /\ Closed.floor = 0
      /\ Closed.ready = FALSE /\ Closed.held = FALSE
  BY DEF Closed, CacheType, Places
<1>2. Seated(Closed)
  BY <1>1 DEF Seated, CacheTypes
<1>3. Dated(Closed) /\ OneFile(Closed)
  BY <1>1 DEF Dated, OneFile, OnlyAt, CacheTypes
<1>4. Solitary(p, Closed)
  BY <1>1 DEF Solitary, Has
<1>5. Calm(p, Closed)
  BY <1>1 DEF Calm
<1> QED BY <1>1, <1>2, <1>3, <1>4, <1>5 DEF Poised

\* A call that begins, or a cache that is let go.
LEMMA OpensKeep ==
    ASSUME CacheInv, NEW p \in FrontEnd, open_or_create(p), Remembering
    PROVE  CacheInv'
<1>1. CacheTypes /\ alone \in {"none", p}
  BY DEF CacheInv, open_or_create, WorksAt
<1>2. PICK n : n = [Closed EXCEPT !.pc = "lock", !.lock = lockfile']
  OBVIOUS
<1>3. lockfile' \in Nat /\ locks' \in Nat /\ (lockfile # 0 => lockfile' = lockfile)
  BY <1>1 DEF open_or_create, CacheTypes
<1>4. n \in CacheType /\ n.pc = "lock" /\ n.conn = 0 /\ n.seen = 0 /\ n.op = "open"
      /\ n.gen = 0 /\ n.found = 0 /\ n.floor = 0 /\ n.ready = FALSE /\ n.held = FALSE
  BY <1>2, <1>3 DEF Closed, CacheType, Places
<1>5. Turn(p, n)
  BY <1>1, <1>2, <1>3, <1>4 DEF open_or_create, Turn, Goes, shelf, mint, CacheTypes
<1>6. Poised(p, n)
  <2>1. Seated(n) /\ Dated(n) /\ OneFile(n)
    BY <1>1, <1>4 DEF Seated, Dated, OneFile, OnlyAt, CacheTypes
  <2>2. Solitary(p, n)
    BY <1>4 DEF Solitary, Has
  <2> QED BY <2>1, <2>2 DEF Poised
<1>7. Calm(p, n)
  BY <1>4 DEF Calm
<1>8. Sweeping'
  <2>1. \A q \in FrontEnd : caches'[q].held => caches[q].held /\ caches'[q].lock = caches[q].lock
    BY <1>1, <1>4, <1>5 DEF Turn, CacheTypes
  <2>2. Sweeping /\ sweep' = sweep
    BY DEF CacheInv, open_or_create
  <2> QED BY <1>3, <2>1, <2>2 DEF Sweeping, Claimable
<1> QED BY <1>5, <1>6, <1>7, <1>8, TurnKeeps

LEMMA SharesKeep ==
    ASSUME CacheInv, NEW p \in FrontEnd, shared(p), Remembering
    PROVE  CacheInv'
<1>1. CacheTypes /\ alone \in {"none", p}
  BY DEF CacheInv, shared, WorksAt
<1>2. PICK r : r = caches[p] /\ r \in CacheType /\ Poised(p, r) /\ r.pc = "lock"
  <2>1. caches[p] \in CacheType /\ Poised(p, caches[p])
    BY <1>1, InHand
  <2>2. caches[p].pc = "lock"
    BY DEF shared, WorksAt
  <2> QED BY <2>1, <2>2
<1>3. PICK m : m = [r EXCEPT !.pc = "probe"]
  OBVIOUS
<1>4. m \in CacheType /\ m.pc = "probe" /\ m.conn = r.conn /\ m.seen = r.seen /\ m.op = r.op
      /\ m.gen = r.gen /\ m.found = r.found /\ m.floor = r.floor /\ m.ready = r.ready
      /\ m.lock = r.lock
  BY <1>2, <1>3 DEF CacheType, Places
<1>5. PICK n : n = [m EXCEPT !.held = Shareable(p)]
  OBVIOUS
<1>6. Shareable(p) \in BOOLEAN
  BY DEF Shareable
<1>7. n \in CacheType /\ n.pc = "probe" /\ n.conn = r.conn /\ n.seen = r.seen /\ n.op = r.op
      /\ n.gen = r.gen /\ n.found = r.found /\ n.floor = r.floor /\ n.ready = r.ready
      /\ n.lock = r.lock /\ n.held = Shareable(p)
  BY ONLY <1>4, <1>5, <1>6 DEF CacheType
<1>8. n = [r EXCEPT !.pc = "probe", !.held = Shareable(p)]
  BY <1>3, <1>5
<1>9. Turn(p, n)
  BY <1>1, <1>2, <1>7, <1>8 DEF shared, Turn, Goes, shelf, mint, guardVars, CacheTypes
<1>10. Poised(p, n)
  <2>1. Seated(n)
    BY <1>2, <1>7 DEF Poised, Seated
  <2>2. alone = "none" => Dated(n) /\ OneFile(n)
    BY <1>2, <1>7 DEF Poised, Dated, OneFile
  <2>3. alone = p => Solitary(p, n)
    BY <1>2, <1>7 DEF Poised, Solitary, Has
  <2> QED BY <2>1, <2>2, <2>3 DEF Poised
<1>11. Calm(p, n)
  BY <1>7 DEF Calm
<1>12. Sweeping'
  <2>1. sweep.pc = "remove" => \A q \in FrontEnd : ~(caches[q].held /\ caches[q].lock = sweep.lock)
    BY DEF CacheInv, Sweeping, Claimable
  <2>2. n.held => ~(sweep.pc \in {"remove", "release"} /\ sweep.lock = r.lock)
    BY <1>2, <1>7 DEF Shareable
  <2>3. sweep' = sweep /\ lockfile' = lockfile /\ caches' = [caches EXCEPT ![p] = n]
    BY <1>9 DEF Turn, shared, guardVars
  <2>4. sweep.pc = "remove" => \A q \in FrontEnd : ~(caches'[q].held /\ caches'[q].lock = sweep.lock)
    BY <1>1, <1>7, <2>1, <2>2, <2>3 DEF CacheTypes
  <2>5. sweep.pc # "idle" => sweep.lock = lockfile /\ lockfile # 0
    BY DEF CacheInv, Sweeping
  <2> QED BY <2>3, <2>4, <2>5 DEF Sweeping, Claimable
<1> QED BY <1>9, <1>10, <1>11, <1>12, TurnKeeps

LEMMA DropsKeep ==
    ASSUME CacheInv, NEW p \in FrontEnd, drop_cache(p), Remembering
    PROVE  CacheInv'
<1>1. CacheTypes /\ alone \in {"none", p}
  BY DEF CacheInv, drop_cache
<1>2. Closed \in CacheType /\ Poised(p, Closed) /\ Calm(p, Closed) /\ Closed.held = FALSE
      /\ Closed.pc = "out"
  BY <1>1, ClosedIs DEF Closed
<1>3. Turn(p, Closed)
  BY <1>1, <1>2 DEF drop_cache, Turn, Goes, shelf, mint, guardVars, CacheTypes
<1>4. Sweeping'
  BY <1>2, <1>3, SweepStands DEF Turn, drop_cache, guardVars
<1> QED BY <1>2, <1>3, <1>4, TurnKeeps

LEMMA RefreshesKeep ==
    ASSUME CacheInv, NEW p \in FrontEnd, refresh(p), Remembering
    PROVE  CacheInv'
<1>1. CacheTypes /\ alone \in {"none", p}
  BY DEF CacheInv, refresh, WorksAt
<1>2. PICK r : r = caches[p] /\ r \in CacheType /\ Poised(p, r) /\ r.pc = "open"
  <2>1. caches[p] \in CacheType /\ Poised(p, caches[p])
    BY <1>1, InHand
  <2>2. caches[p].pc = "open"
    BY DEF refresh, WorksAt
  <2> QED BY <2>1, <2>2
<1>3. PICK m : m = [r EXCEPT !.pc = "probe"]
  OBVIOUS
<1>4. m \in CacheType /\ m.pc = "probe" /\ m.conn = r.conn /\ m.seen = r.seen
      /\ m.gen = r.gen /\ m.found = r.found /\ m.floor = r.floor /\ m.ready = r.ready
      /\ m.lock = r.lock /\ m.held = r.held
  BY <1>2, <1>3 DEF CacheType, Places
<1>5. PICK n : n = [m EXCEPT !.op = "refresh"]
  OBVIOUS
<1>6. n \in CacheType /\ n.pc = "probe" /\ n.conn = r.conn /\ n.seen = r.seen /\ n.op = "refresh"
      /\ n.gen = r.gen /\ n.found = r.found /\ n.floor = r.floor /\ n.ready = r.ready
      /\ n.lock = r.lock /\ n.held = r.held
  BY ONLY <1>4, <1>5 DEF CacheType
<1>7. n = [r EXCEPT !.pc = "probe", !.op = "refresh"]
  BY <1>3, <1>5
<1>8. Turn(p, n)
  BY <1>1, <1>2, <1>6, <1>7 DEF refresh, Turn, Goes, shelf, mint, guardVars, CacheTypes
<1>9. Poised(p, n)
  <2>1. Seated(n)
    BY <1>2, <1>6 DEF Poised, Seated
  <2>2. alone = "none" => Dated(n) /\ OneFile(n)
    BY <1>2, <1>6 DEF Poised, Dated, OneFile
  <2>3. alone = p => Solitary(p, n)
    BY <1>2, <1>6 DEF Poised, Solitary, Has
  <2> QED BY <2>1, <2>2, <2>3 DEF Poised
<1>10. Calm(p, n)
  BY <1>6 DEF Calm
<1>11. Sweeping'
  BY <1>2, <1>6, <1>8, SweepStands DEF Turn, refresh, guardVars
<1> QED BY <1>8, <1>9, <1>10, <1>11, TurnKeeps

-----------------------------------------------------------------------------
\* Reading the file, and what follows from it

\* A step that looks and decides.
Looks(p) ==
    /\ alone \in {"none", p}
    /\ build' = build /\ alone' = alone /\ inodes' = inodes /\ named' = named
    /\ clock' = clock /\ generations' = generations /\ repeated' = repeated
    /\ sweep' = sweep /\ lockfile' = lockfile /\ locks' = locks
    /\ calm' \in [FrontEnd -> BOOLEAN] /\ \A q \in FrontEnd : calm'[q] => calm[q]

LEMMA LooksKeep ==
    ASSUME CacheInv, NEW p \in FrontEnd, Looks(p), NEW n \in CacheType, n.pc # "commit",
           Goes(p, n), n.held => caches[p].held /\ n.lock = caches[p].lock,
           Poised(p, n), calm'[p] => Calm(p, n), Remembering
    PROVE  CacheInv'
<1>1. CacheTypes
  BY DEF CacheInv
<1>2. Turn(p, n)
  BY <1>1 DEF Looks, Turn, Goes, CacheTypes
<1>3. Sweeping'
  BY SweepStands DEF Looks, Goes
<1> QED BY <1>2, <1>3, TurnKeeps

\* The call fails.
LEMMA FailsKeep ==
    ASSUME CacheInv, NEW p \in FrontEnd, Looks(p), NEW r \in CacheType, Poised(p, r),
           NEW n, Goes(p, n), n = IF r.op = "open" THEN Closed ELSE [r EXCEPT !.pc = "open"],
           r.held => caches[p].held /\ r.lock = caches[p].lock,
           alone = p /\ named # 0 => ~Conflict(p, inodes[named]),
           r.op = "refresh" => r.floor <= r.gen \/ alone = "none",
           ~calm'[p], Remembering
    PROVE  CacheInv'
<1>1. CacheTypes
  BY DEF CacheInv
<1>2. CASE r.op = "open"
  BY <1>1, <1>2, ClosedIs, LooksKeep DEF Closed
<1>3. CASE r.op = "refresh"
  <2>1. n = [r EXCEPT !.pc = "open"]
    BY <1>3
  <2>2. n \in CacheType /\ n.pc = "open" /\ n.conn = r.conn /\ n.seen = r.seen /\ n.op = r.op
        /\ n.gen = r.gen /\ n.found = r.found /\ n.floor = r.floor /\ n.ready = r.ready
        /\ n.lock = r.lock /\ n.held = r.held
    BY <2>1 DEF CacheType, Places
  <2>3. Seated(n)
    BY <1>3, <2>2 DEF Poised, Seated
  <2>4. alone = "none" => Dated(n) /\ OneFile(n)
    BY <2>2 DEF Poised, Dated, OneFile
  <2>5. alone = p => Solitary(p, n)
    <3>1. SUFFICES ASSUME alone = p PROVE Solitary(p, n)
      OBVIOUS
    <3>2. alone # "none" /\ r.floor <= r.gen
      BY <1>3, <3>1, CacheConstants
    <3>3. Solitary(p, r)
      BY <3>1 DEF Poised
    <3> QED BY <1>3, <2>2, <3>1, <3>2, <3>3 DEF Solitary, Has
  <2>6. Poised(p, n)
    BY <2>3, <2>4, <2>5 DEF Poised
  <2> QED BY <2>2, <2>6, LooksKeep
<1> QED BY <1>2, <1>3 DEF CacheType

\* A replacement is floored above what was there.
LEMMA ReplacesKeep ==
    ASSUME CacheInv, NEW p \in FrontEnd, Looks(p), NEW prev \in Nat, Replaces(p, prev),
           caches[p].pc \in {"probe", "grace"},
           alone = "none" => prev <= clock,
           alone = p /\ named # 0 => ~Conflict(p, inodes[named]),
           alone = p /\ caches[p].op = "refresh" => prev <= caches[p].gen,
           Remembering
    PROVE  CacheInv'
<1>1. CacheTypes /\ alone \in {"none", p}
  BY DEF CacheInv, Looks
<1>2. PICK r : r = caches[p]
  OBVIOUS
<1>3. r \in CacheType /\ Poised(p, r) /\ r.pc \in {"probe", "grace"}
  BY <1>1, <1>2, InHand
<1>4. PICK m : m = IF r.op = "open" THEN r ELSE mark_closed(r)
  OBVIOUS
<1>5. m \in CacheType /\ m.conn \in {0, r.conn} /\ m.seen = r.seen /\ m.op = r.op
      /\ m.gen = r.gen /\ m.found = r.found /\ (m.ready => r.ready /\ m.conn = r.conn)
      /\ m.lock = r.lock /\ m.held = r.held
  <2>1. CASE r.op = "open"
    BY <1>3, <1>4, <2>1
  <2>2. CASE r.op # "open"
    <3>1. PICK k : k = [r EXCEPT !.conn = 0]
      OBVIOUS
    <3>2. k \in CacheType /\ k.conn = 0 /\ k.seen = r.seen /\ k.op = r.op
          /\ k.gen = r.gen /\ k.found = r.found /\ k.lock = r.lock /\ k.held = r.held
      BY <1>3, <3>1 DEF CacheType
    <3>3. m = [k EXCEPT !.ready = FALSE]
      BY <1>4, <2>2, <3>1 DEF mark_closed
    <3> QED BY ONLY <3>2, <3>3 DEF CacheType
  <2> QED BY <2>1, <2>2
<1>6. PICK k : k = [m EXCEPT !.pc = "quarantine"]
  OBVIOUS
<1>7. k \in CacheType /\ k.pc = "quarantine" /\ k.conn = m.conn /\ k.seen = r.seen /\ k.op = r.op
      /\ k.gen = r.gen /\ k.found = r.found /\ k.ready = m.ready
      /\ k.lock = r.lock /\ k.held = r.held
  BY ONLY <1>5, <1>6 DEF CacheType, Places
<1>8. PICK n : n = [k EXCEPT !.floor = Floor(r, prev)]
  OBVIOUS
<1>9. Floor(r, prev) \in Nat /\ Floor(r, prev) = (IF r.op = "open" THEN prev ELSE Higher(r.gen, prev))
  BY <1>3 DEF Floor, Higher, CacheType
<1>10. n \in CacheType /\ n.pc = "quarantine" /\ n.conn = m.conn /\ n.seen = r.seen /\ n.op = r.op
      /\ n.gen = r.gen /\ n.found = r.found /\ n.ready = m.ready
      /\ n.lock = r.lock /\ n.held = r.held /\ n.floor = Floor(r, prev)
  BY ONLY <1>7, <1>8, <1>9 DEF CacheType
<1>11. Goes(p, n)
  <2>1. n = [m EXCEPT !.pc = "quarantine", !.floor = Floor(r, prev)]
    BY <1>6, <1>8
  <2> QED BY <1>2, <1>4, <2>1 DEF Replaces
<1>12. Seated(n)
  BY <1>3, <1>5, <1>10 DEF Poised, Seated, CacheType
<1>13. alone = "none" => Dated(n) /\ OneFile(n)
  <2>1. SUFFICES ASSUME alone = "none" PROVE Dated(n) /\ OneFile(n)
    OBVIOUS
  <2>2. Dated(r) /\ OneFile(r) /\ clock \in Nat /\ prev <= clock
    BY <1>1, <1>3, <2>1 DEF Poised, CacheTypes
  <2>3. n.floor <= clock
    BY <1>3, <1>9, <1>10, <2>2 DEF Higher, Dated
  <2> QED BY <1>3, <1>5, <1>10, <2>2, <2>3 DEF Dated, OneFile, OnlyAt
<1>14. alone = p => Solitary(p, n)
  <2>1. SUFFICES ASSUME alone = p PROVE Solitary(p, n)
    OBVIOUS
  <2>2. Solitary(p, r) /\ Seated(r)
    BY <1>3, <2>1 DEF Poised
  <2>3. n.floor >= n.gen /\ (n.op = "refresh" => n.floor <= n.gen)
    <3>1. r.op = "open" => r.gen = 0
      BY <1>3, <2>2 DEF Seated
    <3> QED BY <1>2, <1>3, <1>9, <1>10, <2>1, <3>1 DEF Higher, CacheType
  <2> QED BY <1>3, <1>5, <1>10, <2>1, <2>2, <2>3 DEF Solitary, Has, IsBuilt
<1>15. Calm(p, n)
  BY <1>10 DEF Calm
<1>16. Poised(p, n)
  BY <1>12, <1>13, <1>14 DEF Poised
<1> QED BY <1>2, <1>10, <1>11, <1>15, <1>16, LooksKeep

LEMMA MadeIs ==
    ASSUME NEW p, NEW g, NEW c
    PROVE  Made(p, g, c) = [st |-> "built", schema |-> build[p].schema, comp |-> c, gen |-> g,
                            mine |-> TRUE]
<1>1. PICK e : e = [st |-> "built", schema |-> build[p].schema, comp |-> build[p].comp,
                    gen |-> g, mine |-> TRUE]
  OBVIOUS
<1>2. Made(p, g, c) = [e EXCEPT !.comp = c]
  BY <1>1 DEF Made, Built
<1> QED BY <1>1, <1>2

\* A row that can be used.
LEMMA UsableKeep ==
    ASSUME CacheInv, NEW p \in FrontEnd, Looks(p), NEW f \in InodeType, Usable(p, f),
           caches[p].pc \in {"probe", "grace"},
           alone = "none" => f.gen \in generations,
           alone = p => NamesBuilt /\ inodes[named] = f /\ ~Conflict(p, inodes[named]),
           calm'[p] => Holds(p, f.gen, f.comp), Remembering
    PROVE  CacheInv'
<1>1. CacheTypes /\ alone \in {"none", p}
  BY DEF CacheInv, Looks
<1>2. PICK r : r = caches[p]
  OBVIOUS
<1>3. r \in CacheType /\ Poised(p, r) /\ r.pc \in {"probe", "grace"}
  BY <1>1, <1>2, InHand
<1>4. PICK j : j = [r EXCEPT !.found = f.gen]
  OBVIOUS
<1>5. f.gen \in Nat /\ f.comp \in Nat
  BY DEF InodeType
<1>6. j \in CacheType /\ j.found = f.gen /\ j.pc = r.pc /\ j.conn = r.conn /\ j.seen = r.seen
      /\ j.op = r.op /\ j.gen = r.gen /\ j.floor = r.floor /\ j.ready = r.ready
      /\ j.lock = r.lock /\ j.held = r.held
  BY ONLY <1>3, <1>4, <1>5 DEF CacheType
<1>7. PICK k : k = [j EXCEPT !.foundComp = f.comp]
  OBVIOUS
<1>8. k \in CacheType /\ k.found = f.gen /\ k.pc = r.pc /\ k.conn = r.conn /\ k.seen = r.seen
      /\ k.op = r.op /\ k.gen = r.gen /\ k.floor = r.floor /\ k.ready = r.ready
      /\ k.lock = r.lock /\ k.held = r.held /\ k.foundComp = f.comp
  BY ONLY <1>5, <1>6, <1>7 DEF CacheType
<1>9. k = [caches[p] EXCEPT !.found = f.gen, !.foundComp = f.comp]
  BY <1>2, <1>4, <1>7
<1>10. ASSUME NEW n \in CacheType, Goes(p, n), n.seen = r.seen, n.op = r.op, n.gen = r.gen,
              n.found = f.gen, n.foundComp = f.comp, n.floor = r.floor,
              n.lock = r.lock, n.held = r.held,
              \/ n.pc = "adopt" /\ r.op = "open" /\ n.conn = r.conn /\ n.ready = r.ready
              \/ n.pc = "reopen" /\ r.op = "refresh" /\ n.conn = 0 /\ n.ready = FALSE
              \/ n.pc = "settle" /\ r.op = "refresh" /\ n.conn = r.conn /\ n.ready = r.ready
                   /\ r.conn # 0 /\ f.gen = r.gen
       PROVE  CacheInv'
  <2>1. Seated(n)
    BY <1>3, <1>10 DEF Poised, Seated
  <2>2. alone = "none" => Dated(n) /\ OneFile(n)
    <3>1. SUFFICES ASSUME alone = "none" PROVE Dated(n) /\ OneFile(n)
      OBVIOUS
    <3>2. Dated(r) /\ OneFile(r) /\ f.gen \in generations /\ f.gen <= clock
      BY <1>3, <3>1 DEF Poised, CacheInv, Stamped
    <3>3. Dated(n)
      BY <1>3, <1>10, <3>2 DEF Dated
    <3>4. OneFile(n)
      BY <1>10, <3>2 DEF OneFile, OnlyAt
    <3> QED BY <3>3, <3>4
  <2>3. alone = p => Solitary(p, n)
    <3>1. SUFFICES ASSUME alone = p PROVE Solitary(p, n)
      OBVIOUS
    <3>2. Solitary(p, r) /\ NamesBuilt /\ inodes[named].gen = f.gen /\ ~Conflict(p, inodes[named])
      BY <1>3, <3>1 DEF Poised
    <3>3. r.op = "refresh" => f.gen = r.gen
      BY <3>2 DEF Solitary, Has
    <3> QED BY <1>3, <1>10, <3>2, <3>3 DEF Solitary, Has, IsBuilt
  <2>4. ASSUME calm'[p] PROVE Calm(p, n)
    <3>1. Holds(p, f.gen, f.comp)
      BY <2>4
    <3>2. n.pc = "settle" => n.conn = named
      <4>1. SUFFICES ASSUME n.pc = "settle" PROVE n.conn = named
        OBVIOUS
      <4>2. named # 0 /\ inodes[named].gen = r.gen /\ inodes[named].st = "built"
            /\ r.conn # 0 /\ n.conn = r.conn
        BY <1>10, <3>1, <4>1 DEF Holds, Made, Built
      <4>3. CASE alone = "none"
        BY <1>3, <4>2, <4>3 DEF Poised, OneFile, OnlyAt, NamesBuilt, IsBuilt
      <4>4. CASE alone = p
        BY <1>3, <4>2, <4>4 DEF Poised, Solitary
      <4> QED BY <1>1, <4>3, <4>4
    <3> QED BY <1>10, <3>1, <3>2 DEF Calm
  <2>5. Poised(p, n)
    BY <2>1, <2>2, <2>3 DEF Poised
  <2>6. n.pc # "commit" /\ (n.held => caches[p].held /\ n.lock = caches[p].lock)
    BY <1>2, <1>10
  <2> QED BY <1>10, <2>4, <2>5, <2>6, LooksKeep
<1>11. \/ r.op = "open" /\ Goes(p, [k EXCEPT !.pc = "adopt"])
       \/ r.op # "open" /\ MustReopen(k, f.gen) /\ Goes(p, [mark_closed(k) EXCEPT !.pc = "reopen"])
       \/ r.op # "open" /\ ~MustReopen(k, f.gen) /\ Goes(p, [k EXCEPT !.pc = "settle"])
  BY <1>8, <1>9 DEF Usable
<1>12. r.op \in {"open", "refresh"}
  BY <1>3 DEF CacheType
<1>13. CASE r.op = "open" /\ Goes(p, [k EXCEPT !.pc = "adopt"])
  <2>1. PICK n : n = [k EXCEPT !.pc = "adopt"]
    OBVIOUS
  <2>2. n \in CacheType /\ n.pc = "adopt" /\ n.found = f.gen /\ n.conn = r.conn /\ n.seen = r.seen
        /\ n.op = r.op /\ n.gen = r.gen /\ n.floor = r.floor /\ n.ready = r.ready
        /\ n.lock = r.lock /\ n.held = r.held /\ n.foundComp = f.comp
    BY ONLY <1>8, <2>1 DEF CacheType, Places
  <2> QED BY <1>10, <1>13, <2>1, <2>2
<1>14. CASE r.op # "open" /\ ~MustReopen(k, f.gen) /\ Goes(p, [k EXCEPT !.pc = "settle"])
  <2>1. PICK n : n = [k EXCEPT !.pc = "settle"]
    OBVIOUS
  <2>2. n \in CacheType /\ n.pc = "settle" /\ n.found = f.gen /\ n.conn = r.conn /\ n.seen = r.seen
        /\ n.op = r.op /\ n.gen = r.gen /\ n.floor = r.floor /\ n.ready = r.ready
        /\ n.lock = r.lock /\ n.held = r.held /\ n.foundComp = f.comp
    BY ONLY <1>8, <2>1 DEF CacheType, Places
  <2>3. r.conn # 0 /\ f.gen = r.gen
    BY <1>8, <1>14 DEF MustReopen
  <2> QED BY <1>10, <1>12, <1>14, <2>1, <2>2, <2>3
<1>15. CASE r.op # "open" /\ MustReopen(k, f.gen)
            /\ Goes(p, [mark_closed(k) EXCEPT !.pc = "reopen"])
  <2>1. PICK m : m = [k EXCEPT !.conn = 0]
    OBVIOUS
  <2>2. m \in CacheType /\ m.found = f.gen /\ m.conn = 0 /\ m.seen = r.seen
        /\ m.op = r.op /\ m.gen = r.gen /\ m.floor = r.floor
        /\ m.lock = r.lock /\ m.held = r.held /\ m.foundComp = f.comp
    BY ONLY <1>8, <2>1 DEF CacheType
  <2>3. PICK l : l = [m EXCEPT !.ready = FALSE]
    OBVIOUS
  <2>4. l \in CacheType /\ l.found = f.gen /\ l.conn = 0 /\ l.seen = r.seen
        /\ l.op = r.op /\ l.gen = r.gen /\ l.floor = r.floor /\ l.ready = FALSE
        /\ l.lock = r.lock /\ l.held = r.held /\ l.foundComp = f.comp
    BY ONLY <2>2, <2>3 DEF CacheType
  <2>5. PICK n : n = [l EXCEPT !.pc = "reopen"]
    OBVIOUS
  <2>6. n \in CacheType /\ n.pc = "reopen" /\ n.found = f.gen /\ n.conn = 0 /\ n.seen = r.seen
        /\ n.op = r.op /\ n.gen = r.gen /\ n.floor = r.floor /\ n.ready = FALSE
        /\ n.lock = r.lock /\ n.held = r.held /\ n.foundComp = f.comp
    BY ONLY <2>4, <2>5 DEF CacheType, Places
  <2>7. mark_closed(k) = l
    BY <2>1, <2>3 DEF mark_closed
  <2>8. Goes(p, n)
    BY <1>15, <2>5, <2>7
  <2> QED BY <1>10, <1>12, <1>15, <2>6, <2>8
<1> QED BY <1>11, <1>13, <1>14, <1>15

\* What a readable row leads to.
LEMMA JudgeKeeps ==
    ASSUME CacheInv, NEW p \in FrontEnd, Looks(p), NEW f \in InodeType, Judge(p, f),
           f.st = "built", caches[p].pc \in {"probe", "grace"},
           alone = "none" => f.gen \in generations,
           alone = p => NamesBuilt /\ inodes[named] = f,
           calm'[p] => named # 0 /\ inodes[named] = f /\ ~Conflict(p, f),
           Remembering
    PROVE  CacheInv'
<1>1. CacheTypes /\ alone \in {"none", p} /\ build[p] \in BuildType
  BY DEF CacheInv, Looks, CacheTypes
<1>2. caches[p] \in CacheType /\ Poised(p, caches[p])
  BY <1>1, InHand
<1>3. f.schema \in Nat /\ f.gen \in Nat /\ build[p].schema \in Nat /\ f.mine \in BOOLEAN
  BY <1>1 DEF InodeType, BuildType
<1>4. CASE f.schema > build[p].schema
  <2>1. Conflict(p, f) /\ ~calm'[p]
    BY <1>4 DEF Conflict
  <2>2. Goes(p, IF caches[p].op = "open" THEN Closed ELSE [caches[p] EXCEPT !.pc = "open"])
    BY <1>4 DEF Judge
  <2>3. CASE caches[p].op = "open"
    <3>1. Closed \in CacheType /\ Poised(p, Closed) /\ Closed.held = FALSE /\ Closed.pc = "out"
      BY <1>1, ClosedIs DEF Closed
    <3> QED BY <2>1, <2>2, <2>3, <3>1, LooksKeep
  <2>4. CASE caches[p].op = "refresh"
    <3>1. alone # p
      <4>1. SUFFICES ASSUME alone = p PROVE FALSE
        OBVIOUS
      <4>2. Solitary(p, caches[p]) /\ named # 0 /\ Conflict(p, inodes[named])
        BY <1>2, <2>1, <4>1 DEF Poised, NamesBuilt
      <4> QED BY <2>4, <4>2 DEF Solitary
    <3>2. alone = "none"
      BY <1>1, <3>1
    <3> QED BY <1>2, <2>1, <2>2, <2>4, <3>1, <3>2, FailsKeep
  <2> QED BY <1>2, <2>3, <2>4 DEF CacheType
<1>5. CASE ~(f.schema > build[p].schema) /\ (f.schema < build[p].schema \/ ~f.mine)
  <2>1. Replaces(p, f.gen)
    BY <1>3, <1>5 DEF Judge
  <2>2. alone = "none" => f.gen <= clock
    BY DEF CacheInv, Stamped
  <2>3. alone = p /\ named # 0 => ~Conflict(p, inodes[named])
    BY <1>5 DEF Conflict
  <2>4. alone = p /\ caches[p].op = "refresh" => f.gen <= caches[p].gen
    <3>1. SUFFICES ASSUME alone = p, caches[p].op = "refresh" PROVE f.gen <= caches[p].gen
      OBVIOUS
    <3>2. Solitary(p, caches[p]) /\ NamesBuilt /\ inodes[named] = f
      BY <1>2, <3>1 DEF Poised
    <3>3. f.gen = caches[p].gen
      BY <3>1, <3>2 DEF Solitary, Has
    <3> QED BY <1>3, <3>3
  <2> QED BY <1>3, <2>1, <2>2, <2>3, <2>4, ReplacesKeep
<1>6. CASE ~(f.schema > build[p].schema) /\ ~(f.schema < build[p].schema \/ ~f.mine)
  <2>1. Usable(p, f)
    BY <1>6 DEF Judge
  <2>2. f.schema = build[p].schema /\ f.mine = TRUE
    BY <1>3, <1>6
  <2>3. alone = p => NamesBuilt /\ inodes[named] = f /\ ~Conflict(p, inodes[named])
    BY <1>6 DEF Conflict
  <2>4. f = Made(p, f.gen, f.comp)
    <3>1. f = [st |-> "built", schema |-> build[p].schema, comp |-> f.comp, gen |-> f.gen,
               mine |-> TRUE]
      BY <2>2 DEF InodeType
    <3> QED BY <3>1, MadeIs
  <2>5. calm'[p] => Holds(p, f.gen, f.comp)
    BY <2>4 DEF Holds
  <2> QED BY <2>1, <2>3, <2>5, UsableKeep
<1> QED BY <1>4, <1>5, <1>6

LEMMA ProbesKeep ==
    ASSUME CacheInv, NEW p \in FrontEnd, probe_existing(p), Remembering
    PROVE  CacheInv'
<1>1. CacheTypes /\ alone \in {"none", p} /\ caches[p].pc = "probe"
  BY DEF CacheInv, probe_existing, WorksAt
<1>2. caches[p] \in CacheType /\ Poised(p, caches[p])
  BY <1>1, InHand
<1>3. calm' = [calm EXCEPT ![p] = @ /\ ~(named # 0 /\ Conflict(p, inodes[named]))]
  BY DEF probe_existing
<1>4. /\ calm' \in [FrontEnd -> BOOLEAN]
      /\ \A q \in FrontEnd : calm'[q] => calm[q]
      /\ calm'[p] => ~(named # 0 /\ Conflict(p, inodes[named]))
  BY <1>1, <1>3 DEF CacheTypes, Conflict
<1>5. Looks(p)
  BY <1>1, <1>4 DEF Looks, probe_existing, shelf, guardVars, mint
<1>6. CASE named = 0
  <2>1. CASE caches[p].op # "open"
    <3>1. Replaces(p, 0)
      BY <1>6, <2>1 DEF probe_existing
    <3>2. clock \in Nat /\ caches[p].gen \in Nat
      BY <1>1, <1>2 DEF CacheTypes, CacheType
    <3> QED BY <1>1, <1>5, <1>6, <3>1, <3>2, ReplacesKeep
  <2>2. CASE caches[p].op = "open"
    <3>1. PICK r : r = caches[p]
      OBVIOUS
    <3>2. PICK m : m = [r EXCEPT !.pc = "create"]
      OBVIOUS
    <3>3. m \in CacheType /\ m.pc = "create" /\ m.conn = r.conn /\ m.seen = r.seen /\ m.op = r.op
          /\ m.gen = r.gen /\ m.found = r.found /\ m.ready = r.ready
          /\ m.lock = r.lock /\ m.held = r.held
      BY <1>2, <3>1, <3>2 DEF CacheType, Places
    <3>4. PICK n : n = [m EXCEPT !.floor = 0]
      OBVIOUS
    <3>5. n \in CacheType /\ n.pc = "create" /\ n.conn = r.conn /\ n.seen = r.seen /\ n.op = r.op
          /\ n.gen = r.gen /\ n.found = r.found /\ n.ready = r.ready
          /\ n.lock = r.lock /\ n.held = r.held /\ n.floor = 0
      BY ONLY <3>3, <3>4 DEF CacheType
    <3>6. Goes(p, n)
      <4>1. n = [caches[p] EXCEPT !.pc = "create", !.floor = 0]
        BY <3>1, <3>2, <3>4
      <4> QED BY <1>6, <2>2, <4>1 DEF probe_existing
    <3>7. Seated(n)
      BY <1>1, <1>2, <2>2, <3>1, <3>5 DEF Poised, Seated
    <3>8. alone = "none" => Dated(n) /\ OneFile(n)
      BY <1>1, <1>2, <3>1, <3>5 DEF Poised, Dated, OneFile, CacheTypes
    <3>9. alone = p => Solitary(p, n)
      <4>1. n.gen = 0 /\ n.op = "open"
        BY <1>1, <1>2, <2>2, <3>1, <3>5 DEF Poised, Seated
      <4> QED BY <1>6, <3>5, <4>1 DEF Solitary, Has, NamesBuilt
    <3>10. Calm(p, n)
      BY <1>6, <3>5 DEF Calm
    <3>11. Poised(p, n)
      BY <3>7, <3>8, <3>9 DEF Poised
    <3> QED BY <1>5, <3>1, <3>5, <3>6, <3>10, <3>11, LooksKeep
  <2> QED BY <2>1, <2>2
<1>7. CASE named # 0
  <2>1. PICK f : f = inodes[named]
    OBVIOUS
  <2>2. f \in InodeType /\ named \in DOMAIN inodes
    BY <1>1, <1>7, <2>1 DEF CacheTypes
  <2>3. CASE f.st = "built"
    <3>1. Judge(p, f)
      BY <1>7, <2>1, <2>3 DEF probe_existing
    <3>2. alone = "none" => f.gen \in generations
      BY <2>1, <2>2, <2>3 DEF CacheInv, Stamped, IsBuilt
    <3>3. NamesBuilt
      BY <1>7, <2>1, <2>3 DEF NamesBuilt, IsBuilt
    <3> QED BY <1>1, <1>4, <1>5, <1>7, <2>1, <2>2, <2>3, <3>1, <3>2, <3>3, JudgeKeeps
  <2>4. CASE f.st = "bad"
    <3>1. Replaces(p, 0)
      BY <1>7, <2>1, <2>4 DEF probe_existing
    <3>2. clock \in Nat /\ caches[p].gen \in Nat
      BY <1>1, <1>2 DEF CacheTypes, CacheType
    <3>3. ~Conflict(p, inodes[named])
      BY <2>1, <2>4 DEF Conflict
    <3> QED BY <1>1, <1>5, <3>1, <3>2, <3>3, ReplacesKeep
  <2>5. CASE f.st = "blank"
    <3>1. PICK r : r = caches[p]
      OBVIOUS
    <3>2. PICK m : m = [r EXCEPT !.pc = "grace"]
      OBVIOUS
    <3>3. m \in CacheType /\ m.pc = "grace" /\ m.conn = r.conn /\ m.floor = r.floor /\ m.op = r.op
          /\ m.gen = r.gen /\ m.found = r.found /\ m.ready = r.ready
          /\ m.lock = r.lock /\ m.held = r.held
      BY <1>2, <3>1, <3>2 DEF CacheType, Places
    <3>4. PICK n : n = [m EXCEPT !.seen = named]
      OBVIOUS
    <3>5. named \in Nat
      BY <1>1 DEF CacheTypes
    <3>6. n \in CacheType /\ n.pc = "grace" /\ n.conn = r.conn /\ n.floor = r.floor /\ n.op = r.op
          /\ n.gen = r.gen /\ n.found = r.found /\ n.ready = r.ready
          /\ n.lock = r.lock /\ n.held = r.held /\ n.seen = named
      BY ONLY <3>3, <3>4, <3>5 DEF CacheType
    <3>7. Goes(p, n)
      <4>1. n = [caches[p] EXCEPT !.pc = "grace", !.seen = named]
        BY <3>1, <3>2, <3>4
      <4> QED BY <1>7, <2>1, <2>5, <4>1 DEF probe_existing
    <3>8. Seated(n)
      BY <1>1, <1>2, <1>7, <3>1, <3>6 DEF Poised, Seated, CacheTypes
    <3>9. alone = "none" => Dated(n) /\ OneFile(n)
      BY <1>1, <1>2, <3>1, <3>6 DEF Poised, Dated, OneFile
    <3>10. alone = p => Solitary(p, n)
      <4>1. ~Conflict(p, inodes[named]) /\ inodes[n.seen].st = "blank"
        BY <2>1, <2>5, <3>6 DEF Conflict
      <4> QED BY <1>1, <1>2, <3>1, <3>6, <4>1 DEF Poised, Solitary, Has
    <3>11. Calm(p, n)
      BY <2>1, <2>5, <3>6 DEF Calm
    <3>12. Poised(p, n)
      BY <3>8, <3>9, <3>10 DEF Poised
    <3> QED BY <1>5, <3>1, <3>6, <3>7, <3>11, <3>12, LooksKeep
  <2> QED BY <2>2, <2>3, <2>4, <2>5 DEF InodeType
<1> QED BY <1>6, <1>7

LEMMA AwaitsKeep ==
    ASSUME CacheInv, NEW p \in FrontEnd, await_creation(p), Remembering
    PROVE  CacheInv'
<1>1. CacheTypes /\ alone \in {"none", p} /\ caches[p].pc = "grace"
  BY DEF CacheInv, await_creation, WorksAt
<1>2. caches[p] \in CacheType /\ Poised(p, caches[p]) /\ (calm[p] => Calm(p, caches[p]))
  BY <1>1, InHand
<1>3. PICK f : f = inodes[caches[p].seen]
  OBVIOUS
<1>4. caches[p].seen \in DOMAIN inodes /\ f \in InodeType
  BY <1>1, <1>2, <1>3 DEF Poised, Seated, CacheTypes
<1>5. calm' = [calm EXCEPT ![p] = @ /\ ~Conflict(p, f)]
  BY <1>3 DEF await_creation
<1>6. /\ calm' \in [FrontEnd -> BOOLEAN]
      /\ \A q \in FrontEnd : calm'[q] => calm[q]
  BY <1>1, <1>5 DEF CacheTypes, Conflict
<1>7. Looks(p)
  BY <1>1, <1>6 DEF Looks, await_creation, shelf, guardVars, mint
<1>8. CASE f.st = "built"
  <2>1. Judge(p, f)
    BY <1>3, <1>8 DEF await_creation
  <2>2. alone = "none" => f.gen \in generations
    BY <1>3, <1>4, <1>8 DEF CacheInv, Stamped, IsBuilt
  <2>3. alone # p
    BY <1>1, <1>2, <1>3, <1>8 DEF Poised, Solitary
  <2>4. ~calm[p]
    BY <1>1, <1>2, <1>3, <1>8 DEF Calm
  <2> QED BY <1>1, <1>4, <1>6, <1>7, <1>8, <2>1, <2>2, <2>3, <2>4, JudgeKeeps
<1>9. CASE f.st # "built"
  <2>1. Replaces(p, 0)
    BY <1>3, <1>9 DEF await_creation
  <2>2. clock \in Nat /\ caches[p].gen \in Nat
    BY <1>1, <1>2 DEF CacheTypes, CacheType
  <2>3. alone = p /\ named # 0 => ~Conflict(p, inodes[named])
    BY <1>1, <1>2 DEF Poised, Solitary
  <2> QED BY <1>1, <1>7, <2>1, <2>2, <2>3, ReplacesKeep
<1> QED BY <1>8, <1>9

LEMMA GivesUpKeeps ==
    ASSUME CacheInv, NEW p \in FrontEnd, Looks(p), ~calm'[p], Remembering,
           caches[p].pc \in {"probe", "grace", "adopt", "reopen", "settle", "quarantine",
                              "create", "commit"},
           FailsAs(p, IF caches[p].pc = "commit" THEN mark_closed(caches[p]) ELSE caches[p])
    PROVE  CacheInv'
<1>1. CacheTypes /\ alone \in {"none", p}
  BY DEF CacheInv, Looks
<1>2. PICK r : r = caches[p]
  OBVIOUS
<1>3. r \in CacheType /\ Poised(p, r)
  BY <1>1, <1>2, InHand
<1>4. r.pc \in {"probe", "grace", "adopt", "reopen", "settle", "quarantine", "create", "commit"}
  BY <1>2
<1>5. Looks(p) /\ ~calm'[p]
  OBVIOUS
<1>6. alone = p /\ named # 0 /\ Conflict(p, inodes[named]) => r.pc = "probe" /\ r.op = "open"
  BY <1>1, <1>2, <1>3, <1>4 DEF Poised, Solitary
<1>7. alone = p /\ r.op = "refresh" => r.floor <= r.gen
  BY <1>3 DEF Poised, Solitary, Has
<1>8. PICK m : m = IF r.pc = "commit" THEN mark_closed(r) ELSE r
  OBVIOUS
<1>9. Goes(p, IF m.op = "open" THEN Closed ELSE [m EXCEPT !.pc = "open"])
  BY <1>2, <1>8 DEF FailsAs
<1>10. CASE r.op = "open"
  <2>1. m.op = "open"
    BY <1>3, <1>8, <1>10 DEF mark_closed, CacheType
  <2>2. Closed \in CacheType /\ Poised(p, Closed) /\ Closed.held = FALSE /\ Closed.pc = "out"
    BY <1>1, ClosedIs DEF Closed
  <2> QED BY <1>5, <1>9, <2>1, <2>2, LooksKeep
<1>11. CASE r.op = "refresh"
  <2>1. m \in CacheType /\ m.conn \in {0, r.conn} /\ m.seen = r.seen /\ m.op = r.op
        /\ m.floor = r.floor /\ m.gen = r.gen /\ m.found = r.found /\ m.lock = r.lock
        /\ m.held = r.held /\ m.pc = r.pc /\ (m.ready => r.ready /\ m.conn = r.conn)
        /\ (m.pc = "commit" => m.conn = 0 /\ m.ready = FALSE)
    <3>1. CASE r.pc # "commit"
      BY <1>3, <1>8, <3>1
    <3>2. CASE r.pc = "commit"
      <4>1. PICK k : k = [r EXCEPT !.conn = 0]
        OBVIOUS
      <4>2. k \in CacheType /\ k.conn = 0 /\ k.seen = r.seen /\ k.op = r.op /\ k.floor = r.floor
            /\ k.gen = r.gen /\ k.found = r.found /\ k.lock = r.lock /\ k.held = r.held
            /\ k.pc = r.pc
        BY <1>3, <4>1 DEF CacheType
      <4>3. m = [k EXCEPT !.ready = FALSE]
        BY <1>8, <3>2, <4>1 DEF mark_closed
      <4> QED BY ONLY <4>2, <4>3 DEF CacheType
    <3> QED BY <3>1, <3>2
  <2>2. PICK n : n = [m EXCEPT !.pc = "open"]
    OBVIOUS
  <2>3. n \in CacheType /\ n.pc = "open" /\ n.conn = m.conn /\ n.seen = r.seen /\ n.op = r.op
        /\ n.floor = r.floor /\ n.gen = r.gen /\ n.found = r.found /\ n.lock = r.lock
        /\ n.held = r.held /\ n.ready = m.ready
    BY ONLY <2>1, <2>2 DEF CacheType, Places
  <2>4. Goes(p, n)
    BY <1>9, <1>11, <2>1, <2>2
  <2>5. Seated(n)
    BY <1>3, <1>11, <2>1, <2>3 DEF Poised, Seated, CacheType
  <2>6. alone = "none" => Dated(n) /\ OneFile(n)
    BY <1>3, <2>1, <2>3 DEF Poised, Dated, OneFile, OnlyAt
  <2>7. alone = p => Solitary(p, n)
    BY <1>3, <1>6, <1>11, <2>1, <2>3 DEF Poised, Solitary, Has
  <2>8. Poised(p, n)
    BY <2>5, <2>6, <2>7 DEF Poised
  <2> QED BY <1>2, <1>5, <2>3, <2>4, <2>8, LooksKeep
<1> QED BY <1>3, <1>10, <1>11 DEF CacheType

LEMMA RefusalsKeep ==
    ASSUME CacheInv, NEW p \in FrontEnd, Refusal(p), Remembering
    PROVE  CacheInv'
<1>1. CacheTypes /\ alone \in {"none", p}
      /\ caches[p].pc \in {"probe", "grace", "adopt", "reopen", "settle", "quarantine", "create",
                           "commit"}
  BY DEF CacheInv, Refusal
<1>2. FailsAs(p, IF caches[p].pc = "commit" THEN mark_closed(caches[p]) ELSE caches[p])
  BY DEF Refusal
<1>3. calm' = [calm EXCEPT ![p] = FALSE]
  BY DEF Refusal, FailsAs
<1>4. Looks(p) /\ ~calm'[p]
  BY <1>1, <1>3 DEF Looks, Refusal, shelf, guardVars, mint, CacheTypes
<1> QED BY <1>1, <1>2, <1>4, GivesUpKeeps

-----------------------------------------------------------------------------
\* Steps that change what the path names, or a file

\* p touches the file, and everybody else hears of it.
Handles(p, n) ==
    /\ n \in CacheType /\ caches' = [caches EXCEPT ![p] = n]
    /\ n.held = caches[p].held /\ n.lock = caches[p].lock
    /\ alone \in {"none", p} /\ build' = build /\ alone' = alone
    /\ sweep' = sweep /\ lockfile' = lockfile /\ locks' = locks
    /\ calm' \in [FrontEnd -> BOOLEAN]
    /\ \A q \in FrontEnd \ {p} : Undisturbed(q)

Shelved ==
    /\ inodes' \in Seq(InodeType) /\ named' \in 0 .. Len(inodes')
    /\ clock' \in Nat /\ generations' \in SUBSET (Nat \ {0}) /\ repeated' \in BOOLEAN
    /\ Len(inodes) <= Len(inodes')

LEMMA HandlesKeep ==
    ASSUME CacheInv, NEW p \in FrontEnd, NEW n, Handles(p, n), Shelved, Remembering,
           alone = "none" => Mints(p, n),
           alone = "none" => (Dated(n) /\ OneFile(n))',
           alone = p => Solitary(p, n)',
           Seated(n)', calm'[p] => Calm(p, n)',
           alone = p /\ ~forgotten' => repeated' = repeated
    PROVE  CacheInv'
<1>1. CacheTypes /\ p # "none"
  BY CacheConstants DEF CacheInv
<1>2. CacheTypes'
  <2>1. forgotten' \in BOOLEAN
    BY DEF Remembering
  <2> QED BY <1>1, <2>1 DEF CacheTypes, Handles, Shelved
<1>3. Acts(p, n)
  BY DEF Handles, Acts, Shelved
<1>4. Hand(p, n)'
  BY <1>1 DEF Hand, Handles
<1>5. Sweeping'
  BY SweepStands DEF Handles
<1>6. alone # "none" => alone = p
  BY DEF Handles
<1> QED BY <1>2, <1>3, <1>4, <1>5, <1>6, ActorKeeps

\* A cache that is open, on file i with what is at hand.
OpenedAs(r, n, i, g, c) ==
    /\ n \in CacheType /\ n.pc = "open" /\ n.ready = TRUE /\ n.conn = i /\ n.gen = g /\ n.comp = c
    /\ n.op = r.op /\ n.seen = r.seen /\ n.found = r.found /\ n.floor = r.floor
    /\ n.lock = r.lock /\ n.held = r.held

LEMMA OpenedIs ==
    ASSUME NEW r \in CacheType, NEW g \in Nat, NEW c \in Nat, NEW n,
           n = [r EXCEPT !.pc = "open", !.ready = TRUE, !.gen = g, !.comp = c]
    PROVE  OpenedAs(r, n, r.conn, g, c)
<1>1. PICK a : a = [r EXCEPT !.pc = "open"]
  OBVIOUS
<1>2. a \in CacheType /\ a.pc = "open" /\ a.conn = r.conn
      /\ a.op = r.op /\ a.seen = r.seen /\ a.found = r.found /\ a.floor = r.floor
      /\ a.lock = r.lock /\ a.held = r.held
  BY <1>1 DEF CacheType, Places
<1>3. PICK b : b = [a EXCEPT !.ready = TRUE]
  OBVIOUS
<1>4. b \in CacheType /\ b.pc = "open" /\ b.conn = r.conn /\ b.ready = TRUE
      /\ b.op = r.op /\ b.seen = r.seen /\ b.found = r.found /\ b.floor = r.floor
      /\ b.lock = r.lock /\ b.held = r.held
  BY ONLY <1>2, <1>3 DEF CacheType
<1>5. PICK d : d = [b EXCEPT !.gen = g]
  OBVIOUS
<1>6. d \in CacheType /\ d.pc = "open" /\ d.conn = r.conn /\ d.ready = TRUE /\ d.gen = g
      /\ d.op = r.op /\ d.seen = r.seen /\ d.found = r.found /\ d.floor = r.floor
      /\ d.lock = r.lock /\ d.held = r.held
  BY ONLY <1>4, <1>5, g \in Nat DEF CacheType
<1>7. n = [d EXCEPT !.comp = c]
  BY <1>1, <1>3, <1>5
<1>8. n \in CacheType /\ n.pc = "open" /\ n.conn = r.conn /\ n.ready = TRUE /\ n.gen = g
      /\ n.op = r.op /\ n.seen = r.seen /\ n.found = r.found /\ n.floor = r.floor
      /\ n.lock = r.lock /\ n.held = r.held /\ n.comp = c
  BY ONLY <1>6, <1>7, c \in Nat DEF CacheType
<1> QED BY <1>8 DEF OpenedAs

LEMMA SettlesKeep ==
    ASSUME CacheInv, NEW p \in FrontEnd, invalidate_components(p), Remembering
    PROVE  CacheInv'
<1>1. CacheTypes /\ alone \in {"none", p} /\ caches[p].pc = "settle"
  BY DEF CacheInv, invalidate_components, WorksAt
<1>2. PICK r : r = caches[p]
  OBVIOUS
<1>3. r \in CacheType /\ Poised(p, r) /\ (calm[p] => Calm(p, r)) /\ r.pc = "settle"
  BY <1>1, <1>2, InHand
<1>4. r.conn \in DOMAIN inodes /\ r.op = "refresh" /\ inodes[r.conn] \in InodeType
      /\ build[p] \in BuildType
  BY <1>1, <1>3 DEF Poised, Seated, CacheTypes
<1>5. ASSUME r.foundComp = build[p].comp, UNCHANGED shelf, UNCHANGED calm,
             Goes(p, [r EXCEPT !.pc = "open", !.ready = TRUE, !.gen = r.found, !.comp = r.foundComp])
      PROVE  CacheInv'
  <2>1. PICK n : n = [r EXCEPT !.pc = "open", !.ready = TRUE, !.gen = r.found, !.comp = r.foundComp]
    OBVIOUS
  <2>2. r.found \in Nat /\ r.foundComp \in Nat
    BY <1>3 DEF CacheType
  <2>3. OpenedAs(r, n, r.conn, r.found, r.foundComp)
    BY <1>3, <2>1, <2>2, OpenedIs
  <2>4. Looks(p)
    BY <1>1, <1>5 DEF Looks, invalidate_components, shelf, guardVars, mint, CacheTypes
  <2>5. Seated(n)
    BY <1>3, <1>4, <2>3 DEF Poised, Seated, OpenedAs
  <2>6. alone = "none" => Dated(n) /\ OneFile(n)
    BY <1>3, <2>3 DEF Poised, Dated, OneFile, OpenedAs
  <2>7. alone = p => Solitary(p, n)
    BY <1>3, <1>4, <2>3 DEF Poised, Solitary, Has, OpenedAs
  <2>8. calm'[p] => Calm(p, n)
    BY <1>3, <1>4, <1>5, <2>3 DEF Calm, OpenedAs
  <2>9. Poised(p, n) /\ n.pc # "commit" /\ n.held = caches[p].held /\ n.lock = caches[p].lock
        /\ n \in CacheType
    BY <1>2, <2>3, <2>5, <2>6, <2>7 DEF Poised, OpenedAs
  <2> QED BY <1>5, <2>1, <2>4, <2>8, <2>9, LooksKeep
<1>6. ASSUME r.foundComp # build[p].comp, inodes[r.conn].st = "built",
             invalidate_component(p, r.conn), UNCHANGED named,
             Goes(p, [r EXCEPT !.pc = "open", !.ready = TRUE, !.gen = inodes[r.conn].gen,
                                !.comp = inodes'[r.conn].comp]),
             Touches(p)
      PROVE  CacheInv'
  <2>1. PICK c : c = build[p].comp
    OBVIOUS
  <2>2. PICK g : g = inodes[r.conn].gen
    OBVIOUS
  <2>3. c \in Nat /\ g \in Nat
    BY <1>4, <2>1, <2>2 DEF BuildType, InodeType
  <2>4. PICK f : f = [inodes[r.conn] EXCEPT !.comp = c]
    OBVIOUS
  <2>5. f \in InodeType /\ f.st = "built" /\ f.gen = g /\ f.comp = c
        /\ f.schema = inodes[r.conn].schema /\ f.mine = inodes[r.conn].mine
    BY <1>4, <1>6, <2>2, <2>3, <2>4 DEF InodeType
  <2>6. inodes' = [inodes EXCEPT ![r.conn] = f] /\ named' = named
    BY <1>6, <2>1, <2>4 DEF invalidate_component
  <2>7. /\ inodes' \in Seq(InodeType) /\ Len(inodes') = Len(inodes)
        /\ DOMAIN inodes' = DOMAIN inodes /\ inodes'[r.conn] = f
        /\ \A j \in DOMAIN inodes \ {r.conn} : inodes'[j] = inodes[j]
    BY <1>1, <1>4, <2>5, <2>6 DEF CacheTypes
  <2>8. \A j \in DOMAIN inodes :
           inodes'[j].st = inodes[j].st /\ inodes'[j].gen = inodes[j].gen
           /\ inodes'[j].schema = inodes[j].schema
    BY <1>6, <2>2, <2>5, <2>7
  <2>9. named \in 0 .. Len(inodes) /\ DOMAIN inodes = 1 .. Len(inodes) /\ Len(inodes) \in Nat
    BY <1>1 DEF CacheTypes
  <2>10. PICK n : n = [r EXCEPT !.pc = "open", !.ready = TRUE, !.gen = g, !.comp = c]
    OBVIOUS
  <2>11. OpenedAs(r, n, r.conn, g, c)
    BY <1>3, <2>3, <2>10, OpenedIs
  <2>12. Goes(p, n)
    BY <1>6, <2>2, <2>5, <2>7, <2>10
  <2>13. Handles(p, n)
    BY <1>1, <1>2, <1>6, <2>11, <2>12 DEF Handles, Goes, OpenedAs, invalidate_components,
       guardVars, Touches, CacheTypes, Undisturbed
  <2>14. UNCHANGED mint
    BY DEF invalidate_components
  <2>15. Shelved
    BY <1>1, <2>6, <2>7, <2>9, <2>14 DEF Shelved, mint, CacheTypes
  <2>16. Quietly
    BY <1>1, <2>6, <2>7, <2>8, <2>9, <2>14 DEF Quietly, FilesStay, mint, CacheTypes, IsBuilt
  <2>17. Mints(p, n)
    BY <2>11, <2>16 DEF Mints, OpenedAs
  <2>18. alone = "none" => (Dated(n) /\ OneFile(n))'
    <3>1. SUFFICES ASSUME alone = "none" PROVE (Dated(n) /\ OneFile(n))'
      OBVIOUS
    <3>2. Stamped /\ Dated(r)
      BY <1>3, <3>1 DEF CacheInv, Poised
    <3>3. g \in generations /\ g <= clock
      BY <1>4, <1>6, <2>2, <3>2 DEF Stamped, IsBuilt
    <3>4. Dated(n)'
      BY <2>11, <2>14, <3>2, <3>3 DEF Dated, OpenedAs, mint
    <3>5. named' # 0 /\ inodes'[named'].st = "built" /\ inodes'[named'].gen = g => r.conn = named'
      BY <1>4, <1>6, <2>2, <2>6, <2>8, <2>9, <3>2 DEF Stamped, IsBuilt
    <3>6. OneFile(n)'
      BY <2>11, <3>5 DEF OneFile, OnlyAt, NamesBuilt, IsBuilt, OpenedAs
    <3> QED BY <3>4, <3>6
  <2>19. alone = p => Solitary(p, n)'
    <3>1. SUFFICES ASSUME alone = p PROVE Solitary(p, n)'
      OBVIOUS
    <3>2. Solitary(p, r) /\ Has(r)
      BY <1>3, <1>4, <3>1 DEF Poised, Has
    <3>3. g = r.gen
      BY <1>4, <1>6, <2>2, <2>9, <3>2 DEF Solitary, IsBuilt
    <3>4. named' # 0 => ~Conflict(p, inodes[named]) /\ named' = r.conn
      BY <1>3, <1>4, <2>6, <2>9, <3>2 DEF Solitary
    <3>5. build' = build
      BY <2>13 DEF Handles
    <3>6. ~(named' # 0 /\ Conflict(p, inodes[named])')
      BY <2>6, <2>8, <2>9, <3>4, <3>5 DEF Conflict
    <3>7. inodes'[r.conn].gen = g
      BY <2>5, <2>7
    <3> QED BY <2>11, <3>2, <3>3, <3>4, <3>6, <3>7 DEF Solitary, Has, NamesBuilt, IsBuilt, OpenedAs
  <2>20. Seated(n)'
    BY <1>3, <1>4, <2>7, <2>11 DEF Poised, Seated, OpenedAs
  <2>21. calm'[p] => Calm(p, n)'
    <3>1. SUFFICES ASSUME calm[p] PROVE Calm(p, n)'
      BY <1>1, <1>6 DEF Touches, CacheTypes
    <3>2. r.conn = named /\ named # 0 /\ inodes[named] = Made(p, r.found, r.foundComp)
      BY <1>3, <3>1 DEF Calm, Holds
    <3>3. inodes[r.conn].schema = build[p].schema /\ inodes[r.conn].mine = TRUE
      BY <3>2, MadeIs
    <3>4. f = Made(p, g, c)
      <4>1. f = [st |-> "built", schema |-> build[p].schema, comp |-> c, gen |-> g, mine |-> TRUE]
        BY <2>5, <3>3 DEF InodeType
      <4> QED BY <4>1, MadeIs
    <3>5. Holds(p, g, c)'
      BY <2>6, <2>7, <2>13, <3>2, <3>4 DEF Holds, Made, Handles
    <3> QED BY <2>1, <2>6, <2>11, <2>13, <3>2, <3>5 DEF Calm, OpenedAs, Handles
  <2>22. repeated' = repeated
    BY <2>14 DEF mint
  <2> QED BY <2>13, <2>15, <2>17, <2>18, <2>19, <2>20, <2>21, <2>22, HandlesKeep
<1>7. ASSUME r.foundComp # build[p].comp, inodes[r.conn].st # "built", FailsAs(p, r), UNCHANGED shelf
      PROVE  CacheInv'
  <2>1. calm' = [calm EXCEPT ![p] = FALSE]
        /\ Goes(p, IF r.op = "open" THEN Closed ELSE [r EXCEPT !.pc = "open"])
    BY <1>7 DEF FailsAs
  <2>2. Looks(p) /\ ~calm'[p]
    BY <1>1, <1>7, <2>1 DEF Looks, invalidate_components, shelf, guardVars, mint, CacheTypes
  <2>3. alone = p /\ named # 0 => ~Conflict(p, inodes[named])
    BY <1>3 DEF Poised, Solitary
  <2>4. r.floor <= r.gen \/ alone = "none"
    BY <1>1, <1>3, <1>4 DEF Poised, Solitary, Has
  <2>5. PICK n : n = IF r.op = "open" THEN Closed ELSE [r EXCEPT !.pc = "open"]
    OBVIOUS
  <2>6. Goes(p, n)
    BY <2>1, <2>5
  <2> QED BY <1>2, <1>3, <2>2, <2>3, <2>4, <2>5, <2>6, FailsKeep
<1> QED BY <1>2, <1>5, <1>6, <1>7 DEF invalidate_components

\* Connection::open.
LEMMA OpensIs ==
    ASSUME CacheTypes, NEW i \in 1 .. MaxInodes, Opens(i)
    PROVE  /\ i # 0 /\ i \in Nat /\ named' = i /\ i \in DOMAIN inodes'
           /\ inodes' \in Seq(InodeType) /\ Len(inodes) <= Len(inodes')
           /\ named' \in 0 .. Len(inodes')
           /\ \A j \in DOMAIN inodes : j \in DOMAIN inodes' /\ inodes'[j] = inodes[j]
           /\ FilesStay(0)
           /\ i <= Len(inodes) => named = i /\ inodes' = inodes
           /\ i > Len(inodes) => named = 0 /\ inodes'[i] = Blank
           /\ named = 0 => i > Len(inodes)
<1>1. MaxInodes \in Nat /\ i \in Nat /\ i # 0 /\ Len(inodes) \in Nat
      /\ DOMAIN inodes = 1 .. Len(inodes) /\ named \in 0 .. Len(inodes)
  BY CacheConstants DEF CacheTypes
<1>2. CASE named # 0 /\ i = named /\ UNCHANGED shelf
  BY <1>1, <1>2 DEF FilesStay, shelf, CacheTypes, IsBuilt
<1>3. CASE named = 0 /\ i = Len(inodes) + 1 /\ inodes' = Append(inodes, Blank) /\ named' = i
  <2>1. Blank \in InodeType /\ Blank.st = "blank"
    BY DEF Blank, InodeType
  <2>2. /\ inodes' \in Seq(InodeType) /\ Len(inodes') = Len(inodes) + 1
        /\ inodes'[i] = Blank /\ DOMAIN inodes' = 1 .. Len(inodes')
        /\ \A j \in DOMAIN inodes : inodes'[j] = inodes[j]
    BY <1>1, <1>3, <2>1 DEF CacheTypes
  <2>3. FilesStay(0)
    BY <1>1, <1>3, <2>1, <2>2 DEF FilesStay, IsBuilt
  <2>4. i \in DOMAIN inodes' /\ named' \in 0 .. Len(inodes') /\ Len(inodes) <= Len(inodes')
        /\ i > Len(inodes)
    BY ONLY <1>1, <1>3, <2>2
  <2>5. \A j \in DOMAIN inodes : j \in DOMAIN inodes' /\ inodes'[j] = inodes[j]
    BY ONLY <1>1, <2>2
  <2>6. ~(i <= Len(inodes))
    BY ONLY <1>1, <2>4
  <2> QED BY ONLY <1>1, <1>3, <2>2, <2>3, <2>4, <2>5, <2>6
<1> QED BY <1>2, <1>3 DEF Opens

LEMMA OpensAside ==
    ASSUME CacheTypes, NEW p \in FrontEnd, NEW i \in 1 .. MaxInodes, Opens(i),
           IF i > Len(inodes) THEN Touches(p) ELSE UNCHANGED calm
    PROVE  calm' \in [FrontEnd -> BOOLEAN] /\ \A q \in FrontEnd \ {p} : Undisturbed(q)
<1>1. calm \in [FrontEnd -> BOOLEAN] /\ i \in Nat /\ Len(inodes) \in Nat
  BY OpensIs DEF CacheTypes
<1>2. CASE i > Len(inodes)
  <2>1. calm' = [q \in FrontEnd |-> q = p /\ calm[q]]
    BY <1>2 DEF Touches
  <2> QED BY <1>1, <2>1 DEF Undisturbed
<1>3. CASE i <= Len(inodes)
  <2>1. calm' = calm
    BY <1>1, <1>3
  <2>2. named' = named /\ inodes' = inodes
    BY <1>3, OpensIs
  <2> QED BY <1>1, <2>1, <2>2 DEF Undisturbed
<1> QED BY <1>1, <1>2, <1>3

LEMMA AdoptsKeep ==
    ASSUME CacheInv, NEW p \in FrontEnd, Adopt(p), Remembering
    PROVE  CacheInv'
<1>1. CacheTypes /\ alone \in {"none", p} /\ caches[p].pc = "adopt"
  BY DEF CacheInv, Adopt, WorksAt
<1>2. PICK r : r = caches[p]
  OBVIOUS
<1>3. r \in CacheType /\ Poised(p, r) /\ (calm[p] => Calm(p, r)) /\ r.pc = "adopt" /\ r.op = "open"
  BY <1>1, <1>2, InHand DEF Poised, Seated
<1>4. PICK i \in 1 .. MaxInodes :
         /\ Opens(i)
         /\ Goes(p, [r EXCEPT !.pc = "open", !.conn = i, !.ready = TRUE,
                              !.gen = r.found, !.comp = r.foundComp])
         /\ IF i > Len(inodes) THEN Touches(p) ELSE UNCHANGED calm
  BY <1>2 DEF Adopt
<1>5. PICK k : k = [r EXCEPT !.conn = i]
  OBVIOUS
<1>6. k \in CacheType /\ k.conn = i /\ k.op = "open" /\ k.seen = r.seen /\ k.found = r.found
      /\ k.floor = r.floor /\ k.lock = r.lock /\ k.held = r.held
  BY <1>1, <1>3, <1>4, <1>5, OpensIs DEF CacheType
<1>7. r.found \in Nat /\ r.foundComp \in Nat
  BY <1>3 DEF CacheType
<1>8. PICK n : n = [k EXCEPT !.pc = "open", !.ready = TRUE, !.gen = r.found, !.comp = r.foundComp]
  OBVIOUS
<1>9. OpenedAs(k, n, i, r.found, r.foundComp)
  BY <1>6, <1>7, <1>8, OpenedIs
<1>10. Goes(p, n)
  <2>1. n = [r EXCEPT !.pc = "open", !.conn = i, !.ready = TRUE, !.gen = r.found,
                      !.comp = r.foundComp]
    BY <1>5, <1>8
  <2> QED BY <1>4, <2>1
<1>11. UNCHANGED <<build, guardVars, mint, alone>>
  BY DEF Adopt
<1>12. Handles(p, n)
  <2>1. calm' \in [FrontEnd -> BOOLEAN] /\ \A q \in FrontEnd \ {p} : Undisturbed(q)
    BY <1>1, <1>4, OpensAside
  <2> QED BY <1>1, <1>2, <1>6, <1>9, <1>10, <1>11, <2>1 DEF Handles, Goes, OpenedAs, guardVars
<1>13. Shelved
  BY <1>1, <1>4, <1>11, OpensIs DEF Shelved, mint, CacheTypes
<1>14. Mints(p, n)
  BY <1>1, <1>4, <1>9, <1>11, OpensIs DEF Mints, Quietly, mint, OpenedAs, CacheTypes
<1>15. named' = i /\ i # 0
  BY <1>1, <1>4, OpensIs
<1>16. alone = "none" => (Dated(n) /\ OneFile(n))'
  <2>1. SUFFICES ASSUME alone = "none" PROVE (Dated(n) /\ OneFile(n))'
    OBVIOUS
  <2>2. Dated(r)
    BY <1>3, <2>1 DEF Poised
  <2>3. Dated(n)'
    BY <1>3, <1>6, <1>9, <1>11, <2>2 DEF Dated, OpenedAs, mint
  <2>4. OneFile(n)'
    BY <1>9, <1>15 DEF OneFile, OnlyAt, OpenedAs
  <2> QED BY <2>3, <2>4
<1>17. alone = p => Solitary(p, n)'
  <2>1. SUFFICES ASSUME alone = p PROVE Solitary(p, n)'
    OBVIOUS
  <2>2. Solitary(p, r) /\ Seated(r)
    BY <1>3, <2>1 DEF Poised
  <2>3. build' = build
    BY <1>11
  <2>4. ~Conflict(p, inodes[named])' /\ (inodes'[i].st = "built" => inodes'[i].gen = r.found)
    <3>1. CASE i > Len(inodes)
      <4>1. inodes'[named'].st = "blank" /\ inodes'[i].st = "blank"
        BY <1>1, <1>4, <1>15, <3>1, OpensIs DEF Blank
      <4> QED BY <4>1 DEF Conflict
    <3>2. CASE i <= Len(inodes)
      BY <1>1, <1>3, <1>4, <1>15, <2>2, <2>3, <3>2, OpensIs DEF Conflict, Solitary, NamesBuilt,
         IsBuilt
    <3>3. i \in Nat /\ Len(inodes) \in Nat
      BY <1>1, <1>4, OpensIs DEF CacheTypes
    <3> QED BY <3>1, <3>2, <3>3
  <2>5. n.floor = 0 /\ n.gen \in Nat
    BY <1>3, <1>6, <1>7, <1>9, <2>2 DEF Seated, OpenedAs
  <2> QED BY <1>9, <1>15, <2>4, <2>5 DEF Solitary, Has, NamesBuilt, IsBuilt, OpenedAs
<1>18. Seated(n)'
  BY <1>1, <1>3, <1>4, <1>6, <1>9, OpensIs DEF Poised, Seated, OpenedAs, CacheTypes
<1>19. calm'[p] => Calm(p, n)'
  <2>1. SUFFICES ASSUME calm[p] PROVE Calm(p, n)'
    BY <1>1, <1>4 DEF Touches, CacheTypes
  <2>2. named # 0 /\ inodes[named] = Made(p, r.found, r.foundComp)
    BY <1>3, <2>1 DEF Calm, Holds
  <2>3. i <= Len(inodes)
    BY <1>1, <1>4, <2>2, OpensIs DEF CacheTypes
  <2>4. named' = i /\ inodes' = inodes /\ named = i /\ build' = build
    BY <1>1, <1>4, <1>11, <2>3, OpensIs
  <2> QED BY <1>6, <1>9, <2>2, <2>4 DEF Calm, Holds, Made, OpenedAs
<1> QED BY <1>11, <1>12, <1>13, <1>14, <1>16, <1>17, <1>18, <1>19, HandlesKeep DEF mint

LEMMA ReopensKeep ==
    ASSUME CacheInv, NEW p \in FrontEnd, Reopen(p), Remembering
    PROVE  CacheInv'
<1>1. CacheTypes /\ alone \in {"none", p} /\ caches[p].pc = "reopen"
  BY DEF CacheInv, Reopen, WorksAt
<1>2. PICK r : r = caches[p]
  OBVIOUS
<1>3. r \in CacheType /\ Poised(p, r) /\ (calm[p] => Calm(p, r)) /\ r.pc = "reopen"
      /\ r.op = "refresh"
  BY <1>1, <1>2, InHand DEF Poised, Seated
<1>4. PICK i \in 1 .. MaxInodes :
         /\ Opens(i)
         /\ Goes(p, [r EXCEPT !.pc = "settle", !.conn = i])
         /\ IF i > Len(inodes) THEN Touches(p) ELSE UNCHANGED calm
  BY <1>2 DEF Reopen
<1>5. PICK k : k = [r EXCEPT !.pc = "settle"]
  OBVIOUS
<1>6. k \in CacheType /\ k.op = r.op /\ k.seen = r.seen /\ k.found = r.found
      /\ k.floor = r.floor /\ k.lock = r.lock /\ k.held = r.held /\ k.gen = r.gen
      /\ k.foundComp = r.foundComp /\ k.pc = "settle"
  BY <1>3, <1>5 DEF CacheType, Places
<1>7. PICK n : n = [k EXCEPT !.conn = i]
  OBVIOUS
<1>8. i \in Nat
  BY <1>1, <1>4, OpensIs
<1>9. n \in CacheType /\ n.op = r.op /\ n.seen = r.seen /\ n.found = r.found
      /\ n.floor = r.floor /\ n.lock = r.lock /\ n.held = r.held /\ n.gen = r.gen
      /\ n.foundComp = r.foundComp /\ n.pc = "settle" /\ n.conn = i
  BY ONLY <1>6, <1>7, <1>8 DEF CacheType
<1>10. Goes(p, n)
  <2>1. n = [r EXCEPT !.pc = "settle", !.conn = i]
    BY <1>5, <1>7
  <2> QED BY <1>4, <2>1
<1>11. UNCHANGED <<build, guardVars, mint, alone>>
  BY DEF Reopen
<1>12. Handles(p, n)
  <2>1. calm' \in [FrontEnd -> BOOLEAN] /\ \A q \in FrontEnd \ {p} : Undisturbed(q)
    BY <1>1, <1>4, OpensAside
  <2> QED BY <1>1, <1>2, <1>9, <1>10, <1>11, <2>1 DEF Handles, Goes, guardVars
<1>13. Shelved
  BY <1>1, <1>4, <1>11, OpensIs DEF Shelved, mint, CacheTypes
<1>14. Mints(p, n)
  BY <1>1, <1>4, <1>9, <1>11, OpensIs DEF Mints, Quietly, mint, CacheTypes
<1>15. named' = i /\ i # 0
  BY <1>1, <1>4, OpensIs
<1>16. alone = "none" => (Dated(n) /\ OneFile(n))'
  <2>1. SUFFICES ASSUME alone = "none" PROVE (Dated(n) /\ OneFile(n))'
    OBVIOUS
  <2>2. Dated(r)
    BY <1>3, <2>1 DEF Poised
  <2>3. Dated(n)'
    BY <1>3, <1>9, <1>11, <2>2 DEF Dated, mint
  <2>4. OneFile(n)'
    BY <1>9, <1>15 DEF OneFile, OnlyAt
  <2> QED BY <2>3, <2>4
<1>17. alone = p => Solitary(p, n)'
  <2>1. SUFFICES ASSUME alone = p PROVE Solitary(p, n)'
    OBVIOUS
  <2>2. Solitary(p, r) /\ Has(r)
    BY <1>3, <2>1 DEF Poised, Has
  <2>3. build' = build
    BY <1>11
  <2>4. ~Conflict(p, inodes[named])' /\ (inodes'[i].st = "built" => inodes'[i].gen = r.gen)
    <3>1. CASE i > Len(inodes)
      <4>1. inodes'[named'].st = "blank" /\ inodes'[i].st = "blank"
        BY <1>1, <1>4, <1>15, <3>1, OpensIs DEF Blank
      <4> QED BY <4>1 DEF Conflict
    <3>2. CASE i <= Len(inodes)
      BY <1>1, <1>3, <1>4, <1>15, <2>2, <2>3, <3>2, OpensIs DEF Conflict, Solitary, NamesBuilt,
         IsBuilt
    <3>3. i \in Nat /\ Len(inodes) \in Nat
      BY <1>1, <1>4, OpensIs DEF CacheTypes
    <3> QED BY <3>1, <3>2, <3>3
  <2>5. n.floor <= n.gen /\ n.found = n.gen
    BY <1>3, <1>9, <2>2 DEF Solitary
  <2> QED BY <1>9, <1>15, <2>4, <2>5 DEF Solitary, Has, NamesBuilt, IsBuilt
<1>18. Seated(n)'
  BY <1>1, <1>3, <1>4, <1>9, OpensIs DEF Poised, Seated, CacheTypes
<1>19. calm'[p] => Calm(p, n)'
  <2>1. SUFFICES ASSUME calm[p] PROVE Calm(p, n)'
    BY <1>1, <1>4 DEF Touches, CacheTypes
  <2>2. named # 0 /\ inodes[named] = Made(p, r.found, r.foundComp)
    BY <1>3, <2>1 DEF Calm, Holds
  <2>3. i <= Len(inodes)
    BY <1>1, <1>4, <2>2, OpensIs DEF CacheTypes
  <2>4. named' = i /\ inodes' = inodes /\ named = i /\ build' = build
    BY <1>1, <1>4, <1>11, <2>3, OpensIs
  <2> QED BY <1>9, <2>2, <2>4 DEF Calm, Holds, Made
<1> QED BY <1>11, <1>12, <1>13, <1>14, <1>16, <1>17, <1>18, <1>19, HandlesKeep DEF mint

\* The name is taken from whatever is at the path.
LEMMA Unnamed ==
    ASSUME CacheTypes, inodes' = inodes, named' = 0
    PROVE  FilesStay(0) /\ Len(inodes) <= Len(inodes') /\ inodes' \in Seq(InodeType)
           /\ named' \in 0 .. Len(inodes')
<1>1. Len(inodes) \in Nat
  BY DEF CacheTypes
<1> QED BY <1>1 DEF FilesStay, CacheTypes, IsBuilt

LEMMA QuarantinesKeep ==
    ASSUME CacheInv, NEW p \in FrontEnd, quarantine(p), Remembering
    PROVE  CacheInv'
<1>1. CacheTypes /\ alone \in {"none", p} /\ caches[p].pc = "quarantine"
      /\ named' = 0 /\ inodes' = inodes
  BY DEF CacheInv, quarantine, WorksAt
<1>2. PICK r : r = caches[p]
  OBVIOUS
<1>3. r \in CacheType /\ Poised(p, r) /\ r.pc = "quarantine"
  BY <1>1, <1>2, InHand
<1>4. PICK n : n = [r EXCEPT !.pc = "create"]
  OBVIOUS
<1>5. n \in CacheType /\ n.pc = "create" /\ n.conn = r.conn /\ n.seen = r.seen /\ n.op = r.op
      /\ n.gen = r.gen /\ n.found = r.found /\ n.ready = r.ready /\ n.floor = r.floor
      /\ n.lock = r.lock /\ n.held = r.held
  BY <1>3, <1>4 DEF CacheType, Places
<1>6. Goes(p, n)
  BY <1>2, <1>4 DEF quarantine
<1>7. UNCHANGED <<build, guardVars, mint, alone>>
  BY DEF quarantine
<1>8. Handles(p, n)
  <2>1. calm' \in [FrontEnd -> BOOLEAN] /\ \A q \in FrontEnd \ {p} : Undisturbed(q)
    <3>1. calm \in [FrontEnd -> BOOLEAN]
      BY <1>1 DEF CacheTypes
    <3>2. CASE named = 0
      BY <1>1, <3>1, <3>2 DEF quarantine, Undisturbed
    <3>3. CASE named # 0
      <4>1. calm' = [q \in FrontEnd |-> q = p /\ calm[q]]
        BY <3>3 DEF quarantine, Touches
      <4> QED BY <3>1, <4>1 DEF Undisturbed
    <3> QED BY <3>2, <3>3
  <2> QED BY <1>1, <1>2, <1>5, <1>6, <1>7, <2>1 DEF Handles, Goes, guardVars
<1>9. Shelved
  BY <1>1, <1>7, Unnamed DEF Shelved, mint, CacheTypes
<1>10. Mints(p, n)
  BY <1>1, <1>5, <1>7, Unnamed DEF Mints, Quietly, mint, CacheTypes
<1>11. alone = "none" => (Dated(n) /\ OneFile(n))'
  <2>1. SUFFICES ASSUME alone = "none" PROVE (Dated(n) /\ OneFile(n))'
    OBVIOUS
  <2>2. Dated(r)
    BY <1>3, <2>1 DEF Poised
  <2>3. Dated(n)'
    BY <1>3, <1>5, <1>7, <2>2 DEF Dated, mint
  <2>4. OneFile(n)'
    BY <1>1, <1>5 DEF OneFile, OnlyAt, NamesBuilt
  <2> QED BY <2>3, <2>4
<1>12. alone = p => Solitary(p, n)'
  <2>1. SUFFICES ASSUME Solitary(p, r) PROVE Solitary(p, n)'
    BY <1>3 DEF Poised
  <2> QED BY <1>1, <1>3, <1>5, <2>1 DEF Solitary, Has, NamesBuilt, IsBuilt
<1>13. Seated(n)'
  BY <1>1, <1>3, <1>5 DEF Poised, Seated
<1>14. Calm(p, n)'
  BY <1>1, <1>5 DEF Calm
<1> QED BY <1>7, <1>8, <1>9, <1>10, <1>11, <1>12, <1>13, <1>14, HandlesKeep DEF mint

LEMMA CreatesKeep ==
    ASSUME CacheInv, NEW p \in FrontEnd, create(p), Remembering
    PROVE  CacheInv'
<1>1. CacheTypes /\ alone \in {"none", p} /\ caches[p].pc = "create"
  BY DEF CacheInv, create, WorksAt
<1>2. PICK r : r = caches[p]
  OBVIOUS
<1>3. r \in CacheType /\ Poised(p, r) /\ (calm[p] => Calm(p, r)) /\ r.pc = "create"
  BY <1>1, <1>2, InHand
<1>4. PICK i \in 1 .. MaxInodes, g \in 1 .. (MaxTime + MaxMints) :
         /\ next_generation(r.floor, g) /\ Opens(i)
         /\ Goes(p, [r EXCEPT !.pc = "commit", !.conn = i, !.found = g])
         /\ IF i > Len(inodes) THEN Touches(p) ELSE UNCHANGED calm
  BY <1>2 DEF create
<1>5. PICK t \in 1 .. MaxTime : /\ t = clock + 1 \/ alone # "none"
                               /\ clock' = t /\ g = Higher(t, r.floor + 1)
  BY <1>4 DEF next_generation
<1>6. /\ i \in Nat /\ i # 0 /\ t \in Nat /\ t # 0 /\ g \in Nat /\ g # 0 /\ g > r.floor
      /\ clock \in Nat /\ r.floor \in Nat /\ g >= t
  <2>1. r.floor \in Nat /\ MaxTime \in Nat /\ MaxInodes \in Nat
    BY <1>3, CacheConstants DEF CacheType
  <2> QED BY <1>1, <1>5, <2>1 DEF Higher, CacheTypes
<1>7. PICK k : k = [r EXCEPT !.pc = "commit"]
  OBVIOUS
<1>8. k \in CacheType /\ k.op = r.op /\ k.seen = r.seen /\ k.ready = r.ready
      /\ k.floor = r.floor /\ k.lock = r.lock /\ k.held = r.held /\ k.gen = r.gen
      /\ k.pc = "commit"
  BY <1>3, <1>7 DEF CacheType, Places
<1>9. PICK l : l = [k EXCEPT !.conn = i]
  OBVIOUS
<1>10. l \in CacheType /\ l.op = r.op /\ l.seen = r.seen /\ l.ready = r.ready
      /\ l.floor = r.floor /\ l.lock = r.lock /\ l.held = r.held /\ l.gen = r.gen
      /\ l.pc = "commit" /\ l.conn = i
  BY ONLY <1>6, <1>8, <1>9 DEF CacheType
<1>11. PICK n : n = [l EXCEPT !.found = g]
  OBVIOUS
<1>12. n \in CacheType /\ n.op = r.op /\ n.seen = r.seen /\ n.ready = r.ready
      /\ n.floor = r.floor /\ n.lock = r.lock /\ n.held = r.held /\ n.gen = r.gen
      /\ n.pc = "commit" /\ n.conn = i /\ n.found = g
  BY ONLY <1>6, <1>10, <1>11 DEF CacheType
<1>13. Goes(p, n)
  <2>1. n = [r EXCEPT !.pc = "commit", !.conn = i, !.found = g]
    BY <1>7, <1>9, <1>11
  <2> QED BY <1>4, <2>1
<1>14. UNCHANGED <<build, guardVars, generations, repeated, alone>>
  BY DEF create
<1>15. Handles(p, n)
  <2>1. calm' \in [FrontEnd -> BOOLEAN] /\ \A q \in FrontEnd \ {p} : Undisturbed(q)
    BY <1>1, <1>4, OpensAside
  <2> QED BY <1>1, <1>2, <1>12, <1>13, <1>14, <2>1 DEF Handles, Goes, guardVars
<1>16. Shelved
  BY <1>1, <1>4, <1>5, <1>6, <1>14, OpensIs DEF Shelved, CacheTypes
<1>17. named' = i
  BY <1>1, <1>4, OpensIs
<1>18. alone = "none" => /\ g = clock' /\ clock' = clock + 1 /\ g \notin generations
                         /\ \A q \in FrontEnd : caches[q].found < g
  <2>1. SUFFICES ASSUME alone = "none"
                 PROVE  /\ g = clock' /\ clock' = clock + 1 /\ g \notin generations
                        /\ \A q \in FrontEnd : caches[q].found < g
    OBVIOUS
  <2>2. r.floor <= clock /\ Stamped
    BY <1>3, <2>1 DEF Poised, Dated, CacheInv
  <2>3. g = clock' /\ clock' = clock + 1
    BY <1>5, <1>6, <2>1, <2>2 DEF Higher
  <2>4. \A h \in generations : h <= clock
    BY <2>2 DEF Stamped
  <2>5. \A q \in FrontEnd : caches[q].found <= clock /\ caches[q].found \in Nat
    BY <1>1, <2>1 DEF CacheInv, Hand, Dated, CacheTypes, CacheType
  <2> QED BY <1>6, <2>3, <2>4, <2>5
<1>19. alone = "none" => Mints(p, n)
  <2>1. SUFFICES ASSUME alone = "none" PROVE Mints(p, n)
    OBVIOUS
  <2>2. Quietly
    BY <1>1, <1>4, <1>6, <1>14, <1>18, <2>1, OpensIs DEF Quietly
  <2>3. \A q \in FrontEnd : caches[q].found \in Nat /\ caches[q].found < g
    BY <1>1, <1>18, <2>1 DEF CacheTypes, CacheType
  <2>4. \A q \in FrontEnd \ {p} : caches[q].found # g
    BY ONLY <1>6, <2>3
  <2> QED BY <1>12, <2>2, <2>4 DEF Mints
<1>20. alone = "none" => (Dated(n) /\ OneFile(n))'
  <2>1. SUFFICES ASSUME alone = "none" PROVE (Dated(n) /\ OneFile(n))'
    OBVIOUS
  <2>2. Dated(r)
    BY <1>3, <2>1 DEF Poised
  <2>3. Dated(n)'
    BY <1>3, <1>6, <1>12, <1>14, <1>18, <2>1, <2>2 DEF Dated, CacheType
  <2>4. OneFile(n)'
    BY <1>12, <1>17 DEF OneFile, OnlyAt
  <2> QED BY <2>3, <2>4
<1>21. alone = p => Solitary(p, n)'
  <2>1. SUFFICES ASSUME alone = p PROVE Solitary(p, n)'
    OBVIOUS
  <2>2. Solitary(p, r) /\ Seated(r) /\ named = 0
    BY <1>3, <2>1 DEF Poised, Solitary
  <2>3. inodes'[named'].st = "blank"
    BY <1>1, <1>4, <1>17, <2>2, OpensIs DEF Blank
  <2>4. ~Conflict(p, inodes[named])' /\ ~(NamesBuilt)' /\ inodes'[i].st = "blank"
    BY <1>17, <2>3 DEF Conflict, NamesBuilt, IsBuilt
  <2>5. n.floor >= n.gen /\ n.found > n.floor /\ (Has(n) => n.floor <= n.gen)
    BY <1>3, <1>6, <1>12, <2>2 DEF Solitary, Has
  <2>6. ~forgotten' => n.found \notin generations'
    <3>1. SUFFICES ASSUME ~forgotten' PROVE g \notin generations
      BY <1>12, <1>14
    <3>2. ~forgotten
      BY <3>1 DEF Remembering
    <3>3. Remembered
      BY <2>1, <3>2, CacheConstants DEF CacheInv, Recalled
    <3>4. \A q \in FrontEnd \ {p} : caches[q] = Closed
      BY <2>1, CacheConstants DEF CacheInv, Hand
    <3>5. \A q \in FrontEnd \ {p} : caches[q].gen = 0 /\ caches[q].floor = 0
      BY <3>4 DEF Closed
    <3>6. r.gen \in Nat /\ r.floor >= r.gen
      BY <1>3, <2>2 DEF Solitary, CacheType
    <3>7. \A h \in generations : \E q \in FrontEnd : Higher(caches[q].gen, caches[q].floor) >= h
      BY <2>2, <3>3 DEF Remembered
    <3>8. \A q \in FrontEnd : Higher(caches[q].gen, caches[q].floor) <= r.floor
      BY <1>2, <1>6, <3>5, <3>6 DEF Higher
    <3>9. \A h \in generations : h \in Nat /\ h <= r.floor
      <4>1. \A q \in FrontEnd : Higher(caches[q].gen, caches[q].floor) \in Nat
        BY <1>1 DEF CacheTypes, CacheType, Higher
      <4>2. \A h \in generations : h \in Nat
        BY <1>1 DEF CacheTypes
      <4> QED BY ONLY <1>6, <3>7, <3>8, <4>1, <4>2
    <3> QED BY <1>6, <3>9
  <2> QED BY <1>12, <1>17, <2>4, <2>5, <2>6 DEF Solitary, Has, NamesBuilt, IsBuilt
<1>22. Seated(n)'
  BY <1>1, <1>3, <1>4, <1>6, <1>12, OpensIs DEF Poised, Seated, CacheTypes
<1>23. calm'[p] => Calm(p, n)'
  <2>1. SUFFICES ASSUME calm[p] PROVE Calm(p, n)'
    BY <1>1, <1>4 DEF Touches, CacheTypes
  <2>2. named = 0
    BY <1>3, <2>1 DEF Calm
  <2>3. inodes'[named'].st = "blank"
    BY <1>1, <1>4, <1>17, <2>2, OpensIs DEF Blank
  <2> QED BY <1>12, <1>17, <2>3 DEF Calm
<1> QED BY <1>14, <1>15, <1>16, <1>19, <1>20, <1>21, <1>22, <1>23, HandlesKeep

-----------------------------------------------------------------------------
\* A generation that is stored

\* p has written its row, of generation g, into the i-th file.
Writing(p, r, n, i, g) ==
    /\ caches' = [caches EXCEPT ![p] = n] /\ OpenedAs(r, n, i, g, build[p].comp)
    /\ alone \in {"none", p} /\ build' = build /\ alone' = alone
    /\ sweep' = sweep /\ lockfile' = lockfile /\ locks' = locks
    /\ i # 0 /\ i \in DOMAIN inodes' /\ inodes' \in Seq(InodeType)
    /\ Len(inodes) <= Len(inodes') /\ inodes'[i] = Built(build[p], g)
    /\ \A j \in DOMAIN inodes' \ {i} : j \in DOMAIN inodes /\ inodes'[j] = inodes[j]
    /\ named' \in {named, i} /\ named' \in 0 .. Len(inodes')
    /\ Stores(g) /\ Touches(p) /\ clock' \in Nat

LEMMA WritingKeeps ==
    ASSUME CacheInv, NEW p \in FrontEnd, NEW r, r = caches[p], NEW n, NEW i, NEW g \in Nat,
           Writing(p, r, n, i, g), g # 0, Remembering,
           alone = "none" => clock <= clock' /\ g <= clock' /\ NewTo(p, g),
           alone = p => /\ named' # 0 => named' = i
                        /\ r.floor <= g
                        /\ ~forgotten' => g \notin generations,
           calm[p] => named' = i
    PROVE  CacheInv'
<1>1. CacheTypes /\ alone \in {"none", p}
  BY DEF CacheInv, Writing
<1>2. r \in CacheType /\ Poised(p, r)
  BY <1>1, InHand
<1>3. PICK f : f = inodes'[i]
  OBVIOUS
<1>4. f.st = "built" /\ f.gen = g /\ f.comp = build[p].comp /\ f.schema = build[p].schema
      /\ f = Made(p, g, build[p].comp)
  <2>1. f = [st |-> "built", schema |-> build[p].schema, comp |-> build[p].comp, gen |-> g,
             mine |-> TRUE]
    BY <1>3 DEF Writing, Built
  <2> QED BY <2>1, MadeIs
<1>5. /\ n \in CacheType /\ n.pc = "open" /\ n.ready = TRUE /\ n.conn = i /\ n.gen = g
      /\ n.comp = build[p].comp /\ n.op = r.op /\ n.seen = r.seen /\ n.found = r.found
      /\ n.floor = r.floor /\ n.lock = r.lock /\ n.held = r.held
  BY DEF Writing, OpenedAs
<1>6. calm' = [q \in FrontEnd |-> q = p /\ calm[q]]
  BY DEF Writing, Touches
<1>7. Handles(p, n)
  <2>1. calm' \in [FrontEnd -> BOOLEAN] /\ \A q \in FrontEnd \ {p} : Undisturbed(q)
    BY <1>1, <1>6 DEF Undisturbed, CacheTypes
  <2> QED BY <1>5, <2>1 DEF Handles, Writing
<1>8. Shelved
  BY <1>1 DEF Shelved, Writing, Stores, CacheTypes
<1>9. alone = "none" => Mints(p, n)
  <2>1. SUFFICES ASSUME alone = "none" PROVE Mints(p, n)
    OBVIOUS
  <2>2. FilesStay(i)
    BY DEF FilesStay, Writing, IsBuilt
  <2>3. Stored(i, g)
    BY <1>3, <1>4, <2>1, <2>2 DEF Stored, Writing
  <2> QED BY <1>5, <2>1, <2>3 DEF Mints
<1>10. alone = "none" => (Dated(n) /\ OneFile(n))'
  <2>1. SUFFICES ASSUME alone = "none" PROVE (Dated(n) /\ OneFile(n))'
    OBVIOUS
  <2>2. Dated(r) /\ Stamped /\ g \notin generations /\ clock <= clock' /\ g <= clock'
    BY <1>2, <2>1 DEF Poised, CacheInv, NewTo
  <2>3. generations' = generations \cup {g} /\ clock \in Nat /\ clock' \in Nat
    BY <1>1 DEF Writing, Stores, CacheTypes
  <2>4. Dated(n)'
    <3>1. n.found <= clock' /\ n.floor <= clock' /\ n.gen <= clock'
      BY <1>2, <1>5, <2>2, <2>3 DEF Dated, CacheType
    <3> QED BY <1>5, <2>3, <3>1 DEF Dated
  <2>5. named' # 0 /\ inodes'[named'].st = "built" /\ inodes'[named'].gen = g => named' = i
    <3>1. SUFFICES ASSUME named' # 0, inodes'[named'].st = "built", named' # i
                   PROVE  inodes'[named'].gen # g
      OBVIOUS
    <3>2. named' \in DOMAIN inodes' \ {i}
      BY <3>1 DEF Writing
    <3>3. named' \in DOMAIN inodes /\ inodes'[named'] = inodes[named']
      BY <3>2 DEF Writing
    <3> QED BY <2>2, <3>1, <3>3 DEF Stamped, IsBuilt
  <2>6. OneFile(n)'
    BY <1>5, <2>5 DEF OneFile, OnlyAt, NamesBuilt, IsBuilt
  <2> QED BY <2>4, <2>6
<1>11. alone = p => Solitary(p, n)'
  <2>1. SUFFICES ASSUME alone = p PROVE Solitary(p, n)'
    OBVIOUS
  <2>2. named' # 0 => named' = i
    BY <2>1
  <2>3. ~(named' # 0 /\ Conflict(p, inodes[named])')
    <3>1. build[p].schema \in Nat /\ build' = build
      BY <1>1 DEF CacheTypes, BuildType, Writing
    <3>2. SUFFICES ASSUME named' # 0, Conflict(p, inodes[named])' PROVE FALSE
      OBVIOUS
    <3>3. named' = i
      BY <2>2, <3>2
    <3>4. inodes'[named'].schema = build[p].schema
      BY <1>3, <1>4, <3>3
    <3>5. inodes'[named'].schema > build'[p].schema
      BY <3>2 DEF Conflict
    <3>6. build[p].schema > build[p].schema
      BY <3>1, <3>4, <3>5
    <3> QED BY ONLY <3>1, <3>6
  <2>4. n.floor <= n.gen
    BY <1>5, <2>1
  <2> QED BY <1>3, <1>4, <1>5, <2>2, <2>3, <2>4 DEF Solitary, Has, NamesBuilt, IsBuilt
<1>12. Seated(n)'
  BY <1>1, <1>2, <1>5 DEF Poised, Seated, Writing, CacheTypes
<1>13. calm'[p] => Calm(p, n)'
  <2>1. SUFFICES ASSUME calm[p] PROVE Calm(p, n)'
    BY <1>1, <1>6 DEF CacheTypes
  <2>2. named' = i /\ build' = build
    BY <2>1 DEF Writing
  <2>3. Holds(p, g, build[p].comp)'
    BY <1>3, <1>4, <2>2 DEF Holds, Made, Writing
  <2> QED BY <1>5, <2>2, <2>3 DEF Calm
<1>14. alone = p /\ ~forgotten' => repeated' = repeated
  <2>1. SUFFICES ASSUME alone = p, ~forgotten' PROVE repeated' = repeated
    OBVIOUS
  <2>2. g \notin generations /\ repeated \in BOOLEAN
    BY <1>1, <2>1 DEF CacheTypes
  <2> QED BY <2>2 DEF Writing, Stores
<1> QED BY <1>7, <1>8, <1>9, <1>10, <1>11, <1>12, <1>13, <1>14, HandlesKeep

LEMMA CommitsKeep ==
    ASSUME CacheInv, NEW p \in FrontEnd, insert_meta(p), Remembering
    PROVE  CacheInv'
<1>1. CacheTypes /\ alone \in {"none", p} /\ caches[p].pc = "commit"
  BY DEF CacheInv, insert_meta, WorksAt
<1>2. PICK r : r = caches[p]
  OBVIOUS
<1>3. r \in CacheType /\ Poised(p, r) /\ (calm[p] => Calm(p, r)) /\ r.pc = "commit"
  BY <1>1, <1>2, InHand
<1>4. /\ r.conn \in DOMAIN inodes /\ inodes[r.conn] \in InodeType /\ r.conn # 0
      /\ r.found # 0 /\ r.found \in Nat /\ build[p] \in BuildType
  <2>1. r.conn \in 0 .. Len(inodes) /\ r.conn # 0 /\ r.found # 0
    BY <1>3 DEF Poised, Seated
  <2>2. inodes \in Seq(InodeType) /\ build[p] \in BuildType
    BY <1>1 DEF CacheTypes
  <2>3. r.conn \in DOMAIN inodes
    BY <2>1, <2>2
  <2>4. r.found \in Nat
    BY <1>3 DEF CacheType
  <2> QED BY <2>1, <2>2, <2>3, <2>4
<1>5. UNCHANGED <<build, guardVars, clock, alone>>
  BY DEF insert_meta
<1>6. ASSUME inodes[r.conn].st = "blank",
             inodes' = [inodes EXCEPT ![r.conn] = Built(build[p], r.found)], UNCHANGED named,
             Stores(r.found), Touches(p),
             Goes(p, [r EXCEPT !.pc = "open", !.ready = TRUE, !.gen = inodes'[r.conn].gen,
                               !.comp = inodes'[r.conn].comp])
      PROVE  CacheInv'
  <2>1. PICK c : c = build[p].comp
    OBVIOUS
  <2>2. PICK g : g = r.found
    OBVIOUS
  <2>3. PICK f : f = Built(build[p], g)
    OBVIOUS
  <2>4. c \in Nat /\ g \in Nat /\ f.gen = g /\ f.comp = c /\ f \in InodeType
    BY <1>4, <2>1, <2>2, <2>3 DEF Built, BuildType, InodeType
  <2>5. /\ inodes' \in Seq(InodeType) /\ Len(inodes') = Len(inodes)
        /\ DOMAIN inodes' = DOMAIN inodes /\ inodes'[r.conn] = f
        /\ \A j \in DOMAIN inodes \ {r.conn} : inodes'[j] = inodes[j]
    BY <1>1, <1>4, <1>6, <2>2, <2>3, <2>4 DEF CacheTypes
  <2>6. PICK n : n = [r EXCEPT !.pc = "open", !.ready = TRUE, !.gen = g, !.comp = c]
    OBVIOUS
  <2>7. OpenedAs(r, n, r.conn, g, c)
    BY <1>3, <2>4, <2>6, OpenedIs
  <2>8. Goes(p, n)
    BY <1>6, <2>4, <2>5, <2>6
  <2>9. Writing(p, r, n, r.conn, g)
    <3>1. Len(inodes) \in Nat /\ named \in 0 .. Len(inodes) /\ clock \in Nat
      BY <1>1 DEF CacheTypes
    <3>2. inodes'[r.conn] = Built(build[p], g)
      BY <2>3, <2>5
    <3>3. \A j \in DOMAIN inodes' \ {r.conn} : j \in DOMAIN inodes /\ inodes'[j] = inodes[j]
      BY <2>5
    <3>4. r.conn \in DOMAIN inodes' /\ r.conn # 0 /\ inodes' \in Seq(InodeType)
          /\ Len(inodes) <= Len(inodes') /\ named' = named /\ named' \in 0 .. Len(inodes')
      BY <1>4, <1>6, <2>5, <3>1
    <3>5. OpenedAs(r, n, r.conn, g, build[p].comp) /\ caches' = [caches EXCEPT ![p] = n]
      BY <2>1, <2>7, <2>8 DEF Goes
    <3>6. Stores(g) /\ Touches(p) /\ clock' \in Nat
      BY <1>5, <1>6, <2>2, <3>1
    <3>7. /\ alone \in {"none", p} /\ build' = build /\ alone' = alone
          /\ sweep' = sweep /\ lockfile' = lockfile /\ locks' = locks
      BY <1>1, <1>5 DEF guardVars
    <3> QED BY <3>2, <3>3, <3>4, <3>5, <3>6, <3>7 DEF Writing
  <2>10. alone = "none" => clock <= clock' /\ g <= clock' /\ NewTo(p, g)
    <3>1. SUFFICES ASSUME alone = "none" PROVE clock <= clock' /\ g <= clock' /\ NewTo(p, g)
      OBVIOUS
    <3>2. Dated(r) /\ Apart /\ clock' = clock /\ clock \in Nat
      BY <1>1, <1>3, <1>5, <3>1 DEF Poised, CacheInv, CacheTypes
    <3>3. NewTo(p, g)
      BY <1>2, <1>3, <1>4, <2>2, <3>2 DEF NewTo, Dated, Apart
    <3> QED BY <2>2, <3>2, <3>3 DEF Dated
  <2>11. alone = p => /\ named' # 0 => named' = r.conn
                      /\ r.floor <= g
                      /\ ~forgotten' => g \notin generations
    <3>1. SUFFICES ASSUME alone = p PROVE /\ named' # 0 => named' = r.conn
                                          /\ r.floor <= g
                                          /\ ~forgotten' => g \notin generations
      OBVIOUS
    <3>2. Solitary(p, r)
      BY <1>3, <3>1 DEF Poised
    <3>3. ~forgotten' => ~forgotten
      BY DEF Remembering
    <3> QED BY <1>3, <1>4, <1>6, <2>2, <3>2, <3>3 DEF Solitary, CacheType
  <2>12. calm[p] => named' = r.conn
    BY <1>3, <1>6 DEF Calm
  <2> QED BY <1>2, <1>4, <2>2, <2>9, <2>10, <2>11, <2>12, WritingKeeps
<1>7. ASSUME inodes[r.conn].st = "built",
             Goes(p, [r EXCEPT !.pc = "open", !.ready = TRUE, !.gen = inodes[r.conn].gen,
                               !.comp = inodes[r.conn].comp]),
             UNCHANGED <<shelf, generations, repeated, calm>>
      PROVE  CacheInv'
  <2>1. PICK c : c = inodes[r.conn].comp
    OBVIOUS
  <2>2. PICK g : g = inodes[r.conn].gen
    OBVIOUS
  <2>3. c \in Nat /\ g \in Nat
    BY <1>4, <2>1, <2>2 DEF InodeType
  <2>4. PICK n : n = [r EXCEPT !.pc = "open", !.ready = TRUE, !.gen = g, !.comp = c]
    OBVIOUS
  <2>5. OpenedAs(r, n, r.conn, g, c)
    BY <1>3, <2>3, <2>4, OpenedIs
  <2>6. Looks(p)
    BY <1>1, <1>5, <1>7 DEF Looks, shelf, guardVars, CacheTypes
  <2>7. Seated(n)
    BY <1>3, <1>4, <2>5 DEF Poised, Seated, OpenedAs
  <2>8. alone = "none" => Dated(n) /\ OneFile(n)
    <3>1. SUFFICES ASSUME alone = "none" PROVE Dated(n) /\ OneFile(n)
      OBVIOUS
    <3>2. Dated(r) /\ Stamped
      BY <1>3, <3>1 DEF Poised, CacheInv
    <3>3. g \in generations /\ g <= clock
      BY <1>4, <1>7, <2>2, <3>2 DEF Stamped, IsBuilt
    <3>4. NamesBuilt /\ inodes[named].gen = g => r.conn = named
      BY <1>1, <1>4, <1>7, <2>2, <3>2 DEF Stamped, IsBuilt, NamesBuilt, CacheTypes
    <3>5. Dated(n)
      BY <2>5, <3>2, <3>3 DEF Dated, OpenedAs
    <3>6. OneFile(n)
      BY <2>5, <3>4 DEF OneFile, OnlyAt, OpenedAs
    <3> QED BY <3>5, <3>6
  <2>9. alone # p
    BY <1>3, <1>7 DEF Poised, Solitary
  <2>10. ~calm[p] /\ calm' = calm
    BY <1>3, <1>7 DEF Calm
  <2>11. Poised(p, n)
    BY <2>7, <2>8, <2>9 DEF Poised
  <2>12. n \in CacheType /\ n.pc # "commit" /\ n.held = caches[p].held /\ n.lock = caches[p].lock
    BY <1>2, <2>5 DEF OpenedAs
  <2>13. Goes(p, n)
    BY <1>7, <2>1, <2>2, <2>4
  <2> QED BY <2>6, <2>10, <2>11, <2>12, <2>13, LooksKeep
<1>8. ASSUME FailsAs(p, mark_closed(r)), UNCHANGED <<shelf, generations, repeated>>
      PROVE  CacheInv'
  <2>1. calm' = [calm EXCEPT ![p] = FALSE]
    BY <1>8 DEF FailsAs
  <2>2. Looks(p) /\ ~calm'[p]
    BY <1>1, <1>5, <1>8, <2>1 DEF Looks, shelf, guardVars, CacheTypes
  <2>3. FailsAs(p, IF caches[p].pc = "commit" THEN mark_closed(caches[p]) ELSE caches[p])
    BY <1>2, <1>3, <1>8
  <2> QED BY <1>1, <2>2, <2>3, GivesUpKeeps
<1> QED BY <1>2, <1>6, <1>7, <1>8 DEF insert_meta

\* What a process that works alone remembers is not less than what was stored.
LEMMA GenAbove ==
    ASSUME CacheInv, NEW p \in FrontEnd, alone = p, ~forgotten, NEW r, r = caches[p],
           NEW m \in Nat, r.gen <= m, r.floor <= m,
           named # 0 /\ inodes[named].st = "built" => inodes[named].gen <= m,
           NEW g \in Nat, g > m
    PROVE  g \notin generations
<1>1. Remembered /\ CacheTypes
  BY CacheConstants DEF CacheInv, Recalled
<1>2. \A q \in FrontEnd \ {p} : caches[q].gen = 0 /\ caches[q].floor = 0
  BY CacheConstants DEF CacheInv, Hand, Closed
<1>3. \A q \in FrontEnd : Higher(caches[q].gen, caches[q].floor) \in Nat
  BY <1>1 DEF CacheTypes, CacheType, Higher
<1>4. \A q \in FrontEnd : Higher(caches[q].gen, caches[q].floor) <= m
  BY <1>2 DEF Higher
<1>5. named # 0 => inodes[named].gen \in Nat
  <2>1. inodes \in Seq(InodeType) /\ named \in 0 .. Len(inodes) /\ Len(inodes) \in Nat
    BY <1>1 DEF CacheTypes
  <2>2. named # 0 => inodes[named] \in InodeType
    BY <2>1
  <2> QED BY <2>2 DEF InodeType
<1>6. \A h \in generations : h \in Nat
  BY <1>1 DEF CacheTypes
<1>7. \A h \in generations :
         \/ named # 0 /\ inodes[named].st = "built" /\ inodes[named].gen >= h
         \/ \E q \in FrontEnd : Higher(caches[q].gen, caches[q].floor) >= h
  BY <1>1 DEF Remembered
<1>8. \A h \in generations : h <= m
  <2>1. SUFFICES ASSUME NEW h \in generations PROVE h <= m
    OBVIOUS
  <2>2. CASE named # 0 /\ inodes[named].st = "built" /\ inodes[named].gen >= h
    <3>1. inodes[named].gen <= m /\ inodes[named].gen \in Nat /\ h \in Nat
      BY <1>5, <1>6, <2>2
    <3> QED BY <2>2, <3>1
  <2>3. ASSUME NEW q \in FrontEnd, Higher(caches[q].gen, caches[q].floor) >= h PROVE h <= m
    <3>1. PICK e : e = Higher(caches[q].gen, caches[q].floor)
      OBVIOUS
    <3>2. e \in Nat /\ e <= m /\ e >= h /\ h \in Nat
      BY <1>3, <1>4, <1>6, <2>3, <3>1
    <3> QED BY <3>2
  <2> QED BY <1>7, <2>2, <2>3
<1> QED BY <1>6, <1>8

LEMMA DisposesKeep ==
    ASSUME CacheInv, NEW p \in FrontEnd, dispose(p), Remembering
    PROVE  CacheInv'
<1>1. CacheTypes /\ alone \in {"none", p} /\ caches[p].pc = "open"
  BY DEF CacheInv, dispose, WorksAt
<1>2. PICK r : r = caches[p]
  OBVIOUS
<1>3. r \in CacheType /\ Poised(p, r) /\ (calm[p] => Calm(p, r)) /\ r.pc = "open"
  BY <1>1, <1>2, InHand
<1>4. PICK g \in 1 .. (MaxTime + MaxMints), i \in 1 .. MaxInodes :
         /\ DisposeGeneration(p, g)
         /\ IF r.conn # 0
            THEN /\ i = r.conn /\ inodes[i].st # "bad"
                 /\ inodes' = [inodes EXCEPT ![i] = Built(build[p], g)] /\ UNCHANGED named
            ELSE \/ /\ named # 0 /\ i = named /\ inodes[i].st # "bad"
                    /\ inodes' = [inodes EXCEPT ![i] = Built(build[p], g)] /\ UNCHANGED named
                 \/ /\ named = 0 /\ Len(inodes) < MaxInodes /\ i = Len(inodes) + 1
                    /\ inodes' = Append(inodes, Built(build[p], g)) /\ named' = i
         /\ Stores(g)
         /\ Goes(p, [r EXCEPT !.conn = i, !.ready = TRUE, !.gen = g, !.comp = build[p].comp])
         /\ Touches(p)
  BY <1>2 DEF dispose
<1>5. PICK t \in 1 .. MaxTime : /\ t = clock + 1 \/ alone # "none"
                               /\ clock' = t /\ g = Higher(t, r.gen + 1)
  BY <1>2, <1>4 DEF next_generation, DisposeGeneration
<1>6. /\ i \in Nat /\ i # 0 /\ t \in Nat /\ t # 0 /\ g \in Nat /\ g # 0 /\ g > r.gen
      /\ clock \in Nat /\ r.gen \in Nat
  <2>1. r.gen \in Nat /\ MaxTime \in Nat /\ MaxInodes \in Nat /\ clock \in Nat
    BY <1>1, <1>3, CacheConstants DEF CacheType, CacheTypes
  <2> QED BY <1>5, <2>1 DEF Higher
<1>7. build' = build /\ alone' = alone /\ sweep' = sweep /\ lockfile' = lockfile /\ locks' = locks
  BY DEF dispose, guardVars
<1>8. build[p] \in BuildType /\ build[p].comp \in Nat
  BY <1>1 DEF CacheTypes, BuildType
<1>9. PICK f : f = Built(build[p], g)
  OBVIOUS
<1>10. f \in InodeType
  BY <1>6, <1>8, <1>9 DEF Built, BuildType, InodeType
<1>11. /\ i \in DOMAIN inodes' /\ inodes' \in Seq(InodeType) /\ inodes'[i] = f
       /\ Len(inodes) <= Len(inodes')
       /\ \A j \in DOMAIN inodes' \ {i} : j \in DOMAIN inodes /\ inodes'[j] = inodes[j]
       /\ named' \in {named, i} /\ named' \in 0 .. Len(inodes')
  <2>1. Len(inodes) \in Nat /\ named \in 0 .. Len(inodes) /\ inodes \in Seq(InodeType)
        /\ DOMAIN inodes = 1 .. Len(inodes)
    BY <1>1 DEF CacheTypes
  <2>2. CASE i \in DOMAIN inodes /\ inodes' = [inodes EXCEPT ![i] = f] /\ named' = named
    BY <1>10, <2>1, <2>2
  <2>3. CASE i = Len(inodes) + 1 /\ inodes' = Append(inodes, f) /\ named' = i
    BY <1>10, <2>1, <2>3
  <2>4. r.conn # 0 => r.conn \in DOMAIN inodes
    BY <1>3, <2>1 DEF Poised, Seated
  <2>5. named # 0 => named \in DOMAIN inodes
    BY <2>1
  <2> QED BY <1>4, <1>9, <2>2, <2>3, <2>4, <2>5
<1>12. PICK c : c = build[p].comp
  OBVIOUS
<1>13. PICK k : k = [r EXCEPT !.conn = i]
  OBVIOUS
<1>14. k \in CacheType /\ k.conn = i /\ k.op = r.op /\ k.seen = r.seen /\ k.found = r.found
       /\ k.floor = r.floor /\ k.lock = r.lock /\ k.held = r.held /\ k.pc = "open"
  BY <1>3, <1>6, <1>13 DEF CacheType
<1>15. PICK n : n = [k EXCEPT !.pc = "open", !.ready = TRUE, !.gen = g, !.comp = c]
  OBVIOUS
<1>16. OpenedAs(r, n, i, g, c)
  <2>1. c \in Nat
    BY <1>8, <1>12
  <2>2. OpenedAs(k, n, k.conn, g, c)
    BY <1>6, <1>14, <1>15, <2>1, OpenedIs
  <2> QED BY <1>14, <2>2 DEF OpenedAs
<1>17. caches' = [caches EXCEPT ![p] = n]
  <2>1. n = [r EXCEPT !.conn = i, !.ready = TRUE, !.gen = g, !.comp = c]
    BY <1>3, <1>13, <1>15 DEF CacheType
  <2> QED BY <1>4, <1>12, <2>1 DEF Goes
<1>18. Writing(p, r, n, i, g)
  <2>1. clock' \in Nat /\ Stores(g) /\ Touches(p) /\ alone \in {"none", p}
    BY <1>1, <1>4, <1>5, <1>6
  <2> QED BY <1>6, <1>7, <1>9, <1>11, <1>12, <1>16, <1>17, <2>1 DEF Writing
<1>19. alone = "none" => clock <= clock' /\ g <= clock' /\ NewTo(p, g)
  <2>1. SUFFICES ASSUME alone = "none" PROVE clock <= clock' /\ g <= clock' /\ NewTo(p, g)
    OBVIOUS
  <2>2. r.gen <= clock /\ Stamped
    BY <1>3, <2>1 DEF Poised, Dated, CacheInv
  <2>3. g = clock' /\ clock' = clock + 1
    BY <1>5, <1>6, <2>1, <2>2 DEF Higher
  <2>4. \A h \in generations : h <= clock
    BY <2>2 DEF Stamped
  <2>5. \A q \in FrontEnd : caches[q].found <= clock /\ caches[q].found \in Nat
    BY <1>1, <2>1 DEF CacheInv, Hand, Dated, CacheTypes, CacheType
  <2>6. g \notin generations
    BY <1>6, <2>3, <2>4
  <2>7. \A q \in FrontEnd : caches[q].found # g
    BY <1>6, <2>3, <2>5
  <2> QED BY <1>6, <2>3, <2>6, <2>7 DEF NewTo
<1>20. alone = p => /\ named' # 0 => named' = i
                    /\ r.floor <= g
                    /\ ~forgotten' => g \notin generations
  <2>1. SUFFICES ASSUME alone = p PROVE /\ named' # 0 => named' = i
                                        /\ r.floor <= g
                                        /\ ~forgotten' => g \notin generations
    OBVIOUS
  <2>2. Solitary(p, r) /\ Has(r)
    BY <1>3, <2>1 DEF Poised, Has
  <2>3. r.floor \in Nat /\ r.floor <= r.gen
    BY <1>3, <2>2 DEF Solitary, CacheType
  <2>4. named' # 0 => named' = i
    BY <1>4, <2>2 DEF Solitary
  <2>5. ~forgotten' => g \notin generations
    <3>1. SUFFICES ASSUME ~forgotten' PROVE g \notin generations
      OBVIOUS
    <3>2. ~forgotten
      BY <3>1 DEF Remembering
    <3>3. named # 0 /\ inodes[named].st = "built" => inodes[named].gen <= r.gen
      BY <1>6, <2>2 DEF Solitary, NamesBuilt, IsBuilt
    <3>4. r.gen <= r.gen
      BY <1>6
    <3> QED BY <1>2, <1>6, <2>1, <2>3, <3>2, <3>3, <3>4, GenAbove
  <2> QED BY <1>6, <2>3, <2>4, <2>5
<1>21. calm[p] => named' = i
  <2>1. SUFFICES ASSUME calm[p] PROVE named' = i
    OBVIOUS
  <2>2. r.conn = named /\ named # 0
    BY <1>3, <2>1 DEF Calm, Holds
  <2> QED BY <1>4, <2>2
<1> QED BY <1>2, <1>6, <1>18, <1>19, <1>20, <1>21, WritingKeeps

-----------------------------------------------------------------------------
\* The sweep, and what happens to the file from outside

\* No process takes this step, and no generation is stored in it.
Outside ==
    /\ caches' = caches /\ build' = build /\ alone' = alone
    /\ clock' = clock /\ generations' = generations /\ repeated' = repeated
    /\ inodes' \in Seq(InodeType) /\ Len(inodes') = Len(inodes) /\ named' \in 0 .. Len(inodes')
    /\ lockfile' \in Nat /\ locks' \in Nat
    /\ sweep' \in [pc : {"idle", "claim", "remove", "release", "unlink"}, lock : Nat]
    /\ FilesStay(0)
    /\ calm' \in [FrontEnd -> BOOLEAN] /\ \A q \in FrontEnd : Undisturbed(q)

LEMMA OutsideKeeps ==
    ASSUME CacheInv, Outside, Remembering, Sweeping',
           \A p \in FrontEnd : alone = p => Solitary(p, caches[p])'
    PROVE  CacheInv'
<1>1. CacheTypes
  BY DEF CacheInv
<1>2. CacheTypes'
  <2>1. forgotten' \in BOOLEAN
    BY DEF Remembering
  <2> QED BY <1>1, <2>1 DEF CacheTypes, Outside
<1>3. Quietly
  BY <1>1 DEF Quietly, Outside, CacheTypes
<1>4. \A p \in FrontEnd : Hand(p, caches[p])'
  <2>1. SUFFICES ASSUME NEW p \in FrontEnd PROVE Hand(p, caches[p])'
    OBVIOUS
  <2>2. PICK r : r = caches[p]
    OBVIOUS
  <2>3. r \in CacheType /\ Hand(p, r) /\ caches'[p] = r
    BY <1>1, <2>2 DEF CacheInv, CacheTypes, Outside
  <2>4. Seated(r)'
    BY <2>3 DEF Hand, Seated, Outside
  <2>5. alone = "none" => (Dated(r) /\ OneFile(r))'
    BY <1>1, <1>2, <1>3, <2>3, QuietDates DEF Hand
  <2>6. alone = p => Solitary(p, r)'
    BY <2>3 DEF Solitary, Has, Conflict
  <2>7. calm'[p] => Calm(p, r)'
    <3>1. calm'[p] => calm[p] /\ inodes' = inodes /\ named' = named /\ build' = build
      BY DEF Outside, Undisturbed
    <3>2. calm[p] => Calm(p, r)
      BY <2>3 DEF Hand
    <3> QED BY <3>1, <3>2 DEF Calm, Holds, Made
  <2>8. Hand(p, r)'
    BY <2>3, <2>4, <2>5, <2>6, <2>7 DEF Hand, Outside
  <2> QED BY <2>3, <2>8 DEF Hand, Seated, Dated, OneFile, Solitary, Calm, Conflict
<1>5. IF alone' = "none" THEN Stamped' /\ Apart' ELSE Recalled'
  <2>1. CASE alone = "none"
    <3>1. Stamped /\ Apart
      BY <2>1 DEF CacheInv
    <3>2. Stamped'
      BY <1>1, <1>2, <1>3, <3>1, QuietStamps
    <3>3. Apart'
      BY <3>1 DEF Apart, Outside
    <3> QED BY <2>1, <3>2, <3>3 DEF Outside
  <2>2. CASE alone # "none"
    <3>1. (repeated => forgotten) /\ repeated' = repeated
      BY <2>2 DEF CacheInv, Recalled, Outside
    <3>2. ~forgotten' => Remembered' /\ ~forgotten
      BY DEF Remembering
    <3>3. Recalled'
      BY <3>1, <3>2 DEF Recalled
    <3> QED BY <2>2, <3>3 DEF Outside
  <2> QED BY <2>1, <2>2
<1> QED BY <1>2, <1>4, <1>5 DEF CacheInv

\* Before a step from outside.
LEMMA Before ==
    ASSUME CacheInv
    PROVE  /\ CacheTypes /\ Sweeping
           /\ \A p \in FrontEnd : alone = p => Solitary(p, caches[p])
           /\ \A p \in FrontEnd : Seated(caches[p])
<1>1. \A p \in FrontEnd : Hand(p, caches[p])
  BY DEF CacheInv
<1> QED BY <1>1 DEF CacheInv, Hand

LEMMA SweepsKeep ==
    ASSUME CacheInv, evict_to_budget \/ exclusive \/ unlock \/ unlink_lock, Remembering
    PROVE  CacheInv'
<1>1. CacheTypes /\ Sweeping
  BY DEF CacheInv
<1>2. /\ caches' = caches /\ build' = build /\ alone' = alone /\ inodes' = inodes
      /\ named' = named /\ clock' = clock /\ generations' = generations /\ repeated' = repeated
      /\ calm' = calm
  BY DEF evict_to_budget, exclusive, unlock, unlink_lock, shelf, mint
<1>3. /\ lockfile' \in Nat /\ locks' \in Nat
      /\ sweep' \in [pc : {"idle", "claim", "remove", "release", "unlink"}, lock : Nat]
      /\ Sweeping'
  <2>1. CASE evict_to_budget
    <3>1. lockfile' \in Nat /\ locks' \in Nat /\ lockfile' # 0
      BY <1>1, <2>1 DEF evict_to_budget, CacheTypes
    <3>2. sweep' = [pc |-> "claim", lock |-> lockfile']
      BY <2>1 DEF evict_to_budget
    <3> QED BY <3>1, <3>2 DEF Sweeping
  <2>2. CASE exclusive
    <3>1. lockfile' = lockfile /\ locks' = locks /\ sweep.lock = lockfile /\ lockfile # 0
      BY <1>1, <2>2 DEF exclusive, Sweeping
    <3>2. \/ Claimable /\ sweep' = [sweep EXCEPT !.pc = "remove"]
          \/ sweep' = [pc |-> "idle", lock |-> 0]
      BY <2>2 DEF exclusive
    <3>3. CASE sweep' = [pc |-> "idle", lock |-> 0]
      BY <1>1, <3>1, <3>3 DEF Sweeping, CacheTypes
    <3>4. CASE Claimable /\ sweep' = [sweep EXCEPT !.pc = "remove"]
      BY <1>1, <1>2, <3>1, <3>4 DEF Sweeping, CacheTypes, Claimable
    <3> QED BY <3>2, <3>3, <3>4
  <2>3. CASE unlock
    <3>1. lockfile' = lockfile /\ locks' = locks /\ sweep.lock = lockfile /\ lockfile # 0
          /\ sweep' = [sweep EXCEPT !.pc = "unlink"]
      BY <1>1, <2>3 DEF unlock, Sweeping
    <3> QED BY <1>1, <3>1 DEF Sweeping, CacheTypes
  <2>4. CASE unlink_lock
    BY <1>1, <2>4 DEF unlink_lock, Sweeping, CacheTypes
  <2> QED BY <2>1, <2>2, <2>3, <2>4
<1>4. FilesStay(0)
  BY <1>1, <1>2 DEF FilesStay, CacheTypes, IsBuilt
<1>5. Outside
  BY <1>1, <1>2, <1>3, <1>4 DEF Outside, CacheTypes, Undisturbed
<1>6. \A p \in FrontEnd : alone = p => Solitary(p, caches[p])'
  <2>1. SUFFICES ASSUME NEW p \in FrontEnd, alone = p PROVE Solitary(p, caches[p])'
    OBVIOUS
  <2>2. Solitary(p, caches[p])
    BY <2>1, Before
  <2>3. forgotten => forgotten'
    BY DEF Remembering
  <2> QED BY <1>2, <2>2, <2>3 DEF Solitary, Has, NamesBuilt, IsBuilt, Conflict
<1> QED BY <1>3, <1>5, <1>6, OutsideKeeps

\* The name goes, and nothing else.
LEMMA UnnamingKeeps ==
    ASSUME CacheInv, named' = 0, inodes' = inodes, caches' = caches, build' = build, alone' = alone,
           clock' = clock, generations' = generations, repeated' = repeated,
           lockfile' = lockfile, locks' = locks, Sweeping',
           sweep' \in [pc : {"idle", "claim", "remove", "release", "unlink"}, lock : Nat],
           calm' = IF named = 0 THEN calm ELSE Everyone, Remembering
    PROVE  CacheInv'
<1>1. CacheTypes
  BY DEF CacheInv
<1>2. FilesStay(0) /\ Len(inodes') = Len(inodes) /\ inodes' \in Seq(InodeType)
      /\ named' \in 0 .. Len(inodes')
  BY <1>1, Unnamed
<1>3. calm' \in [FrontEnd -> BOOLEAN] /\ \A q \in FrontEnd : Undisturbed(q)
  BY <1>1 DEF CacheTypes, Undisturbed, Everyone
<1>4. Outside
  BY <1>1, <1>2, <1>3 DEF Outside, CacheTypes
<1>5. \A p \in FrontEnd : alone = p => Solitary(p, caches[p])'
  <2>1. SUFFICES ASSUME NEW p \in FrontEnd, alone = p PROVE Solitary(p, caches[p])'
    OBVIOUS
  <2>2. Solitary(p, caches[p])
    BY <2>1, Before
  <2>3. forgotten => forgotten'
    BY DEF Remembering
  <2> QED BY <2>2, <2>3 DEF Solitary, Has, NamesBuilt, IsBuilt, Conflict
<1> QED BY <1>4, <1>5, OutsideKeeps

LEMMA RemovesKeep ==
    ASSUME CacheInv, remove_cache \/ discard, Remembering
    PROVE  CacheInv'
<1>1. CacheTypes /\ Sweeping
  BY DEF CacheInv
<1>2. /\ named' = 0 /\ inodes' = inodes /\ caches' = caches /\ build' = build /\ alone' = alone
      /\ clock' = clock /\ generations' = generations /\ repeated' = repeated
      /\ lockfile' = lockfile /\ locks' = locks
      /\ calm' = IF named = 0 THEN calm ELSE Everyone
  BY DEF remove_cache, discard, mint, guardVars
<1>3. /\ sweep' \in [pc : {"idle", "claim", "remove", "release", "unlink"}, lock : Nat]
      /\ Sweeping'
  <2>1. CASE discard
    BY <1>1, <1>2, <2>1 DEF discard, guardVars, Sweeping, Claimable, CacheTypes
  <2>2. CASE remove_cache
    <3>1. sweep.pc = "remove" /\ sweep' = [sweep EXCEPT !.pc = "release"]
      BY <2>2 DEF remove_cache
    <3> QED BY <1>1, <1>2, <3>1 DEF Sweeping, CacheTypes
  <2> QED BY <2>1, <2>2
<1> QED BY <1>2, <1>3, UnnamingKeeps

LEMMA DamageKeeps ==
    ASSUME CacheInv, Damage, Remembering
    PROVE  CacheInv'
<1>1. CacheTypes /\ Sweeping
  BY DEF CacheInv
<1>2. /\ named' = named /\ caches' = caches /\ build' = build /\ alone' = alone
      /\ clock' = clock /\ generations' = generations /\ repeated' = repeated
      /\ lockfile' = lockfile /\ locks' = locks /\ sweep' = sweep
      /\ calm' = Everyone /\ named # 0 /\ inodes[named].st = "built"
  BY DEF Damage, mint, guardVars
<1>3. PICK f : f = Bad
  OBVIOUS
<1>4. f \in InodeType /\ f.st = "bad"
  BY <1>3 DEF Bad, Blank, InodeType
<1>5. inodes' = [inodes EXCEPT ![named] = f]
  BY <1>3 DEF Damage
<1>6. /\ inodes' \in Seq(InodeType) /\ Len(inodes') = Len(inodes) /\ DOMAIN inodes' = DOMAIN inodes
      /\ named' \in 0 .. Len(inodes') /\ inodes'[named].st = "bad"
      /\ \A j \in DOMAIN inodes \ {named} : inodes'[j] = inodes[j]
  BY <1>1, <1>2, <1>4, <1>5 DEF CacheTypes
<1>7. FilesStay(0)
  <2>1. \A j \in DOMAIN inodes' : inodes'[j].st = "built" =>
           j \in DOMAIN inodes /\ IsBuilt(j) /\ inodes'[j].gen = inodes[j].gen
    BY <1>6 DEF IsBuilt
  <2>2. inodes'[named'].st # "built" /\ Len(inodes) <= Len(inodes')
    BY <1>1, <1>2, <1>6 DEF CacheTypes
  <2> QED BY <2>1, <2>2 DEF FilesStay
<1>8. calm' \in [FrontEnd -> BOOLEAN] /\ \A q \in FrontEnd : Undisturbed(q)
  BY <1>2 DEF Undisturbed, Everyone
<1>9. Outside
  BY <1>1, <1>2, <1>6, <1>7, <1>8 DEF Outside, CacheTypes
<1>10. Sweeping'
  BY <1>1, <1>2 DEF Sweeping, Claimable
<1>11. \A p \in FrontEnd : alone = p => Solitary(p, caches[p])'
  <2>1. SUFFICES ASSUME NEW p \in FrontEnd, alone = p PROVE Solitary(p, caches[p])'
    OBVIOUS
  <2>2. PICK r : r = caches[p]
    OBVIOUS
  <2>3. Solitary(p, r) /\ Seated(r)
    BY <2>1, <2>2, Before
  <2>4. forgotten => forgotten'
    BY DEF Remembering
  <2>5. ~(NamesBuilt)' /\ ~Conflict(p, inodes[named])'
    BY <1>2, <1>6 DEF NamesBuilt, IsBuilt, Conflict
  <2>6. r.conn # 0 => r.conn \in DOMAIN inodes
    BY <1>1, <2>3 DEF Seated, CacheTypes
  <2>7. r.pc = "grace" => r.seen \in DOMAIN inodes
    BY <1>1, <2>3 DEF Seated, CacheTypes
  <2>8. r.pc = "grace" => inodes'[r.seen].st # "built"
    BY <1>6, <2>3, <2>7 DEF Solitary
  <2>9. r.pc = "commit" => inodes'[r.conn].st = "blank"
    BY <1>2, <1>6, <2>3, <2>6 DEF Solitary, Seated
  <2>10. r.conn # 0 /\ inodes'[r.conn].st = "built" => inodes'[r.conn] = inodes[r.conn]
    BY <1>6, <2>6
  <2>11. Has(r) /\ r.conn # 0 /\ inodes'[r.conn].st = "built" => inodes'[r.conn].gen = r.gen
    BY <2>3, <2>10 DEF Solitary, IsBuilt
  <2>12. Solitary(p, r)'
    BY <1>2, <2>3, <2>4, <2>5, <2>8, <2>9, <2>11 DEF Solitary, Has, IsBuilt
  <2> QED BY <1>2, <2>2, <2>12 DEF Solitary, Has, Conflict
<1> QED BY <1>9, <1>10, <1>11, OutsideKeeps

-----------------------------------------------------------------------------
\* The beginning, and every step

LEMMA LeftIs ==
    ASSUME NEW f \in Left
    PROVE  f \in InodeType /\ (f = Bad \/ (f.st = "built" /\ f.gen = 2))
<1>1. PICK b : b = [st |-> "built", schema |-> 2, comp |-> 1, gen |-> 2, mine |-> TRUE]
  OBVIOUS
<1>2. Built(Ours, 2) = b
  BY <1>1 DEF Built, Ours
<1>3. b \in InodeType /\ b.st = "built" /\ b.gen = 2
  BY <1>1 DEF InodeType
<1>4. f \in {Bad, b, [b EXCEPT !.comp = 2], [b EXCEPT !.schema = 1], [b EXCEPT !.schema = 3],
             [b EXCEPT !.mine = FALSE]}
  BY <1>2 DEF Left
<1>5. CASE f = Bad
  BY <1>5 DEF Bad, Blank, InodeType
<1>6. CASE f = b
  BY <1>3, <1>6
<1>7. CASE f = [b EXCEPT !.comp = 2]
  BY ONLY <1>3, <1>7 DEF InodeType
<1>8. CASE f = [b EXCEPT !.schema = 1] \/ f = [b EXCEPT !.schema = 3]
  BY ONLY <1>3, <1>8 DEF InodeType
<1>9. CASE f = [b EXCEPT !.mine = FALSE]
  BY ONLY <1>3, <1>9 DEF InodeType
<1> QED BY <1>4, <1>5, <1>6, <1>7, <1>8, <1>9

\* At most one file, and at most one generation: the one it records.
AtMostOne ==
    /\ inodes \in Seq(InodeType) /\ named \in 0 .. Len(inodes)
    /\ generations \in SUBSET (Nat \ {0}) /\ generations \subseteq {2}
    /\ DOMAIN inodes \subseteq {1}
    /\ IF generations = {} THEN named # 0 => inodes[named].st = "bad"
       ELSE named = 1 /\ inodes[1].st = "built" /\ inodes[1].gen = 2
    /\ \A i \in DOMAIN inodes : i = named

LEMMA CacheStart ==
    ASSUME CacheInit
    PROVE  CacheInv
<1>1. /\ lockfile = 0 /\ locks = 0 /\ sweep = [pc |-> "idle", lock |-> 0]
      /\ caches = [p \in FrontEnd |-> Closed] /\ clock = 2 /\ repeated = FALSE
      /\ forgotten = FALSE /\ calm = [p \in FrontEnd |-> FALSE]
  BY DEF CacheInit
<1>2. build \in [FrontEnd -> BuildType]
  <2>1. {Ours} \cup Theirs \subseteq BuildType
    BY DEF Ours, Theirs, BuildType
  <2>2. build \in [FrontEnd -> {Ours} \cup Theirs]
    BY DEF CacheInit
  <2> QED BY <2>1, <2>2
<1>3. \/ inodes = <<>> /\ named = 0 /\ generations = {}
      \/ \E f \in InodeType : /\ inodes = <<f>> /\ named = 1
                              /\ \/ f.st = "bad" /\ generations = {}
                                 \/ f.st = "built" /\ f.gen = 2 /\ generations = {2}
  <2>1. CASE inodes = <<>> /\ named = 0 /\ generations = {}
    BY <2>1
  <2>2. ASSUME NEW f \in Left, inodes = <<f>>, named = 1,
               generations = IF f = Bad THEN {} ELSE {2}
        PROVE  \E e \in InodeType : /\ inodes = <<e>> /\ named = 1
                                    /\ \/ e.st = "bad" /\ generations = {}
                                       \/ e.st = "built" /\ e.gen = 2 /\ generations = {2}
    <3>1. f \in InodeType /\ (f = Bad \/ (f.st = "built" /\ f.gen = 2))
      BY LeftIs
    <3>2. Bad.st = "bad"
      BY DEF Bad, Blank
    <3>3. CASE f = Bad
      BY <2>2, <3>1, <3>2, <3>3
    <3>4. CASE f # Bad
      BY <2>2, <3>1, <3>4
    <3> QED BY <3>3, <3>4
  <2> QED BY <2>1, <2>2 DEF CacheInit
<1>4. AtMostOne
  <2>1. CASE inodes = <<>> /\ named = 0 /\ generations = {}
    BY <2>1 DEF AtMostOne
  <2>2. ASSUME NEW f \in InodeType, inodes = <<f>>, named = 1,
               \/ f.st = "bad" /\ generations = {}
               \/ f.st = "built" /\ f.gen = 2 /\ generations = {2}
        PROVE  AtMostOne
    <3>1. inodes[1] = f /\ Len(inodes) = 1 /\ DOMAIN inodes = {1} /\ inodes \in Seq(InodeType)
      BY <2>2
    <3>2. generations \in SUBSET (Nat \ {0}) /\ generations \subseteq {2}
      BY <2>2
    <3> QED BY <2>2, <3>1, <3>2 DEF AtMostOne
  <2> QED BY <1>3, <2>1, <2>2
<1>5. CacheTypes
  <2>1. Closed \in CacheType
    BY DEF Closed, CacheType, Places
  <2>2. sweep \in [pc : {"idle", "claim", "remove", "release", "unlink"}, lock : Nat]
    BY <1>1
  <2> QED BY <1>1, <1>2, <1>4, <2>1, <2>2 DEF CacheTypes, AtMostOne
<1>6. \A p \in FrontEnd : Hand(p, caches[p])
  <2>1. SUFFICES ASSUME NEW p \in FrontEnd PROVE Hand(p, caches[p])
    OBVIOUS
  <2>2. caches[p] = Closed /\ ~calm[p] /\ Poised(p, Closed)
    BY <1>1, <1>5, ClosedIs
  <2> QED BY <2>2 DEF Hand, Poised
<1>7. Stamped
  <2>1. \A g \in generations : g <= clock
    <3>1. generations \subseteq {2} /\ clock = 2
      BY <1>1, <1>4 DEF AtMostOne
    <3> QED BY <3>1
  <2>2. \A i \in DOMAIN inodes : IsBuilt(i) => inodes[i].gen \in generations
    <3>1. SUFFICES ASSUME NEW i \in DOMAIN inodes, IsBuilt(i) PROVE inodes[i].gen \in generations
      OBVIOUS
    <3>2. i = 1 /\ i = named /\ inodes[i].st = "built"
      BY <1>4, <3>1 DEF IsBuilt, AtMostOne
    <3>3. generations # {}
      BY <1>4, <3>2 DEF AtMostOne
    <3> QED BY <1>4, <3>2, <3>3 DEF AtMostOne
  <2>3. \A i, j \in DOMAIN inodes : i = j
    BY <1>4 DEF AtMostOne
  <2> QED BY <1>1, <2>1, <2>2, <2>3 DEF Stamped
<1>8. Apart
  BY <1>1 DEF Apart, Closed
<1>9. Recalled
  <2>1. \A g \in generations : named # 0 /\ inodes[named].st = "built" /\ inodes[named].gen >= g
    BY <1>4 DEF AtMostOne
  <2> QED BY <1>1, <2>1 DEF Recalled, Remembered
<1>10. Sweeping
  BY <1>1 DEF Sweeping
<1> QED BY <1>5, <1>6, <1>7, <1>8, <1>9, <1>10 DEF CacheInv

LEMMA CacheSteps ==
    ASSUME CacheInv, [CacheNext]_cacheVars
    PROVE  CacheInv'
<1>1. CASE CacheNext
  <2>1. Remembering
    BY <1>1 DEF CacheNext, Remembering
  <2>2. ASSUME NEW p \in FrontEnd,
               \/ open_or_create(p) \/ shared(p) \/ drop_cache(p) \/ refresh(p)
               \/ probe_existing(p) \/ await_creation(p) \/ Adopt(p) \/ Reopen(p)
               \/ invalidate_components(p) \/ quarantine(p) \/ create(p) \/ insert_meta(p)
               \/ dispose(p) \/ Refusal(p)
        PROVE  CacheInv'
    <3>1. CASE open_or_create(p) \/ shared(p) \/ drop_cache(p) \/ refresh(p)
      BY <2>1, <3>1, OpensKeep, SharesKeep, DropsKeep, RefreshesKeep
    <3>2. CASE probe_existing(p) \/ await_creation(p) \/ Refusal(p)
      BY <2>1, <3>2, ProbesKeep, AwaitsKeep, RefusalsKeep
    <3>3. CASE Adopt(p) \/ Reopen(p) \/ invalidate_components(p) \/ quarantine(p)
      BY <2>1, <3>3, AdoptsKeep, ReopensKeep, SettlesKeep, QuarantinesKeep
    <3>4. CASE create(p) \/ insert_meta(p) \/ dispose(p)
      BY <2>1, <3>4, CreatesKeep, CommitsKeep, DisposesKeep
    <3> QED BY <2>2, <3>1, <3>2, <3>3, <3>4
  <2>3. CASE evict_to_budget \/ exclusive \/ unlock \/ unlink_lock
    BY <2>1, <2>3, SweepsKeep
  <2>4. CASE remove_cache \/ discard
    BY <2>1, <2>4, RemovesKeep
  <2>5. CASE Damage
    BY <2>1, <2>5, DamageKeeps
  <2> QED BY <1>1, <2>2, <2>3, <2>4, <2>5 DEF CacheNext, CacheStep
<1>2. CASE UNCHANGED cacheVars
  <2>1. CacheTypes /\ Sweeping /\ (\A p \in FrontEnd : Hand(p, caches[p]))
        /\ IF alone = "none" THEN Stamped /\ Apart ELSE Recalled
    BY DEF CacheInv
  <2>2. CacheTypes' /\ Sweeping'
    BY <1>2, <2>1 DEF cacheVars, CacheTypes, Sweeping, Claimable
  <2>3. \A p \in FrontEnd : Hand(p, caches[p])'
    BY <1>2, <2>1 DEF cacheVars, Hand, Seated, Dated, OneFile, OnlyAt, Solitary, Has, Calm, Holds,
                      Made, NamesBuilt, IsBuilt, Conflict
  <2>4. (IF alone = "none" THEN Stamped /\ Apart ELSE Recalled)'
    BY <1>2, <2>1 DEF cacheVars, Stamped, Apart, Recalled, Remembered, IsBuilt
  <2> QED BY <2>2, <2>3, <2>4 DEF CacheInv
<1> QED BY <1>1, <1>2

LEMMA CacheHolds ==
    ASSUME CacheInv
    PROVE  ReadyIsReal /\ GenerationsNameBuilds
<1>1. \A p \in FrontEnd : Hand(p, caches[p])
  BY DEF CacheInv
<1>2. ReadyIsReal
  BY <1>1 DEF ReadyIsReal, Hand, Seated, Calm, Holds, Made
<1>3. GenerationsNameBuilds
  BY DEF GenerationsNameBuilds, CacheInv, Stamped, Recalled
<1> QED BY <1>2, <1>3

LEMMA CacheMoves ==
    ASSUME CacheInv, [CacheNext]_cacheVars
    PROVE  /\ remove_cache =>
                 \A p \in FrontEnd : caches[p].held /\ caches[p].lock = lockfile =>
                    caches[p].conn # named \/ named = 0
           /\ \A p \in FrontEnd :
                 alone = p /\ named # 0 /\ Conflict(p, inodes[named]) /\ caches'[p] # caches[p]
                   => named' = named /\ inodes'[named] = inodes[named]
<1>1. ASSUME remove_cache, NEW p \in FrontEnd, caches[p].held, caches[p].lock = lockfile
      PROVE  FALSE
  BY <1>1 DEF remove_cache, CacheInv, Sweeping, Claimable
<1>2. ASSUME NEW p \in FrontEnd, alone = p, named # 0, Conflict(p, inodes[named]),
             caches'[p] # caches[p]
      PROVE  named' = named /\ inodes'[named] = inodes[named]
  <2>1. caches[p].pc \in {"out", "lock", "probe"} /\ p # "none" /\ CacheTypes
    BY <1>2, CacheConstants DEF CacheInv, Hand, Solitary
  <2>2. CacheStep
    BY <1>2 DEF CacheNext, cacheVars
  <2>3. ASSUME NEW q \in FrontEnd,
               \/ open_or_create(q) \/ shared(q) \/ drop_cache(q) \/ refresh(q)
               \/ probe_existing(q) \/ await_creation(q) \/ Adopt(q) \/ Reopen(q)
               \/ invalidate_components(q) \/ quarantine(q) \/ create(q) \/ insert_meta(q)
               \/ dispose(q) \/ Refusal(q)
        PROVE  named' = named /\ inodes' = inodes
    <3>1. alone \in {"none", q}
      BY <2>3 DEF open_or_create, shared, drop_cache, refresh, probe_existing, await_creation,
                  Adopt, Reopen, invalidate_components, quarantine, create, insert_meta,
                  dispose, Refusal, WorksAt
    <3>2. q = p
      BY <1>2, <2>1, <3>1
    <3>3. open_or_create(q) \/ shared(q) \/ drop_cache(q) \/ probe_existing(q) \/ Refusal(q)
      BY <2>1, <2>3, <3>2 DEF refresh, await_creation, Adopt, Reopen, invalidate_components,
                              quarantine, create, insert_meta, dispose, WorksAt
    <3> QED BY <3>3 DEF open_or_create, shared, drop_cache, probe_existing, Refusal, shelf
  <2>4. CASE evict_to_budget \/ exclusive \/ remove_cache \/ unlock \/ unlink_lock
             \/ discard \/ Damage
    BY <1>2, <2>4 DEF evict_to_budget, exclusive, remove_cache, unlock, unlink_lock, discard,
                      Damage
  <2> QED BY <2>2, <2>3, <2>4 DEF CacheStep
<1> QED BY <1>1, <1>2

\* What a process thinks it has of the index cache is what is at the path while
\* nobody else touched it, a generation names one build of it, a sweep spares the
\* cache whose process holds the lock file the directory names, and a newer
\* build's file is left as it is.
THEOREM CacheIsKept == CacheSpec => CacheKept
<1>1. CacheInit => CacheInv
  BY CacheStart
<1>2. CacheInv /\ [CacheNext]_cacheVars => CacheInv'
  BY CacheSteps
<1>3. CacheInv => ReadyIsReal /\ GenerationsNameBuilds
  BY CacheHolds
<1>4. CacheInv /\ [CacheNext]_cacheVars =>
        /\ [remove_cache =>
              \A p \in FrontEnd : caches[p].held /\ caches[p].lock = lockfile =>
                 caches[p].conn # named \/ named = 0]_cacheVars
        /\ [\A p \in FrontEnd :
              alone = p /\ named # 0 /\ Conflict(p, inodes[named]) /\ caches'[p] # caches[p]
                => named' = named /\ inodes'[named] = inodes[named]]_cacheVars
  BY CacheMoves
<1> QED BY <1>1, <1>2, <1>3, <1>4, PTL
    DEF CacheSpec, CacheKept, NamedLockSpares, NewerLeftAlone
=============================================================================
