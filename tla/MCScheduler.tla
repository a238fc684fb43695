----------------------------- MODULE MCScheduler -----------------------------
(* Small instances of Scheduler: the submissions are model values and the   *)
(* tables below say what each of them is.                                   *)
EXTENDS Scheduler, TLC

CONSTANTS s1, s2, s3, s4, r1, r2

\* One worktree.  s1 writes; s3 is classified as a read by its submitter but
\* its tool declares a write; s2 reads, for another run; s4 is a second
\* submission of the call of s3.
CallTable == s1 :> "c1" @@ s2 :> "c2" @@ s3 :> "c3" @@ s4 :> "c3"
RunTable == s1 :> r1 @@ s2 :> r2 @@ s3 :> r1 @@ s4 :> r1
ClassTable == s1 :> 1 @@ s2 :> 0 @@ s3 :> 0 @@ s4 :> 0
DeclTable == s1 :> 1 @@ s2 :> 0 @@ s3 :> 2 @@ s4 :> 2

MCCallOf == [s \in Sub |-> CallTable[s]]
MCRunOf == [s \in Sub |-> IF RunTable[s] \in Run THEN RunTable[s] ELSE r1]
MCClassified == [s \in Sub |-> ClassTable[s]]
MCDeclared == [s \in Sub |-> DeclTable[s]]
OneTree == [s \in Sub |-> 1]

\* Two worktrees that compete for the process slots.
TwoTrees == [s \in Sub |-> IF s = s2 THEN 2 ELSE 1]

\* One stop in a behaviour, over the two submissions it matters to: a shutdown
\* meets the two of one run, a cancellation one of each run.  The third has
\* been refused by then.
StopsMeetTwo ==
    /\ shutting' => tpc'[r1] = "idle" /\ spc'[s2] = "refused"
    /\ tpc'[r1] # "idle" => spc'[s3] = "refused"
=============================================================================
