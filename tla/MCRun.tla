------------------------------- MODULE MCRun -------------------------------
(* The worker of a run, and the scheduler its calls go through.  A behaviour *)
(* is one of one of them, chosen at the start, so that the state space is    *)
(* the sum of theirs.                                                        *)
EXTENDS MCScheduler, RunWorker

VARIABLE part

RunInit == part \in {"scheduler", "worker"} /\ Init /\ WorkerInit

RunNext == \/ part = "scheduler" /\ Next /\ UNCHANGED <<part, workVars>>
           \/ part = "worker" /\ WorkerNext /\ UNCHANGED <<part, vars>>
           \/ part = "worker" /\ rpc = "ended" /\ UNCHANGED <<part, vars, workVars>>

\* The fairness of each component, in the behaviours that are its own.
S(A) == part = "scheduler" /\ A
W(A) == part = "worker" /\ A
RunFairness ==
    /\ \A s \in Sub :
         /\ WF_vars(S(SubmitEnter(s) \/ SubmitWake(s) \/ SubmitDispatch(s) \/ SubmitReturn(s)))
         /\ WF_vars(S(Worker(s)))
    /\ \A i \in Inst : WF_vars(S(AdmitHead(i)))
    /\ \A t \in Stopper : WF_vars(S(Stop(t)))
    /\ WF_vars(S(ShutdownStops \/ ShutdownEnds))
    /\ WF_workVars(W(Runner)) /\ WF_workVars(W(Canceller))
    /\ WF_workVars(W(ExecDispatch \/ BodyStarts \/ BodyRefused \/ ExecFinish))
    /\ WF_workVars(W(token /\ BodyAbandoned))
    /\ \A d \in Surface : WF_workVars(W(Decider(d)))

RunSpec == RunInit /\ [][RunNext]_<<part, vars, workVars>> /\ RunFairness
=============================================================================
