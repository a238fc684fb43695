--------------------------- MODULE RunWorkerProofs ---------------------------
(* Proofs about RunWorker, for any number of turns, store faults and surfaces *)
(* that decide approvals.                                                     *)
EXTENDS RunWorker, SequenceTheorems, TLAPS

-----------------------------------------------------------------------------
\* The inductive invariant

WorkerPC == {"start", "turn", "insert", "policy", "ticket", "open", "park", "parked", "resume",
             "resume_run", "fail_step", "submit", "await", "drain", "end_run", "told",
             "fault_approvals", "fault_calls", "fault_steps", "fault_run", "leave", "ended"}

\* The worker is recording a fault, or has done so.
Faulted == {"fault_approvals", "fault_calls", "fault_steps", "fault_run", "leave", "ended"}

\* The worker is at a call it has recorded.
AtCall == {"policy", "ticket", "open", "park", "parked", "resume", "resume_run", "fail_step",
           "submit", "await"}

\* The executor has the current call.
Executing == {"queued", "refuse", "gate", "supervise", "finish"}

\* Where every thread is, and what it has in its hands.
Hands ==
    /\ rpc \in WorkerPC
    /\ obs \in {"none"} \cup Decided
    /\ ending \in {"none"} \cup Terminal
    /\ xpc \in {"none", "done"} \cup Executing
    /\ xout \in {"none"} \cup Terminal
    /\ result \in {"none", "error"} \cup Terminal
    /\ kpc \in {"idle", "scheduler", "list", "resolve", "gate", "done"}
    /\ kappr \in 0..MaxTurns
    /\ dpc \in [Surface -> {"idle", "checked", "gate"}]
    /\ dappr \in [Surface -> 0..MaxTurns]

Typed == WorkerTypeOK /\ Hands

\* A thread that works on a call or an approval has one, and the executor has
\* a call only while the worker awaits it or has given the run up.
Placed ==
    /\ rpc = "insert" => cur < turn
    /\ rpc \in AtCall \/ xpc # "none" => cur \in Call
    /\ xpc \in Executing => rpc \in {"await"} \cup Faulted
    /\ result # "none" => xpc = "done"
    /\ kpc \in {"resolve", "gate"} => kappr \in Call /\ appr[kappr] # "none"
    /\ kpc = "gate" => appr[kappr] \in Decided
    /\ \A d \in Surface :
         /\ dpc[d] # "idle" => dappr[d] \in Call
         /\ dpc[d] = "gate" => appr[dappr[d]] \in Decided

\* A call the worker has not come to has left no trace.
Fresh ==
    /\ \A c \in Call : c > cur =>
         /\ calls[c] = "none" /\ appr[c] = "none" /\ slot[c] = "none"
         /\ c \notin asked /\ c \notin bodies
    /\ rpc = "policy" => cur \notin asked /\ cur \notin bodies
    /\ rpc \in {"policy", "ticket", "open"} => appr[cur] = "none"

\* What the record of the current call says where the worker is; every other
\* call has ended.
Current ==
    /\ rpc = "policy" => calls[cur] = "pending"
    /\ rpc \in {"ticket", "open", "park", "parked", "resume"} => calls[cur] = "awaiting"
    /\ rpc = "await" /\ result \in Terminal => calls[cur] \in Terminal
    /\ rpc \notin Faulted => \A c \in Call :
         calls[c] \in Terminal \cup {"none"} \/ (c = cur /\ rpc \in AtCall \ {"resume_run", "fail_step"})

\* Nobody runs a call that was asked about and not granted.
Consent ==
    /\ rpc = "submit" /\ cur \in asked => appr[cur] = "granted"
    /\ xpc \in Executing /\ cur \in asked => appr[cur] = "granted"
    /\ ConsentFirst

\* Only a parking worker leaves a request pending, and a waiter holds the
\* recorded answer.
Answers ==
    /\ rpc \in {"park", "parked"} => appr[cur] # "none"
    /\ rpc = "resume" => obs \in Decided
    /\ rpc \notin Faulted => \A c \in Call : appr[c] = "pending" => c = cur /\ rpc \in {"park", "parked"}
    /\ ObservationTrue

\* A step without an ending is the current one or a planned one.
Pending(i) == steps[i] \notin Terminal
Planned(i) == \E j \in DOMAIN planned : planned[j] = i

Covered ==
    /\ rpc \in {"start", "turn"} => \A i \in DOMAIN steps : Pending(i) => Planned(i)
    /\ rpc \in AtCall \cup {"insert", "drain"} => \A i \in DOMAIN steps : Pending(i) => Planned(i) \/ i = step
    /\ rpc \in {"end_run", "told"} => \A i \in DOMAIN steps : ~Pending(i)

\* The run gets its ending at the end.
Endings ==
    /\ rpc \in {"drain", "end_run"} => ending \in Terminal
    /\ rpc = "told" => runState \in Terminal
    /\ runState \in Terminal => rpc \in {"told"} \cup Faulted

\* What record_fault has gone over has an ending.
Recorded ==
    ~lost =>
      /\ rpc \in Faulted \ {"fault_approvals"} => \A c \in Call : appr[c] # "pending"
      /\ rpc \in Faulted \ {"fault_approvals", "fault_calls"} => \A c \in Call : calls[c] \in Terminal \cup {"none"}
      /\ rpc \in {"fault_run", "leave", "ended"} => \A i \in DOMAIN steps : ~Pending(i)
      /\ rpc \in {"leave", "ended"} => runState \in Terminal

-----------------------------------------------------------------------------
\* The steps of the system, by who takes them

Driving ==
    \/ StartDrive \/ TurnCancelled \/ AgentPlans \/ AgentCalls \/ AgentFaults
    \/ \E s \in {"succeeded", "failed"} : AgentEnds(s)
    \/ DrainSteps \/ EndRun \/ EndDrive

Dispatching ==
    \/ InsertCall \/ FailBeforePolicy \/ DispatchCancelled
    \/ PolicyDenies \/ PolicyAllows \/ PolicyAsks \/ FailStep

Parking == TakeTicket \/ OpenApproval \/ ParkRun \/ SelfCancel \/ WakeUp

Resuming ==
    \/ ResumeCancelled \/ ResumeDenied \/ ResumeRun \/ ResumeGranted
    \/ SubmitCall \/ TakeResult \/ TakeError

Faulting ==
    \/ FaultApprovals \/ FaultCalls \/ FaultSteps \/ FaultRun
    \/ StoreFault \/ FaultUnrecorded

Bodies == Executor \/ ExecFault \/ \E c \in Call : LeftBodyEnds(c)

Cancelling == Canceller \/ CancelListFails \/ cancel_run

Deciding == \E d \in Surface : Decider(d) \/ \E c \in Call : DecideCheck(d, c)

\* Every step is one of these.
LEMMA StepKinds ==
    WorkerNext => \/ Driving \/ Dispatching \/ Parking \/ Resuming \/ Faulting
            \/ Bodies \/ Cancelling \/ Deciding
  BY DEF WorkerNext, Runner, Refusal, Driving, Dispatching, Parking, Resuming, Faulting, Bodies,
     Cancelling, Deciding

\* What each kind of step leaves alone.
LEMMA Untouched ==
    /\ Driving => UNCHANGED <<calls, appr, asked, token, slot, cur, obs, xpc, xout, result, bodies,
                              kpc, kappr, dpc, dappr, faults, lost>>
    /\ Dispatching => UNCHANGED <<runState, appr, token, active, slot, turn, planned, step, obs, xpc,
                                  xout, result, bodies, kpc, kappr, dpc, dappr, faults, lost>>
    /\ Parking => UNCHANGED <<steps, calls, asked, token, active, turn, planned, step, cur, ending,
                              xpc, xout, result, bodies, kpc, kappr, dpc, dappr, faults, lost>>
    /\ Resuming => UNCHANGED <<appr, asked, token, active, slot, turn, planned, step, cur, obs,
                               xout, bodies, kpc, kappr, dpc, dappr, faults, lost>>
    /\ Faulting => UNCHANGED <<asked, token, active, turn, planned, step, cur, obs, ending, xpc,
                               xout, result, bodies, kpc, kappr, dpc, dappr>>
    /\ Bodies => UNCHANGED <<runState, steps, appr, asked, token, active, slot, rpc, turn, planned, step,
                             cur, obs, ending, kpc, kappr, dpc, dappr, lost>>
    /\ Cancelling => UNCHANGED <<runState, steps, asked, active, rpc, turn, planned, step, cur, obs,
                                 ending, xout, bodies, dpc, dappr, lost>>
    /\ Deciding => UNCHANGED <<runState, steps, calls, asked, token, active, rpc, turn, planned, step,
                               cur, obs, ending, xpc, xout, result, bodies, kpc, kappr, faults, lost>>
<1> USE DEF recordVars, runnerVars, executorVars, cancelVars, decideVars, faultVars
<1>1. Driving => UNCHANGED <<calls, appr, asked, token, slot, cur, obs, xpc, xout, result, bodies,
                             kpc, kappr, dpc, dappr, faults, lost>>
  BY DEF Driving, StartDrive, TurnCancelled, AgentPlans, AgentCalls, AgentFaults, AgentEnds,
     DrainSteps, EndRun, EndDrive
<1>2. Dispatching => UNCHANGED <<runState, appr, token, active, slot, turn, planned, step, obs, xpc,
                                 xout, result, bodies, kpc, kappr, dpc, dappr, faults, lost>>
  BY DEF Dispatching, InsertCall, FailBeforePolicy, DispatchCancelled, PolicyDenies, PolicyAllows,
     PolicyAsks, FailStep, EndCall
<1>3. Parking => UNCHANGED <<steps, calls, asked, token, active, turn, planned, step, cur, ending,
                             xpc, xout, result, bodies, kpc, kappr, dpc, dappr, faults, lost>>
  BY DEF Parking, TakeTicket, OpenApproval, ParkRun, SelfCancel, WakeUp
<1>4. Resuming => UNCHANGED <<appr, asked, token, active, slot, turn, planned, step, cur, obs,
                              xout, bodies, kpc, kappr, dpc, dappr, faults, lost>>
  BY DEF Resuming, ResumeCancelled, ResumeDenied, ResumeRun, ResumeGranted, SubmitCall, TakeResult,
     TakeError, EndCall
<1>5. Faulting => UNCHANGED <<asked, token, active, turn, planned, step, cur, obs, ending, xpc,
                              xout, result, bodies, kpc, kappr, dpc, dappr>>
  BY DEF Faulting, FaultApprovals, FaultCalls, FaultSteps, FaultRun, StoreFault, FaultUnrecorded
<1>6. Bodies => UNCHANGED <<runState, steps, appr, asked, token, active, slot, rpc, turn, planned, step,
                            cur, obs, ending, kpc, kappr, dpc, dappr, lost>>
  BY DEF Bodies, Executor, ExecDispatch, BodyStarts, BodyRefused, BodyReports, BodyAbandoned,
     ExecFinish, ExecFault, LeftBodyEnds
<1>7. Cancelling => UNCHANGED <<runState, steps, asked, active, rpc, turn, planned, step, cur, obs,
                                ending, xout, bodies, dpc, dappr, lost>>
  BY DEF Cancelling, Canceller, CancelQueued, CancelList, CancelResolve, CancelGate,
     CancelListFails, cancel_run
<1>8. Deciding => UNCHANGED <<runState, steps, calls, asked, token, active, rpc, turn, planned, step,
                              cur, obs, ending, xpc, xout, result, bodies, kpc, kappr, faults, lost>>
  BY DEF Deciding, Decider, DecideGate, DecideStore, DecideCheck
<1>9. QED
  BY <1>1, <1>2, <1>3, <1>4, <1>5, <1>6, <1>7, <1>8

-----------------------------------------------------------------------------
\* What is recorded stays recorded

\* A request is opened once, a decision is never replaced, whoever comes
\* second: the worker, the canceller or another surface.
LEMMA DecisionsKept ==
    ASSUME Typed, Placed, Fresh, [WorkerNext]_workVars
    PROVE  \A c \in Call :
             /\ appr[c] \in Decided => appr'[c] = appr[c]
             /\ appr[c] # "none" => appr'[c] # "none"
             /\ appr'[c] = "pending" => appr[c] = "pending" \/ (rpc = "open" /\ c = cur)
             /\ appr[c] = "none" => appr'[c] = "none" \/ (rpc = "open" /\ c = cur)
<1> USE DEF recordVars, runnerVars, executorVars, cancelVars, decideVars, faultVars, Set, Decided
<1>0. /\ appr \in [Call -> {"none", "pending"} \cup Decided]
      /\ rpc = "parked" => cur \in Call
      /\ rpc = "open" => cur \in Call /\ appr[cur] = "none"
  BY DEF Typed, WorkerTypeOK, Placed, AtCall, Fresh
<1>1. CASE Driving \/ Dispatching \/ Resuming \/ Bodies \/ UNCHANGED workVars
  <2>1. appr' = appr
    BY <1>1, Untouched DEF workVars
  <2>2. QED
    BY <2>1
<1>2. CASE Parking
  BY <1>0, <1>2 DEF Parking, TakeTicket, OpenApproval, ParkRun, SelfCancel, WakeUp
<1>3. CASE Faulting
  BY <1>0, <1>3 DEF Faulting, FaultApprovals, FaultCalls, FaultSteps, FaultRun, StoreFault,
     FaultUnrecorded
<1>4. CASE Cancelling
  BY <1>0, <1>4 DEF Cancelling, Canceller, CancelQueued, CancelList, CancelResolve, CancelGate,
     CancelListFails, cancel_run
<1>5. CASE Deciding
  BY <1>0, <1>5 DEF Deciding, Decider, DecideGate, DecideStore, DecideCheck
<1>6. QED
  BY <1>1, <1>2, <1>3, <1>4, <1>5, StepKinds

\* A call gets one ending; a call gets its first record from the worker, and
\* runs only after the executor has found it in the state it requires.
LEMMA CallsKept ==
    ASSUME Typed, Placed, Fresh, Current, [WorkerNext]_workVars
    PROVE  \A c \in Call :
             /\ calls[c] \in Terminal => calls'[c] = calls[c]
             /\ calls[c] = "none" => calls'[c] = "none" \/ (rpc = "insert" /\ c = cur + 1)
             /\ calls'[c] \in {"running", "succeeded"} =>
                  calls[c] \in {"running", "succeeded"} \/ (xpc = "queued" /\ c = cur)
             /\ calls'[c] \in {"pending", "awaiting"} =>
                  \/ calls[c] \in {"pending", "awaiting"}
                  \/ rpc = "insert" /\ c = cur + 1
<1> USE DEF recordVars, runnerVars, executorVars, cancelVars, decideVars, faultVars, Set, Terminal
<1>0. /\ calls \in [Call -> CallState] /\ cur \in Nat /\ xout \in {"none"} \cup Terminal
      /\ rpc = "insert" => cur + 1 \in Call /\ calls[cur + 1] = "none"
      /\ rpc \in AtCall \/ xpc # "none" => cur \in Call
      /\ rpc = "policy" => calls[cur] = "pending"
      /\ rpc = "resume" => calls[cur] = "awaiting"
  BY WorkerAssumption DEF Typed, WorkerTypeOK, Hands, Placed, Fresh, Current, Call
<1>1. CASE Driving \/ Parking \/ Deciding \/ UNCHANGED workVars
  <2>1. calls' = calls
    BY <1>1, Untouched DEF workVars
  <2>2. QED
    BY <2>1
<1>2. CASE Dispatching
  BY <1>0, <1>2 DEF Dispatching, InsertCall, FailBeforePolicy, DispatchCancelled,
       PolicyDenies, PolicyAllows, PolicyAsks, FailStep, EndCall, AtCall
<1>3. CASE Resuming
  BY <1>0, <1>3 DEF Resuming, ResumeCancelled, ResumeDenied, ResumeRun, ResumeGranted, SubmitCall,
     TakeResult, TakeError, EndCall, AtCall
<1>4. CASE Faulting
  BY <1>0, <1>4 DEF Faulting, FaultApprovals, FaultCalls, FaultSteps, FaultRun, StoreFault,
     FaultUnrecorded
<1>5. CASE Bodies
  BY <1>0, <1>5 DEF Bodies, Executor, ExecDispatch, BodyStarts, BodyRefused, BodyReports,
     BodyAbandoned, ExecFinish, ExecFault, LeftBodyEnds, Required, Executing
<1>6. CASE Cancelling
  BY <1>0, <1>6 DEF Cancelling, Canceller, CancelQueued, CancelList, CancelResolve, CancelGate,
     CancelListFails, cancel_run
<1>7. QED
  BY <1>1, <1>2, <1>3, <1>4, <1>5, <1>6, StepKinds

-----------------------------------------------------------------------------
\* The parts of the invariant, one step at a time

\* No thread loses its call or its request, and the executor gets a call only
\* from a worker that then awaits it.
LEMMA PlacedStep ==
    ASSUME Typed, Placed, Fresh, [WorkerNext]_workVars
    PROVE  Placed'
<1> USE DEF recordVars, runnerVars, executorVars, cancelVars, decideVars, faultVars
<1> DEFINE AtWork ==
             /\ rpc = "insert" => cur < turn
             /\ rpc \in AtCall \/ xpc # "none" => cur \in Call
             /\ xpc \in Executing => rpc \in {"await"} \cup Faulted
             /\ result # "none" => xpc = "done"
           Resolving ==
             /\ kpc \in {"resolve", "gate"} => kappr \in Call /\ appr[kappr] # "none"
             /\ kpc = "gate" => appr[kappr] \in Decided
             /\ \A d \in Surface :
                  /\ dpc[d] # "idle" => dappr[d] \in Call
                  /\ dpc[d] = "gate" => appr[dappr[d]] \in Decided
<1>0. /\ rpc \in WorkerPC /\ cur \in 0..turn /\ turn \in 0..MaxTurns /\ MaxTurns \in Nat
      /\ appr \in [Call -> {"none", "pending"} \cup Decided] /\ Call = 1..MaxTurns
      /\ dpc \in [Surface -> {"idle", "checked", "gate"}] /\ dappr \in [Surface -> 0..MaxTurns]
      /\ AtWork /\ Resolving
  BY WorkerAssumption DEF Typed, WorkerTypeOK, Hands, Call, Placed
<1>1. CASE Driving \/ Dispatching \/ Parking \/ Resuming \/ Faulting \/ Bodies
  <2>1. AtWork'
    <3> USE <1>0 DEF AtCall, Executing, Faulted
    <3>1. CASE Driving
      BY <3>1 DEF Driving, StartDrive, TurnCancelled, AgentPlans, AgentCalls, AgentFaults,
         AgentEnds, DrainSteps, EndRun, EndDrive
    <3>2. CASE Dispatching
      BY <3>2 DEF Dispatching, InsertCall, FailBeforePolicy, DispatchCancelled,
         PolicyDenies, PolicyAllows, PolicyAsks, FailStep, EndCall
    <3>3. CASE Parking
      BY <3>3 DEF Parking, TakeTicket, OpenApproval, ParkRun, SelfCancel, WakeUp
    <3>4. CASE Resuming
      BY <3>4 DEF Resuming, ResumeCancelled, ResumeDenied, ResumeRun, ResumeGranted, SubmitCall,
         TakeResult, TakeError, EndCall, Terminal
    <3>5. CASE Faulting
      BY <3>5 DEF Faulting, FaultApprovals, FaultCalls, FaultSteps, FaultRun, StoreFault,
         FaultUnrecorded, AfterFault
    <3>6. CASE Bodies
      BY <3>6 DEF Bodies, Executor, ExecDispatch, BodyStarts, BodyRefused, BodyReports,
         BodyAbandoned, ExecFinish, ExecFault, LeftBodyEnds
    <3>7. QED
      BY <1>1, <3>1, <3>2, <3>3, <3>4, <3>5, <3>6
  <2>2. UNCHANGED <<kpc, kappr, dpc, dappr>>
    BY <1>1, Untouched
  <2>3. Resolving'
    BY <1>0, <2>2, DecisionsKept
  <2>4. QED
    BY <2>1, <2>3 DEF Placed
<1>2. CASE Cancelling
  <2>1. AtWork'
    BY <1>0, <1>2 DEF Cancelling, Canceller, CancelQueued, CancelList, CancelResolve, CancelGate,
       CancelListFails, cancel_run, Executing
  <2>2. Resolving'
    <3>1. /\ UNCHANGED <<dpc, dappr>>
          /\ kpc' = "resolve" => kappr' \in Call /\ appr[kappr'] = "pending"
          /\ kpc' = "gate" => kpc = "resolve" /\ kappr' = kappr /\ appr'[kappr] # "pending"
      BY <1>0, <1>2 DEF Cancelling, Canceller, CancelQueued, CancelList, CancelResolve, CancelGate,
         CancelListFails, cancel_run, Set
    <3>2. kpc' = "gate" => appr'[kappr] \in Decided
      BY <1>0, <1>2, <3>1, DecisionsKept
         DEF Cancelling, Canceller, CancelQueued, CancelList, CancelResolve, CancelGate,
             CancelListFails, cancel_run, Set, Decided
    <3>3. QED
      BY <1>0, <3>1, <3>2, DecisionsKept DEF Decided
  <2>3. QED
    BY <2>1, <2>2 DEF Placed
<1>3. CASE Deciding
  <2>1. AtWork' /\ UNCHANGED <<kpc, kappr>>
    BY <1>0, <1>3, Untouched
  <2>2. PICK d \in Surface : Decider(d) \/ \E c \in Call : DecideCheck(d, c)
    BY <1>3 DEF Deciding
  <2>3. /\ \A e \in Surface : e # d => dpc'[e] = dpc[e] /\ dappr'[e] = dappr[e]
        /\ dpc'[d] # "idle" => dappr'[d] \in Call
        /\ dpc'[d] = "gate" => appr'[dappr'[d]] \in Decided
    BY <1>0, <2>2 DEF Decider, DecideGate, DecideStore, DecideCheck, Set, Decided
  <2>4. Resolving'
    BY <1>0, <2>1, <2>3, DecisionsKept
  <2>5. QED
    BY <2>1, <2>4 DEF Placed
<1>4. CASE UNCHANGED workVars
  BY <1>0, <1>4 DEF workVars, Placed
<1>5. QED
  BY <1>1, <1>2, <1>3, <1>4, StepKinds

\* The worker comes to its calls in order, and nothing is written, asked,
\* answered or started for a call before that.
LEMMA FreshStep ==
    ASSUME Typed, Placed, Fresh, [WorkerNext]_workVars
    PROVE  Fresh'
<1> USE DEF recordVars, runnerVars, executorVars, cancelVars, decideVars, faultVars, Set
<1>0. /\ cur \in Nat /\ Call = 1..MaxTurns /\ MaxTurns \in Nat
      /\ calls \in [Call -> CallState]
      /\ appr \in [Call -> {"none", "pending"} \cup Decided]
      /\ slot \in [Call -> {"none", "empty"} \cup Decided]
      /\ rpc \in AtCall \/ xpc # "none" => cur \in Call
      /\ rpc = "insert" => cur + 1 \in Call
  BY WorkerAssumption DEF Typed, WorkerTypeOK, Call, Placed
<1>1. CASE Driving
  <2>1. rpc' \notin {"policy", "ticket", "open"}
    BY <1>1 DEF Driving, StartDrive, TurnCancelled, AgentPlans, AgentCalls, AgentFaults, AgentEnds,
       DrainSteps, EndRun, EndDrive
  <2>2. QED
    BY <1>1, <2>1, Untouched DEF Fresh
<1>2. CASE Dispatching
  BY <1>0, <1>2 DEF Fresh, AtCall, Dispatching, InsertCall, FailBeforePolicy, DispatchCancelled,
     PolicyDenies, PolicyAllows, PolicyAsks, FailStep, EndCall
<1>3. CASE Parking
  BY <1>0, <1>3 DEF Fresh, AtCall, Resolved, Parking, TakeTicket, OpenApproval, ParkRun,
     SelfCancel, WakeUp
<1>4. CASE Resuming
  <2>1. rpc' \notin {"policy", "ticket", "open"} /\ \A c \in Call : c > cur => calls'[c] = calls[c]
    BY <1>0, <1>4 DEF Resuming, ResumeCancelled, ResumeDenied, ResumeRun, ResumeGranted, SubmitCall,
       TakeResult, TakeError, EndCall
  <2>2. QED
    BY <1>4, <2>1, Untouched DEF Fresh
<1>5. CASE Faulting
  BY <1>0, <1>5 DEF Fresh, AfterFault, Faulting, FaultApprovals, FaultCalls, FaultSteps, FaultRun,
     StoreFault, FaultUnrecorded
<1>6. CASE Bodies
  <2>1. \A c \in Call : c > cur => calls'[c] = calls[c] /\ (c \in bodies' => c \in bodies)
    BY <1>0, <1>6 DEF Bodies, Executor, ExecDispatch, BodyStarts, BodyRefused, BodyReports,
       BodyAbandoned, ExecFinish, ExecFault, LeftBodyEnds
  <2>2. rpc = "policy" => bodies' \subseteq bodies
    BY <1>0, <1>6 DEF Placed, Executing, Faulted, Bodies, Executor, ExecDispatch, BodyStarts,
       BodyRefused, BodyReports, BodyAbandoned, ExecFinish, ExecFault, LeftBodyEnds
  <2>3. QED
    BY <1>6, <2>1, <2>2, Untouched DEF Fresh
<1>7. CASE Cancelling \/ Deciding
  <2>1. \A c \in Call : slot[c] = "none" => slot'[c] = "none"
    BY <1>0, <1>7 DEF Resolved, Cancelling, Canceller, CancelQueued, CancelList, CancelResolve,
       CancelGate, CancelListFails, cancel_run, Deciding, Decider, DecideGate, DecideStore,
       DecideCheck
  <2>2. \A c \in Call : c > cur => calls'[c] = calls[c]
    BY <1>0, <1>7 DEF Cancelling, Canceller, CancelQueued, CancelList, CancelResolve, CancelGate,
       CancelListFails, cancel_run,
       Deciding, Decider, DecideGate, DecideStore, DecideCheck
  <2>3. rpc = "open" => appr'[cur] = appr[cur]
    BY <1>0, <1>7 DEF Fresh, AtCall, Cancelling, Canceller, CancelQueued, CancelList,
       CancelResolve, CancelGate, CancelListFails, cancel_run, Deciding, Decider, DecideGate,
       DecideStore, DecideCheck
  <2>4. QED
    BY <1>0, <1>7, <2>1, <2>2, <2>3, DecisionsKept, Untouched DEF Fresh, AtCall
<1>8. CASE UNCHANGED workVars
  BY <1>8 DEF workVars, Fresh
<1>9. QED
  BY <1>1, <1>2, <1>3, <1>4, <1>5, <1>6, <1>7, <1>8, StepKinds

\* The record of the current call follows the worker, and every call the
\* worker has left behind has its ending.
LEMMA CurrentStep ==
    ASSUME Typed, Placed, Fresh, Current, [WorkerNext]_workVars
    PROVE  Current'
<1> USE DEF recordVars, runnerVars, executorVars, cancelVars, decideVars, faultVars, Set
<1>0. /\ cur \in Nat /\ Call = 1..MaxTurns /\ MaxTurns \in Nat
      /\ calls \in [Call -> CallState] /\ rpc \in WorkerPC
      /\ rpc \in AtCall \/ xpc # "none" => cur \in Call
      /\ rpc = "insert" => cur + 1 \in Call
      /\ xpc \in Executing => rpc \in {"await"} \cup Faulted
  BY WorkerAssumption DEF Typed, WorkerTypeOK, Hands, Call, Placed
<1>1. CASE Driving
  <2>1. /\ rpc \in {"start", "turn", "drain", "end_run", "told", "leave"} /\ rpc' \notin AtCall
        /\ rpc = "leave" => rpc' = "ended"
    BY <1>1 DEF AtCall, Driving, StartDrive, TurnCancelled, AgentPlans, AgentCalls, AgentFaults,
       AgentEnds, DrainSteps, EndRun, EndDrive
  <2>2. QED
    BY <1>1, <2>1, Untouched DEF Current, AtCall, Faulted
<1>2. CASE Dispatching
  BY <1>0, <1>2 DEF Current, Fresh, Placed, AtCall, Faulted, Terminal, Dispatching, InsertCall,
     FailBeforePolicy, DispatchCancelled, PolicyDenies, PolicyAllows, PolicyAsks, FailStep,
     EndCall
<1>3. CASE Parking
  <2>1. /\ rpc \in {"ticket", "open", "park", "parked"}
        /\ rpc' \in {"ticket", "open", "park", "parked", "resume"}
    BY <1>3 DEF Parking, TakeTicket, OpenApproval, ParkRun, SelfCancel, WakeUp
  <2>2. QED
    BY <1>3, <2>1, Untouched DEF Current, AtCall, Faulted
<1>4. CASE Resuming
  <2>1. CASE ResumeCancelled \/ ResumeDenied
    BY <1>0, <2>1 DEF ResumeCancelled, ResumeDenied, EndCall, Current, AtCall, Faulted, Terminal
  <2>2. CASE ~(ResumeCancelled \/ ResumeDenied)
    BY <1>0, <1>4, <2>2 DEF Current, AtCall, Faulted, Terminal, Resuming, ResumeCancelled,
       ResumeDenied, ResumeRun, ResumeGranted, SubmitCall, TakeResult, TakeError, EndCall
  <2>3. QED
    BY <2>1, <2>2
<1>5. CASE Faulting
  <2>1. rpc' \in Faulted
    BY <1>5 DEF AfterFault, Faulted, Faulting, FaultApprovals, FaultCalls, FaultSteps, FaultRun,
       StoreFault, FaultUnrecorded
  <2>2. QED
    BY <2>1 DEF Current, Faulted
<1>6. CASE Bodies
  BY <1>0, <1>6, CallsKept DEF Current, Executing, Faulted, AtCall, Terminal, Bodies, Executor,
     ExecDispatch, BodyStarts, BodyRefused, BodyReports, BodyAbandoned, ExecFinish, ExecFault,
     LeftBodyEnds
<1>7. CASE Cancelling
  BY <1>0, <1>7, CallsKept DEF Current, Executing, Faulted, AtCall, Terminal, Cancelling,
     Canceller, CancelQueued, CancelList, CancelResolve, CancelGate, CancelListFails, cancel_run
<1>8. CASE Deciding \/ UNCHANGED workVars
  BY <1>8, Untouched DEF workVars, Current
<1>9. QED
  BY <1>1, <1>2, <1>3, <1>4, <1>5, <1>6, <1>7, <1>8, StepKinds

\* The executor gets an asked call only from a worker that has seen its
\* recorded grant, and a grant is not withdrawn.
LEMMA ConsentStep ==
    ASSUME Typed, Placed, Fresh, Current, Consent, [WorkerNext]_workVars
    PROVE  Consent'
<1> USE DEF recordVars, runnerVars, executorVars, cancelVars, decideVars, faultVars, Set
<1>0. /\ asked \subseteq Call /\ bodies \subseteq Call /\ calls \in [Call -> CallState]
      /\ rpc \in AtCall \/ xpc # "none" => cur \in Call
  BY DEF Typed, WorkerTypeOK, Placed
<1>1. \A c \in Call : appr[c] = "granted" => appr'[c] = "granted"
  BY DecisionsKept DEF Decided
\* What runs has been running, or is the current call in the executor's hands.
<1>2. /\ \A c \in Call : calls'[c] \in {"running", "succeeded"} =>
           calls[c] \in {"running", "succeeded"} \/ (xpc = "queued" /\ c = cur)
      /\ \A c \in bodies' : c \in bodies \/ (xpc = "gate" /\ c = cur)
  <2>1. \A c \in bodies' : c \in bodies \/ (xpc = "gate" /\ c = cur)
    <3>1. CASE Bodies
      BY <3>1 DEF Bodies, Executor, ExecDispatch, BodyStarts, BodyRefused, BodyReports,
         BodyAbandoned, ExecFinish, ExecFault, LeftBodyEnds
    <3>2. CASE ~Bodies
      BY <3>2, StepKinds, Untouched DEF workVars
    <3>3. QED
      BY <3>1, <3>2
  <2>2. QED
    BY <2>1, CallsKept
\* What is asked has been asked, or is the current call before it runs.
<1>3. \A c \in asked' : c \in asked \/ (rpc = "policy" /\ c = cur /\ calls'[c] = "awaiting" /\ c \notin bodies')
  <2>1. CASE Dispatching
    BY <1>0, <2>1 DEF AtCall, Fresh, Dispatching, InsertCall, FailBeforePolicy, DispatchCancelled,
       PolicyDenies, PolicyAllows, PolicyAsks, FailStep, EndCall
  <2>2. CASE ~Dispatching
    BY <2>2, StepKinds, Untouched DEF workVars
  <2>3. QED
    BY <2>1, <2>2
<1>4. asked' \subseteq Call
  BY <1>0, <1>3 DEF AtCall
<1>5. ConsentFirst'
  BY <1>0, <1>1, <1>2, <1>3, <1>4 DEF Consent, ConsentFirst, Executing
<1>6. rpc' = "submit" /\ cur' \in asked' => appr'[cur'] = "granted"
  <2>1. CASE Bodies \/ Cancelling \/ Deciding \/ UNCHANGED workVars
    BY <1>0, <1>1, <2>1, Untouched DEF Consent, workVars, AtCall
  <2>2. CASE Resuming
    <3>1. rpc' = "submit" => appr[cur] = "granted"
      BY <2>2 DEF Resuming, ResumeCancelled, ResumeDenied, ResumeRun, ResumeGranted, SubmitCall,
         TakeResult, TakeError, EndCall
    <3>2. QED
      BY <2>2, <3>1, Untouched
  <2>3. CASE Dispatching
    <3>1. rpc' = "submit" => rpc = "policy" /\ UNCHANGED <<cur, asked>>
      BY <2>3 DEF Dispatching, InsertCall, FailBeforePolicy, DispatchCancelled, PolicyDenies,
         PolicyAllows, PolicyAsks, FailStep, EndCall
    <3>2. QED
      BY <3>1 DEF Fresh
  <2>4. CASE Driving \/ Parking \/ Faulting
    <3>1. rpc' # "submit"
      BY <2>4 DEF AfterFault, Driving, StartDrive, TurnCancelled, AgentPlans, AgentCalls,
         AgentFaults, AgentEnds, DrainSteps, EndRun, EndDrive, Parking, TakeTicket, OpenApproval,
         ParkRun, SelfCancel, WakeUp, Faulting, FaultApprovals, FaultCalls, FaultSteps, FaultRun,
         StoreFault, FaultUnrecorded
    <3>2. QED
      BY <3>1
  <2>5. QED
    BY <2>1, <2>2, <2>3, <2>4, StepKinds
<1>7. xpc' \in Executing /\ cur' \in asked' => appr'[cur'] = "granted"
  <2>1. CASE Dispatching \/ Parking
    <3>1. rpc \notin {"await"} \cup Faulted
      BY <2>1 DEF Faulted, Dispatching, InsertCall, FailBeforePolicy, DispatchCancelled,
         PolicyDenies, PolicyAllows, PolicyAsks, FailStep, EndCall, Parking, TakeTicket,
         OpenApproval, ParkRun, SelfCancel, WakeUp
    <3>2. xpc' \notin Executing
      BY <2>1, <3>1, Untouched DEF Placed
    <3>3. QED
      BY <3>2
  <2>2. CASE ~(Dispatching \/ Parking)
    <3>1. UNCHANGED <<cur, asked>>
      BY <2>2, StepKinds, Untouched DEF workVars
    <3>2. xpc' \in Executing => xpc \in Executing \/ rpc = "submit"
      <4>1. CASE Resuming \/ Bodies \/ Cancelling
        BY <4>1 DEF Executing, Resuming, ResumeCancelled, ResumeDenied, ResumeRun, ResumeGranted,
           SubmitCall, TakeResult, TakeError, EndCall, Bodies, Executor, ExecDispatch, BodyStarts,
           BodyRefused, BodyReports, BodyAbandoned, ExecFinish, ExecFault, LeftBodyEnds,
           Cancelling, Canceller, CancelQueued, CancelList, CancelResolve, CancelGate,
           CancelListFails, cancel_run
      <4>2. CASE ~(Resuming \/ Bodies \/ Cancelling)
        BY <2>2, <4>2, StepKinds, Untouched DEF workVars
      <4>3. QED
        BY <4>1, <4>2
    <3>3. QED
      BY <1>0, <1>1, <3>1, <3>2 DEF Consent, AtCall, Executing
  <2>3. QED
    BY <2>1, <2>2
<1>8. QED
  BY <1>5, <1>6, <1>7 DEF Consent

\* An answer reaches the gate only from the record, and the record it came
\* from does not change; a request waits for an answer only while its worker
\* waits with it.
LEMMA AnswersStep ==
    ASSUME Typed, Placed, Fresh, Answers, [WorkerNext]_workVars
    PROVE  Answers'
<1> USE DEF recordVars, runnerVars, executorVars, cancelVars, decideVars, faultVars, Set
<1>0. /\ appr \in [Call -> {"none", "pending"} \cup Decided]
      /\ slot \in [Call -> {"none", "empty"} \cup Decided]
      /\ rpc \in AtCall => cur \in Call
      /\ rpc \in {"policy", "ticket", "open"} => appr[cur] = "none"
      /\ rpc \in {"park", "parked"} => appr[cur] # "none"
      /\ \A c \in Call : slot[c] \in Decided => slot[c] = appr[c]
  BY DEF Typed, WorkerTypeOK, Placed, Fresh, Answers, ObservationTrue
<1>1. CASE Driving \/ Dispatching \/ Resuming \/ UNCHANGED workVars
  <2>1. UNCHANGED <<appr, slot, obs>>
    BY <1>1, Untouched DEF workVars
  <2>2. /\ rpc' \in {"park", "parked", "resume"} => rpc' = rpc /\ cur' = cur
        /\ rpc \in {"park", "parked"} => rpc' = rpc /\ cur' = cur
        /\ rpc \in Faulted => rpc' \in Faulted
    BY <1>1 DEF Faulted, workVars, Driving, StartDrive, TurnCancelled, AgentPlans, AgentCalls,
       AgentFaults, AgentEnds, DrainSteps, EndRun, EndDrive, Dispatching, InsertCall,
       FailBeforePolicy, DispatchCancelled, PolicyDenies, PolicyAllows, PolicyAsks, FailStep,
       EndCall, Resuming, ResumeCancelled, ResumeDenied, ResumeRun, ResumeGranted, SubmitCall,
       TakeResult, TakeError, EndCall
  <2>3. QED
    BY <2>1, <2>2 DEF Answers, ObservationTrue
<1>2. CASE Parking
  <2>1. ASSUME TakeTicket \/ ParkRun PROVE Answers'
    BY <1>0, <2>1 DEF TakeTicket, ParkRun, Answers, ObservationTrue, AtCall, Faulted, Decided
  <2>2. ASSUME OpenApproval PROVE Answers'
    BY <1>0, <2>2 DEF OpenApproval, Answers, ObservationTrue, AtCall, Faulted, Decided
  <2>3. ASSUME SelfCancel PROVE Answers'
    BY <1>0, <2>3 DEF SelfCancel, Resolved, Answers, ObservationTrue, AtCall, Faulted, Decided
  <2>4. ASSUME WakeUp PROVE Answers'
    BY <1>0, <2>4 DEF WakeUp, Answers, ObservationTrue, AtCall, Faulted, Decided
  <2>5. QED
    BY <1>2, <2>1, <2>2, <2>3, <2>4 DEF Parking
<1>3. CASE Faulting
  <2>1. rpc' \in Faulted
    BY <1>3 DEF AfterFault, Faulted, Faulting, FaultApprovals, FaultCalls, FaultSteps, FaultRun,
       StoreFault, FaultUnrecorded
  <2>2. \A c \in Call : slot'[c] \in Decided => slot'[c] = slot[c] /\ appr'[c] = appr[c]
    BY <1>0, <1>3, DecisionsKept DEF Decided, Faulting, FaultApprovals, FaultCalls, FaultSteps,
       FaultRun, StoreFault, FaultUnrecorded
  <2>3. QED
    BY <1>0, <2>1, <2>2 DEF Answers, ObservationTrue, Faulted
<1>4. CASE Bodies
  BY <1>4, Untouched DEF Answers, ObservationTrue
<1>5. CASE Cancelling \/ Deciding
  <2>1. \A c \in Call : slot'[c] \in Decided => slot'[c] = appr'[c]
    <3>1. CASE slot' = slot
      BY <1>0, <3>1, DecisionsKept
    <3>2. CASE slot' # slot
      <4>1. appr' = appr /\ \E c : slot' = Resolved(c, appr[c])
        BY <1>5, <3>2 DEF Cancelling, Canceller, CancelQueued, CancelList, CancelResolve,
           CancelGate, CancelListFails, cancel_run, Deciding, Decider, DecideGate, DecideStore,
           DecideCheck
      <4>2. QED
        BY <1>0, <4>1 DEF Resolved
    <3>3. QED
      BY <3>1, <3>2
  <2>2. UNCHANGED <<rpc, cur, obs>>
    BY <1>5, Untouched
  <2>3. rpc = "resume" => appr'[cur] = appr[cur]
    BY <1>0, DecisionsKept DEF Answers, ObservationTrue, AtCall
  <2>4. \A c \in Call : appr'[c] = "pending" => appr[c] = "pending"
    BY <1>0, <1>5 DEF Cancelling, Canceller, CancelQueued, CancelList, CancelResolve, CancelGate,
       CancelListFails, cancel_run,
       Deciding, Decider, DecideGate, DecideStore, DecideCheck
  <2>5. rpc \in {"park", "parked"} => appr'[cur] # "none"
    BY <1>0, DecisionsKept DEF AtCall
  <2>6. QED
    BY <1>0, <2>1, <2>2, <2>3, <2>4, <2>5 DEF Answers, ObservationTrue
<1>6. QED
  BY <1>1, <1>2, <1>3, <1>4, <1>5, StepKinds

\* The run gets its ending in the last record of the worker.
LEMMA EndingsStep ==
    ASSUME Typed, Endings, [WorkerNext]_workVars
    PROVE  Endings'
<1> USE DEF recordVars, runnerVars, executorVars, cancelVars, decideVars, faultVars
<1>0. ending \in {"none"} \cup Terminal
  BY DEF Typed, Hands
<1>1. CASE Driving \/ Dispatching
  BY <1>0, <1>1 DEF Endings, Faulted, Terminal, Driving, StartDrive, TurnCancelled, AgentPlans,
     AgentCalls, AgentFaults, AgentEnds, DrainSteps, EndRun, EndDrive, Dispatching, InsertCall,
     FailBeforePolicy, DispatchCancelled, PolicyDenies, PolicyAllows, PolicyAsks, FailStep,
     EndCall
<1>2. CASE Parking \/ Resuming
  BY <1>0, <1>2 DEF Endings, Faulted, Terminal, Parking, TakeTicket, OpenApproval, ParkRun,
     SelfCancel, WakeUp, Resuming, ResumeCancelled, ResumeDenied, ResumeRun, ResumeGranted,
     SubmitCall, TakeResult, TakeError, EndCall
<1>3. CASE Faulting
  BY <1>0, <1>3 DEF Endings, Faulted, Terminal, AfterFault, Faulting, FaultApprovals, FaultCalls,
     FaultSteps, FaultRun, StoreFault, FaultUnrecorded
<1>4. CASE Bodies \/ Cancelling \/ Deciding \/ UNCHANGED workVars
  BY <1>4, Untouched DEF Endings, workVars
<1>5. QED
  BY <1>1, <1>2, <1>3, <1>4, StepKinds

\* Adding at the end of a list keeps what it had.
LEMMA AddedAtEnd ==
    ASSUME NEW T, NEW q \in Seq(T), NEW x \in T
    PROVE  /\ Append(q, x) \in Seq(T) /\ Len(q) \in Nat /\ DOMAIN q = 1..Len(q)
           /\ Len(Append(q, x)) = Len(q) + 1
           /\ DOMAIN Append(q, x) = DOMAIN q \cup {Len(q) + 1}
           /\ \A i \in DOMAIN q : Append(q, x)[i] = q[i]
           /\ Append(q, x)[Len(q) + 1] = x
<1>1. /\ Append(q, x) \in Seq(T) /\ Len(q) \in Nat /\ DOMAIN q = 1..Len(q)
      /\ Len(Append(q, x)) = Len(q) + 1
      /\ DOMAIN Append(q, x) = 1..Len(q) + 1
      /\ \A i \in 1..Len(q) : Append(q, x)[i] = q[i]
      /\ Append(q, x)[Len(q) + 1] = x
  OBVIOUS
<1>2. QED
  BY <1>1

\* A step that is taken from the plan or added to the run is the current one,
\* and the end of the run gives an ending to all that were left.
LEMMA CoveredStep ==
    ASSUME Typed, Covered, [WorkerNext]_workVars
    PROVE  Covered'
<1> USE DEF recordVars, runnerVars, executorVars, cancelVars, decideVars, faultVars, Pending,
   Planned
<1>0. /\ steps \in Seq(RunState) /\ planned \in Seq(DOMAIN steps)
      /\ Len(steps) \in Nat /\ DOMAIN steps = 1..Len(steps)
  BY DEF Typed, WorkerTypeOK
<1>1. ASSUME AgentPlans PROVE Covered'
  <2>1. steps' = Append(steps, "queued") /\ planned' = Append(planned, Len(steps) + 1)
        /\ rpc = "turn" /\ rpc' = "turn"
    BY <1>1 DEF AgentPlans
  <2>2. /\ DOMAIN steps' = DOMAIN steps \cup {Len(steps) + 1}
        /\ \A i \in DOMAIN steps : steps'[i] = steps[i]
    BY <1>0, <2>1, AddedAtEnd DEF RunState
  <2>3. planned \in Seq(Nat)
    BY <1>0, SeqMonotonic
  <2>4. /\ \A j \in DOMAIN planned : j \in DOMAIN planned' /\ planned'[j] = planned[j]
        /\ Len(planned) + 1 \in DOMAIN planned' /\ planned'[Len(planned) + 1] = Len(steps) + 1
    BY <1>0, <2>1, <2>3, AddedAtEnd
  <2>5. \A i \in DOMAIN steps' : steps'[i] \notin Terminal => \E j \in DOMAIN planned' : planned'[j] = i
    BY <2>1, <2>2, <2>4 DEF Covered
  <2>6. QED
    BY <2>1, <2>5 DEF Covered, AtCall
<1>2. ASSUME AgentCalls PROVE Covered'
  <2>0. rpc = "turn" /\ rpc' = "insert"
    BY <1>2 DEF AgentCalls
  <2>1. CASE planned = <<>>
    <3>1. steps' = Append(steps, "running") /\ step' = Len(steps) + 1 /\ planned' = planned
      BY <1>2, <2>1 DEF AgentCalls
    <3>2. /\ DOMAIN steps' = DOMAIN steps \cup {Len(steps) + 1}
          /\ \A i \in DOMAIN steps : steps'[i] = steps[i]
      BY <1>0, <3>1, AddedAtEnd DEF RunState
    <3>3. QED
      BY <2>0, <3>1, <3>2 DEF Covered, AtCall
  <2>2. CASE planned # <<>>
    <3>1. steps' = Set(steps, Head(planned), "running") /\ step' = Head(planned) /\ planned' = Tail(planned)
      BY <1>2, <2>2 DEF AgentCalls
    <3>2. DOMAIN steps' = DOMAIN steps /\ \A i \in DOMAIN steps : i # step' => steps'[i] = steps[i]
      BY <3>1 DEF Set
    <3>3. \A j \in DOMAIN planned :
            planned[j] = Head(planned) \/ \E k \in DOMAIN Tail(planned) : Tail(planned)[k] = planned[j]
      <4> HIDE DEF Planned
      <4>1. /\ Len(planned) \in Nat /\ DOMAIN planned = 1..Len(planned) /\ Head(planned) = planned[1]
            /\ DOMAIN Tail(planned) = 1..Len(planned) - 1
            /\ \A k \in 1..Len(planned) - 1 : Tail(planned)[k] = planned[k + 1]
        BY <1>0, <2>2
      <4>2. \A j \in DOMAIN planned : j = 1 \/ (j - 1 \in 1..Len(planned) - 1 /\ j - 1 + 1 = j)
        BY <4>1
      <4>3. QED
        BY <4>1, <4>2
    <3>4. QED
      BY <2>0, <3>1, <3>2, <3>3 DEF Covered, AtCall
  <2>3. QED
    BY <2>1, <2>2
<1>3. ASSUME DrainSteps PROVE Covered'
  BY <1>0, <1>3 DEF DrainSteps, Covered, AtCall, Terminal
\* The current step gets its ending.
<1>4. ASSUME NEW x \in Terminal, steps' = Set(steps, step, x), UNCHANGED <<planned, step>>,
             rpc \in AtCall, rpc' = "turn"
      PROVE  Covered'
  BY <1>0, <1>4 DEF Covered, AtCall, Set
\* Nothing happens to the steps.
<1>5. ASSUME UNCHANGED <<steps, planned>>,
             \/ step' = step /\ rpc \in AtCall \cup {"insert"} /\ rpc' \in AtCall \cup {"drain"} \cup Faulted
             \/ rpc \in {"start", "turn"} /\ rpc' \in {"turn", "drain"} \cup Faulted
             \/ rpc \in {"end_run", "told"} /\ rpc' \in {"told"} \cup Faulted
             \/ rpc' \in Faulted
             \/ UNCHANGED <<rpc, step>>
      PROVE  Covered'
  BY <1>5 DEF Covered, AtCall, Faulted
<1>6. CASE Driving
  <2>1. CASE StartDrive \/ TurnCancelled \/ AgentFaults \/ (\E s \in {"succeeded", "failed"} : AgentEnds(s))
              \/ EndRun \/ EndDrive
    BY <1>5, <2>1 DEF StartDrive, TurnCancelled, AgentFaults, AgentEnds, EndRun, EndDrive, Faulted
  <2>2. QED
    BY <1>1, <1>2, <1>3, <1>6, <2>1 DEF Driving
<1>7. CASE Dispatching \/ Resuming
  <2>1. CASE FailStep
    BY <1>4, <2>1 DEF FailStep, AtCall, Terminal
  <2>2. CASE TakeResult /\ result # "cancelled"
    BY <1>4, <2>2 DEF TakeResult, AtCall
  <2>3. CASE ~FailStep /\ ~(TakeResult /\ result # "cancelled")
    <3>1. UNCHANGED <<steps, planned, step>>
      BY <1>7, <2>3 DEF Dispatching, InsertCall, FailBeforePolicy, DispatchCancelled, PolicyDenies,
         PolicyAllows, PolicyAsks, FailStep, EndCall,
         Resuming, ResumeCancelled, ResumeDenied, ResumeRun, ResumeGranted, SubmitCall,
            TakeResult, TakeError, EndCall
    <3>2. \/ rpc \in AtCall \cup {"insert"} /\ rpc' \in AtCall \cup {"drain"} \cup Faulted
      BY <1>7, <2>3 DEF AtCall, Faulted, Dispatching, InsertCall, FailBeforePolicy,
         DispatchCancelled, PolicyDenies, PolicyAllows, PolicyAsks, FailStep, EndCall, Resuming,
         ResumeCancelled, ResumeDenied, ResumeRun, ResumeGranted, SubmitCall, TakeResult,
         TakeError, EndCall
    <3>3. QED
      BY <1>5, <3>1, <3>2
  <2>4. QED
    BY <2>1, <2>2, <2>3
<1>8. CASE Parking
  <2>1. rpc \in AtCall /\ rpc' \in AtCall
    BY <1>8 DEF AtCall, Parking, TakeTicket, OpenApproval, ParkRun, SelfCancel, WakeUp
  <2>2. QED
    BY <1>5, <1>8, <2>1, Untouched
<1>9. CASE Faulting
  <2>1. rpc' \in Faulted
    BY <1>9 DEF AfterFault, Faulted, Faulting, FaultApprovals, FaultCalls, FaultSteps, FaultRun,
       StoreFault, FaultUnrecorded
  <2>2. QED
    BY <2>1 DEF Covered, Faulted, AtCall
<1>10. CASE Bodies \/ Cancelling \/ Deciding \/ UNCHANGED workVars
  BY <1>5, <1>10, Untouched DEF workVars
<1>11. QED
  BY <1>6, <1>7, <1>8, <1>9, <1>10, StepKinds

\* Behind a worker that records its fault, nobody opens anything again.
LEMMA RecordedStep ==
    ASSUME Typed, Placed, Fresh, Current, Answers, Covered, Endings, Recorded, [WorkerNext]_workVars
    PROVE  Recorded'
<1> USE DEF recordVars, runnerVars, executorVars, cancelVars, decideVars, faultVars, Pending
<1>0. /\ rpc \in WorkerPC /\ runState \in RunState
      /\ calls \in [Call -> CallState] /\ appr \in [Call -> {"none", "pending"} \cup Decided]
  BY DEF Typed, WorkerTypeOK, Hands
<1>1. rpc # "insert" => \A c \in Call :
        calls[c] \in Terminal \cup {"none"} => calls'[c] \in Terminal \cup {"none"}
  BY CallsKept
<1>2. rpc # "open" => \A c \in Call : appr[c] # "pending" => appr'[c] # "pending"
  BY DecisionsKept
<1>3. CASE Bodies \/ Cancelling \/ Deciding \/ UNCHANGED workVars
  <2>1. UNCHANGED <<rpc, runState, steps, lost>>
    BY <1>3, Untouched DEF workVars
  <2>2. QED
    BY <1>1, <1>2, <2>1 DEF Recorded, Faulted
<1>4. CASE Driving
  <2>1. CASE EndDrive
    <3>1. rpc \in {"told", "leave"} /\ rpc' = "ended" /\ UNCHANGED <<runState, steps, calls, appr, lost>>
      BY <2>1 DEF EndDrive
    <3>2. CASE rpc = "told"
      BY <3>1, <3>2 DEF Recorded, Current, Answers, Covered, Endings, AtCall, Faulted
    <3>3. CASE rpc = "leave"
      BY <3>1, <3>3 DEF Recorded, Faulted
    <3>4. QED
      BY <3>1, <3>2, <3>3
  <2>2. CASE ~EndDrive
    <3>1. rpc' \notin Faulted \ {"fault_approvals"}
      BY <1>4, <2>2 DEF Faulted, Driving, StartDrive, TurnCancelled, AgentPlans, AgentCalls,
         AgentFaults, AgentEnds, DrainSteps, EndRun, EndDrive
    <3>2. QED
      BY <3>1 DEF Recorded, Faulted
  <2>3. QED
    BY <2>1, <2>2
<1>5. CASE Dispatching \/ Parking \/ Resuming
  <2>1. rpc' \notin Faulted \ {"fault_approvals"}
    BY <1>5 DEF Faulted, Dispatching, InsertCall, FailBeforePolicy, DispatchCancelled, PolicyDenies,
       PolicyAllows, PolicyAsks, FailStep, EndCall,
       Parking, TakeTicket, OpenApproval, ParkRun, SelfCancel, WakeUp,
       Resuming, ResumeCancelled, ResumeDenied, ResumeRun, ResumeGranted, SubmitCall,
          TakeResult, TakeError, EndCall
  <2>2. QED
    BY <2>1 DEF Recorded, Faulted
<1>6. CASE Faulting
  <2>1. CASE StoreFault \/ FaultUnrecorded
    BY <2>1 DEF StoreFault, FaultUnrecorded, Recorded, Faulted
  <2>2. CASE FaultApprovals
    BY <1>0, <2>2 DEF FaultApprovals, Recorded, Faulted
  <2>3. CASE FaultCalls
    BY <1>0, <2>3 DEF FaultCalls, Recorded, Faulted, Terminal
  <2>4. CASE FaultSteps
    BY <1>0, <2>4 DEF FaultSteps, Recorded, Faulted, Terminal
  <2>5. CASE FaultRun
    BY <1>0, <2>5 DEF FaultRun, Recorded, Faulted, Terminal
  <2>6. QED
    BY <1>6, <2>1, <2>2, <2>3, <2>4, <2>5 DEF Faulting
<1>7. QED
  BY <1>3, <1>4, <1>5, <1>6, StepKinds

\* Giving the entries of a list other values keeps its length.
LEMMA ChangedInPlace ==
    ASSUME NEW T, NEW q \in Seq(T), NEW r \in [DOMAIN q -> T]
    PROVE  r \in Seq(T) /\ Len(r) = Len(q) /\ DOMAIN r = DOMAIN q
<1>1. DOMAIN q = 1..Len(q) /\ Len(q) \in Nat
  OBVIOUS
<1>2. r \in [1..Len(q) -> T]
  BY <1>1
<1>3. QED
  BY <1>1, <1>2

\* Every step keeps the types: of the records, the threads and the lists.
LEMMA TypedStep ==
    ASSUME Typed, Placed, Fresh, Answers, Endings, [WorkerNext]_workVars
    PROVE  Typed'
<1> USE DEF recordVars, runnerVars, executorVars, cancelVars, decideVars, faultVars
<1> DEFINE Lists == /\ steps \in Seq(RunState) /\ planned \in Seq(DOMAIN steps) /\ step \in 0..Len(steps)
<1>0. MaxTurns \in Nat /\ MaxFaults \in Nat /\ Call = 1..MaxTurns
  BY WorkerAssumption DEF Call
<1>1. Lists
  BY DEF Typed, WorkerTypeOK
<1>2. /\ runState \in RunState /\ calls \in [Call -> CallState]
      /\ appr \in [Call -> {"none", "pending"} \cup Decided]
      /\ slot \in [Call -> {"none", "empty"} \cup Decided]
      /\ asked \subseteq Call /\ bodies \subseteq Call
      /\ token \in BOOLEAN /\ active \in BOOLEAN /\ lost \in BOOLEAN
      /\ turn \in 0..MaxTurns /\ cur \in 0..turn /\ faults \in 0..MaxFaults /\ Hands
  BY DEF Typed, WorkerTypeOK
<1>13. Lists'
  <2>0. steps \in Seq(RunState) /\ steps \in [DOMAIN steps -> RunState]
    BY <1>1
  <2>1. ASSUME AgentPlans PROVE Lists'
    <3>1. /\ steps' = Append(steps, "queued") /\ planned' = Append(planned, Len(steps) + 1)
          /\ step' = step
      BY <2>1 DEF AgentPlans
    <3>2. /\ steps' \in Seq(RunState) /\ Len(steps') = Len(steps) + 1 /\ Len(steps) \in Nat
          /\ DOMAIN steps' = DOMAIN steps \cup {Len(steps) + 1}
      BY <1>1, <3>1, AddedAtEnd DEF RunState
    <3>3. planned \in Seq(DOMAIN steps')
      BY <1>1, <3>2, SeqMonotonic
    <3>4. planned' \in Seq(DOMAIN steps')
      BY <3>1, <3>2, <3>3, AddedAtEnd
    <3>5. QED
      BY <1>1, <3>1, <3>2, <3>4
  <2>2. ASSUME AgentCalls PROVE Lists'
    <3>1. CASE planned = <<>>
      <4>1. steps' = Append(steps, "running") /\ step' = Len(steps) + 1 /\ planned' = planned
        BY <2>2, <3>1 DEF AgentCalls
      <4>2. /\ steps' \in Seq(RunState) /\ Len(steps') = Len(steps) + 1 /\ Len(steps) \in Nat
            /\ DOMAIN steps' = DOMAIN steps \cup {Len(steps) + 1}
        BY <1>1, <4>1, AddedAtEnd DEF RunState
      <4>3. planned' \in Seq(DOMAIN steps')
        BY <1>1, <4>1, <4>2, SeqMonotonic
      <4>4. QED
        BY <4>1, <4>2, <4>3
    <3>2. CASE planned # <<>>
      <4>1. steps' = Set(steps, Head(planned), "running") /\ step' = Head(planned) /\ planned' = Tail(planned)
        BY <2>2, <3>2 DEF AgentCalls
      <4>2. steps' \in Seq(RunState) /\ Len(steps') = Len(steps) /\ DOMAIN steps' = DOMAIN steps
        <5>1. steps' \in [DOMAIN steps -> RunState]
          BY <2>0, <4>1 DEF Set, RunState
        <5>2. QED
          BY <2>0, <5>1, ChangedInPlace
      <4>3. Head(planned) \in DOMAIN steps /\ Tail(planned) \in Seq(DOMAIN steps)
        BY <1>1, <3>2
      <4>4. DOMAIN steps = 1..Len(steps) /\ Len(steps) \in Nat
        BY <1>1
      <4>5. QED
        BY <4>1, <4>2, <4>3, <4>4
    <3>3. QED
      BY <3>1, <3>2
\* The current step gets its ending, or all that were left do.
  <2>3. ASSUME steps' \in [DOMAIN steps -> RunState], UNCHANGED <<planned, step>> PROVE Lists'
    <3>1. steps' \in Seq(RunState) /\ Len(steps') = Len(steps) /\ DOMAIN steps' = DOMAIN steps
      BY <2>0, <2>3, ChangedInPlace
    <3>2. QED
      BY <1>1, <2>3, <3>1
  <2>4. ASSUME FailStep \/ TakeResult PROVE Lists'
    <3>1. CASE steps' = steps
      BY <1>1, <2>4, <3>1 DEF FailStep, TakeResult
    <3>2. CASE steps' # steps
      <4>1. PICK x \in Terminal : steps' = Set(steps, step, x)
        BY <2>4, <3>2 DEF FailStep, TakeResult, Terminal
      <4>2. steps' \in [DOMAIN steps -> RunState] /\ UNCHANGED <<planned, step>>
        BY <2>0, <2>4, <4>1 DEF Set, RunState, FailStep, TakeResult
      <4>3. QED
        BY <2>3, <4>2
    <3>3. QED
      BY <3>1, <3>2
  <2>5. ASSUME DrainSteps \/ FaultSteps PROVE Lists'
    <3>1. \A i \in DOMAIN steps : steps[i] \in RunState
      BY <2>0
    <3>2. steps' \in [DOMAIN steps -> RunState] /\ UNCHANGED <<planned, step>>
      BY <2>5, <3>1 DEF DrainSteps, FaultSteps, RunState, Terminal
    <3>3. QED
      BY <2>3, <3>2
  <2>6. ASSUME UNCHANGED <<steps, planned>>, step' = step \/ step' = 0 PROVE Lists'
    BY <1>1, <2>6
  <2> HIDE DEF Lists
  <2>7. CASE Driving
    BY <2>1, <2>2, <2>5, <2>6, <2>7 DEF Driving, StartDrive, TurnCancelled, AgentPlans,
       AgentCalls, AgentFaults, AgentEnds, DrainSteps, EndRun, EndDrive
  <2>8. CASE Dispatching \/ Resuming
    BY <2>4, <2>6, <2>8 DEF Dispatching, InsertCall, FailBeforePolicy, DispatchCancelled,
       PolicyDenies, PolicyAllows, PolicyAsks, FailStep, EndCall, Resuming, ResumeCancelled,
       ResumeDenied, ResumeRun, ResumeGranted, SubmitCall, TakeResult, TakeError, EndCall
  <2>9. CASE Faulting
    BY <2>5, <2>6, <2>9 DEF Faulting, FaultApprovals, FaultCalls, FaultSteps, FaultRun, StoreFault,
       FaultUnrecorded
  <2>10. CASE Parking \/ Bodies \/ Cancelling \/ Deciding \/ UNCHANGED workVars
    BY <2>6, <2>10, Untouched DEF workVars
  <2>11. QED
    BY <2>7, <2>8, <2>9, <2>10, StepKinds
<1> HIDE DEF Lists
<1>3. CASE Driving
  <2>1. /\ runState' \in RunState /\ turn' \in 0..MaxTurns /\ cur \in 0..turn' /\ active' \in BOOLEAN
        /\ rpc' \in WorkerPC /\ ending' \in {"none"} \cup Terminal
    <3> USE <1>0, <1>2, <1>3 DEF Hands, Endings, RunState, Terminal, WorkerPC, Driving,
       StartDrive, TurnCancelled, AgentPlans, AgentCalls, AgentFaults, AgentEnds, DrainSteps,
       EndRun, EndDrive
    <3>1. runState' \in RunState
      OBVIOUS
    <3>2. turn' \in 0..MaxTurns
      OBVIOUS
    <3>3. cur \in 0..turn'
      OBVIOUS
    <3>4. active' \in BOOLEAN
      OBVIOUS
    <3>5. rpc' \in WorkerPC
      OBVIOUS
    <3>6. ending' \in {"none"} \cup Terminal
      OBVIOUS
    <3>7. QED
      BY ONLY <3>1, <3>2, <3>3, <3>4, <3>5, <3>6
  <2>2. QED
    BY <1>13, <1>3, <2>1, Untouched DEF Lists, Typed, WorkerTypeOK, Hands
<1>4. CASE Dispatching
  <2>1. /\ calls' \in [Call -> CallState] /\ asked' \subseteq Call /\ cur' \in 0..turn
        /\ rpc' \in WorkerPC /\ ending' \in {"none"} \cup Terminal
    <3> USE <1>0, <1>2, <1>4 DEF Hands, Placed, AtCall, Set, CallState, Terminal, WorkerPC,
       Dispatching, InsertCall, FailBeforePolicy, DispatchCancelled, PolicyDenies, PolicyAllows,
       PolicyAsks, FailStep, EndCall
    <3>1. calls' \in [Call -> CallState]
      OBVIOUS
    <3>2. asked' \subseteq Call
      OBVIOUS
    <3>3. cur' \in 0..turn
      OBVIOUS
    <3>4. rpc' \in WorkerPC
      OBVIOUS
    <3>5. ending' \in {"none"} \cup Terminal
      OBVIOUS
    <3>6. QED
      BY ONLY <3>1, <3>2, <3>3, <3>4, <3>5
  <2>2. QED
    BY <1>13, <1>4, <2>1, Untouched DEF Lists, Typed, WorkerTypeOK, Hands
<1>5. CASE Parking
  <2>1. /\ runState' \in RunState /\ appr' \in [Call -> {"none", "pending"} \cup Decided]
        /\ slot' \in [Call -> {"none", "empty"} \cup Decided]
        /\ rpc' \in WorkerPC /\ obs' \in {"none"} \cup Decided
    <3> USE <1>0, <1>2, <1>5 DEF Hands, Answers, Set, Resolved, RunState, Decided, WorkerPC,
       Parking, TakeTicket, OpenApproval, ParkRun, SelfCancel, WakeUp
    <3>1. runState' \in RunState
      OBVIOUS
    <3>2. appr' \in [Call -> {"none", "pending"} \cup Decided]
      OBVIOUS
    <3>3. slot' \in [Call -> {"none", "empty"} \cup Decided]
      OBVIOUS
    <3>4. rpc' \in WorkerPC
      OBVIOUS
    <3>5. obs' \in {"none"} \cup Decided
      OBVIOUS
    <3>6. QED
      BY ONLY <3>1, <3>2, <3>3, <3>4, <3>5
  <2>2. QED
    BY <1>13, <1>5, <2>1, Untouched DEF Lists, Typed, WorkerTypeOK, Hands
<1>6. CASE Resuming
  <2>1. /\ runState' \in RunState /\ calls' \in [Call -> CallState] /\ rpc' \in WorkerPC
        /\ ending' \in {"none"} \cup Terminal /\ xpc' \in {"none", "done"} \cup Executing
        /\ result' \in {"none", "error"} \cup Terminal
    <3> USE <1>0, <1>2, <1>6 DEF Hands, Set, CallState, RunState, Terminal, Executing, WorkerPC,
       Resuming, ResumeCancelled, ResumeDenied, ResumeRun, ResumeGranted, SubmitCall, TakeResult,
       TakeError, EndCall
    <3>1. runState' \in RunState
      OBVIOUS
    <3>2. calls' \in [Call -> CallState]
      OBVIOUS
    <3>3. rpc' \in WorkerPC
      OBVIOUS
    <3>4. ending' \in {"none"} \cup Terminal
      OBVIOUS
    <3>5. xpc' \in {"none", "done"} \cup Executing
      OBVIOUS
    <3>6. result' \in {"none", "error"} \cup Terminal
      OBVIOUS
    <3>7. QED
      BY ONLY <3>1, <3>2, <3>3, <3>4, <3>5, <3>6
  <2>2. QED
    BY <1>13, <1>6, <2>1, Untouched DEF Lists, Typed, WorkerTypeOK, Hands
<1>7. CASE Faulting
  <2>1. /\ runState' \in RunState /\ calls' \in [Call -> CallState] /\ rpc' \in WorkerPC
        /\ appr' \in [Call -> {"none", "pending"} \cup Decided]
        /\ slot' \in [Call -> {"none", "empty"} \cup Decided]
        /\ faults' \in 0..MaxFaults /\ lost' \in BOOLEAN
    <3> USE <1>0, <1>2, <1>7 DEF Hands, CallState, RunState, Terminal, Decided, WorkerPC,
       AfterFault, Faulting, FaultApprovals, FaultCalls, FaultSteps, FaultRun, StoreFault,
       FaultUnrecorded
    <3>1. runState' \in RunState
      OBVIOUS
    <3>2. calls' \in [Call -> CallState]
      OBVIOUS
    <3>3. rpc' \in WorkerPC
      OBVIOUS
    <3>4. appr' \in [Call -> {"none", "pending"} \cup Decided]
      OBVIOUS
    <3>5. slot' \in [Call -> {"none", "empty"} \cup Decided]
      OBVIOUS
    <3>6. faults' \in 0..MaxFaults
      OBVIOUS
    <3>7. lost' \in BOOLEAN
      OBVIOUS
    <3>8. QED
      BY ONLY <3>1, <3>2, <3>3, <3>4, <3>5, <3>6, <3>7
  <2>2. QED
    BY <1>13, <1>7, <2>1, Untouched DEF Lists, Typed, WorkerTypeOK, Hands
<1>8. CASE Bodies
  <2>1. /\ calls' \in [Call -> CallState] /\ bodies' \subseteq Call /\ faults' \in 0..MaxFaults
        /\ xpc' \in {"none", "done"} \cup Executing /\ xout' \in {"none"} \cup Terminal
        /\ result' \in {"none", "error"} \cup Terminal
    <3> USE <1>0, <1>2, <1>8 DEF Hands, Placed, Set, CallState, Terminal, Executing, Bodies,
       Executor, ExecDispatch, BodyStarts, BodyRefused, BodyReports, BodyAbandoned, ExecFinish,
       ExecFault, LeftBodyEnds
    <3>1. calls' \in [Call -> CallState]
      OBVIOUS
    <3>2. bodies' \subseteq Call
      OBVIOUS
    <3>3. faults' \in 0..MaxFaults
      OBVIOUS
    <3>4. xpc' \in {"none", "done"} \cup Executing
      OBVIOUS
    <3>5. xout' \in {"none"} \cup Terminal
      OBVIOUS
    <3>6. result' \in {"none", "error"} \cup Terminal
      OBVIOUS
    <3>7. QED
      BY ONLY <3>1, <3>2, <3>3, <3>4, <3>5, <3>6
  <2>2. QED
    BY <1>13, <1>8, <2>1, Untouched DEF Lists, Typed, WorkerTypeOK, Hands
<1>9. CASE Cancelling
  <2>1. /\ calls' \in [Call -> CallState] /\ appr' \in [Call -> {"none", "pending"} \cup Decided]
        /\ slot' \in [Call -> {"none", "empty"} \cup Decided] /\ token' \in BOOLEAN
        /\ xpc' \in {"none", "done"} \cup Executing /\ result' \in {"none", "error"} \cup Terminal
        /\ kpc' \in {"idle", "scheduler", "list", "resolve", "gate", "done"}
        /\ kappr' \in 0..MaxTurns /\ faults' \in 0..MaxFaults
    <3> USE <1>0, <1>2, <1>9 DEF Hands, Placed, Set, Resolved, CallState, Terminal, Decided,
       Cancelling, Canceller, CancelQueued, CancelList, CancelResolve, CancelGate,
       CancelListFails, cancel_run
    <3>1. calls' \in [Call -> CallState]
      OBVIOUS
    <3>2. appr' \in [Call -> {"none", "pending"} \cup Decided]
      OBVIOUS
    <3>3. slot' \in [Call -> {"none", "empty"} \cup Decided]
      OBVIOUS
    <3>4. token' \in BOOLEAN
      OBVIOUS
    <3>5. xpc' \in {"none", "done"} \cup Executing
      OBVIOUS
    <3>6. result' \in {"none", "error"} \cup Terminal
      OBVIOUS
    <3>7. kpc' \in {"idle", "scheduler", "list", "resolve", "gate", "done"}
      OBVIOUS
    <3>8. kappr' \in 0..MaxTurns
      <4>1. kappr' = kappr \/ kpc = "list"
        OBVIOUS
      <4>2. kpc = "list" => kappr' = kappr \/ kappr' \in Call
        BY ONLY <1>9 DEF Cancelling, Canceller, CancelQueued, CancelList, CancelResolve, CancelGate,
           CancelListFails, cancel_run, cancelVars
      <4>3. kappr \in 0..MaxTurns /\ Call \subseteq 0..MaxTurns
        BY ONLY <1>0, <1>2 DEF Hands
      <4>4. QED
        BY ONLY <4>1, <4>2, <4>3
    <3>9. faults' \in 0..MaxFaults
      OBVIOUS
    <3>10. QED
      BY ONLY <3>1, <3>2, <3>3, <3>4, <3>5, <3>6, <3>7, <3>8, <3>9
  <2>2. QED
    BY <1>13, <1>9, <2>1, Untouched DEF Lists, Typed, WorkerTypeOK, Hands
<1>10. CASE Deciding
  <2>1. /\ appr' \in [Call -> {"none", "pending"} \cup Decided]
        /\ slot' \in [Call -> {"none", "empty"} \cup Decided]
        /\ dpc' \in [Surface -> {"idle", "checked", "gate"}] /\ dappr' \in [Surface -> 0..MaxTurns]
    <3> USE <1>0, <1>2, <1>10 DEF Hands, Placed, Set, Resolved, Decided, Deciding, Decider,
       DecideGate, DecideStore, DecideCheck
    <3>1. appr' \in [Call -> {"none", "pending"} \cup Decided]
      OBVIOUS
    <3>2. slot' \in [Call -> {"none", "empty"} \cup Decided]
      OBVIOUS
    <3>3. dpc' \in [Surface -> {"idle", "checked", "gate"}]
      OBVIOUS
    <3>4. dappr' \in [Surface -> 0..MaxTurns]
      OBVIOUS
    <3>5. QED
      BY ONLY <3>1, <3>2, <3>3, <3>4
  <2>2. QED
    BY <1>13, <1>10, <2>1, Untouched DEF Lists, Typed, WorkerTypeOK, Hands
<1>11. CASE UNCHANGED workVars
  BY <1>11 DEF Typed, WorkerTypeOK, Hands, workVars
<1>12. QED
  BY <1>3, <1>4, <1>5, <1>6, <1>7, <1>8, <1>9, <1>10, <1>11, StepKinds

-----------------------------------------------------------------------------
\* The theorems

\* No part is inductive alone: an answer is true because of where the worker
\* is, consent because of the answers, and an ending because of the records.
Inv ==
    /\ Typed /\ Placed /\ Fresh /\ Current /\ Consent
    /\ Answers /\ Covered /\ Endings /\ Recorded

\* A run that has just been spawned satisfies every part.
LEMMA InvInit == WorkerInit => Inv
<1> SUFFICES ASSUME WorkerInit PROVE Inv
  OBVIOUS
<1> USE DEF WorkerInit
<1>1. Typed
  <2>1. Hands
    BY WorkerAssumption DEF Hands, WorkerPC
  <2>2. steps \in Seq(RunState) /\ step \in 0..Len(steps) /\ planned \in Seq(DOMAIN steps)
    BY EmptySeq
  <2>3. /\ calls \in [Call -> CallState]
        /\ appr \in [Call -> {"none", "pending"} \cup Decided]
        /\ slot \in [Call -> {"none", "empty"} \cup Decided]
    BY DEF CallState
  <2>4. runState \in RunState /\ asked \subseteq Call /\ bodies \subseteq Call
    BY DEF RunState
  <2>5. token \in BOOLEAN /\ active \in BOOLEAN /\ lost \in BOOLEAN
    OBVIOUS
  <2>6. turn \in 0..MaxTurns /\ cur \in 0..turn /\ faults \in 0..MaxFaults
    BY WorkerAssumption
  <2>7. QED
    BY ONLY <2>1, <2>2, <2>3, <2>4, <2>5, <2>6 DEF Typed, WorkerTypeOK
<1>2. Placed /\ Fresh /\ Current
  BY DEF Placed, Fresh, Current, AtCall, Faulted, Executing, Terminal
<1>3. Consent /\ Answers
  BY DEF Consent, Answers, ConsentFirst, ObservationTrue, Executing, Decided
<1>4. Covered /\ Endings /\ Recorded
  BY DEF Covered, Endings, Recorded, AtCall, Faulted, Terminal
<1>5. QED
  BY <1>1, <1>2, <1>3, <1>4 DEF Inv

\* Every step of every thread keeps it.
LEMMA InvStep == Inv /\ [WorkerNext]_workVars => Inv'
  BY TypedStep, PlacedStep, FreshStep, CurrentStep, ConsentStep, AnswersStep, CoveredStep,
     EndingsStep, RecordedStep DEF Inv

\* Every state the threads of a run can reach satisfies it.
LEMMA InvAlways == WorkerSpec => []Inv
  BY InvInit, InvStep, PTL DEF WorkerSpec

\* The records, the gate and what every thread has in its hands keep their
\* types, whatever the store refuses.
THEOREM WorkerTypes == WorkerSpec => []WorkerTypeOK
<1>1. Inv => WorkerTypeOK
  BY DEF Inv, Typed
<1>2. QED
  BY <1>1, InvAlways, PTL

\* A call that was asked about runs only if its stored request was granted, for
\* any number of surfaces that decide, cancellations and store faults.
THEOREM ConsentComesFirst == WorkerSpec => []ConsentFirst
<1>1. Inv => ConsentFirst
  BY DEF Inv, Consent
<1>2. QED
  BY <1>1, InvAlways, PTL

\* The gate never holds an answer that lost its race at the store.
THEOREM AnswersAreTrue == WorkerSpec => []ObservationTrue
<1>1. Inv => ObservationTrue
  BY DEF Inv, Answers
<1>2. QED
  BY <1>1, InvAlways, PTL

\* A run that has an ending keeps it: only the worker writes the run's state,
\* and after the ending it writes nothing but the record of a fault.
LEMMA RunKept ==
    ASSUME Endings, [WorkerNext]_workVars
    PROVE  runState \in Terminal => runState' = runState
<1>1. CASE Bodies \/ Cancelling \/ Deciding \/ Dispatching \/ UNCHANGED workVars
  <2>1. runState' = runState
    BY <1>1, Untouched DEF workVars, recordVars
  <2>2. QED
    BY <2>1
<1>2. CASE Driving
  BY <1>2 DEF Endings, Faulted, recordVars, Driving, StartDrive, TurnCancelled, AgentPlans,
     AgentCalls, AgentFaults, AgentEnds, DrainSteps, EndRun, EndDrive
<1>3. CASE Parking
  BY <1>3 DEF Endings, Faulted, recordVars, Parking, TakeTicket, OpenApproval, ParkRun,
     SelfCancel, WakeUp
<1>4. CASE Resuming
  BY <1>4 DEF Endings, Faulted, recordVars, Resuming, ResumeCancelled, ResumeDenied, ResumeRun,
     ResumeGranted, SubmitCall, TakeResult, TakeError, EndCall
<1>5. CASE Faulting
  BY <1>5 DEF recordVars, Faulting, FaultApprovals, FaultCalls, FaultSteps, FaultRun, StoreFault,
     FaultUnrecorded
<1>6. QED
  BY <1>1, <1>2, <1>3, <1>4, <1>5, StepKinds

\* An ending, once recorded, is never rewritten; and a run whose worker has gone
\* is complete, unless the store refused the record of the fault.
THEOREM RunsEndOnce == WorkerSpec => EndsOnce
<1>1. Inv => EndedIsComplete
  BY DEF Inv, Recorded, EndedIsComplete, Faulted, Pending
<1>2. Inv /\ [WorkerNext]_workVars =>
        [/\ runState \in Terminal => runState' = runState
         /\ \A c \in Call : /\ calls[c] \in Terminal => calls'[c] = calls[c]
                            /\ appr[c] \in Decided => appr'[c] = appr[c]]_workVars
  BY RunKept, CallsKept, DecisionsKept DEF Inv
<1>3. QED
  BY <1>1, <1>2, InvAlways, PTL DEF WorkerSpec, EndsOnce, EndsFinal

====
