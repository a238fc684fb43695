------------------------------ MODULE RunWorker ------------------------------
(***************************************************************************)
(* One run: the worker thread that drives it (coordinator/mod.rs), the     *)
(* approval gate it parks on (approval/gate.rs), the executor of its       *)
(* current call (tool/execute.rs), the surfaces that decide approvals and  *)
(* the thread that cancels the run.                                        *)
(*                                                                         *)
(* The threads share the store, the run's cancellation token, the gate and *)
(* the map of active runs.  A store transaction, or a lock held on the     *)
(* gate, is one action.  Publishing to subscribers is left out but for the *)
(* failure it can bring: any store access of the worker may be refused     *)
(* (StoreFault).  The scheduler is abstracted to what module Scheduler     *)
(* shows of it: a queued call is admitted, or removed by cancel_run.       *)
(***************************************************************************)
EXTENDS Naturals, Sequences, FiniteSets

CONSTANTS
    MaxTurns,   \* MAX_AGENT_TURNS
    MaxFaults,  \* how many store accesses may be refused
    Surface,    \* who decides approvals
    MayCancel   \* whether cancel_run is called

ASSUME WorkerAssumption ==
    /\ MaxTurns \in Nat /\ MaxFaults \in Nat
    /\ MayCancel \in BOOLEAN

Call == 1..MaxTurns

VARIABLES
    runState,   \* the run's recorded state
    steps,      \* the recorded state of each step, by ordinal
    calls,      \* the recorded state of each tool call
    appr,       \* the recorded state of each call's approval request
    asked,      \* the calls whose policy decision was to ask
    token,      \* the run's cancellation token
    active,     \* the run is in the map of active runs
    slot,       \* ApprovalGate::waiting: "none" without a ticket
    rpc,        \* where the worker is
    turn,       \* turns taken
    planned,    \* RunWorker::planned
    step, cur,  \* the current step and call
    obs,        \* the observation the worker was woken with
    ending,     \* the state the worker is about to give the run
    xpc, xout,  \* the executor of the current call, and its outcome
    result,     \* what the CallTicket has been settled with
    bodies,     \* the calls whose tool body is running
    kpc, kappr, \* the canceller, and the approval it found pending
    dpc, dappr, \* each surface, and the approval it is deciding
    faults,     \* store accesses refused so far
    lost        \* history: record_fault could not write everything

recordVars == <<runState, steps, calls, appr, asked>>
runnerVars == <<rpc, turn, planned, step, cur, obs, ending>>
executorVars == <<xpc, xout, result, bodies>>
cancelVars == <<kpc, kappr>>
decideVars == <<dpc, dappr>>
faultVars == <<faults, lost>>
workVars == <<recordVars, token, active, slot, runnerVars, executorVars, cancelVars,
          decideVars, faultVars>>

\* ExecutionState::is_terminal and ToolCallState::is_terminal
Terminal == {"succeeded", "failed", "denied", "cancelled", "interrupted"}

\* ApprovalState::is_terminal, the states this run's threads can reach
Decided == {"granted", "denied", "cancelled"}

Set(f, x, v) == [f EXCEPT ![x] = v]

-----------------------------------------------------------------------------
\* drive and drive_inner

StartDrive ==
    /\ rpc = "start"
    /\ runState' = "running"
    /\ rpc' = "turn"
    /\ UNCHANGED <<steps, calls, appr, asked, token, active, slot, turn, planned, step, cur,
                   obs, ending, executorVars, cancelVars, decideVars, faultVars>>

\* The checks of the token around next_action: the last one decides.
TurnCancelled ==
    /\ rpc = "turn" /\ turn < MaxTurns
    /\ token
    /\ step' = 0
    /\ ending' = "cancelled"
    /\ rpc' = "drain"
    /\ UNCHANGED <<recordVars, token, active, slot, turn, planned, cur, obs, executorVars,
                   cancelVars, decideVars, faultVars>>

\* AgentAction::Plan, with one step: persist_plan
AgentPlans ==
    /\ rpc = "turn" /\ turn < MaxTurns
    /\ ~token
    /\ turn' = turn + 1
    /\ steps' = Append(steps, "queued")
    /\ planned' = Append(planned, Len(steps) + 1)
    /\ UNCHANGED <<runState, calls, appr, asked, token, active, slot, rpc, step, cur, obs, ending,
                   executorVars, cancelVars, decideVars, faultVars>>

\* AgentAction::CallTool: begin_step takes the next planned step, or a new one.
AgentCalls ==
    /\ rpc = "turn" /\ turn < MaxTurns
    /\ ~token
    /\ turn' = turn + 1
    /\ IF planned = <<>>
         THEN /\ steps' = Append(steps, "running")
              /\ step' = Len(steps) + 1
              /\ UNCHANGED planned
         ELSE /\ steps' = Set(steps, Head(planned), "running")
              /\ step' = Head(planned)
              /\ planned' = Tail(planned)
    /\ rpc' = "insert"
    /\ UNCHANGED <<runState, calls, appr, asked, token, active, slot, cur, obs, ending,
                   executorVars, cancelVars, decideVars, faultVars>>

\* AgentAction::CompleteRun and FailRun
AgentEnds(state) ==
    /\ rpc = "turn" /\ turn < MaxTurns
    /\ ~token
    /\ turn' = turn + 1
    /\ step' = 0
    /\ ending' = state
    /\ rpc' = "drain"
    /\ UNCHANGED <<recordVars, token, active, slot, planned, cur, obs, executorVars,
                   cancelVars, decideVars, faultVars>>

\* The agent panics, or has used up its turns.
AgentFaults ==
    /\ rpc = "turn"
    /\ rpc' = "fault_approvals"
    /\ UNCHANGED <<recordVars, token, active, slot, turn, planned, step, cur, obs, ending,
                   executorVars, cancelVars, decideVars, faultVars>>

\* The current step, if any, and the planned ones that never began.
DrainSteps ==
    /\ rpc = "drain"
    /\ steps' = [i \in DOMAIN steps |->
                   IF /\ i = step \/ \E j \in DOMAIN planned : planned[j] = i
                      /\ steps[i] \notin Terminal
                     THEN "cancelled" ELSE steps[i]]
    /\ rpc' = "end_run"
    /\ UNCHANGED <<runState, calls, appr, asked, token, active, slot, turn, planned, step, cur,
                   obs, ending, executorVars, cancelVars, decideVars, faultVars>>

EndRun ==
    /\ rpc = "end_run"
    /\ runState' = ending
    /\ rpc' = "told"
    /\ UNCHANGED <<steps, calls, appr, asked, token, active, slot, turn, planned, step, cur,
                   obs, ending, executorVars, cancelVars, decideVars, faultVars>>

\* The end of drive, with or without record_fault: the run is no longer active.
EndDrive ==
    /\ rpc \in {"told", "leave"}
    /\ active' = FALSE
    /\ rpc' = "ended"
    /\ UNCHANGED <<recordVars, token, slot, turn, planned, step, cur, obs, ending,
                   executorVars, cancelVars, decideVars, faultVars>>

-----------------------------------------------------------------------------
\* dispatch_tool

InsertCall ==
    /\ rpc = "insert"
    /\ cur' = cur + 1
    /\ calls' = Set(calls, cur + 1, "pending")
    /\ rpc' = "policy"
    /\ UNCHANGED <<runState, steps, appr, asked, token, active, slot, turn, planned, step, obs,
                   ending, executorVars, cancelVars, decideVars, faultVars>>

\* The worker records a terminal state for its call and moves on.
EndCall(state, next) ==
    /\ calls' = Set(calls, cur, state)
    /\ rpc' = next
    /\ UNCHANGED <<runState, steps, appr, asked, token, active, slot, turn, planned, step, cur,
                   executorVars, cancelVars, decideVars, faultVars>>

\* The tool is unknown, or does not accept its input.
FailBeforePolicy ==
    /\ rpc = "policy"
    /\ EndCall("failed", "fail_step")
    /\ UNCHANGED <<obs, ending>>

DispatchCancelled ==
    /\ rpc = "policy"
    /\ token
    /\ EndCall("cancelled", "drain")
    /\ ending' = "cancelled"
    /\ UNCHANGED obs

PolicyDenies ==
    /\ rpc = "policy"
    /\ ~token
    /\ EndCall("denied", "fail_step")
    /\ UNCHANGED <<obs, ending>>

PolicyAllows ==
    /\ rpc = "policy"
    /\ ~token
    /\ rpc' = "submit"
    /\ UNCHANGED <<recordVars, token, active, slot, turn, planned, step, cur, obs, ending,
                   executorVars, cancelVars, decideVars, faultVars>>

PolicyAsks ==
    /\ rpc = "policy"
    /\ ~token
    /\ calls' = Set(calls, cur, "awaiting")
    /\ asked' = asked \cup {cur}
    /\ rpc' = "ticket"
    /\ UNCHANGED <<runState, steps, appr, token, active, slot, turn, planned, step, cur, obs,
                   ending, executorVars, cancelVars, decideVars, faultVars>>

FailStep ==
    /\ rpc = "fail_step"
    /\ steps' = Set(steps, step, "failed")
    /\ rpc' = "turn"
    /\ UNCHANGED <<runState, calls, appr, asked, token, active, slot, turn, planned, step, cur,
                   obs, ending, executorVars, cancelVars, decideVars, faultVars>>

-----------------------------------------------------------------------------
\* await_approval, wait_approval_ticket and resume_approval

\* ApprovalGate::ticket, before the request exists anywhere else.
TakeTicket ==
    /\ rpc = "ticket"
    /\ slot' = Set(slot, cur, "empty")
    /\ rpc' = "open"
    /\ UNCHANGED <<recordVars, token, active, turn, planned, step, cur, obs, ending,
                   executorVars, cancelVars, decideVars, faultVars>>

OpenApproval ==
    /\ rpc = "open"
    /\ appr' = Set(appr, cur, "pending")
    /\ rpc' = "park"
    /\ UNCHANGED <<runState, steps, calls, asked, token, active, slot, turn, planned, step, cur,
                   obs, ending, executorVars, cancelVars, decideVars, faultVars>>

ParkRun ==
    /\ rpc = "park"
    /\ runState' = "waiting"
    /\ rpc' = "parked"
    /\ UNCHANGED <<steps, calls, appr, asked, token, active, slot, turn, planned, step, cur,
                   obs, ending, executorVars, cancelVars, decideVars, faultVars>>

\* Faulty: an answer is kept only for a worker that is already waiting.
ResolvedIfParked(c, answer) ==
    IF slot[c] = "none" \/ rpc # "parked" THEN slot ELSE Set(slot, c, answer)

\* ApprovalGate::resolve: an answer without a ticket is discarded, and a
\* later answer replaces an earlier one.
Resolved(c, answer) == IF slot[c] = "none" THEN slot ELSE Set(slot, c, answer)

\* Faulty: the worker takes it that its own resolution was the one recorded.
SelfCancelAssuming ==
    /\ rpc = "parked"
    /\ token
    /\ slot[cur] = "empty"
    /\ appr' = Set(appr, cur, IF appr[cur] = "pending" THEN "cancelled" ELSE appr[cur])
    /\ slot' = Resolved(cur, "cancelled")
    /\ UNCHANGED <<runState, steps, calls, asked, token, active, runnerVars, executorVars,
                   cancelVars, decideVars, faultVars>>

\* A wait slice ends without an answer and the run has been cancelled: the
\* worker resolves its own request, or finds out how it was resolved.
SelfCancel ==
    /\ rpc = "parked"
    /\ token
    /\ slot[cur] = "empty"
    /\ appr' = Set(appr, cur, IF appr[cur] = "pending" THEN "cancelled" ELSE appr[cur])
    /\ slot' = Resolved(cur, appr'[cur])
    /\ UNCHANGED <<runState, steps, calls, asked, token, active, runnerVars, executorVars,
                   cancelVars, decideVars, faultVars>>

\* The answer is taken and the ticket dropped.
WakeUp ==
    /\ rpc = "parked"
    /\ slot[cur] \in Decided
    /\ obs' = slot[cur]
    /\ slot' = Set(slot, cur, "none")
    /\ rpc' = "resume"
    /\ UNCHANGED <<recordVars, token, active, turn, planned, step, cur, ending,
                   executorVars, cancelVars, decideVars, faultVars>>

ResumeCancelled ==
    /\ rpc = "resume"
    /\ obs = "cancelled" \/ token
    /\ EndCall("cancelled", "drain")
    /\ ending' = "cancelled"
    /\ UNCHANGED obs

ResumeDenied ==
    /\ rpc = "resume"
    /\ obs = "denied" /\ ~token
    /\ EndCall("denied", "resume_run")
    /\ UNCHANGED <<obs, ending>>

\* resume_run_after_denial_with_event; the step then fails.
ResumeRun ==
    /\ rpc = "resume_run"
    /\ runState' = "running"
    /\ rpc' = "fail_step"
    /\ UNCHANGED <<steps, calls, appr, asked, token, active, slot, turn, planned, step, cur,
                   obs, ending, executorVars, cancelVars, decideVars, faultVars>>

\* Faulty: any answer is taken for a grant.
ResumeUnchecked ==
    /\ rpc = "resume"
    /\ obs # "cancelled" /\ ~token
    /\ runState' = "running"
    /\ rpc' = "submit"
    /\ UNCHANGED <<steps, calls, appr, asked, token, active, slot, turn, planned, step, cur,
                   obs, ending, executorVars, cancelVars, decideVars, faultVars>>

\* The stored request must carry the grant the observation spoke of.
ResumeGranted ==
    /\ rpc = "resume"
    /\ obs = "granted" /\ ~token
    /\ IF appr[cur] = "granted"
         THEN runState' = "running" /\ rpc' = "submit"
         ELSE rpc' = "fault_approvals" /\ UNCHANGED runState
    /\ UNCHANGED <<steps, calls, appr, asked, token, active, slot, turn, planned, step, cur,
                   obs, ending, executorVars, cancelVars, decideVars, faultVars>>

-----------------------------------------------------------------------------
\* execute_scheduled

SubmitCall ==
    /\ rpc = "submit"
    /\ xpc' = "queued"
    /\ result' = "none"
    /\ rpc' = "await"
    /\ UNCHANGED <<recordVars, token, active, slot, turn, planned, step, cur, obs, ending,
                   xout, bodies, cancelVars, decideVars, faultVars>>

\* A call that ended gives its step the same ending; cancellation ends the run.
TakeResult ==
    /\ rpc = "await"
    /\ result \in Terminal
    /\ IF result = "cancelled"
         THEN /\ ending' = "cancelled"
              /\ rpc' = "drain"
              /\ UNCHANGED steps
         ELSE /\ steps' = Set(steps, step, result)
              /\ rpc' = "turn"
              /\ UNCHANGED ending
    /\ UNCHANGED <<runState, calls, appr, asked, token, active, slot, turn, planned, step, cur,
                   obs, executorVars, cancelVars, decideVars, faultVars>>

\* The executor could not run or record the call.
TakeError ==
    /\ rpc = "await"
    /\ result = "error"
    /\ rpc' = "fault_approvals"
    /\ UNCHANGED <<recordVars, token, active, slot, turn, planned, step, cur, obs, ending,
                   executorVars, cancelVars, decideVars, faultVars>>

-----------------------------------------------------------------------------
\* Faults

\* The store refuses an access of the worker: the approval ticket, if there is
\* one, is dropped on the way out.
StoreFault ==
    /\ faults < MaxFaults
    /\ rpc \in {"start", "turn", "drain", "end_run", "insert", "policy", "fail_step", "open",
                "park", "parked", "resume", "resume_run", "submit", "await", "told"}
    /\ faults' = faults + 1
    /\ slot' = [c \in Call |-> "none"]
    /\ rpc' = "fault_approvals"
    /\ UNCHANGED <<recordVars, token, active, turn, planned, step, cur, obs, ending,
                   executorVars, cancelVars, decideVars, lost>>

\* record_fault, one kind of record at a time; each is best effort.
FaultApprovals ==
    /\ rpc = "fault_approvals"
    /\ appr' = [c \in Call |-> IF appr[c] = "pending" THEN "cancelled" ELSE appr[c]]
    /\ rpc' = "fault_calls"
    /\ UNCHANGED <<runState, steps, calls, asked, token, active, slot, turn, planned, step, cur,
                   obs, ending, executorVars, cancelVars, decideVars, faultVars>>

FaultCalls ==
    /\ rpc = "fault_calls"
    /\ calls' = [c \in Call |->
                   IF calls[c] \in Terminal \cup {"none"} THEN calls[c]
                   ELSE IF calls[c] = "awaiting" THEN "cancelled" ELSE "failed"]
    /\ rpc' = "fault_steps"
    /\ UNCHANGED <<runState, steps, appr, asked, token, active, slot, turn, planned, step, cur,
                   obs, ending, executorVars, cancelVars, decideVars, faultVars>>

FaultSteps ==
    /\ rpc = "fault_steps"
    /\ steps' = [i \in DOMAIN steps |-> IF steps[i] \in Terminal THEN steps[i] ELSE "failed"]
    /\ rpc' = "fault_run"
    /\ UNCHANGED <<runState, calls, appr, asked, token, active, slot, turn, planned, step, cur,
                   obs, ending, executorVars, cancelVars, decideVars, faultVars>>

FaultRun ==
    /\ rpc = "fault_run"
    /\ runState' = IF runState \in Terminal THEN runState ELSE "failed"
    /\ rpc' = "leave"
    /\ UNCHANGED <<steps, calls, appr, asked, token, active, slot, turn, planned, step, cur,
                   obs, ending, executorVars, cancelVars, decideVars, faultVars>>

AfterFault ==
    [fault_approvals |-> "fault_calls", fault_calls |-> "fault_steps",
     fault_steps |-> "fault_run", fault_run |-> "leave"]

FaultUnrecorded ==
    /\ faults < MaxFaults
    /\ rpc \in DOMAIN AfterFault
    /\ faults' = faults + 1
    /\ lost' = TRUE
    /\ rpc' = AfterFault[rpc]
    /\ UNCHANGED <<recordVars, token, active, slot, turn, planned, step, cur, obs, ending,
                   executorVars, cancelVars, decideVars>>

-----------------------------------------------------------------------------
\* ToolExecutor::run, on a thread of the scheduler

\* Start::required_state
Required == IF cur \in asked THEN "awaiting" ELSE "pending"

\* The call moves to running, and only from the state the start requires.  A
\* token seen before that keeps the body from starting.
ExecDispatch ==
    /\ xpc = "queued"
    /\ IF calls[cur] = Required
         THEN /\ calls' = Set(calls, cur, "running")
              /\ xpc' = IF token THEN "refuse" ELSE "gate"
              /\ UNCHANGED result
         ELSE /\ result' = "error"
              /\ xpc' = "done"
              /\ UNCHANGED calls
    /\ UNCHANGED <<runState, steps, appr, asked, token, active, slot, runnerVars, xout, bodies,
                   cancelVars, decideVars, faultVars>>

BodyStarts ==
    /\ xpc = "gate"
    /\ bodies' = bodies \cup {cur}
    /\ xpc' = "supervise"
    /\ UNCHANGED <<recordVars, token, active, slot, runnerVars, xout, result, cancelVars,
                   decideVars, faultVars>>

\* The body does not start: it was stopped first, or its context was refused.
BodyRefused ==
    /\ xpc \in {"refuse", "gate"}
    /\ \/ (xpc = "refuse" \/ token) /\ xout' = "cancelled"
       \/ xout' = "failed"
    /\ xpc' = "finish"
    /\ UNCHANGED <<recordVars, token, active, slot, runnerVars, result, bodies, cancelVars,
                   decideVars, faultVars>>

\* supervise: the body reports, or its thread dies ("interrupted").  A body may
\* call itself cancelled though nobody asked.
BodyReports(outcome) ==
    /\ xpc = "supervise"
    /\ bodies' = bodies \ {cur}
    /\ xout' = outcome
    /\ xpc' = "finish"
    /\ UNCHANGED <<recordVars, token, active, slot, runnerVars, result, cancelVars,
                   decideVars, faultVars>>

\* supervise: cancelled, or past its deadline, and then past the grace period:
\* the verdict is recorded and the body left behind.
BodyAbandoned ==
    /\ xpc = "supervise"
    /\ \/ token /\ xout' = "cancelled"
       \/ xout' = "failed"
    /\ xpc' = "finish"
    /\ UNCHANGED <<recordVars, token, active, slot, runnerVars, result, bodies, cancelVars,
                   decideVars, faultVars>>

\* A body that was left behind ends some day, or never.
LeftBodyEnds(c) ==
    /\ c \in bodies
    /\ ~(c = cur /\ xpc = "supervise")
    /\ bodies' = bodies \ {c}
    /\ UNCHANGED <<recordVars, token, active, slot, runnerVars, xpc, xout, result, cancelVars,
                   decideVars, faultVars>>

\* finish: the outcome is recorded unless the call has an ending, then reported.
ExecFinish ==
    /\ xpc = "finish"
    /\ IF calls[cur] = "running"
         THEN calls' = Set(calls, cur, xout) /\ result' = xout
         ELSE result' = "error" /\ UNCHANGED calls
    /\ xpc' = "done"
    /\ UNCHANGED <<runState, steps, appr, asked, token, active, slot, runnerVars, xout, bodies,
                   cancelVars, decideVars, faultVars>>

\* A store access of the executor is refused; the scheduler reports the error.
ExecFault ==
    /\ faults < MaxFaults
    /\ xpc \in {"queued", "finish"}
    /\ faults' = faults + 1
    /\ result' = "error"
    /\ xpc' = "done"
    /\ UNCHANGED <<recordVars, token, active, slot, runnerVars, xout, bodies, cancelVars,
                   decideVars, lost>>

-----------------------------------------------------------------------------
\* cancel_run

cancel_run ==
    /\ MayCancel
    /\ kpc = "idle"
    /\ active
    /\ token' = TRUE
    /\ kpc' = "scheduler"
    /\ UNCHANGED <<recordVars, active, slot, runnerVars, executorVars, kappr, decideVars,
                   faultVars>>

\* Scheduler::cancel_run: a queued call is removed and cancel_undispatched.
CancelQueued ==
    /\ kpc = "scheduler"
    /\ IF xpc = "queued"
         THEN /\ xpc' = "done"
              /\ IF calls[cur] \in {"pending", "awaiting"}
                   THEN calls' = Set(calls, cur, "cancelled") /\ result' = "cancelled"
                   ELSE result' = "error" /\ UNCHANGED calls
         ELSE UNCHANGED <<calls, xpc, result>>
    /\ kpc' = "list"
    /\ UNCHANGED <<runState, steps, appr, asked, token, active, slot, runnerVars, xout, bodies,
                   kappr, decideVars, faultVars>>

CancelList ==
    /\ kpc = "list"
    /\ IF \E c \in Call : appr[c] = "pending"
         THEN /\ kappr' = CHOOSE c \in Call : appr[c] = "pending"
              /\ kpc' = "resolve"
         ELSE kpc' = "done" /\ UNCHANGED kappr
    /\ UNCHANGED <<recordVars, token, active, slot, runnerVars, executorVars, decideVars,
                   faultVars>>

\* The list of approvals cannot be read: cancel_run returns.
CancelListFails ==
    /\ faults < MaxFaults
    /\ kpc = "list"
    /\ faults' = faults + 1
    /\ kpc' = "done"
    /\ UNCHANGED <<recordVars, token, active, slot, runnerVars, executorVars, kappr,
                   decideVars, lost>>

\* Faulty: a decision that came first is overwritten.
CancelResolveBlindly ==
    /\ kpc = "resolve"
    /\ appr' = Set(appr, kappr, "cancelled")
    /\ kpc' = "gate"
    /\ UNCHANGED <<runState, steps, calls, asked, token, active, slot, runnerVars, executorVars,
                   kappr, decideVars, faultVars>>

\* A request that is no longer pending is left as it is.
CancelResolve ==
    /\ kpc = "resolve"
    /\ appr' = Set(appr, kappr, IF appr[kappr] = "pending" THEN "cancelled" ELSE appr[kappr])
    /\ kpc' = "gate"
    /\ UNCHANGED <<runState, steps, calls, asked, token, active, slot, runnerVars, executorVars,
                   kappr, decideVars, faultVars>>

CancelGate ==
    /\ kpc = "gate"
    /\ slot' = Resolved(kappr, appr[kappr])
    /\ kpc' = "done"
    /\ UNCHANGED <<recordVars, token, active, runnerVars, executorVars, kappr, decideVars,
                   faultVars>>

-----------------------------------------------------------------------------
\* decide_approval

\* The request is read, whatever its state, and its run is active.
DecideCheck(d, c) ==
    /\ dpc[d] = "idle"
    /\ appr[c] # "none"
    /\ active
    /\ dappr' = [dappr EXCEPT ![d] = c]
    /\ dpc' = [dpc EXCEPT ![d] = "checked"]
    /\ UNCHANGED <<recordVars, token, active, slot, runnerVars, executorVars, cancelVars,
                   faultVars>>

\* Store::decide_approval: the loser of a race is refused.
DecideStore(d, verdict) ==
    /\ dpc[d] = "checked"
    /\ IF appr[dappr[d]] = "pending"
         THEN /\ appr' = Set(appr, dappr[d], verdict)
              /\ dpc' = [dpc EXCEPT ![d] = "gate"]
         ELSE /\ dpc' = [dpc EXCEPT ![d] = "idle"]
              /\ UNCHANGED appr
    /\ UNCHANGED <<runState, steps, calls, asked, token, active, slot, runnerVars, executorVars,
                   cancelVars, dappr, faultVars>>

\* resolve_from the record that was written.
DecideGate(d) ==
    /\ dpc[d] = "gate"
    /\ slot' = Resolved(dappr[d], appr[dappr[d]])
    /\ dpc' = [dpc EXCEPT ![d] = "idle"]
    /\ UNCHANGED <<recordVars, token, active, runnerVars, executorVars, cancelVars, dappr,
                   faultVars>>

-----------------------------------------------------------------------------

WorkerInit ==
    /\ runState = "queued" /\ steps = <<>>
    /\ calls = [c \in Call |-> "none"] /\ appr = [c \in Call |-> "none"]
    /\ asked = {} /\ token = FALSE /\ active = TRUE
    /\ slot = [c \in Call |-> "none"]
    /\ rpc = "start" /\ turn = 0 /\ planned = <<>> /\ step = 0 /\ cur = 0
    /\ obs = "none" /\ ending = "none"
    /\ xpc = "none" /\ xout = "none" /\ result = "none" /\ bodies = {}
    /\ kpc = "idle" /\ kappr = 0
    /\ dpc = [d \in Surface |-> "idle"] /\ dappr = [d \in Surface |-> 0]
    /\ faults = 0 /\ lost = FALSE

Runner ==
    \/ StartDrive \/ TurnCancelled \/ AgentPlans \/ AgentCalls \/ AgentFaults
    \/ \E s \in {"succeeded", "failed"} : AgentEnds(s)
    \/ DrainSteps \/ EndRun \/ EndDrive
    \/ InsertCall \/ FailBeforePolicy \/ DispatchCancelled
    \/ PolicyDenies \/ PolicyAllows \/ PolicyAsks \/ FailStep
    \/ TakeTicket \/ OpenApproval \/ ParkRun \/ SelfCancel \/ WakeUp
    \/ ResumeCancelled \/ ResumeDenied \/ ResumeRun \/ ResumeGranted
    \/ SubmitCall \/ TakeResult \/ TakeError
    \/ FaultApprovals \/ FaultCalls \/ FaultSteps \/ FaultRun

Executor ==
    \/ ExecDispatch \/ BodyStarts \/ BodyRefused \/ BodyAbandoned \/ ExecFinish
    \/ \E o \in {"succeeded", "failed", "cancelled", "interrupted"} : BodyReports(o)

Canceller == CancelQueued \/ CancelList \/ CancelResolve \/ CancelGate

Decider(d) == DecideGate(d) \/ \E v \in {"granted", "denied"} : DecideStore(d, v)

\* Refusals of the store.
Refusal == StoreFault \/ FaultUnrecorded \/ ExecFault \/ CancelListFails

WorkerNext ==
    \/ Runner \/ Executor \/ Canceller \/ Refusal \/ cancel_run
    \/ \E d \in Surface : Decider(d) \/ \E c \in Call : DecideCheck(d, c)
    \/ \E c \in Call : LeftBodyEnds(c)

\* Every thread keeps running: the agent answers, the scheduler admits what it
\* queued, the executor leaves behind a body that has outlived a cancellation by
\* the grace period (an irreversible section, which it waits for, ends), and a
\* decision or a cancellation that has begun goes on.
\* Nobody has to decide or to cancel, and no body has to report.
WorkerFairness ==
    /\ WF_workVars(Runner) /\ WF_workVars(Canceller)
    /\ WF_workVars(ExecDispatch \/ BodyStarts \/ BodyRefused \/ ExecFinish)
    /\ WF_workVars(token /\ BodyAbandoned)
    /\ \A d \in Surface : WF_workVars(Decider(d))

WorkerSpec == WorkerInit /\ [][WorkerNext]_workVars /\ WorkerFairness

-----------------------------------------------------------------------------
\* Properties

RunState == {"queued", "running", "waiting"} \cup Terminal
CallState == {"none", "pending", "awaiting", "running"} \cup Terminal

\* The type of every variable of the run.
WorkerTypeOK ==
    /\ runState \in RunState
    /\ steps \in Seq(RunState)
    /\ calls \in [Call -> CallState]
    /\ appr \in [Call -> {"none", "pending"} \cup Decided]
    /\ slot \in [Call -> {"none", "empty"} \cup Decided]
    /\ asked \subseteq Call /\ bodies \subseteq Call
    /\ token \in BOOLEAN /\ active \in BOOLEAN /\ lost \in BOOLEAN
    /\ turn \in 0..MaxTurns /\ cur \in 0..turn
    /\ step \in 0..Len(steps) /\ planned \in Seq(DOMAIN steps)
    /\ faults \in 0..MaxFaults

\* A call that policy asked about runs only if its stored request was granted,
\* whatever decisions, cancellations and faults raced while it waited.
ConsentFirst ==
    \A c \in asked :
        (calls[c] \in {"running", "succeeded"} \/ c \in bodies) => appr[c] = "granted"

\* The answer in the gate, and the one the worker acts on, is what the store
\* recorded: a waiter is never woken with a decision that lost its race.
ObservationTrue ==
    /\ \A c \in Call : slot[c] \in Decided => slot[c] = appr[c]
    /\ rpc = "resume" => obs = appr[cur]

\* When its worker has gone, a run and everything under it has an ending,
\* through every early return and every fault, unless the store refused the
\* very writes that record the fault.
EndedIsComplete ==
    (rpc = "ended" /\ ~lost) =>
        /\ runState \in Terminal
        /\ \A i \in DOMAIN steps : steps[i] \in Terminal
        /\ \A c \in Call : calls[c] \in Terminal \cup {"none"} /\ appr[c] # "pending"

\* An ending that has been recorded stays, though the worker, the executor,
\* the canceller and the surfaces all write endings.
EndsFinal ==
    [][/\ runState \in Terminal => runState' = runState
       /\ \A c \in Call : /\ calls[c] \in Terminal => calls'[c] = calls[c]
                          /\ appr[c] \in Decided => appr'[c] = appr[c]]_workVars

\* A run ends once: completely when its worker goes, and for good.
EndsOnce == []EndedIsComplete /\ EndsFinal

\* No lost wake-up: a worker whose request has been resolved does not stay
\* parked, even if the answer came before it parked.
AnswerWakes ==
    \A c \in Call :
        (appr[c] \in Decided /\ cur = c /\ rpc \in {"park", "parked"})
        ~> (cur # c \/ rpc \notin {"park", "parked"})

\* A run that is cancelled ends: the request reaches the worker wherever it is,
\* at the agent, parked on an approval, queued or executing.
CancelEnds == token ~> rpc = "ended"

\* The worker goes on: no decision leaves it parked, and no cancellation
\* leaves it running.
WorkerGoesOn == AnswerWakes /\ CancelEnds

=============================================================================
