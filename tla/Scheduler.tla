------------------------------ MODULE Scheduler ------------------------------
(***************************************************************************)
(* The tool-call scheduler, schedule/scheduler.rs.  One FIFO queue per     *)
(* worktree, one mutation slot or several read slots per worktree, a       *)
(* global process limit, a claim per recorded call, run cancellation and   *)
(* shutdown.                                                               *)
(*                                                                         *)
(* A Workspace is a heap object: the map names at most one per worktree,   *)
(* but threads keep Arcs to objects the map has forgotten, so objects have *)
(* an identity (Inst) of their own.  Every action below is one critical    *)
(* section of the code, with the thread-local code around it, except the   *)
(* admission loop: `admit` re-reads the shutdown flag before each call it  *)
(* admits, so each iteration is an action, and `locked` holds the object's *)
(* mutex between them.                                                     *)
(***************************************************************************)
EXTENDS Naturals, Sequences, FiniteSets, Functions

CONSTANTS
    Sub,              \* submissions: a Waiting record and its dispatch number
    Run,              \* runs
    NKeys,            \* number of worktrees; Key is 1..NKeys, the map's order
    CallOf,           \* the recorded tool call of a submission
    RunOf,            \* the run of that call
    KeyOf,            \* the worktree a submission names
    Classified,       \* the risk the submitter classified the call at
    Declared,         \* the risk the registered tool declares
    SpawnsProcesses,  \* submissions whose tool declares it spawns processes
    Inst,             \* identities of Workspace objects
    NoInst,
    QueueCapacity,    \* WORKSPACE_QUEUE_CAPACITY
    ReadConcurrency,  \* WORKSPACE_READ_CONCURRENCY
    ProcessCapacity,  \* ProcessLimit::capacity
    Cancels,          \* runs whose cancel_run is called
    MayShutdown,      \* whether shutdown is called
    SweepModulus,     \* a common multiple of every list length pump_in_turn meets
    ShutdownThread

Key == 1..NKeys

ASSUME SchedulerAssumption ==
    /\ NKeys \in Nat
    /\ IsFiniteSet(Sub)
    /\ DOMAIN CallOf = Sub
    /\ RunOf \in [Sub -> Run]
    /\ KeyOf \in [Sub -> Key]
    /\ Classified \in [Sub -> Nat] /\ Declared \in [Sub -> Nat]
    /\ SpawnsProcesses \subseteq Sub
    /\ NoInst \notin Inst
    /\ QueueCapacity \in Nat /\ ReadConcurrency \in Nat
    /\ ProcessCapacity \in Nat \ {0}
    /\ Cancels \subseteq Run
    /\ MayShutdown \in BOOLEAN
    /\ SweepModulus \in Nat \ {0}
    /\ Sub \cap Run = {}
    /\ ShutdownThread \notin Sub \cup Run

VARIABLES
    map,       \* Inner::workspaces
    queue,     \* WorkspaceState::queue, per object
    running,   \* WorkspaceState::running, per object
    waiting,   \* the submitters WorkspaceState::waiting counts, per object
    locked,    \* the objects whose mutex an admission loop holds
    inUse,     \* ProcessLimit::in_use
    live,      \* Workers::live
    sweep,     \* Inner::sweep
    claimed,   \* Inner::claimed
    shutting,  \* Inner::shutting_down
    tokens,    \* submissions whose cancellation token `stop` tripped
    ticket,    \* what the CallTicket of a submission has been settled with
    spc,       \* where the submitting thread is
    inst,      \* the object that thread, and then its worker, has an Arc to
    wpc,       \* where the worker thread of a submission is
    todo,      \* the objects the worker has still to admit from
    tpc,       \* where a thread inside `stop` is
    list,      \* the objects `stop` has still to sweep
    swept,     \* what `stop` removed, per object
    targets    \* history: what was queued or running when `stop` began

workspaceVars == <<map, queue, running, waiting, locked>>
counterVars == <<inUse, live, sweep, claimed, shutting, tokens, ticket>>
submitVars == <<spc, inst>>
workerVars == <<wpc, todo>>
stopVars == <<tpc, list, swept, targets>>
vars == <<workspaceVars, counterVars, submitVars, workerVars, stopVars>>

\* A thread inside `stop`: cancel_run of a run, shutdown, or the submitter
\* that found the flag set after queueing its call.
Stopper == Run \cup Sub \cup {ShutdownThread}

Observe == 0

\* Waiting::risk is the higher of the two levels.
Risk(s) == IF Classified[s] >= Declared[s] THEN Classified[s] ELSE Declared[s]

\* RiskLevel::mutates_state
Mutates(s) == Risk(s) > Observe

\* The elements of q that are in S, in their order.
Only(q, S) ==
    LET at == {n \in DOMAIN q : q[n] \in S}
        upTo(m) == {n \in at : n <= m}
    IN  [n \in 1 .. Cardinality(at) |-> q[CHOOSE m \in at : Cardinality(upTo(m)) = n]]

-----------------------------------------------------------------------------
\* WorkspaceState and the map of workspaces

\* Faulty: a parked submitter does not keep its workspace in the map.
IsIdleIgnoringWaiters(i) == queue[i] = <<>> /\ running[i] = {}

IsIdle(i) == queue[i] = <<>> /\ running[i] = {} /\ waiting[i] = {}

\* Inner::live_workspaces, in map order
LiveWorkspaces == Only(map, Inst)

\* Inner::forget_idle: a locked object fails try_lock and stays.
Forgotten ==
    [k \in Key |-> IF map[k] # NoInst /\ map[k] \notin locked /\ IsIdle(map[k])
                     THEN NoInst ELSE map[k]]

\* The submitter or the worker of s has an Arc to inst[s].
HoldsArc(s) ==
    \/ spc[s] \in {"parked", "admit", "check", "stopping"}
    \/ wpc[s] \in {"ready", "executing", "collect", "pump", "admit", "forget"}

\* An object nobody has an Arc to: what Arc::new may return.
Unreferenced(i) ==
    /\ i \notin Range(map)
    /\ \A s \in Sub : /\ HoldsArc(s) => inst[s] # i
                      /\ i \notin Range(todo[s])
    /\ \A t \in Stopper : /\ i \notin Range(list[t])
                          /\ \A n \in DOMAIN swept[t] : swept[t][n].ws # i

-----------------------------------------------------------------------------
\* admit and dispatch

\* Faulty: the process limit is not looked at.
AdmissibleUncounted(i) ==
    /\ queue[i] # <<>>
    /\ ~shutting
    /\ LET s == Head(queue[i]) IN
         IF Mutates(s)
           THEN running[i] = {}
           ELSE /\ \A r \in running[i] : ~Mutates(r)
                /\ Cardinality(running[i]) < ReadConcurrency

\* The three admission rules, on the front of the queue.
Admissible(i) ==
    /\ queue[i] # <<>>
    /\ ~shutting
    /\ LET s == Head(queue[i]) IN
         /\ IF Mutates(s)
              THEN running[i] = {}
              ELSE /\ \A r \in running[i] : ~Mutates(r)
                   /\ Cardinality(running[i]) < ReadConcurrency
         /\ s \in SpawnsProcesses => inUse < ProcessCapacity

\* One iteration of `admit`, by whoever holds the mutex of i.
AdmitHead(i) ==
    /\ i \in locked
    /\ Admissible(i)
    /\ LET s == Head(queue[i]) IN
         /\ queue' = [queue EXCEPT ![i] = Tail(@)]
         /\ running' = [running EXCEPT ![i] = @ \cup {s}]
         /\ live' = live + 1
         /\ inUse' = IF s \in SpawnsProcesses THEN inUse + 1 ELSE inUse
         /\ wpc' = [wpc EXCEPT ![s] = "ready"]
    /\ UNCHANGED <<map, waiting, locked, sweep, claimed, shutting, tokens,
                   ticket, submitVars, todo, stopVars>>

\* The loop breaks, the mutex is released and `dispatch` spawns a worker for
\* every call it admitted: the one way out of an admission loop over i.
EndAdmit(i) ==
    /\ i \in locked
    /\ ~Admissible(i)
    /\ locked' = locked \ {i}

Spawned(i) ==
    [s \in Sub |-> IF wpc[s] = "ready" /\ inst[s] = i THEN "executing" ELSE wpc[s]]

-----------------------------------------------------------------------------
\* The start of `stop`, which shutdown, cancel_run and submit all call

Matches(t, s) == t \in Run => RunOf[s] = t

InWorkspace(s) == \E i \in Inst : s \in running[i] \/ s \in Range(queue[i])

\* `stop` takes its list of workspaces.
StopCollect(t) ==
    /\ list' = [list EXCEPT ![t] = LiveWorkspaces]
    /\ targets' = [targets EXCEPT ![t] = {s \in Sub : Matches(t, s) /\ InWorkspace(s)}]
    /\ tpc' = [tpc EXCEPT ![t] = IF LiveWorkspaces = <<>> THEN "settle" ELSE "sweep"]
    /\ UNCHANGED swept

-----------------------------------------------------------------------------
\* submit

SubmitRefused(s) ==
    /\ spc[s] = "idle"
    /\ shutting \/ CallOf[s] \in claimed
    /\ spc' = [spc EXCEPT ![s] = "refused"]
    /\ UNCHANGED <<workspaceVars, counterVars, inst, workerVars, stopVars>>

\* Faulty: a call that is already on its way is claimed again.
SubmitClaimAgain(s) ==
    /\ spc[s] = "idle"
    /\ ~shutting
    /\ claimed' = claimed \cup {CallOf[s]}
    /\ spc' = [spc EXCEPT ![s] = "claimed"]
    /\ UNCHANGED <<workspaceVars, inUse, live, sweep, shutting, tokens, ticket,
                   inst, workerVars, stopVars>>

SubmitClaim(s) ==
    /\ spc[s] = "idle"
    /\ ~shutting
    /\ CallOf[s] \notin claimed
    /\ claimed' = claimed \cup {CallOf[s]}
    /\ spc' = [spc EXCEPT ![s] = "claimed"]
    /\ UNCHANGED <<workspaceVars, inUse, live, sweep, shutting, tokens, ticket,
                   inst, workerVars, stopVars>>

\* load_tool_call fails: the claim is given back.
SubmitLoadFails(s) ==
    /\ spc[s] = "claimed"
    /\ claimed' = claimed \ {CallOf[s]}
    /\ spc' = [spc EXCEPT ![s] = "refused"]
    /\ UNCHANGED <<workspaceVars, inUse, live, sweep, shutting, tokens, ticket,
                   inst, workerVars, stopVars>>

\* The queue has no room and nobody is shutting down: the condition of the
\* backpressure loop.
Full(i) == Len(queue[i]) >= QueueCapacity /\ ~shutting

\* Faulty: the flag is not read again after the wait.
JoinQueueUnchecked(s, i) ==
    /\ queue' = [queue EXCEPT ![i] = Append(@, s)]
    /\ locked' = locked \cup {i}
    /\ spc' = [spc EXCEPT ![s] = "admit"]
    /\ inst' = [inst EXCEPT ![s] = i]
    /\ UNCHANGED claimed

\* What follows the backpressure loop, under the mutex of i.
JoinQueue(s, i) ==
    IF shutting
      THEN /\ claimed' = claimed \ {CallOf[s]}
           /\ spc' = [spc EXCEPT ![s] = "refused"]
           /\ inst' = [inst EXCEPT ![s] = NoInst]
           /\ UNCHANGED <<queue, locked>>
      ELSE /\ queue' = [queue EXCEPT ![i] = Append(@, s)]
           /\ locked' = locked \cup {i}
           /\ spc' = [spc EXCEPT ![s] = "admit"]
           /\ inst' = [inst EXCEPT ![s] = i]
           /\ UNCHANGED claimed

\* Get-or-insert under the map lock, then the object's mutex without letting
\* go of the map; park if the queue is full.
SubmitEnter(s) ==
    /\ spc[s] = "claimed"
    /\ \E i \in Inst :
         /\ IF map[KeyOf[s]] = NoInst
              THEN /\ \E j \in Inst : Unreferenced(j)
                   /\ i = CHOOSE j \in Inst : Unreferenced(j)
              ELSE i = map[KeyOf[s]]
         /\ i \notin locked
         /\ map' = [map EXCEPT ![KeyOf[s]] = i]
         /\ IF Full(i)
              THEN /\ waiting' = [waiting EXCEPT ![i] = @ \cup {s}]
                   /\ spc' = [spc EXCEPT ![s] = "parked"]
                   /\ inst' = [inst EXCEPT ![s] = i]
                   /\ UNCHANGED <<queue, locked, claimed>>
              ELSE JoinQueue(s, i) /\ UNCHANGED waiting
    /\ UNCHANGED <<running, inUse, live, sweep, shutting, tokens, ticket,
                   workerVars, stopVars>>

\* The timed wait re-checks whenever it likes; a check that finds the queue
\* still full changes nothing.
SubmitWake(s) ==
    /\ spc[s] = "parked"
    /\ inst[s] \notin locked
    /\ ~Full(inst[s])
    /\ waiting' = [waiting EXCEPT ![inst[s]] = @ \ {s}]
    /\ JoinQueue(s, inst[s])
    /\ UNCHANGED <<map, running, inUse, live, sweep, shutting, tokens, ticket,
                   workerVars, stopVars>>

SubmitDispatch(s) ==
    /\ spc[s] = "admit"
    /\ EndAdmit(inst[s])
    /\ wpc' = Spawned(inst[s])
    /\ spc' = [spc EXCEPT ![s] = "check"]
    /\ UNCHANGED <<map, queue, running, waiting, counterVars, inst, todo, stopVars>>

\* The last look at the flag: a submitter that sees it set runs stop(None).
SubmitReturn(s) ==
    /\ spc[s] = "check"
    /\ IF shutting
         THEN spc' = [spc EXCEPT ![s] = "stopping"] /\ StopCollect(s)
         ELSE spc' = [spc EXCEPT ![s] = "returned"] /\ UNCHANGED stopVars
    /\ UNCHANGED <<workspaceVars, counterVars, inst, workerVars>>

-----------------------------------------------------------------------------
\* The worker thread: the executor, then the drop of its Completion guard

\* The executor returns, or the pipeline around the tool body panics, and
\* `complete` runs: the running entry and the process slot go together, under
\* the mutex.  Without a process slot only the worker's own workspace can move.
CompleteRelease(s) ==
    /\ wpc[s] = "executing"
    /\ inst[s] \notin locked
    /\ running' = [running EXCEPT ![inst[s]] = @ \ {s}]
    /\ IF s \in SpawnsProcesses
         THEN /\ inUse' = IF inUse > 0 THEN inUse - 1 ELSE 0
              /\ wpc' = [wpc EXCEPT ![s] = "collect"]
              /\ UNCHANGED todo
         ELSE /\ wpc' = [wpc EXCEPT ![s] = "pump"]
              /\ todo' = [todo EXCEPT ![s] = <<inst[s]>>]
              /\ UNCHANGED inUse
    /\ UNCHANGED <<map, queue, waiting, locked, live, sweep, claimed, shutting,
                   tokens, ticket, submitVars, stopVars>>

RotateLeft(q, n) == SubSeq(q, n + 1, Len(q)) \o SubSeq(q, 1, n)

\* Faulty: a released process slot is offered to the worker's own worktree.
PumpListOwn(i) == <<i>>

\* pump_in_turn: every live workspace, the released one included, from a
\* rotating start.
PumpList(i) ==
    LET all == IF i \in Range(map) THEN LiveWorkspaces ELSE Append(LiveWorkspaces, i)
    IN  RotateLeft(all, sweep % Len(all))

PumpInTurn(s) ==
    /\ wpc[s] = "collect"
    /\ todo' = [todo EXCEPT ![s] = PumpList(inst[s])]
    /\ sweep' = (sweep + 1) % SweepModulus
    /\ wpc' = [wpc EXCEPT ![s] = "pump"]
    /\ UNCHANGED <<workspaceVars, inUse, live, claimed, shutting, tokens, ticket,
                   submitVars, stopVars>>

AfterPump(s) == IF Len(todo[s]) = 1 THEN "forget" ELSE "pump"

\* The next object of the list: its admission loop finds nothing to admit and
\* ends at once, or keeps the mutex.
WorkerPump(s) ==
    /\ wpc[s] = "pump"
    /\ Head(todo[s]) \notin locked
    /\ IF Admissible(Head(todo[s]))
         THEN /\ locked' = locked \cup {Head(todo[s])}
              /\ wpc' = [wpc EXCEPT ![s] = "admit"]
              /\ UNCHANGED todo
         ELSE /\ wpc' = [wpc EXCEPT ![s] = AfterPump(s)]
              /\ todo' = [todo EXCEPT ![s] = Tail(@)]
              /\ UNCHANGED locked
    /\ UNCHANGED <<map, queue, running, waiting, counterVars, submitVars, stopVars>>

WorkerDispatch(s) ==
    /\ wpc[s] = "admit"
    /\ EndAdmit(Head(todo[s]))
    /\ wpc' = [Spawned(Head(todo[s])) EXCEPT ![s] = AfterPump(s)]
    /\ todo' = [todo EXCEPT ![s] = Tail(@)]
    /\ UNCHANGED <<map, queue, running, waiting, counterVars, submitVars, stopVars>>

WorkerForget(s) ==
    /\ wpc[s] = "forget"
    /\ map' = Forgotten
    /\ wpc' = [wpc EXCEPT ![s] = "release"]
    /\ UNCHANGED <<queue, running, waiting, locked, counterVars, submitVars, todo, stopVars>>

WorkerRelease(s) ==
    /\ wpc[s] = "release"
    /\ claimed' = claimed \ {CallOf[s]}
    /\ wpc' = [wpc EXCEPT ![s] = "leave"]
    /\ UNCHANGED <<workspaceVars, inUse, live, sweep, shutting, tokens, ticket,
                   submitVars, todo, stopVars>>

\* Workers::leave, then the ticket is settled: by the result, or by the drop
\* of its sender when the worker panicked.
WorkerLeave(s) ==
    /\ wpc[s] = "leave"
    /\ live' = IF live > 0 THEN live - 1 ELSE 0
    /\ ticket' = [ticket EXCEPT ![s] = "ended"]
    /\ wpc' = [wpc EXCEPT ![s] = "ended"]
    /\ UNCHANGED <<workspaceVars, inUse, sweep, claimed, shutting, tokens,
                   submitVars, todo, stopVars>>

-----------------------------------------------------------------------------
\* cancel_run, shutdown and `stop`

CancelRun(r) ==
    /\ r \in Cancels
    /\ tpc[r] = "idle"
    /\ StopCollect(r)
    /\ UNCHANGED <<workspaceVars, counterVars, submitVars, workerVars>>

\* The first caller of shutdown wins the swap of the flag.
BeginShutdown ==
    /\ MayShutdown
    /\ ~shutting
    /\ shutting' = TRUE
    /\ tpc' = [tpc EXCEPT ![ShutdownThread] = "begun"]
    /\ UNCHANGED <<workspaceVars, inUse, live, sweep, claimed, tokens, ticket,
                   submitVars, workerVars, list, swept, targets>>

ShutdownStops ==
    /\ tpc[ShutdownThread] = "begun"
    /\ StopCollect(ShutdownThread)
    /\ UNCHANGED <<workspaceVars, counterVars, submitVars, workerVars>>

\* Faulty: the running calls are not told.
StopSweepQueueOnly(t) ==
    /\ tpc[t] = "sweep"
    /\ LET i == Head(list[t])
           gone == Only(queue[i], {s \in Sub : Matches(t, s)})
           kept == Only(queue[i], {s \in Sub : ~Matches(t, s)})
       IN  /\ i \notin locked
           /\ queue' = [queue EXCEPT ![i] = kept]
           /\ swept' = [swept EXCEPT ![t] = Append(@, [ws |-> i, removed |-> gone])]
    /\ list' = [list EXCEPT ![t] = Tail(@)]
    /\ tpc' = [tpc EXCEPT ![t] = IF Len(list[t]) = 1 THEN "settle" ELSE "sweep"]
    /\ UNCHANGED <<map, running, waiting, locked, inUse, live, sweep, claimed,
                   shutting, tokens, ticket, submitVars, workerVars, targets>>

\* One workspace's queue and running set, under its mutex.
StopSweep(t) ==
    /\ tpc[t] = "sweep"
    /\ LET i == Head(list[t])
           gone == Only(queue[i], {s \in Sub : Matches(t, s)})
           kept == Only(queue[i], {s \in Sub : ~Matches(t, s)})
       IN  /\ i \notin locked
           /\ queue' = [queue EXCEPT ![i] = kept]
           /\ tokens' = tokens \cup {s \in running[i] : Matches(t, s)}
           /\ swept' = [swept EXCEPT ![t] = Append(@, [ws |-> i, removed |-> gone])]
    /\ list' = [list EXCEPT ![t] = Tail(@)]
    /\ tpc' = [tpc EXCEPT ![t] = IF Len(list[t]) = 1 THEN "settle" ELSE "sweep"]
    /\ UNCHANGED <<map, running, waiting, locked, inUse, live, sweep, claimed,
                   shutting, ticket, submitVars, workerVars, targets>>

\* Faulty: the ticket of a removed call is forgotten.
StopSettleSilently(t) ==
    /\ tpc[t] = "settle"
    /\ swept[t] # <<>>
    /\ Head(swept[t]).removed # <<>>
    /\ claimed' = claimed \ {CallOf[Head(Head(swept[t]).removed)]}
    /\ swept' = [swept EXCEPT ![t][1].removed = Tail(@)]
    /\ UNCHANGED <<workspaceVars, inUse, live, sweep, shutting, tokens, ticket,
                   submitVars, workerVars, tpc, list, targets>>

\* cancel_undispatched, the ticket and the claim of one removed call.
StopSettle(t) ==
    /\ tpc[t] = "settle"
    /\ swept[t] # <<>>
    /\ Head(swept[t]).removed # <<>>
    /\ LET s == Head(Head(swept[t]).removed) IN
         /\ ticket' = [ticket EXCEPT ![s] = "cancelled"]
         /\ claimed' = claimed \ {CallOf[s]}
    /\ swept' = [swept EXCEPT ![t][1].removed = Tail(@)]
    /\ UNCHANGED <<workspaceVars, inUse, live, sweep, shutting, tokens,
                   submitVars, workerVars, tpc, list, targets>>

StopPump(t) ==
    /\ tpc[t] = "settle"
    /\ swept[t] # <<>>
    /\ Head(swept[t]).removed = <<>>
    /\ Head(swept[t]).ws \notin locked
    /\ IF Admissible(Head(swept[t]).ws)
         THEN /\ locked' = locked \cup {Head(swept[t]).ws}
              /\ tpc' = [tpc EXCEPT ![t] = "admit"]
              /\ UNCHANGED swept
         ELSE /\ swept' = [swept EXCEPT ![t] = Tail(@)]
              /\ UNCHANGED <<locked, tpc>>
    /\ UNCHANGED <<map, queue, running, waiting, counterVars, submitVars,
                   workerVars, list, targets>>

StopDispatch(t) ==
    /\ tpc[t] = "admit"
    /\ EndAdmit(Head(swept[t]).ws)
    /\ wpc' = Spawned(Head(swept[t]).ws)
    /\ swept' = [swept EXCEPT ![t] = Tail(@)]
    /\ tpc' = [tpc EXCEPT ![t] = "settle"]
    /\ UNCHANGED <<map, queue, running, waiting, counterVars, submitVars, todo,
                   list, targets>>

\* The trailing forget_idle; a submitter then returns its ticket and
\* shutdown goes on to wait for the workers.
StopForget(t) ==
    /\ tpc[t] = "settle"
    /\ swept[t] = <<>>
    /\ map' = Forgotten
    /\ tpc' = [tpc EXCEPT ![t] = IF t = ShutdownThread THEN "waiting" ELSE "done"]
    /\ spc' = IF t \in Sub THEN [spc EXCEPT ![t] = "returned"] ELSE spc
    /\ targets' = [targets EXCEPT ![t] = {}]
    /\ UNCHANGED <<queue, running, waiting, locked, counterVars, inst, workerVars,
                   list, swept>>

\* wait_until_idle: no live worker, or the deadline.
ShutdownEnds ==
    /\ tpc[ShutdownThread] = "waiting"
    /\ \/ live = 0 /\ tpc' = [tpc EXCEPT ![ShutdownThread] = "clean"]
       \/ live > 0 /\ tpc' = [tpc EXCEPT ![ShutdownThread] = "deadline"]
    /\ UNCHANGED <<workspaceVars, counterVars, submitVars, workerVars, list, swept, targets>>

-----------------------------------------------------------------------------

Init ==
    /\ map = [k \in Key |-> NoInst]
    /\ queue = [i \in Inst |-> <<>>]
    /\ running = [i \in Inst |-> {}]
    /\ waiting = [i \in Inst |-> {}]
    /\ locked = {}
    /\ inUse = 0 /\ live = 0 /\ sweep = 0
    /\ claimed = {} /\ shutting = FALSE /\ tokens = {}
    /\ ticket = [s \in Sub |-> "none"]
    /\ spc = [s \in Sub |-> "idle"]
    /\ inst = [s \in Sub |-> NoInst]
    /\ wpc = [s \in Sub |-> "none"]
    /\ todo = [s \in Sub |-> <<>>]
    /\ tpc = [t \in Stopper |-> "idle"]
    /\ list = [t \in Stopper |-> <<>>]
    /\ swept = [t \in Stopper |-> <<>>]
    /\ targets = [t \in Stopper |-> {}]

Submit(s) ==
    \/ SubmitRefused(s) \/ SubmitClaim(s) \/ SubmitLoadFails(s) \/ SubmitEnter(s)
    \/ SubmitWake(s) \/ SubmitDispatch(s) \/ SubmitReturn(s)

Worker(s) ==
    \/ CompleteRelease(s) \/ PumpInTurn(s) \/ WorkerPump(s) \/ WorkerDispatch(s)
    \/ WorkerForget(s) \/ WorkerRelease(s) \/ WorkerLeave(s)

Stop(t) ==
    \/ StopSweep(t) \/ StopSettle(t) \/ StopPump(t) \/ StopDispatch(t) \/ StopForget(t)

\* Every submission has been refused or settled and every thread has ended.
Finished ==
    /\ \A s \in Sub : spc[s] \in {"refused", "returned"} /\ wpc[s] \in {"none", "ended"}
    /\ \A t \in Stopper : tpc[t] \in {"idle", "done", "clean", "deadline"}

Idle == Finished /\ UNCHANGED vars

Next ==
    \/ \E s \in Sub : Submit(s) \/ Worker(s)
    \/ \E i \in Inst : AdmitHead(i)
    \/ \E t \in Stopper : Stop(t)
    \/ \E r \in Run : CancelRun(r)
    \/ BeginShutdown \/ ShutdownStops \/ ShutdownEnds
    \/ Idle

\* Every thread keeps running, and the executor ends every call: it enforces
\* a timeout and a grace period.  Nothing obliges a submitter to submit, or
\* anybody to cancel or shut down.
Fairness ==
    /\ \A s \in Sub : /\ WF_vars(SubmitEnter(s) \/ SubmitWake(s) \/ SubmitDispatch(s) \/ SubmitReturn(s))
                      /\ WF_vars(Worker(s))
    /\ \A i \in Inst : WF_vars(AdmitHead(i))
    /\ \A t \in Stopper : WF_vars(Stop(t))
    /\ WF_vars(ShutdownStops \/ ShutdownEnds)

Spec == Init /\ [][Next]_vars /\ Fairness

-----------------------------------------------------------------------------
\* Properties

SubmitPC == {"idle", "claimed", "parked", "admit", "check", "stopping",
             "returned", "refused"}
WorkerPC == {"none", "ready", "executing", "collect", "pump", "admit",
             "forget", "release", "leave", "ended"}
StopPC == {"idle", "begun", "sweep", "settle", "admit", "done", "waiting",
           "clean", "deadline"}

\* The type of every variable of the scheduler.
TypeOK ==
    /\ map \in [Key -> Inst \cup {NoInst}]
    /\ queue \in [Inst -> Seq(Sub)]
    /\ running \in [Inst -> SUBSET Sub]
    /\ waiting \in [Inst -> SUBSET Sub]
    /\ locked \subseteq Inst
    /\ inUse \in Nat /\ live \in Nat /\ sweep \in Nat
    /\ claimed \subseteq Range(CallOf)
    /\ shutting \in BOOLEAN
    /\ tokens \subseteq Sub
    /\ ticket \in [Sub -> {"none", "ended", "cancelled"}]
    /\ spc \in [Sub -> SubmitPC]
    /\ inst \in [Sub -> Inst \cup {NoInst}]
    /\ wpc \in [Sub -> WorkerPC]
    /\ todo \in [Sub -> Seq(Inst)]
    /\ tpc \in [Stopper -> StopPC]
    /\ list \in [Stopper -> Seq(Inst)]
    /\ swept \in [Stopper -> Seq([ws : Inst, removed : Seq(Sub)])]
    /\ targets \in [Stopper -> SUBSET Sub]

Carries(i, s) == s \in running[i] \/ s \in Range(queue[i]) \/ s \in waiting[i]

\* Every call that is queued, running or parked is so in the one Workspace
\* object the map names for its worktree: forget_idle never evicts an object
\* somebody is using or is about to fill, so no worktree has two objects.
Anchored ==
    \A s \in Sub, i \in Inst : Carries(i, s) => map[KeyOf[s]] = i

\* A mutating call runs alone in its worktree, over every Workspace object
\* the worktree has had: neither another mutation nor a read overlaps it.
MutationExclusive ==
    \A s, u \in Sub, i, j \in Inst :
        (/\ s \in running[i] /\ u \in running[j]
         /\ KeyOf[s] = KeyOf[u] /\ Mutates(s)) => s = u

\* The process limit counts exactly the running calls that hold a slot, and
\* Workers::live exactly the workers shutdown has to wait for, whatever ends
\* a call: completion, a panic, cancellation or shutdown.
SlotAccounting ==
    /\ inUse = Cardinality({s \in SpawnsProcesses : \E i \in Inst : s \in running[i]})
    /\ inUse <= ProcessCapacity
    /\ live = Cardinality({s \in Sub : wpc[s] \notin {"none", "ended"}})

\* Two submissions of one recorded call are never carried at once: the claim
\* is kept from submit until the call has given up every slot it held.
ClaimedOnce ==
    \A s, u \in Sub :
        (/\ s # u /\ CallOf[s] = CallOf[u]
         /\ \E i \in Inst : Carries(i, s))
        => \A j \in Inst : ~Carries(j, u)

\* Between two submissions of one recorded call, and over the process limit and
\* the worker count, nothing is counted twice and nothing is forgotten.
Accounted == ClaimedOnce /\ SlotAccounting

\* A worktree has one Workspace object, and in it a mutation runs alone.
Exclusive == Anchored /\ MutationExclusive

\* A shutdown that reports a clean stop left nothing behind: no call is
\* queued or running and no worker is about to start, then or ever after.
CleanShutdown ==
    tpc[ShutdownThread] = "clean" =>
        \A s \in Sub : ~InWorkspace(s) /\ wpc[s] \in {"none", "ended"}

\* When `stop` is done with its workspaces, everything it was asked to stop
\* has been stopped: no call that was queued or running when it began is still
\* queued, or executing with a token nobody tripped, even if it was admitted
\* or moved on meanwhile.
StopReaches ==
    \A t \in Stopper :
        (tpc[t] = "settle" /\ swept[t] = <<>>) =>
            \A s \in targets[t], i \in Inst :
                /\ s \notin Range(queue[i])
                /\ wpc[s] \in {"ready", "executing"} => s \in tokens

\* Every submission that got its claim ends: it is refused, or its ticket is
\* settled, through backpressure, cancellation, panics and shutdown.
TicketsSettle ==
    \A s \in Sub : spc[s] = "claimed" ~> (spc[s] = "refused" \/ ticket[s] # "none")

\* The submissions running in any object of a worktree: what occupies it.
Busy == [k \in Key |-> {s \in Sub : KeyOf[s] = k /\ \E i \in Inst : s \in running[i]}]

\* The scheduler implements WorktreeSlots.
Slots == INSTANCE WorktreeSlots WITH
    IsMutation <- {s \in Sub : Mutates(s)},
    IsSpawning <- SpawnsProcesses,
    busy <- Busy

\* Every step of the scheduler starts one call its worktree can take, ends
\* one, or leaves the occupancy alone.
ImplementsSlots == Slots!Spec
=============================================================================
