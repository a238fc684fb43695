# Harkness: a TLA+ verification project

Harkness drives coding agents over git worktrees. A runtime
(`harkness-runtime`) drives runs on worker threads, lets tool calls into
worktrees, has people approve them from several front ends, and lets several
processes share one data directory and recover each other's abandoned runs.
Around it are a git layer, a project catalog, a derived index of every checkout,
a transport to external agents, a model-provider contract, a command line and a
window. This project models the parts where several actors, failures or stale
reads meet, checks them with TLC on small instances, and proves the core
protocols with TLAPS for instances of any size.

Paths are relative to `src/crates/harkness-runtime/src` unless they name another
crate. `PROJECT.json` maps every definition to the lines it models.

## 1. Inventory

| component | state it keeps | operations | hard because |
|---|---|---|---|
| Scheduler, `schedule/` | per-worktree queue, running set and waiters; process slots; claims; worker count; shutdown flag | `submit`, `admit`, `dispatch`, `complete`, `pump_in_turn`, `cancel_run`, `stop`, `shutdown`, `forget_idle` | many threads, three kinds of lock, objects that outlive their map entry, a flag read without a lock |
| Run ownership and recovery, `coordinator/lease.rs`, `coordinator/recovery.rs`, `store/lease.rs`, `store/recovery.rs` | lease file and its advisory lock, lease row, recovery lock, the rows of runs, steps, calls and approvals | `acquire`, `probe`, `sweep`, `interrupt`, `ensure`, `renew`, `release`, `retry_run` | several processes, crashes anywhere, verdicts used after they were read |
| Run worker, `coordinator/mod.rs`; approval gate, `approval/gate.rs`; executor, `tool/execute.rs` | the run's records, its token, its planned steps; a slot per waiting request; the body thread | `drive`, `dispatch_tool`, `await_approval`, `resume_approval`, `record_fault`, `cancel_run`, `decide_approval`, `ticket`, `resolve`, `supervise` | four threads write the same records; any store access can fail; wake-ups |
| Event delivery, `coordinator/subscription.rs`, `store/event.rs`; timeline, `harkness-gui` `run_timeline_model.rs` | cursor and subscribers per run, bounded queues; rows on the Qt thread | `publish`, `subscribe`, `recv`, close; select, page back, batches | replay and live events overlap, lag, closing races joining, late replies |
| Policy, trust, grants, `policy.rs`, `trust.rs`, `approval/matcher.rs` | trust rows, policy layers, grants of a run | decide, match, put, revoke | decisions used after what they were based on changed |
| Trust records and agents, `integration/`, `agent_registry/` | `agents.json` and rows of `runtime.db` | trust, revoke, launch, health check, sign in, remove | two stores without a common transaction, hashing outside the lock |
| Tools, `tools/fs_apply_patch.rs`, `tools/process_exec.rs`; process runner, `tool/process.rs` | workspace files, process groups, pipes | patch, check, spawn, drain, kill | partial writes, edits meanwhile, children that do not end |
| Store and records, `store/`, `domain/` | artifacts, event log, record rows | seal, commit, transition, load | power loss between file and row, clocks, a validator that must agree with the state machine |
| Context, `harkness-context` | watch queue, index rows, cache file, workspace readings | reconcile, publish, quarantine, evict, capture | files change under the walk, several processes on one cache |
| Git layer and catalog, `harkness-git`, `harkness-core` | index and working tree; catalog file, worktree records, directories | stage, discard, commit; add, move, remove, reconcile | selections on an old diff, operations over three stores |
| Transport and providers, `harkness-transport`, `harkness-provider` | pending and retired requests, queues; the turn being assembled | call, pump, tear down; stream, assemble | late answers, a peer that dies, cut streams |
| Front ends, `harkness-gui`, `harkness-cli` | job table, panels, tokens, run pages | start a job, reply | replies in any order, another project open by then |

How they interact. `start_run` records a run under the coordinator's lease and
spawns a worker. The worker asks its agent for actions; a tool call is recorded,
put to policy, possibly held for an approval (the worker parks on the gate) and
submitted to the scheduler, which runs the executor on a thread of its own and
settles a ticket. Every change appends events, which delivery pushes to
subscribers such as the window's timeline. `cancel_run` trips the run's token,
empties the scheduler's queues of the run and resolves its pending approvals;
`decide_approval` writes a decision and then wakes the gate. `open` takes a lease
and sweeps the store for runs of dead leases before the coordinator serves
anything. Tools work in the worktree that the catalog and the git layer manage and
that the index describes.

## 2. Modules

| module | models |
|---|---|
| `WorktreeSlots` | abstract: which calls occupy which worktree, and the rules for starting one |
| `Scheduler` | `schedule/scheduler.rs`; implements `WorktreeSlots` |
| `RunRecovery` | several coordinators over one data directory |
| `RunWorker` | one run: worker, gate, executor, canceller, surfaces |
| `EventDelivery`, `RunTimeline` | the log and its receivers; the window's timeline above one |
| `GuiPanels`, `GuiChanges`, `GuiRuns` | the window: jobs and panels; changes, discards and commits; run pages |
| `PeerConnection`, `ChildProcess` | one JSON-RPC conversation; the three supervisors of children |
| `ContextIndex`, `IndexCache` | watch, reconciliation and publication; the cache file's life |
| `ProjectCatalog`, `StoreWrites`, `RunRecords`, `AgentRegistry` | the durable stores |
| `PolicyGate`, `IntegrationTrust` | trust, policy and grants; trust records of external subjects |
| `ApplyPatch`, `CheckEvidence`, `PartialStaging`, `ModelTurn` | the patch tool, checks, partial staging, a model turn |
| `MC*` | instances for TLC. `MCRun`, `MCStream`, `MCGui`, `MCPeers`, `MCStores` and `MCTools` put independent components side by side: a behaviour follows one of them, the others stay as they began, so one run asks one question of each |
| `*Proofs` | inductive invariants and theorems |

Definitions marked *Faulty* are deliberate mistakes that a property must catch;
no specification uses them. `PROJECT.json` lists them under `mutants`.

**Scheduler.** A `Workspace` is a heap object with an identity (`Inst`): the map
names at most one per worktree, but threads hold references to objects the map
has forgotten, and a worktree with two live objects is the accident to look for.
An action is one critical section. The exception is `admit`: it reads the shutdown
flag, which no lock protects, before each call, so every iteration is an action
(`AdmitHead`) and `locked` keeps the object's mutex between iterations. `submit` is
five actions, a worker's completion six, `stop` collects, sweeps, settles and
pumps. Condition variables are left out: the code waits with timeouts and
re-checks, so a waiter may look whenever it likes. A worker leaves the count and
then sends its result; the two are one action. `SweepModulus` keeps the rotation
counter finite; it is a common multiple of the lengths the counter is reduced by.

**RunRecovery.** A lease is used by one coordinator, once, so it is named by its
process. A process is off, opening, sweeping, up, stopping, unclaimed (row
released), down (file released) or dead; death frees the lock and leaves the file.
Steps, calls and approvals are `Child`. A sweep reads once which runs are
unfinished, examines each lease once, plans outside and applies inside a
transaction; each is an action. Time is the single action `Ages` with sets of what
is older than the grace. Failures are constants: `MayFailProbe`, `MayFailStore`. The
shutdown waits for its workers or for its deadline (`DeadlinePasses`), and
`overran` names the runs it waited for in vain; their workers go on. Assumed about time, all
implied by constants of the code: creating and locking a lease file takes less
than the 45 s grace; shutdown and one sweep end within it; housekeeping renews a
live row within it.

**RunWorker.** `rpc` walks the worker through `drive_inner`, `dispatch_tool`,
`await_approval`, `resume_approval` and `execute_scheduled`, one action per store
transaction or gate operation; checks of the token are conjuncts of the action
whose outcome they decide. The agent may do anything, policy answers freely, the
scheduler is what module `Scheduler` shows of it. `StoreFault` lets any store access
of the worker be refused, `ExecFault` those of the executor, `FaultUnrecorded` those
of `record_fault` itself.

**EventDelivery, RunTimeline.** An event is its number; the log is its tip.
`publish` holds the delivery's mutex while it pushes, receivers take from their own
queues, appends need neither lock. A timeline thread is named by the request number
its selection advanced to; what a retry adds to a run that ended is recorded and never
published, so `TailShown` promises a timeline what was published.

**GuiPanels, GuiChanges, GuiRuns.** One Qt thread owns the state, so a handler is a
function from state to state; workers reply later and in any order. A file is its
content in the working tree, the index and HEAD and a metadata stamp. A discard is five
steps (read the index, compare, ask for the status, act, report), and an edit may come
between any two: `WritesWhatWasShown` excuses a file that is changed after the worker
began to look at it, which the code does throw away. What a commit takes is modelled and
no property is about it.

**PeerConnection, ChildProcess.** Reader and writer threads, bounded queues, callers
that pump for each other; teardown closes, signals, kills and joins. A child may
leave a helper in its group or one that escaped it; output is counted in chunks.
Storing output fails only in calls without a process that writes for ever.

**ContextIndex, IndexCache.** A file is a content and a stamp; two writes within one
filesystem tick share a stamp. A cache file is an inode with its metadata row: a
handle stays on its inode when the path is renamed or removed.

**ProjectCatalog, StoreWrites, RunRecords, AgentRegistry.** A read-modify-write under
a lock is one step, everything between locks is a step of its own, any write may be
refused and power may be lost between steps. `RunRecords` plays the state machine of
a record against the validator that reads it back; the two disagree only for
`ToolCall::transition(AwaitingApproval)` after an `Allow`, which only tests call.

**PolicyGate, IntegrationTrust.** The reserved external contexts of
`policy/integration.rs` are left out: no caller attaches them. So are pre-release
versions. Trust and policy are not evaluated again after an approval wait, which the
model shows and no property forbids.

**ApplyPatch, CheckEvidence, PartialStaging, ModelTurn.** Contents are model values.
A patch reaches and reads its bases one by one, validates, and then, file by file,
revalidates, makes a temporary file, opens the parent, checks twice and renames, beside
an executor that may not abandon it inside its irreversible section. An edit between two
reads is either seen by the second or changes a file already read, and only the latter
can tear a batch; a directory swapped before the parent is opened may receive the
temporary file and keep it, never a replaced file. `PartialStaging` is one text file
with at least one line of context (renames, binary and filtered files left out). Each
recomputed diff, libgit2's check and the final apply are steps of their own, and the file
may change between any two. libgit2 takes the lines where the patch says they are, from
an index loaded at any moment since the repository was opened; `git apply` looks for
them around that place, as `git` 2.39 was seen to do. A `git` killed while it rewrites
the file is left out, and one diff is one look at the file. `ModelTurn` leaves out
latencies and the request id.

## 3. Runs

| run | instance | states | shows |
|---|---|---|---|
| `scheduler_stop` | one worktree, 3 submissions of 2 runs, one of them spawning a process, queue of 1; a run cancelled or a shutdown, over 2 of them | 213,417 | `StopReaches`, `Exclusive`, `CleanShutdown`, `TicketsSettle` |
| `recovery` | 2 processes, 2 runs, one without an owner, 1 child, failing transactions, workers that outlive the shutdown deadline | 660,412 | `LiveClaimKept`, `InterruptedIsAbandoned`, `ChildrenEnd`, `WarningCarried`, `EndingsFinal`, `SweepEnds` |
| `worker` | 2 worktrees, 3 spawning submissions, two of them of one call, 1 process slot; 2 turns, 1 surface, cancellation, 1 fault | 140,631 | `Accounted`, `TicketsSettle`, `ImplementsSlots`; `ConsentFirst`, `ObservationTrue`, `EndsOnce`, `WorkerGoesOn` |
| `stream` | 1 receiver, log of 3, queue and page of 1; timeline of 3 events, 2 selections, 2 rows, a retry's line after the end | 245,922 | `DeliveryFaithful`, `TimelineTrue`, `StreamSettles` |
| `gui` | 2 projects (one a worktree), 4 starts; 2 files, 1 edit, 2 clicks; 3 runs, pages of 1 | 856,771 | `PanelsTrue`, `WritesWhatWasShown`, `RunPagesTrue` |
| `peers` | 2 callers, 1 consumer, queues and pipes of 1; 3 supervisors, helper or escaped process | 218,000 | `HealthyKept`, `ChildTrue`, `AllReturn` |
| `index` | 2 files in 1 directory, 2 branches, 2 edits, queue of 1, 1 fault, 1 call of another process | 826,906 | `IndexTrue`, `Converges` |
| `stores` | 2 processes, 2 new projects; 2 store calls, 1 crash; 3 instants; 2 front ends, 3 inodes, 2 sweeps; 2 agent callers | 1,242,940 | `StoreKept`, `CatalogKept`, `RecordsKept`, `CacheKept`, `RegistryKept`, `NoneStuck` |
| `tools` | 2 tools, 3 inputs, 3 policies; 2 paths; 6 texts of up to 6 lines, 2 moves; a patch of 2 files, 3 changes by others; 3 subject kinds; 6 stream steps | 1,403,929 | `GateKept`, `EvidenceTrue`, `StagingTrue`, `TurnTrue`, `PatchTrue`, `TrustKept` |
| `agents_newer_grant` | 2 callers, 2 digests | violated | the first finding below |
| `index_lock_spared` | 1 front end, 2 sweeps, 2 lock files | violated | the second finding below |
| `catalog_remaining` | 2 processes, 2 worktrees, 2 places, 5 operations, no fault | violated | the third finding below |

Why the bounds are enough to be interesting. A queue of one is full with one
call, so the next submission parks; two reads and a write cover every pairing of
the admission rules; four object identities let a worktree have a forgotten and a
fresh object at once. `StopsMeetTwo` (an action constraint of `scheduler_stop`) lets a
stop begin only once the third submission was refused; it constrains no action anybody
is obliged to take. Two processes are a sweeper and an owner, two runs an attempt
and its retry. Two turns are a plan and a call, or two calls, so an answer for an
earlier call can arrive during a later one. A queue of one lags after one event; a
log of three has a first, a middle and a last page. Two callers of a peer suffice
for one to pump for the other and for a late answer to cross. Two files make a half
applied patch, and three changes move a directory, edit behind it and move it back. Two
moves of the world or the reader are a selection and an edit while it is applied. Every
passing run reaches all its actions. Deadlock is checked in the
runs of the scheduler and of the worker: the scheduler ends in an explicit `Idle`, and a
worker stops nowhere but at its end. The other systems may stop.

Fairness. Threads of the scheduler keep running and the executor ends every call,
because it enforces a timeout and a grace period; nobody has to submit, cancel or
shut down. A sweeping process goes on until it dies. Worker, canceller and a surface
that has begun to decide go on; the agent answers; a queued call is admitted or
removed; nobody has to decide or to cancel. Worker threads of the window and the Qt
queue go on; readers of a subscription keep asking; kernel pipes deliver and a
killed process dies; the watch thread, its retries and its window timer go on.

### Findings

`AgentRegistry::invalidate` re-reads the grant under the lock, so as not to undo a
newer one, but compares only the row's id and its state. A regrant keeps the id, so a
launch that hashed the executable before it withdraws the newer grant
(`agent_registry/service.rs:1371-1378` against its comment, l. 1350-1354).

`remove_cache` of the index's eviction lets go of the exclusive lock and then unlinks the
lock file (`harkness-context/src/index/budget.rs:346-347`). A process that opens the cache
between the two holds its shared lock on a file without a name; the next sweep makes a new
lock file and removes the cache under that process, which the module says must not happen
(l. 20, l. 24-27). One sweep cannot show it, so the run allows two. The passing run checks
`NamedLockSpares`, what the code does keep.

`reconcile_worktrees` asks which checkouts of a parent are absent before it takes the
repository lock (`harkness-core/src/project.rs:1702-1712`) and under the lock runs `git
worktree remove --force` on the path of each absent one (l. 1811), without asking again.
While it waits for the lock another process may move a second worktree to the path of one
that was moved away, or a volume is mounted again. The checkout that is there is then
deleted with its uncommitted work, although the function says that it removes "only that
path's Git administrative record" of a checkout that is absent (l. 1664-1666) and a test that
it "never deletes a remaining directory" (l. 5596). The history variable `lost` collects what
is deleted so; `CatalogKept` excuses the rows of those paths, and holds otherwise in larger
instances too: 2 places and 6 operations of adding, moving and reconciling, 3 new projects
and 5 operations of cloning, adding, dropping, forgetting and sweeping.

### Other places where a comment promises more than the code does

Met while modelling; the properties above are stated so that they hold with them.

- `schedule/scheduler.rs:1146-1148`: a submission that arrives between a release and
  `pump_in_turn` takes the slot (l. 1113), so a worktree may wait for more than "a
  bounded number of releases".
- `coordinator/lease.rs:63`: a lease row is written with the first run but carries the
  time of the lease, so it may be born past the grace (`store/lease.rs:126`).
- `docs/architecture-runtime.md:161-162`: shutdown gives up its claim after its
  deadline whether or not its workers have ended (`coordinator/mod.rs:921`), so
  `interrupted` does not always mean that the owner stopped: such a run may be driven
  on, leave a child open, and be followed by a retry that is not warned of its later
  calls. `InterruptedIsAbandoned`, `ChildrenEnd` and `WarningCarried` excuse just these
  runs; the endings themselves stay final (`EndingsFinal`).
- `coordinator/mod.rs:436-437`: a body that outlives its grace is left running when
  its run has ended (`tool/execute.rs:1092`).
- `coordinator/mod.rs:597-613`: the line of a retry is never published, so a timeline that
  is open misses it until its run is selected again.
- `run_timeline_model.rs:645-649` (`harkness-gui`): the oldest rows can be dropped
  while they are what is on screen. `GitPanel.qml:107-113`, `151-153` and
  `backend.rs:1192-1193`, `1415-1421`: a skipped history load is not repeated, an amend
  records more than the list shows, and a file discard outlives the diff it was opened
  on (`WritesWhatWasShown` says of it only that the last diff loaded is thrown away). `ApprovalPage.qml:495-498`: a decision that settles beside a load is not heard.
- `harkness-git` `lib.rs:500-502`, `runner.rs:193-194`, `hunk.rs:1220-1222`: a refresh
  that fails keeps what it had; a cancellation during a drain is not heard; identical
  lines make a hunk's position ambiguous.
- `harkness-git` `hunk.rs:1515-1517`: the blob ids of a patch are to make a stale one "fail
  loudly rather than land on the wrong content", but `git apply` does not compare them
  (l. 1150). A file edited between libgit2's check and that process is patched wherever the
  lines still stand, and a last line without a newline is joined to one written behind it.
  `LandsInPlace` is about a file nobody touched meanwhile; `EditsStay` is about the rest.
- `harkness-context` `watch.rs:52-55`, `reconcile.rs`, `index/mod.rs:70-76`, `88-91`,
  `budget.rs:346-347`: a file recreated in one tick, settling beside another writer, a
  generation that repeats, and a lock file unlinked after its release.
- `harkness-transport` `error.rs:329`, `agent_registry/service.rs:762-768`, `1166-1176`,
  `tools/process_exec.rs:233`, and the provider contract's failure rule: each holds except
  beside a second actor.

## 4. Proofs

Everything below holds for every value of the constants that satisfies the named
assumption of the module: any number of processes, runs, worktrees, submissions,
turns, files, surfaces and faults. Each argument has the same shape: an inductive
invariant, first checked by TLC, one lemma per part of it for a step, and `PTL` for
the temporal conclusion.

| module | theorems |
|---|---|
| `SharedFilesProofs` (`RunRecovery`, `IndexCache`) | `TypeCorrect`, `LiveClaimsSafe`, `OverIsOver`, `EndedRunsAreBare`, `RetriesAreWarned`, `EndingsKept`; `CacheIsKept` |
| `SchedulerProofs` | `EveryoneIsPlaced`, `SchedulerTypes`, `WorktreesAreExclusive`, `SlotsAreAccounted`, `SlotsAreImplemented`, `StopReachesEveryone`, `CleanStopsAreClean`, `CallsAreAccounted` |
| `RunWorkerProofs` | `WorkerTypes`, `ConsentComesFirst`, `AnswersAreTrue`, `RunsEndOnce` |
| `EventDeliveryProofs` | `DeliveryIsFaithful` |
| `ToolProofs` (`PolicyGate`, `IntegrationTrust`, `ApplyPatch`) | `GateIsKept`, `TrustIsKept`, `PatchIsTrue` |
| `StoreProofs` (`RunRecords`, `AgentRegistry`, `StoreWrites`) | `RecordsAreKept`, `RegistryIsKept`, `StoreIsKept` |
| `PeerProofs` (`PeerConnection`, `ChildProcess`) | `ConnectionsAreHealthy`, `ChildrenAreTrue` |
| `GuiProofs` (`GuiChanges`, `GuiRuns`, `GuiPanels`) | `ChangesAreAsShown`, `RunPagesAgree`; `PanelsAreTrue` |

**Run recovery.** `LiveClaimsSafe` assumes that lease files can be probed
(`MayFailProbe = FALSE`), and so do `OverIsOver` and its two corollaries; `EndingsKept`
assumes nothing. None assumes that workers end before the shutdown deadline.
`LiveClaimKept` is not inductive: a sweep acts on what it read before. `ClaimInv` says that everything it may
have read stays true. A lease is used once, so a coordinator whose claim is gone never
has it back (`Gone` is stable). A lock that was found free, and a row found released,
belong to a coordinator that is gone (`LockHeld`, `ReleasedIsGone`, `VerdictSound`); a
run's owner has a row from the transaction that records the run (`OwnerHasRow`), which
is why "no row" is a sound verdict too; so what is planned, and what is done, is
against a coordinator that is gone (`PlanSound`, `InterruptSound`). `WorkInv` adds that
a worker drives only an open run of a coordinator that is not gone, unless it has
outlived the deadline (`DrivenOpen`), whence nobody adds children to a run that is being interrupted (`PlanCovers`), and
that what a retry was told stays true (`RetriedIsOver`).

**Scheduler.** `Placed` is the backbone: who holds which mutex, which object every
thread refers to, and that a submission is in one place at most. On it rest
- `Exclusive`: `Anchored` (whoever is queued, running or parked is so in the object the map
  names, since `forget_idle` forgets only objects nobody will enter) and `Alone` (a
  mutating call is alone in its running set, since admission holds the mutex);
- `SlotAccounting`: sets counted on both sides of every step;
- the refinement `ImplementsSlots`: `Busy` collects, per worktree, what runs in any of
  its objects. A step that starts a call is a `Slots!Start` because `Exclusive` says
  that no other object of the worktree runs anything; every other step is a
  `Slots!Finish` or leaves `Busy` alone;
- `StopReaches` and `CleanShutdown`: `Moves` says where a submission may go in one step,
  so that what `stop` collected is found in an object it has yet to sweep, or has been
  swept or tripped (`Reached`, `Drained`), and nothing enters once the flag is up and the
  workers are gone (`Quiet`);
- `Accounted`: `Removed` (what `stop` took out of a queue is nowhere else) and `ClaimHeld`
  (whoever is on its way, in a queue, at a worker or in `stop`'s hands, holds the claim).

The assumption `SchedulerAssumption` types the constants and makes the sets finite.

**Run worker.** Four kinds of thread write the same records and any store access may
be refused, so the invariant relates program counters to records:
- `Placed`, `Fresh`: a thread that works on a call has one, and a call the worker has not
  come to has left no trace; so an answer to an old request cannot meet a new one;
- `Current`: the record of the current call follows from where the worker is, and every
  other call has ended;
- `Answers`: only a parking worker leaves a request pending, so whoever resolves the gate
  resolves it with a decision, and `DecisionsKept` says that decisions are not replaced.
  With it `ObservationTrue` is inductive;
- `Consent`: a call that was asked about and is past `resume` is granted, hence
  `ConsentFirst`;
- `Covered`: a step without an ending is the current one or a planned one, which is what
  lets `DrainSteps` end them all; `Endings`, `Recorded`: what each stage of `record_fault`
  has gone over has an ending. Together they give `EndsOnce`.

**Patch tool.** `PatchInv` says what has been replaced by where the body is
(`Progress`), what may be recorded on the strength of it (`Honest`), and what reading a
base still guarantees of that file while nobody disturbs it, the temporary file beside it
included (`StillSound`, `CheckHolds`): the files not yet read are not spoken of.

**Event delivery.** Three lists of a receiver make up one initial segment of the log:
what it has returned, its page with what it has yet to replay, and its queue.
- `Replayed`: the returned events, the page and the unread rest are the log up to the tip
  the receiver took under the mutex; `Queued`: the queue goes on there, entry by entry,
  and only a lag cuts it, which also closes it. An open receiver that has joined holds
  everything up to the delivery's cursor;
- `Mutex`: nothing is published between the tip and the joining, so the cursor is not
  past that tip when the queue starts;
- `Ending` and `Closing`: the end is recorded once, published before the delivery is
  closed unless a read of the log failed, and a receiver that is closed without a lag
  holds everything up to it, whoever closed it: the delivery, or a subscription to a
  run that was over. Hence `EndSeen`.

Each operation on a receiver (`Push`, a page read, a failed read, an entry returned) has
a lemma of its own; `AsideKeeps` covers the steps of threads that touch no receiver. The
assumption only adds that receivers are not named like the other holders of the mutex.

**Policy gate.** What a call was judged by changes under it: files are edited, trust is
withdrawn, the engine is loaded again. So `Gated` speaks of the policies in force for
the run, and says of each call (`CallKept`) that
- an open call is the newest one of its run, so an evaluation and an answer both meet the
  call they are about (`NewestChanges`, `ProposedKept`);
- a call that was asked about or ran is one that no layer denies (`Cleared`): `MaxOf` and
  `LayerFolds` show that one denying rule is enough however the layers are combined,
  `JudgedSoundly` what a verdict short of it means, and `RiskOf` that an input never
  lowers the risk of its tool;
- an answer that grants runs its call, and a call that ran without one of its own was
  opened by an earlier answer for its tool (`Opened`, `GrantsOpen`), which risks that must
  be asked about each time never are.

A restart interrupts what is open and drops the engine (`RestartKept`). For the row of
trust, `Decided` says that it holds one of the decisions that were written, and
`PutKeeps` and `RevokeKeeps` that a late write never replaces a newer one. The assumption
only adds that every rule of a policy file is a verdict, which its decoder enforces.

**Trust in integrations.** Every use asks one row, the latest by recorded time and then by
rowid (`LatestIs`, `LatestLoads`). The invariant relates that row to the user's last
decision:
- `Stored`: a row holds a record that its own wire form does not lose (`WireIsStored`,
  `DecodedIs`), hence `RowsLoad`;
- `Dated`: a latest row exists, and while the clock runs forward it is the last one
  written; so a new grant is the one looked at (`InsertKeeps`). `UpdateKeeps` shows that
  taking a record out of force, affirming or withdrawing it leaves it the latest, which is
  why a refusal stands even after the clock stepped back;
- `Obeyed`: after a withdrawal that row is revoked, after forgetting there is none, and
  after a grant its basis and reach are those the user was shown, out of force or not.

`Checked`, `CompatibleIsNotOlder` and `ValidIsShown` turn a check that finds nothing into
"what is observed is what was shown". The assumption adds that an observation has exactly
the facts listed, and that a version that can be ordered is a triple of numbers.

**Run records.** The validator is not inductive as it stands: it asks for two revisions
per approval of a run that has approvals, and an approval added by one change only keeps
to that if the wait before it was counted. `WaitsCounted` says so: a waiting run has two
revisions more than its approvals account for. `Consented` is `ConsentRecorded` of one
record. The proof goes through three levels:
- the domain: `Edges` lists what each edge of the state machines rules out,
  `LifecycleKept` shows that times, state and revision of a record that took an edge are
  accepted, whatever the clock showed; `ApprovalsStay` and `ApprovalsGrow` that the
  history stays in order, dated and ended by a denial at most (`NoDenialYet`);
- `ExecutionKept`, `CallKept` and `AllowKept`: whatever a run or step, or a call, moves on
  to is readable and remembers (`Remembers` is `HistoryKept` of two records). Calls move
  on in seven ways, from `Stops` to `Denies`; `ExecutionOutcome`, `PlainCalls`,
  `DecidedCalls`, `StartedCalls` and `JudgedCalls` show that the methods of the domain
  allow nothing else;
- the store: `ColumnsWritten`, `ExecutionStored` and `CallStored` show that the columns a
  statement names are all that a change touches, so that the row becomes what the domain
  made of the record, stamped with the current schema for a call.

`FreshKept` covers the rows that earlier builds inserted. The assumption only says that
instants are natural numbers and that no version is the empty text.

**Connections.** `HealthyKept` needs to know where everything is that the peer might still
answer. `Trip` follows one request, and then its answer, through the outbound queue, the
writer's hands, the two pipes, the peer and the inbound queue: it is in one of these
places at most, once, and while it is in any its slot waits or was given up; a request
that is still being offered is in none. So an answer that reaches the pump meets one of
the two slots it expects (`HeadExpected`), and routing it brings the trip to an end
(`RoutesKept`). `CallsPlaced` says that no slot is evicted: ids are given out in order,
each caller has one of its own, and as many ids are retired as callers are finished.
`MovesOn` and `LeavesOff` are the two things a caller does otherwise; `EasySteps` puts
them together. The theorem assumes `Few`: no more requests than ids that are remembered
(`RETAINED_REQUEST_IDS`, 1024 in the code). Beyond it the code lets an answer that comes
after more than a thousand later endings read as out of step, and says so.

**Child processes.** `ChildInv` accounts for each stream on its own. `Counted`: what the
leader wrote is what its reader counted and what is still in the pipe, which is why
`AppendUnread` and `TailUnread` count the leader's chunks of a pipe at both its ends,
whatever helpers write between them. A reader may stop before the end of the file,
because a process that left the group can hold the pipe for ever; `Within` says why
nothing of the leader's is lost by it: readers are stopped only when the leader is ended,
and what it left in the pipe is within the reads that remain (the assumption
`ReadsAfterStop > PipeSize`, `reads_after_stop` being 64). So a reader that is done has
read all of it (`ReadOut`). `Stays` follows an artifact to where it is kept or deleted,
`Bare` the leader and its group to where a supervisor returns. `QuietStream` and
`TakenStream` are the two things a step can do to a stream; `ProcessCalm` is what every
step does that starts no process.

**Agent registry.** Several callers read without the lock and act on it later. `Locking`
says that a call is between two of its writes only while it holds the lock, and what the
stores hold there: nothing while a removal has yet to take the registration, a
registration while a trust or a revocation has yet to switch it. With it
`NothingLeftBehind` is inductive, whichever of the writes fails. `Gated` follows a launch
or a health check: past each gate, what that gate read was so at some moment of the call,
and the digest that was hashed is the one of the grant that was read. `RevokedIsFinal` and
`SignInKept` are read off the steps: only a removal shortens the records, the last one is
restated only while it is trusted or invalidated, and a check never records "required"
over "authenticated". The assumption names the caller and the command that stand for
nobody and nothing. `NoneStuck`, of the same model, is about `ENABLED` and stays with TLC.

**Store writes.** A power loss takes the database back to any commit since the last
checkpoint, so what is said of the database must hold in each of the databases that may
survive: `StoreInv` asks of all of them that the log tells their rows (`TrueDatabase`) and
that their artifacts were sealed by calls that are over (`ArtifactsStand`). `CallsTold`
follows each call before that: which files it has sealed, each whole and synced
(`SealedWhole`), which one it is staging and how far (`Staged`), and that a call which is
over without a commit has no file left (`Owned`), unless it was cut short by a crash or a
removal got stuck. Files that were synced and renamed survive (`Survives`, `Torn`), so a
row never outlives its bytes. For the log, a commit only adds rows (`Grown`, `NewRows`):
either they leave the moves and the answer alone, or they add exactly the one that the
change of the record is (`MovesOther` and its companions). The greatest of the earlier
positions, which says what state the log last told, exists because the naturals are well
founded. The assumption only says that the four bounds are natural numbers.

**Index cache.** `Hand` says what a process has in its hands at each step between
reading the file and using it, and says it twice over. `Calm` is what it may rely on
while nobody else touched the file since its call began: what it read is still what the
path names (`ReadyIsReal` at the end of it). The rest holds whatever the others do, for
one of two reasons. Where several processes work, the clock moves on at every reading, so
a generation about to be stored is new (`Dated`, `Apart`), no two files carry the same one
(`Stamped`), and a handle that is on another file than the one named reports another
generation (`OneFile`). Where one process works, the clock may answer anything, so a
replacement is floored above what that process remembers: `Solitary` relates its floor,
its generation and the named file, and `Recalled` says that the newest generation is on
record there until a file is lost with it. `Sweeping` follows the exclusive lock.
`TurnKeeps` covers the steps that only look and decide, `HandlesKeep` those that change
what the path names, `WritingKeeps` those that store a generation, and `OutsideKeeps` the
sweep and what happens to the file from outside. The assumption names what no process is
called, and says that the bounds are natural numbers. What the module promises,
`LockedIsSpared`, does not hold (see the findings); `NamedLockSpares` is what does.

**Changes view.** A token is minted once (`TokensMinted`) and a row keeps it only with its
snapshot (`Replaced`), so a prompt that was opened on a row is either still about what it
showed or about a token nobody holds any more (`PromptKept`); what the confirmation hands
to the worker then carries the snapshot that was shown (`WriteTrue`). From its first look
at the file to its act, `Discards` follows what the worker met: it is what is there, and
from the comparison on it is the snapshot, until an edit of that file ends the claim
(`Edit_step`); `ReviewOfPaths` says that a review names files of the project. The
assumption only adds that the paths are finite, because tokens are numbered.

**Run pages.** For the bridge, `Numbers` and `Newest` say that an operation is known by its
number and that what was issued last is what the newest operation of its kind will settle
to, or is already shown (`AnswersHeld`), however operations overtake each other. A second
decision cannot be accepted, because the first one answered the request for good
(`OneTaken`); and once the page has the outcome, the newest read of the run is one that
began after it (`ReadAfter`), since settling it dispatches that read. `DispatchKeeps`,
`WorkKeeps` and `SettleKeeps` are the three things that can happen to a bridge;
`WorksHonestly` goes through the workers. For the list, `Follows` says that a page to be
appended begins right below the rows that are there, unless it is out of date, and that
what a read returned has no hole and ends at the cursor it gives (`PageOfRuns`). For the
queue, `Lists` says that the newest listing holds no request that already left, and leaves
out only answered ones.

**Panels.** Handlers call each other, so the invariant is about a record and not about a
step: `JobsInv` says what holds of a record whichever handler is in the middle of
building it, and `Keeps` what every piece of a handler does to it; pieces compose
(`KeepsOn`, and `TurnsOn` where another project is opened). Under it
- a status read and a write of one project are never in flight together (`Apart`),
  because both are registered under the domain of the project (`Registered`,
  `NotSkipped`), whatever the catalog knew when they were; so a status read has seen
  all that the shell was told (`SeenEnough`), and a write that lands meets none
  (`LandingKeeps`);
- a reload of the catalog that will still be shown has seen all that has landed
  (`CatalogFresh`), because a write that lands retires those in flight (`SyncIs`);
- a spinner has its reply (`Spins`): whoever retires a class clears its panel or starts
  the load again (`SettledKeeps`, `StartedKeeps`). One case needs more. A change of project
  leaves the checks panel as it is when its load is refused, and the only thing that can
  refuse it is a load of the same project, whose reply is not retired (`SpinsKnown`,
  `ChecksSpin`).

`Outcome` is what the delivery of each kind of reply comes to (`LoadOut`, `GitOut`,
`CheckOut`, `CatalogOut`, `WorktreeOut`, `OpenOut`). The assumption says that a worktree
has a parent that is none, that every project has a domain, and that nothing is called no
project.

What stays with TLC. `NoneStuck`, and liveness under fairness (`TicketsSettle`, `WorkerGoesOn`,
`SweepEnds`, `StreamSettles`, `AllReturn`, `Converges`) is beyond this prover.
The safety properties of the remaining modules are only model-checked so far; section
6 says which come next.

## 5. Not modelled

Migrations, redaction, listings, logging, discovery of agents, inventory, symbols,
chunking and search, history and diff rendering, the agent client protocol's messages,
the placeholder crates, argument parsing, layout. `PROJECT.json` gives the reason for
each. Within the modelled parts: timestamps and identifiers as data; progress reports
of a body; expiry of an approval request, which no thread performs while a run waits;
the trailing `publish` of each store write, which matters to the worker only through
its failure (`StoreFault`).

## 6. Plan

Theorems to prove next, in order of importance:

1. `ProjectCatalog`: what a crash between two steps leaves behind.
2. `ContextIndex`: what the index calls current is current.
3. `ModelTurn`: a turn answers what its sink saw of it.

Models to add: a composition of two runs that share a worktree, and the symlinked
roots of the catalog.
