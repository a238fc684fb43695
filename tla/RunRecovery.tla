----------------------------- MODULE RunRecovery -----------------------------
(***************************************************************************)
(* Claims on runs and the recovery of abandoned ones: coordinator/lease.rs,*)
(* coordinator/recovery.rs, store/lease.rs, store/recovery.rs and the      *)
(* parts of coordinator/mod.rs that open, start, retry and shut down.      *)
(*                                                                         *)
(* Several processes share one data directory.  A coordinator takes an     *)
(* advisory lock on a lease file of its own, sweeps the store for runs     *)
(* whose owner is provably gone, and then drives runs of its own.  A lease *)
(* identity is never reused, so a lease is named by its process.           *)
(*                                                                         *)
(* Steps, tool calls and approvals of a run are its children: recovery     *)
(* reads and marks all three in the same way.  The non-terminal states of  *)
(* a run are one, "open"; "failed" stands for failed and cancelled.        *)
(***************************************************************************)
EXTENDS Naturals, FiniteSets

CONSTANTS
    Proc,          \* processes, and the leases of their coordinators
    Run, Child,
    ChildOf,       \* the run a child belongs to
    Legacy,        \* unfinished runs recorded before runs named a lease
    NoProc, NoRun,
    MayFailProbe,  \* a lease file may fail to open or to answer try_lock
    MayFailStore   \* a transaction of a sweep or of shutdown may fail

ASSUME RecoveryAssumption ==
    /\ ChildOf \in [Child -> Run]
    /\ Legacy \subseteq Run
    /\ NoProc \notin Proc /\ NoRun \notin Run
    /\ {MayFailProbe, MayFailStore} \subseteq BOOLEAN

VARIABLES
    ppc,        \* where each process is
    file,       \* its lease file: absent, free or locked
    young,      \* the lease files younger than LEASE_EXPIRY_GRACE
    row,        \* its runtime_leases row: none, live or released
    rowStale,   \* the rows whose renewed_at is older than the grace
    recStale,   \* the in-memory records whose renewed_at is older than it
    recLock,    \* who holds runtime-recovery.lock
    run,        \* the state of each run's row
    owner,      \* the lease a run's row names
    retryOf,    \* the attempt a run follows
    modified,   \* runs recorded workspace_may_be_modified
    child,      \* the state of each step, call or approval
    wrote,      \* runs with a started call that could write
    driving,    \* runs a worker thread is driving
    overran,    \* runs that were still driven when SHUTDOWN_DEADLINE passed
    pending,    \* the retry a process has checked and not yet recorded
    todo,       \* unfinished runs a sweep has still to look at
    seen,       \* what a sweep found out about each lease it examined
    plan,       \* the interruption a sweep has described and not yet applied
    failures    \* RecoveryReport::failures of each process's sweep

storeVars == <<row, rowStale, run, owner, retryOf, modified, child, wrote>>
fileVars == <<file, young, recLock>>
procVars == <<ppc, recStale, driving, overran, pending>>
sweepVars == <<todo, seen, plan, failures>>
vars == <<storeVars, fileVars, procVars, sweepVars>>

RunTerminal == {"succeeded", "failed", "interrupted"}

\* The process exists; its worker threads run.
Alive(p) == ppc[p] \in {"opening", "sweeping", "up", "stopping", "unclaimed", "down"}

\* The coordinator claims its runs: from the lock on its file to the release
\* of its row.
Claiming(p) == ppc[p] \in {"opening", "sweeping", "up", "stopping"}

Driven(r) == r \in driving /\ owner[r] \in Proc

NoPending == [of |-> NoRun, flag |-> FALSE]
NoPlan == [of |-> NoRun, marks |-> {}]
Unseen == [reason |-> "unseen", free |-> FALSE]

OpenChildren(r) == {c \in Child : ChildOf[c] = r /\ child[c] = "open"}

-----------------------------------------------------------------------------
\* RunCoordinator::open, up to the sweep

\* RuntimeLease::acquire: a fresh file, locked.  Creating and locking take far
\* less than the grace that protects a young file from collect_dead_files, so
\* nothing can happen to the file between the two.
OpenLease(p) ==
    /\ ppc[p] = "off"
    /\ ppc' = [ppc EXCEPT ![p] = "opening"]
    /\ file' = [file EXCEPT ![p] = "locked"]
    /\ young' = young \cup {p}
    /\ UNCHANGED <<recLock, recStale, overran, driving, pending, storeVars, sweepVars>>

\* RecoveryLock::acquire, then one read of the unfinished runs.
BeginSweep(p) ==
    /\ ppc[p] = "opening"
    /\ recLock = NoProc
    /\ recLock' = p
    /\ todo' = [todo EXCEPT ![p] = {r \in Run : run[r] = "open"}]
    /\ ppc' = [ppc EXCEPT ![p] = "sweeping"]
    /\ UNCHANGED <<file, young, recStale, overran, driving, pending, storeVars, seen, plan, failures>>

\* Ten seconds of contention: the process starts without sweeping.
GiveUpSweep(p) ==
    /\ ppc[p] = "opening"
    /\ recLock # NoProc
    /\ ppc' = [ppc EXCEPT ![p] = "up"]
    /\ UNCHANGED <<recStale, overran, driving, pending, fileVars, storeVars, sweepVars>>

-----------------------------------------------------------------------------
\* recovery::sweep

\* lease::probe
Liveness(o) ==
    {IF file[o] = "locked" THEN "held" ELSE "released"}
        \cup (IF MayFailProbe THEN {"unknown"} ELSE {})

\* lease::interruption_reason, "keep" where the code answers None
Reason(o, liveness) ==
    IF row[o] = "none" THEN "no_lease"
    ELSE IF row[o] = "released" THEN "lease_released"
    ELSE IF liveness = "held" THEN "keep"
    ELSE IF liveness = "released" THEN "lease_lock_released"
    ELSE IF o \in rowStale THEN "lease_expired" ELSE "keep"

\* The first run of a lease: its row is read and its file probed, once.
Examine(p, o) ==
    /\ ppc[p] = "sweeping"
    /\ plan[p].of = NoRun
    /\ o # p
    /\ seen[p][o] = Unseen
    /\ \E r \in todo[p] : owner[r] = o
    /\ \E liveness \in Liveness(o) :
         seen' = [seen EXCEPT ![p][o] = [reason |-> Reason(o, liveness),
                                         free |-> liveness = "released"]]
    /\ UNCHANGED <<procVars, fileVars, storeVars, todo, plan, failures>>

\* Faulty: a run without an owner is left alone.
VerdictSparingOrphans(p, r) ==
    IF owner[r] = NoProc THEN "keep" ELSE seen[p][owner[r]].reason

\* What the sweep does with a run: a run without an owner has no lease.
Verdict(p, r) == IF owner[r] = NoProc THEN "no_lease" ELSE seen[p][owner[r]].reason

\* A run of this process's own lease, or of a lease that is kept.
SkipRun(p, r) ==
    /\ ppc[p] = "sweeping"
    /\ plan[p].of = NoRun
    /\ r \in todo[p]
    /\ owner[r] = p \/ Verdict(p, r) = "keep"
    /\ todo' = [todo EXCEPT ![p] = @ \ {r}]
    /\ UNCHANGED <<procVars, fileVars, storeVars, seen, plan, failures>>

\* The row of its lease cannot be read: the run is reported and left.
ExamineFails(p, r) ==
    /\ MayFailStore
    /\ ppc[p] = "sweeping"
    /\ plan[p].of = NoRun
    /\ r \in todo[p]
    /\ owner[r] # p /\ Verdict(p, r) = "unseen"
    /\ todo' = [todo EXCEPT ![p] = @ \ {r}]
    /\ failures' = [failures EXCEPT ![p] = @ \cup {r}]
    /\ UNCHANGED <<procVars, fileVars, storeVars, seen, plan>>

\* Faulty: only the run is planned for.
PlanInterruptRunOnly(p, r) ==
    /\ ppc[p] = "sweeping"
    /\ plan[p].of = NoRun
    /\ r \in todo[p]
    /\ owner[r] # p
    /\ Verdict(p, r) \notin {"unseen", "keep"}
    /\ todo' = [todo EXCEPT ![p] = @ \ {r}]
    /\ plan' = [plan EXCEPT ![p] = IF run[r] \in RunTerminal THEN NoPlan
                                   ELSE [of |-> r, marks |-> {}]]
    /\ UNCHANGED <<procVars, fileVars, storeVars, seen, failures>>

\* store::recovery::interrupt, before its transaction: the run is read, and
\* the children that are open are planned for.
PlanInterrupt(p, r) ==
    /\ ppc[p] = "sweeping"
    /\ plan[p].of = NoRun
    /\ r \in todo[p]
    /\ owner[r] # p
    /\ Verdict(p, r) \notin {"unseen", "keep"}
    /\ todo' = [todo EXCEPT ![p] = @ \ {r}]
    /\ plan' = [plan EXCEPT ![p] = IF run[r] \in RunTerminal THEN NoPlan
                                   ELSE [of |-> r, marks |-> OpenChildren(r)]]
    /\ UNCHANGED <<procVars, fileVars, storeVars, seen, failures>>

Released(o) == [row EXCEPT ![o] = IF @ = "live" THEN "released" ELSE @]

\* Faulty: every child of the run is marked, ended or not.
ApplyInterruptToAll(p) ==
    /\ ppc[p] = "sweeping"
    /\ plan[p].of # NoRun
    /\ LET r == plan[p].of IN
         IF run[r] \in RunTerminal
           THEN UNCHANGED <<run, child, row>>
           ELSE /\ run' = [run EXCEPT ![r] = "interrupted"]
                /\ child' = [c \in Child |-> IF ChildOf[c] = r THEN "interrupted" ELSE child[c]]
                /\ row' = IF owner[r] = NoProc THEN row ELSE Released(owner[r])
    /\ plan' = [plan EXCEPT ![p] = NoPlan]
    /\ UNCHANGED <<rowStale, owner, retryOf, modified, wrote, procVars, fileVars, todo, seen,
                   failures>>

\* store::recovery::apply, one transaction: the run is read again, planned
\* children that are still open are marked, the run is marked, and the dead
\* owner's row is written off.
ApplyInterrupt(p) ==
    /\ ppc[p] = "sweeping"
    /\ plan[p].of # NoRun
    /\ LET r == plan[p].of IN
         IF run[r] \in RunTerminal
           THEN UNCHANGED <<run, child, row>>
           ELSE /\ run' = [run EXCEPT ![r] = "interrupted"]
                /\ child' = [c \in Child |-> IF c \in plan[p].marks /\ child[c] = "open"
                                               THEN "interrupted" ELSE child[c]]
                /\ row' = IF owner[r] = NoProc THEN row ELSE Released(owner[r])
    /\ plan' = [plan EXCEPT ![p] = NoPlan]
    /\ UNCHANGED <<rowStale, owner, retryOf, modified, wrote, procVars, fileVars, todo, seen,
                   failures>>

\* The transaction fails: the failure is reported, the run stays for a later
\* sweep.
InterruptFails(p) ==
    /\ MayFailStore
    /\ ppc[p] = "sweeping"
    /\ plan[p].of # NoRun
    /\ plan' = [plan EXCEPT ![p] = NoPlan]
    /\ failures' = [failures EXCEPT ![p] = @ \cup {plan[p].of}]
    /\ UNCHANGED <<procVars, fileVars, storeVars, todo, seen>>

\* The files a finished sweep removes: the leases it found free, and through
\* collect_dead_files every file that is neither young nor locked.
Discarded(p) ==
    {o \in Proc : \/ seen[p][o].free
                  \/ file[o] = "free" /\ o \notin young}

EndSweep(p) ==
    /\ ppc[p] = "sweeping"
    /\ todo[p] = {} /\ plan[p].of = NoRun
    /\ \/ row' = [o \in Proc |-> IF seen[p][o].free /\ row[o] = "live" THEN "released" ELSE row[o]]
       \/ MayFailStore /\ row' = row
    /\ file' = [o \in Proc |-> IF o \in Discarded(p) THEN "absent" ELSE file[o]]
    /\ recLock' = NoProc
    /\ seen' = [seen EXCEPT ![p] = [o \in Proc |-> Unseen]]
    /\ ppc' = [ppc EXCEPT ![p] = "up"]
    /\ UNCHANGED <<young, rowStale, run, owner, retryOf, modified, child, wrote,
                   recStale, overran, driving, pending, todo, plan, failures>>

-----------------------------------------------------------------------------
\* start_run and retry_run

\* Faulty: a run is recorded without the row of its lease.
EnsureRowLater(p) == UNCHANGED <<row, rowStale>>

\* lease::ensure: the row is written with the first run, and carries the
\* renewed_at of the record made when the lease was taken.
EnsureRow(p) ==
    /\ row' = [row EXCEPT ![p] = IF @ = "none" THEN "live" ELSE @]
    /\ rowStale' = IF row[p] = "none" /\ p \in recStale THEN rowStale \cup {p} ELSE rowStale

\* One transaction records the run and its owner; the worker is registered
\* before the claim lock that excludes shutdown is let go.
InsertRun(p, r) ==
    /\ ppc[p] = "up"
    /\ run[r] = "absent"
    /\ EnsureRow(p)
    /\ run' = [run EXCEPT ![r] = "open"]
    /\ owner' = [owner EXCEPT ![r] = p]
    /\ driving' = driving \cup {r}

StartRun(p, r) ==
    /\ InsertRun(p, r)
    /\ UNCHANGED <<retryOf, modified, child, wrote, ppc, recStale, overran, pending,
                   fileVars, sweepVars>>

\* Faulty: only the inherited warning is passed on.
RetryCheckInherited(p, o) ==
    /\ ppc[p] = "up"
    /\ pending[p].of = NoRun
    /\ run[o] \in RunTerminal \ {"succeeded"}
    /\ \A r \in Run : retryOf[r] = o => run[r] \in RunTerminal
    /\ pending' = [pending EXCEPT ![p] = [of |-> o, flag |-> o \in modified]]
    /\ UNCHANGED <<ppc, recStale, overran, driving, storeVars, fileVars, sweepVars>>

\* retry_run_inner reads: the original has ended without success and no
\* attempt that follows it is open.
RetryCheck(p, o) ==
    /\ ppc[p] = "up"
    /\ pending[p].of = NoRun
    /\ run[o] \in RunTerminal \ {"succeeded"}
    /\ \A r \in Run : retryOf[r] = o => run[r] \in RunTerminal
    /\ pending' = [pending EXCEPT ![p] =
                     [of |-> o, flag |-> o \in modified \/ o \in wrote]]
    /\ UNCHANGED <<ppc, recStale, overran, driving, storeVars, fileVars, sweepVars>>

RetryRun(p, r) ==
    /\ pending[p].of # NoRun
    /\ InsertRun(p, r)
    /\ retryOf' = [retryOf EXCEPT ![r] = pending[p].of]
    /\ modified' = IF pending[p].flag THEN modified \cup {r} ELSE modified
    /\ pending' = [pending EXCEPT ![p] = NoPending]
    /\ UNCHANGED <<child, wrote, ppc, recStale, overran, fileVars, sweepVars>>

-----------------------------------------------------------------------------
\* The worker of a run, seen from the store

\* insert_step, insert_tool_call, open_approval: none of them asks whether
\* the run is still open.
AddChild(c) ==
    /\ Driven(ChildOf[c])
    /\ child[c] = "absent"
    /\ child' = [child EXCEPT ![c] = "open"]
    /\ UNCHANGED <<row, rowStale, run, owner, retryOf, modified, wrote, procVars,
                   fileVars, sweepVars>>

\* A call that could write is dispatched: started_at is recorded.
StartWrite(c) ==
    /\ Driven(ChildOf[c])
    /\ child[c] = "open"
    /\ wrote' = wrote \cup {ChildOf[c]}
    /\ UNCHANGED <<row, rowStale, run, owner, retryOf, modified, child, procVars,
                   fileVars, sweepVars>>

\* A child reaches a terminal state by its own worker's hand.
CloseChild(c) ==
    /\ Driven(ChildOf[c])
    /\ child[c] = "open"
    /\ child' = [child EXCEPT ![c] = "closed"]
    /\ UNCHANGED <<row, rowStale, run, owner, retryOf, modified, wrote, procVars,
                   fileVars, sweepVars>>

\* The last thing a worker records, after its children.  A run that a sweep
\* has ended meanwhile refuses the transition and stays as it is.
FinishRun(r, s) ==
    /\ Driven(r)
    /\ OpenChildren(r) = {}
    /\ s \in {"succeeded", "failed"}
    /\ run' = [run EXCEPT ![r] = IF @ = "open" THEN s ELSE @]
    /\ driving' = driving \ {r}
    /\ UNCHANGED <<row, rowStale, owner, retryOf, modified, child, wrote, ppc,
                   recStale, overran, pending, fileVars, sweepVars>>

\* record_fault is best effort: if its writes fail too, the worker is gone
\* and the run stays open under a live claim.
LoseWorker(r) ==
    /\ Driven(r)
    /\ driving' = driving \ {r}
    /\ UNCHANGED <<ppc, recStale, overran, pending, storeVars, fileVars, sweepVars>>

-----------------------------------------------------------------------------
\* Shutdown, death and time

BeginShutdown(p) ==
    /\ ppc[p] = "up"
    /\ ppc' = [ppc EXCEPT ![p] = "stopping"]
    /\ pending' = [pending EXCEPT ![p] = NoPending]
    /\ UNCHANGED <<recStale, overran, driving, storeVars, fileVars, sweepVars>>

\* Faulty: the claim is given up without waiting for the workers.
ReleaseRowAtOnce(p) ==
    /\ ppc[p] = "stopping"
    /\ row' = Released(p)
    /\ ppc' = [ppc EXCEPT ![p] = "unclaimed"]
    /\ UNCHANGED <<rowStale, run, owner, retryOf, modified, child, wrote, recStale, overran,
                   driving, pending, fileVars, sweepVars>>

\* Thirty seconds are over and some of the cancelled runs are still driven.
DeadlinePasses(p) ==
    /\ ppc[p] = "stopping"
    /\ \E r \in driving \ overran : owner[r] = p
    /\ overran' = overran \cup {r \in driving : owner[r] = p}
    /\ UNCHANGED <<ppc, recStale, driving, pending, storeVars, fileVars, sweepVars>>

\* No active run, or the deadline: the row is released first, if the store
\* lets it ...
ReleaseRow(p) ==
    /\ ppc[p] = "stopping"
    /\ \A r \in driving : owner[r] = p => r \in overran
    /\ row' = Released(p) \/ (MayFailStore /\ row' = row)
    /\ ppc' = [ppc EXCEPT ![p] = "unclaimed"]
    /\ UNCHANGED <<rowStale, run, owner, retryOf, modified, child, wrote, recStale, overran,
                   driving, pending, fileVars, sweepVars>>

\* ... and then the file is unlocked and removed.
ReleaseFile(p) ==
    /\ ppc[p] = "unclaimed"
    /\ file' = [file EXCEPT ![p] = "absent"]
    /\ ppc' = [ppc EXCEPT ![p] = "down"]
    /\ UNCHANGED <<young, recLock, recStale, overran, driving, pending, storeVars, sweepVars>>

\* The process dies, by crash or by exit: the kernel gives its locks back,
\* its threads stop where they are and the files stay.
Die(p) ==
    /\ Alive(p)
    /\ ppc' = [ppc EXCEPT ![p] = "dead"]
    /\ file' = [file EXCEPT ![p] = IF @ = "locked" THEN "free" ELSE @]
    /\ recLock' = IF recLock = p THEN NoProc ELSE recLock
    /\ driving' = {r \in driving : owner[r] # p}
    /\ pending' = [pending EXCEPT ![p] = NoPending]
    /\ todo' = [todo EXCEPT ![p] = {}]
    /\ seen' = [seen EXCEPT ![p] = [o \in Proc |-> Unseen]]
    /\ plan' = [plan EXCEPT ![p] = NoPlan]
    /\ UNCHANGED <<young, recStale, overran, storeVars, failures>>

\* The housekeeping thread renews a live row.
Renew(p) ==
    /\ ppc[p] = "up"
    /\ row[p] = "live" /\ p \in rowStale
    /\ rowStale' = rowStale \ {p}
    /\ UNCHANGED <<row, run, owner, retryOf, modified, child, wrote, procVars,
                   fileVars, sweepVars>>

\* LEASE_EXPIRY_GRACE passes.  Housekeeping renews the row of a running
\* coordinator several times meanwhile, and shutdown, which ends housekeeping,
\* is over within the grace; every other row, every in-memory record and every
\* file is past the grace afterwards.  `open` reads the clock once, before its
\* sweep, so the grace does not pass for it between that and the last probe.
Ages ==
    /\ \A p \in Proc : ppc[p] \notin {"opening", "sweeping"}
    /\ young' = {}
    /\ recStale' = {p \in Proc : ppc[p] # "off"}
    /\ rowStale' = {p \in Proc : /\ row[p] # "none" /\ ppc[p] # "up"
                                 /\ ppc[p] = "stopping" => p \in rowStale}
    /\ <<young, recStale, rowStale>>' # <<young, recStale, rowStale>>
    /\ UNCHANGED <<row, run, owner, retryOf, modified, child, wrote, ppc, driving,
                   overran, pending, file, recLock, sweepVars>>

-----------------------------------------------------------------------------

Init ==
    /\ ppc = [p \in Proc |-> "off"]
    /\ file = [p \in Proc |-> "absent"]
    /\ young = {} /\ recStale = {} /\ rowStale = {}
    /\ row = [p \in Proc |-> "none"]
    /\ recLock = NoProc
    /\ run = [r \in Run |-> IF r \in Legacy THEN "open" ELSE "absent"]
    /\ owner = [r \in Run |-> NoProc]
    /\ retryOf = [r \in Run |-> NoRun]
    /\ modified = {} /\ wrote \in SUBSET Legacy /\ driving = {} /\ overran = {}
    /\ child = [c \in Child |-> IF ChildOf[c] \in Legacy THEN "open" ELSE "absent"]
    /\ pending = [p \in Proc |-> NoPending]
    /\ todo = [p \in Proc |-> {}]
    /\ seen = [p \in Proc |-> [o \in Proc |-> Unseen]]
    /\ plan = [p \in Proc |-> NoPlan]
    /\ failures = [p \in Proc |-> {}]

Sweep(p) ==
    \/ BeginSweep(p) \/ GiveUpSweep(p) \/ ApplyInterrupt(p) \/ InterruptFails(p) \/ EndSweep(p)
    \/ \E o \in Proc : Examine(p, o)
    \/ \E r \in Run : SkipRun(p, r) \/ ExamineFails(p, r) \/ PlanInterrupt(p, r)

Next ==
    \/ \E p \in Proc : \/ OpenLease(p) \/ Sweep(p)
                       \/ BeginShutdown(p) \/ DeadlinePasses(p) \/ ReleaseRow(p) \/ ReleaseFile(p)
                       \/ Die(p) \/ Renew(p)
    \/ \E p \in Proc, r \in Run : StartRun(p, r) \/ RetryCheck(p, r) \/ RetryRun(p, r)
    \/ \E c \in Child : AddChild(c) \/ StartWrite(c) \/ CloseChild(c)
    \/ \E r \in Run : LoseWorker(r) \/ \E s \in {"succeeded", "failed"} : FinishRun(r, s)
    \/ Ages

Spec == Init /\ [][Next]_vars

\* A process that is opening goes on opening until it dies.
FairSpec == Spec /\ \A p \in Proc : WF_vars(Sweep(p))

-----------------------------------------------------------------------------
\* Properties

ProcState == {"off", "opening", "sweeping", "up", "stopping", "unclaimed", "down", "dead"}
Reasons == {"unseen", "keep", "no_lease", "lease_released", "lease_lock_released",
            "lease_expired"}

\* The type of every variable of the data directory and its processes.
TypeOK ==
    /\ ppc \in [Proc -> ProcState]
    /\ file \in [Proc -> {"absent", "free", "locked"}]
    /\ row \in [Proc -> {"none", "live", "released"}]
    /\ young \subseteq Proc /\ rowStale \subseteq Proc /\ recStale \subseteq Proc
    /\ recLock \in Proc \cup {NoProc}
    /\ run \in [Run -> {"absent", "open"} \cup RunTerminal]
    /\ owner \in [Run -> Proc \cup {NoProc}]
    /\ retryOf \in [Run -> Run \cup {NoRun}]
    /\ modified \subseteq Run /\ wrote \subseteq Run /\ driving \subseteq Run /\ overran \subseteq Run
    /\ child \in [Child -> {"absent", "open", "closed", "interrupted"}]
    /\ pending \in [Proc -> [of : Run \cup {NoRun}, flag : BOOLEAN]]
    /\ todo \in [Proc -> SUBSET Run]
    /\ seen \in [Proc -> [Proc -> [reason : Reasons, free : BOOLEAN]]]
    /\ plan \in [Proc -> [of : Run \cup {NoRun}, marks : SUBSET Child]]
    /\ failures \in [Proc -> SUBSET Run]

\* Recovery "never fails toward claiming a live process's runs": no run is
\* ended as interrupted while the coordinator that owns it still claims it,
\* whatever the other processes were doing when it took or gave up its lease.
LiveClaimKept ==
    \A r \in Run : (run[r] = "interrupted" /\ owner[r] \in Proc) => ~Claiming(owner[r])

\* A run that reads `interrupted` has been abandoned: no worker thread is still
\* driving it, unless its own process shut down, waited SHUTDOWN_DEADLINE for
\* that very worker and gave up the claim all the same.  (Then it reads
\* interrupted, and may be retried, beside a worker that is still at it.)
InterruptedIsAbandoned ==
    \A r \in Run : (run[r] = "interrupted" /\ r \in driving) => r \in overran

\* A run that has ended, and that no worker is busy with, has no step, call or
\* approval left open: nothing would ever end it, because a sweep only looks
\* under unfinished runs.  Only a worker that outlived the deadline may open
\* one too late, in a run that a sweep has ended.
ChildrenEnd ==
    \A r \in Run :
        (run[r] \in RunTerminal /\ r \notin driving) => OpenChildren(r) = {} \/ r \in overran

\* The warning of retry_run is cumulative: an attempt is recorded as possibly
\* starting from a modified workspace whenever the attempt it follows was, or
\* had started a call that could write, also after the retry was asked for.
\* Nothing warns of the calls of a worker that outlived the deadline.
WarningCarried ==
    \A r, o \in Run :
        (retryOf[r] = o /\ (o \in modified \/ (o \in wrote /\ o \notin overran))) => r \in modified

\* Recovery only ever adds the ending a record lacks: a run, step, call or
\* approval that has ended keeps the ending it has, even when its worker and a
\* sweep race to write one.
EndingsFinal ==
    [][/\ \A r \in Run : run[r] \in RunTerminal => run'[r] = run[r]
       /\ \A c \in Child : child[c] \in {"closed", "interrupted"} => child'[c] = child[c]]_vars

\* Nobody claims the run.
Abandoned(r) == run[r] = "open" /\ (owner[r] = NoProc \/ ppc[owner[r]] = "dead")

\* A sweep that has an abandoned run before it ends that run or reports that it
\* could not, unless the sweeping process dies too: no run is passed over in
\* silence.
SweepEnds ==
    \A p \in Proc, r \in Run :
        (/\ ppc[p] = "sweeping" /\ r \in todo[p] /\ Abandoned(r)
         /\ owner[r] # NoProc => seen[p][owner[r]] = Unseen)
        ~> (run[r] \in RunTerminal \/ r \in failures[p] \/ ppc[p] = "dead")

=============================================================================
