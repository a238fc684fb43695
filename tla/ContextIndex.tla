--------------------------- MODULE ContextIndex ---------------------------
(***************************************************************************)
(* The derived index of one checkout: the filesystem watch that decides    *)
(* what to look at (harkness-context watch.rs), the pass that compares the *)
(* worktree with the stored rows (reconcile.rs, engine.rs) and the batch   *)
(* that publishes the difference (index/store.rs).                         *)
(*                                                                         *)
(* The watch is the process "watch"; a second caller of the same cache     *)
(* ("other": a command line, or another thread of the program) may run a   *)
(* reconcile, a cold build or forget_worktree meanwhile.  A file is a      *)
(* content and a stamp (size and modification time together, a fresh one   *)
(* for every write unless two writes fall in one tick of the filesystem).  *)
(* One directory, Dir, holds the files of InDir; the others are at the     *)
(* root.  Every file is eligible text; a walk never runs out of budget;    *)
(* the chunking and grammar versions do not change.                        *)
(***************************************************************************)
EXTENDS Naturals, Sequences, FiniteSets, FiniteSetsExt

CONSTANTS
  File, InDir, Dir,       \* the paths of the checkout
  Content, Branch,        \* what a file may hold, what HEAD may name
  Before,                 \* which of those are there when the watch starts
  Absent, NoRow, NoVer,   \* no file, no index row, a row with no derivation
  Capacity,               \* WATCH_QUEUE_CAPACITY
  MaxPassRetries,         \* MAX_PASS_RETRIES
  MaxEdits, MaxShared,    \* bounds: filesystem changes, alone and in company
  MaxFaults, MaxCalls     \* bounds: refusals and crashes, calls of the other

ASSUME FilesAssumption == InDir \subseteq File /\ Dir \notin File
ASSUME BoundsAssumption == /\ Capacity \in Nat /\ MaxPassRetries \in Nat
                           /\ MaxEdits \in Nat /\ MaxShared \in Nat /\ MaxFaults \in Nat
                           /\ MaxCalls \in Nat
ASSUME MarkersAssumption == /\ Absent \notin Content /\ NoVer \notin Content
                            /\ "none" \notin Branch

VARIABLES
  disk,      \* File -> Absent or [c, m]: the worktree
  head,      \* the branch HEAD names
  edits,     \* changes made so far; also the clock the stamps are read from
  events,    \* backend events not delivered yet, in order
  dirty,     \* the DirtySet
  arrived,   \* last_arrival is set
  fails,     \* consecutive_failures
  missed,    \* a drained scope was dropped and no whole pass came since
  rows,      \* File -> NoRow or [v, m, bad]: the visible rows
  mark,      \* the worktrees row: [known, next, last, head]
  staged,    \* pending_files, rows of batches that have not committed
  versions,  \* file_versions: the derivations stored, <<file, content>>
  pass,      \* each process's pass in progress
  faults,    \* refusals and crashes so far
  calls,     \* calls of the other process so far
  world      \* what may go wrong in this behaviour: see Worlds

tree    == <<disk, head, edits>>
queue   == <<dirty, arrived, fails, missed>>
store   == <<rows, mark, staged, versions>>
ixVars  == <<disk, head, edits, events, dirty, arrived, fails, missed, rows,
             mark, staged, versions, pass, faults, calls, world>>

\* "faults": the watch alone, refused, crashed, its events lost, under a clock
\* that tells every write from the last.  "ticks": two writes may share a tick
\* of the filesystem's clock, and nothing else goes wrong.  "company": the
\* other process is at work, and the cache refuses only what they contend for.
Worlds  == {"faults", "ticks", "company"}
Process == {"watch", "other"}
Full    == [kind |-> "full", set |-> {}]
Idle    == [at |-> "idle", asked |-> Full, scope |-> Full, head |-> "none", distrust |-> FALSE,
            cold |-> FALSE, inv |-> <<>>, seen |-> <<>>, todo |-> {},
            gen |-> 0, buffer |-> {}, displaced |-> {}, requeued |-> {}]

---------------------------------------------------------------------------
\* The dirty set.

Beneath(x)     == IF x = Dir THEN InDir \cup {Dir} ELSE {x}
Everything     == [paths |-> {}, subs |-> {}, all |-> TRUE]
EmptyDirty     == [paths |-> {}, subs |-> {}, all |-> FALSE]
covered(d, x)  == \E s \in d.subs : x \in Beneath(s)

\* A set past its bound narrows to the one directory that holds all of it.
bound(d) ==
  IF Cardinality(d.paths) + Cardinality(d.subs) <= Capacity THEN d
  ELSE IF d.paths \cup d.subs \subseteq Beneath(Dir)
       THEN [EmptyDirty EXCEPT !.subs = {Dir}]
       ELSE Everything

insert_path(d, x) ==
  IF d.all \/ covered(d, x) THEN d
  ELSE bound([d EXCEPT !.paths = @ \cup {x}])

insert_subtree(d, x) ==
  IF d.all \/ covered(d, x) THEN d
  ELSE bound([d EXCEPT !.paths = @ \ Beneath(x),
                       !.subs = (@ \ Beneath(x)) \cup {x}])

IsEmpty(d) == ~d.all /\ d.paths = {} /\ d.subs = {}

\* The scope a drained set becomes.  Entries that another one contains are
\* dropped from a path list, so they are covered without being named.
take(d) ==
  IF d.all THEN Full
  ELSE IF d.paths = {} /\ Cardinality(d.subs) = 1
       THEN [kind |-> "subtree", set |-> d.subs]
       ELSE LET all == d.paths \cup d.subs
            IN  [kind |-> "paths",
                 set |-> {x \in all : ~\E y \in all : y # x /\ x \in Beneath(y)}]

covers(scope) ==
  IF scope.kind = "full" THEN File
  ELSE File \cap UNION {Beneath(x) : x \in scope.set}

names_exactly(scope, f) == scope.kind = "paths" /\ f \in scope.set

\* What puts a scope back on the queue: everything, one subtree, or paths.
Reoffered(d, scope) ==
  CASE scope.kind = "full"    -> Everything
    [] scope.kind = "subtree" -> insert_subtree(d, CHOOSE x \in scope.set : TRUE)
    [] OTHER                  -> FoldSet(LAMBDA x, acc : insert_path(acc, x), d, scope.set)

---------------------------------------------------------------------------
\* The worktree, and the backend that reports what happens in it.

ixInit ==
  /\ disk \in [File -> {Absent} \cup [c : Content \cap Before, m : {0}]]
  /\ head \in Branch \cap Before
  /\ edits = 0 /\ events = <<>>
  /\ dirty = EmptyDirty /\ arrived = FALSE /\ fails = 0 /\ missed = FALSE
  /\ rows = [f \in File |-> NoRow]
  /\ mark = [known |-> FALSE, next |-> 0, last |-> 0, head |-> "none"]
  /\ staged = {} /\ versions = {}
  /\ pass = [p \in Process |-> IF p = "watch" THEN [Idle EXCEPT !.at = "head"]
                               ELSE Idle]
  /\ faults = 0 /\ calls = 0
  /\ world \in Worlds

Watching == pass["watch"].at # "down"

\* A change happened: the backend queues an event while the watch is up.
Reports(e) == events' = IF Watching THEN Append(events, e) ELSE events

Changes ==
  /\ edits < (IF world = "company" THEN MaxShared ELSE MaxEdits)
  /\ edits' = edits + 1
  /\ UNCHANGED <<queue, store, pass, faults, calls, world>>

\* A file is written.  Two writes inside one tick leave the stamp as it was;
\* only a hint that names the file can tell, so those not drained yet stay
\* within what the queue can carry.
Write(f, c, sameTick) ==
  /\ Changes
  /\ sameTick => world = "ticks"
  /\ world = "ticks" =>
       Cardinality(dirty.paths \cup {f} \cup {events[i].f : i \in DOMAIN events}) <= Capacity
  /\ IF disk[f] = Absent
     THEN ~sameTick /\ disk' = [disk EXCEPT ![f] = [c |-> c, m |-> edits + 1]]
     ELSE disk' = [disk EXCEPT ![f].c = c,
                               ![f].m = IF sameTick THEN @ ELSE edits + 1]
  /\ Reports([class |-> "modified", f |-> f])
  /\ UNCHANGED head

Remove(f) ==
  /\ Changes /\ world # "ticks"
  /\ disk[f] # Absent
  /\ disk' = [disk EXCEPT ![f] = Absent]
  /\ Reports([class |-> "removed", f |-> f])
  /\ UNCHANGED head

\* Another branch is checked out, or the checkout is re-created at its path;
\* the sizes and the modification times may come out as they were.  A linked
\* worktree's HEAD is outside the watched tree: only its files are heard of.
\* No branch comes back with other bytes under the metadata it had.
Checkout(b, c, f, heard) ==
  /\ Changes /\ world # "ticks"
  /\ b # head /\ b \notin Before
  /\ disk[f] # Absent
  /\ head' = b
  /\ disk' = [disk EXCEPT ![f].c = c]
  /\ Reports([class |-> heard, f |-> f])

\* Faulty: a hint lands without arming the window.
OfferSilently(d) == dirty' = d /\ UNCHANGED arrived

\* offer: every hint re-arms the quiescence window.
Offer(d) == dirty' = d /\ arrived' = TRUE

OneMoreFault == world = "faults" /\ faults < MaxFaults /\ faults' = faults + 1

\* What one event is worth, asked of the file as it is when it is delivered.
hint(d, e) ==
  CASE e.class \in {"rescan", "head"} -> Everything
    [] e.class = "removed" \/ disk[e.f] = Absent -> insert_subtree(d, e.f)
    [] OTHER -> insert_path(d, e.f)

Deliver ==
  /\ Watching /\ events # <<>>
  /\ Offer(hint(dirty, Head(events)))
  /\ events' = Tail(events)
  /\ UNCHANGED <<tree, fails, missed, store, pass, faults, calls, world>>

\* The backend's own queue overflows: what it held is lost, and it says so.
LoseEvents ==
  /\ Watching /\ Len(events) > 1
  /\ OneMoreFault
  /\ events' = <<[class |-> "rescan", f |-> Head(events).f]>>
  /\ UNCHANGED <<tree, queue, store, pass, calls, world>>

---------------------------------------------------------------------------
\* One pass: engine.reconcile, or a cold build, of process p.

At(p, step)     == pass[p].at = step
Goes(p, record) == pass' = [pass EXCEPT ![p] = record]

\* How a pass of p ends: the watch looks at the outcome, a caller just leaves.
Ends(p, outcome) ==
  Goes(p, IF p = "other" THEN Idle
          ELSE [Idle EXCEPT !.at = outcome, !.asked = pass[p].asked,
                            !.scope = pass[p].scope, !.requeued = pass[p].requeued])

\* A cold build reads the committed base between its walk and its batch.
head_marker(p) ==
  /\ At(p, "head") /\ pass[p].cold
  /\ Goes(p, [pass[p] EXCEPT !.at = "begin", !.head = head])
  /\ UNCHANGED <<tree, events, queue, store, faults, calls, world>>

\* Faulty: the recorded base is not compared.
BaseTrusted == FALSE

\* A recorded base that differs makes every row a suspect; it, or a checkout
\* nothing was published for, widens the pass to the whole worktree.
head_changed == mark.head # "none" /\ mark.head # head

\* The reconcile reads the base first, then what is stored about it.
Compare(p) ==
  /\ At(p, "head") /\ ~pass[p].cold
  /\ Goes(p, [pass[p] EXCEPT
       !.at = "walk",
       !.head = head,
       !.distrust = head_changed,
       !.scope = IF head_changed \/ mark.last = 0 THEN Full ELSE @])
  /\ UNCHANGED <<tree, events, queue, store, faults, calls, world>>

\* The inventory of the scope, as the walk met it.
build_scoped(p) ==
  /\ At(p, "walk")
  /\ Goes(p, [pass[p] EXCEPT !.at = IF pass[p].cold THEN "head" ELSE "begin",
                             !.inv = [f \in covers(pass[p].scope) |-> disk[f]],
                             !.todo = covers(pass[p].scope)])
  /\ UNCHANGED <<tree, events, queue, store, faults, calls, world>>

\* Staged rows a new batch may throw away: those no commit can publish.
Dead(s) == {r \in s : r.g <= mark.last}

begin(p) ==
  /\ At(p, "begin")
  /\ mark' = [mark EXCEPT !.known = TRUE, !.next = @ + 1]
  /\ staged' = staged \ Dead(staged)
  /\ Goes(p, [pass[p] EXCEPT
       !.at = IF pass[p].cold THEN "apply" ELSE "rows",
       !.gen = mark.next + 1,
       !.displaced = {<<r.f, r.v>> : r \in {s \in Dead(staged) : s.v # NoVer}}])
  /\ UNCHANGED <<tree, events, queue, rows, versions, faults, calls, world>>

\* The merge reads the rows of its scope (one page).
ReadRows(p) ==
  /\ At(p, "rows")
  /\ Goes(p, [pass[p] EXCEPT !.at = "apply", !.seen = rows])
  /\ UNCHANGED <<tree, events, queue, store, faults, calls, world>>

row_is_current(row, entry) ==
  row # NoRow /\ row.v # NoVer /\ ~row.bad /\ row.m = entry.m

derivation_survives(row, c) == row # NoRow /\ row.v = c /\ ~row.bad

Row(p, f, op, v, m, bad) ==
  {[g |-> pass[p].gen, f |-> f, op |-> op, v |-> v, m |-> m, bad |-> bad]}

\* What one path becomes: staged rows, and whether it is owed another pass.
\* The stat after the read decides whether the bytes are what was walked.
apply(p, f) ==
  LET entry   == pass[p].inv[f]
      row     == pass[p].seen[f]
      hinted  == pass[p].distrust \/ names_exactly(pass[p].scope, f)
      Nothing == [rows |-> {}, again |-> {}]
      Stages(r) == [rows |-> r, again |-> {}]
  IN  CASE entry = Absent ->
             IF row = NoRow THEN Nothing
             ELSE Stages(Row(p, f, "gone", NoVer, 0, FALSE))
        [] entry # Absent /\ ~hinted /\ row_is_current(row, entry) -> Nothing
        [] OTHER ->
             CASE disk[f] = Absent ->
                    Stages(Row(p, f, "keep", NoVer, entry.m, TRUE))
               [] disk[f] # Absent /\ disk[f].m # entry.m ->
                    [rows |-> {}, again |-> {f}]
               [] OTHER ->
                    IF ~derivation_survives(row, disk[f].c)
                    THEN Stages(Row(p, f, "read", disk[f].c, entry.m, FALSE))
                    ELSE IF row.m = entry.m THEN Nothing
                    ELSE Stages(Row(p, f, "keep", NoVer, entry.m, FALSE))

\* A cold build reads every path it walked, whatever the metadata says now.
derive(p, f) ==
  LET entry == pass[p].inv[f]
  IN  [rows |-> IF entry = Absent THEN {}
                ELSE IF disk[f] = Absent
                THEN Row(p, f, "keep", NoVer, entry.m, TRUE)
                ELSE Row(p, f, "read", disk[f].c, entry.m, FALSE),
       again |-> {}]

\* The merge takes the paths one after another, in one fixed order.
Examine(p) ==
  LET f    == CHOOSE x \in pass[p].todo : TRUE
      made == IF pass[p].cold THEN derive(p, f) ELSE apply(p, f)
  IN  /\ At(p, "apply") /\ pass[p].todo # {}
      /\ Goes(p, [pass[p] EXCEPT !.todo = @ \ {f},
                                 !.buffer = @ \cup made.rows,
                                 !.requeued = @ \cup made.again])
      /\ UNCHANGED <<tree, events, queue, store, faults, calls, world>>

\* The buffer, never full here, is written where no query can see it.  A
\* foreign key needs the worktree's own row.
flush(p) ==
  /\ At(p, "apply") /\ pass[p].todo = {} /\ pass[p].buffer # {}
  /\ mark.known
  /\ staged' = staged \cup pass[p].buffer
  /\ versions' = versions \cup {<<r.f, r.v>> : r \in {b \in pass[p].buffer : b.op = "read"}}
  /\ Goes(p, [pass[p] EXCEPT !.buffer = {}])
  /\ UNCHANGED <<tree, events, queue, rows, mark, faults, calls, world>>

\* The staged rows of this batch become the visible ones.  A row that keeps
\* its derivation only refreshes the metadata beside it.
Applied(mine) ==
  [f \in File |->
    LET r == {s \in mine : s.f = f}
    IN  IF r = {} THEN rows[f]
        ELSE LET s == CHOOSE x \in r : TRUE
             IN  CASE s.op = "gone" -> NoRow
                   [] s.op = "read" -> [v |-> s.v, m |-> s.m, bad |-> FALSE]
                   [] OTHER -> [v |-> IF rows[f] = NoRow THEN NoVer ELSE rows[f].v,
                                m |-> s.m, bad |-> s.bad]]

\* A cold build sweeps every row it did not confirm.
Swept(new, mine) ==
  [f \in File |-> IF f \in {s.f : s \in mine} THEN new[f] ELSE NoRow]

\* Derivations some visible or staged row still points at.
Held(new, left) == {<<f, new[f].v>> : f \in {g \in File : new[g] # NoRow}}
                     \cup {<<r.f, r.v>> : r \in left}

\* A targeted batch collects what it displaced, a cold build everything free.
Collected(p, mine, new, left) ==
  LET mayGo == IF pass[p].cold THEN versions
               ELSE pass[p].displaced
                      \cup {<<s.f, rows[s.f].v>> :
                             s \in {r \in mine : r.op # "keep" /\ rows[r.f] # NoRow}}
                      \cup {<<r.f, r.v>> : r \in {s \in staged : s.g < pass[p].gen}}
  IN  versions \ (mayGo \ Held(new, left))

\* One transaction: the watermark moves forward only, and everything staged
\* up to it is published or thrown away with it.
Supersedes(p) == mark.known /\ mark.last < pass[p].gen

commit(p) ==
  LET g    == pass[p].gen
      mine == {s \in staged : s.g = g}
      left == {s \in staged : s.g > g}
      new  == IF pass[p].cold THEN Swept(Applied(mine), mine) ELSE Applied(mine)
  IN  /\ At(p, "apply") /\ pass[p].todo = {} /\ pass[p].buffer = {}
      /\ Supersedes(p)
      /\ mark' = [mark EXCEPT !.last = g,
                              !.head = IF pass[p].scope = Full THEN pass[p].head ELSE @]
      /\ rows' = new
      /\ staged' = left
      /\ versions' = Collected(p, mine, new, left)
      /\ Ends(p, "committed")
      /\ UNCHANGED <<tree, events, queue, faults, calls, world>>

\* index_batch_superseded: somebody published this worktree, or forgot it.
Superseded(p) ==
  /\ At(p, "apply") /\ pass[p].todo = {} /\ pass[p].buffer = {}
  /\ ~Supersedes(p)
  /\ Ends(p, "retry")
  /\ UNCHANGED <<tree, events, queue, store, faults, calls, world>>

\* A flush under a worktree that was forgotten breaks the foreign key, which
\* is not one of the failures worth retrying.
Orphaned(p) ==
  /\ At(p, "apply") /\ pass[p].todo = {} /\ pass[p].buffer # {} /\ ~mark.known
  /\ Ends(p, "failed")
  /\ UNCHANGED <<tree, events, queue, store, faults, calls, world>>

\* A write meets the lock held past the busy timeout ("retry"), or a cache at
\* its budget ("failed").
Refused(p, outcome) ==
  /\ At(p, "begin") \/ (At(p, "apply") /\ pass[p].todo = {})
  /\ OneMoreFault
  /\ Ends(p, outcome)
  /\ UNCHANGED <<tree, events, queue, store, calls, world>>

---------------------------------------------------------------------------
\* The watch's worker.

\* A quiet window has passed: the set is drained, and the window disarmed.
wait_for_scope ==
  /\ At("watch", "idle") /\ arrived
  /\ arrived' = FALSE
  /\ dirty' = EmptyDirty
  /\ IF IsEmpty(dirty) THEN UNCHANGED pass
     ELSE Goes("watch", [Idle EXCEPT !.at = "head", !.asked = take(dirty),
                                     !.scope = take(dirty)])
  /\ UNCHANGED <<tree, events, fails, missed, store, faults, calls, world>>

\* The pass published: what kept moving is offered back.
PassOk ==
  /\ At("watch", "committed")
  /\ LET again == pass["watch"].requeued
     IN  IF again = {} THEN UNCHANGED <<dirty, arrived>>
         ELSE Offer(FoldSet(LAMBDA x, acc : insert_path(acc, x), dirty, again))
  /\ fails' = 0
  /\ missed' = (missed /\ pass["watch"].scope # Full)
  /\ Goes("watch", Idle)
  /\ UNCHANGED <<tree, events, store, faults, calls, world>>

\* The cache refused the pass: its scope goes back on the queue, a bounded
\* number of times in a row.
PassRetried ==
  /\ At("watch", "retry")
  /\ fails' = fails + 1
  /\ IF fails < MaxPassRetries
     THEN Offer(Reoffered(dirty, pass["watch"].asked)) /\ UNCHANGED missed
     ELSE missed' = TRUE /\ UNCHANGED <<dirty, arrived>>
  /\ Goes("watch", Idle)
  /\ UNCHANGED <<tree, events, store, faults, calls, world>>

\* Any other failure drops the scope.
PassDropped ==
  /\ At("watch", "failed")
  /\ missed' = TRUE
  /\ Goes("watch", Idle)
  /\ UNCHANGED <<tree, events, dirty, arrived, fails, store, faults, calls, world>>

\* The watch's process ends in the middle of anything, or is stopped; a batch
\* it had not committed stays staged.
Crash ==
  /\ Watching
  /\ OneMoreFault
  /\ Goes("watch", [Idle EXCEPT !.at = "down"])
  /\ events' = <<>>
  /\ dirty' = EmptyDirty /\ arrived' = FALSE /\ fails' = 0 /\ missed' = FALSE
  /\ UNCHANGED <<tree, store, calls, world>>

\* start: the backend is established, then the worker sweeps everything.
start ==
  /\ At("watch", "down")
  /\ Goes("watch", [Idle EXCEPT !.at = "head"])
  /\ UNCHANGED <<tree, events, queue, store, faults, calls, world>>

\* The other process calls reconcile over everything, or builds from cold.
Call(cold) ==
  /\ world = "company" /\ At("other", "idle")
  /\ calls < MaxCalls /\ calls' = calls + 1
  /\ Goes("other", [Idle EXCEPT !.at = IF cold THEN "walk" ELSE "head", !.cold = cold])
  /\ UNCHANGED <<tree, events, queue, store, faults, world>>

\* Or throws away everything stored for the checkout.
forget_worktree ==
  /\ world = "company" /\ At("other", "idle")
  /\ calls < MaxCalls /\ calls' = calls + 1
  /\ rows' = [f \in File |-> NoRow]
  /\ staged' = {} /\ versions' = {}
  /\ mark' = [known |-> FALSE, next |-> 0, last |-> 0, head |-> "none"]
  /\ UNCHANGED <<tree, events, queue, pass, faults, world>>

Step(p) ==
  \/ head_marker(p) \/ Compare(p) \/ build_scoped(p) \/ begin(p) \/ ReadRows(p)
  \/ Examine(p) \/ flush(p) \/ commit(p) \/ Superseded(p) \/ Orphaned(p)

Worker == wait_for_scope \/ PassOk \/ PassRetried \/ PassDropped \/ start

ixNext ==
  \/ \E f \in File, c \in Content, t \in BOOLEAN : Write(f, c, t)
  \/ \E f \in File : Remove(f)
  \/ \E b \in Branch, f \in File, c \in Content, h \in {"head", "modified"} :
        Checkout(b, c, f, h)
  \/ Deliver \/ LoseEvents
  \/ \E p \in Process : Step(p) \/ \E o \in {"retry", "failed"} : Refused(p, o)
  \/ Worker \/ Crash
  \/ \E cold \in BOOLEAN : Call(cold)
  \/ forget_worktree

\* The worker is a thread that runs, the backend delivers what it holds.
ixFairness == /\ WF_ixVars(Step("watch")) /\ WF_ixVars(Worker) /\ WF_ixVars(Deliver)

ixSpec == ixInit /\ [][ixNext]_ixVars /\ ixFairness

---------------------------------------------------------------------------
Accurate ==
  \A f \in File :
    IF disk[f] = Absent THEN rows[f] = NoRow
    ELSE rows[f] # NoRow /\ rows[f].v = disk[f].c /\ ~rows[f].bad

Quiet == At("watch", "idle") /\ IsEmpty(dirty) /\ events = <<>>

\* A watch with nothing queued, nothing undelivered and no pass running, which
\* dropped no scope, has an index that says what the worktree holds: whatever
\* was written while a pass walked or read, whatever tick two writes shared,
\* whatever branch was checked out over the same metadata, and however a pass
\* was refused, crashed or left staged rows behind (watch.rs run, pass,
\* wait_for_scope; reconcile.rs apply, read).
Settled == world # "company" /\ Quiet /\ ~missed => Accurate

\* Every derivation a visible or a staged row names is stored: no batch, cold
\* build or removal of another process collects what a batch still holds
\* (store.rs collect_all, collect_displaced, begin, commit).
VersionsHeld ==
  \A x \in Held(rows, {r \in staged : r.op = "read"}) : x[2] # NoVer => x \in versions

\* What the index says is so, and what it points at is there (watch.rs,
\* reconcile.rs, index/store.rs: Settled and VersionsHeld above).
IndexTrue == Settled /\ VersionsHeld

\* Changes stop and the index catches up: the queue always drains, refusals
\* are retried with their scope and the window armed, and what is left is
\* accurate unless a scope was dropped or another process wrote as well.
Converges == <>[](Quiet /\ (world = "company" \/ missed \/ Accurate))

===========================================================================
