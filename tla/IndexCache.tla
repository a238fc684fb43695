---------------------------- MODULE IndexCache ----------------------------
(***************************************************************************)
(* The disposable index cache of one repository: the file index.db, the    *)
(* handle every process keeps on it, and the advisory lock that keeps an   *)
(* eviction sweep away (harkness-context index/mod.rs and index/budget.rs).*)
(*                                                                         *)
(* Two front ends share the file.  Each reads it without writing, decides, *)
(* and only then opens it for writing, creates it, or sets it aside and    *)
(* replaces it; between two of those steps the other may do the same, an   *)
(* eviction sweep may run, and a process may die.  A file is an inode with *)
(* the metadata row it holds: a handle stays on its inode when the file is *)
(* renamed or removed, and opening a path nothing is at makes a new blank  *)
(* file there, as SQLite does.  A generation is read from the clock, which *)
(* either moves on at every reading or, where one process works alone, may *)
(* answer anything; the eviction sweeps run beside that one process.  The  *)
(* rows are left out (see ContextIndex), as are the time stamp that orders *)
(* an eviction and the names of quarantined files.                         *)
(***************************************************************************)
EXTENDS Integers, Sequences, FiniteSets

CONSTANTS
  FrontEnd,            \* the processes
  MaxInodes, MaxLocks, MaxMints, MaxTime, \* bounds
  MaxTroubles, MaxShared, \* bounds: faults, with one process and with more
  MaxSweeps, MaxCacheCalls \* bounds: eviction sweeps, calls of the processes

ASSUME CacheConstants ==
  /\ "none" \notin FrontEnd /\ {MaxInodes, MaxLocks, MaxMints, MaxTime} \subseteq Nat
  /\ {MaxTroubles, MaxShared, MaxSweeps, MaxCacheCalls} \subseteq Nat

VARIABLES
  build,    \* Front -> the versions the process was compiled with
  inodes,   \* what every file made so far holds
  named,       \* the inode index.db names, 0 for none
  lockfile, \* the inode index.lock names, 0 for none
  locks,    \* lock files made so far
  caches,   \* Front -> its IndexCache and the call it is in
  sweep,    \* the eviction sweep: the step it is at, and its lock file
  sweeps,   \* sweeps so far
  clock, generations, repeated, \* last reading, generations stored, one twice?
  forgotten,\* a generation was lost with the only record of it
  calm,     \* Front -> nobody else has touched the file since its call began
  troubles, cacheCalls, \* faults and calls so far
  alone     \* the one process that works, and the clock is wild; or "none"

shelf     == <<inodes, named>>
guardVars == <<lockfile, locks, sweep, sweeps>>
mint      == <<clock, generations, repeated>>
cacheVars == <<build, inodes, named, lockfile, locks, caches, sweep, sweeps, clock,
               generations, repeated, forgotten, calm, troubles, cacheCalls, alone>>
---------------------------------------------------------------------------
Blank == [st |-> "blank", schema |-> 0, comp |-> 0, gen |-> 0, mine |-> TRUE]
Bad   == [Blank EXCEPT !.st = "bad"]
Built(b, g) == [st |-> "built", schema |-> b.schema, comp |-> b.comp, gen |-> g, mine |-> TRUE]
Closed == [pc |-> "out", op |-> "open", conn |-> 0, ready |-> FALSE, gen |-> 0, comp |-> 0,
           found |-> 0, foundComp |-> 0, floor |-> 0, seen |-> 0, lock |-> 0, held |-> FALSE]

\* The build of one process; the others differ in what fills the rows, or in
\* the layout.
One    == CHOOSE p \in FrontEnd : TRUE
Ours   == [schema |-> 2, comp |-> 1]
Theirs == {[schema |-> 2, comp |-> 2], [schema |-> 3, comp |-> 1]}

\* The file the first process may find: of its own build, of an older or a
\* newer one, of another repository, or one that cannot be read.
Left == {Bad, Built(Ours, 2), [Built(Ours, 2) EXCEPT !.comp = 2],
         [Built(Ours, 2) EXCEPT !.schema = 1], [Built(Ours, 2) EXCEPT !.schema = 3],
         [Built(Ours, 2) EXCEPT !.mine = FALSE]}

CacheInit ==
  /\ build \in {b \in [FrontEnd -> {Ours} \cup Theirs] : \A p \in FrontEnd : b[p] = Ours <=> p = One}
  /\ \/ inodes = <<>> /\ named = 0 /\ generations = {}
     \/ \E f \in Left : inodes = <<f>> /\ named = 1 /\ generations = IF f = Bad THEN {} ELSE {2}
  /\ lockfile = 0 /\ locks = 0 /\ sweep = [pc |-> "idle", lock |-> 0] /\ sweeps = 0
  /\ caches = [p \in FrontEnd |-> Closed]
  /\ clock = 2 /\ repeated = FALSE /\ forgotten = FALSE
  /\ calm = [p \in FrontEnd |-> FALSE] /\ troubles = 0 /\ cacheCalls = 0
  /\ \/ alone = "none"
     \/ alone = One /\ build = [p \in FrontEnd |-> IF p = One THEN Ours ELSE [schema |-> 2, comp |-> 2]]

\* Only the steps of a process that works.
WorksAt(p, pc) == alone \in {"none", p} /\ caches[p].pc = pc
Goes(p, r)   == caches' = [caches EXCEPT ![p] = r]
Touches(p)   == calm' = [q \in FrontEnd |-> q = p /\ calm[q]]
Trouble      == /\ troubles < IF alone = "none" THEN MaxShared ELSE MaxTroubles
                /\ troubles' = troubles + 1

\* Connection::open: what the path names, or a new blank file put there.
Opens(i) == \/ named # 0 /\ i = named /\ UNCHANGED shelf
            \/ /\ named = 0 /\ Len(inodes) < MaxInodes /\ i = Len(inodes) + 1
               /\ inodes' = Append(inodes, Blank) /\ named' = i

Higher(a, b) == IF a >= b THEN a ELSE b

next_generation(floor, g) ==
  \E t \in 1..MaxTime :
    /\ t = clock + 1 \/ alone # "none"
    /\ clock' = t /\ g = Higher(t, floor + 1)
Stores(g) == /\ generations' = generations \cup {g} /\ repeated' = (repeated \/ g \in generations)
---------------------------------------------------------------------------
(* The advisory lock, and the call's end *)

\* open_or_create, up to the lock file.
open_or_create(p) ==
  /\ WorksAt(p, "out")
  /\ \/ lockfile # 0 /\ UNCHANGED <<lockfile, locks>>
     \/ lockfile = 0 /\ locks < MaxLocks /\ locks' = locks + 1 /\ lockfile' = locks'
  /\ Goes(p, [Closed EXCEPT !.pc = "lock", !.lock = lockfile'])
  /\ calm' = [calm EXCEPT ![p] = TRUE]
  /\ cacheCalls < MaxCacheCalls /\ cacheCalls' = cacheCalls + 1
  /\ UNCHANGED <<build, shelf, sweep, sweeps, mint, troubles, alone>>

\* The exclusive lock of a sweep is on the lock file this process opened.
Shareable(p) == ~(sweep.pc \in {"remove", "release"} /\ sweep.lock = caches[p].lock)

shared(p) ==
  /\ WorksAt(p, "lock")
  /\ Goes(p, [caches[p] EXCEPT !.pc = "probe", !.held = Shareable(p)])
  /\ UNCHANGED <<build, shelf, guardVars, mint, calm, troubles, cacheCalls, alone>>

\* The call fails: an open leaves nothing, a refresh leaves the handle it has.
FailsAs(p, r) ==
  /\ Goes(p, IF r.op = "open" THEN Closed ELSE [r EXCEPT !.pc = "open"])
  /\ calm' = [calm EXCEPT ![p] = FALSE]

mark_closed(r) == [r EXCEPT !.conn = 0, !.ready = FALSE]

\* drop: the process lets go of the cache, or dies.
drop_cache(p) ==
  /\ alone \in {"none", p} /\ caches[p].pc # "out" /\ Trouble
  /\ Goes(p, Closed) /\ calm' = [calm EXCEPT ![p] = FALSE]
  /\ UNCHANGED <<build, shelf, guardVars, mint, cacheCalls, alone>>
---------------------------------------------------------------------------
(* Reading the file, and what follows from it *)

\* refresh: the same probe, by a process that has the cache.
refresh(p) ==
  /\ WorksAt(p, "open")
  /\ Goes(p, [caches[p] EXCEPT !.pc = "probe", !.op = "refresh"])
  /\ calm' = [calm EXCEPT ![p] = TRUE]
  /\ cacheCalls < MaxCacheCalls /\ cacheCalls' = cacheCalls + 1
  /\ UNCHANGED <<build, shelf, guardVars, mint, troubles, alone>>

\* Faulty: a handle is reopened only when there is none.
ReopensWhenGone(r, g) == r.conn = 0

MustReopen(r, g) == r.conn = 0 \/ g # r.gen

Usable(p, f) ==
  LET r == [caches[p] EXCEPT !.found = f.gen, !.foundComp = f.comp]
  IN Goes(p, IF r.op = "open" THEN [r EXCEPT !.pc = "adopt"]
             ELSE IF MustReopen(r, f.gen) THEN [mark_closed(r) EXCEPT !.pc = "reopen"]
             ELSE [r EXCEPT !.pc = "settle"])

\* The generation a replacement is floored above.
Floor(r, prev) == IF r.op = "open" THEN prev ELSE Higher(r.gen, prev)

\* replace_after_fault, and the Replace arm of open_or_create.
Replaces(p, prev) ==
  LET r == caches[p]
  IN Goes(p, [(IF r.op = "open" THEN r ELSE mark_closed(r))
                EXCEPT !.pc = "quarantine", !.floor = Floor(r, prev)])

\* Once a row is readable: the layout version first, the rest afterwards.
Judge(p, f) ==
  IF f.schema > build[p].schema THEN Goes(p, IF caches[p].op = "open" THEN Closed
                                             ELSE [caches[p] EXCEPT !.pc = "open"])
  ELSE IF f.schema < build[p].schema \/ ~f.mine THEN Replaces(p, f.gen)
  ELSE Usable(p, f)

Conflict(p, f) == f.st = "built" /\ f.schema > build[p].schema

probe_existing(p) ==
  /\ WorksAt(p, "probe")
  /\ \/ /\ named = 0
        /\ IF caches[p].op = "open"
           THEN Goes(p, [caches[p] EXCEPT !.pc = "create", !.floor = 0])
           ELSE Replaces(p, 0)
     \/ /\ named # 0
        /\ CASE inodes[named].st = "built" -> Judge(p, inodes[named])
             [] inodes[named].st = "bad" -> Replaces(p, 0)
             [] OTHER -> Goes(p, [caches[p] EXCEPT !.pc = "grace", !.seen = named])
  /\ calm' = [calm EXCEPT ![p] = @ /\ ~(named # 0 /\ Conflict(p, inodes[named]))]
  /\ UNCHANGED <<build, shelf, guardVars, mint, troubles, cacheCalls, alone>>

\* await_creation: the row arrives, or the grace ends.
await_creation(p) ==
  /\ WorksAt(p, "grace")
  /\ LET f == inodes[caches[p].seen]
     IN IF f.st = "built" THEN Judge(p, f) ELSE Replaces(p, 0)
  /\ calm' = [calm EXCEPT ![p] = @ /\ ~Conflict(p, inodes[caches[p].seen])]
  /\ UNCHANGED <<build, shelf, guardVars, mint, troubles, cacheCalls, alone>>
---------------------------------------------------------------------------
(* Adopting, reopening, creating, emptying *)

\* The Usable arm of open_or_create: whatever is at the path now is opened,
\* and what was read is published.
Adopt(p) ==
  /\ WorksAt(p, "adopt")
  /\ LET r == caches[p]
     IN \E i \in 1..MaxInodes :
          /\ Opens(i)
          /\ Goes(p, [r EXCEPT !.pc = "open", !.conn = i, !.ready = TRUE,
                               !.gen = r.found, !.comp = r.foundComp])
          /\ IF i > Len(inodes) THEN Touches(p) ELSE UNCHANGED calm
  /\ UNCHANGED <<build, guardVars, mint, troubles, cacheCalls, alone>>

Reopen(p) ==
  /\ WorksAt(p, "reopen")
  /\ \E i \in 1..MaxInodes :
       /\ Opens(i) /\ Goes(p, [caches[p] EXCEPT !.pc = "settle", !.conn = i])
       /\ IF i > Len(inodes) THEN Touches(p) ELSE UNCHANGED calm
  /\ UNCHANGED <<build, guardVars, mint, troubles, cacheCalls, alone>>

\* One transaction per skewed component.
invalidate_component(p, i) ==
  inodes' = [inodes EXCEPT ![i].comp = build[p].comp]

\* The end of refresh_locked.
invalidate_components(p) ==
  /\ WorksAt(p, "settle")
  /\ LET r == caches[p]
         f == inodes[r.conn]
     IN \/ /\ r.foundComp = build[p].comp
           /\ Goes(p, [r EXCEPT !.pc = "open", !.ready = TRUE, !.gen = r.found, !.comp = r.foundComp])
           /\ UNCHANGED <<shelf, calm>>
        \/ /\ r.foundComp # build[p].comp /\ f.st = "built"
           /\ invalidate_component(p, r.conn) /\ UNCHANGED named
           /\ Goes(p, [r EXCEPT !.pc = "open", !.ready = TRUE, !.gen = f.gen,
                                !.comp = inodes'[r.conn].comp])
           /\ Touches(p)
        \/ /\ r.foundComp # build[p].comp /\ f.st # "built"
           /\ FailsAs(p, r) /\ UNCHANGED shelf
  /\ UNCHANGED <<build, guardVars, mint, troubles, cacheCalls, alone>>

quarantine(p) ==
  /\ WorksAt(p, "quarantine")
  /\ named' = 0 /\ Goes(p, [caches[p] EXCEPT !.pc = "create"])
  /\ IF named = 0 THEN UNCHANGED calm ELSE Touches(p)
  /\ UNCHANGED <<build, inodes, guardVars, mint, troubles, cacheCalls, alone>>

\* create: the generation, and the file.
create(p) ==
  /\ WorksAt(p, "create") /\ Cardinality(generations) < MaxMints
  /\ \E i \in 1..MaxInodes, g \in 1..(MaxTime + MaxMints) :
       /\ next_generation(caches[p].floor, g) /\ Opens(i)
       /\ Goes(p, [caches[p] EXCEPT !.pc = "commit", !.conn = i, !.found = g])
       /\ IF i > Len(inodes) THEN Touches(p) ELSE UNCHANGED calm
  /\ UNCHANGED <<build, guardVars, generations, repeated, troubles, cacheCalls, alone>>

\* create: the layout and the row, in one transaction that yields to a row
\* already there.
insert_meta(p) ==
  /\ WorksAt(p, "commit")
  /\ LET r == caches[p]
         f == inodes[r.conn]
         Ready(m) == Goes(p, [r EXCEPT !.pc = "open", !.ready = TRUE, !.gen = m.gen, !.comp = m.comp])
     IN \/ /\ f.st = "blank"
           /\ inodes' = [inodes EXCEPT ![r.conn] = Built(build[p], r.found)] /\ UNCHANGED named
           /\ Stores(r.found) /\ Ready(inodes'[r.conn]) /\ Touches(p)
        \/ /\ f.st = "built" /\ f.schema = build[p].schema /\ f.mine
           /\ Ready(f) /\ UNCHANGED <<shelf, generations, repeated, calm>>
        \/ /\ f.st = "bad" \/ (f.st = "built" /\ (f.schema # build[p].schema \/ ~f.mine))
           /\ FailsAs(p, mark_closed(r))
           /\ UNCHANGED <<shelf, generations, repeated>>
  /\ UNCHANGED <<build, guardVars, clock, troubles, cacheCalls, alone>>

DisposeGeneration(p, g) == next_generation(caches[p].gen, g)

dispose(p) ==
  /\ WorksAt(p, "open") /\ Cardinality(generations) < MaxMints
  /\ \E g \in 1..(MaxTime + MaxMints), i \in 1..MaxInodes :
       /\ DisposeGeneration(p, g)
       /\ IF caches[p].conn # 0
          THEN /\ i = caches[p].conn /\ inodes[i].st # "bad"
               /\ inodes' = [inodes EXCEPT ![i] = Built(build[p], g)] /\ UNCHANGED named
          ELSE \/ /\ named # 0 /\ i = named /\ inodes[i].st # "bad"
                  /\ inodes' = [inodes EXCEPT ![i] = Built(build[p], g)] /\ UNCHANGED named
               \/ /\ named = 0 /\ Len(inodes) < MaxInodes /\ i = Len(inodes) + 1
                  /\ inodes' = Append(inodes, Built(build[p], g)) /\ named' = i
       /\ Stores(g)
       /\ Goes(p, [caches[p] EXCEPT !.conn = i, !.ready = TRUE, !.gen = g, !.comp = build[p].comp])
       /\ Touches(p)
  /\ cacheCalls < MaxCacheCalls /\ cacheCalls' = cacheCalls + 1
  /\ UNCHANGED <<build, guardVars, troubles, alone>>

\* An environmental refusal at any step, or a cancelled wait: contention, a
\* descriptor that cannot be had, a rename that is refused.
Refusal(p) ==
  /\ alone \in {"none", p} /\ Trouble
  /\ caches[p].pc \in {"probe", "grace", "adopt", "reopen", "settle", "quarantine", "create", "commit"}
  /\ LET r == caches[p]
     IN FailsAs(p, IF r.pc = "commit" THEN mark_closed(r) ELSE r)
  /\ UNCHANGED <<build, shelf, guardVars, mint, cacheCalls, alone>>
---------------------------------------------------------------------------
(* The eviction sweep, and what happens to the file from outside *)

Everyone == [q \in FrontEnd |-> FALSE]

evict_to_budget ==
  /\ sweep.pc = "idle" /\ sweeps < MaxSweeps /\ alone # "none"
  /\ \/ lockfile # 0 /\ UNCHANGED <<lockfile, locks>>
     \/ lockfile = 0 /\ locks < MaxLocks /\ locks' = locks + 1 /\ lockfile' = locks'
  /\ sweep' = [pc |-> "claim", lock |-> lockfile'] /\ sweeps' = sweeps + 1
  /\ UNCHANGED <<build, shelf, caches, mint, calm, troubles, cacheCalls, alone>>

Claimable == \A p \in FrontEnd : ~(caches[p].held /\ caches[p].lock = sweep.lock)

exclusive ==
  /\ sweep.pc = "claim"
  /\ sweep' = IF Claimable THEN [sweep EXCEPT !.pc = "remove"] ELSE [pc |-> "idle", lock |-> 0]
  /\ UNCHANGED <<build, shelf, lockfile, locks, sweeps, caches, mint, calm, troubles, cacheCalls, alone>>


remove_cache ==
  /\ sweep.pc = "remove" /\ named' = 0
  /\ sweep' = [sweep EXCEPT !.pc = "release"]
  /\ calm' = IF named = 0 THEN calm ELSE Everyone
  /\ UNCHANGED <<build, inodes, lockfile, locks, sweeps, caches, mint, troubles, cacheCalls, alone>>

\* drop(guard), and only then the lock file's name.
unlock ==
  /\ sweep.pc = "release" /\ sweep' = [sweep EXCEPT !.pc = "unlink"]
  /\ UNCHANGED <<build, shelf, lockfile, locks, sweeps, caches, mint, calm, troubles, cacheCalls, alone>>

unlink_lock ==
  /\ sweep.pc = "unlink" /\ lockfile' = 0 /\ sweep' = [pc |-> "idle", lock |-> 0]
  /\ UNCHANGED <<build, shelf, locks, sweeps, caches, mint, calm, troubles, cacheCalls, alone>>

\* discard, which takes no lock: a caller is rid of a cache it cannot open.
discard ==
  /\ named # 0 /\ Trouble /\ named' = 0 /\ calm' = Everyone
  /\ UNCHANGED <<build, inodes, guardVars, caches, mint, cacheCalls, alone>>

\* The file is damaged from outside.
Damage ==
  /\ named # 0 /\ inodes[named].st = "built" /\ Trouble
  /\ inodes' = [inodes EXCEPT ![named] = Bad] /\ calm' = Everyone
  /\ UNCHANGED <<build, named, guardVars, caches, mint, cacheCalls, alone>>
---------------------------------------------------------------------------
\* The newest generation is on record: in the file, or with a process.
Remembered ==
  \A g \in generations : \/ named # 0 /\ inodes[named].st = "built" /\ inodes[named].gen >= g
                    \/ \E p \in FrontEnd : Higher(caches[p].gen, caches[p].floor) >= g

CacheStep ==
  \/ \E p \in FrontEnd : \/ open_or_create(p) \/ shared(p) \/ drop_cache(p) \/ refresh(p)
                      \/ probe_existing(p) \/ await_creation(p) \/ Adopt(p) \/ Reopen(p)
                      \/ invalidate_components(p) \/ quarantine(p) \/ create(p) \/ insert_meta(p)
                      \/ dispose(p) \/ Refusal(p)
  \/ evict_to_budget \/ exclusive \/ remove_cache \/ unlock \/ unlink_lock
  \/ discard \/ Damage

CacheNext == CacheStep /\ forgotten' = (forgotten \/ ~Remembered')

CacheSpec == CacheInit /\ [][CacheNext]_cacheVars
---------------------------------------------------------------------------
\* A cache that reports a generation has a handle, and where nobody else has
\* touched the file since its last open or refresh began, that handle is on
\* the file the path names, the generation is the one stored there, and the
\* row is of this build's layout and, after a refresh, of its components.
\* Every path that closes a handle must say so, and the refresh is the repair
\* for all of them (index/mod.rs, refresh_locked and CacheState).
ReadyIsReal ==
  \A p \in FrontEnd : LET r == caches[p] IN
    /\ r.ready => r.conn # 0
    /\ r.pc = "open" /\ r.ready /\ calm[p] =>
         /\ r.conn = named /\ inodes[named] = [Built(build[p], r.gen) EXCEPT !.comp = r.comp]
         /\ r.op = "refresh" => r.comp = build[p].comp

\* A generation names one build of the cache.  It repeats only when the clock
\* went back and the last one was lost with the file that recorded it
\* (index/mod.rs, next_generation and the note on the generation).
GenerationsNameBuilds == repeated => forgotten

\* What the module promises: a cache whose process holds the shared lock it took
\* when it opened is not removed by a sweep (index/budget.rs).
LockedIsSpared == [][remove_cache => \A p \in FrontEnd : caches[p].held => caches[p].conn # named \/ named = 0]_cacheVars

\* What the code keeps of it: the sweep spares a cache while the lock file its
\* process holds is the one the directory names.  A sweep lets go of the lock
\* before it unlinks the file, so a process that opens in between holds a lock
\* that the next sweep does not meet (index/budget.rs, remove_cache).
NamedLockSpares ==
  [][remove_cache => \A p \in FrontEnd :
       caches[p].held /\ caches[p].lock = lockfile => caches[p].conn # named \/ named = 0]_cacheVars

\* What the module says of a file a newer build wrote: it is refused and left
\* as it is.  A process that is alone neither moves nor changes one.
NewerLeftAlone ==
  [][\A p \in FrontEnd :
       alone = p /\ named # 0 /\ Conflict(p, inodes[named]) /\ caches'[p] # caches[p]
         => named' = named /\ inodes'[named] = inodes[named]]_cacheVars

\* The four together: what a process thinks it has, what a generation names and
\* what nobody may take away (index/mod.rs and index/budget.rs).
CacheKept == [](ReadyIsReal /\ GenerationsNameBuilds) /\ NamedLockSpares /\ NewerLeftAlone
===========================================================================
