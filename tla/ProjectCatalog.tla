--------------------------- MODULE ProjectCatalog ---------------------------
(***************************************************************************)
(* The project catalog of harkness-core (project.rs, catalog/mod.rs,       *)
(* catalog/lock.rs): several processes add, clone, move, protect, remove   *)
(* and reconcile projects that share one catalog file, one data directory  *)
(* and the worktree records Git keeps in each repository.                  *)
(*                                                                         *)
(* A read-modify-write of the catalog happens under its exclusive lock and *)
(* is one step here: no other lock is taken inside, and the file is        *)
(* replaced by a rename.  Everything an operation does before it takes the *)
(* repository lock, between its locks, and after Git returns is a step of  *)
(* its own, since another process can run there.  A project row is kept as *)
(* its source, the remote or parent it names, its root and whether it has  *)
(* checks of its own; the order by last use is left out.                   *)
(***************************************************************************)
EXTENDS Naturals, FiniteSets

CONSTANTS
    Proc,        \* processes using the catalog (front end, command line)
    Id,          \* identifiers ProjectId::new may yield
    HomeId,      \* the local repository already imported, and its path
    Home,
    Remote,      \* normalised remotes
    Place,       \* destinations outside the data directory
    None,
    Works,       \* the operations started in this instance
    MaxOps,      \* bound: operations started
    MaxFaults,   \* bound: crashes and failed writes
    MaxTrouble   \* bound: those, and checkouts deleted, unmounted or mounted by others

ASSUME CatalogConstants ==
    /\ MaxOps \in Nat /\ MaxFaults \in Nat /\ MaxTrouble \in Nat
    /\ HomeId \notin Id /\ Home \notin Place

VARIABLES
    catalog,     \* projects.json: identifier -> row
    dirs,        \* directories that exist
    hidden,      \* worktrees that vanished and may come back
    admin,       \* Git's worktree records, by administrative name
    held,        \* repository locks: repository path -> process
    importing,   \* managed-import locks: identifier -> process
    at,          \* where each process is in its operation
    job,         \* what it is doing and what it read
    minted,      \* identifiers already used
    left,        \* managed identifiers whose record alone was removed
    ops, faults, outside,
    lost         \* history: directories that were there when a reconciliation removed them

catVars == <<catalog, dirs, hidden, admin, held, importing, at, job, minted,
             left, ops, faults, outside, lost>>

Managed(i) == <<"repositories", i>>
Tree(i) == <<"worktrees", i>>
IsMain(path) == path = Home \/ \E i \in Id : path = Managed(i)
Row(source, of, root) == [source |-> source, of |-> of, root |-> root, checks |-> FALSE]
NoJob == [kind |-> "none"]
Fresh == IF minted = Id THEN {} ELSE {CHOOSE i \in Id : i \notin minted}

\* One local repository is in the catalog, with or without a worktree of it.
CatalogInit ==
    /\ \E w \in {{}, {CHOOSE i \in Id : TRUE}} :
          /\ catalog = [i \in {HomeId} \cup w |-> IF i = HomeId THEN Row("local", None, Home)
                                                ELSE Row("worktree", HomeId, Tree(i))]
          /\ dirs = {Home} \cup {Tree(i) : i \in w}
          /\ admin = [i \in w |-> [repo |-> Home, at |-> Tree(i), locked |-> FALSE]]
          /\ minted = w
    /\ hidden = {} /\ held = << >> /\ importing = << >>
    /\ at = [p \in Proc |-> "idle"] /\ job = [p \in Proc |-> NoJob]
    /\ left = {} /\ ops = 0 /\ faults = 0 /\ outside = 0 /\ lost = {}

MayFail == faults < MaxFaults /\ faults + outside < MaxTrouble

-----------------------------------------------------------------------------
(* Reading the catalog and the file system.                                *)

Known == DOMAIN catalog
Without(f, keys) == [k \in DOMAIN f \ keys |-> f[k]]
With(f, k, v) == [x \in DOMAIN f \cup {k} |-> IF x = k THEN v ELSE f[x]]
Children(rows, i) == {c \in DOMAIN rows : rows[c].source = "worktree" /\ rows[c].of = i}
ForRemote(r) == {i \in Known : catalog[i].source = "managed" /\ catalog[i].of = r}
Available(row) == row.root \in dirs
\* A worktree, or a root whose .git is a file, has no worktrees of its own.
validate_worktree_parent(row) ==
    row.source # "worktree" /\ (row.root \in dirs => IsMain(row.root))
refuse_parent_with_worktrees(rows, i) == Children(rows, i) # {}
\* A worktree's root may not be in the data directory or at another project.
refuse_worktree_root_location(rows, path, ignored) ==
    path \notin Place \/ \E i \in DOMAIN rows \ ignored : rows[i].root = path
validate_worktree_destination(rows, path) ==
    path \notin dirs /\ ~refuse_worktree_root_location(rows, path, {})
\* What an operation learned before the repository lock still holds.
verify_worktree_relationship(i, seen) ==
    /\ i \in Known /\ catalog[i].source = "worktree"
    /\ catalog[i].of = seen[i].of /\ catalog[i].root = seen[i].root
    /\ catalog[i].of \in Known
    /\ catalog[catalog[i].of].root = seen[seen[i].of].root
SameParent(i, seen) ==
    i \in Known /\ validate_worktree_parent(catalog[i]) /\ catalog[i].root = seen[i].root
registered_worktree(i, repo) == i \in DOMAIN admin /\ admin[i].repo = repo
ListedAt(path, repo) == {i \in DOMAIN admin : admin[i].repo = repo /\ admin[i].at = path}
Lockedat(path, repo) == \E i \in ListedAt(path, repo) : admin[i].locked

-----------------------------------------------------------------------------
(* Starting, failing and ending an operation.                              *)

Start(p, kind, j) ==
    /\ at[p] = "idle" /\ ops < MaxOps /\ kind \in Works
    /\ ops' = ops + 1
    /\ job' = [job EXCEPT ![p] = j]
GoTo(p, pc) == at' = [at EXCEPT ![p] = pc]
\* Every lock is a handle on the operation's stack: returning, failing and
\* dying all release it.
Release(p) ==
    /\ held' = Without(held, {k \in DOMAIN held : held[k] = p})
    /\ importing' = Without(importing, {i \in DOMAIN importing : importing[i] = p})
End(p) ==
    /\ GoTo(p, "idle") /\ Release(p)
    /\ job' = [job EXCEPT ![p] = NoJob]

\* The file is replaced, or the temporary file could not be, or it was and
\* the directory could not be synced: the caller sees an error in both.
persist(rows, ok) ==
    \/ ok /\ catalog' = rows /\ faults' = faults
    \/ ~ok /\ MayFail /\ faults' = faults + 1 /\ catalog' \in {catalog, rows}

\* Whoever waits for the repository gets it when nobody holds it; a path that
\* is no repository is locked by nobody, which removals and reconciliation
\* accept and the others report.
LockRepository(p) ==
    /\ at[p] = "wait"
    /\ LET repo == job[p].repo IN
       \/ /\ repo \in dirs /\ repo \notin DOMAIN held
          /\ held' = With(held, repo, p)
          /\ GoTo(p, "locked") /\ UNCHANGED <<importing, job>>
       \/ /\ repo \notin dirs /\ job[p].kind \in {"drop", "discard", "tidy"}
          /\ job' = [job EXCEPT ![p].repo = None]
          /\ GoTo(p, "locked") /\ UNCHANGED <<held, importing>>
       \/ /\ repo \notin dirs /\ job[p].kind \notin {"drop", "discard", "tidy"}
          /\ End(p)
       \/ /\ repo \in DOMAIN held /\ held[repo] # p    \* busy, or cancelled
          /\ End(p)
    /\ UNCHANGED <<catalog, dirs, hidden, admin, minted, left, ops, faults, outside, lost>>

-----------------------------------------------------------------------------
(* Operations that are one critical section.                               *)

\* Of directories outside Harkness's own data directory.
import_local(p, path) ==
    /\ at[p] = "idle" /\ ops < MaxOps /\ "local" \in Works /\ path \in dirs
    /\ ops' = ops + 1
    /\ \/ /\ \E i \in Known : catalog[i].root = path
          /\ UNCHANGED <<catalog, minted, faults>>
       \/ /\ \A i \in Known : catalog[i].root # path
          /\ \E i \in Fresh, ok \in BOOLEAN :
               /\ minted' = minted \cup {i}
               /\ persist(With(catalog, i, Row("local", None, path)), ok)
    /\ UNCHANGED <<dirs, hidden, admin, held, importing, at, job, left, outside, lost>>

configure_checks(p, i) ==
    /\ at[p] = "idle" /\ ops < MaxOps /\ "checks" \in Works /\ i \in Known
    /\ ops' = ops + 1
    /\ \E ok \in BOOLEAN, given \in BOOLEAN :
          persist([catalog EXCEPT ![i].checks = given], ok)
    /\ UNCHANGED <<dirs, hidden, admin, held, importing, at, job, minted, left, outside, lost>>

remove(p, i) ==
    /\ at[p] = "idle" /\ ops < MaxOps /\ "forget" \in Works /\ i \in Known
    /\ catalog[i].source # "worktree"
    /\ ~refuse_parent_with_worktrees(catalog, i)
    /\ ops' = ops + 1
    /\ left' = left \cup ({i} \cap Id)
    /\ \E ok \in BOOLEAN : persist(Without(catalog, {i}), ok)
    /\ UNCHANGED <<dirs, hidden, admin, held, importing, at, job, minted, outside, lost>>

-----------------------------------------------------------------------------
(* Cloning a remote into the data directory.                               *)

\* A live checkout of the remote is reopened; a dead one with worktrees
\* refuses; otherwise a fresh identifier is reserved: its import lock first,
\* then its directory.
ImportCheck(p, r) ==
    /\ \A i \in ForRemote(r) :
          ~Available(catalog[i]) /\ ~refuse_parent_with_worktrees(catalog, i)
    /\ \E i \in Fresh :
          /\ Start(p, "import", [kind |-> "import", id |-> i, remote |-> r])
          /\ minted' = minted \cup {i}
          /\ importing' = With(importing, i, p)
          /\ dirs' = dirs \cup {Managed(i)}
    /\ GoTo(p, "cloning")
    /\ UNCHANGED <<catalog, hidden, admin, held, left, faults, outside, lost>>

CloneEnds(p) ==
    /\ at[p] = "cloning"
    /\ \E pc \in {"cloned", "undo"} : GoTo(p, pc)
    /\ UNCHANGED <<catalog, dirs, hidden, admin, held, importing, job, minted, left,
                   ops, faults, outside, lost>>

\* Another import of the remote may have ended first: its live checkout wins
\* and this one is deleted.
ImportRecord(p) ==
    LET i == job[p].id
        others == ForRemote(job[p].remote)
        rows == With(Without(catalog, others), i, Row("managed", job[p].remote, Managed(i)))
    IN
    /\ at[p] = "cloned"
    /\ \/ /\ \/ \E o \in others : Available(catalog[o])
             \/ \E o \in others : refuse_parent_with_worktrees(catalog, o)
             \/ Managed(i) \notin dirs
          /\ GoTo(p, "undo") /\ UNCHANGED <<catalog, faults, held, importing, job>>
       \/ /\ \A o \in others : /\ ~Available(catalog[o])
                               /\ ~refuse_parent_with_worktrees(catalog, o)
          /\ Managed(i) \in dirs
          /\ \/ persist(rows, TRUE) /\ End(p)
             \/ /\ persist(rows, FALSE)
                /\ GoTo(p, "undo") /\ UNCHANGED <<held, importing, job>>
    /\ UNCHANGED <<dirs, hidden, admin, minted, left, ops, outside, lost>>

ImportUndo(p) ==
    /\ at[p] = "undo"
    /\ dirs' = dirs \ {Managed(job[p].id)}
    /\ End(p)
    /\ UNCHANGED <<catalog, hidden, admin, minted, left, ops, faults, outside, lost>>

-----------------------------------------------------------------------------
(* Deleting managed directories that no row names.                         *)

SweepList(p) ==
    /\ Start(p, "sweep", [kind |-> "sweep", found |-> {i \in Id : Managed(i) \in dirs}])
    /\ GoTo(p, "listed")
    /\ UNCHANGED <<catalog, dirs, hidden, admin, held, importing, minted, left, faults, outside, lost>>

SweepLock(p) ==
    /\ at[p] = "listed"
    /\ LET got == job[p].found \ DOMAIN importing IN
       /\ importing' = [i \in DOMAIN importing \cup got |->
                           IF i \in got THEN p ELSE importing[i]]
       /\ job' = [job EXCEPT ![p].found = got]
    /\ GoTo(p, "excluded")
    /\ UNCHANGED <<catalog, dirs, hidden, admin, held, minted, left, ops, faults, outside, lost>>

\* Which of the locked identifiers have no row, read under the shared lock.
Uncatalogued(found) == found \ Known

SweepRead(p) ==
    /\ at[p] = "excluded"
    /\ job' = [job EXCEPT ![p].found = Uncatalogued(@)]
    /\ GoTo(p, "deleting")
    /\ UNCHANGED <<catalog, dirs, hidden, admin, held, importing, minted, left, ops,
                   faults, outside, lost>>

SweepDelete(p) ==
    /\ at[p] = "deleting"
    /\ dirs' = dirs \ {Managed(i) : i \in job[p].found}
    /\ left' = left \ job[p].found
    /\ End(p)
    /\ UNCHANGED <<catalog, hidden, admin, minted, ops, faults, outside, lost>>

-----------------------------------------------------------------------------
(* Deleting a managed checkout.                                            *)

DropBegin(p, i) ==
    /\ i \in Known /\ catalog[i].source = "managed"
    /\ Start(p, "drop", [kind |-> "drop", id |-> i, repo |-> catalog[i].root])
    /\ GoTo(p, "wait")
    /\ UNCHANGED <<catalog, dirs, hidden, admin, held, importing, minted, left, faults, outside, lost>>

DropCommit(p) ==
    LET i == job[p].id IN
    /\ at[p] = "locked" /\ job[p].kind = "drop"
    /\ \/ /\ \/ i \notin Known
             \/ i \in Known /\ (refuse_parent_with_worktrees(catalog, i) \/ ~Available(catalog[i]))
          /\ UNCHANGED <<catalog, dirs, admin, faults>>
       \/ /\ i \in Known /\ Available(catalog[i]) /\ ~refuse_parent_with_worktrees(catalog, i)
          /\ dirs' = dirs \ {Managed(i)}
          /\ admin' = Without(admin, {w \in DOMAIN admin : admin[w].repo = Managed(i)})
          /\ \E ok \in BOOLEAN : persist(Without(catalog, {i}), ok)
    /\ End(p)
    /\ UNCHANGED <<hidden, minted, left, ops, outside, lost>>

-----------------------------------------------------------------------------
(* Creating a worktree.                                                    *)

AddBegin(p, parent) ==
    /\ parent \in Known /\ validate_worktree_parent(catalog[parent])
    /\ \E i \in Fresh :
          /\ minted' = minted \cup {i}
          /\ Start(p, "add", [kind |-> "add", id |-> i, parent |-> parent,
                              repo |-> catalog[parent].root, seen |-> catalog])
    /\ GoTo(p, "wait")
    /\ UNCHANGED <<catalog, dirs, hidden, admin, held, importing, left, faults, outside, lost>>

AddGit(p) ==
    LET i == job[p].id IN
    /\ at[p] = "locked" /\ job[p].kind = "add"
    /\ \/ /\ job[p].repo \in dirs
          /\ admin' = With(admin, i, [repo |-> job[p].repo, at |-> Tree(i), locked |-> FALSE])
          /\ dirs' = dirs \cup {Tree(i)}
          /\ GoTo(p, "added") /\ UNCHANGED <<held, importing, job>>
       \/ End(p) /\ UNCHANGED <<admin, dirs>>      \* failed or cancelled, and cleaned up
    /\ UNCHANGED <<catalog, hidden, minted, left, ops, faults, outside, lost>>

\* Faulty: the parent read before the repository lock is taken for granted.
ParentTrusted(parent, seen) == parent \in DOMAIN seen
AddParentHolds(parent, seen) == SameParent(parent, seen)

AddRecord(p) ==
    LET i == job[p].id
        rows == With(catalog, i, Row("worktree", job[p].parent, Tree(i)))
        sound == Tree(i) \in dirs /\ AddParentHolds(job[p].parent, job[p].seen)
    IN
    /\ at[p] = "added"
    /\ \/ sound /\ persist(rows, TRUE) /\ End(p)
       \/ /\ sound /\ persist(rows, FALSE)
          /\ GoTo(p, "unadd") /\ UNCHANGED <<held, importing, job>>
       \/ ~sound /\ GoTo(p, "unadd") /\ UNCHANGED <<catalog, faults, held, importing, job>>
    /\ UNCHANGED <<dirs, hidden, admin, minted, left, ops, outside, lost>>

AddUndo(p) ==
    /\ at[p] = "unadd"
    /\ dirs' = dirs \ {Tree(job[p].id)}
    /\ admin' = Without(admin, {job[p].id})
    /\ End(p)
    /\ UNCHANGED <<catalog, hidden, minted, left, ops, faults, outside, lost>>

-----------------------------------------------------------------------------
(* Operations on one worktree.                                             *)

TreeJob(kind, i, place) ==
    [kind |-> kind, id |-> i, place |-> place, parent |-> catalog[i].of,
     repo |-> catalog[catalog[i].of].root, seen |-> catalog]

\* The shared read every worktree operation starts from.
TreeBegin(p, kind, i, place) ==
    /\ i \in Known /\ catalog[i].source = "worktree"
    /\ validate_worktree_parent(catalog[catalog[i].of])
    /\ kind = "move" => /\ Available(catalog[i])
                        /\ validate_worktree_destination(catalog, place)
    /\ Start(p, kind, TreeJob(kind, i, place))
    /\ GoTo(p, "wait")
    /\ UNCHANGED <<catalog, dirs, hidden, admin, held, importing, minted, left, faults, outside, lost>>

refuse_locked_worktree(path, repo) == Lockedat(path, repo)

MoveCheck(p) ==
    LET j == job[p]  root == j.seen[j.id].root IN
    /\ at[p] = "locked" /\ j.kind = "move"
    /\ \/ /\ registered_worktree(j.id, j.repo) /\ admin[j.id].at = root
          /\ ~refuse_locked_worktree(root, j.repo)
          /\ verify_worktree_relationship(j.id, j.seen)
          /\ validate_worktree_parent(catalog[j.parent]) /\ root \in dirs
          /\ validate_worktree_destination(catalog, j.place)
          /\ GoTo(p, "moving") /\ UNCHANGED <<held, importing, job>>
       \/ End(p)
    /\ UNCHANGED <<catalog, dirs, hidden, admin, minted, left, ops, faults, outside, lost>>

MoveGit(p) ==
    LET j == job[p]  root == j.seen[j.id].root IN
    /\ at[p] = "moving"
    /\ \/ /\ root \in dirs /\ j.place \notin dirs
          /\ dirs' = (dirs \ {root}) \cup {j.place}
          /\ admin' = [admin EXCEPT ![j.id].at = j.place]
          /\ GoTo(p, "moved") /\ UNCHANGED <<held, importing, job>>
       \/ End(p) /\ UNCHANGED <<dirs, admin>>
    /\ UNCHANGED <<catalog, hidden, minted, left, ops, faults, outside, lost>>

RowsAfterMove(j) == [catalog EXCEPT ![j.id].root = j.place]

\* A failure from here on is reported as a moved worktree with a stale row.
MoveRecord(p) ==
    LET j == job[p] IN
    /\ at[p] = "moved"
    /\ IF /\ verify_worktree_relationship(j.id, j.seen)
          /\ validate_worktree_parent(catalog[j.parent]) /\ j.place \in dirs
          /\ ~refuse_worktree_root_location(catalog, j.place, {j.id})
         THEN \E ok \in BOOLEAN : persist(RowsAfterMove(j), ok)
         ELSE UNCHANGED <<catalog, faults>>
    /\ End(p)
    /\ UNCHANGED <<dirs, hidden, admin, minted, left, ops, outside, lost>>

\* Lock and unlock; relocking unlocks and locks again under the same
\* repository lock.
change_worktree_lock(p) ==
    LET j == job[p]  root == j.seen[j.id].root IN
    /\ at[p] = "locked" /\ j.kind \in {"protect", "unprotect"}
    /\ \/ /\ verify_worktree_relationship(j.id, j.seen)
          /\ registered_worktree(j.id, j.repo) /\ admin[j.id].at = root
          /\ admin' = [admin EXCEPT ![j.id].locked = (j.kind = "protect")]
       \/ UNCHANGED admin
    /\ End(p)
    /\ UNCHANGED <<catalog, dirs, hidden, minted, left, ops, faults, outside, lost>>

\* remove_worktree: with no repository the row alone is dropped; a checkout
\* that is not the one Git recorded, or is locked, or dirty, refuses.
DiscardCheck(p) ==
    LET j == job[p]  root == j.seen[j.id].root IN
    /\ at[p] = "locked" /\ j.kind = "discard"
    /\ \/ /\ \/ j.repo = None
             \/ /\ j.repo # None
                /\ IF registered_worktree(j.id, j.repo) THEN admin[j.id].at = root
                                                        ELSE root \notin dirs
                /\ ~refuse_locked_worktree(root, j.repo)
          /\ verify_worktree_relationship(j.id, j.seen)
          /\ GoTo(p, IF j.repo = None THEN "discarded" ELSE "discarding")
          /\ UNCHANGED <<held, importing, job>>
       \/ End(p)
    /\ UNCHANGED <<catalog, dirs, hidden, admin, minted, left, ops, faults, outside, lost>>

remove_registered_worktree(paths, repo) ==
    /\ dirs' = dirs \ paths
    /\ admin' = Without(admin, {i \in DOMAIN admin : admin[i].repo = repo /\ admin[i].at \in paths})

DiscardGit(p) ==
    LET j == job[p] IN
    /\ at[p] = "discarding"
    /\ \/ /\ remove_registered_worktree({j.seen[j.id].root}, j.repo)
          /\ GoTo(p, "discarded") /\ UNCHANGED <<held, importing, job>>
       \/ End(p) /\ UNCHANGED <<dirs, admin>>
    /\ UNCHANGED <<catalog, hidden, minted, left, ops, faults, outside, lost>>

DiscardRecord(p) ==
    LET j == job[p] IN
    /\ at[p] = "discarded"
    /\ IF verify_worktree_relationship(j.id, j.seen)
         THEN \E ok \in BOOLEAN : persist(Without(catalog, {j.id}), ok)
         ELSE UNCHANGED <<catalog, faults>>
    /\ End(p)
    /\ UNCHANGED <<dirs, hidden, admin, minted, left, ops, outside, lost>>

-----------------------------------------------------------------------------
(* Reconciling a parent's worktrees with what Git and the disk hold.       *)

TidyBegin(p, parent) ==
    /\ parent \in Known /\ validate_worktree_parent(catalog[parent])
    /\ Children(catalog, parent) # {}
    /\ Start(p, "tidy", [kind |-> "tidy", parent |-> parent, repo |-> catalog[parent].root,
                         seen |-> catalog, missing |-> {}, erase |-> {}, gone |-> {},
                         repair |-> {}])
    /\ GoTo(p, "read")
    /\ UNCHANGED <<catalog, dirs, hidden, admin, held, importing, minted, left, faults, outside, lost>>

\* Which catalogued checkouts exist is asked before the repository lock.
TidyInspect(p) ==
    LET j == job[p] IN
    /\ at[p] = "read"
    /\ job' = [job EXCEPT ![p].missing =
                  {c \in Children(j.seen, j.parent) : j.seen[c].root \notin dirs}]
    /\ GoTo(p, "wait")
    /\ UNCHANGED <<catalog, dirs, hidden, admin, held, importing, minted, left, ops,
                   faults, outside, lost>>

GoneRows(j) ==
    {c \in j.missing : \/ j.repo = None
                       \/ /\ ListedAt(j.seen[c].root, j.repo) = {}
                          /\ ~registered_worktree(c, j.repo)}

TidyPlan(p) ==
    LET j == job[p]
        root(c) == j.seen[c].root
    IN
    /\ at[p] = "locked" /\ j.kind = "tidy"
    /\ IF SameParent(j.parent, j.seen)
         THEN /\ job' = [job EXCEPT
                  ![p].erase = {c \in j.missing : /\ j.repo # None
                                                  /\ ListedAt(root(c), j.repo) # {}
                                                  /\ ~Lockedat(root(c), j.repo)},
                  ![p].repair = {c \in j.missing :
                                    /\ j.repo # None
                                    /\ ListedAt(root(c), j.repo) = {}
                                    /\ registered_worktree(c, j.repo)
                                    /\ admin[c].at \in dirs
                                    /\ ~refuse_worktree_root_location(j.seen, admin[c].at, {c})},
                  ![p].gone = GoneRows(j)]
              /\ GoTo(p, "planned") /\ UNCHANGED <<held, importing>>
         ELSE End(p)
    /\ UNCHANGED <<catalog, dirs, hidden, admin, minted, left, ops, faults, outside, lost>>

\* Each forced removal succeeds or is skipped; a cancelled one ends the loop.
\* Nothing asks again whether the checkout is there, or whose it is.
TidyGit(p) ==
    LET j == job[p] IN
    /\ at[p] = "planned"
    /\ \E done \in SUBSET j.erase :
          /\ remove_registered_worktree({j.seen[c].root : c \in done}, j.repo)
          /\ lost' = lost \cup (dirs \cap {j.seen[c].root : c \in done})
          /\ job' = [job EXCEPT ![p].gone = @ \cup done]
    /\ GoTo(p, "erased")
    /\ UNCHANGED <<catalog, hidden, held, importing, minted, left, ops, faults, outside>>

\* Repairs and removals are checked again against the catalog as it is now.
TidyRecord(p) ==
    LET j == job[p]
        mended == {c \in j.repair : /\ verify_worktree_relationship(c, j.seen)
                                    /\ admin[c].at \in dirs
                                    /\ ~refuse_worktree_root_location(catalog, admin[c].at, {c})}
        dropped == {c \in j.gone : /\ c \in Known /\ catalog[c].root = j.seen[c].root
                                   /\ catalog[c].source = "worktree"
                                   /\ catalog[c].root \notin dirs}
        rows == [i \in Known \ dropped |->
                    IF i \in mended THEN [catalog[i] EXCEPT !.root = admin[i].at]
                                    ELSE catalog[i]]
    IN
    /\ at[p] = "erased"
    /\ IF SameParent(j.parent, j.seen) /\ mended \cup dropped # {}
         THEN \E ok \in BOOLEAN : persist(rows, ok)
         ELSE UNCHANGED <<catalog, faults>>
    /\ End(p)
    /\ UNCHANGED <<dirs, hidden, admin, minted, left, ops, outside, lost>>

-----------------------------------------------------------------------------
(* What happens from outside.                                              *)

\* A process dies: the kernel releases its locks, nothing is undone.
Crash(p) ==
    /\ at[p] # "idle" /\ MayFail
    /\ faults' = faults + 1
    /\ End(p)
    /\ UNCHANGED <<catalog, dirs, hidden, admin, minted, left, ops, outside, lost>>

\* A managed clone is deleted; a worktree is deleted, or its volume unmounted
\* and perhaps mounted again.
Vanish(path) ==
    /\ path \in dirs /\ path # Home /\ faults + outside < MaxTrouble
    /\ outside' = outside + 1
    /\ dirs' = dirs \ {path} /\ hidden' = hidden \cup {d \in {path} : ~IsMain(d)}
    /\ UNCHANGED <<catalog, admin, held, importing, at, job, minted, left, ops, faults, lost>>

Return(path) ==
    /\ path \in hidden /\ path \notin dirs /\ faults + outside < MaxTrouble
    /\ outside' = outside + 1
    /\ dirs' = dirs \cup {path} /\ hidden' = hidden \ {path}
    /\ UNCHANGED <<catalog, admin, held, importing, at, job, minted, left, ops, faults, lost>>

CatalogStep(p) ==
    \/ LockRepository(p) \/ CloneEnds(p) \/ ImportRecord(p) \/ ImportUndo(p)
    \/ SweepLock(p) \/ SweepRead(p) \/ SweepDelete(p) \/ DropCommit(p)
    \/ AddGit(p) \/ AddRecord(p) \/ AddUndo(p)
    \/ MoveCheck(p) \/ MoveGit(p) \/ MoveRecord(p) \/ change_worktree_lock(p)
    \/ DiscardCheck(p) \/ DiscardGit(p) \/ DiscardRecord(p)
    \/ TidyInspect(p) \/ TidyPlan(p) \/ TidyGit(p) \/ TidyRecord(p)

CatalogNext ==
    \/ \E p \in Proc : CatalogStep(p)
    \/ \E p \in Proc, path \in dirs \cap (Place \cup {Home}) : import_local(p, path)
    \/ \E p \in Proc, i \in Known : configure_checks(p, i)
    \/ \E p \in Proc, i \in Known : remove(p, i)
    \/ \E p \in Proc, r \in Remote : ImportCheck(p, r)
    \/ \E p \in Proc : SweepList(p)
    \/ \E p \in Proc, i \in Known : DropBegin(p, i)
    \/ \E p \in Proc, i \in Known : AddBegin(p, i)
    \/ \E p \in Proc, i \in Known, place \in Place : TreeBegin(p, "move", i, place)
    \/ \E p \in Proc, i \in Known, kind \in {"protect", "unprotect", "discard"} :
          TreeBegin(p, kind, i, None)
    \/ \E p \in Proc, i \in Known : TidyBegin(p, i)
    \/ \E p \in Proc : Crash(p)
    \/ \E path \in dirs : Vanish(path)
    \/ \E path \in hidden : Return(path)

CatalogSpec == CatalogInit /\ [][CatalogNext]_catVars

-----------------------------------------------------------------------------
(* Correctness.                                                            *)

\* validate_catalog (catalog/mod.rs) accepts every catalog ever written, so no
\* process is locked out of its projects: each worktree's parent is a row that
\* is no worktree, whatever was removed, replaced or created meanwhile.  And
\* two clones of one remote never both stay in the catalog.
CatalogSound ==
    /\ \A i \in Known : catalog[i].source = "worktree" =>
          /\ catalog[i].of \in Known
          /\ catalog[catalog[i].of].source # "worktree"
    /\ \A r \in Remote : Cardinality(ForRemote(r)) <= 1

LiveTree(i) == i \in DOMAIN admin /\ admin[i].repo \in dirs /\ admin[i].at \in dirs
Quiet == (\A p \in Proc : at[p] = "idle") /\ faults = 0 /\ outside = 0
\* Without a crash or a failed write, whatever failed, lost its race or was
\* refused half way has cleaned up after itself: once everybody is idle, each
\* managed directory and each worktree record of Git belongs to a row, and each
\* worktree row to a live checkout (a managed project whose record alone was
\* removed keeps its directory; RemainingSpared is about the checkouts that a
\* reconciliation deleted).
NothingLeaked ==
    Quiet => /\ \A i \in Id : Managed(i) \in dirs => i \in Known \cup left
             /\ \A i \in DOMAIN admin : i \in Known /\ catalog[i].source = "worktree"
             /\ \A i \in Known : catalog[i].source = "worktree" =>
                   LiveTree(i) \/ catalog[i].root \in lost

\* reconcile_worktrees removes what Git records of a checkout that is absent,
\* and "never deletes a remaining directory" (project.rs, its comment and test).
RemainingSpared == lost = {}

Cloning(i) == \E p \in Proc : at[p] \in {"cloning", "cloned"} /\ job[p].id = i
\* reconcile_managed_repositories deletes a directory only when no row names
\* it and no clone into it is under way, however its listing, its locks and
\* its read of the catalog interleave with imports.
SweepSpares ==
    \A p \in Proc : at[p] = "deleting" =>
        \A i \in job[p].found : i \notin Known /\ ~Cloning(i)

\* A worktree Git has locked is neither moved nor removed until it is unlocked;
\* a row of a worktree is dropped only when Git has no checkout for it any more
\* (a checkout that was moved is never forgotten, even when the row is stale);
\* and a project's checks change in configure_checks alone, so no writer puts
\* back a catalog it read before somebody else's change.
WorktreesKept ==
    [][ /\ \A i \in DOMAIN admin : admin[i].locked /\ admin[i].repo \in dirs' =>
              i \in DOMAIN admin' /\ admin'[i].at = admin[i].at
        /\ \A i \in Known \ DOMAIN catalog' : catalog[i].source = "worktree" => ~LiveTree(i)
        /\ \A i \in Known \cap DOMAIN catalog' :
              catalog'[i].checks # catalog[i].checks => at' = at /\ job' = job
      ]_catVars

\* The catalog stays readable and complete, nothing is leaked or deleted that
\* somebody owns, and worktrees are kept (project.rs and catalog/mod.rs: the
\* four properties above).
CatalogKept == [](CatalogSound /\ NothingLeaked /\ SweepSpares) /\ WorktreesKept
=============================================================================
