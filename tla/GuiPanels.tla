------------------------------ MODULE GuiPanels ------------------------------
(***************************************************************************)
(* The backend object of the graphical front end (backend.rs) and the QML  *)
(* that drives it.  One Qt thread owns every field; an invokable validates *)
(* its arguments, registers a job, spawns a worker thread and returns; the *)
(* worker queues its result back to the Qt thread, which may by then show  *)
(* another project.  Replies come back in any order.                       *)
(*                                                                         *)
(* The Qt thread's state is one record, ui, and every handler a function   *)
(* from ui to ui, because handlers call each other (the result of a        *)
(* checkout restarts three loads before it returns).  A request number is  *)
(* only ever compared with the newest one, so a worker carries cur: no     *)
(* later request of its class has been claimed.                            *)
(*                                                                         *)
(* A panel is the project it describes, whether it says it is loading, and *)
(* the version it shows; world counts, per project, the changes of the     *)
(* working tree and the check results recorded.  What a row, a branch or a *)
(* commit contains is left out.                                            *)
(***************************************************************************)
EXTENDS Naturals, FiniteSets

CONSTANTS
  Project,     \* catalogued projects
  Worktrees,   \* the ones that are managed worktrees
  Parent,      \* a worktree's parent project
  Scope,       \* the scheduling domain of a project (Git common directory)
  None,        \* no project
  Menus,       \* sets of kinds: a behaviour follows the jobs of one menu
  MaxStarts,   \* bound: requests the user makes
  MayFail      \* whether a worker may come back with an error

Snapshots == {"status", "history", "branches", "worktrees"}
Reviews == {"review"}
TreeWrites == {"write", "commit", "checkout"}
Lifecycle == {"create_worktree", "reconcile_worktrees", "move_worktree",
              "lock_worktree", "remove_worktree"}
Mutations == TreeWrites \cup Lifecycle \cup {"remove_managed"}
Loads == {"history", "branches", "worktrees", "issues", "checks"}
BusyKinds == {"open", "import", "remove_project", "remove_managed"}
Kinds == Snapshots \cup Reviews \cup Mutations \cup Loads \cup BusyKinds
           \cup {"check", "catalog"}
Panels == {"git", "review"} \cup Loads

ASSUME GuiAssumption ==
  /\ None \notin Project
  /\ Worktrees \subseteq Project
  /\ Parent \in [Worktrees -> Project \ Worktrees]
  /\ DOMAIN Scope = Project
  /\ MaxStarts \in Nat
  /\ MayFail \in BOOLEAN
  /\ \A m \in Menus : m \subseteq Kinds

VARIABLES ui, world, landed, menu
guiVars == <<ui, world, landed, menu>>

Empty == [of |-> None, loading |-> FALSE, ver |-> 0]
Blank == [p \in Project |-> 0]

(***************************************************************************)
(* Jobs.                                                                   *)
(***************************************************************************)
\* Faulty: a status read and a mutation of one repository may overlap.
ReviewsOnlyConflict(a, b) ==
  \/ a \in Reviews /\ b \in Reviews \cup Mutations
  \/ b \in Reviews /\ a \in Mutations
  \/ a \in Mutations /\ b \in Mutations

jobs_conflict(a, b) ==
  \/ a \in Reviews /\ b \in Reviews \cup Mutations \cup {"check"}
  \/ a \in Mutations /\ b \in Reviews \cup Mutations \cup Snapshots \cup {"check"}
  \/ a \in Snapshots /\ b \in Mutations
  \/ a = "check" /\ b \in {"check"} \cup Mutations \cup Reviews

JobScope(u, p) == IF u.known \/ u.opened = p THEN Scope[p] ELSE p

LifecycleScope(u, p) ==
  IF u.known THEN Scope[Parent[p]]
  ELSE IF u.opened # None THEN Scope[u.opened] ELSE p

Refused(u, k, p, scope) ==
  \E w \in u.work :
    /\ w.listed
    /\ \/ w.scope = scope /\ jobs_conflict(w.kind, k)
       \/ w.kind = k /\ w.p = p

\* A load is refused by a job it conflicts with.  The panels outside the menu
\* are not followed: their loads are left out of the behaviour.
Skipped(u, k, p) == k \notin menu \/ Refused(u, k, p, JobScope(u, p))

Worker(k, p, scope, by, listed) ==
  [kind |-> k, p |-> p, scope |-> scope, by |-> by, listed |-> listed,
   cur |-> TRUE, ran |-> FALSE, ok |-> TRUE, seen |-> Blank]

Retire(u, k) ==
  [u EXCEPT !.work = {[w EXCEPT !.cur = @ /\ w.kind # k] : w \in u.work}]

Spawn(u, w) == [u EXCEPT !.work = @ \cup {w}]
finish_job(u, w) == [u EXCEPT !.work = @ \ {w}]
StartJob(u, k, p) == Spawn(u, Worker(k, p, JobScope(u, p), u.opened, TRUE))
Show(u, k, row) == [u EXCEPT !.panel[k] = row]
Loading(p, row) == [of |-> p, loading |-> TRUE, ver |-> IF row.of = p THEN row.ver ELSE 0]

(***************************************************************************)
(* Loads: a request-numbered reply that is dropped when it is not the      *)
(* newest of its panel or its project is no longer the open one.           *)
(***************************************************************************)
RefreshList(u, k, p) ==
  IF Skipped(u, k, p) THEN u ELSE StartJob(Retire(u, k), k, p)

refresh_branches(u, p) == RefreshList(u, "branches", p)
refresh_worktrees(u, p) == RefreshList(u, "worktrees", p)

refresh_history(u, p) ==
  IF Skipped(u, "history", p) THEN u
  ELSE StartJob(Show(Retire(u, "history"), "history", Loading(p, Empty)), "history", p)

load_more_history(u, p) ==
  IF u.panel["history"].of # p \/ u.panel["history"].ver = 0
       \/ Skipped(u, "history", p)
  THEN u
  ELSE StartJob(Show(Retire(u, "history"), "history", Loading(p, u.panel["history"])),
                "history", p)

refresh_issues(u, p) ==
  IF u.opened # p \/ Skipped(u, "issues", p) THEN u
  ELSE StartJob(Show(Retire(u, "issues"), "issues", Loading(p, Empty)), "issues", p)

load_more_issues(u, p) ==
  IF u.panel["issues"].of # p \/ u.panel["issues"].ver = 0
       \/ Skipped(u, "issues", p)
  THEN u
  ELSE StartJob(Show(Retire(u, "issues"), "issues", Loading(p, u.panel["issues"])),
                "issues", p)

refresh_checks(u, p) ==
  IF Skipped(u, "checks", p) THEN u
  ELSE StartJob(Show(Retire(u, "checks"), "checks", Loading(p, u.panel["checks"])),
                "checks", p)

refresh_git(u, p) ==
  IF Skipped(u, "status", p) THEN u ELSE StartJob(u, "status", p)

run_check(u, p) ==
  IF Skipped(u, "check", p) THEN u ELSE StartJob(u, "check", p)

launch_working_review(u, p) ==
  IF Skipped(u, "review", p) THEN u
  ELSE StartJob(Show(Retire(u, "review"), "review", Loading(p, Empty)), "review", p)

\* The catalog reload is not a job: only its request number orders it.
refresh(u) ==
  IF "catalog" \notin menu THEN u
  ELSE Spawn(Retire(u, "catalog"), Worker("catalog", None, None, u.opened, FALSE))

(***************************************************************************)
(* Clearing.  Issue jobs are cancelled and leave the job list at once, so  *)
(* a project opened again may load its issues while the old one still      *)
(* runs; the other classes only retire the replies in flight.              *)
(***************************************************************************)
Cleared(u, k) == Show(Retire(u, k), k, Empty)

clear_issues_state(u) ==
  [Cleared(u, "issues") EXCEPT !.work =
     {IF w.kind = "issues" THEN [w EXCEPT !.listed = FALSE] ELSE w : w \in @}]

clear_review(u) == Cleared(Cleared(u, "history"), "review")

close_project(u) ==
  LET lists == Cleared(Cleared(u, "branches"), "worktrees")
      shut == [Show(lists, "git", Empty) EXCEPT !.opened = None]
  IN Cleared(clear_issues_state(clear_review(shut)), "checks")

(***************************************************************************)
(* What the QML does, in the same turn of the Qt thread, when the open     *)
(* project changes: each panel's reload key changes and each asks once.  A *)
(* request the backend refuses is not asked again.  A project opened a     *)
(* second time in place has the same key, and nothing asks.                *)
(***************************************************************************)
Reloaded(u, p) ==
  LET clean == refresh_git(clear_review(u), p)
      lists == refresh_history(refresh_branches(clean, p), p)
      trees == IF p \in Worktrees THEN lists ELSE refresh_worktrees(lists, p)
  IN refresh_checks(refresh_issues(trees, p), p)

apply_result(u, ok, opens, p) ==
  LET set == [clear_issues_state(u) EXCEPT !.opened = IF opens THEN p ELSE None]
  IN IF ~ok THEN refresh(u)
     ELSE refresh(IF opens /\ u.opened # p THEN Reloaded(set, p) ELSE set)

(***************************************************************************)
(* The result of a Git operation: the job ends, the status that follows    *)
(* the operation replaces the one shown (or clears it, so that no token of *)
(* it survives), the lists the operation can have changed reload, the      *)
(* catalog row is brought up to date, and the review on screen reloads.    *)
(***************************************************************************)
refresh_current_working_review(u, p) ==
  IF u.panel["review"].of # p \/ u.panel["review"].loading THEN u
  ELSE launch_working_review(u, p)

sync_catalog_projection(u, w) ==
  IF w.ok THEN [Retire(u, "catalog") EXCEPT !.rows[w.p] = w.seen[w.p]]
  ELSE refresh(u)

apply_git_result(u0, w) ==
  LET p == w.p
      open == u0.opened = p
      ended == finish_job(u0, w)
      shown == IF ~open THEN ended
               ELSE Show(ended, "git", IF w.ok THEN [of |-> p, loading |-> FALSE, ver |-> w.seen[p]]
                                       ELSE Empty)
      branched == IF open /\ w.kind = "checkout" THEN refresh_branches(shown, p) ELSE shown
      walked == IF open /\ w.kind \in {"checkout", "commit"}
                THEN refresh_history(branched, p) ELSE branched
      listed == IF w.kind = "status" THEN walked ELSE sync_catalog_projection(walked, w)
  IN IF open /\ w.ok THEN refresh_current_working_review(listed, p) ELSE listed

ReplyCurrent(u, w) == w.cur /\ u.opened = w.p

Answered(u, w) ==
  IF w.ok THEN [of |-> w.p, loading |-> FALSE, ver |-> w.seen[w.p]]
  ELSE IF w.kind \in {"branches", "worktrees"} THEN Empty
  ELSE [of |-> w.p, loading |-> FALSE,
        ver |-> IF u.panel[w.kind].of = w.p THEN u.panel[w.kind].ver ELSE 0]

LoadReply(u0, w) ==
  LET u == finish_job(u0, w)
  IN IF ReplyCurrent(u0, w) THEN Show(u, w.kind, Answered(u, w)) ELSE u

CheckReply(u0, w) ==
  LET u == finish_job(u0, w)
  IN IF u.opened # w.p THEN u
     ELSE Show(Retire(u, "checks"), "checks", Answered(u, [w EXCEPT !.kind = "checks"]))

CatalogReply(u0, w) ==
  LET u == finish_job(u0, w)
  IN IF ~w.cur THEN u
     ELSE IF w.ok THEN [u EXCEPT !.known = TRUE, !.rows = w.seen]
     ELSE [u EXCEPT !.known = FALSE, !.rows = Blank]

\* reconcile and move list the parent's worktrees; neither asks which project
\* is open by then.  A lock change does.
WorktreeReply(u0, w) ==
  LET u == finish_job(u0, w)
      parent == IF w.p \in Worktrees THEN Parent[w.p] ELSE w.p
      row == [of |-> parent, loading |-> FALSE, ver |-> w.seen[parent]]
  IN IF w.kind = "lock_worktree"
     THEN IF w.ok /\ u.opened = w.by THEN Show(u, "worktrees", row) ELSE u
     ELSE IF w.ok THEN refresh(Show(u, "worktrees", row)) ELSE u

OpenReply(u0, w) ==
  apply_result([finish_job(u0, w) EXCEPT !.busy = @ /\ w.kind \notin BusyKinds],
               w.ok, w.kind \in {"open", "import", "create_worktree"}, w.p)

Reply(u, w) ==
  CASE w.kind \in Loads \cup Reviews -> LoadReply(u, w)
    [] w.kind \in TreeWrites \cup {"status"} -> apply_git_result(u, w)
    [] w.kind = "check" -> CheckReply(u, w)
    [] w.kind = "catalog" -> CatalogReply(u, w)
    [] w.kind \in {"reconcile_worktrees", "move_worktree", "lock_worktree"} -> WorktreeReply(u, w)
    [] OTHER -> OpenReply(u, w)

(***************************************************************************)
(* Actions.                                                                *)
(***************************************************************************)
GuiInit ==
  /\ \E known \in BOOLEAN :
       ui = [opened |-> None, busy |-> FALSE, known |-> known,
             panel |-> [k \in Panels |-> Empty], rows |-> Blank, work |-> {}, starts |-> 0]
  /\ world = [tree |-> [p \in Project |-> 1], checks |-> [p \in Project |-> 1]]
  /\ landed = [tree |-> Blank, checks |-> Blank]
  /\ menu \in Menus

Asked(u) == [u EXCEPT !.starts = @ + 1]

\* A request of the user, or of a timer on the user's behalf.
Ask(k, u) ==
  /\ k \in menu
  /\ ui.starts < MaxStarts
  /\ ui' = Asked(u)
  /\ UNCHANGED <<world, landed, menu>>

\* The shell's controls act on the open project.
Refresh(p) ==
  /\ ui.opened = p
  /\ \/ Ask("status", refresh_git(ui, p))
     \/ Ask("branches", refresh_branches(ui, p))
     \/ Ask("worktrees", refresh_worktrees(ui, p))
     \/ Ask("history", refresh_history(ui, p))
     \/ Ask("history", load_more_history(ui, p))
     \/ Ask("issues", refresh_issues(ui, p))
     \/ Ask("issues", load_more_issues(ui, p))
     \/ Ask("checks", refresh_checks(ui, p))
     \/ Ask("check", run_check(ui, p))
     \/ Ask("review", launch_working_review(ui, p))

RefreshCatalog == ui.opened = None /\ Ask("catalog", refresh(ui))

Mutate(k, p) ==
  /\ k \in TreeWrites \cup {"create_worktree", "reconcile_worktrees"}
  /\ ui.opened = p
  /\ p \in Worktrees => k \in TreeWrites
  /\ ~Refused(ui, k, p, JobScope(ui, p))
  /\ Ask(k, StartJob(ui, k, p))

ChangeWorktree(k, p) ==
  /\ k \in {"move_worktree", "lock_worktree", "remove_worktree"}
  /\ p \in Worktrees
  /\ k # "remove_worktree" => ui.opened = Parent[p]
  /\ ~Refused(ui, k, p, LifecycleScope(ui, p))
  /\ Ask(k, Spawn(ui, Worker(k, p, LifecycleScope(ui, p), ui.opened, TRUE)))

\* open_project, import_local and remove_project are guarded by busy only.
Open(k, p) ==
  /\ k \in BusyKinds
  /\ ~ui.busy
  /\ k \in {"import", "remove_managed"} => ~Refused(ui, k, p, JobScope(ui, p))
  /\ Ask(k, [Spawn(ui, Worker(k, p, JobScope(ui, p), ui.opened, k \in {"import", "remove_managed"}))
               EXCEPT !.busy = TRUE])

Close == ui.opened # None /\ Ask("open", close_project(ui))

\* The worker thread reads, or writes and reads; a write can fail half-way.
Run(w) ==
  /\ ~w.ran
  /\ \E ok \in {TRUE, ~MayFail} :
       LET tree == IF w.kind \in TreeWrites THEN [world.tree EXCEPT ![w.p] = @ + 1]
                   ELSE world.tree
           checks == IF w.kind = "check" /\ ok THEN [world.checks EXCEPT ![w.p] = @ + 1]
                     ELSE world.checks
           seen == IF w.kind \in {"check", "checks"} THEN checks ELSE tree
       IN /\ world' = [tree |-> tree, checks |-> checks]
          /\ ui' = [ui EXCEPT !.work = (@ \ {w}) \cup
                      {[w EXCEPT !.ran = TRUE, !.ok = ok, !.seen = IF ok THEN seen ELSE @]}]
  /\ UNCHANGED <<landed, menu>>

\* The Qt thread takes a queued reply.  landed records what the shell has been
\* told: the version a mutation or a check of a project came back with.
Deliver(w) ==
  /\ w.ran
  /\ ui' = Reply(ui, w)
  /\ landed' = IF ~w.ok THEN landed
               ELSE IF w.kind \in TreeWrites THEN [landed EXCEPT !.tree[w.p] = w.seen[w.p]]
               ELSE IF w.kind = "check" THEN [landed EXCEPT !.checks[w.p] = w.seen[w.p]]
               ELSE landed
  /\ UNCHANGED <<world, menu>>

Answers == \E w \in ui.work : Run(w) \/ Deliver(w)

GuiNext ==
  \/ RefreshCatalog \/ Close
  \/ \E p \in Project : Refresh(p) \/ \E k \in Kinds : Mutate(k, p) \/ ChangeWorktree(k, p) \/ Open(k, p)
  \/ Answers

GuiSpec == GuiInit /\ [][GuiNext]_guiVars

(***************************************************************************)
(* Properties.                                                             *)
(***************************************************************************)
\* A status or a catalog row put on screen is never older than a change of
\* its project the shell has already been told of: a status read or a catalog
\* reload that started before a commit cannot land after it and put the old
\* state back (jobs_conflict, sync_catalog_projection).
NothingGoesBack ==
  [][ \A p \in Project :
        /\ (ui'.panel["git"] # ui.panel["git"] /\ ui'.panel["git"].of = p)
             => ui'.panel["git"].ver >= landed'.tree[p]
        /\ (ui'.rows[p] # ui.rows[p] /\ ui'.rows[p] > 0)
             => ui'.rows[p] >= landed'.tree[p] ]_guiVars

\* History, issues, checks, review and branch rows shown in the shell are
\* never a late reply about a project that is no longer the open one.
ShownIsOpen ==
  [][ \A k \in (Panels \ {"worktrees"}) :
        (ui'.panel[k] # ui.panel[k] /\ ui'.panel[k].of # None)
          => ui'.panel[k].of = ui'.opened ]_guiVars

\* A panel of the open project that says it is loading has a reply on its way
\* that will be applied: no spinner is left behind
\* by a request that was overtaken, refused or cleared.
SpinnersHaveReplies ==
  \A k \in Loads \cup Reviews :
    (ui.opened # None /\ ui.panel[k].of = ui.opened /\ ui.panel[k].loading)
      => \E w \in ui.work : w.kind = k /\ w.p = ui.opened /\ w.cur

\* The shell never shows less than it knows: nothing on screen goes back, is
\* about a project that is not open, or waits for a reply nobody will give.
PanelsTrue == NothingGoesBack /\ ShownIsOpen /\ []SpinnersHaveReplies
=============================================================================
