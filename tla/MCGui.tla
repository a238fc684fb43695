-------------------------------- MODULE MCGui --------------------------------
(* The front end: the panels of the shell, the Changes view and the pages of  *)
(* runs.  A behaviour is one of one of them, chosen at the start, so that the *)
(* state space is the sum of theirs.                                          *)
EXTENDS GuiPanels, GuiChanges, GuiRuns

CONSTANTS trunk, side
VARIABLE part

\* Project side is a worktree of project trunk.
MCParent == [w \in {side} |-> trunk]
MCScope == [p \in {trunk, side} |-> "repository"]

\* What the user of one behaviour presses.
MCMenus == { {"open", "checks", "check"},
             {"open", "commit", "status", "history"},
             {"open", "review", "write"},
             {"open", "issues", "remove_worktree"},
             {"open", "checkout", "branches"},
             {"open", "commit", "catalog"},
             {"import", "remove_project", "remove_managed"},
             {"open", "worktrees", "create_worktree", "reconcile_worktrees"},
             {"open", "worktrees", "lock_worktree", "move_worktree"} }

Init == /\ part \in {"panels", "changes", "runs"}
        /\ GuiInit /\ (part = "panels" \/ (ui.known /\ "check" \in menu))
        /\ ChangesInit /\ (part = "changes" \/ (using = {"paths"} /\ \A p \in Path : file[p].idx = 0))
        /\ RunsInit /\ (part = "runs" \/ surface = "queue")

Next == \/ /\ part = "panels" /\ GuiNext
           /\ UNCHANGED <<part, changesVars, runsVars>>
        \/ /\ part = "changes" /\ ChangesNext
           /\ UNCHANGED <<part, guiVars, runsVars>>
        \/ /\ part = "runs" /\ RunsNext
           /\ UNCHANGED <<part, guiVars, changesVars>>

Spec == Init /\ [][Next]_<<part, guiVars, changesVars, runsVars>>
=============================================================================
