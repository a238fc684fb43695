SPECIFICATION Spec
CONSTANTS
  trunk = trunk
  side = side
  Project = {trunk, side}
  Worktrees = {side}
  Parent <- MCParent
  Scope <- MCScope
  None = None
  Menus <- MCMenus
  MaxStarts = 4
  MayFail = TRUE
  Path = {x, y}
  Content = {1, 2}
  MaxEdits = 1
  MaxClicks = 2
  MaxMinted = 2
  NoSnap = NoSnap
  Nothing = Nothing
  Uses = {{"paths"}, {"review"}, {"commit"}}
  MaxRuns = 3
  PageSize = 1
  MaxOps = 3
  MaxListings = 2
  Surfaces = {"page", "list", "queue"}
INVARIANTS WritesWhatWasShown RunPagesTrue
PROPERTIES PanelsTrue
CHECK_DEADLOCK FALSE
