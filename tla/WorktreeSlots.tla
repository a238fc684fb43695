--------------------------- MODULE WorktreeSlots ---------------------------
(***************************************************************************)
(* What the scheduler promises its worktrees, with no queue, no lock and   *)
(* no thread: a call starts only when its worktree can take it, and holds  *)
(* its place until it finishes.  Module Scheduler implements this one.     *)
(***************************************************************************)
EXTENDS Naturals, FiniteSets

CONSTANTS
    Sub,              \* submissions
    Key,              \* worktrees
    KeyOf,            \* the worktree a submission names
    IsMutation,       \* the submissions above RiskLevel::Observe
    IsSpawning,       \* the submissions whose tool spawns processes
    ReadConcurrency,  \* WORKSPACE_READ_CONCURRENCY
    ProcessCapacity   \* capacity of the process limit

VARIABLE busy         \* the submissions occupying each worktree

Init == busy = [k \in Key |-> {}]

\* The worktree k can take submission s.
Fits(s, k) ==
    IF s \in IsMutation
      THEN busy[k] = {}
      ELSE /\ busy[k] \cap IsMutation = {}
           /\ Cardinality(busy[k]) < ReadConcurrency

Spawned == {s \in IsSpawning : \E k \in Key : s \in busy[k]}

Start(s) ==
    /\ \A k \in Key : s \notin busy[k]
    /\ Fits(s, KeyOf[s])
    /\ s \in IsSpawning => Cardinality(Spawned) < ProcessCapacity
    /\ busy' = [busy EXCEPT ![KeyOf[s]] = @ \cup {s}]

Finish(s) ==
    /\ s \in busy[KeyOf[s]]
    /\ busy' = [busy EXCEPT ![KeyOf[s]] = @ \ {s}]

Next == \E s \in Sub : Start(s) \/ Finish(s)

Spec == Init /\ [][Next]_busy
=============================================================================
