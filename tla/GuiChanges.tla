------------------------------ MODULE GuiChanges ------------------------------
(***************************************************************************)
(* The Changes list and the review surface of one open project: the status *)
(* poll that mints the path tokens QML holds, the discard prompts that are *)
(* opened on a token or on a loaded review file, the commit that names the *)
(* checked rows, and the Git operations behind them (discard.rs,           *)
(* commit.rs).  The user's editor and a terminal change the same files at  *)
(* any moment, also between a worker's check and what it does.             *)
(*                                                                         *)
(* A file is its content in the working tree, in the index and in HEAD     *)
(* (0: absent) and a stamp that stands for the metadata an edit moves;     *)
(* staging and committing leave the stamp alone.  A snapshot is the three  *)
(* contents.  Renames, conflicts and file modes are left out.              *)
(***************************************************************************)
EXTENDS Naturals, FiniteSets

CONSTANTS
  Path,        \* the files of the project
  Content,     \* contents other than "absent"
  MaxEdits,    \* bound: changes made outside Harkness
  MaxClicks,   \* bound: prompts, reviews, ticks and commits the user asks for
  MaxMinted,   \* bound: tokens minted when a poll starts
  NoSnap,      \* a snapshot that could not be captured
  Nothing,     \* no token, no prompt, no loaded file
  Uses         \* bound: what one behaviour's user works with, sets of
               \* "paths", "review" and "commit"

ASSUME ChangesAssumption ==
  /\ IsFiniteSet(Path) /\ 0 \notin Content
  /\ MaxEdits \in Nat /\ MaxClicks \in Nat
  /\ MaxMinted \in Nat
  /\ Uses \subseteq SUBSET {"paths", "review", "commit"}

VARIABLES
  file,      \* [Path -> [wt, idx, head, stamp]]
  tokens,    \* path -> the token of its row, the operation and the snapshot under it
  minted,    \* next_path_selection
  cache,     \* discard_snapshot_cache
  poll,      \* the status worker: Nothing, or the rows it has read so far
  write,     \* the mutation worker
  read,      \* the review worker: whole review, one file, or more context
  loaded,    \* the review file on screen
  request,   \* next_review_request: the generation in a review file's id
  prompt,    \* the discard prompt that is open, with what was on screen
  excluded,  \* paths unchecked in the Changes list
  using,     \* what this behaviour's user works with
  edits, clicks
changesVars == <<file, tokens, minted, cache, poll, write, read, loaded, request,
                 prompt, excluded, using, edits, clicks>>
shell == <<tokens, minted, loaded, request, prompt, excluded, using, clicks>>

(***************************************************************************)
(* Status rows and snapshots.                                              *)
(***************************************************************************)
Change(new, old) ==
  CASE new = old -> "" [] old = 0 -> "added" [] new = 0 -> "deleted" [] OTHER -> "modified"

Untracked(f) == f.idx = 0 /\ f.head = 0 /\ f.wt # 0
Staged(f) == Change(f.idx, f.head)
Unstaged(f) == IF Untracked(f) THEN "untracked" ELSE Change(f.wt, f.idx)
Listed(f) == Staged(f) # "" \/ Unstaged(f) # ""

status_discard_description(row) ==
  CASE row.unstaged = "untracked" -> "delete_untracked"
    [] row.unstaged # "" -> "restore_index"
    [] OTHER -> "restore_head"

snapshot(p) == [wt |-> file[p].wt, idx |-> file[p].idx, head |-> file[p].head]

(***************************************************************************)
(* The status worker: one status read, then per row a fingerprint of the   *)
(* file's metadata and, when the cache has no entry under it, a capture.   *)
(***************************************************************************)
StatusRow(p) == [path |-> p, staged |-> Staged(file[p]), unstaged |-> Unstaged(file[p]),
                 stamp |-> 0, snap |-> NoSnap, at |-> "read"]
StatusRows == {StatusRow(p) : p \in {q \in Path : Listed(file[q])}}

CacheKey(row) == <<status_discard_description(row), row.staged, row.unstaged>>

\* A poll starts when no job that excludes it runs.
refresh_changes ==
  /\ poll = Nothing /\ write = Nothing /\ minted < MaxMinted
  /\ poll' = StatusRows
  /\ UNCHANGED <<file, cache, write, read, edits>> /\ UNCHANGED shell

Fingerprint(row) ==
  /\ row.at = "read"
  /\ LET p == row.path
         hit == cache[p] # Nothing /\ cache[p].key = CacheKey(row)
                  /\ cache[p].stamp = file[p].stamp
     IN poll' = (poll \ {row}) \cup
          {IF hit THEN [row EXCEPT !.at = "done", !.snap = cache[p].snap]
           ELSE [row EXCEPT !.at = "stamped", !.stamp = file[p].stamp]}
  /\ UNCHANGED <<file, cache, write, read, edits>> /\ UNCHANGED shell

Capture(row) ==
  /\ row.at = "stamped"
  /\ \E snap \in {snapshot(row.path), NoSnap} :
       /\ poll' = (poll \ {row}) \cup {[row EXCEPT !.at = "done", !.snap = snap]}
       /\ cache' = [cache EXCEPT ![row.path] =
            IF snap = NoSnap THEN Nothing
            ELSE [key |-> CacheKey(row), stamp |-> row.stamp, snap |-> snap]]
  /\ UNCHANGED <<file, write, read, edits>> /\ UNCHANGED shell

(***************************************************************************)
(* replace_status_path_selections: a row keeps its token only when the     *)
(* snapshot recorded under it is the one just read.                        *)
(***************************************************************************)
\* Faulty: a row keeps its token as long as its path is listed.
KeepsListed(row) == tokens[row.path] # Nothing

KeepsToken(row) == tokens[row.path] # Nothing /\ tokens[row.path].snap = row.snap

RowOf(rows, p) == CHOOSE r \in rows : r.path = p

replace_status_path_selections(rows) ==
  LET fresh == {r.path : r \in {q \in rows : ~KeepsToken(q)}}
      number == CHOOSE f \in [fresh -> 1..Cardinality(fresh)] :
                  \A p, q \in fresh : p # q => f[p] # f[q]
  IN /\ minted' = minted + Cardinality(fresh)
     /\ tokens' = [p \in Path |->
          IF \A r \in rows : r.path # p THEN Nothing
          ELSE [tok |-> IF p \in fresh THEN minted + number[p] ELSE tokens[p].tok,
                op |-> status_discard_description(RowOf(rows, p)),
                snap |-> RowOf(rows, p).snap]]

\* The QML drops the exclusions of paths that are no longer listed.
Prune(rows) == excluded' = excluded \cap {r.path : r \in rows}

\* cache.retain: the entries of paths the status no longer lists are dropped.
Retain(rows) == [p \in Path |-> IF \E r \in rows : r.path = p THEN cache[p] ELSE Nothing]

PollDone ==
  /\ poll # Nothing /\ write = Nothing /\ \A r \in poll : r.at = "done"
  /\ replace_status_path_selections(poll) /\ Prune(poll)
  /\ cache' = Retain(poll)
  /\ poll' = Nothing
  /\ UNCHANGED <<file, write, read, loaded, request, prompt, edits, clicks, using>>

\* A status that cannot be read takes the tokens of the last one with it.
clear_git_state == tokens' = [p \in Path |-> Nothing] /\ excluded' = {} /\ UNCHANGED minted

PollFails ==
  /\ poll # Nothing /\ write = Nothing /\ \A r \in poll : r.at = "read"
  /\ clear_git_state
  /\ poll' = Nothing
  /\ UNCHANGED <<file, cache, write, read, loaded, request, prompt, edits, clicks, using>>

(***************************************************************************)
(* The discard prompt.  saw is what the screen described when it opened.   *)
(***************************************************************************)
OpenPathPrompt(p) ==
  /\ "paths" \in using
  /\ prompt = Nothing /\ clicks < MaxClicks
  /\ tokens[p] # Nothing
  /\ prompt' = [kind |-> "path", id |-> tokens[p].tok, op |-> tokens[p].op, saw |-> tokens[p].snap]
  /\ clicks' = clicks + 1
  /\ UNCHANGED <<file, tokens, minted, cache, poll, write, read, loaded, request, excluded,
                 edits, using>>

OpenFilePrompt ==
  /\ prompt = Nothing /\ clicks < MaxClicks
  /\ loaded # Nothing /\ loaded.snap # NoSnap
  /\ prompt' = [kind |-> "file", id |-> loaded.id, op |-> loaded.op, saw |-> loaded.snap]
  /\ clicks' = clicks + 1
  /\ UNCHANGED <<file, tokens, minted, cache, poll, write, read, loaded, request, excluded,
                 edits, using>>

NoWriter == poll = Nothing /\ write = Nothing /\ read = Nothing

\* snap is what is on record for the confirmed row or file, met what the worker
\* finds in its place, calm that nothing changed the file since it looked.
Discard(p, op, snap, kind) ==
  write' = [kind |-> kind, path |-> p, op |-> op, snap |-> snap, saw |-> prompt.saw,
            met |-> NoSnap, calm |-> TRUE, at |-> "open"]

\* discard_path: the token must still resolve, to the operation confirmed and
\* to a snapshot; a prompt whose row was minted again is refused.
discard_path ==
  /\ prompt # Nothing /\ prompt.kind = "path"
  /\ \/ /\ NoWriter
        /\ \E p \in Path :
             /\ tokens[p] # Nothing /\ tokens[p].tok = prompt.id
             /\ tokens[p].op = prompt.op /\ tokens[p].snap # NoSnap
             /\ Discard(p, prompt.op, tokens[p].snap, "path")
     \/ /\ \A p \in Path :
             tokens[p] # Nothing /\ tokens[p].tok = prompt.id
               => tokens[p].op # prompt.op \/ tokens[p].snap = NoSnap
        /\ UNCHANGED write
  /\ prompt' = Nothing
  /\ UNCHANGED <<file, tokens, minted, cache, poll, read, loaded, request, excluded,
                 edits, clicks, using>>

discard_review_file ==
  /\ prompt # Nothing /\ prompt.kind = "file"
  /\ IF /\ NoWriter /\ loaded # Nothing
        /\ loaded.id = prompt.id /\ loaded.snap # NoSnap /\ loaded.op = prompt.op
     THEN Discard(loaded.path, loaded.op, loaded.snap, "file")
     ELSE UNCHANGED write
  /\ prompt' = Nothing
  /\ UNCHANGED <<file, tokens, minted, cache, poll, read, loaded, request, excluded,
                 edits, clicks, using>>

(***************************************************************************)
(* The discard itself (discard.rs): the index and HEAD are read, then the  *)
(* file, and the three are compared with the snapshot; the change must     *)
(* still be of the kind the operation undoes; then Git restores or the     *)
(* file is removed, whatever it is by then.                                *)
(***************************************************************************)
OpenIndex ==
  /\ write # Nothing /\ write.at = "open"
  /\ write' = [write EXCEPT !.at = "verify", !.met = snapshot(write.path)]
  /\ UNCHANGED <<file, cache, poll, read, edits>> /\ UNCHANGED shell

Verify ==
  /\ write # Nothing /\ write.at = "verify"
  /\ write' = [write EXCEPT !.at =
       IF [write.met EXCEPT !.wt = file[write.path].wt] = write.snap THEN "require" ELSE "done"]
  /\ UNCHANGED <<file, cache, poll, read, edits>> /\ UNCHANGED shell

Discardable(f, op) ==
  CASE op = "delete_untracked" -> Untracked(f)
    [] op = "restore_index" -> ~Untracked(f) /\ f.wt # f.idx
    [] OTHER -> ~Untracked(f) /\ (f.idx # f.head \/ f.wt # f.idx)

Require ==
  /\ write # Nothing /\ write.at = "require"
  /\ write' = [write EXCEPT !.at = IF Discardable(file[write.path], write.op) THEN "act" ELSE "done"]
  /\ UNCHANGED <<file, cache, poll, read, edits>> /\ UNCHANGED shell

\* What Git or the system refuses to do: the file, or what it is restored
\* from, is not there any more.
Declined(f, op) ==
  CASE op = "delete_untracked" -> f.wt = 0
    [] op = "restore_index" -> f.idx = 0
    [] OTHER -> f.idx = 0 /\ f.head = 0

Restored(f, op) ==
  CASE op = "delete_untracked" -> [f EXCEPT !.wt = 0, !.stamp = @ + 1]
    [] op = "restore_index" -> [f EXCEPT !.wt = f.idx, !.stamp = @ + 1]
    [] OTHER -> [f EXCEPT !.wt = f.head, !.idx = f.head, !.stamp = @ + 1]

Act ==
  /\ write # Nothing /\ write.at = "act"
  /\ LET f == file[write.path] IN
       IF Declined(f, write.op)
       THEN write' = [write EXCEPT !.at = "done"] /\ UNCHANGED file
       ELSE /\ write' = [write EXCEPT !.at = "thrown", !.met = snapshot(write.path)]
            /\ file' = [file EXCEPT ![write.path] = Restored(f, write.op)]
  /\ UNCHANGED <<cache, poll, read, edits>> /\ UNCHANGED shell

(***************************************************************************)
(* Commit: every listed row checked means the whole working tree, as it is *)
(* when Git adds it; some rows, exactly their paths; none, with amend, the *)
(* index as it stands.                                                     *)
(***************************************************************************)
Rows == {p \in Path : tokens[p] # Nothing}

resolve_commit_scope(checked) ==
  IF checked = {} THEN "index"
  ELSE IF Cardinality(checked) = Cardinality(Rows) THEN "tree" ELSE "paths"

commit ==
  /\ "commit" \in using /\ NoWriter /\ clicks < MaxClicks
  /\ \E amend \in BOOLEAN :
       LET checked == Rows \ excluded
       IN /\ checked # {} \/ amend
          /\ write' = [kind |-> "commit", path |-> checked, op |-> resolve_commit_scope(checked),
                       snap |-> amend, saw |-> NoSnap, met |-> NoSnap, calm |-> TRUE,
                       at |-> "add"]
  /\ clicks' = clicks + 1
  /\ UNCHANGED <<file, tokens, minted, cache, poll, read, loaded, request, prompt, excluded,
                 edits, using>>

\* add_all, add_paths, or nothing to add; then the refusal of an empty commit.
InScope(p) == write.op = "tree" \/ (write.op = "paths" /\ p \in write.path)
Added(p) == IF InScope(p) THEN [file[p] EXCEPT !.idx = file[p].wt] ELSE file[p]

CommitAdd ==
  /\ write # Nothing /\ write.at = "add"
  /\ file' = [p \in Path |-> Added(p)]
  /\ write' = [write EXCEPT !.at =
       IF write.snap \/ \E p \in Path : (write.op = "paths" => InScope(p)) /\ Added(p).idx # file[p].head
       THEN "commit" ELSE "done"]
  /\ UNCHANGED <<cache, poll, read, edits>> /\ UNCHANGED shell

\* git commit --only takes the named paths from the working tree again;
\* without paths it takes the index.
Committed(p) ==
  CASE write.op # "paths" -> [file[p] EXCEPT !.head = file[p].idx]
    [] InScope(p) -> [file[p] EXCEPT !.idx = file[p].wt, !.head = file[p].wt]
    [] OTHER -> file[p]

GitCommit ==
  /\ write # Nothing /\ write.at = "commit"
  /\ file' = [p \in Path |-> Committed(p)]
  /\ write' = [write EXCEPT !.at = "committed"]
  /\ UNCHANGED <<tokens, minted, cache, poll, read, loaded, request, prompt, excluded, edits, clicks, using>>

(***************************************************************************)
(* The mandatory status after an operation, with a token of its own, then  *)
(* the review on screen loads again.                                       *)
(***************************************************************************)
WriteStatus ==
  /\ write # Nothing /\ write.at \in {"done", "thrown", "committed"} /\ poll = Nothing
  /\ poll' = StatusRows
  /\ UNCHANGED <<file, cache, write, read, edits>> /\ UNCHANGED shell

ReadReview(p) ==
  /\ request' = request + 1 /\ loaded' = Nothing
  /\ read' = [kind |-> "review", path |-> p, id |-> request + 1, snap |-> NoSnap, at |-> "go"]

refresh_review_shown ==
  IF loaded # Nothing /\ read = Nothing THEN ReadReview(loaded.path)
  ELSE UNCHANGED <<request, read, loaded>>

\* A commit that went through checks every remaining row again.
WriteDone ==
  /\ write # Nothing /\ poll # Nothing /\ \A r \in poll : r.at = "done"
  /\ replace_status_path_selections(poll)
  /\ IF write.at = "committed" THEN excluded' = {} ELSE Prune(poll)
  /\ cache' = Retain(poll)
  /\ refresh_review_shown
  /\ write' = Nothing /\ poll' = Nothing
  /\ UNCHANGED <<file, prompt, edits, clicks, using>>

WriteFails ==
  /\ write # Nothing /\ poll # Nothing /\ \A r \in poll : r.at = "read"
  /\ clear_git_state
  /\ write' = Nothing /\ poll' = Nothing
  /\ UNCHANGED <<file, cache, read, loaded, request, prompt, edits, clicks, using>>

Toggle(p) ==
  /\ "commit" \in using /\ clicks < MaxClicks /\ p \in Rows
  /\ excluded' = IF p \in excluded THEN excluded \ {p} ELSE excluded \cup {p}
  /\ clicks' = clicks + 1
  /\ UNCHANGED <<file, tokens, minted, cache, poll, write, read, loaded, request, prompt,
                 edits, using>>

(***************************************************************************)
(* Review: a review names its files by its request number; loading one     *)
(* file again keeps the name and captures a new snapshot.                  *)
(***************************************************************************)
Review(p) ==
  /\ "review" \in using /\ read = Nothing /\ write = Nothing /\ clicks < MaxClicks
  /\ ReadReview(p)
  /\ clicks' = clicks + 1
  /\ UNCHANGED <<file, tokens, minted, cache, poll, write, prompt, excluded, edits, using>>

expand_review_context ==
  /\ read = Nothing /\ write = Nothing /\ loaded # Nothing
  /\ read' = [kind |-> "context", path |-> loaded.path, id |-> loaded.id, snap |-> loaded.snap, at |-> "go"]
  /\ UNCHANGED <<file, cache, poll, write, edits>> /\ UNCHANGED shell

load_review_file ==
  /\ read = Nothing /\ write = Nothing /\ loaded # Nothing
  /\ read' = [kind |-> "file", path |-> loaded.path, id |-> loaded.id, snap |-> NoSnap, at |-> "go"]
  /\ loaded' = Nothing
  /\ UNCHANGED <<file, tokens, minted, cache, poll, write, request, prompt, excluded,
                 edits, clicks, using>>

\* The worker reads the file as it is now; a path with nothing to show fails.
ReadFile ==
  /\ read # Nothing /\ read.at = "go"
  /\ read' = [read EXCEPT !.at =
       IF read.kind = "context" THEN (IF read.snap = snapshot(read.path) THEN "same" ELSE "stale")
       ELSE IF Unstaged(file[read.path]) = "" THEN "failed" ELSE "read",
       !.snap = IF read.kind = "context" THEN @ ELSE snapshot(read.path)]
  /\ UNCHANGED <<file, cache, poll, write, edits>> /\ UNCHANGED shell

\* Context that turns out stale loads the file again, under the same name.
ReadDone ==
  /\ read # Nothing /\ read.at # "go"
  /\ CASE read.at = "read" ->
            /\ loaded' = [id |-> read.id, path |-> read.path, snap |-> read.snap,
                          op |-> IF read.snap.idx = 0 /\ read.snap.head = 0
                                 THEN "delete_untracked" ELSE "restore_index"]
            /\ read' = Nothing
       [] read.at = "stale" ->
            /\ read' = [read EXCEPT !.kind = "file", !.at = "go"]
            /\ loaded' = Nothing
       [] OTHER -> read' = Nothing /\ UNCHANGED loaded
  /\ UNCHANGED <<file, tokens, minted, cache, poll, write, request, prompt, excluded,
                 edits, clicks, using>>

(***************************************************************************)
(* The editor and the terminal.                                            *)
(***************************************************************************)
External(f) ==
  {[f EXCEPT !.wt = c, !.stamp = @ + 1] : c \in (Content \cup {0}) \ {f.wt}}
    \cup {[f EXCEPT !.idx = c] : c \in Content \ {f.idx}}
    \cup {[f EXCEPT !.head = f.idx]}

\* A worker has begun to look at the file and has not yet acted on it.
UnderDiscard(p) ==
  write # Nothing /\ write.at \in {"verify", "require", "act"} /\ write.path = p

Edit(p) ==
  /\ edits < MaxEdits
  /\ \E f \in External(file[p]) \ {file[p]} : file' = [file EXCEPT ![p] = f]
  /\ edits' = edits + 1
  /\ write' = IF UnderDiscard(p) THEN [write EXCEPT !.calm = FALSE] ELSE write
  /\ UNCHANGED <<cache, poll, read>> /\ UNCHANGED shell

ChangesInit ==
  /\ file \in [Path -> {[wt |-> c, idx |-> 1, head |-> 1, stamp |-> 0] : c \in Content}
                         \cup {[wt |-> c, idx |-> 0, head |-> 0, stamp |-> 0] : c \in {1}}]
  /\ tokens = [p \in Path |-> Nothing] /\ minted = 0
  /\ cache = [p \in Path |-> Nothing]
  /\ poll = Nothing /\ write = Nothing /\ read = Nothing /\ loaded = Nothing
  /\ request = 0 /\ prompt = Nothing /\ excluded = {}
  /\ using \in Uses /\ edits = 0 /\ clicks = 0

ChangesNext ==
  \/ refresh_changes \/ PollDone \/ PollFails
  \/ poll # Nothing /\ \E r \in poll : Fingerprint(r) \/ Capture(r)
  \/ \E p \in Path : OpenPathPrompt(p) \/ Toggle(p) \/ Review(p) \/ Edit(p)
  \/ OpenFilePrompt \/ discard_path \/ discard_review_file
  \/ OpenIndex \/ Verify \/ Require \/ Act \/ commit \/ CommitAdd \/ GitCommit
  \/ WriteStatus \/ WriteDone \/ WriteFails
  \/ expand_review_context \/ load_review_file \/ ReadFile \/ ReadDone

ChangesSpec == ChangesInit /\ [][ChangesNext]_changesVars

(***************************************************************************)
(* Properties.                                                             *)
(***************************************************************************)
\* What a discard throws away is, unless the file is changed between the
\* worker's look at it and its act, what was on record for the row or review
\* file that was confirmed; and for a row of the Changes list that is what the
\* row stood for when the prompt was opened, whatever polls came while it was
\* open (backend.rs:1415-1421).  A prompt opened on a review file promises less:
\* the file may be loaded again under its name while the prompt is open, and
\* what is thrown away is what was loaded last.
WritesWhatWasShown ==
  write # Nothing /\ write.at = "thrown" /\ write.calm
    => /\ write.met = write.snap
       /\ write.kind = "path" => write.met = write.saw
===============================================================================
