--------------------------- MODULE CheckEvidence ---------------------------
(***************************************************************************)
(* What a recorded check is evidence of.  check.run captures the identity  *)
(* of the workspace and then spawns the configured command                 *)
(* (tools/process_exec.rs); a capture reads HEAD, the status, the index    *)
(* and the contents one after the other (context snapshot.rs, probe.rs)    *)
(* while the user edits, stages, commits and switches; the panel reads the *)
(* newest call of a check, reads the workspace again and says whether the  *)
(* state that was checked is still the one on disk (runtime check.rs).     *)
(*                                                                         *)
(* A path holds a content, 0 when there is nothing there.  Digests are     *)
(* taken to be the contents themselves.  Opaque paths exist but cannot be  *)
(* read: the probe skips them and they count as one fixed digest.          *)
(***************************************************************************)
EXTENDS Integers, Sequences, FiniteSetsExt, Functions

CONSTANTS
    Paths, Opaque,  \* files of the workspace, and those that cannot be read
    Trees,          \* what the files may hold: functions from paths to contents
    Branches,
    Commits,        \* the trees of the commits there are, a sequence
    MaxEdits, MaxChecks,
    Passing,        \* the trees the command exits with zero on
    Outputs         \* the streams it may leave otherwise: sequences of lines

VARIABLES
    repo,     \* HEAD, branch, index and working tree
    edits,    \* how often the workspace was changed
    checkCalls,    \* the check.run calls, oldest first
    config,   \* which definition of the check is configured
    reader,   \* the capture or verification each side has under way
    panel     \* the projection in progress or shown

evidenceVars == <<repo, edits, checkCalls, config, reader, panel>>

NoBlob == 0
ReaderSides == {"tool", "panel"}
Unreadable == -1

ASSUME EvidenceConstants ==
    /\ Opaque \subseteq Paths /\ Paths \subseteq Nat /\ Passing \subseteq Trees /\ Trees \subseteq [Paths -> Nat]
    /\ \A c \in DOMAIN Commits : Commits[c] \in Trees
    /\ MaxEdits \in Nat /\ MaxChecks \in Nat

-----------------------------------------------------------------------------
(* The user at the workspace.  External: between two steps of a reading or *)
(* of a command anything may have been written, staged, committed, moved   *)
(* or checked out; a workspace is HEAD, the branch, the index and the tree.*)

Workspaces == [head : DOMAIN Commits, branch : Branches, index : Trees, work : Trees]

Rework ==
    /\ edits < MaxEdits
    /\ \E new \in Workspaces \ {repo} : repo' = new
    /\ edits' = edits + 1
    /\ UNCHANGED <<checkCalls, config, reader, panel>>

\* The checks of the project are replaced in the catalog.
Reconfigure == /\ config < 2
               /\ config' = config + 1
               /\ UNCHANGED <<repo, edits, checkCalls, reader, panel>>

-----------------------------------------------------------------------------
(* Reading a workspace (snapshot.rs collect, probe.rs). *)

IdleReader == [at |-> "idle", head |-> 0, branch |-> "none", entries |-> {}, todo |-> {},
         index |-> <<>>, staged |-> {}, dirty |-> {}, untracked |-> {}, began |-> 0]

\* What git status reports: staged, renamed from, changed on disk, untracked.
\* It looks for renames between HEAD and the index only.
detailed_status(r) ==
    LET tree == Commits[r.head]
        Renamed(q, p) == /\ tree[q] = NoBlob /\ r.index[q] # NoBlob
                         /\ tree[p] = r.index[q] /\ r.index[p] = NoBlob
        Source(q) == {p \in Paths : Renamed(q, p)}
        Gone(p) == \E q \in Paths : Renamed(q, p)
    IN  {[path |-> p, staged |-> r.index[p] # tree[p] /\ ~Gone(p), source |-> Source(p),
          dirty |-> r.index[p] # NoBlob /\ r.work[p] # r.index[p],
          untracked |-> r.index[p] = NoBlob /\ r.work[p] # NoBlob] : p \in Paths}

Reported(e) == e.staged \/ e.dirty \/ e.untracked

\* Content of one path, or the sentinel of a path that could not be read.
probe_content(p) ==
    IF p \in Opaque /\ repo.work[p] # NoBlob THEN Unreadable ELSE repo.work[p]

\* begin_read drops the cached index; then HEAD is resolved.
head_commit(side) ==
    /\ reader[side].at = "head"
    /\ reader' = [reader EXCEPT ![side] = [IdleReader EXCEPT !.at = "status", !.head = repo.head, !.began = edits]]
    /\ UNCHANGED <<repo, edits, checkCalls, config, panel>>

collect(side) ==
    LET entries == {e \in detailed_status(repo) : Reported(e)}
    IN  /\ reader[side].at = "status"
        /\ reader' = [reader EXCEPT ![side].at = "entries", ![side].branch = repo.branch,
                                    ![side].entries = entries, ![side].todo = entries]
        /\ UNCHANGED <<repo, edits, checkCalls, config, panel>>

\* A staged path contributes its blob, and a rename that its source is gone.
probe_staged_blob(e, index) == {<<e.path, index[e.path]>>} \union {<<p, NoBlob>> : p \in e.source}

\* One entry of the status; the index is loaded at the first staged one.
collect_entry(side, e) ==
    LET r == reader[side]
        index == IF r.index = <<>> /\ e.staged THEN repo.index ELSE r.index
        content == {<<e.path, probe_content(e.path)>>}
    IN  /\ r.at = "entries" /\ e \in r.todo
        /\ \A other \in r.todo : e.path <= other.path
        /\ reader' = [reader EXCEPT ![side] =
             [r EXCEPT !.todo = @ \ {e}, !.index = index,
                       !.staged = IF e.staged THEN @ \union probe_staged_blob(e, index) ELSE @,
                       !.untracked = IF e.untracked THEN @ \union content ELSE @,
                       !.dirty = IF e.dirty THEN @ \union content ELSE @]]
        /\ UNCHANGED <<repo, edits, checkCalls, config, panel>>

Collected(side) == reader[side].at = "entries" /\ reader[side].todo = {}

\* A reading is given up when the repository cannot be read.
CollectFails(side) == reader[side].at \in {"head", "status"}

assemble(r) == [head |-> r.head, branch |-> r.branch, staged |-> r.staged,
                dirty |-> r.dirty, untracked |-> r.untracked]

\* Faulty: only the paths that both sets name are compared.
ComparesCommon(snapshot, reading) ==
    LET Agree(s, t) == \A x \in s, y \in t : x[1] = y[1] => x[2] = y[2]
    IN  /\ snapshot.head = reading.head /\ snapshot.branch = reading.branch
        /\ Agree(snapshot.staged, reading.staged) /\ Agree(snapshot.dirty, reading.dirty)
        /\ Agree(snapshot.untracked, reading.untracked)

\* Nothing diverged in any component: paths added, removed or changed.
verify_against(snapshot, reading) ==
    /\ snapshot.head = reading.head
    /\ snapshot.branch = reading.branch
    /\ snapshot.staged = reading.staged
    /\ snapshot.dirty = reading.dirty
    /\ snapshot.untracked = reading.untracked

-----------------------------------------------------------------------------
(* The tool (process_exec.rs). *)

NoSnapshot == assemble(IdleReader)
Active == {"requested", "captured", "running"}
NoneActive == \A k \in 1 .. Len(checkCalls) : checkCalls[k].state \notin Active

\* The scheduler runs one mutating call of a workspace at a time.
run_configured_check ==
    /\ Len(checkCalls) < MaxChecks /\ NoneActive
    /\ checkCalls' = Append(checkCalls, [state |-> "requested", definition |-> config, snapshot |-> NoSnapshot,
                               saw |-> <<>>, from |-> 0, until |-> 0, artifact |-> "none", output |-> <<>>])
    /\ reader' = [reader EXCEPT !["tool"] = [IdleReader EXCEPT !.at = "head"]]
    /\ UNCHANGED <<repo, edits, config, panel>>

Newest == Len(checkCalls)

capture ==
    /\ Newest > 0 /\ checkCalls[Newest].state = "requested" /\ Collected("tool")
    /\ checkCalls' = [checkCalls EXCEPT ![Newest].state = "captured", ![Newest].snapshot = assemble(reader["tool"]),
                              ![Newest].from = reader["tool"].began, ![Newest].artifact = "available"]
    /\ reader' = [reader EXCEPT !["tool"] = IdleReader]
    /\ UNCHANGED <<repo, edits, config, panel>>

\* The command looks at the files at some moment of its run.
run_process ==
    /\ Newest > 0 /\ checkCalls[Newest].state = "captured"
    /\ checkCalls' = [checkCalls EXCEPT ![Newest].state = "running", ![Newest].saw = repo.work,
                              ![Newest].until = edits]
    /\ UNCHANGED <<repo, edits, config, reader, panel>>

\* Its exit code and the streams it left behind.
execute(output) ==
    /\ Newest > 0 /\ checkCalls[Newest].state = "running"
    /\ output = <<>> <=> checkCalls[Newest].saw \in Passing
    /\ checkCalls' = [checkCalls EXCEPT ![Newest].output = output,
                   ![Newest].state = IF checkCalls[Newest].saw \in Passing THEN "passed" ELSE "failed_check"]
    /\ UNCHANGED <<repo, edits, config, reader, panel>>

\* Cancelled, interrupted, or the capture failed: a call without an output.
CallEnds(outcome) ==
    /\ Newest > 0 /\ checkCalls[Newest].state \in Active
    /\ outcome = "failed" => checkCalls[Newest].state = "requested" /\ CollectFails("tool")
    /\ checkCalls' = [checkCalls EXCEPT ![Newest].state = outcome]
    /\ reader' = [reader EXCEPT !["tool"] = IdleReader]
    /\ UNCHANGED <<repo, edits, config, panel>>

\* Retention prunes the artifact of an ended call.
Prune(k) ==
    /\ checkCalls[k].state \notin Active /\ checkCalls[k].artifact = "available"
    /\ checkCalls' = [checkCalls EXCEPT ![k].artifact = "pruned"]
    /\ UNCHANGED <<repo, edits, config, reader, panel>>

-----------------------------------------------------------------------------
(* The diagnostics of one output (check.rs).  A line is [size, kind], kind *)
(* "message" for a compiler message and "other" for anything else.         *)

MaxDiagnostics == 1     \* MAX_CHECK_DIAGNOSTICS
MaxLine == 2            \* MAX_DIAGNOSTIC_LINE_BYTES
MaxScan == 5            \* MAX_DIAGNOSTIC_SCAN_BYTES
MaxLines == 3           \* MAX_DIAGNOSTIC_SCAN_LINES

Smaller(a, b) == IF a < b THEN a ELSE b

\* Scanning line after line: bytes and lines so far, what was kept and left.
Scan(stream) ==
    LET s[n \in 0 .. Len(stream)] ==
          IF n = 0 THEN [bytes |-> 0, lines |-> 0, kept |-> 0, omitted |-> 0]
          ELSE LET b == s[n - 1]
                   line == stream[n]
                   left == MaxScan - b.bytes
                   taken == Smaller(line.size, left)
                   whole == taken = line.size
                   oversized == taken > MaxLine
                   found == ~oversized /\ whole /\ line.kind = "message"
               IN  IF b.bytes >= MaxScan \/ b.lines >= MaxLines THEN b
                   ELSE [bytes |-> b.bytes + taken, lines |-> b.lines + 1,
                         kept |-> IF found /\ b.kept < MaxDiagnostics THEN b.kept + 1 ELSE b.kept,
                         omitted |-> IF oversized \/ (found /\ b.kept >= MaxDiagnostics)
                                     THEN b.omitted + 1 ELSE b.omitted]
    IN  s[Len(stream)]

StreamBytes(stream) == FoldFunction(LAMBDA l, n : l.size + n, 0, stream)

\* The scan says so when it stopped before the end of the stream.
parse_cargo_stream(stream) ==
    LET s == Scan(stream) IN [kept |-> s.kept, omitted |-> s.omitted,
                              truncated |-> /\ (s.bytes >= MaxScan \/ s.lines >= MaxLines)
                                            /\ s.bytes < StreamBytes(stream)]

Messages(stream) == Cardinality({n \in 1 .. Len(stream) : stream[n].kind = "message"})

-----------------------------------------------------------------------------
(* The panel (check.rs project_checks). *)

BlankPanel == [at |-> "idle", call |-> 0, outcome |-> "none", freshness |-> "none",
          definition |-> FALSE, tree |-> <<>>, quiet |-> FALSE]

Finished == {"passed", "failed_check"}

\* The newest call of the check, ended or not.
project_latest_check_call_ids == {k \in 1 .. Len(checkCalls) : k = Len(checkCalls)}

definition_matches(call) == call.definition = config

\* Load the call; one with a snapshot to verify makes the panel read.
project_checks ==
    /\ panel.at # "reading"
    /\ \E k \in project_latest_check_call_ids :
         LET call == checkCalls[k]
             verifies == call.state \in Finished /\ call.artifact = "available"
         IN  /\ panel' = [BlankPanel EXCEPT !.at = IF verifies THEN "reading" ELSE "shown", !.call = k,
                                       !.outcome = call.state, !.freshness = "unverifiable",
                                       !.definition = definition_matches(call)]
             /\ reader' = IF verifies THEN [reader EXCEPT !["panel"] = [IdleReader EXCEPT !.at = "head"]]
                          ELSE reader
    /\ UNCHANGED <<repo, edits, checkCalls, config>>

verify_output_state ==
    LET snapshot == checkCalls[panel.call].snapshot
        reading == assemble(reader["panel"])
    IN  /\ panel.at = "reading" /\ Collected("panel")
        /\ panel' = [panel EXCEPT !.at = "shown", !.tree = repo.work,
                                  !.quiet = reader["panel"].began = edits,
                                  !.freshness = IF verify_against(snapshot, reading) THEN "current" ELSE "stale"]
        /\ reader' = [reader EXCEPT !["panel"] = IdleReader]
        /\ UNCHANGED <<repo, edits, checkCalls, config>>

VerificationFails ==
    /\ panel.at = "reading" /\ CollectFails("panel")
    /\ panel' = [panel EXCEPT !.at = "shown"]
    /\ reader' = [reader EXCEPT !["panel"] = IdleReader]
    /\ UNCHANGED <<repo, edits, checkCalls, config>>

EvidenceInit ==
    /\ repo \in Workspaces
    /\ edits = 0 /\ checkCalls = <<>> /\ config = 1
    /\ reader = [s \in ReaderSides |-> IdleReader] /\ panel = BlankPanel

EvidenceNext ==
    \/ Rework \/ Reconfigure
    \/ \E side \in ReaderSides :
         \/ head_commit(side) \/ collect(side)
         \/ \E e \in reader[side].todo : collect_entry(side, e)
    \/ run_configured_check \/ capture \/ run_process
    \/ \E out \in Outputs \union {<<>>} : execute(out)
    \/ \E o \in {"failed", "cancelled", "interrupted"} : CallEnds(o)
    \/ \E k \in 1 .. Len(checkCalls) : Prune(k)
    \/ project_checks \/ verify_output_state \/ VerificationFails

EvidenceSpec == EvidenceInit /\ [][EvidenceNext]_evidenceVars

-----------------------------------------------------------------------------
(* Properties. *)

ReadablePaths(t) == [p \in Paths \ Opaque |-> t[p]]

ShownCurrent == panel.at = "shown" /\ panel.freshness = "current"

\* A check shown as current, of a command during which nobody touched the
\* workspace, ran against the very files that are on disk when the panel reads
\* them, whatever was staged, committed, renamed or switched in between
\* (check.rs verify_output_state, snapshot.rs verify_against).
CheckedIsHere ==
    (ShownCurrent /\ panel.quiet /\ checkCalls[panel.call].from = checkCalls[panel.call].until) =>
        ReadablePaths(checkCalls[panel.call].saw) = ReadablePaths(panel.tree)

\* No compiler message disappears: each is listed or counted as omitted, or the
\* projection says that it did not read everything (check.rs
\* parse_cargo_stream, read_bounded_line).
NothingLostSilently ==
    \A k \in 1 .. Len(checkCalls) :
      LET d == parse_cargo_stream(checkCalls[k].output)
      IN  ~d.truncated => d.kept + d.omitted >= Messages(checkCalls[k].output)

\* What the panel says of a check is true of the workspace it shows it beside,
\* and of the output the check left.
EvidenceTrue == CheckedIsHere /\ NothingLostSilently
=============================================================================
