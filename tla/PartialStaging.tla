------------------------- MODULE PartialStaging -------------------------
(***************************************************************************)
(* Staging, unstaging and discarding part of a file.  A reader takes hunks *)
(* or lines from a diff it read earlier; harkness-git recomputes the diff, *)
(* finds what was named, renders a patch of the chosen lines, lets libgit2 *)
(* check it, and applies it: libgit2 to the index, a process of the system *)
(* git to the working tree.  The repository lock is held all the while and *)
(* holds off other calls of harkness, not an editor or somebody's git: the *)
(* world moves between any two of these steps.                             *)
(*                                                                         *)
(* One file, at HEAD, in the index and in the working tree.  A text is a   *)
(* sequence of lines; a line is a positive number, or its negative when it *)
(* is the last line and no newline ends it.  Two lines whose numbers agree *)
(* up to the last digit differ in white space only.                        *)
(***************************************************************************)
EXTENDS Integers, Sequences, FiniteSets, SequencesExt

CONSTANTS
    Texts,        \* the texts the editor may leave in the working tree
    Contexts,     \* the numbers of context lines a diff is asked with
    MaxMoves      \* how often the world or the reader may act

ASSUME StagingConstants ==
    /\ \A t \in Texts : t.there \in BOOLEAN /\ t.lines \in Seq(Int)
    /\ Contexts \subseteq Nat \ {0}
    /\ MaxMoves \in Nat

VARIABLES
    head, index, work,   \* the file at the three places
    held,                \* the hunk of a white-space view the reader points at
    batch,               \* the selections handed to the git layer
    mutation,            \* how far the git layer is with them
    outcome,             \* what the last batch did
    moves                \* how often the world or the reader acted

stagingVars == <<head, index, work, held, batch, mutation, outcome, moves>>

Absent == [there |-> FALSE, lines |-> <<>>]

Modes == {"stage", "unstage", "discard"}

-----------------------------------------------------------------------------
(* The diff of two texts, as libgit2 gives it. *)

Abs(a) == IF a < 0 THEN -a ELSE a

\* Two lines count as one: `ignore_whitespace_change`, or byte for byte.
Same(a, b, loosely) ==
    IF loosely THEN Abs(a) \div 10 = Abs(b) \div 10 ELSE a = b

\* A shortest edit script, deletions before additions in every run of changes.
Script(o, n, loosely) ==
    LET Op(k, i, j, t) == [kind |-> k, old |-> i, new |-> j, line |-> t]
        Grow(op, c) == [same |-> c.same + (IF op.kind = "context" THEN 1 ELSE 0),
                        ops |-> <<op>> \o c.ops]
        \* The scripts of o[i..] to n[j..] for j = Len(n) + 1 down to 1, given
        \* those of o[i + 1..].
        Cell(i, row, below) ==
            LET j == Len(n) + 1 - Len(row)
                Del == Grow(Op("deletion", i, 0, o[i]), below[Len(row) + 1])
                Add == Grow(Op("addition", 0, j, n[j]), row[Len(row)])
                Both == Grow(Op("context", i, j, o[i]), below[Len(row)])
            IN  CASE i > Len(o) /\ row = <<>> -> [same |-> 0, ops |-> <<>>]
                  [] i > Len(o) /\ row # <<>> -> Add
                  [] i <= Len(o) /\ row = <<>> -> Del
                  [] OTHER -> IF Same(o[i], n[j], loosely) THEN Both
                              ELSE IF Del.same >= Add.same THEN Del ELSE Add
        Row(i, below) ==
            FoldLeft(LAMBDA row, x : Append(row, Cell(i, row, below)),
                     <<>>, [k \in 1 .. Len(n) + 1 |-> k])
        Rows == FoldLeft(LAMBDA below, k : Row(Len(o) + 2 - k, below),
                         <<>>, [k \in 1 .. Len(o) + 1 |-> k])
    IN  Rows[Len(n) + 1].ops

Changed(op) == op.kind # "context"

Coordinates(op) == <<op.old, op.new>>

\* How many lines of one side the operations hold.
OldLines(ops) == Len(SelectSeq(ops, LAMBDA op : op.kind # "addition"))
NewLines(ops) == Len(SelectSeq(ops, LAMBDA op : op.kind # "deletion"))

\* Changes with at most 2 * c lines between them share a hunk, which reaches c
\* lines further on both sides.
Spans(ops, c) ==
    LET Hot == {i \in DOMAIN ops : Changed(ops[i])}
        Starts == {i \in Hot : \A k \in Hot : k < i => i - k > 2 * c + 1}
        Ends == {i \in Hot : \A k \in Hot : k > i => k - i > 2 * c + 1}
    IN  {<<IF s - c < 1 THEN 1 ELSE s - c,
           IF e + c > Len(ops) THEN Len(ops) ELSE e + c>> :
            <<s, e>> \in {p \in Starts \X Ends :
                p[1] <= p[2] /\ ~\E q \in Ends : p[1] <= q /\ q < p[2]}}

\* A side with no line is placed at the line before it.
HunkAt(ops, lo, hi) ==
    LET before == SubSeq(ops, 1, lo - 1)
        inside == SubSeq(ops, lo, hi)
        Start(b, k) == b + (IF k = 0 THEN 0 ELSE 1)
    IN  [old_start |-> Start(OldLines(before), OldLines(inside)),
         old_lines |-> OldLines(inside),
         new_start |-> Start(NewLines(before), NewLines(inside)),
         new_lines |-> NewLines(inside),
         lines |-> inside]

collect_hunks(o, n, c, loosely) ==
    LET ops == Script(o.lines, n.lines, loosely)
    IN  {HunkAt(ops, s[1], s[2]) : s \in Spans(ops, c)}

\* The two sides a mode compares.
Sides(mode) ==
    IF mode = "unstage" THEN [old |-> head, new |-> index]
    ELSE [old |-> index, new |-> work]

file_change(mode, old, new) ==
    CASE ~old.there /\ mode # "unstage" -> "untracked"
      [] ~old.there /\ mode = "unstage" -> "added"
      [] old.there /\ ~new.there -> "deleted"
      [] OTHER -> "modified"

FileDiff(mode, old, new, c, loosely) ==
    [old_blob |-> old, new_blob |-> new, context_lines |-> c,
     change |-> file_change(mode, old, new),
     hunks |-> collect_hunks(old, new, c, loosely)]

compute(mode, c, loosely) ==
    IF Sides(mode).old = Sides(mode).new THEN {}
    ELSE {FileDiff(mode, Sides(mode).old, Sides(mode).new, c, loosely)}

-----------------------------------------------------------------------------
(* Selections. *)

SpanOf(hunk) == <<hunk.old_start, hunk.old_lines, hunk.new_start, hunk.new_lines>>

\* A selection; a whole hunk names no line.
HunkSelection(file, hunk) ==
    [old_blob |-> file.old_blob, new_blob |-> file.new_blob,
     context_lines |-> file.context_lines, range |-> SpanOf(hunk), line |-> <<0, 0>>]

LineSelection(file, hunk, op) ==
    [HunkSelection(file, hunk) EXCEPT !.line = Coordinates(op)]

IsWhole(selection) == selection.line = <<0, 0>>

ChangedOps(hunk) == {hunk.lines[i] : i \in {k \in DOMAIN hunk.lines : Changed(hunk.lines[k])}}

NoBatch == [mode |-> "none", selections |-> {}, seen |-> {}]

\* A mutation: the numbers of context lines its diff has been recomputed with,
\* the diffs, what the index held since its repository was opened, and whether
\* the side it writes has stayed as it was.
NoMutation == [step |-> "none", read |-> {}, fresh |-> {}, loaded |-> {}, calm |-> TRUE]

NoOutcome == [verdict |-> "none", mode |-> "none", seen |-> {}, wrote |-> {},
              old |-> Absent, new |-> Absent, before |-> Absent, post |-> Absent,
              whole |-> TRUE, calm |-> TRUE]

NothingHeld == [mode |-> "none", file |-> {}, hunk |-> {}]

Idle == batch = NoBatch /\ held = NothingHeld

-----------------------------------------------------------------------------
(* The world. *)

\* The file a mode writes, and what a change of one means to a mutation.
Target(mode) == IF mode = "discard" THEN "work" ELSE "index"

Beside(place) ==
    mutation' = IF mutation = NoMutation THEN NoMutation
                ELSE [mutation EXCEPT !.calm = @ /\ place # Target(batch.mode),
                                      !.loaded = @ \cup {index'}]

Edit(t) ==
    /\ moves < MaxMoves /\ t # work
    /\ work' = t /\ moves' = moves + 1
    /\ outcome' = NoOutcome
    /\ UNCHANGED <<head, index, held, batch>>
    /\ Beside("work")

\* `git add` and `git commit` of the file by anyone.
AddAll ==
    /\ moves < MaxMoves /\ index # work
    /\ index' = work /\ moves' = moves + 1
    /\ outcome' = NoOutcome
    /\ UNCHANGED <<head, work, held, batch>>
    /\ Beside("index")

CommitIndex ==
    /\ moves < MaxMoves /\ head # index
    /\ head' = index /\ moves' = moves + 1
    /\ outcome' = NoOutcome
    /\ UNCHANGED <<index, work, held, batch>>
    /\ Beside("head")

-----------------------------------------------------------------------------
(* The reader. *)

\* A selection document naming whole hunks of one diff, or of two asked with
\* different numbers of context lines.
ChooseHunks(mode) ==
    /\ Idle /\ moves < MaxMoves
    /\ \E c1, c2 \in Contexts : \E f1 \in compute(mode, c1, FALSE),
                                   f2 \in compute(mode, c2, FALSE) :
        \E h1 \in f1.hunks, h2 \in f2.hunks :
            batch' = [mode |-> mode,
                      selections |-> {HunkSelection(f1, h1), HunkSelection(f2, h2)},
                      seen |-> ChangedOps(h1) \cup ChangedOps(h2)]
    /\ moves' = moves + 1 /\ outcome' = NoOutcome
    /\ UNCHANGED <<head, index, work, held, mutation>>

\* A document naming changed lines of one diff.
ChooseLines(mode) ==
    /\ Idle /\ moves < MaxMoves
    /\ \E c \in Contexts : \E f \in compute(mode, c, FALSE) :
        LET Named == UNION {{<<h, op>> : op \in ChangedOps(h)} : h \in f.hunks}
        IN  \E chosen \in SUBSET Named \ {{}} :
                batch' = [mode |-> mode,
                          selections |-> {LineSelection(f, p[1], p[2]) : p \in chosen},
                          seen |-> {p[2] : p \in chosen}]
    /\ moves' = moves + 1 /\ outcome' = NoOutcome
    /\ UNCHANGED <<head, index, work, held, mutation>>

\* The review pane shows a hunk of a white-space view and the reader asks for
\* its discard.
RequestDiscard ==
    /\ Idle /\ moves < MaxMoves
    /\ \E c \in Contexts : \E f \in compute("discard", c, TRUE) : \E h \in f.hunks :
        held' = [mode |-> "discard", file |-> {f}, hunk |-> {h}]
    /\ moves' = moves + 1 /\ outcome' = NoOutcome
    /\ UNCHANGED <<head, index, work, batch, mutation>>

\* Whether two hunks cover a line in common on either side.
Meet(s1, n1, s2, n2) ==
    LET Up(k) == IF k < 1 THEN 1 ELSE k
    IN  Up(s1) < Up(s2) + Up(n2) /\ Up(s2) < Up(s1) + Up(n1)

overlaps(a, b) ==
    \/ Meet(a.old_start, a.old_lines, b.old_start, b.old_lines)
    \/ Meet(a.new_start, a.new_lines, b.new_start, b.new_lines)

\* Faulty: takes the view's blobs on trust.
RemapsStale(view, hunk, exact) ==
    {HunkSelection(exact, h) : h \in {k \in exact.hunks : overlaps(hunk, k)}}

\* The exact hunks under a hunk of the view; none when they change anything
\* the view does not show.
remap_to_exact(view, hunk, exact) ==
    LET candidates == {k \in exact.hunks : overlaps(hunk, k)}
        found == UNION {ChangedOps(k) : k \in candidates}
    IN  IF \/ view.old_blob # exact.old_blob \/ view.new_blob # exact.new_blob
           \/ found # ChangedOps(hunk)
        THEN {}
        ELSE {HunkSelection(exact, h) : h \in candidates}

\* The discard worker reads the exact diff again and maps the view onto it.
Remap ==
    /\ held # NothingHeld
    /\ \E f \in held.file, h \in held.hunk :
        LET exact == compute("discard", f.context_lines, FALSE)
            chosen == UNION {remap_to_exact(f, h, e) : e \in exact}
        IN  batch' = IF chosen = {} THEN NoBatch
                     ELSE [mode |-> "discard", selections |-> chosen,
                           seen |-> ChangedOps(h)]
    /\ held' = NothingHeld
    /\ UNCHANGED <<head, index, work, mutation, outcome, moves>>

-----------------------------------------------------------------------------
(* Preparing the batch. *)

Direction(mode) == IF mode = "stage" THEN "forward" ELSE "reverse"

\* The numbers of context lines the batch was read with.
ContextsOf(b) == {s.context_lines : s \in b.selections}

\* The fresh hunk a selection names, if any.
Find(fresh, selection) ==
    {h \in UNION {f.hunks : f \in {g \in fresh :
                       /\ g.context_lines = selection.context_lines
                       /\ g.old_blob = selection.old_blob /\ g.new_blob = selection.new_blob}} :
        SpanOf(h) = selection.range}

\* A discard never deletes an untracked file.  (A text file that is not renamed
\* meets none of the other refusals.)
refuse_unsupported(mode, fresh) ==
    mode = "discard" /\ \E f \in fresh : f.change = "untracked"

\* The selections whose hunk or line the fresh diff no longer has.
Missing(fresh, selections) ==
    {s \in selections :
        /\ Find(fresh, s) = {} \/ ~IsWhole(s)
        /\ \A h \in Find(fresh, s) : s.line \notin {Coordinates(op) : op \in ChangedOps(h)}}

\* The hunks of the batch, each with the lines taken from it.
prepare(fresh, selections) ==
    LET Taken(h) == UNION {IF IsWhole(s) THEN {Coordinates(op) : op \in ChangedOps(h)}
                           ELSE {s.line} : s \in {x \in selections : h \in Find(fresh, x)}}
    IN  {[hunk |-> h, taken |-> Taken(h), whole |-> \A s \in selections : IsWhole(s)] : h \in UNION {Find(fresh, s) : s \in selections}}

ranges_intersect(s1, n1, s2, n2) ==
    LET Up(k) == IF k < 1 THEN 1 ELSE k
    IN  s1 < s2 + Up(n2) /\ s2 < s1 + Up(n1)

refuse_overlaps(prepared) ==
    \E p, q \in prepared :
        /\ p.hunk # q.hunk
        /\ \/ ranges_intersect(p.hunk.old_start, p.hunk.old_lines, q.hunk.old_start, q.hunk.old_lines)
           \/ ranges_intersect(p.hunk.new_start, p.hunk.new_lines, q.hunk.new_start, q.hunk.new_lines)

-----------------------------------------------------------------------------
(* Rendering the patch.  A group is a line as the patch writes it: "context", *)
(* "minus" (on the source side) or "plus" (on the result side).               *)

\* What a line of the diff becomes: a chosen change stays a change, and one
\* that was not chosen disappears from the result side or stays on both.
Becomes(op, taken, dir) ==
    LET source == IF dir = "forward" THEN "deletion" ELSE "addition"
    IN  CASE op.kind = "context" -> "context"
          [] Coordinates(op) \in taken -> IF op.kind = source THEN "minus" ELSE "plus"
          [] Coordinates(op) \notin taken /\ op.kind = source -> "context"
          [] OTHER -> "gone"

\* Where a line stands in its run: the k-th deletion next to the k-th addition.
RunOf(lines, i) ==
    LET Borders == {k \in 1 .. i : ~Changed(lines[k])}
    IN  IF Borders = {} THEN 0 ELSE CHOOSE k \in Borders : \A m \in Borders : m <= k

PlaceOf(lines, i) ==
    IF ~Changed(lines[i]) THEN <<i, 0, 0>>
    ELSE <<RunOf(lines, i),
           Cardinality({k \in 1 .. i : RunOf(lines, k) = RunOf(lines, i)
                                       /\ lines[k].kind = lines[i].kind}),
           IF lines[i].kind = "deletion" THEN 0 ELSE 1>>

Before(p, q) ==
    \/ p[1] < q[1]
    \/ p[1] = q[1] /\ p[2] < q[2]
    \/ p[1] = q[1] /\ p[2] = q[2] /\ p[3] < q[3]

push_selected_change_run(lines) ==
    LET placed == SortSeq([k \in DOMAIN lines |-> <<PlaceOf(lines, k), k>>],
                          LAMBDA p, q : Before(p[1], q[1]))
    IN  [k \in DOMAIN placed |-> placed[k][2]]

\* Reversed, each run writes the lines it takes away first.
drain_reversed_run(groups, dir) ==
    IF dir = "forward" THEN groups
    ELSE LET RunNo(i) == Cardinality({k \in 1 .. i : groups[k].as = "context"})
             Rank(i) == CASE groups[i].as = "context" -> 0
                          [] groups[i].as = "minus" -> 1
                          [] OTHER -> 2
             placed == SortSeq([k \in DOMAIN groups |-> <<<<RunNo(k), Rank(k), k>>, groups[k]>>],
                               LAMBDA p, q : Before(p[1], q[1]))
         IN  [k \in DOMAIN placed |-> placed[k][2]]

resolve_render_groups(p) ==
    IF p.whole THEN [k \in DOMAIN p.hunk.lines |-> k]
    ELSE push_selected_change_run(p.hunk.lines)

ordered_render_groups(p, dir) ==
    LET order == resolve_render_groups(p)
        written == [k \in DOMAIN order |->
                       [as |-> Becomes(p.hunk.lines[order[k]], p.taken, dir),
                        line |-> p.hunk.lines[order[k]].line]]
    IN  drain_reversed_run(SelectSeq(written, LAMBDA g : g.as # "gone"), dir)

SourceLines(groups) == SelectSeq(groups, LAMBDA g : g.as # "plus")
ResultLines(groups) == SelectSeq(groups, LAMBDA g : g.as # "minus")

plan_hunk(p, dir) ==
    LET groups == ordered_render_groups(p, dir)
    IN  [source_start |-> IF dir = "forward" THEN p.hunk.old_start ELSE p.hunk.new_start,
         result_start |-> IF dir = "forward" THEN p.hunk.new_start ELSE p.hunk.old_start,
         source_lines |-> Len(SourceLines(groups)),
         result_lines |-> Len(ResultLines(groups)),
         groups |-> groups]

render_patch(prepared, dir) ==
    SortSeq(SetToSeq({plan_hunk(p, dir) : p \in prepared}),
            LAMBDA a, b : a.source_start < b.source_start)

Occupies(g) == IF g.as = "context" THEN {"source", "result"}
               ELSE IF g.as = "minus" THEN {"source"} ELSE {"result"}

\* A line without a newline may end only the sides it stands on.
refuse_stranded_eof_markers(patch) ==
    LET all == FlattenSeq([k \in DOMAIN patch |-> patch[k].groups])
    IN  \E i, k \in DOMAIN all :
            i < k /\ all[i].line < 0 /\ Occupies(all[i]) \cap Occupies(all[k]) # {}

\* Where a hunk starts in the image that the earlier hunks have left.
render_hunk(patch, k) ==
    LET drift == FoldLeft(LAMBDA d, h : d + h.result_lines - h.source_lines,
                          0, SubSeq(patch, 1, k - 1))
        start == patch[k].source_start + drift
    IN  IF patch[k].result_lines = 0 THEN 0
        ELSE IF start < 1 THEN 1 ELSE start

-----------------------------------------------------------------------------
(* libgit2's parser and apply. *)

\* The parser takes the mark of a missing newline only where the source side
\* of the hunk is over.
Parses(patch) ==
    \A k \in DOMAIN patch : \A i, m \in DOMAIN patch[k].groups :
        ~(/\ i < m /\ patch[k].groups[i].line < 0
          /\ "source" \in Occupies(patch[k].groups[m]))

Lines(groups) == [k \in DOMAIN groups |-> groups[k].line]

\* Every hunk replaces its source lines at its start, or the apply fails.
ApplyAt(image, groups, start) ==
    LET pos == IF start = 0 THEN 0 ELSE IF start - 1 > Len(image) THEN Len(image) ELSE start - 1
        pre == Lines(SourceLines(groups))
        post == Lines(ResultLines(groups))
    IN  IF pos + Len(pre) <= Len(image) /\ SubSeq(image, pos + 1, pos + Len(pre)) = pre
        THEN {SubSeq(image, 1, pos) \o post \o SubSeq(image, pos + Len(pre) + 1, Len(image))}
        ELSE {}

Applied(image, patch) ==
    FoldLeft(LAMBDA images, k : UNION {ApplyAt(i, patch[k].groups, render_hunk(patch, k)) : i \in images},
             {image}, [k \in DOMAIN patch |-> k])

-----------------------------------------------------------------------------
(* `git apply`.  It does not ask for the blobs the patch was made from.  Each *)
(* hunk goes where its source lines stand, at or nearest to its own start,    *)
(* forward first, and never over a line an earlier hunk wrote.  The image is  *)
(* a sequence of lines, each with the mark that the patch wrote it.           *)

Unmarked(lines) == [k \in DOMAIN lines |-> [line |-> lines[k], mine |-> FALSE]]

\* A hunk that starts with the first line stays there, and one that ends without
\* context ends the file.  Bytes are compared up to the end of the hunk: a last
\* context line without a newline also fits one that has it.
Fits(image, h, pos) ==
    LET pre == Lines(SourceLines(h.groups))
        AtEnd == Last(h.groups).as # "context"
    IN  /\ pos + Len(pre) <= Len(image)
        /\ h.source_start <= 1 => pos = 0
        /\ AtEnd => pos + Len(pre) = Len(image)
        /\ \A k \in DOMAIN pre :
             /\ ~image[pos + k].mine
             /\ \/ image[pos + k].line = pre[k]
                \/ k = Len(pre) /\ ~AtEnd /\ image[pos + k].line = Abs(pre[k])

SearchAt(image, h, start) ==
    LET wanted == IF start = 0 THEN 0 ELSE start - 1
        Far(pos) == 2 * Abs(pos - wanted) + (IF pos < wanted THEN 1 ELSE 0)
        places == {pos \in 0 .. Len(image) : Fits(image, h, pos)}
        post == Lines(ResultLines(h.groups))
    IN  {SubSeq(image, 1, pos) \o [k \in DOMAIN post |-> [line |-> post[k], mine |-> TRUE]]
           \o SubSeq(image, pos + Len(SourceLines(h.groups)) + 1, Len(image)) :
         pos \in {p \in places : \A q \in places : Far(p) <= Far(q)}}

Searched(image, patch) ==
    FoldLeft(LAMBDA images, k : UNION {SearchAt(i, patch[k], render_hunk(patch, k)) : i \in images},
             {Unmarked(image)}, [k \in DOMAIN patch |-> k])

-----------------------------------------------------------------------------
(* The mutation. *)

\* The text the batch was made from, on each side.
Blobs == CHOOSE b \in {[old |-> s.old_blob, new |-> s.new_blob] : s \in batch.selections} : TRUE

\* What the batch is once all its diffs are recomputed.
Prepared == prepare(mutation.fresh, batch.selections)
Patch == render_patch(Prepared, Direction(batch.mode))

\* The two sides of the patch; a side that disappears stays when the patch
\* leaves lines of it.
Creates == ~(IF batch.mode = "stage" THEN Blobs.old ELSE Blobs.new).there
render_file ==
    (IF batch.mode = "stage" THEN Blobs.new ELSE Blobs.old).there
        \/ \E k \in DOMAIN Patch : Patch[k].result_lines > 0
Written(lines) == IF render_file THEN [there |-> TRUE, lines |-> lines] ELSE Absent

\* What libgit2 looks at: the working tree as it is, or an index loaded at some
\* moment since the repository was opened.  A patch that creates the file does
\* not look at it.
Images == IF batch.mode = "discard" THEN {work} ELSE mutation.loaded
Fixed(image) == IF Creates THEN Applied(<<>>, Patch)
                ELSE IF image.there THEN Applied(image.lines, Patch) ELSE {}

OutcomeOf(verdict) ==
    [verdict |-> verdict, mode |-> batch.mode, seen |-> batch.seen,
     wrote |-> {op \in UNION {ChangedOps(p.hunk) : p \in Prepared} :
                  \E p \in Prepared : op \in ChangedOps(p.hunk) /\ Coordinates(op) \in p.taken},
     old |-> Blobs.old, new |-> Blobs.new,
     before |-> IF batch.mode = "discard" THEN work ELSE index, post |-> Absent,
     whole |-> \A s \in batch.selections : IsWhole(s), calm |-> mutation.calm]

Settle(report) == outcome' = report /\ batch' = NoBatch /\ mutation' = NoMutation

\* The repository is opened under the lock.
mutate ==
    /\ batch # NoBatch /\ mutation = NoMutation
    /\ mutation' = [NoMutation EXCEPT !.step = "diffs", !.loaded = {index}]
    /\ UNCHANGED <<head, index, work, held, batch, outcome, moves>>

\* The diff of the mode's two sides, once for each number of context lines, each
\* time with a look at the token.
Unread == ContextsOf(batch) \ mutation.read
recompute ==
    /\ mutation.step = "diffs"
    /\ \E c \in Unread :
         /\ \A d \in Unread : c <= d
         /\ mutation' = [mutation EXCEPT !.read = @ \cup {c},
                                        !.fresh = @ \cup compute(batch.mode, c, FALSE)]
    /\ UNCHANGED <<head, index, work, held, batch, outcome, moves>>

cancelled ==
    /\ mutation.step = "diffs"
    /\ Settle([NoOutcome EXCEPT !.verdict = "cancelled"])
    /\ UNCHANGED <<head, index, work, held, moves>>

\* What becomes of a batch before anything is written; the patch is rendered
\* when nothing refused it, and libgit2 checks it.
Verdict(image) ==
    IF Missing(mutation.fresh, batch.selections) # {} THEN "stale"
    ELSE IF refuse_unsupported(batch.mode, mutation.fresh) THEN "unsupported"
    ELSE IF refuse_overlaps(Prepared) THEN "overlapping"
    ELSE IF refuse_stranded_eof_markers(Patch) THEN "unrepresentable"
    ELSE IF Parses(Patch) /\ Fixed(image) # {} THEN "sound"
    ELSE "failed"

check_patch ==
    /\ mutation.step = "diffs" /\ Unread = {}
    /\ \E image \in Images :
         LET verdict == Verdict(image)
         IN  IF verdict = "sound"
             THEN mutation' = [mutation EXCEPT !.step = "checked"] /\ UNCHANGED <<batch, outcome>>
             ELSE Settle(OutcomeOf(verdict))
    /\ UNCHANGED <<head, index, work, held, moves>>

\* The index: libgit2 once more, with the lines where the patch says they are.
apply_index ==
    /\ mutation.step = "checked" /\ batch.mode # "discard"
    /\ \E image \in Images :
         \/ Fixed(image) = {} /\ Settle(OutcomeOf("failed")) /\ UNCHANGED index
         \/ \E lines \in Fixed(image) :
              /\ index' = Written(lines)
              /\ Settle([OutcomeOf("done") EXCEPT !.post = Written(lines)])
    /\ UNCHANGED <<head, work, held, moves>>

\* The working tree: git apply, on the file as it is by then.  A file the patch
\* creates may not be there, one it changes must be.
apply_worktree ==
    /\ mutation.step = "checked" /\ batch.mode = "discard"
    /\ LET images == IF work.there = Creates THEN {} ELSE Searched(work.lines, Patch)
       IN  \/ images = {} /\ Settle(OutcomeOf("failed")) /\ UNCHANGED work
           \/ \E image \in images :
                LET file == Written([k \in DOMAIN image |-> image[k].line])
                IN  work' = file /\ Settle([OutcomeOf("done") EXCEPT !.post = file])
    /\ UNCHANGED <<head, index, held, moves>>

StagingInit ==
    /\ head \in Texts /\ work \in Texts /\ index \in {head, work}
    /\ held = NothingHeld /\ batch = NoBatch /\ mutation = NoMutation
    /\ outcome = NoOutcome /\ moves = 0

StagingNext ==
    \/ \E t \in Texts : Edit(t)
    \/ AddAll \/ CommitIndex
    \/ \E mode \in Modes : ChooseHunks(mode) \/ ChooseLines(mode)
    \/ RequestDiscard \/ Remap
    \/ mutate \/ recompute \/ cancelled \/ check_patch \/ apply_index \/ apply_worktree

StagingSpec == StagingInit /\ [][StagingNext]_stagingVars

-----------------------------------------------------------------------------
(* Properties. *)

\* What a batch writes is what the reader saw and chose: the same changes of the
\* same lines, with the same bytes, however the file, the index or HEAD moved
\* since the diff was read, and through a white-space view too.
WritesTheSeen == outcome.verdict = "done" => outcome.wrote = outcome.seen

\* The text a batch should leave: every line of the whole script that is
\* context, a change not chosen that the side had, or a chosen change that it
\* had not, where the k-th line of a run stands for the k-th it replaces.
Wanted(r) ==
    LET ops == Script(r.old.lines, r.new.lines, FALSE)
        chosen == {Coordinates(op) : op \in r.wrote}
        kept == SelectSeq([i \in DOMAIN ops |-> <<PlaceOf(ops, i), ops[i]>>], LAMBDA p :
                    Becomes(p[2], chosen, Direction(r.mode)) \in {"context", "plus"})
        placed == SortSeq(kept, LAMBDA p, q : Before(p[1], q[1]))
    IN  [k \in DOMAIN placed |-> placed[k][2].line]

\* A batch that lands on a file nobody touched while it ran leaves exactly the
\* text its changes describe: no hunk is put at the wrong line because of another
\* one, no line moves past a line it does not replace, and no two lines are joined
\* where a newline was missing.
LandsInPlace ==
    outcome.verdict = "done" /\ outcome.calm =>
        /\ outcome.post.lines = Wanted(outcome)
        /\ \A i \in DOMAIN outcome.post.lines :
               outcome.post.lines[i] < 0 => i = Len(outcome.post.lines)

\* A batch of whole hunks that is not stale is applied or refused by name; the
\* patch rendered for it never fails in libgit2 or in git, unless the file was
\* changed while the batch ran.
HunksApply ==
    outcome.whole /\ outcome.calm => outcome.verdict \notin {"failed", "unrepresentable"}

\* An edit made while a discard ran is not undone with it: the discard may land at
\* other lines than those it was read at, and join a line to one written behind it,
\* but what it takes out of the file and puts back, as often as it stood there,
\* are the chosen lines and no others.
Often(lines, x) == Cardinality({k \in DOMAIN lines : Abs(lines[k]) = x})
EditsStay ==
    outcome.verdict = "done" /\ outcome.mode = "discard" =>
        \A x \in {Abs(op.line) : op \in outcome.wrote}
                  \cup {Abs(outcome.before.lines[k]) : k \in DOMAIN outcome.before.lines} :
            LET Chosen(k) == {op \in outcome.wrote : op.kind = k /\ Abs(op.line) = x}
            IN  Often(outcome.post.lines, x) + Cardinality(Chosen("addition"))
                  = Often(outcome.before.lines, x) + Cardinality(Chosen("deletion"))

\* Whatever was selected, what git is handed writes exactly the lines the user
\* saw, in their place, git accepts it, and what came meanwhile stays.
StagingTrue == WritesTheSeen /\ LandsInPlace /\ HunksApply /\ EditsStay
=============================================================================
