---------------------------- MODULE ChildProcess ----------------------------
(***************************************************************************)
(* The three supervisors of short-lived child processes: the tool runner   *)
(* (harkness-runtime tool/process.rs), the Git runner (harkness-git        *)
(* runner.rs) and the GitHub command of the graphical front end            *)
(* (harkness-gui backend.rs).  Each starts a program in a process group of *)
(* its own, has one thread drain each output pipe, and polls for the exit, *)
(* a cancellation and its deadline.                                        *)
(*                                                                         *)
(* A child leads its group; it may leave a helper in the group, and one    *)
(* that has left the group for a session of its own, both holding the      *)
(* write ends of the two pipes.  Output is counted in chunks, each as long *)
(* as one read and each of standard error one progress segment, written by *)
(* a named process.  The executor drains the progress channel for as long  *)
(* as it supervises the call and then drops it, so a report never blocks   *)
(* for ever, and forwarding is a step that does not wait.                  *)
(***************************************************************************)
EXTENDS Naturals, Sequences, FiniteSets

CONSTANTS
    Kinds,            \* the supervisors explored
    Company,          \* which other processes the leader starts
    MaxSaid,          \* bound: chunks the leader writes to each stream
    Noisy,            \* the other processes that write to standard error
    MaxAsked,         \* bound: ways one call is interrupted
    PipeSize,         \* chunks a pipe holds
    QueueSize,        \* SEGMENT_CHANNEL_CAPACITY
    MaxForward,       \* MAX_SEGMENTS_PER_POLL
    ReadsAfterStop,   \* reads left to a tool's reader once it is stopped
    ArtifactLimit,    \* chunks of a stream an artifact admits
    OutputLimit       \* chunks of a stream the GitHub command accepts

ASSUME ChildConstants ==
    /\ Kinds \subseteq {"tool", "git", "github"}
    /\ MaxSaid.out \in Nat /\ MaxSaid.err \in Nat /\ Noisy \subseteq {"helper", "escaped"}
    /\ MaxAsked \in Nat /\ PipeSize \in Nat \ {0} /\ QueueSize \in Nat \ {0}
    /\ MaxForward \in Nat \ {0} /\ ReadsAfterStop \in Nat /\ ReadsAfterStop > PipeSize
    /\ ArtifactLimit \in Nat /\ OutputLimit \in Nat

Stream == {"out", "err"}
Process == {"leader", "helper", "escaped"}

VARIABLES
    kind,        \* which supervisor this is
    proc,        \* each process: none, alive, killed, exited, gone (reaped)
    said,        \* chunks the leader has written to each stream
    pipe,        \* chunks in each pipe, by who wrote them
    asked,       \* what has happened to the call: cancel, deadline, timeout
    sup,         \* where the supervisor is
    sawExit,        \* whether its last try_wait saw the exit
    outcome,     \* what it returns
    stopFlag,    \* stop_readers
    listening,   \* the receiver of segments still exists
    segments,    \* segments queued
    rd           \* the readers: at, budget, got, stored, cut, failed, artifact

childVars == <<kind, proc, said, pipe, asked, sup, sawExit, outcome, stopFlag, listening,
               segments, rd>>
kernel == <<kind, said, asked>>

Group == {"leader", "helper"}
Holds(p) == proc[p] \in {"alive", "killed"}
\* The end of the file: every write end is closed.
ChildEnded(s) == pipe[s] = << >> /\ \A p \in Process : ~Holds(p)

ChildInit ==
    /\ kind \in Kinds /\ proc = [p \in Process |-> "none"]
    /\ said = [s \in Stream |-> 0] /\ pipe = [s \in Stream |-> << >>] /\ asked = {}
    /\ sup = "start" /\ sawExit = FALSE /\ outcome = "none"
    /\ stopFlag = FALSE /\ listening = TRUE /\ segments = 0
    /\ rd = [s \in Stream |-> [at |-> "none", budget |-> ReadsAfterStop, got |-> 0,
                               stored |-> 0, cut |-> FALSE, failed |-> FALSE,
                               artifact |-> "none"]]

-----------------------------------------------------------------------------
(* The child, and who cancels (external).                                  *)

\* A process writes while there is room; only the leader is counted, and the
\* others may write for ever.  Nothing is told apart once the call is over.
Writes == \E p \in Process, s \in Stream :
    /\ sup # "done" /\ proc[p] = "alive" /\ Len(pipe[s]) < PipeSize
    /\ IF p = "leader" THEN said[s] < MaxSaid[s] ELSE p \in Noisy /\ s = "err"
    /\ pipe' = [pipe EXCEPT ![s] = Append(@, p)]
    /\ said' = IF p = "leader" THEN [said EXCEPT ![s] = @ + 1] ELSE said
    /\ UNCHANGED <<kind, proc, asked, sup, sawExit, outcome, stopFlag, listening, segments, rd>>

Exits == \E p \in Process :
    /\ sup # "done" /\ proc[p] = "alive"
    /\ proc' = [proc EXCEPT ![p] = IF p = "leader" THEN "exited" ELSE "gone"]
    /\ UNCHANGED <<kernel, pipe, sup, sawExit, outcome, stopFlag, listening, segments, rd>>

\* A killed process ends a little later.
Dies == \E p \in Process :
    /\ proc[p] = "killed"
    /\ proc' = [proc EXCEPT ![p] = IF p = "leader" THEN "exited" ELSE "gone"]
    /\ UNCHANGED <<kernel, pipe, sup, sawExit, outcome, stopFlag, listening, segments, rd>>

Limits == [tool |-> {"cancel", "deadline", "timeout"}, git |-> {"cancel", "deadline"},
           github |-> {"cancel", "deadline"}]

\* The call is cancelled, or time passes.
Interrupts == \E e \in Limits[kind] \ asked :
    /\ sup # "done" /\ Cardinality(asked) < MaxAsked
    /\ asked' = asked \cup {e}
    /\ UNCHANGED <<kind, proc, said, pipe, sup, sawExit, outcome, stopFlag, listening, segments, rd>>

-----------------------------------------------------------------------------
(* Starting.                                                               *)

Return(what) == sup' = "done" /\ outcome' = what

\* The tool runner asks whether the call is still permitted, opens both
\* artifacts, and asks again; the others only look at the cancellation, or not
\* at all.
check_still_permitted ==
    /\ sup = "start"
    /\ \/ /\ kind = "tool" /\ asked \cap {"cancel", "deadline"} # {}
          /\ Return("refused") /\ UNCHANGED rd
       \/ /\ kind = "github" /\ "cancel" \in asked
          /\ Return("refused") /\ UNCHANGED rd
       \/ /\ \/ kind = "tool" /\ asked \cap {"cancel", "deadline"} = {}
             \/ kind = "github" /\ "cancel" \notin asked
             \/ kind = "git"
          /\ sup' = IF kind = "tool" THEN "opened" ELSE "spawn"
          /\ rd' = [s \in Stream |->
                      [rd[s] EXCEPT !.artifact = IF kind = "tool" THEN "staged" ELSE "none"]]
          /\ UNCHANGED outcome
    /\ UNCHANGED <<kernel, proc, pipe, sawExit, stopFlag, listening, segments>>

\* An unfinished artifact stream deletes what it staged.
Discard == [s \in Stream |-> [rd[s] EXCEPT !.artifact =
              IF @ = "staged" THEN "deleted" ELSE @]]

recheck ==
    /\ sup = "opened"
    /\ IF asked \cap {"cancel", "deadline"} # {}
         THEN Return("refused") /\ rd' = Discard
         ELSE sup' = "spawn" /\ UNCHANGED <<outcome, rd>>
    /\ UNCHANGED <<kernel, proc, pipe, sawExit, stopFlag, listening, segments>>

spawn_fails ==
    /\ sup = "spawn" /\ Return("unstarted") /\ rd' = Discard
    /\ UNCHANGED <<kernel, proc, pipe, sawExit, stopFlag, listening, segments>>

\* The leader and whatever it starts, all holding both pipes; and a reader for
\* each of them.  A tool's pipes are made non-blocking first, which may fail.
spawn ==
    /\ sup = "spawn" /\ sup' = "forward"
    /\ \E c \in Company :
         proc' = [p \in Process |-> IF p \in c \cup {"leader"} THEN "alive" ELSE "none"]
    /\ rd' = [s \in Stream |-> [rd[s] EXCEPT !.at = "reading"]]
    /\ UNCHANGED <<kernel, pipe, sawExit, outcome, stopFlag, listening, segments>>

\* SIGKILL to the process group.
Killed == [p \in Process |-> IF p \in Group /\ proc[p] = "alive" THEN "killed" ELSE proc[p]]

set_pipe_nonblocking_fails ==
    /\ kind = "tool" /\ sup = "spawn"
    /\ \E c \in Company :
         proc' = [p \in Process |-> IF p = "leader" THEN "killed"
                                    ELSE IF p \in c THEN IF p \in Group THEN "killed" ELSE "alive"
                                    ELSE "none"]
    /\ sup' = "abandon" /\ rd' = Discard
    /\ UNCHANGED <<kernel, pipe, sawExit, outcome, stopFlag, listening, segments>>

abandon ==
    /\ sup = "abandon" /\ proc["leader"] = "exited"
    /\ proc' = [proc EXCEPT !["leader"] = "gone"] /\ Return("unstarted")
    /\ UNCHANGED <<kernel, pipe, sawExit, stopFlag, listening, segments, rd>>

-----------------------------------------------------------------------------
(* The readers.                                                            *)

TakeChunk(s) == pipe' = [pipe EXCEPT ![s] = Tail(@)]
ReaderEnds(s, r) == rd' = [rd EXCEPT ![s] = [r EXCEPT !.at = "done"]]
\* What the leader has had counted; helpers are drained and not counted.
CountedChunk(r, s) == [r EXCEPT !.got = IF Head(pipe[s]) = "leader" THEN @ + 1 ELSE @]

\* Storing one chunk: within the limit, and the rest only drained.
Stored(r) ==
    IF r.artifact # "staged" THEN r
    ELSE IF r.stored < ArtifactLimit THEN [r EXCEPT !.stored = @ + 1]
    ELSE [r EXCEPT !.cut = TRUE]

\* It may fail, in one stream of the two.  (A bound: only in calls without a
\* process that writes for ever.)
Whole == (\A s \in Stream : ~rd[s].failed) /\ (\A p \in Noisy : proc[p] = "none")
Unstored(r) == [r EXCEPT !.failed = TRUE, !.artifact = IF @ = "staged" THEN "deleted" ELSE @]

\* The reader's budget after supervision ended.
Charged(r) == IF stopFlag THEN [r EXCEPT !.budget = @ - 1] ELSE r
Exhausted(s) == stopFlag /\ rd[s].budget = 0

\* A tool's reader: one turn of its loop.  Standard error is also cut into
\* segments, and the reader waits where their queue is full.
drain(s) ==
    /\ kind = "tool" /\ rd[s].at = "reading"
    /\ \/ Exhausted(s) /\ ReaderEnds(s, rd[s]) /\ UNCHANGED pipe
       \/ ~Exhausted(s) /\ ChildEnded(s) /\ ReaderEnds(s, Charged(rd[s])) /\ UNCHANGED pipe
       \/ /\ ~Exhausted(s) /\ pipe[s] = << >> /\ ~ChildEnded(s) /\ stopFlag
          /\ ReaderEnds(s, Charged(rd[s])) /\ UNCHANGED pipe
       \/ /\ ~Exhausted(s) /\ pipe[s] # << >> /\ TakeChunk(s)
          /\ \E r \in {Stored(CountedChunk(Charged(rd[s]), s))} \cup
                      (IF Whole THEN {Unstored(CountedChunk(Charged(rd[s]), s))} ELSE {}) :
               rd' = [rd EXCEPT ![s] =
                        IF s = "err" /\ listening THEN [r EXCEPT !.at = "sending"] ELSE r]
    /\ UNCHANGED <<kernel, proc, sup, sawExit, outcome, stopFlag, listening, segments>>

\* A full queue holds the reader until there is room or nobody listens.
send_segment ==
    /\ rd["err"].at = "sending"
    /\ \/ listening /\ segments < QueueSize /\ segments' = segments + 1
       \/ ~listening /\ UNCHANGED segments
    /\ rd' = [rd EXCEPT !["err"].at = "reading"]
    /\ UNCHANGED <<kernel, proc, pipe, sup, sawExit, outcome, stopFlag, listening>>

\* The Git runner's readers block until the end of the file; so do the GitHub
\* command's, which keep no more than the limit.
read_to_end(s) ==
    /\ kind = "git" /\ rd[s].at = "reading"
    /\ \/ ChildEnded(s) /\ ReaderEnds(s, rd[s]) /\ UNCHANGED pipe
       \/ pipe[s] # << >> /\ TakeChunk(s) /\ rd' = [rd EXCEPT ![s] = CountedChunk(@, s)]
    /\ UNCHANGED <<kernel, proc, sup, sawExit, outcome, stopFlag, listening, segments>>

read_bounded(s) ==
    /\ kind = "github" /\ rd[s].at = "reading"
    /\ \/ ChildEnded(s) /\ ReaderEnds(s, rd[s]) /\ UNCHANGED pipe
       \/ /\ pipe[s] # << >> /\ TakeChunk(s)
          /\ rd' = [rd EXCEPT ![s] =
                      IF rd[s].stored < OutputLimit
                        THEN [CountedChunk(rd[s], s) EXCEPT !.stored = @ + 1]
                        ELSE [rd[s] EXCEPT !.cut = TRUE]]
    /\ UNCHANGED <<kernel, proc, sup, sawExit, outcome, stopFlag, listening, segments>>

-----------------------------------------------------------------------------
(* The supervisor's loop.                                                  *)

forward ==
    /\ kind = "tool" /\ sup = "forward" /\ sup' = "wait"
    /\ segments' = IF segments > MaxForward THEN segments - MaxForward ELSE 0
    /\ UNCHANGED <<kernel, proc, pipe, sawExit, outcome, stopFlag, listening, rd>>

\* A tool's exit is looked for first and outranks whatever else the poll sees.
try_wait ==
    /\ kind = "tool" /\ sup = "wait" /\ sup' = "act"
    /\ sawExit' = (proc["leader"] = "exited")
    /\ proc' = [proc EXCEPT !["leader"] = IF @ = "exited" THEN "gone" ELSE @]
    /\ UNCHANGED <<kernel, pipe, outcome, stopFlag, listening, segments, rd>>

\* The exit was seen: end the group, stop the readers, and drain while they
\* finish.
\* Faulty: the group is left alone.
LeavesGroup ==
    /\ sup = "act" /\ sawExit /\ sup' = "drain" /\ outcome' = outcome
    /\ stopFlag' = TRUE
    /\ UNCHANGED <<kernel, proc, pipe, sawExit, listening, segments, rd>>
ExitSeen ==
    /\ sup = "act" /\ sawExit /\ sup' = "drain" /\ outcome' = outcome
    /\ proc' = Killed /\ stopFlag' = TRUE
    /\ UNCHANGED <<kernel, pipe, sawExit, listening, segments, rd>>

Reason == IF "cancel" \in asked THEN "cancelled"
          ELSE IF "deadline" \in asked THEN "deadline" ELSE "timeout"

\* Kill, stop the readers, and drop the receiver before anything is joined.
\* Faulty: the receiver is kept.
KeepsReceiver ==
    /\ sup = "act" /\ ~sawExit /\ asked # {}
    /\ proc' = Killed /\ stopFlag' = TRUE /\ sup' = "reap" /\ outcome' = Reason
    /\ UNCHANGED <<kernel, pipe, sawExit, listening, segments, rd>>
terminate_and_collect ==
    /\ sup = "act" /\ ~sawExit /\ asked # {}
    /\ proc' = Killed /\ stopFlag' = TRUE /\ listening' = FALSE
    /\ sup' = "reap" /\ outcome' = Reason
    /\ UNCHANGED <<kernel, pipe, sawExit, segments, rd>>

poll_again ==
    /\ sup = "act" /\ ~sawExit /\ asked = {} /\ sup' = "forward"
    /\ UNCHANGED <<kernel, proc, pipe, sawExit, outcome, stopFlag, listening, segments, rd>>

reap ==
    /\ sup = "reap" /\ proc["leader"] \in {"exited", "gone"} /\ sup' = "join"
    /\ proc' = [proc EXCEPT !["leader"] = "gone"]
    /\ UNCHANGED <<kernel, pipe, sawExit, outcome, stopFlag, listening, segments, rd>>

ReadersDone == \A s \in Stream : rd[s].at = "done"

drain_until_read ==
    /\ sup = "drain" /\ segments' = 0
    /\ sup' = IF ReadersDone THEN "finish" ELSE "drain"
    /\ outcome' = IF ReadersDone THEN "exited" ELSE outcome
    /\ (segments # 0 \/ ReadersDone)
    /\ UNCHANGED <<kernel, proc, pipe, sawExit, stopFlag, listening, rd>>

Finished(r) == [r EXCEPT !.artifact = IF @ = "staged" THEN "kept" ELSE @]
Unfinished(r) == [r EXCEPT !.artifact = IF @ = "staged" THEN "deleted" ELSE @]

\* A stopped call keeps what arrived, of both streams and whatever happened to
\* them.
preserve ==
    /\ kind = "tool" /\ sup = "join" /\ ReadersDone
    /\ outcome \in {"cancelled", "deadline", "unwaited"}
    /\ rd' = [s \in Stream |-> Finished(rd[s])] /\ Return(outcome)
    /\ UNCHANGED <<kernel, proc, pipe, sawExit, stopFlag, listening, segments>>

\* An exit or a timeout of the tool's own is reported with both streams, and a
\* stream that could not be stored makes it an error; the other one is dropped
\* with it if it comes second.
finish_stream ==
    /\ kind = "tool"
    /\ sup = "finish" \/ (sup = "join" /\ ReadersDone /\ outcome = "timeout")
    /\ \/ /\ rd["out"].failed
          /\ Return("unstored") /\ rd' = [s \in Stream |-> Unfinished(rd[s])]
       \/ /\ ~rd["out"].failed /\ rd["err"].failed
          /\ Return("unstored")
          /\ rd' = [rd EXCEPT !["out"] = Finished(@), !["err"] = Unfinished(@)]
       \/ /\ ~rd["out"].failed /\ ~rd["err"].failed
          /\ Return(outcome) /\ rd' = [s \in Stream |-> Finished(rd[s])]
    /\ UNCHANGED <<kernel, proc, pipe, sawExit, stopFlag, listening, segments>>

-----------------------------------------------------------------------------
(* The loops of the other two.                                             *)

\* Git looks at the cancellation and the deadline before the exit; when it has
\* exited, its readers are joined as they are.
GitStops ==
    /\ kind = "git" /\ sup = "forward" /\ asked # {}
    /\ proc' = Killed /\ sup' = "reap" /\ outcome' = Reason
    /\ UNCHANGED <<kernel, pipe, sawExit, stopFlag, listening, segments, rd>>
GitExits ==
    /\ kind = "git" /\ sup = "forward" /\ asked = {} /\ proc["leader"] = "exited"
    /\ proc' = [proc EXCEPT !["leader"] = "gone"] /\ sup' = "join" /\ outcome' = "exited"
    /\ UNCHANGED <<kernel, pipe, sawExit, stopFlag, listening, segments, rd>>

\* The GitHub command also stops at too much output, and ends the group when
\* its leader has exited.
TooLarge == \E s \in Stream : rd[s].cut
GithubStops ==
    /\ kind = "github" /\ sup = "forward" /\ (asked # {} \/ TooLarge)
    /\ proc' = Killed /\ sup' = "reap"
    /\ outcome' = IF asked # {} THEN Reason ELSE "too large"
    /\ UNCHANGED <<kernel, pipe, sawExit, stopFlag, listening, segments, rd>>
GithubExits ==
    /\ kind = "github" /\ sup = "forward" /\ asked = {} /\ ~TooLarge
    /\ proc["leader"] = "exited"
    /\ proc' = [Killed EXCEPT !["leader"] = "gone"] /\ sup' = "join" /\ outcome' = "exited"
    /\ UNCHANGED <<kernel, pipe, sawExit, stopFlag, listening, segments, rd>>

Joined ==
    /\ kind # "tool" /\ sup = "join" /\ ReadersDone
    /\ Return(IF kind = "github" /\ outcome = "exited" /\ TooLarge THEN "too large" ELSE outcome)
    /\ UNCHANGED <<kernel, proc, pipe, sawExit, stopFlag, listening, segments, rd>>

\* The child cannot be waited on.  The tool runner and the GitHub command end
\* the group; the Git runner returns.
WaitFails ==
    /\ asked = {}
    /\ \/ /\ kind = "tool" /\ sup = "wait"
          /\ proc' = Killed /\ stopFlag' = TRUE /\ listening' = FALSE
          /\ sup' = "reap" /\ outcome' = "unwaited"
       \/ /\ kind = "github" /\ sup = "forward" /\ ~TooLarge
          /\ proc' = Killed /\ sup' = "reap" /\ outcome' = "unwaited"
          /\ UNCHANGED <<stopFlag, listening>>
       \/ /\ kind = "git" /\ sup = "forward"
          /\ Return("unwaited") /\ UNCHANGED <<proc, stopFlag, listening>>
    /\ UNCHANGED <<kernel, pipe, sawExit, segments, rd>>

-----------------------------------------------------------------------------
Supervises ==
    \/ check_still_permitted \/ recheck \/ spawn \/ abandon
    \/ forward \/ try_wait \/ ExitSeen \/ terminate_and_collect \/ poll_again \/ reap
    \/ drain_until_read \/ preserve \/ finish_stream
    \/ GitStops \/ GitExits \/ GithubStops \/ GithubExits \/ Joined
Fails == spawn_fails \/ set_pipe_nonblocking_fails \/ WaitFails
Reads(s) == drain(s) \/ read_to_end(s) \/ read_bounded(s)

ChildNext ==
    \/ Writes \/ Exits \/ Dies \/ Interrupts
    \/ Supervises \/ Fails \/ send_segment
    \/ \E s \in Stream : Reads(s)

\* The supervisor and the readers are threads of a running process, and the
\* kernel ends what it was told to kill; the child owes nothing.
ChildFairness ==
    /\ WF_childVars(Supervises) /\ WF_childVars(Dies) /\ WF_childVars(send_segment)
    /\ \A s \in Stream : WF_childVars(Reads(s))

ChildSpec == ChildInit /\ [][ChildNext]_childVars /\ ChildFairness

-----------------------------------------------------------------------------
(* Properties.                                                             *)

\* Output is reported whole (process.rs:661, "the byte counts and the artifacts
\* describe the whole stream rather than however much had arrived when the
\* child exited"): when an exit is returned, every chunk the leader wrote has
\* been read, whatever other processes wrote between them, and an artifact is
\* either complete or marked as cut.  A stopped tool call has kept what
\* arrived of every stream that could be stored.
OutputTrue == outcome # "none" /\ sup = "done" =>
    /\ outcome = "exited" => \A s \in Stream : rd[s].got = said[s]
    /\ kind = "tool" /\ outcome \in {"exited", "timeout", "cancelled", "deadline"} =>
         \A s \in Stream : /\ rd[s].artifact = "kept" \/ rd[s].failed
                           /\ rd[s].stored < rd[s].got => rd[s].cut \/ rd[s].failed

\* No process outlives the call that started it (process.rs:639-645,
\* backend.rs:2653-2655): when a supervisor returns, its leader is reaped and
\* nothing in its group is left to run.  The Git runner's promise is about
\* cancellation and timeouts (runner.rs:193-194).
NoOrphans == sup = "done" /\ (kind # "git" \/ outcome \in {"cancelled", "deadline"}) =>
    /\ proc["leader"] \in {"none", "gone"} /\ proc["helper"] # "alive"

\* What a finished call reports is what its child did, and the child is gone
\* (process.rs, runner.rs, backend.rs: OutputTrue and NoOrphans above).
ChildTrue == OutputTrue /\ NoOrphans

\* A tool's call ends however its child behaves: once the leader has exited, or
\* the call is cancelled or out of time, the runner returns, even if a process
\* that has left the group holds both pipes and never stops writing, and even
\* if a reader waits for room in the queue the supervisor drains.  The other
\* two return if nothing has left the group and, for Git, nothing outlives it.
Stray == proc["escaped"] = "alive" \/ (kind = "git" /\ proc["leader"] = "gone"
                                       /\ proc["helper"] = "alive")
CallReturns ==
    (sup \in {"forward", "wait", "act"} /\ (proc["leader"] = "exited" \/ asked # {}))
        ~> (sup = "done" \/ (kind # "tool" /\ Stray))

=============================================================================
