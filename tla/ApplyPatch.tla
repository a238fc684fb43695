----------------------------- MODULE ApplyPatch -----------------------------
(***************************************************************************)
(* fs.apply_patch (harkness-runtime tools/fs_apply_patch.rs) under the     *)
(* executor's supervision (tool/execute.rs, tool/context.rs), while other  *)
(* programs edit the files and move the directories it is about to write.  *)
(*                                                                         *)
(* A patch names some files with the content each was approved on.  The    *)
(* body reaches and reads them one after another, validates the patch on   *)
(* what it has read, opens the artifact of its result, enters the section  *)
(* the executor may not abandon, and replaces the files one by one:        *)
(* revalidate the path, write a temporary file beside it, open the parent  *)
(* directory, check the path and the content twice, and rename within the  *)
(* opened directory.  Each is a step of its own, and others may come       *)
(* between any two of them.  A path leads to its own directory or,         *)
(* once somebody has put a symbolic link in its place, to a strange one    *)
(* (another real directory in its place is an edit of what is read there). *)
(* Contents are model values; what hunks make of a text is abstracted.     *)
(***************************************************************************)
EXTENDS Naturals, Sequences

CONSTANTS
    Files,        \* the files of the patch, in the order they are written
    Content,      \* contents somebody else may put there
    Approved,     \* the content the patch was approved on
    Patched,      \* and the one it makes of it
    MaxMeddling   \* bound: changes by others

TargetFile == {Files[i] : i \in 1 .. Len(Files)}

\* A patch names at least one file and no file twice (parse_unified_patch); others
\* may put something else in a file than what the patch was approved on.
ASSUME PatchConstants ==
    /\ Approved \in Content /\ Patched \notin Content /\ MaxMeddling \in Nat
    /\ \E c \in Content : c # Approved
    /\ Files \in Seq(TargetFile) /\ Files # <<>>
    /\ \A i, j \in 1 .. Len(Files) : i # j => Files[i] # Files[j]

VARIABLES
    own,        \* each file in its own directory
    strange,    \* and in the directory that took its place
    leads,      \* where each path leads
    meddled,    \* changes by others so far
    patchStep,  \* where the body is
    turn,       \* the file being read or written
    read,       \* the files read so far, each found with the approved content
    temp,       \* where a temporary file lies: nowhere, own, strange
    artifact,   \* the artifact of the resulting diff: none, staged, kept
    result,     \* what the body reports
    phase,      \* the executor's boundary: open, stop, irreversible
    wants,      \* why the call should stop
    verdict,    \* what the executor will record if the body does not return
    recorded,   \* the terminal state of the call
    written,    \* (history) the files replaced
    late,       \* (history) a change after the last check before a rename
    disturbed   \* (history) a write failed, or a file changed after it was read

world2 == <<own, strange, leads, meddled>>
bodyVars == <<patchStep, turn, read, temp, artifact, result>>
execVars == <<wants, verdict, recorded>>
patchVars == <<world2, bodyVars, phase, execVars, written, late, disturbed>>

PatchInit ==
    /\ own \in [TargetFile -> {Approved, CHOOSE c \in Content : c # Approved}]
    /\ strange = [f \in TargetFile |-> CHOOSE c \in Content : c # Approved]
    /\ leads = [f \in TargetFile |-> "own"] /\ meddled = 0
    /\ patchStep = "start" /\ turn = 1 /\ read = {} /\ temp = "none"
    /\ late = FALSE /\ artifact = "none" /\ result = "none" /\ phase = "open"
    /\ wants = {} /\ verdict = "none" /\ recorded = "none"
    /\ written = {} /\ disturbed = FALSE

Current == Files[turn]

-----------------------------------------------------------------------------
(* Others: an edit through the path, and a directory replaced by a link or   *)
(* put back.  A file is disturbed by an edit once it has been read, and by a *)
(* directory that moves once it has been reached.                           *)

\* (external) the rest of the machine
Meddle ==
    /\ meddled < MaxMeddling /\ recorded = "none" /\ meddled' = meddled + 1
    /\ \E f \in TargetFile :
         \/ /\ \E c \in Content : IF leads[f] = "own"
                 THEN own' = [own EXCEPT ![f] = c] /\ UNCHANGED strange
                 ELSE strange' = [strange EXCEPT ![f] = c] /\ UNCHANGED own
            /\ disturbed' = (disturbed \/ f \in read)
            /\ UNCHANGED leads
         \/ /\ leads' = [leads EXCEPT ![f] = IF @ = "own" THEN "strange" ELSE "own"]
            /\ disturbed' = (disturbed \/ f \in read \/ (patchStep = "base" /\ f = Current))
            /\ UNCHANGED <<own, strange>>
    /\ late' = (late \/ patchStep = "replace")
    /\ UNCHANGED <<bodyVars, phase, execVars, written>>

-----------------------------------------------------------------------------
(* The body.                                                               *)

Report(what) == patchStep' = "done" /\ result' = what
Stopped == "cancelled" \in wants \/ "timed_out" \in wants
StopReason == IF "cancelled" \in wants THEN "cancelled" ELSE "timed_out"

\* One look at the boundary and the token, and the patch is parsed.
execute_patch ==
    /\ patchStep = "start"
    /\ \/ Stopped /\ Report(StopReason)
       \/ ~Stopped /\ Report("failed")
       \/ ~Stopped /\ patchStep' = "bases" /\ UNCHANGED result
    /\ UNCHANGED <<world2, turn, read, temp, artifact, phase, execVars, written, late, disturbed>>

\* The bases come in the order the call names them, whatever that is.  Each is
\* reached without following a link,
resolve_base ==
    /\ patchStep = "bases"
    /\ \E i \in 1 .. Len(Files) :
         /\ Files[i] \notin read /\ turn' = i
         /\ IF leads[Files[i]] = "own" THEN patchStep' = "base" /\ UNCHANGED result
                                       ELSE Report("failed")
    /\ UNCHANGED <<world2, read, temp, artifact, phase, execVars, written, late, disturbed>>

\* then read by its path, and compared with the hash it was approved on.
\* Nothing in this loop asks whether the call should stop.
read_base ==
    /\ patchStep = "base"
    /\ IF Approved = (IF leads[Current] = "own" THEN own ELSE strange)[Current]
         THEN read' = read \cup {Current} /\ patchStep' = "bases" /\ UNCHANGED result
         ELSE Report("failed") /\ UNCHANGED read
    /\ UNCHANGED <<world2, turn, temp, artifact, phase, execVars, written, late, disturbed>>

\* Once all are read, every hunk is applied in memory to what was read, before
\* anything is written.
validate_all ==
    /\ patchStep = "bases" /\ read = TargetFile
    /\ \/ Stopped /\ Report(StopReason) /\ UNCHANGED turn
       \/ ~Stopped /\ Report("failed") /\ UNCHANGED turn
       \/ ~Stopped /\ turn' = 1 /\ patchStep' = "validated" /\ UNCHANGED result
    /\ UNCHANGED <<world2, read, temp, artifact, phase, execVars, written, late, disturbed>>

\* The artifact is opened while the call is still free of side effects.
open_artifact ==
    /\ patchStep = "validated"
    /\ \/ artifact' = "staged" /\ patchStep' = "opened" /\ UNCHANGED result
       \/ Report("failed") /\ UNCHANGED artifact
    /\ UNCHANGED <<world2, turn, read, temp, phase, execVars, written, late, disturbed>>

\* The one-way step under the lock of the boundary.
begin_irreversible ==
    /\ patchStep = "opened"
    /\ \/ (phase = "stop" \/ Stopped)
          /\ Report(IF phase = "stop" THEN "cancelled" ELSE StopReason) /\ UNCHANGED phase
       \/ phase = "open" /\ ~Stopped /\ phase' = "irreversible" /\ patchStep' = "path" /\ UNCHANGED result
    /\ UNCHANGED <<world2, turn, read, temp, artifact, execVars, written, late, disturbed>>

\* A path that no longer leads where it did is refused.
revalidate ==
    /\ patchStep = "path"
    /\ IF leads[Current] = "own" THEN patchStep' = "temporary" /\ UNCHANGED result
                                 ELSE Report("failed")
    /\ UNCHANGED <<world2, turn, read, temp, artifact, phase, execVars, written, late, disturbed>>

\* The temporary file is made by its path, before the parent is opened: in
\* whatever directory has taken the parent's place since.
prepare_temporary ==
    /\ patchStep = "temporary"
    /\ temp' = leads[Current] /\ patchStep' = "open"
    /\ UNCHANGED <<world2, turn, read, artifact, result, phase, execVars, written, late, disturbed>>

\* A body that gives up drops its temporary file, by its path: one whose
\* directory has been moved stays behind.
GiveUp == Report("failed") /\ temp' = IF temp = leads[Current] THEN "none" ELSE temp

\* The parent is opened from the root without following a link, and compared
\* with the directory its path names.
open_anchored ==
    /\ patchStep = "open"
    /\ IF leads[Current] = "own" THEN patchStep' = "first" /\ UNCHANGED <<result, temp>>
                                 ELSE GiveUp
    /\ UNCHANGED <<world2, turn, read, artifact, phase, execVars, written, late, disturbed>>

\* revalidate_anchored_target, read_target and validate_current: twice, with
\* the permissions, the last sync and, in verify_temporary, a look for the
\* temporary file in the opened directory in between.
Proved == leads[Current] = "own" /\ own[Current] = Approved
CheckFirst ==
    /\ patchStep = "first"
    /\ IF Proved /\ temp = "own" THEN patchStep' = "second" /\ UNCHANGED <<result, temp>>
                                  ELSE GiveUp
    /\ UNCHANGED <<world2, turn, read, artifact, phase, execVars, written, late, disturbed>>

CheckSecond ==
    /\ patchStep = "second"
    /\ IF Proved THEN patchStep' = "replace" /\ UNCHANGED <<result, temp>>
                 ELSE GiveUp
    /\ UNCHANGED <<world2, turn, read, artifact, phase, execVars, written, late, disturbed>>

\* The rename is relative to the directory that was opened.
replace ==
    /\ patchStep = "replace"
    /\ own' = [own EXCEPT ![Current] = Patched] /\ temp' = "none"
    /\ written' = written \cup {Current} /\ late' = FALSE
    /\ IF turn < Len(Files) THEN turn' = turn + 1 /\ patchStep' = "path"
                            ELSE UNCHANGED turn /\ patchStep' = "diff"
    /\ UNCHANGED <<strange, leads, meddled, read, artifact, result, phase, execVars, disturbed>>

resulting_diff ==
    /\ patchStep = "diff"
    /\ artifact' = "kept" /\ Report("succeeded")
    /\ UNCHANGED <<world2, turn, read, temp, phase, execVars, written, late, disturbed>>

\* Any of the file operations may fail, and ends the batch where it stands.
io_failure ==
    /\ patchStep \in {"base", "path", "temporary", "open", "first", "second", "replace", "diff"}
    /\ GiveUp /\ disturbed' = TRUE
    /\ UNCHANGED <<world2, turn, read, artifact, phase, execVars, written, late>>

-----------------------------------------------------------------------------
(* The executor.                                                           *)

\* Somebody cancels the call, or its deadline passes.
Wants == \E w \in {"cancelled", "timed_out"} \ wants :
    /\ recorded = "none" /\ wants' = wants \cup {w}
    /\ UNCHANGED <<world2, bodyVars, phase, verdict, recorded, written, late, disturbed>>

\* request_stop: the boundary closes unless it has been passed, and the call's
\* own token is cancelled, so that a body past its deadline hears a cancellation.
request_stop ==
    /\ recorded = "none" /\ verdict = "none" /\ Stopped
    /\ verdict' = StopReason
    /\ phase' = IF phase = "open" THEN "stop" ELSE phase
    /\ wants' = wants \cup {"cancelled"}
    /\ UNCHANGED <<world2, bodyVars, recorded, written, late, disturbed>>

\* Faulty: the body is abandoned whatever it is doing.
AbandonsAny ==
    /\ recorded = "none" /\ verdict # "none" /\ recorded' = verdict
    /\ UNCHANGED <<world2, bodyVars, phase, wants, verdict, written, late, disturbed>>

\* The grace period is over, and the body may be abandoned: it goes on.
grace_ends ==
    /\ recorded = "none" /\ verdict # "none" /\ phase # "irreversible"
    /\ recorded' = verdict
    /\ UNCHANGED <<world2, bodyVars, phase, wants, verdict, written, late, disturbed>>

\* The body returned: its own word counts, unless it is the echo of a stop.
body_returned ==
    /\ recorded = "none" /\ patchStep = "done"
    /\ recorded' = IF verdict # "none" /\ result \in {"cancelled", "timed_out"} THEN verdict ELSE result
    /\ UNCHANGED <<world2, bodyVars, phase, wants, verdict, written, late, disturbed>>

-----------------------------------------------------------------------------
PatchNext ==
    \/ Meddle
    \/ execute_patch \/ resolve_base \/ read_base \/ validate_all
    \/ open_artifact \/ begin_irreversible
    \/ revalidate \/ prepare_temporary \/ open_anchored \/ CheckFirst \/ CheckSecond \/ replace \/ resulting_diff
    \/ io_failure
    \/ Wants \/ request_stop \/ grace_ends \/ body_returned

PatchSpec == PatchInit /\ [][PatchNext]_patchVars

-----------------------------------------------------------------------------
(* Properties.                                                             *)

\* The record tells the truth about the workspace (context.rs:104-105,
\* "persisting cancellation while that body can still commit bytes would make
\* the durable record disagree with the workspace"): a call recorded as
\* cancelled or timed out has replaced no file, and does not replace one later
\* though its body may still be running; one recorded as succeeded has replaced
\* them all and kept its diff.
RecordMatchesWorkspace ==
    /\ recorded \in {"cancelled", "timed_out"} => written = {}
    /\ recorded = "succeeded" => written = TargetFile /\ artifact = "kept"

\* A batch is all or nothing as far as the tool can make it (the metadata's
\* "validating every hunk before any atomic file replacement"): it stops half
\* way, or leaves a temporary file behind, only if a file operation failed, a
\* file was changed after its own base had been read, or a directory moved
\* after its path had been followed.  A change that comes before a file's own
\* base is read never tears a batch, whichever bases were read before it.
HalfOnlyIfDisturbed ==
    patchStep = "done" /\ (written \notin {{}, TargetFile} \/ temp # "none") => disturbed

\* Nobody's edit is lost and no file of a strange directory is replaced (a
\* temporary file may be made there): the body replaces a file only in its own
\* directory, and one whose content is not the approved base only if it was
\* changed after the last check the code can make.
EditsSurvive == [][
    /\ meddled' = meddled => strange' = strange
    /\ \A f \in TargetFile : own'[f] # own[f] /\ meddled' = meddled =>
         own[f] = Approved \/ late
    ]_patchVars

\* The whole promise of the tool: its record is true, a batch stays whole unless
\* somebody disturbs it, and no edit is lost.
PatchTrue == [](RecordMatchesWorkspace /\ HalfOnlyIfDisturbed) /\ EditsSurvive
=============================================================================
