----------------------------- MODULE RunRecords -----------------------------
(***************************************************************************)
(* The durable records of the runtime: a run, a step or a tool call, as   *)
(* one row of the store (crates/harkness-runtime/src/domain/record.rs and *)
(* state.rs for the state machine that changes it, domain/wire.rs for the *)
(* validator every row must pass to be read again, store/repository.rs    *)
(* and store/mod.rs for what of a changed record is written).             *)
(*                                                                         *)
(* Two independent pieces of code meet on the row.  The state machine     *)
(* decides what a record may become; the validator decides, at the next   *)
(* read, whether a record could have become what it says.  A record the   *)
(* first produces and the second refuses is lost for good: every change   *)
(* begins by reading the row, so nothing can ever move it on.              *)
(*                                                                         *)
(* A step is one write transaction.  Each is given the time `at' of a     *)
(* clock that may have been set back, so any member of Times at any step. *)
(* A row may have been inserted by an earlier build (schema 1 to 3).       *)
(*                                                                         *)
(* Left out: identities, titles, inputs and outputs (one output stands    *)
(* for all), the blank approver the domain refuses, the event row written *)
(* in the same transaction (StoreWrites), and ToolCall::transition to     *)
(* awaiting_approval, which only tests call: the program enters that      *)
(* state through a policy decision.                                        *)
(***************************************************************************)
EXTENDS Integers, Sequences

CONSTANTS
    Times,         \* instants the clock may show, natural numbers
    Versions,      \* versions a tool may resolve to
    MaxRevision,   \* the largest revision a record may carry
    MaxApprovals   \* approvals that fit in the approvals column

ASSUME RecordConstants ==
    /\ Times \subseteq Nat /\ Times # {}
    /\ MaxRevision \in Nat /\ MaxApprovals \in Nat
    /\ "" \notin Versions

VARIABLE row       \* the row, with every column of the three tables

Never == -1        \* a time column that is NULL
Current == 4       \* RUNTIME_RECORD_SCHEMA_VERSION
-----------------------------------------------------------------------------
(* The states and the edges between them.                                  *)

EXECUTION_STATES ==
    {"queued", "running", "waiting", "succeeded", "failed", "cancelled", "interrupted"}

EXECUTION_TRANSITIONS ==
    ({"queued"} \X {"running", "failed", "cancelled", "interrupted"})
    \cup ({"running"} \X {"waiting", "succeeded", "failed", "cancelled", "interrupted"})
    \cup ({"waiting"} \X {"running", "failed", "cancelled", "interrupted"})

TOOL_CALL_STATES ==
    {"pending", "awaiting", "running", "succeeded", "failed", "denied", "cancelled", "interrupted"}

TOOL_CALL_TRANSITIONS ==
    ({"pending"} \X {"awaiting", "running", "failed", "denied", "cancelled", "interrupted"})
    \cup ({"awaiting"} \X {"running", "denied", "cancelled", "interrupted"})
    \cup ({"running"} \X {"succeeded", "failed", "cancelled", "interrupted"})

is_terminal(s) == s \in {"succeeded", "failed", "denied", "cancelled", "interrupted"}

Initial(kind) == IF kind = "call" THEN "pending" ELSE "queued"

transitions(kind) == IF kind = "call" THEN TOOL_CALL_TRANSITIONS ELSE EXECUTION_TRANSITIONS

requires_started_at(r) ==
    r.state \in (IF r.kind = "call" THEN {"running", "succeeded"}
                                    ELSE {"running", "waiting", "succeeded"})

forbids_started_at(r) ==
    r.state \in (IF r.kind = "call" THEN {"pending", "awaiting", "denied"} ELSE {"queued"})

minimum_revision(r) ==
    CASE r.state = Initial(r.kind) -> 0
      [] r.state \in {"waiting", "succeeded"} -> 2
      [] OTHER -> 1

-----------------------------------------------------------------------------
(* The validator of a row that is read back.                               *)

(* Lifecycle::from_wire: the times, the state and the revision fit. *)
from_wire(r) ==
    /\ r.updated_at >= r.created_at
    /\ r.started_at # Never => r.created_at <= r.started_at /\ r.started_at <= r.updated_at
    /\ is_terminal(r.state) <=> r.finished_at # Never
    /\ r.finished_at # Never => r.finished_at = r.updated_at
    /\ requires_started_at(r) => r.started_at # Never
    /\ forbids_started_at(r) => r.started_at = Never
    /\ r.state = Initial(r.kind) <=> r.revision = 0
    /\ r.revision >= minimum_revision(r)
    /\ r.revision = 0 => r.updated_at = r.created_at

validate_failure(r) == r.failure # "none" <=> r.state \in {"failed", "denied"}

validate_output(r) == r.output <=> r.state = "succeeded"

(* The approvals a run or a step may carry: two revisions for each. *)
execution_approval_shape(r) ==
    r.approvals # <<>> => r.started_at # Never /\ r.revision >= 2 * Len(r.approvals) + 1

(* A tool call is asked about once, and only after it awaited an answer. *)
call_approval_shape(r) ==
    /\ Len(r.approvals) <= 1
    /\ r.approvals # <<>> =>
         /\ r.state \notin {"pending", "awaiting"}
         /\ r.revision >= 2
         /\ r.state = "denied" => r.approvals[1].decision = "denied"

validate_approvals(r) ==
    /\ r.state = Initial(r.kind) => r.approvals = <<>>
    /\ IF r.kind = "call" THEN call_approval_shape(r) ELSE execution_approval_shape(r)
    /\ Len(r.approvals) <= r.revision
    /\ \A i \in 1..Len(r.approvals) :
         /\ r.created_at <= r.approvals[i].decided_at /\ r.approvals[i].decided_at <= r.updated_at
         /\ i > 1 => r.approvals[i - 1].decided_at <= r.approvals[i].decided_at
         /\ r.approvals[i].decision = "denied" =>
              i = Len(r.approvals) /\ r.state = (IF r.kind = "call" THEN "denied" ELSE "failed")

(* The recorded verdict and where the call stands agree. *)
validate_policy_decision(r) ==
    /\ r.policy = "allow" => r.state \notin {"awaiting", "denied"}
    /\ r.policy = "ask" => r.state # "pending"
    /\ r.policy = "deny" => r.state = "denied" /\ r.approvals = <<>> /\ r.failure = "reason"

run_from_wire(r) ==
    /\ from_wire(r) /\ validate_failure(r) /\ validate_approvals(r)
    /\ r.schema_version < 4 => ~r.retry /\ ~r.workspace_may_be_modified
    /\ r.workspace_may_be_modified => r.retry

step_from_wire(r) == from_wire(r) /\ validate_failure(r) /\ validate_approvals(r)

tool_call_from_wire(r) ==
    /\ from_wire(r) /\ validate_failure(r) /\ validate_output(r) /\ validate_approvals(r)
    /\ r.schema_version = 1 => r.policy = "none"
    /\ validate_policy_decision(r)

Readable(r) ==
    CASE r.kind = "run" -> run_from_wire(r)
      [] r.kind = "step" -> step_from_wire(r)
      [] r.kind = "call" -> tool_call_from_wire(r)

-----------------------------------------------------------------------------
(* The state machine.  A change of record r is the set of records it may  *)
(* become: one, or none when the domain refuses it.                        *)

Later(a, b) == IF a < b THEN b ELSE a

(* Faulty: the transition takes the clock's word for the time. *)
TrustsClock(r, to, at) ==
    IF <<r.state, to>> \in transitions(r.kind) /\ r.revision < MaxRevision
    THEN {[r EXCEPT !.state = to, !.updated_at = at, !.revision = @ + 1,
                    !.started_at = IF to = "running" /\ @ = Never THEN at ELSE @,
                    !.finished_at = IF is_terminal(to) THEN at ELSE @]}
    ELSE {}

lifecycle_transition(r, to, at) ==
    LET time == Later(at, r.updated_at)
    IN  IF <<r.state, to>> \in transitions(r.kind) /\ r.revision < MaxRevision
        THEN {[r EXCEPT !.state = to, !.updated_at = time, !.revision = @ + 1,
                        !.started_at = IF to = "running" /\ @ = Never THEN time ELSE @,
                        !.finished_at = IF is_terminal(to) THEN time ELSE @]}
        ELSE {}

Failing(rs, failure) == {[r EXCEPT !.failure = failure] : r \in rs}

Approving(rs, decision) ==
    {[r EXCEPT !.approvals = Append(@, [decision |-> decision, decided_at |-> r.updated_at])] :
        r \in rs}

(* Run::transition and Step::transition refuse what another method records. *)
execution_transition(r, to, at) ==
    IF to = "failed" \/ (r.state = "waiting" /\ to = "running")
    THEN {} ELSE lifecycle_transition(r, to, at)

execution_fail(r, failure, at) == Failing(lifecycle_transition(r, "failed", at), failure)

execution_approve(r, at) ==
    IF r.state = "waiting" THEN Approving(lifecycle_transition(r, "running", at), "approved")
                           ELSE {}

execution_reject_approval(r, failure, at) ==
    IF r.state = "waiting"
    THEN Approving(Failing(lifecycle_transition(r, "failed", at), failure), "denied")
    ELSE {}

(* A step has the same four methods, written out a second time. *)
step_transition(r, to, at) == execution_transition(r, to, at)
step_fail(r, failure, at) == execution_fail(r, failure, at)
step_approve(r, at) == execution_approve(r, at)
step_reject_approval(r, failure, at) == execution_reject_approval(r, failure, at)

(* The run goes on after its call was refused, and keeps no denial. *)
resume_after_denial(r, at) ==
    IF r.state = "waiting" THEN lifecycle_transition(r, "running", at) ELSE {}

apply_policy_decision(r, verdict, at) ==
    IF r.state # "pending" \/ r.policy # "none" THEN {}
    ELSE LET moved == CASE verdict = "allow" -> {r}
                        [] verdict = "ask" -> lifecycle_transition(r, "awaiting", at)
                        [] verdict = "deny" ->
                             Failing(lifecycle_transition(r, "denied", at), "reason")
         IN  {[c EXCEPT !.policy = verdict] : c \in moved}

call_transition(r, to, at) ==
    IF to \in {"succeeded", "failed", "denied"} \/ (r.state = "awaiting" /\ to = "running")
    THEN {} ELSE lifecycle_transition(r, to, at)

dispatch(r, version, at) ==
    IF r.state = "pending" /\ r.tool_version \in {"", version}
    THEN {[c EXCEPT !.tool_version = version] : c \in lifecycle_transition(r, "running", at)}
    ELSE {}

dispatch_approved(r, version, at) ==
    IF r.state = "awaiting" /\ r.tool_version \in {"", version}
    THEN {[c EXCEPT !.tool_version = version] :
             c \in Approving(lifecycle_transition(r, "running", at), "approved")}
    ELSE {}

succeed(r, at) == {[c EXCEPT !.output = TRUE] : c \in lifecycle_transition(r, "succeeded", at)}

call_fail(r, failure, at) == Failing(lifecycle_transition(r, "failed", at), failure)

call_approve(r, at) ==
    IF r.state = "awaiting" THEN Approving(lifecycle_transition(r, "running", at), "approved")
                            ELSE {}

call_reject_approval(r, failure, at) ==
    IF r.state = "awaiting"
    THEN Approving(Failing(lifecycle_transition(r, "denied", at), failure), "denied")
    ELSE {}

-----------------------------------------------------------------------------
(* What is written.  Each change loads the row, applies the domain and    *)
(* updates the columns the statement names, in one transaction.            *)

(* Columns refuse what is too large for them: the history and the revision. *)
Encodes(r) == Len(r.approvals) <= MaxApprovals /\ r.revision <= MaxRevision

Columns(names, new) == [c \in DOMAIN row |-> IF c \in names THEN new[c] ELSE row[c]]

update_run(new) ==
    /\ Encodes(new)
    /\ row' = Columns({"state", "revision", "updated_at", "started_at", "finished_at",
                       "failure", "approvals"}, new)

update_step(new) ==
    /\ Encodes(new)
    /\ row' = Columns({"state", "revision", "updated_at", "started_at", "finished_at",
                       "failure", "approvals"}, new)

CallColumns == {"state", "revision", "updated_at", "started_at", "finished_at", "failure",
                "output", "approvals", "policy"}

(* The request a call records is not among the columns; the schema is stamped. *)
update_tool_call(new) ==
    /\ Encodes(new)
    /\ row' = [Columns(CallColumns, new) EXCEPT !.schema_version = Current]

(* Only the start of execution also writes the version that resolved. *)
pin_tool_call_version(new) ==
    /\ Encodes(new)
    /\ row' = [Columns(CallColumns \cup {"tool_version"}, new) EXCEPT !.schema_version = Current]

mutate_run(changed) ==
    /\ row.kind = "run" /\ run_from_wire(row)
    /\ \E new \in changed : update_run(new)

mutate_step(changed) ==
    /\ row.kind = "step" /\ step_from_wire(row)
    /\ \E new \in changed : update_step(new)

mutate_tool_call(changed) ==
    /\ row.kind = "call" /\ tool_call_from_wire(row)
    /\ \E new \in changed : update_tool_call(new)

begin_tool_call(changed) ==
    /\ row.kind = "call" /\ tool_call_from_wire(row)
    /\ \E new \in changed : pin_tool_call_version(new)

(* A failure's message is redacted before it is recorded. *)
redact_failure == "error"

transition_run(to, at) == mutate_run(execution_transition(row, to, at))
fail_run(at) == mutate_run(execution_fail(row, redact_failure, at))
approve_run(at) == mutate_run(execution_approve(row, at))
reject_run_approval(at) == mutate_run(execution_reject_approval(row, redact_failure, at))
resume_run_after_denial(at) == mutate_run(resume_after_denial(row, at))

transition_step(to, at) == mutate_step(step_transition(row, to, at))
fail_step(at) == mutate_step(step_fail(row, redact_failure, at))
approve_step(at) == mutate_step(step_approve(row, at))
reject_step_approval(at) == mutate_step(step_reject_approval(row, redact_failure, at))

transition_tool_call(to, at) ==
    to # "awaiting" /\ mutate_tool_call(call_transition(row, to, at))

succeed_tool_call(at) == mutate_tool_call(succeed(row, at))
fail_tool_call(at) == mutate_tool_call(call_fail(row, redact_failure, at))
approve_tool_call(at) == mutate_tool_call(call_approve(row, at))

apply_tool_call_policy_decision(verdict, at) ==
    mutate_tool_call(apply_policy_decision(row, verdict, at))

reject_tool_call_approval(at) ==
    mutate_tool_call(call_reject_approval(row, redact_failure, at))

dispatch_tool_call(version, at) == begin_tool_call(dispatch(row, version, at))

(* The approved dispatch is bound to the version that was authorized. *)
dispatch_bound_approved_tool_call(version, at) ==
    begin_tool_call(dispatch_approved(row, version, at))

-----------------------------------------------------------------------------
(* A row as it is inserted: by this build, or by one before it. *)
Inserted(kind, schema, at, version, retry, modified) ==
    [kind |-> kind, schema_version |-> schema, state |-> Initial(kind), revision |-> 0,
     created_at |-> at, updated_at |-> at, started_at |-> Never, finished_at |-> Never,
     failure |-> "none", output |-> FALSE, approvals |-> <<>>, policy |-> "none",
     tool_version |-> version, retry |-> retry, workspace_may_be_modified |-> modified]

insert_run(schema, at, retry, modified) ==
    /\ retry => schema = Current
    /\ modified => retry
    /\ row = Inserted("run", schema, at, "", retry, modified)

insert_step(schema, at) == row = Inserted("step", schema, at, "", FALSE, FALSE)

insert_tool_call(schema, at, version) ==
    row = Inserted("call", schema, at, version, FALSE, FALSE)

RecordInit ==
    \E schema \in 1..Current, at \in Times :
        \/ \E retry, modified \in BOOLEAN : insert_run(schema, at, retry, modified)
        \/ insert_step(schema, at)
        \/ \E version \in Versions \cup {""} : insert_tool_call(schema, at, version)

RunChanges(at) ==
    \/ \E to \in EXECUTION_STATES : transition_run(to, at)
    \/ fail_run(at) \/ approve_run(at) \/ reject_run_approval(at) \/ resume_run_after_denial(at)

StepChanges(at) ==
    \/ \E to \in EXECUTION_STATES : transition_step(to, at)
    \/ fail_step(at) \/ approve_step(at) \/ reject_step_approval(at)

CallChanges(at) ==
    \/ \E to \in TOOL_CALL_STATES : transition_tool_call(to, at)
    \/ succeed_tool_call(at) \/ fail_tool_call(at)
    \/ approve_tool_call(at) \/ reject_tool_call_approval(at)
    \/ \E verdict \in {"allow", "ask", "deny"} : apply_tool_call_policy_decision(verdict, at)
    \/ \E version \in Versions :
         dispatch_tool_call(version, at) \/ dispatch_bound_approved_tool_call(version, at)

RecordNext == \E at \in Times : RunChanges(at) \/ StepChanges(at) \/ CallChanges(at)

RecordSpec == RecordInit /\ [][RecordNext]_row

-----------------------------------------------------------------------------
(* Every row the store ever wrote can be read again: the validator accepts *)
(* whatever any sequence of changes makes of a record, with a clock that   *)
(* goes back, with approvals and refusals in any order, and on rows an      *)
(* earlier build inserted (wire.rs, the TryFrom implementations; a row they *)
(* refuse can never be changed again, only shown as damaged).               *)
LoadsBack == Readable(row)

(* A tool call that policy said to ask about never runs, and never comes to *)
(* an end other than being stopped, unless its one recorded decision is an  *)
(* approval; and one that was denied never started (record.rs, the methods  *)
(* of ToolCall).                                                            *)
ConsentRecorded ==
    row.kind = "call" =>
        /\ row.policy = "ask" /\ row.started_at # Never =>
             Len(row.approvals) = 1 /\ row.approvals[1].decision = "approved"
        /\ row.policy = "deny" => row.started_at = Never
        /\ row.state = "denied" => row.policy = "deny" \/ row.approvals # <<>>

(* What a record has said it keeps saying: an ended record never changes,   *)
(* the first start, the verdict and a recorded version stay, updated_at     *)
(* never moves back and approvals are only added to (record.rs, Lifecycle   *)
(* and ToolCall::dispatch).                                                 *)
HistoryKept ==
    [][ /\ ~is_terminal(row.state)
        /\ row.started_at # Never => row'.started_at = row.started_at
        /\ row.policy # "none" => row'.policy = row.policy
        /\ row.tool_version # "" => row'.tool_version = row.tool_version
        /\ row.updated_at <= row'.updated_at
        /\ Len(row'.approvals) \in {Len(row.approvals), Len(row.approvals) + 1}
        /\ \A i \in 1..Len(row.approvals) : row'.approvals[i] = row.approvals[i] ]_row

(* A record can always be read, says who consented, and keeps its history      *)
(* (wire.rs and record.rs: the three properties above).                         *)
RecordsKept == [](LoadsBack /\ ConsentRecorded) /\ HistoryKept
=============================================================================
