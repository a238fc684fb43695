----------------------------- MODULE StoreProofs -----------------------------
(* Proofs about what Harkness keeps on disk.  About RunRecords, for any        *)
(* instants, versions and limits and for records of any length of history;     *)
(* about AgentRegistry, for any set of callers, commands and executables;      *)
(* about StoreWrites, for any number of calls, power losses and meddlings.     *)
EXTENDS RunRecords, AgentRegistry, StoreWrites, FiniteSetTheorems, TLAPS

-----------------------------------------------------------------------------
\* The inductive invariant

Instant == Nat \cup {Never}
Approval == [decision : {"approved", "denied"}, decided_at : Nat]

RecordType ==
    [kind : {"run", "step", "call"}, schema_version : 1 .. Current,
     state : EXECUTION_STATES \cup TOOL_CALL_STATES, revision : Nat,
     created_at : Nat, updated_at : Nat, started_at : Instant, finished_at : Instant,
     failure : {"none", "error", "reason"}, output : BOOLEAN, approvals : Seq(Approval),
     policy : {"none", "allow", "ask", "deny"}, tool_version : Versions \cup {""},
     retry : BOOLEAN, workspace_may_be_modified : BOOLEAN]

States(kind) == IF kind = "call" THEN TOOL_CALL_STATES ELSE EXECUTION_STATES

\* Every approval of a run or step took a wait, and every wait a change.
WaitsCounted(r) ==
    r.kind # "call" /\ r.state = "waiting" => r.revision >= 2 * Len(r.approvals) + 2

\* ConsentRecorded of record r.
Consented(r) ==
    r.kind = "call" =>
        /\ r.policy = "ask" /\ r.started_at # Never =>
             Len(r.approvals) = 1 /\ r.approvals[1].decision = "approved"
        /\ r.policy = "deny" => r.started_at = Never
        /\ r.state = "denied" => r.policy = "deny" \/ r.approvals # <<>>

RecordInv(r) ==
    /\ r \in RecordType
    /\ r.state \in States(r.kind)
    /\ Readable(r)
    /\ WaitsCounted(r)
    /\ Consented(r)

\* What HistoryKept says of record o that becomes n.
Remembers(o, n) ==
    /\ ~is_terminal(o.state)
    /\ o.started_at # Never => n.started_at = o.started_at
    /\ o.policy # "none" => n.policy = o.policy
    /\ o.tool_version # "" => n.tool_version = o.tool_version
    /\ o.updated_at <= n.updated_at
    /\ Len(n.approvals) \in {Len(o.approvals), Len(o.approvals) + 1}
    /\ \A i \in 1 .. Len(o.approvals) : n.approvals[i] = o.approvals[i]

-----------------------------------------------------------------------------
\* The life of a record

\* Record o moves to state "to" and becomes n.
Advanced(o, n, to) ==
    /\ <<o.state, to>> \in transitions(o.kind)
    /\ n.kind = o.kind /\ n.state = to /\ n.created_at = o.created_at
    /\ n.updated_at >= o.updated_at /\ n.revision = o.revision + 1
    /\ n.started_at = IF to = "running" /\ o.started_at = Never THEN n.updated_at
                      ELSE o.started_at
    /\ n.finished_at = IF is_terminal(to) THEN n.updated_at ELSE o.finished_at

\* The edges of the two machines.
LEMMA TableEdges ==
    ASSUME NEW kind, NEW s, NEW to, <<s, to>> \in transitions(kind)
    PROVE  /\ s \in States(kind) /\ to \in States(kind) /\ ~is_terminal(s) /\ to # Initial(kind)
           /\ to = "succeeded" => s = "running"
           /\ to = "waiting" => s = "running" /\ kind # "call"
           /\ to \in {"denied", "awaiting"} => kind = "call" /\ s \in {"pending", "awaiting"}
           /\ to = "awaiting" => s = "pending"
           /\ to = "running" => s \in {"queued", "pending", "waiting", "awaiting"}
           /\ kind = "call" => to \notin {"queued", "waiting"} /\ s \notin {"queued", "waiting"}
           /\ kind # "call" => to \notin {"pending", "awaiting", "denied"}
<1>1. CASE kind = "call"
  BY <1>1 DEF transitions, TOOL_CALL_TRANSITIONS, TOOL_CALL_STATES, States, is_terminal, Initial
<1>2. CASE kind # "call"
  BY <1>2 DEF transitions, EXECUTION_TRANSITIONS, EXECUTION_STATES, States, is_terminal, Initial
<1>3. QED
  BY <1>1, <1>2

\* The validator of the times, the state and the revision accepts every edge.
LEMMA LifecycleKept ==
    ASSUME NEW o \in RecordType, NEW n \in RecordType, NEW to, Advanced(o, n, to), from_wire(o)
    PROVE  from_wire(n)
<1> DEFINE k == o.kind
           s == o.state
<1>1. /\ o.revision \in Nat /\ o.created_at \in Nat /\ o.updated_at \in Nat
      /\ o.started_at \in Instant /\ o.finished_at \in Instant
      /\ n.updated_at \in Nat /\ n.created_at \in Nat /\ n.started_at \in Instant
  BY DEF RecordType
<1>2. /\ s \in States(k) /\ to \in States(k) /\ ~is_terminal(s) /\ to # Initial(k)
      /\ to = "succeeded" => s = "running"
      /\ to = "waiting" => s = "running" /\ k # "call"
      /\ to \in {"denied", "awaiting"} => k = "call" /\ s \in {"pending", "awaiting"}
      /\ to = "running" => s \in {"queued", "pending", "waiting", "awaiting"}
      /\ k = "call" => to \notin {"queued", "waiting"}
      /\ k # "call" => to \notin {"pending", "awaiting", "denied"}
  BY TableEdges DEF Advanced
<1>3. /\ n.kind = k /\ n.state = to /\ n.created_at = o.created_at
      /\ n.updated_at >= o.updated_at /\ n.revision = o.revision + 1
      /\ n.started_at = IF to = "running" /\ o.started_at = Never THEN n.updated_at
                        ELSE o.started_at
      /\ n.finished_at = IF is_terminal(to) THEN n.updated_at ELSE o.finished_at
  BY DEF Advanced
<1>4. /\ o.updated_at >= o.created_at
      /\ o.started_at # Never => o.created_at <= o.started_at /\ o.started_at <= o.updated_at
      /\ o.finished_at = Never
      /\ requires_started_at(o) => o.started_at # Never
      /\ forbids_started_at(o) => o.started_at = Never
      /\ s = Initial(k) <=> o.revision = 0
      /\ o.revision >= minimum_revision(o)
  BY <1>2 DEF from_wire
<1>5. /\ n.updated_at >= n.created_at
      /\ n.started_at # Never => n.created_at <= n.started_at /\ n.started_at <= n.updated_at
  BY <1>1, <1>3, <1>4 DEF Instant, Never
<1>6. /\ is_terminal(n.state) <=> n.finished_at # Never
      /\ n.finished_at # Never => n.finished_at = n.updated_at
  BY <1>1, <1>3, <1>4 DEF Never
<1>7. requires_started_at(n) => n.started_at # Never
  <2>1. to = "running" => n.started_at # Never
    BY <1>1, <1>3 DEF Never
  <2>2. to \in {"waiting", "succeeded"} => o.started_at # Never
    BY <1>2, <1>4 DEF requires_started_at
  <2>3. requires_started_at(n) => to \in {"running", "waiting", "succeeded"}
    BY <1>3 DEF requires_started_at
  <2>4. QED
    BY <1>3, <2>1, <2>2, <2>3
<1>8. forbids_started_at(n) => n.started_at = Never
  <2>1. forbids_started_at(n) => k = "call" /\ to \in {"awaiting", "denied"}
    BY <1>2, <1>3 DEF forbids_started_at, Initial
  <2>2. k = "call" /\ to \in {"awaiting", "denied"} => forbids_started_at(o)
    BY <1>2 DEF forbids_started_at
  <2>3. QED
    BY <1>3, <1>4, <2>1, <2>2
<1>9. /\ n.state = Initial(n.kind) <=> n.revision = 0
      /\ n.revision >= minimum_revision(n)
      /\ n.revision = 0 => n.updated_at = n.created_at
  <2>1. n.revision \in Nat /\ n.revision >= 1
    BY <1>1, <1>3
  <2>2. CASE to \in {"waiting", "succeeded"}
    <3>1. s = "running" /\ s # Initial(k)
      BY <1>2, <2>2 DEF Initial
    <3>2. o.revision >= 1
      BY <1>1, <1>4, <3>1
    <3>3. minimum_revision(n) = 2
      BY <1>2, <1>3, <2>2 DEF minimum_revision
    <3>4. QED
      BY <1>1, <1>2, <1>3, <2>1, <3>2, <3>3
  <2>3. CASE to \notin {"waiting", "succeeded"}
    <3>1. minimum_revision(n) = 1
      BY <1>2, <1>3, <2>3 DEF minimum_revision
    <3>2. QED
      BY <1>2, <1>3, <2>1, <3>1
  <2>4. QED
    BY <2>2, <2>3
<1>10. QED
  BY <1>5, <1>6, <1>7, <1>8, <1>9 DEF from_wire

-----------------------------------------------------------------------------
\* Approvals

\* The part of validate_approvals that every approval must meet.
Dated(r) ==
    \A i \in 1 .. Len(r.approvals) :
      /\ r.created_at <= r.approvals[i].decided_at /\ r.approvals[i].decided_at <= r.updated_at
      /\ i > 1 => r.approvals[i - 1].decided_at <= r.approvals[i].decided_at
      /\ r.approvals[i].decision = "denied" =>
           i = Len(r.approvals) /\ r.state = (IF r.kind = "call" THEN "denied" ELSE "failed")

\* A record that goes on carries no denial.
LEMMA NoDenialYet ==
    ASSUME NEW o, NEW n, NEW to, Advanced(o, n, to), Dated(o)
    PROVE  \A i \in 1 .. Len(o.approvals) : o.approvals[i].decision # "denied"
<1>1. ~is_terminal(o.state)
  BY TableEdges DEF Advanced
<1>2. o.state \notin {"denied", "failed"}
  BY <1>1 DEF is_terminal
<1>3. QED
  BY <1>2 DEF Dated

\* The approvals of a record stay in order while the record goes on.
LEMMA ApprovalsStay ==
    ASSUME NEW o \in RecordType, NEW n \in RecordType, NEW to, Advanced(o, n, to), Dated(o),
           n.approvals = o.approvals
    PROVE  Dated(n)
<1>1. \A i \in 1 .. Len(o.approvals) : o.approvals[i].decision # "denied"
  BY NoDenialYet
<1>2. /\ o.updated_at \in Nat /\ n.updated_at \in Nat /\ n.updated_at >= o.updated_at
      /\ n.created_at = o.created_at /\ o.approvals \in Seq(Approval)
  BY DEF RecordType, Advanced
<1>3. \A i \in 1 .. Len(o.approvals) : o.approvals[i].decided_at \in Nat
  <2>1. \A i \in 1 .. Len(o.approvals) : o.approvals[i] \in Approval
    BY <1>2
  <2>2. QED
    BY <2>1 DEF Approval
<1>4. ASSUME NEW i \in 1 .. Len(n.approvals)
      PROVE  /\ n.created_at <= n.approvals[i].decided_at
             /\ n.approvals[i].decided_at <= n.updated_at
             /\ i > 1 => n.approvals[i - 1].decided_at <= n.approvals[i].decided_at
             /\ n.approvals[i].decision # "denied"
  <2>1. /\ o.created_at <= o.approvals[i].decided_at /\ o.approvals[i].decided_at <= o.updated_at
        /\ i > 1 => o.approvals[i - 1].decided_at <= o.approvals[i].decided_at
    BY DEF Dated
  <2>2. QED
    BY <1>1, <1>2, <1>3, <2>1
<1>5. QED
  BY <1>4 DEF Dated

\* What Append gives.
LEMMA AppendIs ==
    ASSUME NEW T, NEW a \in Seq(T), NEW e \in T
    PROVE  /\ Append(a, e) \in Seq(T) /\ Len(Append(a, e)) = Len(a) + 1 /\ Len(a) \in Nat
           /\ Append(a, e)[Len(a) + 1] = e /\ Append(a, e) # <<>>
           /\ \A i \in 1 .. Len(a) : Append(a, e)[i] = a[i]
<1>1. /\ Append(a, e) \in Seq(T) /\ Len(Append(a, e)) = Len(a) + 1 /\ Len(a) \in Nat
      /\ Append(a, e)[Len(a) + 1] = e
  OBVIOUS
<1>2. \A i \in 1 .. Len(a) : Append(a, e)[i] = a[i]
  OBVIOUS
<1>3. Append(a, e) # <<>>
  BY <1>1
<1>4. QED
  BY <1>1, <1>2, <1>3

\* So does a decision that is added with the change it brings.
LEMMA ApprovalsGrow ==
    ASSUME NEW o \in RecordType, NEW n \in RecordType, NEW to, Advanced(o, n, to), Dated(o),
           from_wire(o), NEW d \in {"approved", "denied"},
           n.approvals = Append(o.approvals, [decision |-> d, decided_at |-> n.updated_at]),
           d = "denied" => to = (IF n.kind = "call" THEN "denied" ELSE "failed")
    PROVE  /\ Dated(n) /\ Len(n.approvals) = Len(o.approvals) + 1 /\ n.approvals # <<>>
           /\ n.approvals[Len(o.approvals) + 1].decision = d
           /\ \A i \in 1 .. Len(o.approvals) : n.approvals[i] = o.approvals[i]
<1> DEFINE m == Len(o.approvals)
           e == [decision |-> d, decided_at |-> n.updated_at]
           a == o.approvals
           b == n.approvals
<1>1. \A i \in 1 .. m : a[i].decision # "denied"
  BY NoDenialYet
<1>2. /\ o.updated_at \in Nat /\ n.updated_at \in Nat /\ n.updated_at >= o.updated_at
      /\ n.created_at = o.created_at /\ a \in Seq(Approval) /\ n.state = to
      /\ o.created_at \in Nat /\ o.created_at <= o.updated_at
  BY DEF RecordType, Advanced, from_wire
<1>3. \A i \in 1 .. m : a[i].decided_at \in Nat
  <2>1. \A i \in 1 .. m : a[i] \in Approval
    BY <1>2
  <2>2. QED
    BY <2>1 DEF Approval
<1>4. \A i \in 1 .. m : /\ o.created_at <= a[i].decided_at /\ a[i].decided_at <= o.updated_at
                        /\ i > 1 => a[i - 1].decided_at <= a[i].decided_at
  BY DEF Dated
<1>5. e \in Approval /\ e.decision = d /\ e.decided_at = n.updated_at
  BY <1>2 DEF Approval
<1> HIDE DEF e
<1>6. b = Append(a, e)
  BY DEF e
<1> HIDE DEF a, b
<1>7. m = Len(a) /\ b = n.approvals /\ a = o.approvals
  BY DEF a, b
<1> HIDE DEF m
<1>8. /\ Len(b) = m + 1 /\ b[m + 1] = e /\ \A i \in 1 .. m : b[i] = a[i]
      /\ m \in Nat /\ b # <<>>
  <2>1. a \in Seq(Approval) /\ e \in Approval
    BY <1>2, <1>5
  <2>2. /\ Len(Append(a, e)) = Len(a) + 1 /\ Len(a) \in Nat
        /\ Append(a, e)[Len(a) + 1] = e /\ Append(a, e) # <<>>
        /\ \A i \in 1 .. Len(a) : Append(a, e)[i] = a[i]
    BY <2>1, AppendIs
  <2>3. m = Len(a) /\ b = Append(a, e)
    BY <1>6, <1>7
  <2>4. QED
    BY ONLY <2>2, <2>3
<1>9. ASSUME NEW i \in 1 .. Len(b)
      PROVE  /\ n.created_at <= b[i].decided_at /\ b[i].decided_at <= n.updated_at
             /\ i > 1 => b[i - 1].decided_at <= b[i].decided_at
             /\ b[i].decision = "denied" => i = Len(b) /\ d = "denied"
  <2>1. CASE i <= m
    <3>1. i \in 1 .. m /\ (i > 1 => i - 1 \in 1 .. m)
      BY <1>8, <2>1
    <3>2. b[i] = a[i] /\ (i > 1 => b[i - 1] = a[i - 1])
      BY <1>8, <3>1
    <3>3. QED
      BY <1>1, <1>2, <1>3, <1>4, <3>1, <3>2
  <2>2. CASE i = m + 1
    <3>1. b[i].decided_at = n.updated_at /\ b[i].decision = d /\ i = Len(b)
      BY <1>5, <1>8, <2>2
    <3>2. i > 1 => i - 1 \in 1 .. m /\ b[i - 1] = a[i - 1]
      BY <1>8, <2>2
    <3>3. QED
      BY <1>2, <1>3, <1>4, <3>1, <3>2
  <2>3. QED
    BY <1>8, <2>1, <2>2
<1>10. Dated(n)
  BY <1>2, <1>7, <1>9 DEF Dated
<1>11. QED
  BY <1>5, <1>7, <1>8, <1>10 DEF m

\* What the validator asks of the approvals of a record that has moved on.
LEMMA ApprovalsAccepted ==
    ASSUME NEW n, n.state # Initial(n.kind), Len(n.approvals) <= n.revision, Dated(n),
           n.kind = "call" => call_approval_shape(n),
           n.kind # "call" => execution_approval_shape(n)
    PROVE  validate_approvals(n)
<1>1. IF n.kind = "call" THEN call_approval_shape(n) ELSE execution_approval_shape(n)
  OBVIOUS
<1>2. QED
  BY <1>1 DEF validate_approvals, Dated

-----------------------------------------------------------------------------
\* Runs and steps

\* The decision d is added with the change.
Decided(o, n, d) ==
    n.approvals = Append(o.approvals, [decision |-> d, decided_at |-> n.updated_at])

\* A run or a step moves on: it fails with an error, and leaves a wait with a
\* decision or without one.
ExecutionChange(o, n, to) ==
    /\ Advanced(o, n, to) /\ o.kind # "call"
    /\ n.schema_version = o.schema_version /\ n.retry = o.retry
    /\ n.workspace_may_be_modified = o.workspace_may_be_modified
    /\ n.policy = o.policy /\ n.tool_version = o.tool_version
    /\ n.failure = IF to = "failed" THEN "error" ELSE o.failure
    /\ \/ n.approvals = o.approvals
       \/ o.state = "waiting" /\ to = "running" /\ Decided(o, n, "approved")
       \/ o.state = "waiting" /\ to = "failed" /\ Decided(o, n, "denied")

\* Whatever a run or a step becomes, the validator accepts it.
LEMMA ExecutionKept ==
    ASSUME NEW o \in RecordType, NEW n \in RecordType, NEW to, RecordInv(o),
           ExecutionChange(o, n, to)
    PROVE  RecordInv(n) /\ Remembers(o, n)
<1> DEFINE len == Len(o.approvals)
<1>1. /\ Advanced(o, n, to) /\ o.kind # "call" /\ n.kind = o.kind /\ n.state = to
      /\ o.kind \in {"run", "step"}
  BY DEF ExecutionChange, Advanced, RecordType
<1>2. /\ o.state \in States(o.kind) /\ to \in States(o.kind) /\ ~is_terminal(o.state)
      /\ to # Initial(o.kind)
      /\ to = "waiting" => o.state = "running"
      /\ to \notin {"pending", "awaiting", "denied"}
  BY <1>1, TableEdges DEF Advanced
<1>3. from_wire(o) /\ validate_failure(o) /\ validate_approvals(o) /\ WaitsCounted(o)
  BY <1>1 DEF RecordInv, Readable, run_from_wire, step_from_wire
<1>4. from_wire(n)
  BY <1>1, <1>3, LifecycleKept
<1>5. Dated(o)
  BY <1>3 DEF validate_approvals, Dated
<1>6. /\ o.revision \in Nat /\ n.revision = o.revision + 1 /\ o.approvals \in Seq(Approval)
      /\ o.updated_at <= n.updated_at
      /\ o.started_at # Never => n.started_at = o.started_at
  BY <1>1 DEF RecordType, Advanced
<1>7. o.approvals # <<>> => o.started_at # Never /\ o.revision >= 2 * len + 1
  BY <1>1, <1>3 DEF validate_approvals, execution_approval_shape
<1>8. len \in Nat /\ (o.approvals = <<>> <=> len = 0)
  BY <1>6
<1>9. len <= o.revision
  BY <1>3 DEF validate_approvals
<1>10. validate_failure(n)
  <2>1. o.failure = "none"
    BY <1>1, <1>2, <1>3 DEF validate_failure, is_terminal
  <2>2. n.failure # "none" <=> to = "failed"
    BY <2>1 DEF ExecutionChange
  <2>3. QED
    BY <1>1, <1>2, <2>2 DEF validate_failure
<1>11. ASSUME n.approvals = o.approvals
       PROVE  validate_approvals(n) /\ WaitsCounted(n)
  <2>1. Dated(n)
    BY <1>1, <1>5, <1>11, ApprovalsStay
  <2>2. execution_approval_shape(n)
    BY <1>6, <1>7, <1>8, <1>11 DEF execution_approval_shape
  <2>3. validate_approvals(n)
    <3>1. Len(n.approvals) <= n.revision
      BY <1>6, <1>8, <1>9, <1>11
    <3>2. QED
      BY <1>1, <1>2, <2>1, <2>2, <3>1, ApprovalsAccepted
  <2>4. n.state = "waiting" => n.revision >= 2
    BY <1>1, <1>2, <1>4 DEF from_wire, minimum_revision
  <2>5. WaitsCounted(n)
    BY <1>6, <1>7, <1>8, <1>11, <2>4 DEF WaitsCounted
  <2>6. QED
    BY <2>3, <2>5
<1>12. ASSUME NEW d \in {"approved", "denied"}, Decided(o, n, d), o.state = "waiting",
              d = "denied" => to = "failed", to # "waiting"
       PROVE  /\ validate_approvals(n) /\ WaitsCounted(n)
              /\ Len(n.approvals) = len + 1
              /\ \A i \in 1 .. len : n.approvals[i] = o.approvals[i]
  <2>1. /\ Dated(n) /\ Len(n.approvals) = len + 1
        /\ \A i \in 1 .. len : n.approvals[i] = o.approvals[i]
    BY <1>1, <1>3, <1>5, <1>12, ApprovalsGrow DEF Decided
  <2>2. o.started_at # Never /\ o.revision >= 2 * len + 2
    BY <1>1, <1>3, <1>12 DEF from_wire, requires_started_at, WaitsCounted
  <2>3. execution_approval_shape(n)
    BY <1>6, <1>8, <2>1, <2>2 DEF execution_approval_shape
  <2>4. validate_approvals(n)
    <3>1. Len(n.approvals) <= n.revision
      BY <1>6, <1>8, <1>9, <2>1
    <3>2. QED
      BY <1>1, <1>2, <2>1, <2>3, <3>1, ApprovalsAccepted
  <2>5. WaitsCounted(n)
    BY <1>1, <1>12 DEF WaitsCounted
  <2>6. QED
    BY <2>1, <2>4, <2>5
<1>13. /\ validate_approvals(n) /\ WaitsCounted(n)
       /\ Len(n.approvals) \in {len, len + 1}
       /\ \A i \in 1 .. len : n.approvals[i] = o.approvals[i]
  <2>1. \/ n.approvals = o.approvals
        \/ o.state = "waiting" /\ to = "running" /\ Decided(o, n, "approved")
        \/ o.state = "waiting" /\ to = "failed" /\ Decided(o, n, "denied")
    BY DEF ExecutionChange
  <2>2. CASE n.approvals = o.approvals
    BY <1>8, <1>11, <2>2
  <2>3. CASE o.state = "waiting" /\ to = "running" /\ Decided(o, n, "approved")
    BY <1>12, <2>3
  <2>4. CASE o.state = "waiting" /\ to = "failed" /\ Decided(o, n, "denied")
    BY <1>12, <2>4
  <2>5. QED
    BY <2>1, <2>2, <2>3, <2>4
<1>14. /\ n.schema_version = o.schema_version /\ n.retry = o.retry
       /\ n.workspace_may_be_modified = o.workspace_may_be_modified
       /\ n.policy = o.policy /\ n.tool_version = o.tool_version
  BY DEF ExecutionChange
<1>15. Readable(n)
  <2>1. CASE o.kind = "run"
    <3>1. /\ o.schema_version < 4 => ~o.retry /\ ~o.workspace_may_be_modified
          /\ o.workspace_may_be_modified => o.retry
      BY <2>1 DEF RecordInv, Readable, run_from_wire
    <3>2. QED
      BY <1>1, <1>4, <1>10, <1>13, <1>14, <2>1, <3>1 DEF Readable, run_from_wire
  <2>2. CASE o.kind = "step"
    BY <1>1, <1>4, <1>10, <1>13, <2>2 DEF Readable, step_from_wire
  <2>3. QED
    BY <1>1, <2>1, <2>2
<1>16. RecordInv(n)
  BY <1>1, <1>2, <1>13, <1>15 DEF RecordInv, Consented
<1>17. Remembers(o, n)
  BY <1>2, <1>6, <1>13, <1>14 DEF Remembers
<1>18. QED
  BY <1>16, <1>17

-----------------------------------------------------------------------------
\* Tool calls

\* What a change of a call may leave alone.
SameOutcome(o, n) == n.failure = o.failure /\ n.output = o.output
SameConsent(o, n) == n.approvals = o.approvals /\ n.policy = o.policy

\* The ways in which a call moves on.
Stops(o, n, to) ==
    /\ to \in {"running", "cancelled", "interrupted"} /\ ~(o.state = "awaiting" /\ to = "running")
    /\ SameOutcome(o, n) /\ SameConsent(o, n)
Fails(o, n, to) ==
    to = "failed" /\ n.failure = "error" /\ n.output = o.output /\ SameConsent(o, n)
Succeeds(o, n, to) ==
    to = "succeeded" /\ n.failure = o.failure /\ n.output = TRUE /\ SameConsent(o, n)
Approves(o, n, to) ==
    /\ o.state = "awaiting" /\ to = "running" /\ Decided(o, n, "approved")
    /\ SameOutcome(o, n) /\ n.policy = o.policy
Refuses(o, n, to) ==
    /\ o.state = "awaiting" /\ to = "denied" /\ Decided(o, n, "denied")
    /\ n.failure = "error" /\ n.output = o.output /\ n.policy = o.policy
Asks(o, n, to) ==
    /\ o.policy = "none" /\ to = "awaiting" /\ n.policy = "ask"
    /\ SameOutcome(o, n) /\ n.approvals = o.approvals
Denies(o, n, to) ==
    /\ o.policy = "none" /\ o.state = "pending" /\ to = "denied" /\ n.policy = "deny"
    /\ n.failure = "reason" /\ n.output = o.output /\ n.approvals = o.approvals

\* What every change of a call has in common: the schema is stamped, and a
\* version that was recorded stays.
CallWritten(o, n) ==
    /\ o.kind = "call" /\ n.schema_version = Current
    /\ o.tool_version # "" => n.tool_version = o.tool_version

CallChange(o, n, to) ==
    /\ Advanced(o, n, to) /\ CallWritten(o, n)
    /\ \/ Stops(o, n, to) \/ Fails(o, n, to) \/ Succeeds(o, n, to)
       \/ Approves(o, n, to) \/ Refuses(o, n, to) \/ Asks(o, n, to) \/ Denies(o, n, to)

\* An approval or a refusal is the one decision of a call.
CallDecided(o, n, d) ==
    /\ Len(n.approvals) = 1 /\ n.approvals[1].decision = d /\ o.approvals = <<>>
    /\ n.approvals # <<>>

\* Whatever a call moves on to, the validator accepts it.
LEMMA CallKept ==
    ASSUME NEW o \in RecordType, NEW n \in RecordType, NEW to, RecordInv(o), CallChange(o, n, to)
    PROVE  RecordInv(n) /\ Remembers(o, n)
<1>1. /\ Advanced(o, n, to) /\ o.kind = "call" /\ n.kind = "call" /\ n.state = to
      /\ n.schema_version = Current
      /\ o.tool_version # "" => n.tool_version = o.tool_version
  BY DEF CallChange, CallWritten, Advanced
<1>2. /\ to \in States("call") /\ ~is_terminal(o.state) /\ to # "pending"
      /\ to = "succeeded" => o.state = "running"
      /\ to \in {"denied", "awaiting"} => o.state \in {"pending", "awaiting"}
      /\ to = "awaiting" => o.state = "pending"
      /\ to = "running" => o.state \in {"pending", "awaiting"}
      /\ to \notin {"queued", "waiting"} /\ o.state \notin {"queued", "waiting"}
  <2>1. <<o.state, to>> \in transitions("call")
    BY <1>1 DEF Advanced
  <2>2. Initial("call") = "pending"
    BY DEF Initial
  <2>3. QED
    BY <2>1, <2>2, TableEdges
<1>3. tool_call_from_wire(o)
  BY <1>1 DEF RecordInv, Readable
<1>4. from_wire(o) /\ validate_failure(o) /\ validate_output(o) /\ validate_approvals(o)
      /\ validate_policy_decision(o) /\ Consented(o)
  BY <1>3 DEF tool_call_from_wire, RecordInv
<1>5. from_wire(n)
  BY <1>1, <1>4, LifecycleKept
<1>6. Dated(o) /\ call_approval_shape(o)
  BY <1>1, <1>4 DEF validate_approvals, Dated
<1>7. /\ o.revision \in Nat /\ n.revision = o.revision + 1 /\ o.approvals \in Seq(Approval)
      /\ o.updated_at <= n.updated_at
  BY <1>1 DEF RecordType, Advanced
<1>8. /\ o.started_at # Never => n.started_at = o.started_at
      /\ n.started_at # Never => o.started_at # Never \/ to = "running"
  BY <1>1 DEF Advanced
<1>9. /\ Len(o.approvals) \in Nat /\ Len(o.approvals) <= 1
      /\ o.approvals = <<>> <=> Len(o.approvals) = 0
  BY <1>6, <1>7 DEF call_approval_shape
<1>10. /\ o.failure = "none" /\ o.output = FALSE
       /\ o.state \in {"pending", "awaiting"} => o.approvals = <<>> /\ o.started_at = Never
       /\ o.state # "pending" => o.revision >= 1
  <2>1. o.state \notin {"failed", "denied", "succeeded"}
    BY <1>2 DEF is_terminal
  <2>2. o.failure = "none"
    BY <1>4, <2>1 DEF validate_failure
  <2>3. ~o.output /\ o.output \in BOOLEAN
    BY <1>4, <2>1 DEF validate_output, RecordType
  <2>4. o.state \in {"pending", "awaiting"} => o.approvals = <<>> /\ o.started_at = Never
    BY <1>1, <1>4, <1>6 DEF call_approval_shape, from_wire, forbids_started_at
  <2>5. o.state # "pending" => o.revision # 0
    BY <1>1, <1>4 DEF from_wire, Initial
  <2>6. QED
    BY <1>7, <2>2, <2>3, <2>4, <2>5
<1>11. ASSUME n.approvals = o.approvals
       PROVE  validate_approvals(n)
  <2>1. Dated(n)
    BY <1>1, <1>6, <1>11, ApprovalsStay
  <2>2. n.approvals # <<>> => o.state \notin {"pending", "awaiting"} /\ o.revision >= 2
    BY <1>6, <1>11 DEF call_approval_shape
  <2>3. n.approvals # <<>> => to \notin {"pending", "awaiting", "denied"}
    BY <1>2, <2>2
  <2>4. call_approval_shape(n)
    <3>1. n.approvals # <<>> => n.revision >= 2
      BY <1>7, <2>2
    <3>2. Len(n.approvals) <= 1
      BY <1>9, <1>11
    <3>3. QED
      BY <1>1, <2>3, <3>1, <3>2 DEF call_approval_shape
  <2>5. Len(n.approvals) <= n.revision
    BY <1>7, <1>9, <1>11
  <2>6. QED
    BY <1>1, <1>2, <2>1, <2>4, <2>5, ApprovalsAccepted DEF Initial
<1>12. ASSUME NEW d \in {"approved", "denied"}, Decided(o, n, d), o.state = "awaiting",
              to = (IF d = "denied" THEN "denied" ELSE "running")
       PROVE  validate_approvals(n) /\ CallDecided(o, n, d)
  <2>1. o.approvals = <<>> /\ Len(o.approvals) = 0 /\ o.revision >= 1
    BY <1>9, <1>10, <1>12
  <2>2. /\ Dated(n) /\ Len(n.approvals) = Len(o.approvals) + 1 /\ n.approvals # <<>>
        /\ n.approvals[Len(o.approvals) + 1].decision = d
    <3>1. d = "denied" => to = (IF n.kind = "call" THEN "denied" ELSE "failed")
      BY <1>1, <1>12
    <3>2. QED
      BY <1>1, <1>4, <1>6, <1>12, <3>1, ApprovalsGrow DEF Decided
  <2>3. Len(n.approvals) = 1 /\ n.approvals[1].decision = d
    BY <2>1, <2>2
  <2>4. call_approval_shape(n)
    <3>1. n.revision >= 2 /\ Len(n.approvals) <= 1
      BY <1>7, <2>1, <2>3
    <3>2. n.state \notin {"pending", "awaiting"} /\ (n.state = "denied" => d = "denied")
      BY <1>1, <1>12
    <3>3. QED
      BY <2>3, <3>1, <3>2 DEF call_approval_shape
  <2>5. Len(n.approvals) <= n.revision
    BY <1>7, <2>1, <2>3
  <2>6. validate_approvals(n)
    BY <1>1, <1>2, <2>2, <2>4, <2>5, ApprovalsAccepted DEF Initial
  <2>7. QED
    BY <2>1, <2>2, <2>3, <2>6 DEF CallDecided
<1> DEFINE Good ==
             /\ validate_failure(n) /\ validate_output(n) /\ validate_approvals(n)
             /\ validate_policy_decision(n) /\ Consented(n)
             /\ o.policy # "none" => n.policy = o.policy
             /\ Len(n.approvals) \in {Len(o.approvals), Len(o.approvals) + 1}
             /\ \A i \in 1 .. Len(o.approvals) : n.approvals[i] = o.approvals[i]
<1>13. ASSUME n.approvals = o.approvals
       PROVE  /\ Len(n.approvals) \in {Len(o.approvals), Len(o.approvals) + 1}
              /\ \A i \in 1 .. Len(o.approvals) : n.approvals[i] = o.approvals[i]
  BY <1>9, <1>13
<1>14. ASSUME NEW d, CallDecided(o, n, d)
       PROVE  /\ Len(n.approvals) \in {Len(o.approvals), Len(o.approvals) + 1}
              /\ \A i \in 1 .. Len(o.approvals) : n.approvals[i] = o.approvals[i]
  BY <1>9, <1>14 DEF CallDecided
<1>15. ASSUME Stops(o, n, to) PROVE Good
  <2>1. /\ n.failure = o.failure /\ n.output = o.output /\ n.approvals = o.approvals
        /\ n.policy = o.policy /\ to \notin {"failed", "denied", "succeeded", "awaiting"}
        /\ to = "running" => o.state = "pending"
    BY <1>2, <1>15 DEF Stops, SameOutcome, SameConsent
  <2>2. validate_failure(n) /\ validate_output(n)
    BY <1>1, <1>10, <2>1 DEF validate_failure, validate_output
  <2>3. validate_policy_decision(n)
    BY <1>1, <1>2, <1>4, <2>1 DEF validate_policy_decision, is_terminal
  <2>4. Consented(n)
    BY <1>1, <1>4, <1>8, <2>1 DEF Consented, validate_policy_decision
  <2>5. QED
    BY <1>11, <1>13, <2>1, <2>2, <2>3, <2>4
<1>16. ASSUME Fails(o, n, to) \/ Succeeds(o, n, to) PROVE Good
  <2>1. /\ n.approvals = o.approvals /\ n.policy = o.policy /\ to \in {"failed", "succeeded"}
        /\ to = "failed" => n.failure = "error" /\ n.output = o.output
        /\ to = "succeeded" => n.failure = o.failure /\ n.output = TRUE
    BY <1>16 DEF Fails, Succeeds, SameConsent
  <2>2. validate_failure(n) /\ validate_output(n)
    BY <1>1, <1>10, <2>1 DEF validate_failure, validate_output
  <2>3. validate_policy_decision(n)
    BY <1>1, <1>2, <1>4, <2>1 DEF validate_policy_decision, is_terminal
  <2>4. Consented(n)
    BY <1>1, <1>4, <1>8, <2>1 DEF Consented
  <2>5. QED
    BY <1>11, <1>13, <2>1, <2>2, <2>3, <2>4
<1>17. ASSUME Approves(o, n, to) PROVE Good
  <2>1. /\ n.failure = o.failure /\ n.output = o.output /\ n.policy = o.policy
        /\ o.state = "awaiting" /\ to = "running" /\ Decided(o, n, "approved")
    BY <1>17 DEF Approves, SameOutcome
  <2>2. validate_approvals(n) /\ CallDecided(o, n, "approved")
    BY <1>12, <2>1
  <2>3. validate_failure(n) /\ validate_output(n)
    BY <1>1, <1>10, <2>1 DEF validate_failure, validate_output
  <2>4. validate_policy_decision(n)
    BY <1>1, <1>4, <2>1 DEF validate_policy_decision
  <2>5. Consented(n)
    BY <1>1, <1>4, <2>1, <2>2 DEF Consented, CallDecided, validate_policy_decision
  <2>6. QED
    BY <1>14, <2>1, <2>2, <2>3, <2>4, <2>5
<1>18. ASSUME Refuses(o, n, to) PROVE Good
  <2>1. /\ n.failure = "error" /\ n.output = o.output /\ n.policy = o.policy
        /\ o.state = "awaiting" /\ to = "denied" /\ Decided(o, n, "denied")
    BY <1>18 DEF Refuses
  <2>2. validate_approvals(n) /\ CallDecided(o, n, "denied")
    BY <1>12, <2>1
  <2>3. validate_failure(n) /\ validate_output(n)
    BY <1>1, <1>10, <2>1 DEF validate_failure, validate_output
  <2>4. validate_policy_decision(n)
    BY <1>1, <1>4, <2>1 DEF validate_policy_decision
  <2>5. Consented(n)
    BY <1>1, <1>8, <1>10, <2>1, <2>2 DEF Consented, CallDecided
  <2>6. QED
    BY <1>14, <2>1, <2>2, <2>3, <2>4, <2>5
<1>19. ASSUME Asks(o, n, to) PROVE Good
  <2>1. /\ n.failure = o.failure /\ n.output = o.output /\ n.approvals = o.approvals
        /\ n.policy = "ask" /\ o.policy = "none" /\ to = "awaiting" /\ o.state = "pending"
    BY <1>2, <1>19 DEF Asks, SameOutcome
  <2>2. validate_failure(n) /\ validate_output(n)
    BY <1>1, <1>10, <2>1 DEF validate_failure, validate_output
  <2>3. validate_policy_decision(n)
    BY <1>1, <2>1 DEF validate_policy_decision
  <2>4. Consented(n)
    BY <1>1, <1>8, <1>10, <2>1 DEF Consented
  <2>5. QED
    BY <1>11, <1>13, <2>1, <2>2, <2>3, <2>4
<1>20. ASSUME Denies(o, n, to) PROVE Good
  <2>1. /\ n.failure = "reason" /\ n.output = o.output /\ n.approvals = o.approvals
        /\ n.policy = "deny" /\ o.policy = "none" /\ to = "denied" /\ o.state = "pending"
    BY <1>20 DEF Denies
  <2>2. validate_failure(n) /\ validate_output(n)
    BY <1>1, <1>10, <2>1 DEF validate_failure, validate_output
  <2>3. validate_policy_decision(n)
    BY <1>1, <1>10, <2>1 DEF validate_policy_decision
  <2>4. Consented(n)
    BY <1>1, <1>8, <1>10, <2>1 DEF Consented
  <2>5. QED
    BY <1>11, <1>13, <2>1, <2>2, <2>3, <2>4
<1>21. Good
  <2>1. \/ Stops(o, n, to) \/ Fails(o, n, to) \/ Succeeds(o, n, to)
        \/ Approves(o, n, to) \/ Refuses(o, n, to) \/ Asks(o, n, to) \/ Denies(o, n, to)
    BY DEF CallChange
  <2> HIDE DEF Good
  <2>2. QED
    BY <1>15, <1>16, <1>17, <1>18, <1>19, <1>20, <2>1
<1>22. tool_call_from_wire(n)
  <2>1. n.schema_version # 1
    <3>1. n.schema_version = Current
      BY <1>1
    <3>2. QED
      BY <3>1 DEF Current
  <2>2. QED
    BY <1>5, <1>21, <2>1 DEF tool_call_from_wire
<1>23. Readable(n)
  BY <1>1, <1>22 DEF Readable
<1>24. RecordInv(n)
  BY <1>1, <1>2, <1>21, <1>23 DEF RecordInv, WaitsCounted
<1>25. Remembers(o, n)
  BY <1>1, <1>2, <1>7, <1>8, <1>21 DEF Remembers
<1>26. QED
  BY <1>24, <1>25

\* A verdict that allows a call is recorded before it starts.
LEMMA AllowKept ==
    ASSUME NEW o \in RecordType, NEW n \in RecordType, RecordInv(o), o.kind = "call",
           o.state = "pending", o.policy = "none",
           n = [o EXCEPT !.policy = "allow", !.schema_version = Current]
    PROVE  RecordInv(n) /\ Remembers(o, n)
<1>1. /\ n.policy = "allow" /\ n.schema_version = Current /\ n.kind = "call"
      /\ n.state = "pending" /\ n.revision = o.revision /\ n.created_at = o.created_at
      /\ n.updated_at = o.updated_at /\ n.started_at = o.started_at
      /\ n.finished_at = o.finished_at /\ n.failure = o.failure /\ n.output = o.output
      /\ n.approvals = o.approvals /\ n.tool_version = o.tool_version
  BY DEF RecordType
<1>2. tool_call_from_wire(o)
  BY DEF RecordInv, Readable
<1>3. from_wire(o) /\ validate_failure(o) /\ validate_output(o) /\ validate_approvals(o)
  BY <1>2 DEF tool_call_from_wire
<1>4. from_wire(n)
  BY <1>1, <1>3 DEF from_wire, requires_started_at, forbids_started_at, minimum_revision
<1>5. validate_failure(n) /\ validate_output(n)
  BY <1>1, <1>3 DEF validate_failure, validate_output
<1>6. o.approvals = <<>> /\ o.started_at = Never
  BY <1>3 DEF validate_approvals, Initial, from_wire, forbids_started_at
<1>7. validate_approvals(n)
  BY <1>1, <1>3 DEF validate_approvals, call_approval_shape
<1>8. validate_policy_decision(n)
  BY <1>1 DEF validate_policy_decision
<1>9. Readable(n)
  <2>1. n.schema_version # 1
    BY <1>1 DEF Current
  <2>2. QED
    BY <1>1, <1>4, <1>5, <1>7, <1>8, <2>1 DEF tool_call_from_wire, Readable
<1>10. RecordInv(n)
  BY <1>1, <1>9 DEF RecordInv, WaitsCounted, Consented, States, TOOL_CALL_STATES
<1>11. Remembers(o, n)
  <2>1. o.updated_at \in Nat /\ o.approvals \in Seq(Approval)
    BY DEF RecordType
  <2>2. QED
    BY <1>1, <2>1 DEF Remembers, is_terminal
<1>12. QED
  BY <1>10, <1>11

-----------------------------------------------------------------------------
\* The state machine

\* What a move between states leaves alone.
Aside(o, n) ==
    /\ n.kind = o.kind /\ n.schema_version = o.schema_version /\ n.created_at = o.created_at
    /\ n.retry = o.retry /\ n.workspace_may_be_modified = o.workspace_may_be_modified
SameRest(o, n) ==
    /\ n.output = o.output /\ n.policy = o.policy /\ n.tool_version = o.tool_version

\* The time of a record that moves on, or is set back with the clock.
LEMMA LaterIs ==
    ASSUME NEW a \in Nat, NEW b \in Nat
    PROVE  Later(a, b) \in Nat /\ Later(a, b) >= b
BY DEF Later

\* What Lifecycle::transition makes of a record.
LEMMA LifecycleIs ==
    ASSUME NEW o \in RecordType, NEW to, NEW at \in Nat, NEW c \in lifecycle_transition(o, to, at)
    PROVE  /\ c \in RecordType /\ Advanced(o, c, to) /\ Aside(o, c) /\ SameRest(o, c)
           /\ c.failure = o.failure /\ c.approvals = o.approvals
<1> DEFINE time == Later(at, o.updated_at)
           start == IF to = "running" /\ o.started_at = Never THEN time ELSE o.started_at
           finish == IF is_terminal(to) THEN time ELSE o.finished_at
           n == [o EXCEPT !.state = to, !.updated_at = time, !.revision = o.revision + 1,
                          !.started_at = start, !.finished_at = finish]
<1>1. <<o.state, to>> \in transitions(o.kind) /\ c = n
  BY DEF lifecycle_transition
<1>2. time \in Nat /\ time >= o.updated_at
  <2>1. o.updated_at \in Nat
    BY DEF RecordType
  <2>2. QED
    BY <2>1, LaterIs
<1>3. to \in EXECUTION_STATES \cup TOOL_CALL_STATES
  BY <1>1, TableEdges DEF States
<1>4. start \in Instant /\ finish \in Instant
  BY <1>2 DEF RecordType, Instant
<1>5. c = [o EXCEPT !.state = to, !.updated_at = time, !.revision = o.revision + 1,
                    !.started_at = start, !.finished_at = finish]
  BY <1>1
<1> HIDE DEF time, start, finish, n
<1>6. /\ c \in RecordType /\ Aside(o, c) /\ SameRest(o, c)
      /\ c.failure = o.failure /\ c.approvals = o.approvals
      /\ c.state = to /\ c.updated_at = time /\ c.revision = o.revision + 1
      /\ c.started_at = start /\ c.finished_at = finish
  <2>1. o.revision + 1 \in Nat
    <3>1. o.revision \in Nat
      BY DEF RecordType
    <3>2. QED
      BY <3>1
  <2>2. c \in RecordType
    BY <1>2, <1>3, <1>4, <1>5, <2>1 DEF RecordType
  <2>3. Aside(o, c) /\ SameRest(o, c) /\ c.failure = o.failure /\ c.approvals = o.approvals
    BY <1>5 DEF RecordType, Aside, SameRest
  <2>4. /\ c.state = to /\ c.updated_at = time /\ c.revision = o.revision + 1
        /\ c.started_at = start /\ c.finished_at = finish
    BY <1>5 DEF RecordType
  <2>5. QED
    BY <2>2, <2>3, <2>4
<1>7. Advanced(o, c, to)
  BY <1>1, <1>2, <1>6 DEF Advanced, Aside, start, finish
<1>8. QED
  BY <1>6, <1>7

\* A failure recorded with the move.
LEMMA FailingIs ==
    ASSUME NEW o \in RecordType, NEW to, NEW at \in Nat, NEW f \in {"error", "reason"},
           NEW c \in Failing(lifecycle_transition(o, to, at), f)
    PROVE  /\ c \in RecordType /\ Advanced(o, c, to) /\ Aside(o, c) /\ SameRest(o, c)
           /\ c.failure = f /\ c.approvals = o.approvals
<1>1. PICK r \in lifecycle_transition(o, to, at) : c = [r EXCEPT !.failure = f]
  BY DEF Failing
<1>2. /\ r \in RecordType /\ Advanced(o, r, to) /\ Aside(o, r) /\ SameRest(o, r)
      /\ r.approvals = o.approvals
  BY LifecycleIs
<1>3. c \in RecordType /\ c.failure = f
  BY <1>1, <1>2 DEF RecordType
<1>4. /\ c.kind = r.kind /\ c.state = r.state /\ c.created_at = r.created_at
      /\ c.updated_at = r.updated_at /\ c.revision = r.revision /\ c.started_at = r.started_at
      /\ c.finished_at = r.finished_at /\ c.approvals = r.approvals
      /\ c.schema_version = r.schema_version /\ c.retry = r.retry
      /\ c.workspace_may_be_modified = r.workspace_may_be_modified
      /\ c.output = r.output /\ c.policy = r.policy /\ c.tool_version = r.tool_version
  BY <1>1, <1>2 DEF RecordType
<1>5. QED
  BY <1>2, <1>3, <1>4 DEF Advanced, Aside, SameRest

\* A decision recorded with a move that may already be a failure.
LEMMA ApprovingIs ==
    ASSUME NEW o, NEW to, NEW rs, NEW d \in {"approved", "denied"}, NEW c \in Approving(rs, d),
           \A r \in rs : /\ r \in RecordType /\ Advanced(o, r, to) /\ Aside(o, r) /\ SameRest(o, r)
                         /\ r.approvals = o.approvals
    PROVE  /\ c \in RecordType /\ Advanced(o, c, to) /\ Aside(o, c) /\ SameRest(o, c)
           /\ Decided(o, c, d) /\ \E r \in rs : c.failure = r.failure
<1>1. PICK r \in rs :
        c = [r EXCEPT !.approvals =
                Append(r.approvals, [decision |-> d, decided_at |-> r.updated_at])]
  BY DEF Approving
<1>2. /\ r \in RecordType /\ Advanced(o, r, to) /\ Aside(o, r) /\ SameRest(o, r)
      /\ r.approvals = o.approvals
  OBVIOUS
<1> DEFINE a == Append(r.approvals, [decision |-> d, decided_at |-> r.updated_at])
<1>3. a \in Seq(Approval)
  <2>1. [decision |-> d, decided_at |-> r.updated_at] \in Approval /\ r.approvals \in Seq(Approval)
    BY <1>2 DEF RecordType, Approval
  <2>2. QED
    BY <2>1, AppendIs
<1>4. a = Append(o.approvals, [decision |-> d, decided_at |-> r.updated_at])
  BY <1>2
<1>5. c = [r EXCEPT !.approvals = a]
  BY <1>1
<1> HIDE DEF a
<1>6. /\ c \in RecordType /\ c.approvals = a
      /\ c.kind = r.kind /\ c.state = r.state /\ c.created_at = r.created_at
      /\ c.updated_at = r.updated_at /\ c.revision = r.revision /\ c.started_at = r.started_at
      /\ c.finished_at = r.finished_at /\ c.failure = r.failure
      /\ c.schema_version = r.schema_version /\ c.retry = r.retry
      /\ c.workspace_may_be_modified = r.workspace_may_be_modified
      /\ c.output = r.output /\ c.policy = r.policy /\ c.tool_version = r.tool_version
  BY <1>2, <1>3, <1>5 DEF RecordType
<1>7. QED
  BY <1>2, <1>4, <1>6 DEF Advanced, Aside, SameRest, Decided

\* Whatever the methods of Run and Step allow is one of the changes above.
LEMMA ExecutionOutcome ==
    ASSUME NEW o \in RecordType, o.kind # "call", NEW at \in Nat, NEW c,
           \/ \E to \in EXECUTION_STATES : c \in execution_transition(o, to, at)
           \/ c \in execution_fail(o, "error", at)
           \/ c \in execution_approve(o, at)
           \/ c \in execution_reject_approval(o, "error", at)
           \/ c \in resume_after_denial(o, at)
    PROVE  /\ c \in RecordType /\ Aside(o, c) /\ SameRest(o, c)
           /\ \E to : ExecutionChange(o, c, to)
<1>1. ASSUME NEW to, c \in lifecycle_transition(o, to, at), to # "failed"
      PROVE  /\ c \in RecordType /\ Aside(o, c) /\ SameRest(o, c)
             /\ ExecutionChange(o, c, to)
  <2>1. /\ c \in RecordType /\ Advanced(o, c, to) /\ Aside(o, c) /\ SameRest(o, c)
        /\ c.failure = o.failure /\ c.approvals = o.approvals
    BY <1>1, LifecycleIs
  <2>2. QED
    BY <1>1, <2>1 DEF ExecutionChange, Aside, SameRest
<1>2. ASSUME NEW to \in EXECUTION_STATES, c \in execution_transition(o, to, at)
      PROVE  c \in lifecycle_transition(o, to, at) /\ to # "failed"
  BY <1>2 DEF execution_transition
<1>3. CASE c \in execution_fail(o, "error", at)
  <2>1. /\ c \in RecordType /\ Advanced(o, c, "failed") /\ Aside(o, c) /\ SameRest(o, c)
        /\ c.failure = "error" /\ c.approvals = o.approvals
    BY <1>3, FailingIs DEF execution_fail
  <2>2. ExecutionChange(o, c, "failed")
    BY <2>1 DEF ExecutionChange, Aside, SameRest
  <2>3. QED
    BY <2>1, <2>2
<1>4. CASE c \in execution_approve(o, at)
  <2> DEFINE rs == lifecycle_transition(o, "running", at)
  <2>1. o.state = "waiting" /\ c \in Approving(rs, "approved")
    BY <1>4 DEF execution_approve
  <2>2. \A r \in rs : /\ r \in RecordType /\ Advanced(o, r, "running") /\ Aside(o, r)
                      /\ SameRest(o, r) /\ r.approvals = o.approvals /\ r.failure = o.failure
    BY LifecycleIs
  <2> HIDE DEF rs
  <2>3. /\ c \in RecordType /\ Advanced(o, c, "running") /\ Aside(o, c) /\ SameRest(o, c)
        /\ Decided(o, c, "approved") /\ \E r \in rs : c.failure = r.failure
    BY ONLY <2>1, <2>2, ApprovingIs
  <2>4. c.failure = o.failure /\ o.state = "waiting"
    BY <2>1, <2>2, <2>3
  <2>5. ExecutionChange(o, c, "running")
    BY ONLY o.kind # "call", <2>3, <2>4 DEF ExecutionChange, Aside, SameRest
  <2>6. QED
    BY <2>3, <2>5
<1>5. CASE c \in execution_reject_approval(o, "error", at)
  <2> DEFINE rs == Failing(lifecycle_transition(o, "failed", at), "error")
  <2>1. o.state = "waiting" /\ c \in Approving(rs, "denied")
    BY <1>5 DEF execution_reject_approval
  <2>2. \A r \in rs : /\ r \in RecordType /\ Advanced(o, r, "failed") /\ Aside(o, r)
                      /\ SameRest(o, r) /\ r.approvals = o.approvals /\ r.failure = "error"
    BY FailingIs
  <2> HIDE DEF rs
  <2>3. /\ c \in RecordType /\ Advanced(o, c, "failed") /\ Aside(o, c) /\ SameRest(o, c)
        /\ Decided(o, c, "denied") /\ \E r \in rs : c.failure = r.failure
    BY ONLY <2>1, <2>2, ApprovingIs
  <2>4. c.failure = "error" /\ o.state = "waiting"
    BY <2>1, <2>2, <2>3
  <2>5. ExecutionChange(o, c, "failed")
    BY ONLY o.kind # "call", <2>3, <2>4 DEF ExecutionChange, Aside, SameRest
  <2>6. QED
    BY <2>3, <2>5
<1>6. CASE c \in resume_after_denial(o, at)
  <2>1. c \in lifecycle_transition(o, "running", at)
    BY <1>6 DEF resume_after_denial
  <2>2. QED
    BY <1>1, <2>1
<1>7. QED
  BY <1>1, <1>2, <1>3, <1>4, <1>5, <1>6

\* The record a call is stored as, its schema stamped.
Stamped(c) == [c EXCEPT !.schema_version = Current]

\* A stamp changes nothing else.
LEMMA StampedIs ==
    ASSUME NEW c \in RecordType
    PROVE  LET n == Stamped(c)
           IN  /\ n \in RecordType /\ n.schema_version = Current
               /\ n.kind = c.kind /\ n.state = c.state /\ n.created_at = c.created_at
               /\ n.updated_at = c.updated_at /\ n.revision = c.revision
               /\ n.started_at = c.started_at /\ n.finished_at = c.finished_at
               /\ n.failure = c.failure /\ n.output = c.output /\ n.approvals = c.approvals
               /\ n.policy = c.policy /\ n.tool_version = c.tool_version
               /\ n.retry = c.retry
               /\ n.workspace_may_be_modified = c.workspace_may_be_modified
<1> DEFINE n == Stamped(c)
<1>1. Current \in 1 .. Current
  BY DEF Current
<1>2. n \in RecordType /\ n.schema_version = Current
  BY <1>1 DEF RecordType, Stamped
<1>3. /\ n.kind = c.kind /\ n.state = c.state /\ n.created_at = c.created_at
      /\ n.updated_at = c.updated_at /\ n.revision = c.revision
      /\ n.started_at = c.started_at /\ n.finished_at = c.finished_at
      /\ n.failure = c.failure /\ n.output = c.output /\ n.approvals = c.approvals
      /\ n.policy = c.policy /\ n.tool_version = c.tool_version
      /\ n.retry = c.retry /\ n.workspace_may_be_modified = c.workspace_may_be_modified
  BY DEF RecordType, Stamped
<1>4. QED
  BY <1>2, <1>3

\* A move of a call stays one when it is stamped.
LEMMA StampedMoves ==
    ASSUME NEW o \in RecordType, NEW c \in RecordType, NEW to, o.kind = "call",
           Advanced(o, c, to), o.tool_version # "" => c.tool_version = o.tool_version
    PROVE  Advanced(o, Stamped(c), to) /\ CallWritten(o, Stamped(c))
BY StampedIs DEF Advanced, CallWritten

\* What a method of ToolCall makes of a call, but for a bare "allow".
CallOutcome(o, c) ==
    /\ c \in RecordType /\ Aside(o, c)
    /\ \E to : CallChange(o, Stamped(c), to)

\* The methods that end a call, or start one that was not asked about.
LEMMA PlainCalls ==
    ASSUME NEW o \in RecordType, o.kind = "call", NEW at \in Nat, NEW c,
           \/ \E to \in TOOL_CALL_STATES : to # "awaiting" /\ c \in call_transition(o, to, at)
           \/ c \in succeed(o, at)
           \/ c \in call_fail(o, "error", at)
    PROVE  CallOutcome(o, c) /\ c.tool_version = o.tool_version
<1>1. CASE \E to \in TOOL_CALL_STATES : to # "awaiting" /\ c \in call_transition(o, to, at)
  <2>1. PICK to \in TOOL_CALL_STATES : to # "awaiting" /\ c \in call_transition(o, to, at)
    BY <1>1
  <2>2. /\ to \notin {"succeeded", "failed", "denied"} /\ c \in lifecycle_transition(o, to, at)
        /\ ~(o.state = "awaiting" /\ to = "running")
    BY <2>1 DEF call_transition
  <2>3. /\ c \in RecordType /\ Advanced(o, c, to) /\ Aside(o, c) /\ SameRest(o, c)
        /\ c.failure = o.failure /\ c.approvals = o.approvals
    BY <2>2, LifecycleIs
  <2>4. to # "pending"
    BY <2>3, TableEdges DEF Advanced, Initial
  <2>5. Stops(o, Stamped(c), to)
    BY <2>1, <2>2, <2>3, <2>4, StampedIs
       DEF Stops, SameOutcome, SameConsent, SameRest, TOOL_CALL_STATES
  <2>6. CallChange(o, Stamped(c), to)
    BY <2>3, <2>5, StampedMoves DEF CallChange, SameRest
  <2>7. QED
    BY <2>3, <2>6 DEF CallOutcome, SameRest
<1>2. CASE c \in succeed(o, at)
  <2>1. PICK r \in lifecycle_transition(o, "succeeded", at) : c = [r EXCEPT !.output = TRUE]
    BY <1>2 DEF succeed
  <2>2. /\ r \in RecordType /\ Advanced(o, r, "succeeded") /\ Aside(o, r) /\ SameRest(o, r)
        /\ r.failure = o.failure /\ r.approvals = o.approvals
    BY LifecycleIs
  <2>3. /\ c \in RecordType /\ c.output = TRUE
        /\ c.kind = r.kind /\ c.state = r.state /\ c.created_at = r.created_at
        /\ c.updated_at = r.updated_at /\ c.revision = r.revision /\ c.started_at = r.started_at
        /\ c.finished_at = r.finished_at /\ c.failure = r.failure /\ c.approvals = r.approvals
        /\ c.schema_version = r.schema_version /\ c.retry = r.retry
        /\ c.workspace_may_be_modified = r.workspace_may_be_modified
        /\ c.policy = r.policy /\ c.tool_version = r.tool_version
    BY <2>1, <2>2 DEF RecordType
  <2>4. Advanced(o, c, "succeeded") /\ Aside(o, c) /\ c.tool_version = o.tool_version
    BY <2>2, <2>3 DEF Advanced, Aside, SameRest
  <2>5. Succeeds(o, Stamped(c), "succeeded")
    BY <2>2, <2>3, StampedIs DEF Succeeds, SameConsent, SameRest
  <2>6. CallChange(o, Stamped(c), "succeeded")
    BY <2>3, <2>4, <2>5, StampedMoves DEF CallChange
  <2>7. QED
    BY <2>3, <2>4, <2>6 DEF CallOutcome
<1>3. CASE c \in call_fail(o, "error", at)
  <2>1. /\ c \in RecordType /\ Advanced(o, c, "failed") /\ Aside(o, c) /\ SameRest(o, c)
        /\ c.failure = "error" /\ c.approvals = o.approvals
    BY <1>3, FailingIs DEF call_fail
  <2>2. Fails(o, Stamped(c), "failed")
    BY <2>1, StampedIs DEF Fails, SameConsent, SameRest
  <2>3. CallChange(o, Stamped(c), "failed")
    BY <2>1, <2>2, StampedMoves DEF CallChange, SameRest
  <2>4. QED
    BY <2>1, <2>3 DEF CallOutcome, SameRest
<1>4. QED
  BY <1>1, <1>2, <1>3

\* A call with the version it resolved to, or with the verdict on it.
WithVersion(r, v) == [r EXCEPT !.tool_version = v]
WithVerdict(r, verdict) == [r EXCEPT !.policy = verdict]

\* A recorded version changes nothing else.
LEMMA VersionIs ==
    ASSUME NEW r \in RecordType, NEW v \in Versions
    PROVE  LET c == WithVersion(r, v)
           IN  /\ c \in RecordType /\ c.tool_version = v
               /\ c.kind = r.kind /\ c.state = r.state /\ c.created_at = r.created_at
               /\ c.updated_at = r.updated_at /\ c.revision = r.revision
               /\ c.started_at = r.started_at /\ c.finished_at = r.finished_at
               /\ c.failure = r.failure /\ c.output = r.output /\ c.approvals = r.approvals
               /\ c.policy = r.policy /\ c.schema_version = r.schema_version
               /\ c.retry = r.retry
               /\ c.workspace_may_be_modified = r.workspace_may_be_modified
<1> DEFINE c == WithVersion(r, v)
<1>1. c \in RecordType /\ c.tool_version = v
  BY DEF RecordType, WithVersion
<1>2. /\ c.kind = r.kind /\ c.state = r.state /\ c.created_at = r.created_at
      /\ c.updated_at = r.updated_at /\ c.revision = r.revision /\ c.started_at = r.started_at
      /\ c.finished_at = r.finished_at /\ c.failure = r.failure /\ c.approvals = r.approvals
      /\ c.schema_version = r.schema_version /\ c.retry = r.retry
      /\ c.workspace_may_be_modified = r.workspace_may_be_modified
      /\ c.output = r.output /\ c.policy = r.policy
  BY DEF RecordType, WithVersion
<1>3. QED
  BY <1>1, <1>2

\* A call that was approved, with its version or without.
LEMMA ApprovedCall ==
    ASSUME NEW o \in RecordType, o.kind = "call", o.state = "awaiting", NEW at \in Nat,
           NEW c \in Approving(lifecycle_transition(o, "running", at), "approved")
    PROVE  /\ c \in RecordType /\ Advanced(o, c, "running") /\ Aside(o, c) /\ SameRest(o, c)
           /\ Decided(o, c, "approved") /\ c.failure = o.failure
<1> DEFINE rs == lifecycle_transition(o, "running", at)
<1>1. \A r \in rs : /\ r \in RecordType /\ Advanced(o, r, "running") /\ Aside(o, r)
                    /\ SameRest(o, r) /\ r.approvals = o.approvals /\ r.failure = o.failure
  BY LifecycleIs
<1>2. c \in Approving(rs, "approved")
  OBVIOUS
<1> HIDE DEF rs
<1>3. /\ c \in RecordType /\ Advanced(o, c, "running") /\ Aside(o, c) /\ SameRest(o, c)
      /\ Decided(o, c, "approved") /\ \E r \in rs : c.failure = r.failure
  BY <1>1, <1>2, ApprovingIs
<1>4. QED
  BY <1>1, <1>3

\* What a decision on a call makes of it.
LEMMA DecidedCalls ==
    ASSUME NEW o \in RecordType, o.kind = "call", NEW at \in Nat, NEW c,
           \/ c \in call_approve(o, at)
           \/ c \in call_reject_approval(o, "error", at)
    PROVE  CallOutcome(o, c) /\ c.tool_version = o.tool_version
<1>1. CASE c \in call_approve(o, at)
  <2>1. o.state = "awaiting" /\ c \in Approving(lifecycle_transition(o, "running", at), "approved")
    BY <1>1 DEF call_approve
  <2>2. /\ c \in RecordType /\ Advanced(o, c, "running") /\ Aside(o, c) /\ SameRest(o, c)
        /\ Decided(o, c, "approved") /\ c.failure = o.failure
    BY <2>1, ApprovedCall
  <2>3. Approves(o, Stamped(c), "running")
    BY <2>1, <2>2, StampedIs DEF Approves, SameOutcome, SameRest, Decided
  <2>4. CallChange(o, Stamped(c), "running")
    BY <2>2, <2>3, StampedMoves DEF CallChange, SameRest
  <2>5. QED
    BY <2>2, <2>4 DEF CallOutcome, SameRest
<1>2. CASE c \in call_reject_approval(o, "error", at)
  <2> DEFINE rs == Failing(lifecycle_transition(o, "denied", at), "error")
  <2>1. o.state = "awaiting" /\ c \in Approving(rs, "denied")
    BY <1>2 DEF call_reject_approval
  <2>2. \A r \in rs : /\ r \in RecordType /\ Advanced(o, r, "denied") /\ Aside(o, r)
                      /\ SameRest(o, r) /\ r.approvals = o.approvals /\ r.failure = "error"
    BY FailingIs
  <2> HIDE DEF rs
  <2>3. /\ c \in RecordType /\ Advanced(o, c, "denied") /\ Aside(o, c) /\ SameRest(o, c)
        /\ Decided(o, c, "denied") /\ \E r \in rs : c.failure = r.failure
    BY ONLY <2>1, <2>2, ApprovingIs
  <2>4. c.failure = "error"
    BY <2>2, <2>3
  <2>5. Refuses(o, Stamped(c), "denied")
    BY <2>1, <2>3, <2>4, StampedIs DEF Refuses, SameRest, Decided
  <2>6. CallChange(o, Stamped(c), "denied")
    BY <2>3, <2>5, StampedMoves DEF CallChange, SameRest
  <2>7. QED
    BY <2>3, <2>6 DEF CallOutcome, SameRest
<1>3. QED
  BY <1>1, <1>2

\* What the start of execution makes of a call: the version is recorded with it.
LEMMA StartedCalls ==
    ASSUME NEW o \in RecordType, o.kind = "call", NEW at \in Nat, NEW v \in Versions, NEW c,
           c \in dispatch(o, v, at) \/ c \in dispatch_approved(o, v, at)
    PROVE  CallOutcome(o, c)
<1>1. CASE c \in dispatch(o, v, at)
  <2>1. /\ o.state = "pending" /\ o.tool_version \in {"", v}
        /\ \E r \in lifecycle_transition(o, "running", at) : c = WithVersion(r, v)
    BY <1>1 DEF dispatch, WithVersion
  <2>2. PICK r \in lifecycle_transition(o, "running", at) : c = WithVersion(r, v)
    BY <2>1
  <2>3. /\ r \in RecordType /\ Advanced(o, r, "running") /\ Aside(o, r) /\ SameRest(o, r)
        /\ r.failure = o.failure /\ r.approvals = o.approvals
    BY LifecycleIs
  <2>4. /\ c \in RecordType /\ Advanced(o, c, "running") /\ Aside(o, c)
        /\ o.tool_version # "" => c.tool_version = o.tool_version
        /\ c.failure = r.failure /\ c.output = r.output /\ c.policy = r.policy
        /\ c.approvals = r.approvals
    <3>1. /\ c \in RecordType /\ c.tool_version = v
          /\ c.kind = r.kind /\ c.state = r.state /\ c.created_at = r.created_at
          /\ c.updated_at = r.updated_at /\ c.revision = r.revision
          /\ c.started_at = r.started_at /\ c.finished_at = r.finished_at
          /\ c.failure = r.failure /\ c.output = r.output /\ c.approvals = r.approvals
          /\ c.policy = r.policy /\ c.schema_version = r.schema_version /\ c.retry = r.retry
          /\ c.workspace_may_be_modified = r.workspace_may_be_modified
      BY <2>2, <2>3, VersionIs
    <3>2. QED
      BY <2>1, <2>3, <3>1 DEF Advanced, Aside
  <2>5. Stops(o, Stamped(c), "running")
    BY <2>1, <2>3, <2>4, StampedIs DEF Stops, SameOutcome, SameConsent, SameRest
  <2>6. CallChange(o, Stamped(c), "running")
    BY <2>4, <2>5, StampedMoves DEF CallChange
  <2>7. QED
    BY <2>4, <2>6 DEF CallOutcome
<1>2. CASE c \in dispatch_approved(o, v, at)
  <2> DEFINE rs == Approving(lifecycle_transition(o, "running", at), "approved")
  <2>1. /\ o.state = "awaiting" /\ o.tool_version \in {"", v}
        /\ \E r \in rs : c = WithVersion(r, v)
    BY <1>2 DEF dispatch_approved, WithVersion
  <2>2. PICK r \in rs : c = WithVersion(r, v)
    BY <2>1
  <2>3. /\ r \in RecordType /\ Advanced(o, r, "running") /\ Aside(o, r) /\ SameRest(o, r)
        /\ Decided(o, r, "approved") /\ r.failure = o.failure
    BY <2>1, ApprovedCall
  <2> HIDE DEF rs
  <2>4. /\ c \in RecordType /\ Advanced(o, c, "running") /\ Aside(o, c)
        /\ o.tool_version # "" => c.tool_version = o.tool_version
        /\ c.failure = r.failure /\ c.output = r.output /\ c.policy = r.policy
        /\ c.approvals = r.approvals /\ c.updated_at = r.updated_at
    <3>1. /\ c \in RecordType /\ c.tool_version = v
          /\ c.kind = r.kind /\ c.state = r.state /\ c.created_at = r.created_at
          /\ c.updated_at = r.updated_at /\ c.revision = r.revision
          /\ c.started_at = r.started_at /\ c.finished_at = r.finished_at
          /\ c.failure = r.failure /\ c.output = r.output /\ c.approvals = r.approvals
          /\ c.policy = r.policy /\ c.schema_version = r.schema_version /\ c.retry = r.retry
          /\ c.workspace_may_be_modified = r.workspace_may_be_modified
      BY <2>2, <2>3, VersionIs
    <3>2. QED
      BY <2>1, <2>3, <3>1 DEF Advanced, Aside
  <2>5. Approves(o, Stamped(c), "running")
    <3> DEFINE n == Stamped(c)
    <3>1. /\ n.failure = c.failure /\ n.output = c.output /\ n.policy = c.policy
          /\ n.approvals = c.approvals /\ n.updated_at = c.updated_at
      BY <2>4, StampedIs
    <3> HIDE DEF n
    <3>2. /\ n.failure = o.failure /\ n.output = o.output /\ n.policy = o.policy
      BY <2>3, <2>4, <3>1 DEF SameRest
    <3>3. Decided(o, n, "approved")
      BY <2>3, <2>4, <3>1 DEF Decided
    <3>4. Approves(o, n, "running")
      BY <2>1, <3>2, <3>3 DEF Approves, SameOutcome
    <3>5. QED
      BY <3>4 DEF n
  <2>6. CallChange(o, Stamped(c), "running")
    BY <2>4, <2>5, StampedMoves DEF CallChange
  <2>7. QED
    BY <2>4, <2>6 DEF CallOutcome
<1>3. QED
  BY <1>1, <1>2

\* A verdict recorded with the move it brings.
LEMMA VerdictIs ==
    ASSUME NEW o \in RecordType, NEW r \in RecordType, NEW to, NEW c,
           NEW verdict \in {"allow", "ask", "deny"},
           Advanced(o, r, to), Aside(o, r), SameRest(o, r), c = WithVerdict(r, verdict)
    PROVE  /\ c \in RecordType /\ Advanced(o, c, to) /\ Aside(o, c)
           /\ c.tool_version = o.tool_version /\ c.output = o.output
           /\ c.policy = verdict /\ c.failure = r.failure /\ c.approvals = r.approvals
<1>1. c \in RecordType /\ c.policy = verdict
  BY DEF RecordType, WithVerdict
<1>2. /\ c.kind = r.kind /\ c.state = r.state /\ c.created_at = r.created_at
      /\ c.updated_at = r.updated_at /\ c.revision = r.revision /\ c.started_at = r.started_at
      /\ c.finished_at = r.finished_at /\ c.failure = r.failure /\ c.approvals = r.approvals
      /\ c.schema_version = r.schema_version /\ c.retry = r.retry
      /\ c.workspace_may_be_modified = r.workspace_may_be_modified
      /\ c.output = r.output /\ c.tool_version = r.tool_version
  BY DEF RecordType, WithVerdict
<1>3. QED
  BY <1>1, <1>2 DEF Advanced, Aside, SameRest

\* A verdict moves a call on, or only marks it as allowed.
Permitted(o, c) ==
    o.state = "pending" /\ o.policy = "none" /\ c = [o EXCEPT !.policy = "allow"]

\* What the verdict of the policy makes of a call.
LEMMA JudgedCalls ==
    ASSUME NEW o \in RecordType, o.kind = "call", NEW at \in Nat, NEW c,
           NEW verdict \in {"allow", "ask", "deny"}, c \in apply_policy_decision(o, verdict, at)
    PROVE  /\ c \in RecordType /\ Aside(o, c) /\ c.tool_version = o.tool_version
           /\ CallOutcome(o, c) \/ Permitted(o, c)
<1>1. o.state = "pending" /\ o.policy = "none"
  BY DEF apply_policy_decision
<1>2. CASE verdict = "allow"
  <2>1. c = [o EXCEPT !.policy = "allow"]
    BY <1>1, <1>2 DEF apply_policy_decision
  <2>2. /\ c \in RecordType /\ c.kind = o.kind /\ c.schema_version = o.schema_version
        /\ c.created_at = o.created_at /\ c.retry = o.retry
        /\ c.workspace_may_be_modified = o.workspace_may_be_modified
        /\ c.tool_version = o.tool_version
    BY <2>1 DEF RecordType
  <2>3. QED
    BY <1>1, <2>1, <2>2 DEF Aside, Permitted
<1>3. CASE verdict = "ask"
  <2>1. PICK r \in lifecycle_transition(o, "awaiting", at) : c = WithVerdict(r, verdict)
    BY <1>1, <1>3 DEF apply_policy_decision, WithVerdict
  <2>2. /\ r \in RecordType /\ Advanced(o, r, "awaiting") /\ Aside(o, r) /\ SameRest(o, r)
        /\ r.failure = o.failure /\ r.approvals = o.approvals
    BY LifecycleIs
  <2>3. /\ c \in RecordType /\ Advanced(o, c, "awaiting") /\ Aside(o, c)
        /\ c.tool_version = o.tool_version /\ c.output = o.output
        /\ c.policy = verdict /\ c.failure = r.failure /\ c.approvals = r.approvals
    BY <2>1, <2>2, VerdictIs
  <2>4. Asks(o, Stamped(c), "awaiting")
    BY <1>1, <1>3, <2>2, <2>3, StampedIs DEF Asks, SameOutcome
  <2>5. CallChange(o, Stamped(c), "awaiting")
    BY <2>3, <2>4, StampedMoves DEF CallChange
  <2>6. QED
    BY <2>3, <2>5 DEF CallOutcome
<1>4. CASE verdict = "deny"
  <2>1. PICK r \in Failing(lifecycle_transition(o, "denied", at), "reason") :
          c = WithVerdict(r, verdict)
    BY <1>1, <1>4 DEF apply_policy_decision, WithVerdict
  <2>2. /\ r \in RecordType /\ Advanced(o, r, "denied") /\ Aside(o, r) /\ SameRest(o, r)
        /\ r.failure = "reason" /\ r.approvals = o.approvals
    BY FailingIs
  <2>3. /\ c \in RecordType /\ Advanced(o, c, "denied") /\ Aside(o, c)
        /\ c.tool_version = o.tool_version /\ c.output = o.output
        /\ c.policy = verdict /\ c.failure = r.failure /\ c.approvals = r.approvals
    BY <2>1, <2>2, VerdictIs
  <2>4. Denies(o, Stamped(c), "denied")
    BY <1>1, <1>4, <2>2, <2>3, StampedIs DEF Denies
  <2>5. CallChange(o, Stamped(c), "denied")
    BY <2>3, <2>4, StampedMoves DEF CallChange
  <2>6. QED
    BY <2>3, <2>5 DEF CallOutcome
<1>5. QED
  BY <1>2, <1>3, <1>4

-----------------------------------------------------------------------------
\* The store

\* The columns written are all that changed, so the row becomes the record.
LEMMA ColumnsWritten ==
    ASSUME row \in RecordType, NEW c \in RecordType, NEW names,
           \A f \in DOMAIN row \ names : c[f] = row[f]
    PROVE  Columns(names, c) = c
<1>1. DOMAIN c = DOMAIN row
  BY DEF RecordType
<1>2. c = [f \in DOMAIN c |-> c[f]]
  BY DEF RecordType
<1>3. \A f \in DOMAIN row : (IF f \in names THEN c[f] ELSE row[f]) = c[f]
  OBVIOUS
<1>4. QED
  BY <1>1, <1>2, <1>3 DEF Columns

\* The columns of a record.
LEMMA ColumnsAre ==
    ASSUME NEW r \in RecordType
    PROVE  DOMAIN r = {"kind", "schema_version", "state", "revision", "created_at", "updated_at",
                       "started_at", "finished_at", "failure", "output", "approvals", "policy",
                       "tool_version", "retry", "workspace_may_be_modified"}
BY DEF RecordType

\* The row of a run or a step becomes what the domain made of it.
LEMMA ExecutionStored ==
    ASSUME row \in RecordType, NEW c \in RecordType, Aside(row, c), SameRest(row, c),
           update_run(c) \/ update_step(c)
    PROVE  row' = c
<1> DEFINE names == {"state", "revision", "updated_at", "started_at", "finished_at",
                     "failure", "approvals"}
<1>1. row' = Columns(names, c)
  BY DEF update_run, update_step
<1>2. \A f \in DOMAIN row \ names : c[f] = row[f]
  BY ColumnsAre DEF Aside, SameRest
<1> HIDE DEF names
<1>3. QED
  BY <1>1, <1>2, ColumnsWritten

\* The row of a call becomes what the domain made of it, stamped.
LEMMA CallStored ==
    ASSUME row \in RecordType, NEW c \in RecordType, Aside(row, c),
           \/ update_tool_call(c) /\ c.tool_version = row.tool_version
           \/ pin_tool_call_version(c)
    PROVE  row' = Stamped(c)
<1>1. CASE update_tool_call(c) /\ c.tool_version = row.tool_version
  <2>1. \A f \in DOMAIN row \ CallColumns : c[f] = row[f]
    BY <1>1, ColumnsAre DEF Aside, CallColumns
  <2>2. Columns(CallColumns, c) = c
    BY <2>1, ColumnsWritten
  <2>3. QED
    BY <1>1, <2>2 DEF update_tool_call, Stamped
<1>2. CASE pin_tool_call_version(c)
  <2> DEFINE names == CallColumns \cup {"tool_version"}
  <2>1. \A f \in DOMAIN row \ names : c[f] = row[f]
    BY ColumnsAre DEF Aside, CallColumns
  <2>2. row' = [Columns(names, c) EXCEPT !.schema_version = Current]
    BY <1>2 DEF pin_tool_call_version
  <2> HIDE DEF names
  <2>3. Columns(names, c) = c
    BY <2>1, ColumnsWritten
  <2>4. QED
    BY <2>2, <2>3 DEF Stamped
<1>3. QED
  BY <1>1, <1>2

\* A change of a run or a step keeps the invariant and what was recorded.
LEMMA ExecutionStep ==
    ASSUME RecordInv(row), row.kind # "call", NEW at \in Nat, NEW c,
           \/ \E to \in EXECUTION_STATES : c \in execution_transition(row, to, at)
           \/ c \in execution_fail(row, "error", at)
           \/ c \in execution_approve(row, at)
           \/ c \in execution_reject_approval(row, "error", at)
           \/ c \in resume_after_denial(row, at),
           update_run(c) \/ update_step(c)
    PROVE  RecordInv(row') /\ Remembers(row, row')
<1>1. row \in RecordType
  BY DEF RecordInv
<1>2. /\ c \in RecordType /\ Aside(row, c) /\ SameRest(row, c)
      /\ \E to : ExecutionChange(row, c, to)
  BY <1>1, ExecutionOutcome
<1>3. row' = c
  BY <1>1, <1>2, ExecutionStored
<1>4. RecordInv(c) /\ Remembers(row, c)
  BY <1>1, <1>2, ExecutionKept
<1>5. QED
  BY <1>3, <1>4

\* A change of a call keeps the invariant and what was recorded.
LEMMA CallStep ==
    ASSUME RecordInv(row), row.kind = "call", NEW c \in RecordType, Aside(row, c),
           CallOutcome(row, c) \/ Permitted(row, c),
           \/ update_tool_call(c) /\ c.tool_version = row.tool_version
           \/ pin_tool_call_version(c)
    PROVE  RecordInv(row') /\ Remembers(row, row')
<1>1. row \in RecordType
  BY DEF RecordInv
<1>2. row' = Stamped(c)
  BY <1>1, CallStored
<1>3. Stamped(c) \in RecordType
  BY StampedIs
<1>4. CASE CallOutcome(row, c)
  <2>1. PICK to : CallChange(row, Stamped(c), to)
    BY <1>4 DEF CallOutcome
  <2>2. RecordInv(Stamped(c)) /\ Remembers(row, Stamped(c))
    BY <1>1, <1>3, <2>1, CallKept
  <2>3. QED
    BY <1>2, <2>2
<1>5. CASE Permitted(row, c)
  <2>1. Stamped(c) = [row EXCEPT !.policy = "allow", !.schema_version = Current]
    BY <1>1, <1>5 DEF Permitted, Stamped, RecordType
  <2>2. row.state = "pending" /\ row.policy = "none"
    BY <1>5 DEF Permitted
  <2>3. RecordInv(Stamped(c)) /\ Remembers(row, Stamped(c))
    BY <1>1, <1>3, <2>1, <2>2, AllowKept
  <2>4. QED
    BY <1>2, <2>3
<1>6. QED
  BY <1>4, <1>5

\* The changes of a run.
LEMMA RunStep ==
    ASSUME RecordInv(row), NEW at \in Nat, RunChanges(at)
    PROVE  RecordInv(row') /\ Remembers(row, row')
<1>1. PICK c :
        /\ row.kind = "run" /\ update_run(c)
        /\ \/ \E to \in EXECUTION_STATES : c \in execution_transition(row, to, at)
           \/ c \in execution_fail(row, "error", at)
           \/ c \in execution_approve(row, at)
           \/ c \in execution_reject_approval(row, "error", at)
           \/ c \in resume_after_denial(row, at)
  BY DEF RunChanges, transition_run, fail_run, approve_run, reject_run_approval,
         resume_run_after_denial, mutate_run, redact_failure
<1>2. QED
  BY <1>1, ExecutionStep

\* The changes of a step.
LEMMA StepStep ==
    ASSUME RecordInv(row), NEW at \in Nat, StepChanges(at)
    PROVE  RecordInv(row') /\ Remembers(row, row')
<1>1. PICK c :
        /\ row.kind = "step" /\ update_step(c)
        /\ \/ \E to \in EXECUTION_STATES : c \in execution_transition(row, to, at)
           \/ c \in execution_fail(row, "error", at)
           \/ c \in execution_approve(row, at)
           \/ c \in execution_reject_approval(row, "error", at)
  BY DEF StepChanges, transition_step, fail_step, approve_step, reject_step_approval,
         step_transition, step_fail, step_approve, step_reject_approval, mutate_step,
         redact_failure
<1>2. QED
  BY <1>1, ExecutionStep

\* The changes of a tool call.
LEMMA ToolCallStep ==
    ASSUME RecordInv(row), NEW at \in Nat, CallChanges(at)
    PROVE  RecordInv(row') /\ Remembers(row, row')
<1>1. row \in RecordType
  BY DEF RecordInv
<1>2. CASE \/ \E to \in TOOL_CALL_STATES : transition_tool_call(to, at)
           \/ succeed_tool_call(at)
           \/ fail_tool_call(at)
  <2>1. PICK c :
          /\ row.kind = "call" /\ update_tool_call(c)
          /\ \/ \E to \in TOOL_CALL_STATES : to # "awaiting" /\ c \in call_transition(row, to, at)
             \/ c \in succeed(row, at)
             \/ c \in call_fail(row, "error", at)
    BY <1>2 DEF transition_tool_call, succeed_tool_call, fail_tool_call, mutate_tool_call,
                redact_failure
  <2>2. CallOutcome(row, c) /\ c.tool_version = row.tool_version
    BY <1>1, <2>1, PlainCalls
  <2>3. QED
    BY <2>1, <2>2, CallStep DEF CallOutcome
<1>3. CASE approve_tool_call(at) \/ reject_tool_call_approval(at)
  <2>1. PICK c :
          /\ row.kind = "call" /\ update_tool_call(c)
          /\ c \in call_approve(row, at) \/ c \in call_reject_approval(row, "error", at)
    BY <1>3 DEF approve_tool_call, reject_tool_call_approval, mutate_tool_call, redact_failure
  <2>2. CallOutcome(row, c) /\ c.tool_version = row.tool_version
    BY <1>1, <2>1, DecidedCalls
  <2>3. QED
    BY <2>1, <2>2, CallStep DEF CallOutcome
<1>4. CASE \E verdict \in {"allow", "ask", "deny"} : apply_tool_call_policy_decision(verdict, at)
  <2>1. PICK verdict \in {"allow", "ask", "deny"} : apply_tool_call_policy_decision(verdict, at)
    BY <1>4
  <2>2. PICK c \in apply_policy_decision(row, verdict, at) :
          row.kind = "call" /\ update_tool_call(c)
    BY <2>1 DEF apply_tool_call_policy_decision, mutate_tool_call
  <2>3. /\ c \in RecordType /\ Aside(row, c) /\ c.tool_version = row.tool_version
        /\ CallOutcome(row, c) \/ Permitted(row, c)
    BY <1>1, <2>2, JudgedCalls
  <2>4. QED
    BY <2>2, <2>3, CallStep
<1>5. CASE \E version \in Versions :
             dispatch_tool_call(version, at) \/ dispatch_bound_approved_tool_call(version, at)
  <2>1. PICK version \in Versions :
          dispatch_tool_call(version, at) \/ dispatch_bound_approved_tool_call(version, at)
    BY <1>5
  <2>2. PICK c :
          /\ row.kind = "call" /\ pin_tool_call_version(c)
          /\ c \in dispatch(row, version, at) \/ c \in dispatch_approved(row, version, at)
    BY <2>1 DEF dispatch_tool_call, dispatch_bound_approved_tool_call, begin_tool_call
  <2>3. CallOutcome(row, c)
    BY <1>1, <2>2, StartedCalls
  <2>4. QED
    BY <2>2, <2>3, CallStep DEF CallOutcome
<1>6. QED
  BY <1>2, <1>3, <1>4, <1>5 DEF CallChanges

-----------------------------------------------------------------------------
\* The theorem

\* No approvals are a sequence of them.
LEMMA EmptyIs == \A T : <<>> \in Seq(T) /\ Len(<<>>) = 0
OBVIOUS

\* A record as it is inserted: only a run of this build says it is a retry.
Fresh(r) ==
    /\ r \in RecordType
    /\ r.state = Initial(r.kind) /\ r.revision = 0 /\ r.updated_at = r.created_at
    /\ r.started_at = Never /\ r.finished_at = Never
    /\ r.failure = "none" /\ r.output = FALSE /\ r.approvals = <<>> /\ r.policy = "none"
    /\ r.schema_version < 4 => ~r.retry /\ ~r.workspace_may_be_modified
    /\ r.workspace_may_be_modified => r.retry

\* A row that is inserted can be read.
LEMMA FreshKept ==
    ASSUME NEW r, Fresh(r)
    PROVE  RecordInv(r)
<1>1. /\ r \in RecordType /\ r.kind \in {"run", "step", "call"}
      /\ r.state = Initial(r.kind) /\ r.revision = 0 /\ r.updated_at = r.created_at
      /\ r.started_at = Never /\ r.finished_at = Never
      /\ r.failure = "none" /\ r.output = FALSE /\ r.approvals = <<>> /\ r.policy = "none"
  BY DEF Fresh, RecordType
<1>2. r.state = (IF r.kind = "call" THEN "pending" ELSE "queued") /\ r.created_at \in Nat
  BY <1>1 DEF Initial, RecordType
<1>3. from_wire(r)
  <2>1. ~is_terminal(r.state) /\ ~requires_started_at(r)
    BY <1>1, <1>2 DEF is_terminal, requires_started_at
  <2>2. minimum_revision(r) = 0
    BY <1>1, <1>2 DEF minimum_revision
  <2>3. QED
    BY <1>1, <1>2, <2>1, <2>2 DEF from_wire
<1>4. validate_failure(r) /\ validate_output(r) /\ validate_policy_decision(r)
  BY <1>1, <1>2 DEF validate_failure, validate_output, validate_policy_decision
<1>5. Len(r.approvals) = 0
  BY <1>1, EmptyIs
<1>6. validate_approvals(r)
  <2>1. call_approval_shape(r) /\ execution_approval_shape(r)
    BY <1>1, <1>5 DEF call_approval_shape, execution_approval_shape
  <2>2. 1 .. Len(r.approvals) = {}
    BY <1>5
  <2>3. Len(r.approvals) <= r.revision
    BY <1>1, <1>5
  <2>4. QED
    BY <1>1, <2>1, <2>2, <2>3 DEF validate_approvals
<1>7. Readable(r)
  <2>1. CASE r.kind = "run"
    BY <1>3, <1>4, <1>6, <2>1 DEF Readable, run_from_wire, Fresh
  <2>2. CASE r.kind = "step"
    BY <1>3, <1>4, <1>6, <2>2 DEF Readable, step_from_wire
  <2>3. CASE r.kind = "call"
    BY <1>1, <1>3, <1>4, <1>6, <2>3 DEF Readable, tool_call_from_wire
  <2>4. QED
    BY <1>1, <2>1, <2>2, <2>3
<1>8. WaitsCounted(r) /\ Consented(r)
  BY <1>1, <1>2 DEF WaitsCounted, Consented
<1>9. r.state \in States(r.kind)
  BY <1>2 DEF States, EXECUTION_STATES, TOOL_CALL_STATES
<1>10. QED
  BY <1>1, <1>7, <1>8, <1>9 DEF RecordInv

\* The schemas that knew of no retries are those of earlier builds.
LEMMA OlderSchema == \A schema \in 1 .. Current : schema < 4 => schema # Current
BY DEF Current

\* What is inserted is fresh.
LEMMA InsertedIs ==
    ASSUME NEW kind \in {"run", "step", "call"}, NEW schema \in 1 .. Current, NEW at \in Nat,
           NEW version \in Versions \cup {""}, NEW retry \in BOOLEAN, NEW modified \in BOOLEAN,
           retry => schema = Current, modified => retry
    PROVE  Fresh(Inserted(kind, schema, at, version, retry, modified))
<1> DEFINE r == Inserted(kind, schema, at, version, retry, modified)
<1>1. /\ r.kind = kind /\ r.schema_version = schema /\ r.state = Initial(kind)
      /\ r.revision = 0 /\ r.created_at = at /\ r.updated_at = at /\ r.started_at = Never
      /\ r.finished_at = Never /\ r.failure = "none" /\ r.output = FALSE /\ r.approvals = <<>>
      /\ r.policy = "none" /\ r.tool_version = version /\ r.retry = retry
      /\ r.workspace_may_be_modified = modified
  BY DEF Inserted
<1>2. r \in RecordType
  <2>1. Initial(kind) \in EXECUTION_STATES \cup TOOL_CALL_STATES
    BY DEF Initial, EXECUTION_STATES, TOOL_CALL_STATES
  <2>2. <<>> \in Seq(Approval)
    BY EmptyIs
  <2>3. Never \in Instant
    BY DEF Instant
  <2>4. QED
    BY <2>1, <2>2, <2>3 DEF RecordType, Inserted
<1>3. schema < 4 => ~retry /\ ~modified
  BY OlderSchema, Zenon
<1> HIDE DEF r
<1>4. /\ r.schema_version < 4 => ~r.retry /\ ~r.workspace_may_be_modified
      /\ r.workspace_may_be_modified => r.retry
  BY <1>1, <1>3, Zenon
<1>5. QED
  BY <1>1, <1>2, <1>4, Zenon DEF Fresh, r

\* A record can always be read again, whatever became of it, says who
\* consented, and keeps what it has said.
THEOREM RecordsAreKept == RecordSpec => RecordsKept
<1>1. RecordInit => RecordInv(row)
  <2>1. Times \subseteq Nat
    BY RecordConstants
  <2>2. TRUE \in BOOLEAN /\ FALSE \in BOOLEAN /\ "" \in Versions \cup {""}
    OBVIOUS
  <2>3. ASSUME NEW schema \in 1 .. Current, NEW at \in Times, NEW retry \in BOOLEAN,
               NEW modified \in BOOLEAN, insert_run(schema, at, retry, modified)
        PROVE  RecordInv(row)
    BY <2>1, <2>2, <2>3, InsertedIs, FreshKept DEF insert_run
  <2>4. ASSUME NEW schema \in 1 .. Current, NEW at \in Times, insert_step(schema, at)
        PROVE  RecordInv(row)
    BY <2>1, <2>2, <2>4, InsertedIs, FreshKept DEF insert_step
  <2>5. ASSUME NEW schema \in 1 .. Current, NEW at \in Times, NEW version \in Versions \cup {""},
               insert_tool_call(schema, at, version)
        PROVE  RecordInv(row)
    BY <2>1, <2>2, <2>5, InsertedIs, FreshKept DEF insert_tool_call
  <2>6. QED
    BY <2>3, <2>4, <2>5 DEF RecordInit
<1>2. RecordInv(row) /\ RecordNext => RecordInv(row)' /\ Remembers(row, row')
  <2> SUFFICES ASSUME RecordInv(row), RecordNext
               PROVE  RecordInv(row') /\ Remembers(row, row')
    OBVIOUS
  <2>1. PICK at \in Times : RunChanges(at) \/ StepChanges(at) \/ CallChanges(at)
    BY DEF RecordNext
  <2>2. at \in Nat
    BY RecordConstants
  <2>3. QED
    BY <2>1, <2>2, RunStep, StepStep, ToolCallStep
<1>3. RecordInv(row) /\ UNCHANGED row => RecordInv(row)'
  BY DEF RecordInv
<1>4. RecordInv(row) => LoadsBack /\ ConsentRecorded
  BY DEF RecordInv, LoadsBack, Consented, ConsentRecorded
<1>5. RecordInv(row) /\ [RecordNext]_row =>
        [ /\ ~is_terminal(row.state)
          /\ row.started_at # Never => row'.started_at = row.started_at
          /\ row.policy # "none" => row'.policy = row.policy
          /\ row.tool_version # "" => row'.tool_version = row.tool_version
          /\ row.updated_at <= row'.updated_at
          /\ Len(row'.approvals) \in {Len(row.approvals), Len(row.approvals) + 1}
          /\ \A i \in 1..Len(row.approvals) : row'.approvals[i] = row.approvals[i] ]_row
  BY <1>2 DEF Remembers
<1>6. QED
  BY <1>1, <1>2, <1>3, <1>4, <1>5, PTL DEF RecordSpec, RecordsKept, HistoryKept

-----------------------------------------------------------------------------
\* The inductive invariant

Registration == [cmd : Command \cup {"none"}, enabled : BOOLEAN]
TrustRecord == [id : Nat, state : {"untrusted", "trusted", "invalidated", "revoked"},
                digest : Digest \cup {"none"}, scope : Scope]
Observation == [auth : {"none", "unknown", "authenticated", "failed", "required", "not_required"},
                compatibility : {"none", "unknown", "compatible", "unsupported"}, of : Nat]
Moments == {"none", "file", "disable", "hash", "hashed", "grant", "enable", "trusted", "observe",
            "probe", "invalidate", "launched", "record"}
Calling ==
    [op : {"none", "remove", "revoke", "trust", "launch", "health"},
     at : Moments,
     reg : Registration, rec : TrustRecord,
     digest : Digest \cup {"none"}, scope : Scope \cup {"none"},
     enable : BOOLEAN, of : Nat,
     probe : {"none", "healthy", "auth", "unsupported", "failed"}]
Sight == [enabled : BOOLEAN, trusted : SUBSET (Digest \cup {"none"})]

AgentTypes ==
    /\ file \in Registration /\ records \in Seq(TrustRecord) /\ obs \in Observation
    /\ disk \in [Command -> Digest] /\ lock \in AgentCaller \cup {NoOne}
    /\ call \in [AgentCaller -> Calling] /\ seen \in [AgentCaller -> Sight]
    /\ mintedRecords \in Nat /\ gen \in Nat

\* A registration names a command, and nothing else stands without one.
FileNamed == Registered => file.cmd \in Command

\* A call that writes has the lock; between the two writes of a removal nothing
\* is stored, and between those of the others the agent is registered.
Locking(c) ==
    /\ call[c].at \in {"file", "disable", "grant", "enable"} => lock = c
    /\ call[c].at = "file" => records = <<>> /\ obs = NoObs
    /\ call[c].at \in {"disable", "enable"} => Registered

\* A call hashes the executable of a registration; the gates have seen what
\* they rely on.
Gated(c) ==
    /\ call[c].at = "hash" => call[c].reg.cmd \in Command
    /\ call[c].at = "grant" => call[c].op = "trust" /\ call[c].digest \in Digest
                               /\ call[c].scope \in Scope
    /\ call[c].at = "hashed" => call[c].digest \in Digest
    /\ call[c].op = "trust" => call[c].scope \in Scope
    /\ call[c].op \in {"launch", "health"} => seen[c].enabled /\ call[c].reg.cmd \in Command
    /\ call[c].op \in {"launch", "health"}
       /\ call[c].at \in {"hash", "hashed", "observe", "probe", "launched"} =>
         call[c].rec.digest \in seen[c].trusted
    /\ call[c].at \in {"observe", "probe", "launched"} =>
         call[c].op \in {"launch", "health"} /\ call[c].digest = call[c].rec.digest
    /\ call[c].at = "trusted" => call[c].op \in {"launch", "health"}

AgentInv ==
    /\ AgentTypes /\ FileNamed /\ NothingLeftBehind
    /\ \A c \in AgentCaller : Locking(c) /\ Gated(c)

-----------------------------------------------------------------------------
\* What every step of a caller leaves alone

LEMMA LatestType ==
    ASSUME NEW r \in Seq(TrustRecord)
    PROVE  Latest(r) \in TrustRecord
<1>1. NoRecord \in TrustRecord
  BY AgentConstants DEF TrustRecord, NoRecord
<1>2. CASE r = <<>>
  BY <1>1, <1>2 DEF Latest
<1>3. CASE r # <<>>
  <2>1. Len(r) \in 1 .. Len(r)
    BY <1>3
  <2>2. QED
    BY <1>3, <2>1 DEF Latest
<1>4. QED
  BY <1>2, <1>3

\* What a step makes of a call is a call, and keeps the rest of it.
Same(n, k) == n.op = k.op /\ n.reg = k.reg /\ n.scope = k.scope

LEMMA IdleCall == Idle \in Calling /\ Idle.op = "none" /\ Idle.at = "none"
<1>1. NoReg \in Registration /\ NoRecord \in TrustRecord
  BY AgentConstants DEF Registration, NoReg, TrustRecord, NoRecord
<1>2. QED
  BY <1>1, AgentConstants DEF Calling, Idle, Moments

LEMMA Moving ==
    ASSUME NEW k \in Calling, NEW at \in Moments
    PROVE  \E n \in Calling : /\ n = [k EXCEPT !.at = at]
                              /\ Same(n, k) /\ n.at = at /\ n.rec = k.rec /\ n.digest = k.digest
<1> DEFINE e == [k EXCEPT !.at = at]
<1>1. PICK n : n = e
  OBVIOUS
<1>2. n \in Calling /\ Same(n, k) /\ n.at = at /\ n.rec = k.rec /\ n.digest = k.digest
  BY <1>1 DEF Calling, Same
<1>3. QED
  BY <1>1, <1>2

LEMMA Probing ==
    ASSUME NEW k \in Calling, NEW answer \in {"healthy", "auth", "unsupported", "failed"}
    PROVE  \E n \in Calling : /\ n = [k EXCEPT !.probe = answer, !.at = "record"]
                              /\ Same(n, k) /\ n.at = "record"
<1>0. PICK n : n = [k EXCEPT !.probe = answer, !.at = "record"]
  OBVIOUS
<1>1. /\ k.op \in {"none", "remove", "revoke", "trust", "launch", "health"}
      /\ k.reg \in Registration /\ k.rec \in TrustRecord /\ k.digest \in Digest \cup {"none"}
      /\ k.scope \in Scope \cup {"none"} /\ k.enable \in BOOLEAN /\ k.of \in Nat
  BY DEF Calling
<1>2. n = [op |-> k.op, at |-> "record", reg |-> k.reg, rec |-> k.rec, digest |-> k.digest,
           scope |-> k.scope, enable |-> k.enable, of |-> k.of, probe |-> answer]
  BY <1>0 DEF Calling
<1>3. n \in Calling /\ Same(n, k) /\ n.at = "record"
  BY ONLY <1>1, <1>2, answer \in {"healthy", "auth", "unsupported", "failed"}
     DEF Calling, Moments, Same
<1>4. QED
  BY <1>0, <1>3

LEMMA Hashing ==
    ASSUME NEW k \in Calling, NEW d \in Digest
    PROVE  \E n \in Calling : /\ n = [k EXCEPT !.digest = d, !.at = "hashed"]
                              /\ Same(n, k) /\ n.at = "hashed" /\ n.rec = k.rec /\ n.digest = d
<1>0. PICK n : n = [k EXCEPT !.digest = d, !.at = "hashed"]
  OBVIOUS
<1>1. /\ k.op \in {"none", "remove", "revoke", "trust", "launch", "health"}
      /\ k.reg \in Registration /\ k.rec \in TrustRecord
      /\ k.scope \in Scope \cup {"none"} /\ k.enable \in BOOLEAN /\ k.of \in Nat
      /\ k.probe \in {"none", "healthy", "auth", "unsupported", "failed"}
  BY DEF Calling
<1>2. n = [op |-> k.op, at |-> "hashed", reg |-> k.reg, rec |-> k.rec, digest |-> d,
           scope |-> k.scope, enable |-> k.enable, of |-> k.of, probe |-> k.probe]
  BY <1>0 DEF Calling
<1>3. n \in Calling /\ Same(n, k) /\ n.at = "hashed" /\ n.rec = k.rec /\ n.digest = d
  BY ONLY <1>1, <1>2, d \in Digest DEF Calling, Moments, Same
<1>4. QED
  BY <1>0, <1>3

LEMMA Trusting ==
    ASSUME NEW k \in Calling, NEW r \in TrustRecord
    PROVE  \E n \in Calling : /\ n = [k EXCEPT !.rec = r, !.at = "hash"]
                              /\ Same(n, k) /\ n.at = "hash" /\ n.rec = r
<1>0. PICK n : n = [k EXCEPT !.rec = r, !.at = "hash"]
  OBVIOUS
<1>1. /\ k.op \in {"none", "remove", "revoke", "trust", "launch", "health"}
      /\ k.reg \in Registration /\ k.digest \in Digest \cup {"none"}
      /\ k.scope \in Scope \cup {"none"} /\ k.enable \in BOOLEAN /\ k.of \in Nat
      /\ k.probe \in {"none", "healthy", "auth", "unsupported", "failed"}
  BY DEF Calling
<1>2. n = [op |-> k.op, at |-> "hash", reg |-> k.reg, rec |-> r, digest |-> k.digest,
           scope |-> k.scope, enable |-> k.enable, of |-> k.of, probe |-> k.probe]
  BY <1>0 DEF Calling
<1>3. n \in Calling /\ Same(n, k) /\ n.at = "hash" /\ n.rec = r
  BY ONLY <1>1, <1>2, r \in TrustRecord DEF Calling, Moments, Same
<1>4. QED
  BY <1>0, <1>3

\* The calls that begin.
Trusts(reg, scope, en) ==
    [Idle EXCEPT !.op = "trust", !.at = "hash", !.reg = reg, !.scope = scope, !.enable = en]
Admits(op, reg, where, o) ==
    [Idle EXCEPT !.op = op, !.at = "trusted", !.reg = reg, !.scope = where, !.of = o]

LEMMA Beginning ==
    /\ \A reg \in Registration, scope \in Scope, en \in BOOLEAN : \E n \in Calling :
         /\ n = Trusts(reg, scope, en)
         /\ n.op = "trust" /\ n.at = "hash" /\ n.reg = reg /\ n.scope = scope
    /\ \A op \in {"launch", "health"}, reg \in Registration, where \in Scope \cup {"none"},
          o \in Nat :
         \E n \in Calling :
           /\ n = Admits(op, reg, where, o)
           /\ n.op = op /\ n.at = "trusted" /\ n.reg = reg
    /\ \A op \in {"remove", "revoke"}, at \in {"file", "disable"} : \E n \in Calling :
         n = [Idle EXCEPT !.op = op, !.at = at] /\ n.op = op /\ n.at = at
<1>1. NoReg \in Registration /\ NoRecord \in TrustRecord /\ "global" \in Scope
  BY AgentConstants DEF Registration, NoReg, TrustRecord, NoRecord
<1>2. ASSUME NEW op \in {"remove", "revoke", "trust", "launch", "health"}, NEW at \in Moments,
             NEW reg \in Registration, NEW scope \in Scope \cup {"none"}, NEW en \in BOOLEAN,
             NEW o \in Nat
      PROVE  [op |-> op, at |-> at, reg |-> reg, rec |-> NoRecord, digest |-> "none",
              scope |-> scope, enable |-> en, of |-> o, probe |-> "none"] \in Calling
  BY <1>1 DEF Calling
<1>3. ASSUME NEW reg \in Registration, NEW scope \in Scope, NEW en \in BOOLEAN, NEW n,
             n = Trusts(reg, scope, en)
      PROVE  n = [op |-> "trust", at |-> "hash", reg |-> reg, rec |-> NoRecord, digest |-> "none",
                  scope |-> scope, enable |-> en, of |-> 0, probe |-> "none"]
  BY <1>3 DEF Idle, Trusts
<1>4. ASSUME NEW op \in {"launch", "health"}, NEW reg \in Registration,
             NEW where \in Scope \cup {"none"}, NEW o \in Nat, NEW n,
             n = Admits(op, reg, where, o)
      PROVE  n = [op |-> op, at |-> "trusted", reg |-> reg, rec |-> NoRecord, digest |-> "none",
                  scope |-> where, enable |-> FALSE, of |-> o, probe |-> "none"]
  BY <1>4 DEF Idle, Admits
<1>5. ASSUME NEW op \in {"remove", "revoke"}, NEW at \in {"file", "disable"}, NEW n,
             n = [Idle EXCEPT !.op = op, !.at = at]
      PROVE  n = [op |-> op, at |-> at, reg |-> NoReg, rec |-> NoRecord, digest |-> "none",
                  scope |-> "global", enable |-> FALSE, of |-> 0, probe |-> "none"]
  BY <1>5 DEF Idle
<1>6. /\ "hash" \in Moments /\ "trusted" \in Moments /\ "file" \in Moments /\ "disable" \in Moments
  BY DEF Moments
<1>7. ASSUME NEW reg \in Registration, NEW scope \in Scope, NEW en \in BOOLEAN
      PROVE  \E n \in Calling :
         /\ n = Trusts(reg, scope, en)
         /\ n.op = "trust" /\ n.at = "hash" /\ n.reg = reg /\ n.scope = scope
  <2>1. PICK n : n = Trusts(reg, scope, en)
    OBVIOUS
  <2>2. n = [op |-> "trust", at |-> "hash", reg |-> reg, rec |-> NoRecord, digest |-> "none",
             scope |-> scope, enable |-> en, of |-> 0, probe |-> "none"]
    BY <1>3, <2>1
  <2>3. n \in Calling
    BY <1>2, <1>6, <2>2
  <2>4. QED
    BY <2>1, <2>2, <2>3
<1>8. ASSUME NEW op \in {"launch", "health"}, NEW reg \in Registration,
             NEW where \in Scope \cup {"none"}, NEW o \in Nat
      PROVE  \E n \in Calling :
           /\ n = Admits(op, reg, where, o)
           /\ n.op = op /\ n.at = "trusted" /\ n.reg = reg
  <2>1. PICK n : n = Admits(op, reg, where, o)
    OBVIOUS
  <2>2. n = [op |-> op, at |-> "trusted", reg |-> reg, rec |-> NoRecord, digest |-> "none",
             scope |-> where, enable |-> FALSE, of |-> o, probe |-> "none"]
    BY <1>4, <2>1
  <2>3. n \in Calling
    BY <1>2, <1>6, <2>2
  <2>4. QED
    BY <2>1, <2>2, <2>3
<1>9. ASSUME NEW op \in {"remove", "revoke"}, NEW at \in {"file", "disable"}
      PROVE  \E n \in Calling : n = [Idle EXCEPT !.op = op, !.at = at] /\ n.op = op /\ n.at = at
  <2>1. PICK n : n = [Idle EXCEPT !.op = op, !.at = at]
    OBVIOUS
  <2>2. n = [op |-> op, at |-> at, reg |-> NoReg, rec |-> NoRecord, digest |-> "none",
             scope |-> "global", enable |-> FALSE, of |-> 0, probe |-> "none"]
    BY <1>5, <2>1
  <2>3. n \in Calling
    BY <1>1, <1>2, <1>6, <2>2
  <2>4. QED
    BY <2>1, <2>2, <2>3
<1>10. QED
  BY <1>7, <1>8, <1>9

\* What a running call has seen stays seen, and what stands now is added.
LEMMA SeenGrows ==
    ASSUME AgentTypes, Witness, call' \in [AgentCaller -> Calling],
           file' \in Registration, records' \in Seq(TrustRecord)
    PROVE  /\ seen' \in [AgentCaller -> Sight]
           /\ \A c \in AgentCaller : call'[c].op # "none" =>
                /\ seen[c].enabled \/ file'.enabled => seen'[c].enabled
                /\ seen[c].trusted \subseteq seen'[c].trusted
                /\ Latest(records').state = "trusted" =>
                     Latest(records').digest \in seen'[c].trusted
<1>1. Latest(records') \in TrustRecord
  BY LatestType
<1>2. \A c \in AgentCaller : seen'[c] =
        IF call'[c].op = "none" THEN [enabled |-> FALSE, trusted |-> {}]
        ELSE [enabled |-> seen[c].enabled \/ file'.enabled,
              trusted |-> seen[c].trusted \cup
                (IF Latest(records').state = "trusted" THEN {Latest(records').digest} ELSE {})]
  BY DEF Witness
<1>3. \A c \in AgentCaller : seen[c] \in Sight
  BY DEF AgentTypes
<1>4. Latest(records').digest \in Digest \cup {"none"} /\ file'.enabled \in BOOLEAN
  BY <1>1 DEF TrustRecord, Registration
<1>5. \A c \in AgentCaller : seen'[c] \in Sight
  <2> TAKE c \in AgentCaller
  <2>1. CASE call'[c].op = "none"
    <3>1. seen'[c] = [enabled |-> FALSE, trusted |-> {}]
      BY <1>2, <2>1
    <3>2. QED
      BY ONLY <3>1 DEF Sight
  <2>2. CASE call'[c].op # "none"
    <3>1. seen'[c] = [enabled |-> seen[c].enabled \/ file'.enabled,
              trusted |-> seen[c].trusted \cup
                (IF Latest(records').state = "trusted" THEN {Latest(records').digest} ELSE {})]
      BY <1>2, <2>2
    <3>2. seen[c].trusted \cup
                (IF Latest(records').state = "trusted" THEN {Latest(records').digest} ELSE {})
            \in SUBSET (Digest \cup {"none"})
      BY <1>3, <1>4 DEF Sight
    <3>3. (seen[c].enabled \/ file'.enabled) \in BOOLEAN
      BY <1>3, <1>4 DEF Sight
    <3>4. QED
      BY ONLY <3>1, <3>2, <3>3 DEF Sight
  <2>3. QED
    BY <2>1, <2>2
<1>6. seen' = [c \in AgentCaller |-> seen'[c]]
  BY DEF Witness
<1>7. seen' \in [AgentCaller -> Sight]
  BY <1>5, <1>6
<1>8. ASSUME NEW c \in AgentCaller, call'[c].op # "none"
      PROVE  /\ seen[c].enabled \/ file'.enabled => seen'[c].enabled
             /\ seen[c].trusted \subseteq seen'[c].trusted
             /\ Latest(records').state = "trusted" =>
                  Latest(records').digest \in seen'[c].trusted
  <2>1. seen'[c] = [enabled |-> seen[c].enabled \/ file'.enabled,
            trusted |-> seen[c].trusted \cup
              (IF Latest(records').state = "trusted" THEN {Latest(records').digest} ELSE {})]
    BY <1>2, <1>8
  <2>2. /\ seen'[c].enabled = (seen[c].enabled \/ file'.enabled)
        /\ seen'[c].trusted = seen[c].trusted \cup
              (IF Latest(records').state = "trusted" THEN {Latest(records').digest} ELSE {})
    BY <2>1
  <2>3. QED
    BY <2>2
<1>9. QED
  BY <1>7, <1>8

\* A step of caller c, who has the lock or takes it for its step, or leaves the
\* stores alone, keeps what the other callers rely on.
LEMMA CallerStep ==
    ASSUME AgentInv, NEW c \in AgentCaller, Witness,
           call' \in [AgentCaller -> Calling],
           \A d \in AgentCaller \ {c} : call'[d] = call[d],
           file' \in Registration, records' \in Seq(TrustRecord), obs' \in Observation,
           lock' \in AgentCaller \cup {NoOne}, mintedRecords' \in Nat, gen' \in Nat, disk' = disk,
           FileNamed', NothingLeftBehind',
           lock \in {NoOne, c} \/ UNCHANGED <<file, records, obs, lock>>,
           Locking(c)', Gated(c)'
    PROVE  AgentInv'
<1>1. AgentTypes' /\ \A d \in AgentCaller : call'[d].op # "none" =>
        (seen[d].enabled => seen'[d].enabled) /\ seen[d].trusted \subseteq seen'[d].trusted
  BY SeenGrows DEF AgentInv, AgentTypes
<1>2. ASSUME NEW d \in AgentCaller \ {c} PROVE Locking(d)'
  <2>1. Locking(d) /\ call'[d] = call[d]
    BY DEF AgentInv
  <2>2. CASE UNCHANGED <<file, records, obs, lock>>
    BY <2>1, <2>2 DEF Locking, Registered
  <2>3. CASE lock \in {NoOne, c}
    <3>1. lock # d
      BY <2>3, AgentConstants DEF NoOne
    <3>2. call[d].at \notin {"file", "disable", "grant", "enable"}
      BY <2>1, <3>1 DEF Locking
    <3>3. QED
      BY <2>1, <3>2 DEF Locking
  <2>4. QED
    BY ONLY <2>2, <2>3, lock \in {NoOne, c} \/ UNCHANGED <<file, records, obs, lock>>
<1>3. ASSUME NEW d \in AgentCaller \ {c} PROVE Gated(d)'
  BY <1>1 DEF AgentInv, Gated
<1>4. QED
  BY <1>1, <1>2, <1>3 DEF AgentInv

\* A step that only moves the caller.
LEMMA QuietStep ==
    ASSUME AgentInv, NEW c \in AgentCaller, Witness,
           call' \in [AgentCaller -> Calling],
           \A d \in AgentCaller \ {c} : call'[d] = call[d],
           UNCHANGED <<file, records, obs, disk, mintedRecords, lock, gen>>,
           Locking(c)', Gated(c)'
    PROVE  AgentInv'
<1>1. FileNamed' /\ NothingLeftBehind' /\ AgentTypes
  BY DEF AgentInv, FileNamed, NothingLeftBehind, Registered
<1>2. QED
  BY <1>1, CallerStep DEF AgentTypes

-----------------------------------------------------------------------------
\* The steps that only move their caller

\* Call k may be what caller c goes on with.
Ready(c, k) ==
    /\ k.at \notin {"file", "disable", "grant", "enable"}
    /\ k.at = "hash" => k.reg.cmd \in Command
    /\ k.at = "hashed" => k.digest \in Digest
    /\ k.op = "trust" => k.scope \in Scope
    /\ k.op \in {"launch", "health"} => (seen[c].enabled \/ file.enabled) /\ k.reg.cmd \in Command
    /\ k.op \in {"launch", "health"}
       /\ k.at \in {"hash", "hashed", "observe", "probe", "launched"} =>
         \/ k.rec.digest \in seen[c].trusted
         \/ Latest(records).state = "trusted" /\ k.rec = Latest(records)
    /\ k.at \in {"observe", "probe", "launched"} =>
         k.op \in {"launch", "health"} /\ k.digest = k.rec.digest
    /\ k.at = "trusted" => k.op \in {"launch", "health"}

LEMMA MovedStep ==
    ASSUME AgentInv, NEW c \in AgentCaller, NEW k \in Calling, call' = [call EXCEPT ![c] = k],
           Ready(c, k), UNCHANGED <<file, records, obs, disk, mintedRecords, lock, gen>>, Witness
    PROVE  AgentInv'
<1>1. /\ call' \in [AgentCaller -> Calling] /\ call'[c] = k
      /\ \A d \in AgentCaller \ {c} : call'[d] = call[d]
  BY DEF AgentInv, AgentTypes
<1>2. k.op # "none" =>
        /\ seen[c].enabled \/ file.enabled => seen'[c].enabled
        /\ seen[c].trusted \subseteq seen'[c].trusted
        /\ Latest(records).state = "trusted" => Latest(records).digest \in seen'[c].trusted
  BY <1>1, SeenGrows DEF AgentInv, AgentTypes
<1>3. Locking(c)'
  BY <1>1 DEF Locking, Ready
<1>4. Gated(c)'
  BY <1>1, <1>2 DEF Gated, Ready
<1>5. QED
  BY <1>1, <1>3, <1>4, QuietStep

\* What a caller has.
LEMMA CallerHas ==
    ASSUME AgentInv, NEW c \in AgentCaller
    PROVE  /\ call[c] \in Calling /\ Locking(c) /\ Gated(c) /\ FileNamed /\ NothingLeftBehind
           /\ file \in Registration /\ records \in Seq(TrustRecord) /\ obs \in Observation
           /\ gen \in Nat /\ mintedRecords \in Nat /\ lock \in AgentCaller \cup {NoOne}
           /\ disk \in [Command -> Digest] /\ call \in [AgentCaller -> Calling]
           /\ Latest(records) \in TrustRecord
  BY LatestType DEF AgentInv, AgentTypes

\* A call that has returned relies on nothing.
LEMMA IdleReady ==
    ASSUME NEW c \in AgentCaller
    PROVE  Ready(c, Idle)
  BY IdleCall DEF Ready

LEMMA trust_step ==
    ASSUME AgentInv, NEW c \in AgentCaller, trust(c)
    PROVE  AgentInv'
<1>1. PICK scope \in Scope, en \in BOOLEAN :
        Registered /\ call' = [call EXCEPT ![c] = Trusts(file, scope, en)]
  BY DEF trust, Keeps, Trusts
<1>2. file \in Registration /\ file.cmd \in Command
  BY <1>1, CallerHas DEF FileNamed
<1>3. PICK k \in Calling : call' = [call EXCEPT ![c] = k]
                           /\ k.op = "trust" /\ k.at = "hash" /\ k.reg = file /\ k.scope = scope
  <2>1. PICK reg \in Registration : reg = file
    BY <1>2
  <2>2. PICK k \in Calling :
          /\ k = Trusts(reg, scope, en)
          /\ k.op = "trust" /\ k.at = "hash" /\ k.reg = reg /\ k.scope = scope
    BY Beginning
  <2>3. QED
    BY <1>1, <2>1, <2>2
<1>4. Ready(c, k)
  BY <1>2, <1>3 DEF Ready
<1>5. QED
  BY <1>3, <1>4, MovedStep DEF trust

LEMMA verify_executable_step ==
    ASSUME AgentInv, NEW c \in AgentCaller, verify_executable(c)
    PROVE  AgentInv'
<1>1. /\ call[c] \in Calling /\ Gated(c) /\ call[c].at = "hash" /\ disk[call[c].reg.cmd] \in Digest
  BY CallerHas DEF verify_executable, Gated
<1>2. CASE Keeps(c, [call[c] EXCEPT !.digest = disk[call[c].reg.cmd], !.at = "hashed"])
  <2>1. PICK d \in Digest, o \in Calling : d = disk[call[c].reg.cmd] /\ o = call[c]
    BY <1>1
  <2>2. PICK k \in Calling : /\ k = [o EXCEPT !.digest = d, !.at = "hashed"]
                             /\ Same(k, o) /\ k.at = "hashed" /\ k.rec = o.rec /\ k.digest = d
    BY Hashing
  <2>3. call' = [call EXCEPT ![c] = k] /\ Ready(c, k)
    BY <1>1, <1>2, <2>1, <2>2 DEF Keeps, Ready, Same, Gated
  <2>4. QED
    BY <2>3, MovedStep DEF verify_executable
<1>3. CASE Unfit(c) /\ call[c].op = "health"
  <2>1. PICK o \in Calling : o = call[c]
    BY <1>1
  <2>2. PICK k \in Calling : /\ k = [o EXCEPT !.probe = "failed", !.at = "record"]
                             /\ Same(k, o) /\ k.at = "record"
    BY Probing
  <2>3. call' = [call EXCEPT ![c] = k] /\ Ready(c, k)
    BY <1>1, <1>3, <2>1, <2>2 DEF Unfit, Keeps, Ready, Same, Gated
  <2>4. QED
    BY <2>3, MovedStep DEF verify_executable
<1>4. CASE Unfit(c) /\ call[c].op # "health"
  BY <1>4, IdleCall, IdleReady, MovedStep DEF Unfit, Returns, Keeps, verify_executable
<1>5. QED
  BY <1>2, <1>3, <1>4 DEF verify_executable

LEMMA latest_trust_record_step ==
    ASSUME AgentInv, NEW c \in AgentCaller, latest_trust_record(c)
    PROVE  AgentInv'
<1>1. call[c] \in Calling /\ Gated(c) /\ call[c].at = "trusted" /\ Latest(records) \in TrustRecord
  BY CallerHas DEF latest_trust_record
<1>2. CASE Latest(records).state = "trusted"
  <2>1. PICK r \in TrustRecord, o \in Calling : r = Latest(records) /\ o = call[c]
    BY <1>1
  <2>2. PICK k \in Calling : /\ k = [o EXCEPT !.rec = r, !.at = "hash"]
                             /\ Same(k, o) /\ k.at = "hash" /\ k.rec = r
    BY Trusting
  <2>3. call' = [call EXCEPT ![c] = k] /\ Ready(c, k)
    BY <1>1, <1>2, <2>1, <2>2 DEF latest_trust_record, Keeps, Ready, Same, Gated
  <2>4. QED
    BY <2>3, MovedStep DEF latest_trust_record
<1>3. CASE Latest(records).state # "trusted"
  BY <1>3, IdleCall, IdleReady, MovedStep DEF latest_trust_record, Returns, Keeps
<1>4. QED
  BY <1>2, <1>3

LEMMA admit_step ==
    ASSUME AgentInv, NEW c \in AgentCaller, admit(c)
    PROVE  AgentInv'
<1>1. PICK op \in {"launch", "health"}, where \in Scope \cup {"none"} :
        file.enabled /\ call' = [call EXCEPT ![c] = Admits(op, file, where, gen)]
  BY DEF admit, Keeps, Admits
<1>2. file \in Registration /\ file.cmd \in Command /\ gen \in Nat
  BY <1>1, CallerHas DEF FileNamed, Registered, NoReg
<1>3. PICK reg \in Registration, o \in Nat : reg = file /\ o = gen
  BY <1>2
<1>4. PICK k \in Calling :
        /\ k = Admits(op, reg, where, o)
        /\ k.op = op /\ k.at = "trusted" /\ k.reg = reg
  BY Beginning
<1>5. call' = [call EXCEPT ![c] = k] /\ Ready(c, k)
  BY <1>1, <1>2, <1>3, <1>4 DEF Ready
<1>6. QED
  BY <1>5, MovedStep DEF admit

\* A step that moves a call to another moment, with all it has.
LEMMA MomentStep ==
    ASSUME AgentInv, NEW c \in AgentCaller, NEW at \in Moments, GoesTo(c, at), Witness,
           at \in {"invalidate", "observe", "probe", "launched"},
           call[c].op \in {"launch", "health"},
           at # "invalidate" =>
             /\ call[c].at \in {"hash", "hashed", "observe", "probe", "launched"}
             /\ call[c].digest = call[c].rec.digest,
           UNCHANGED <<file, records, obs, disk, mintedRecords, lock, gen>>
    PROVE  AgentInv'
<1>1. call[c] \in Calling /\ Gated(c)
  BY CallerHas
<1>2. PICK o \in Calling : o = call[c]
  BY <1>1
<1>3. PICK k \in Calling : /\ k = [o EXCEPT !.at = at]
                           /\ Same(k, o) /\ k.at = at /\ k.rec = o.rec /\ k.digest = o.digest
  BY Moving
<1>4. call' = [call EXCEPT ![c] = k]
  BY <1>2, <1>3 DEF GoesTo, Keeps
<1>5. Ready(c, k)
  BY <1>1, <1>2, <1>3 DEF Ready, Same, Gated
<1>6. QED
  BY <1>4, <1>5, MovedStep

\* A step at which a call returns.
LEMMA ReturnStep ==
    ASSUME AgentInv, NEW c \in AgentCaller, Returns(c), Witness,
           UNCHANGED <<file, records, obs, disk, mintedRecords, lock, gen>>
    PROVE  AgentInv'
  BY IdleCall, IdleReady, MovedStep DEF Returns, Keeps

LEMMA admitted_step ==
    ASSUME AgentInv, NEW c \in AgentCaller, admitted(c)
    PROVE  AgentInv'
<1>1. /\ call[c].op \in {"launch", "health"} /\ call[c].at = "hashed" /\ Witness
      /\ UNCHANGED <<file, records, obs, disk, mintedRecords, lock, gen>>
  BY Zenon DEF admitted
<1>2. \/ /\ check(call[c].rec, call[c].digest, call[c].scope) = "valid"
         /\ GoesTo(c, IF call[c].op = "launch" THEN "observe" ELSE "probe")
      \/ GoesTo(c, "invalidate")
      \/ Returns(c)
  BY Zenon DEF admitted
<1>3. CASE /\ check(call[c].rec, call[c].digest, call[c].scope) = "valid"
           /\ GoesTo(c, IF call[c].op = "launch" THEN "observe" ELSE "probe")
  <2>1. call[c].digest = call[c].rec.digest
    BY <1>3 DEF check
  <2>2. CASE GoesTo(c, "observe")
    BY <1>1, <2>1, <2>2, MomentStep DEF Moments
  <2>3. CASE GoesTo(c, "probe")
    BY <1>1, <2>1, <2>3, MomentStep DEF Moments
  <2>4. QED
    BY <1>3, <2>2, <2>3
<1>4. CASE GoesTo(c, "invalidate")
  BY <1>1, <1>4, MomentStep DEF Moments
<1>5. CASE Returns(c)
  BY <1>1, <1>5, ReturnStep
<1>6. QED
  BY <1>2, <1>3, <1>4, <1>5

LEMMA prepare_launch_step ==
    ASSUME AgentInv, NEW c \in AgentCaller, prepare_launch(c)
    PROVE  AgentInv'
<1>1. /\ call[c].op = "launch" /\ call[c].at = "observe" /\ Witness
      /\ UNCHANGED <<file, records, obs, disk, mintedRecords, lock, gen>>
      /\ GoesTo(c, "launched") \/ Returns(c)
  BY DEF prepare_launch, At
<1>2. call[c].digest = call[c].rec.digest
  BY <1>1, CallerHas DEF Gated
<1>3. CASE GoesTo(c, "launched")
  BY <1>1, <1>2, <1>3, MomentStep DEF Moments
<1>4. QED
  BY <1>1, <1>3, ReturnStep

LEMMA launched_step ==
    ASSUME AgentInv, NEW c \in AgentCaller, launched(c)
    PROVE  AgentInv'
  BY ReturnStep DEF launched

LEMMA run_health_check_step ==
    ASSUME AgentInv, NEW c \in AgentCaller, run_health_check(c)
    PROVE  AgentInv'
<1>1. PICK answer \in {"healthy", "auth", "unsupported", "failed"} :
        Keeps(c, [call[c] EXCEPT !.probe = answer, !.at = "record"])
  BY DEF run_health_check
<1>2. call[c] \in Calling /\ Gated(c) /\ call[c].op = "health"
  BY CallerHas DEF run_health_check, At
<1>3. PICK o \in Calling : o = call[c]
  BY <1>2
<1>4. PICK k \in Calling : /\ k = [o EXCEPT !.probe = answer, !.at = "record"]
                           /\ Same(k, o) /\ k.at = "record"
  BY Probing
<1>5. call' = [call EXCEPT ![c] = k] /\ Ready(c, k)
  BY <1>1, <1>2, <1>3, <1>4 DEF Keeps, Ready, Same, Gated
<1>6. QED
  BY <1>5, MovedStep DEF run_health_check

-----------------------------------------------------------------------------
\* The steps that write

\* Call k, which waits for nothing but its own lock, is what caller c goes on with.
Writing(c, k) ==
    /\ k.at \in {"none", "file", "disable", "grant", "enable"}
    /\ k.op \in {"launch", "health"} => seen[c].enabled /\ k.reg.cmd \in Command
    /\ k.op = "trust" => k.scope \in Scope
    /\ k.at = "grant" => k.op = "trust" /\ k.digest \in Digest

\* The stores after a write.
Stored == /\ file \in Registration /\ records \in Seq(TrustRecord) /\ obs \in Observation
          /\ lock \in AgentCaller \cup {NoOne} /\ mintedRecords \in Nat /\ gen \in Nat
          /\ FileNamed /\ NothingLeftBehind

LEMMA WrittenStep ==
    ASSUME AgentInv, NEW c \in AgentCaller, NEW k \in Calling, call' = [call EXCEPT ![c] = k],
           Writing(c, k), Witness, Stored', UNCHANGED disk, lock \in {NoOne, c},
           k.at \in {"file", "disable", "grant", "enable"} => lock' = c,
           k.at = "file" => (records = <<>> /\ obs = NoObs)',
           k.at \in {"disable", "enable"} => Registered'
    PROVE  AgentInv'
<1>1. /\ call' \in [AgentCaller -> Calling] /\ call'[c] = k
      /\ \A d \in AgentCaller \ {c} : call'[d] = call[d]
  BY DEF AgentInv, AgentTypes
<1>2. k.op # "none" => (seen[c].enabled => seen'[c].enabled)
  BY <1>1, SeenGrows DEF AgentInv, AgentTypes, Stored
<1>3. Locking(c)'
  BY <1>1 DEF Locking
<1>4. Gated(c)'
  BY <1>1, <1>2 DEF Gated, Writing
<1>5. QED
  BY <1>1, <1>3, <1>4, CallerStep DEF Stored

\* A write of a call that is over with it.
LEMMA AloneStep ==
    ASSUME AgentInv, NEW c \in AgentCaller, Witness, Stored', UNCHANGED <<disk, lock>>,
           \/ Free /\ UNCHANGED call
           \/ Free /\ Returns(c)
    PROVE  AgentInv'
<1>1. CASE Free /\ Returns(c)
  BY <1>1, IdleCall, WrittenStep DEF Returns, Keeps, Writing, Free
<1>2. CASE Free /\ UNCHANGED call
  <2>1. Locking(c) /\ Gated(c) /\ call \in [AgentCaller -> Calling] /\ lock = NoOne
    BY <1>2, CallerHas DEF Free
  <2>2. call[c].at \notin {"file", "disable", "grant", "enable"}
    BY <2>1, AgentConstants DEF Locking, NoOne
  <2>3. Locking(c)'
    BY <1>2, <2>2 DEF Locking
  <2>4. call'[c].op # "none" =>
          (seen[c].enabled => seen'[c].enabled) /\ seen[c].trusted \subseteq seen'[c].trusted
    BY <1>2, SeenGrows DEF AgentInv, AgentTypes, Stored
  <2>5. Gated(c)'
    BY <1>2, <2>1, <2>4 DEF Gated
  <2>6. QED
    BY <1>2, <2>1, <2>3, <2>5, CallerStep DEF Stored
<1>3. QED
  BY <1>1, <1>2

\* A registration whose flag alone changes is still one.
LEMMA Flagged ==
    ASSUME file \in Registration, FileNamed, Registered, NEW b \in BOOLEAN
    PROVE  /\ [file EXCEPT !.enabled = b] \in Registration
           /\ [file EXCEPT !.enabled = b].cmd \in Command
           /\ [file EXCEPT !.enabled = b] # NoReg
<1>1. file.cmd \in Command /\ file.cmd # "none"
  BY AgentConstants DEF FileNamed
<1>2. PICK n : n = [file EXCEPT !.enabled = b]
  OBVIOUS
<1>3. n \in Registration /\ n.cmd = file.cmd
  BY <1>2 DEF Registration
<1>4. n # NoReg
  BY <1>1, <1>3 DEF NoReg
<1>5. QED
  BY <1>1, <1>2, <1>3, <1>4

LEMMA register_step ==
    ASSUME AgentInv, NEW c \in AgentCaller, register(c)
    PROVE  AgentInv'
<1>1. PICK cmd \in Command : file' = [cmd |-> cmd, enabled |-> FALSE]
  BY DEF register
<1>2. file' \in Registration /\ file'.cmd \in Command /\ Registered'
  BY <1>1, AgentConstants DEF Registration, Registered, NoReg
<1>3. /\ UNCHANGED <<records, obs, disk, lock, call, mintedRecords>> /\ gen' = gen + 1 /\ Witness
      /\ Free
  BY DEF register, Alone
<1>4. Stored'
  BY <1>2, <1>3, CallerHas DEF Stored, FileNamed, NothingLeftBehind
<1>5. QED
  BY <1>3, <1>4, AloneStep

LEMMA registration_step ==
    ASSUME AgentInv, NEW c \in AgentCaller, update(c)
    PROVE  AgentInv'
<1>1. PICK cmd \in Command : file' = [cmd |-> cmd, enabled |-> FALSE]
  BY DEF update
<1>2. file' \in Registration /\ file'.cmd \in Command /\ Registered'
  BY <1>1, AgentConstants DEF Registration, Registered, NoReg
<1>3. /\ UNCHANGED <<records, obs, disk, lock, call, mintedRecords, gen>> /\ Witness
      /\ Free
  BY DEF update, Alone
<1>4. Stored'
  BY <1>2, <1>3, CallerHas DEF Stored, FileNamed, NothingLeftBehind
<1>5. QED
  BY <1>3, <1>4, AloneStep

LEMMA set_enabled_step ==
    ASSUME AgentInv, NEW c \in AgentCaller, set_enabled(c)
    PROVE  AgentInv'
<1>1. PICK enabled \in BOOLEAN : file' = [file EXCEPT !.enabled = enabled]
  BY DEF set_enabled
<1>2. Registered /\ Free /\ Witness
      /\ UNCHANGED <<records, obs, disk, lock, call, mintedRecords, gen>>
  BY DEF set_enabled, Alone
<1>3. file' \in Registration /\ file'.cmd \in Command /\ Registered'
  BY <1>1, <1>2, CallerHas, Flagged DEF Registered
<1>4. Stored'
  BY <1>2, <1>3, CallerHas DEF Stored, FileNamed, NothingLeftBehind
<1>5. QED
  BY <1>2, <1>4, AloneStep

LEMMA record_authentication_step ==
    ASSUME AgentInv, NEW c \in AgentCaller, record_authentication(c)
    PROVE  AgentInv'
<1>1. PICK status \in {"authenticated", "failed"} :
        obs' = IF obs = NoObs THEN [auth |-> status, compatibility |-> "unknown", of |-> 0]
               ELSE [obs EXCEPT !.auth = status]
  BY DEF record_authentication
<1>2. Registered /\ Free /\ Witness
      /\ UNCHANGED <<file, records, disk, lock, call, mintedRecords, gen>>
  BY DEF record_authentication, Alone
<1>3. obs' \in Observation
  BY <1>1, CallerHas DEF Observation
<1>4. Stored'
  BY <1>2, <1>3, CallerHas DEF Stored, FileNamed, NothingLeftBehind, Registered
<1>5. QED
  BY <1>2, <1>4, AloneStep

LEMMA remove_agent_step ==
    ASSUME AgentInv, NEW c \in AgentCaller, RemoveAgent(c)
    PROVE  AgentInv'
<1>1. UNCHANGED <<disk, mintedRecords, gen>> /\ Witness
  BY DEF RemoveAgent
<1>2. NoObs \in Observation /\ <<>> \in Seq(TrustRecord)
  BY DEF NoObs, Observation
<1>3. CASE /\ Free /\ Registered /\ lock' = c /\ records' = <<>> /\ obs' = NoObs
           /\ Keeps(c, [Idle EXCEPT !.op = "remove", !.at = "file"]) /\ UNCHANGED file
  <2>1. PICK k \in Calling : /\ k = [Idle EXCEPT !.op = "remove", !.at = "file"]
                             /\ k.op = "remove" /\ k.at = "file"
    BY Beginning
  <2>2. call' = [call EXCEPT ![c] = k] /\ Writing(c, k)
    BY <1>3, <2>1 DEF Keeps, Writing
  <2>3. Stored'
    BY <1>1, <1>2, <1>3, CallerHas DEF Stored, FileNamed, NothingLeftBehind, Registered
  <2>4. QED
    BY <1>1, <1>3, <2>1, <2>2, <2>3, WrittenStep DEF Free
<1>4. CASE /\ At(c, "remove", "file") /\ file' \in {NoReg, file} /\ lock' = NoOne /\ Returns(c)
           /\ UNCHANGED <<records, obs>>
  <2>1. lock = c /\ records = <<>> /\ obs = NoObs
    BY <1>4, CallerHas DEF Locking, At
  <2>2. NoReg \in Registration
    BY DEF NoReg, Registration
  <2>3. Stored'
    BY <1>1, <1>4, <2>1, <2>2, CallerHas DEF Stored, FileNamed, NothingLeftBehind, Registered
  <2>4. QED
    BY <1>1, <1>4, <2>1, <2>3, IdleCall, WrittenStep DEF Returns, Keeps, Writing
<1>5. QED
  BY <1>3, <1>4 DEF RemoveAgent, remove_agent

\* The records with the last one in another state.
LEMMA RestatedType ==
    ASSUME records \in Seq(TrustRecord), records # <<>>, NEW s \in {"revoked", "invalidated"}
    PROVE  /\ Restated(s) \in Seq(TrustRecord) /\ Len(Restated(s)) = Len(records)
           /\ \A i \in 1 .. Len(records) : i # Len(records) => Restated(s)[i] = records[i]
           /\ Restated(s)[Len(records)].state = s
<1>1. Len(records) \in 1 .. Len(records) /\ Len(records) \in Nat
  OBVIOUS
<1>0. PICK x \in TrustRecord : x = records[Len(records)]
  BY <1>1
<1>2. PICK r : r = [x EXCEPT !.state = s]
  OBVIOUS
<1>3. r \in TrustRecord /\ r.state = s
  BY <1>2 DEF TrustRecord
<1>4. Restated(s) = [records EXCEPT ![Len(records)] = r]
  BY <1>0, <1>2 DEF Restated
<1>5. QED
  BY <1>1, <1>3, <1>4

LEMMA revoke_trust_step ==
    ASSUME AgentInv, NEW c \in AgentCaller, revoke_trust(c)
    PROVE  AgentInv'
<1>1. /\ Free /\ Registered /\ lock' = c
      /\ records' = IF records = <<>> THEN records ELSE Restated("revoked")
      /\ Keeps(c, [Idle EXCEPT !.op = "revoke", !.at = "disable"])
      /\ UNCHANGED <<file, obs, disk, mintedRecords, gen>> /\ Witness
  BY DEF revoke_trust
<1>2. PICK k \in Calling : /\ k = [Idle EXCEPT !.op = "revoke", !.at = "disable"]
                           /\ k.op = "revoke" /\ k.at = "disable"
  BY Beginning
<1>3. call' = [call EXCEPT ![c] = k] /\ Writing(c, k)
  BY <1>1, <1>2 DEF Keeps, Writing
<1>4. records' \in Seq(TrustRecord)
  BY <1>1, RestatedType, CallerHas
<1>5. Stored'
  BY <1>1, <1>4, CallerHas DEF Stored, FileNamed, NothingLeftBehind, Registered
<1>6. Registered'
  BY <1>1 DEF Registered
<1>7. QED
  BY <1>1, <1>2, <1>3, <1>5, <1>6, WrittenStep DEF Free

\* A call that has the lock for the flag, and returns.
LEMMA FlagStep ==
    ASSUME AgentInv, NEW c \in AgentCaller, call[c].at \in {"disable", "enable"},
           NEW b \in BOOLEAN, file' \in {[file EXCEPT !.enabled = b], file},
           lock' = NoOne, Returns(c), UNCHANGED <<records, obs, disk, mintedRecords, gen>>, Witness
    PROVE  AgentInv'
<1>1. lock = c /\ Registered
  BY CallerHas DEF Locking
<1>2. file' \in Registration /\ file'.cmd \in Command /\ Registered'
  BY <1>1, CallerHas, Flagged DEF Registered, FileNamed
<1>3. Stored'
  BY <1>2, CallerHas DEF Stored, FileNamed, NothingLeftBehind
<1>4. QED
  BY <1>1, <1>3, IdleCall, WrittenStep DEF Returns, Keeps, Writing

LEMMA disable_step ==
    ASSUME AgentInv, NEW c \in AgentCaller, disable(c)
    PROVE  AgentInv'
  BY FlagStep DEF disable

LEMMA enable_step ==
    ASSUME AgentInv, NEW c \in AgentCaller, enable(c)
    PROVE  AgentInv'
  BY FlagStep DEF enable, At

LEMMA lock_exclusive_step ==
    ASSUME AgentInv, NEW c \in AgentCaller, lock_exclusive(c)
    PROVE  AgentInv'
<1>1. /\ call[c].op = "trust" /\ call[c].at = "hashed" /\ Free /\ lock' = c /\ Witness
      /\ GoesTo(c, "grant") /\ UNCHANGED <<file, records, obs, disk, mintedRecords, gen>>
  BY DEF lock_exclusive, At
<1>2. PICK o \in Calling : o = call[c]
  BY CallerHas
<1>3. PICK k \in Calling : k = [o EXCEPT !.at = "grant"] /\ Same(k, o) /\ k.at = "grant"
                           /\ k.digest = o.digest
  BY Moving DEF Moments
<1>4. call' = [call EXCEPT ![c] = k] /\ Writing(c, k)
  BY <1>1, <1>2, <1>3, CallerHas DEF GoesTo, Keeps, Writing, Same, Gated
<1>5. Stored'
  BY <1>1, CallerHas DEF Stored, FileNamed, NothingLeftBehind, Registered
<1>6. QED
  BY <1>1, <1>3, <1>4, <1>5, WrittenStep DEF Free

\* A decision is a record: of its own, or a re-affirmed one.
LEMMA GrantedType ==
    ASSUME records \in Seq(TrustRecord), mintedRecords \in Nat,
           NEW d \in Digest, NEW s \in Scope
    PROVE  /\ granted(d, s) \in Seq(TrustRecord) /\ Len(granted(d, s)) >= Len(records)
           /\ \A i \in 1 .. Len(records) :
                records[i].state # "invalidated" => granted(d, s)[i] = records[i]
<1>1. CASE Latest(records).state = "invalidated" /\ Latest(records).scope = s
  <2>1. records # <<>>
    BY <1>1 DEF Latest, NoRecord
  <2>2. Len(records) \in 1 .. Len(records) /\ Latest(records) = records[Len(records)]
    BY <2>1 DEF Latest
  <2>0. PICK x \in TrustRecord : x = records[Len(records)]
    BY <2>2
  <2>3. PICK r : r = [x EXCEPT !.state = "trusted", !.digest = d]
    OBVIOUS
  <2>4. r \in TrustRecord
    BY <2>3 DEF TrustRecord
  <2>5. granted(d, s) = [records EXCEPT ![Len(records)] = r]
    <3>1. granted(d, s) = [records EXCEPT ![Len(records)].state = "trusted",
                                          ![Len(records)].digest = d]
      BY <1>1 DEF granted
    <3>2. QED
      BY <2>0, <2>2, <2>3, <3>1 DEF TrustRecord
  <2>6. QED
    BY <1>1, <2>2, <2>4, <2>5
<1>2. CASE ~(Latest(records).state = "invalidated" /\ Latest(records).scope = s)
  <2>1. PICK r : r = [id |-> mintedRecords + 1, state |-> "trusted", digest |-> d, scope |-> s]
    OBVIOUS
  <2>2. r \in TrustRecord
    BY <2>1 DEF TrustRecord
  <2>3. granted(d, s) = Append(records, r)
    BY <1>2, <2>1 DEF granted
  <2>4. QED
    BY <2>2, <2>3
<1>3. QED
  BY <1>1, <1>2

LEMMA grant_step ==
    ASSUME AgentInv, NEW c \in AgentCaller, grant(c)
    PROVE  AgentInv'
<1>1. /\ call[c].op = "trust" /\ call[c].at = "grant" /\ lock = c /\ Witness
      /\ UNCHANGED <<file, obs, disk, gen>>
  BY DEF grant, At, registration_locked
<1>2. CASE ~Registered /\ lock' = NoOne /\ Returns(c) /\ UNCHANGED <<records, mintedRecords>>
  <2>1. Stored'
    BY <1>1, <1>2, CallerHas DEF Stored, FileNamed, NothingLeftBehind, Registered
  <2>2. QED
    BY <1>1, <1>2, <2>1, IdleCall, WrittenStep DEF Returns, Keeps, Writing
<1>3. CASE /\ Registered
           /\ LET digest == IF file = call[c].reg THEN call[c].digest ELSE disk[file.cmd]
              IN /\ records' = granted(digest, call[c].scope)
                 /\ mintedRecords' = mintedRecords + 1
           /\ IF call[c].enable THEN GoesTo(c, "enable") /\ UNCHANGED lock
                                ELSE lock' = NoOne /\ Returns(c)
  <2>1. file.cmd \in Command /\ call[c].digest \in Digest /\ call[c].scope \in Scope
    BY <1>1, <1>3, CallerHas DEF FileNamed, Gated
  <2>2. PICK d \in Digest, s \in Scope : records' = granted(d, s)
    BY <1>3, <2>1, CallerHas
  <2>3. records' \in Seq(TrustRecord) /\ mintedRecords' \in Nat
    BY <1>3, <2>2, GrantedType, CallerHas
  <2>4. CASE ~call[c].enable
    <3>1. lock' = NoOne /\ Returns(c)
      BY <1>3, <2>4
    <3>2. Stored'
      BY <1>1, <1>3, <2>3, <3>1, CallerHas DEF Stored, FileNamed, NothingLeftBehind, Registered
    <3>3. QED
      BY <1>1, <3>1, <3>2, IdleCall, WrittenStep DEF Returns, Keeps, Writing
  <2>5. CASE call[c].enable
    <3>1. GoesTo(c, "enable") /\ lock' = lock
      BY <1>3, <2>5
    <3>2. PICK o \in Calling : o = call[c]
      BY CallerHas
    <3>3. PICK k \in Calling : k = [o EXCEPT !.at = "enable"] /\ Same(k, o) /\ k.at = "enable"
      BY Moving DEF Moments
    <3>4. call' = [call EXCEPT ![c] = k] /\ Writing(c, k)
      BY <1>1, <2>1, <3>1, <3>2, <3>3 DEF GoesTo, Keeps, Writing, Same
    <3>5. Stored' /\ Registered'
      BY <1>1, <1>3, <2>3, <3>1, CallerHas DEF Stored, FileNamed, NothingLeftBehind, Registered
    <3>6. QED
      BY <1>1, <3>1, <3>3, <3>4, <3>5, WrittenStep
  <2>6. QED
    BY <2>4, <2>5
<1>4. QED
  BY <1>2, <1>3 DEF grant

LEMMA invalidate_step ==
    ASSUME AgentInv, NEW c \in AgentCaller, invalidate(c)
    PROVE  AgentInv'
<1>1. /\ call[c].at = "invalidate" /\ Free /\ Witness
      /\ UNCHANGED <<file, obs, disk, mintedRecords, gen>>
  BY DEF invalidate
<1>2. CASE Returns(c) /\ UNCHANGED <<records, lock>>
  BY <1>1, <1>2, ReturnStep
<1>3. CASE /\ Latest(records).state = "trusted" /\ records' = Restated("invalidated")
           /\ lock' = c /\ GoesTo(c, "disable")
  <2>1. records # <<>> /\ Registered
    BY <1>3, CallerHas DEF Latest, NoRecord, NothingLeftBehind
  <2>2. records' \in Seq(TrustRecord)
    BY <1>3, <2>1, RestatedType, CallerHas
  <2>3. Stored' /\ Registered'
    BY <1>1, <1>3, <2>1, <2>2, CallerHas DEF Stored, FileNamed, NothingLeftBehind, Registered
  <2>4. PICK o \in Calling : o = call[c]
    BY CallerHas
  <2>5. PICK k \in Calling : k = [o EXCEPT !.at = "disable"] /\ Same(k, o) /\ k.at = "disable"
    BY Moving DEF Moments
  <2>6. call' = [call EXCEPT ![c] = k] /\ Writing(c, k)
    BY <1>1, <1>3, <2>4, <2>5, CallerHas DEF GoesTo, Keeps, Writing, Same, Gated
  <2>7. QED
    BY <1>1, <1>3, <2>3, <2>5, <2>6, WrittenStep DEF Free
<1>4. QED
  BY <1>2, <1>3 DEF invalidate

\* What a handshake found goes with what was known.
LEMMA ObservedType ==
    ASSUME NEW o \in Observation, NEW answer
    PROVE  /\ observed(o, answer) \in Observation
           /\ o.auth = "authenticated" => observed(o, answer).auth # "required"
<1>1. PICK a, m :
        /\ a = CASE answer = "auth" -> (IF o.auth = "authenticated" THEN o.auth ELSE "required")
                 [] answer = "healthy" -> "not_required" [] OTHER -> o.auth
        /\ m = CASE answer \in {"auth", "healthy"} -> "compatible"
                 [] answer = "unsupported" -> "unsupported" [] OTHER -> o.compatibility
        /\ observed(o, answer) = [o EXCEPT !.auth = a, !.compatibility = m]
  BY Zenon DEF observed
<1>2. /\ a \in {"required", "not_required", o.auth}
      /\ m \in {"compatible", "unsupported", o.compatibility}
      /\ o.auth = "authenticated" => a # "required"
  BY <1>1
<1>3. QED
  BY <1>1, <1>2 DEF Observation

LEMMA record_health_step ==
    ASSUME AgentInv, NEW c \in AgentCaller, record_health(c)
    PROVE  /\ AgentInv'
           /\ obs.auth = "authenticated" => obs'.auth # "required"
<1>1. /\ Free /\ Returns(c) /\ Witness /\ call[c] \in Calling
      /\ UNCHANGED <<file, records, disk, mintedRecords, lock, gen>>
  BY CallerHas DEF record_health
<1>2. CASE Registered
  <2>1. PICK o : o = IF obs = NoObs THEN [auth |-> "unknown", compatibility |-> "unknown", of |-> 0]
                     ELSE obs
    OBVIOUS
  <2>2. o \in Observation /\ (obs.auth = "authenticated" => o = obs)
    BY <2>1, CallerHas DEF Observation, NoObs
  <2>3. PICK p : p = observed(o, call[c].probe)
    OBVIOUS
  <2>4. p \in Observation /\ (o.auth = "authenticated" => p.auth # "required")
    BY <2>2, <2>3, ObservedType
  <2>5. obs' = [p EXCEPT !.of = call[c].of]
    BY <1>2, <2>1, <2>3 DEF record_health
  <2>6. call[c].of \in Nat
    BY <1>1 DEF Calling
  <2>7. obs' \in Observation /\ obs'.auth = p.auth
    BY <2>4, <2>5, <2>6 DEF Observation
  <2>8. Stored'
    BY <1>1, <1>2, <2>7, CallerHas DEF Stored, FileNamed, NothingLeftBehind, Registered
  <2>9. QED
    BY <1>1, <2>2, <2>4, <2>7, <2>8, AloneStep
<1>3. CASE ~Registered
  <2>1. obs' = obs
    BY <1>3 DEF record_health
  <2>2. Stored'
    BY <1>1, <2>1, CallerHas DEF Stored, FileNamed, NothingLeftBehind, Registered
  <2>3. QED
    BY <1>1, <2>1, <2>2, AloneStep
<1>4. QED
  BY <1>2, <1>3

LEMMA Swap_step ==
    ASSUME AgentInv, Swap
    PROVE  AgentInv'
<1>1. PICK cmd \in Command, d \in Digest : disk' = [disk EXCEPT ![cmd] = d]
  BY DEF Swap
<1>2. UNCHANGED <<file, records, obs, lock, call, mintedRecords, gen, seen>>
  BY DEF Swap
<1>3. disk' \in [Command -> Digest]
  BY <1>1 DEF AgentInv, AgentTypes
<1>4. QED
  BY <1>2, <1>3 DEF AgentInv, AgentTypes, FileNamed, NothingLeftBehind, Registered, Locking, Gated

-----------------------------------------------------------------------------
\* The theorem

LEMMA AgentStart == AgentInit => AgentInv
<1> SUFFICES ASSUME AgentInit PROVE AgentInv
  OBVIOUS
<1>1. Digest # {}
  <2>1. Cardinality({}) = 0
    BY FS_EmptySet
  <2>2. QED
    BY <2>1, AgentConstants
<1>2. disk \in [Command -> Digest] /\ call \in [AgentCaller -> Calling]
      /\ seen \in [AgentCaller -> Sight]
  BY <1>1, IdleCall DEF AgentInit, Sight
<1>3. AgentTypes
  BY <1>2 DEF AgentInit, AgentTypes, Registration, NoReg, NoObs, Observation
<1>4. \A c \in AgentCaller : Locking(c) /\ Gated(c)
  BY IdleCall DEF AgentInit, Locking, Gated
<1>5. QED
  BY <1>3, <1>4 DEF AgentInv, AgentInit, FileNamed, NothingLeftBehind, Registered

LEMMA AgentKeeps == AgentInv /\ [AgentNext]_agentVars => AgentInv'
<1> SUFFICES ASSUME AgentInv, [AgentNext]_agentVars PROVE AgentInv'
  OBVIOUS
<1>1. CASE UNCHANGED agentVars
  BY <1>1 DEF agentVars, AgentInv, AgentTypes, FileNamed, NothingLeftBehind, Registered, Locking,
     Gated
<1>2. CASE Swap
  BY <1>2, Swap_step
<1>3. ASSUME NEW c \in AgentCaller, Mutates(c) PROVE AgentInv'
  BY <1>3, register_step, registration_step, set_enabled_step, record_authentication_step DEF
     Mutates
<1>4. ASSUME NEW c \in AgentCaller, Begins(c) PROVE AgentInv'
  BY <1>4, revoke_trust_step, trust_step, admit_step DEF Begins
<1>5. ASSUME NEW c \in AgentCaller, RemoveAgent(c) PROVE AgentInv'
  BY <1>5, remove_agent_step
<1>6. ASSUME NEW c \in AgentCaller, Continues(c) PROVE AgentInv'
  <2>1. CASE disable(c) \/ verify_executable(c) \/ lock_exclusive(c) \/ grant(c) \/ enable(c)
    BY <2>1, disable_step, verify_executable_step, lock_exclusive_step, grant_step, enable_step
  <2>2. CASE latest_trust_record(c) \/ admitted(c) \/ invalidate(c) \/ prepare_launch(c)
    BY <2>2, latest_trust_record_step, admitted_step, invalidate_step, prepare_launch_step
  <2>3. CASE launched(c) \/ run_health_check(c) \/ record_health(c)
    BY <2>3, launched_step, run_health_check_step, record_health_step
  <2>4. QED
    BY <1>6, <2>1, <2>2, <2>3 DEF Continues
<1>7. QED
  BY <1>1, <1>2, <1>3, <1>4, <1>5, <1>6 DEF AgentNext

\* No step turns a revoked record into anything else.
LEMMA RevokedKept ==
    ASSUME AgentInv, [AgentNext]_agentVars,
           NEW i \in 1 .. Len(records), records[i].state = "revoked", records' # <<>>
    PROVE  records'[i].state = "revoked"
<1>1. records \in Seq(TrustRecord) /\ records # <<>>
  BY DEF AgentInv, AgentTypes
<1>2. CASE UNCHANGED records
  BY <1>2
<1>3. ASSUME NEW c \in AgentCaller, RemoveAgent(c) PROVE records'[i].state = "revoked"
  BY <1>2, <1>3 DEF RemoveAgent, remove_agent
<1>4. ASSUME NEW c \in AgentCaller, revoke_trust(c) PROVE records'[i].state = "revoked"
  <2>1. records' = Restated("revoked")
    BY <1>1, <1>4 DEF revoke_trust
  <2>2. QED
    BY <1>1, <2>1, RestatedType
<1>5. ASSUME NEW c \in AgentCaller, invalidate(c) PROVE records'[i].state = "revoked"
  <2>1. CASE Latest(records).state = "trusted" /\ records' = Restated("invalidated")
    <3>1. i # Len(records)
      BY <1>1, <2>1 DEF Latest
    <3>2. QED
      BY <1>1, <2>1, <3>1, RestatedType
  <2>2. QED
    BY <1>2, <1>5, <2>1 DEF invalidate
<1>6. ASSUME NEW c \in AgentCaller, grant(c) PROVE records'[i].state = "revoked"
  <2>1. CASE Registered /\ UNCHANGED file /\ \E d \in {call[c].digest, disk[file.cmd]} :
                 records' = granted(d, call[c].scope)
    <3>1. call[c].digest \in Digest /\ call[c].scope \in Scope /\ disk[file.cmd] \in Digest
      BY <1>6, <2>1, CallerHas DEF grant, At, Gated, FileNamed
    <3>2. PICK d \in Digest, s \in Scope : records' = granted(d, s)
      BY <2>1, <3>1
    <3>3. records'[i] = records[i]
      BY <1>1, <3>2, GrantedType, CallerHas, <1>6
    <3>4. QED
      BY <3>3
  <2>2. QED
    BY <1>2, <1>6, <2>1 DEF grant
<1>7. \/ UNCHANGED records
      \/ \E c \in AgentCaller : RemoveAgent(c) \/ revoke_trust(c) \/ invalidate(c) \/ grant(c)
  <2>1. ASSUME NEW c \in AgentCaller, Continues(c)
        PROVE  UNCHANGED records \/ invalidate(c) \/ grant(c)
    <3>1. CASE disable(c) \/ verify_executable(c) \/ lock_exclusive(c) \/ enable(c)
               \/ latest_trust_record(c) \/ prepare_launch(c) \/ launched(c)
               \/ run_health_check(c) \/ record_health(c)
      BY <3>1 DEF disable, verify_executable, lock_exclusive, enable, latest_trust_record,
         prepare_launch, launched, run_health_check, record_health
    <3>2. CASE admitted(c)
      BY <3>2, Zenon DEF admitted
    <3>3. QED
      BY <2>1, <3>1, <3>2 DEF Continues
  <2>2. QED
    BY <2>1 DEF AgentNext, Mutates, Begins, Swap, register, update, set_enabled,
       record_authentication, trust, admit, agentVars
<1>8. QED
  BY <1>2, <1>3, <1>4, <1>5, <1>6, <1>7

\* No step takes a sign-in back.
LEMMA SignInStays ==
    ASSUME AgentInv, [AgentNext]_agentVars, obs.auth = "authenticated"
    PROVE  obs'.auth # "required"
<1>1. obs \in Observation
  BY DEF AgentInv, AgentTypes
<1>2. CASE UNCHANGED obs
  BY <1>2
<1>3. ASSUME NEW c \in AgentCaller, RemoveAgent(c) PROVE obs'.auth # "required"
  BY <1>2, <1>3 DEF RemoveAgent, remove_agent, NoObs
<1>4. ASSUME NEW c \in AgentCaller, record_authentication(c) PROVE obs'.auth # "required"
  BY <1>1, <1>4 DEF record_authentication, Observation
<1>5. ASSUME NEW c \in AgentCaller, record_health(c) PROVE obs'.auth # "required"
  BY <1>5, record_health_step
<1>6. \/ UNCHANGED obs
      \/ \E c \in AgentCaller : RemoveAgent(c) \/ record_authentication(c) \/ record_health(c)
  <2>1. ASSUME NEW c \in AgentCaller, Continues(c) PROVE UNCHANGED obs \/ record_health(c)
    <3>1. CASE disable(c) \/ verify_executable(c) \/ lock_exclusive(c) \/ enable(c) \/ grant(c)
               \/ latest_trust_record(c) \/ prepare_launch(c) \/ launched(c) \/ invalidate(c)
               \/ run_health_check(c)
      BY <3>1 DEF disable, verify_executable, lock_exclusive, enable, latest_trust_record, grant,
         prepare_launch, launched, run_health_check, invalidate
    <3>2. CASE admitted(c)
      BY <3>2, Zenon DEF admitted
    <3>3. QED
      BY <2>1, <3>1, <3>2 DEF Continues
  <2>2. QED
    BY <2>1 DEF AgentNext, Mutates, Begins, Swap, register, update, set_enabled,
       revoke_trust, trust, admit, agentVars
<1>7. QED
  BY <1>2, <1>3, <1>4, <1>5, <1>6

LEMMA AgentSays == AgentInv => NothingLeftBehind /\ LaunchedWasGranted
<1> SUFFICES ASSUME AgentInv PROVE NothingLeftBehind /\ LaunchedWasGranted
  OBVIOUS
<1>1. ASSUME NEW c \in AgentCaller, call[c].at \in {"probe", "launched"}
      PROVE  call[c].digest \in seen[c].trusted /\ seen[c].enabled
  BY <1>1 DEF AgentInv, Gated
<1>2. QED
  BY <1>1 DEF AgentInv, LaunchedWasGranted

\* For any callers, executables and scopes, whatever fails between the two
\* stores and whichever stale read a racing call acts on: no grant waits for an
\* identifier nobody registered, a program is run only for a grant that stood
\* during the call, a revocation is final and a sign-in is kept (service.rs
\* remove, revoke_trust, record_health).
THEOREM RegistryIsKept == AgentSpec => RegistryKept
<1>1. AgentInv /\ [AgentNext]_agentVars => AgentInv'
  BY AgentKeeps
<1>2. AgentInv /\ [AgentNext]_agentVars =>
        [\A i \in 1 .. Len(records) : records[i].state = "revoked" /\ records' # <<>> =>
            records'[i].state = "revoked"]_agentVars
  BY RevokedKept
<1>3. AgentInv /\ [AgentNext]_agentVars =>
        [obs.auth = "authenticated" => obs'.auth # "required"]_agentVars
  BY SignInStays
<1>4. AgentSpec => []AgentInv
  BY <1>1, AgentStart, PTL DEF AgentSpec
<1>5. AgentSpec => RevokedIsFinal
  BY <1>2, <1>4, PTL DEF AgentSpec, RevokedIsFinal
<1>6. AgentSpec => SignInKept
  BY <1>3, <1>4, PTL DEF AgentSpec, SignInKept
<1>7. QED
  BY <1>4, <1>5, <1>6, AgentSays, PTL DEF RegistryKept

-----------------------------------------------------------------------------
\* The write side of the store

StoreFile == [name : {"none", "tmp", "final"}, bytes : 0..3, synced : BOOLEAN, entry : BOOLEAN,
              passes : {0, 1}]
CallKind == {"artifact", "json", "append", "batch", "move", "ask", "decide", "resolve",
             "snapshot", "retry"}
CallSubject == Subject \cup ApprovalScope \cup {"none"}
CallTo == {"none", "running", "ended", "granted", "expired"}
AnnouncedEvent == [run : Run, big : BOOLEAN]
CallPlace == {"load", "open", "write", "sync", "rename", "syncdir", "commit", "done"}
StoreCall == [kind : CallKind, subject : CallSubject, to : CallTo, events : Seq(AnnouncedEvent),
              pc : CallPlace, at : 0..2, staging : {"Temporary", "Final", "Released"},
              sealed : SUBSET Artifact,
              read : {"none", "pending", "granted", "expired", "fresh", "running", "ended"}]

LogRow == [kind : CallKind \cup {"retried"}, subject : CallSubject, to : CallTo, call : Call,
           art : Artifact \cup {NoArtifact}]
ApprovalRow == [state : {"pending", "granted", "expired"}, scope : ApprovalScope]

\* A database, its log told truly.
DatabaseType(d) ==
    /\ d.arts \in SUBSET Artifact
    /\ d.runs \in SUBSET Run
    /\ d.state \in [Subject -> {"fresh", "running", "ended"}]
    /\ 0 \in DOMAIN d.approvals
    /\ d.approvals \in [DOMAIN d.approvals -> ApprovalRow]
    /\ d.log \in [Run -> Seq(LogRow)]

SpillsRecorded(d) ==
    \A r \in Run : \A i \in DOMAIN d.log[r] : d.log[r][i].art \in d.arts \cup {NoArtifact}

TrueDatabase(d) ==
    DatabaseType(d) /\ MovesTold(d) /\ AnswerTold(d) /\ RowsTold(d) /\ SpillsRecorded(d)

StoreTypes ==
    /\ files \in [Artifact -> StoreFile]
    /\ storeCalls \in Seq(StoreCall)
    /\ Len(storeCalls) <= MaxStoreCalls
    /\ DOMAIN meddled \in SUBSET Artifact
    /\ stuck \in SUBSET Artifact
    /\ orphaned \in SUBSET Nat

\* A file as sealing leaves it, and as an outsider may have left it since.
SealedWhole(f) ==
    f.name = "final" /\ f.bytes = Full /\ f.synced = TRUE /\ f.entry = TRUE /\ f.passes = 1
Rewritten(f) == f.name = "final" /\ f.bytes = Full + 1 /\ f.synced = TRUE /\ f.entry = TRUE

StandsAs(a) ==
    /\ a \notin DOMAIN meddled => SealedWhole(files[a])
    /\ a \in DOMAIN meddled => \/ meddled[a] = "missing" /\ files[a] = NoFile
                               \/ meddled[a] = "size_mismatch" /\ Rewritten(files[a])

\* A recorded artifact was sealed by a call that is over.
ArtifactsStand(d) ==
    \A a \in d.arts :
       /\ a[1] \in DOMAIN storeCalls
       /\ storeCalls[a[1]].pc = "done"
       /\ a \in storeCalls[a[1]].sealed
       /\ StandsAs(a)

\* How far call c, the k-th, has come, and what of it is in the directory.
Sealing == {"write", "sync", "rename", "syncdir"}

Prepared(k, c) ==
    /\ c.pc = "load" => c.sealed = {}
    /\ c.pc \in {"load", "open"} => c.staging = "Temporary"
    /\ c.pc \in {"open"} \cup Sealing =>
          /\ c.at \in {1, 2}
          /\ \A a \in c.sealed : a[1] = k /\ a[2] < c.at
          /\ \A j \in DOMAIN c.events : c.events[j].big /\ j < c.at => <<k, j>> \in c.sealed
    /\ c.pc = "commit" =>
          /\ \A a \in c.sealed : a[1] = k
          /\ \A j \in DOMAIN c.events : c.events[j].big => <<k, j>> \in c.sealed
    /\ \A a \in c.sealed : a[1] = k

Staged(c, f) ==
    /\ c.pc \in {"write", "sync", "rename"} => f.name = "tmp" /\ c.staging = "Temporary"
    /\ c.pc = "syncdir" => f.name = "final" /\ c.staging = "Final"
    /\ c.pc \in Sealing => f.passes = 1
    /\ c.pc \in {"rename", "syncdir"} => f.bytes = Full /\ f.synced = TRUE

\* Whether an artifact of call c has its place in what c has done.
Owned(k, c, a) ==
    /\ c.pc # "done" /\ a \in c.sealed => SealedWhole(files[a])
    /\ c.pc # "done" /\ files[a].name # "none" =>
          a \in c.sealed \/ (c.pc \in Sealing /\ a = <<k, c.at>>)
    /\ c.pc \in Sealing /\ a = <<k, c.at>> => Staged(c, files[a])
    /\ c.pc = "done" /\ k \notin orphaned /\ files[a].name # "none" => a \in db.arts \cup stuck

AsRequested(k, c) ==
    \E q \in Requests(k) : c.kind = q.kind /\ c.subject = q.subject /\ c.to = q.to
                           /\ c.events = q.events

CallsTold ==
    /\ \A k \in DOMAIN storeCalls :
          AsRequested(k, storeCalls[k]) /\ Prepared(k, storeCalls[k])
    /\ \A a \in Artifact :
          /\ a[1] \in DOMAIN storeCalls => Owned(a[1], storeCalls[a[1]], a)
          /\ a[1] \notin DOMAIN storeCalls => files[a].name = "none"
    /\ \A a \in DOMAIN meddled :
          a[1] \in DOMAIN storeCalls /\ storeCalls[a[1]].pc = "done"

StoreInv ==
    /\ StoreTypes
    /\ CallsTold
    /\ db \in survivors
    /\ \A d \in survivors : TrueDatabase(d) /\ ArtifactsStand(d)

-----------------------------------------------------------------------------
\* What a call asks for, and how it prepares its events

One(c) == \E b \in BOOLEAN : c.events = <<Ev(0, b)>>
Two(c) == \E b \in BOOLEAN : c.events = <<Ev(0, TRUE), Ev(0, b)>>
Retried(k, c) == \E b \in BOOLEAN : c.events = <<Ev(k, FALSE), Ev(0, b)>>

Asked(k, c) ==
    \/ c.kind \in {"artifact", "json"} /\ c.events = <<>>
    \/ c.kind = "append" /\ One(c)
    \/ c.kind = "batch" /\ Two(c)
    \/ c.kind = "move" /\ c.subject \in Subject /\ c.to \in {"running", "ended"} /\ One(c)
    \/ c.kind \in {"ask", "snapshot"} /\ One(c)
    \/ c.kind = "decide" /\ c.subject \in ApprovalScope /\ c.to = "granted" /\ One(c)
    \/ c.kind = "resolve" /\ c.to = "expired" /\ One(c)
    \/ c.kind = "retry" /\ Retried(k, c)

Plain(q) == q = NewCall(q.kind, q.subject, q.to, q.events)

LEMMA PlainCall ==
    ASSUME NEW kind \in CallKind, NEW subject \in CallSubject, NEW to \in CallTo, NEW events,
           NEW q, q = NewCall(kind, subject, to, events)
    PROVE  /\ Plain(q)
           /\ q.kind = kind /\ q.subject = subject /\ q.to = to /\ q.events = events
           /\ q.pc = "load" /\ q.sealed = {} /\ q.staging = "Temporary"
           /\ events \in Seq(AnnouncedEvent) => q \in StoreCall
  BY DEF Plain, NewCall, StoreCall, CallPlace

\* The requests, one kind after another.
LEMMA RequestIs ==
    ASSUME NEW k, NEW q \in Requests(k)
    PROVE  \E kind \in CallKind, subject \in CallSubject, to \in CallTo : \E events :
              q = NewCall(kind, subject, to, events) /\ Asked(k, q)
<1> USE DEF CallKind, CallSubject, CallTo
<1> DEFINE A1 == {NewCall(kind, "none", "none", <<>>) : kind \in {"artifact", "json"}}
           A2 == {NewCall("append", "none", "none", <<Ev(0, TRUE)>>)}
           A3 == {NewCall("batch", "none", "none", <<Ev(0, TRUE), Ev(0, b)>>) : b \in BOOLEAN}
           A4 == {NewCall("move", subject, to, <<Ev(0, subject = "tool_call")>>) :
             subject \in Subject, to \in {"running", "ended"}}
           A5 == {NewCall("ask", "none", "none", <<Ev(0, FALSE)>>)}
           A6 == {NewCall("decide", scope, "granted", <<Ev(0, b)>>) :
                     scope \in ApprovalScope, b \in BOOLEAN}
           A7 == {NewCall("resolve", "none", "expired", <<Ev(0, FALSE)>>)}
           A8 == {NewCall("snapshot", "none", "none", <<Ev(0, FALSE)>>)}
           A9 == {NewCall("retry", "none", "none", <<Ev(k, FALSE), Ev(0, b)>>) : b \in BOOLEAN}
<1>1. CASE q \in A1
  <2>1. PICK kind \in {"artifact", "json"} : q = NewCall(kind, "none", "none", <<>>)
    BY <1>1
  <2>2. q.kind = kind /\ q.subject = "none" /\ q.to = "none" /\ q.events = <<>>
    BY <2>1 DEF NewCall
  <2>3. Asked(k, q)
    BY <2>2 DEF Asked
  <2> QED BY <2>1, <2>3
<1>2. CASE q \in A2
  <2>1. PICK b \in {TRUE} : q = NewCall("append", "none", "none", <<Ev(0, b)>>)
    BY <1>2
  <2>2. q.kind = "append" /\ q.subject = "none" /\ q.to = "none" /\ q.events = <<Ev(0, b)>>
    BY <2>1 DEF NewCall
  <2>3. Asked(k, q)
    BY <2>2 DEF Asked, One
  <2> QED BY <2>1, <2>3
<1>3. CASE q \in A3
  <2>1. PICK b \in BOOLEAN : q = NewCall("batch", "none", "none", <<Ev(0, TRUE), Ev(0, b)>>)
    BY <1>3
  <2>2. q.kind = "batch" /\ q.subject = "none" /\ q.to = "none"
        /\ q.events = <<Ev(0, TRUE), Ev(0, b)>>
    BY <2>1 DEF NewCall
  <2>3. Asked(k, q)
    BY <2>2 DEF Asked, Two
  <2> QED BY <2>1, <2>3
<1>4. CASE q \in A4
  <2>0. PICK subject \in Subject, to \in {"running", "ended"} :
           q = NewCall("move", subject, to, <<Ev(0, subject = "tool_call")>>)
    BY <1>4
  <2>1. PICK b \in BOOLEAN : q = NewCall("move", subject, to, <<Ev(0, b)>>)
    <3>1. (subject = "tool_call") \in BOOLEAN
      OBVIOUS
    <3> QED BY <2>0, <3>1
  <2>2. q.kind = "move" /\ q.subject = subject /\ q.to = to /\ q.events = <<Ev(0, b)>>
    BY <2>1 DEF NewCall
  <2>3. Asked(k, q)
    BY <2>2 DEF Asked, One
  <2> QED BY <2>1, <2>3
<1>5. CASE q \in A5
  <2>1. PICK b \in {FALSE} : q = NewCall("ask", "none", "none", <<Ev(0, b)>>)
    BY <1>5
  <2>2. q.kind = "ask" /\ q.subject = "none" /\ q.to = "none" /\ q.events = <<Ev(0, b)>>
    BY <2>1 DEF NewCall
  <2>3. Asked(k, q)
    BY <2>2 DEF Asked, One
  <2> QED BY <2>1, <2>3
<1>6. CASE q \in A6
  <2>1. PICK scope \in ApprovalScope, b \in BOOLEAN :
           q = NewCall("decide", scope, "granted", <<Ev(0, b)>>)
    BY <1>6
  <2>2. q.kind = "decide" /\ q.subject = scope /\ q.to = "granted" /\ q.events = <<Ev(0, b)>>
    BY <2>1 DEF NewCall
  <2>3. Asked(k, q)
    BY <2>2 DEF Asked, One
  <2> QED BY <2>1, <2>3
<1>7. CASE q \in A7
  <2>1. PICK b \in {FALSE} : q = NewCall("resolve", "none", "expired", <<Ev(0, b)>>)
    BY <1>7
  <2>2. q.kind = "resolve" /\ q.subject = "none" /\ q.to = "expired" /\ q.events = <<Ev(0, b)>>
    BY <2>1 DEF NewCall
  <2>3. Asked(k, q)
    BY <2>2 DEF Asked, One
  <2> QED BY <2>1, <2>3
<1>8. CASE q \in A8
  <2>1. PICK b \in {FALSE} : q = NewCall("snapshot", "none", "none", <<Ev(0, b)>>)
    BY <1>8
  <2>2. q.kind = "snapshot" /\ q.subject = "none" /\ q.to = "none" /\ q.events = <<Ev(0, b)>>
    BY <2>1 DEF NewCall
  <2>3. Asked(k, q)
    BY <2>2 DEF Asked, One
  <2> QED BY <2>1, <2>3
<1>9. CASE q \in A9
  <2>1. PICK b \in BOOLEAN : q = NewCall("retry", "none", "none", <<Ev(k, FALSE), Ev(0, b)>>)
    BY <1>9
  <2>2. q.kind = "retry" /\ q.subject = "none" /\ q.to = "none"
        /\ q.events = <<Ev(k, FALSE), Ev(0, b)>>
    BY <2>1 DEF NewCall
  <2>3. Asked(k, q)
    BY <2>2 DEF Asked, Retried
  <2> QED BY <2>1, <2>3
<1>10. Requests(k) = A1 \cup A2 \cup A3 \cup A4 \cup A5 \cup A6 \cup A7 \cup A8 \cup A9
  BY ONLY DEF Requests
<1> HIDE DEF A1, A2, A3, A4, A5, A6, A7, A8, A9
<1>11. \/ q \in A1 \/ q \in A2 \/ q \in A3 \/ q \in A4 \/ q \in A5
       \/ q \in A6 \/ q \in A7 \/ q \in A8 \/ q \in A9
  BY <1>10
<1> QED BY <1>1, <1>2, <1>3, <1>4, <1>5, <1>6, <1>7, <1>8, <1>9, <1>11

LEMMA AskedOf ==
    ASSUME NEW k, NEW c, AsRequested(k, c)
    PROVE  Asked(k, c)
<1>1. PICK q \in Requests(k) : c.kind = q.kind /\ c.subject = q.subject /\ c.to = q.to
                               /\ c.events = q.events
  BY DEF AsRequested
<1>2. Asked(k, q)
  BY RequestIs
<1> QED BY <1>1, <1>2 DEF Asked, One, Two, Retried

LEMMA EventsTyped ==
    ASSUME NEW k \in Call, NEW c, Asked(k, c)
    PROVE  /\ c.events \in Seq(AnnouncedEvent)
           /\ Len(c.events) <= 2
           /\ Streamed(c) => c.events = <<>>
<1> USE StoreConstants DEF Call
<1>1. CASE c.kind \in {"artifact", "json"} /\ c.events = <<>>
  BY <1>1 DEF Streamed
<1>2. CASE One(c) /\ ~Streamed(c)
  BY <1>2 DEF One, Ev, AnnouncedEvent, Run
<1>3. CASE Two(c) /\ ~Streamed(c)
  BY <1>3 DEF Two, Ev, AnnouncedEvent, Run
<1>4. CASE Retried(k, c) /\ ~Streamed(c)
  BY <1>4 DEF Retried, Ev, AnnouncedEvent, Run
<1> QED BY <1>1, <1>2, <1>3, <1>4 DEF Asked, Streamed

LEMMA RequestTyped ==
    ASSUME NEW k \in Call, NEW c \in Requests(k)
    PROVE  /\ c \in StoreCall
           /\ c.pc = "load" /\ c.sealed = {} /\ c.staging = "Temporary"
           /\ AsRequested(k, c)
<1>1. AsRequested(k, c)
  BY DEF AsRequested
<1>2. c.events \in Seq(AnnouncedEvent)
  BY <1>1, AskedOf, EventsTyped
<1> QED BY <1>2, <1>1, RequestIs, PlainCall

LEMMA LeastIs ==
    ASSUME NEW S, S \subseteq {1, 2}, S # {}
    PROVE  Least(S) \in S /\ \A y \in S : Least(S) <= y
<1>1. \E x \in S : \A y \in S : x <= y
  <2>1. CASE 1 \in S
    BY <2>1
  <2>2. CASE 1 \notin S
    <3>1. 2 \in S
      BY <2>2
    <3> QED BY <2>2, <3>1
  <2> QED BY <2>1, <2>2
<1> QED BY <1>1 DEF Least

\* prepare_event goes to the next event that overflows, or to the transaction.
LEMMA PreparedOn ==
    ASSUME NEW k \in Call, NEW c \in StoreCall, Asked(k, c), NEW i \in 1..3, NEW n,
           n = prepare_event(c, i),
           \A a \in c.sealed : a[1] = k /\ a[2] < i,
           \A j \in DOMAIN c.events : c.events[j].big /\ j < i => <<k, j>> \in c.sealed
    PROVE  /\ n \in StoreCall
           /\ Prepared(k, n)
           /\ n.pc \in {"open", "commit"}
           /\ n.kind = c.kind /\ n.subject = c.subject /\ n.to = c.to
           /\ n.events = c.events /\ n.sealed = c.sealed
<1>1. Len(c.events) <= 2 /\ c.events \in Seq(AnnouncedEvent) /\ DOMAIN c.events = 1..Len(c.events)
      /\ Len(c.events) \in Nat
  BY EventsTyped
<1>2. Spills(c, i) \subseteq {1, 2}
  BY <1>1 DEF Spills
<1>3. CASE Spills(c, i) = {}
  <2>1. n = [c EXCEPT !.pc = "commit"]
    BY <1>3 DEF prepare_event
  <2>2. n \in StoreCall /\ n.pc = "commit" /\ n.kind = c.kind /\ n.subject = c.subject
        /\ n.to = c.to /\ n.events = c.events /\ n.sealed = c.sealed
    BY <2>1 DEF StoreCall, CallPlace
  <2>3. \A j \in DOMAIN c.events : c.events[j].big => j < i
    BY <1>1, <1>3 DEF Spills
  <2> QED BY <2>2, <2>3 DEF Prepared, Sealing
<1>4. CASE Spills(c, i) # {}
  <2> DEFINE l == Least(Spills(c, i))
  <2>1. l \in Spills(c, i) /\ \A y \in Spills(c, i) : l <= y
    BY <1>2, <1>4, LeastIs
  <2>2. l \in {1, 2} /\ i <= l
    BY ONLY <2>1, <1>1, <1>2, i \in 1..3 DEF Spills
  <2> HIDE DEF l
  <2>3. n = [c EXCEPT !.pc = "open", !.at = l, !.staging = "Temporary"]
    BY <1>4 DEF prepare_event, l
  <2>7. n \in StoreCall
    <3>1. l \in 0..2
      BY <2>2
    <3>2. PICK m : m = [c EXCEPT !.pc = "open", !.at = l]
      OBVIOUS
    <3>3. m \in StoreCall
      BY ONLY <3>1, <3>2, c \in StoreCall DEF StoreCall, CallPlace
    <3>4. n = [m EXCEPT !.staging = "Temporary"]
      BY <2>3, <3>2
    <3> QED BY ONLY <3>3, <3>4 DEF StoreCall
  <2>4. n \in StoreCall /\ n.pc = "open" /\ n.at = l /\ n.staging = "Temporary" /\ n.kind = c.kind
        /\ n.subject = c.subject
        /\ n.to = c.to /\ n.events = c.events /\ n.sealed = c.sealed
    BY ONLY <2>7, <2>3, c \in StoreCall DEF StoreCall
  <2>5. \A j \in DOMAIN c.events : c.events[j].big /\ j < l => j < i
    BY <1>1, <2>1, <2>2 DEF Spills
  <2>6. \A a \in c.sealed : a[1] = k /\ a[2] < l
    <3>1. c.sealed \subseteq Artifact
      BY DEF StoreCall
    <3> QED BY <2>2, <3>1 DEF Artifact
  <2> QED BY <2>2, <2>4, <2>5, <2>6 DEF Prepared, Sealing
<1> QED BY <1>3, <1>4

-----------------------------------------------------------------------------
\* A step of one call

LEMMA CallOf ==
    ASSUME StoreInv, NEW k \in DOMAIN storeCalls
    PROVE  /\ k \in Call
           /\ storeCalls[k] \in StoreCall
           /\ Asked(k, storeCalls[k])
           /\ Prepared(k, storeCalls[k])
           /\ \A a \in Artifact : a[1] = k => Owned(k, storeCalls[k], a)
<1>1. storeCalls \in Seq(StoreCall) /\ Len(storeCalls) <= MaxStoreCalls
  BY DEF StoreInv, StoreTypes
<1>2. k \in 1..Len(storeCalls) /\ storeCalls[k] \in StoreCall /\ Len(storeCalls) \in Nat
  BY <1>1
<1>3. k \in Call
  BY <1>1, <1>2, StoreConstants DEF Call
<1>4. AsRequested(k, storeCalls[k]) /\ Prepared(k, storeCalls[k])
  BY DEF StoreInv, CallsTold
<1>5. \A a \in Artifact : a[1] = k => Owned(k, storeCalls[k], a)
  BY DEF StoreInv, CallsTold
<1> QED BY <1>2, <1>3, <1>4, <1>5, AskedOf

\* Nothing but one call and its own files changes.
LEMMA CallMoves ==
    ASSUME StoreInv, NEW k \in DOMAIN storeCalls, storeCalls[k].pc # "done",
           NEW n \in StoreCall, storeCalls' = [storeCalls EXCEPT ![k] = n],
           AsRequested(k, n), Prepared(k, n),
           files' \in [Artifact -> StoreFile],
           \A a \in Artifact : a[1] # k => files'[a] = files[a],
           \A a \in Artifact : a[1] = k => Owned(k, n, a)',
           stuck' \in SUBSET Artifact, stuck \subseteq stuck',
           UNCHANGED <<db, survivors, meddled, orphaned>>
    PROVE  StoreInv'
<1>1. /\ storeCalls' \in Seq(StoreCall) /\ Len(storeCalls') = Len(storeCalls)
      /\ DOMAIN storeCalls' = DOMAIN storeCalls
      /\ storeCalls'[k] = n
      /\ \A j \in DOMAIN storeCalls : j # k => storeCalls'[j] = storeCalls[j]
  BY DEF StoreInv, StoreTypes
<1>2. StoreTypes'
  BY <1>1 DEF StoreInv, StoreTypes
<1>3. ASSUME NEW a \in Artifact
      PROVE  /\ a[1] \in DOMAIN storeCalls' => Owned(a[1], storeCalls[a[1]], a)'
             /\ a[1] \notin DOMAIN storeCalls' => files'[a].name = "none"
  <2>1. CASE a[1] = k
    BY <1>1, <2>1 DEF Owned
  <2>2. CASE a[1] # k
    <3>1. a[1] \in DOMAIN storeCalls => Owned(a[1], storeCalls[a[1]], a)
      BY DEF StoreInv, CallsTold
    <3>2. files'[a] = files[a]
      BY <2>2
    <3>3. a[1] \in DOMAIN storeCalls => Owned(a[1], storeCalls[a[1]], a)'
      BY <3>1, <3>2, <1>1, <2>2 DEF Owned
    <3>4. a[1] \notin DOMAIN storeCalls => files[a].name = "none"
      BY DEF StoreInv, CallsTold
    <3> QED BY <1>1, <2>2, <3>2, <3>3, <3>4 DEF Owned
  <2> QED BY <2>1, <2>2
<1>4. CallsTold'
  <2>1. ASSUME NEW j \in DOMAIN storeCalls'
        PROVE  AsRequested(j, storeCalls'[j]) /\ Prepared(j, storeCalls'[j])
    BY <1>1 DEF StoreInv, CallsTold
  <2>2. ASSUME NEW a \in DOMAIN meddled'
        PROVE  a[1] \in DOMAIN storeCalls' /\ storeCalls'[a[1]].pc = "done"
    BY <1>1 DEF StoreInv, CallsTold
  <2> QED BY <1>3, <2>1, <2>2 DEF CallsTold
<1>5. ASSUME NEW d \in survivors PROVE ArtifactsStand(d)'
  <2>1. ASSUME NEW a \in d.arts
        PROVE  /\ a[1] \in DOMAIN storeCalls' /\ storeCalls'[a[1]].pc = "done"
               /\ a \in storeCalls'[a[1]].sealed /\ StandsAs(a)'
    <3>1. /\ a[1] \in DOMAIN storeCalls /\ storeCalls[a[1]].pc = "done"
          /\ a \in storeCalls[a[1]].sealed /\ StandsAs(a)
      BY DEF StoreInv, ArtifactsStand
    <3>2. a[1] # k /\ a \in Artifact
      BY <3>1 DEF StoreInv, TrueDatabase, DatabaseType
    <3>3. files'[a] = files[a]
      BY <3>2
    <3> QED BY <1>1, <3>1, <3>2, <3>3 DEF StandsAs
  <2> QED BY <2>1 DEF ArtifactsStand
<1> QED BY <1>2, <1>4, <1>5 DEF StoreInv

LEMMA SameRequest ==
    ASSUME NEW k, NEW c, NEW n, AsRequested(k, c), n.kind = c.kind, n.subject = c.subject,
           n.to = c.to, n.events = c.events
    PROVE  AsRequested(k, n)
  BY DEF AsRequested

LEMMA ReadTyped ==
    ASSUME StoreInv, NEW k \in DOMAIN storeCalls
    PROVE  Read(k) \in {"none", "pending", "granted", "expired", "fresh", "running", "ended"}
<1>1. db.state \in [Subject -> {"fresh", "running", "ended"}]
      /\ 0 \in DOMAIN db.approvals /\ db.approvals[0] \in ApprovalRow
  BY DEF StoreInv, TrueDatabase, DatabaseType
<1>2. db.approvals[0].state \in {"pending", "granted", "expired"}
  BY <1>1 DEF ApprovalRow
<1>3. storeCalls[k].kind = "move" => storeCalls[k].subject \in Subject
  BY CallOf DEF Asked
<1>4. CASE storeCalls[k].kind \in {"decide", "resolve"}
  BY <1>2, <1>4 DEF Read
<1>5. CASE storeCalls[k].kind = "move"
  BY <1>1, <1>3, <1>5 DEF Read
<1>6. CASE storeCalls[k].kind \notin {"decide", "resolve", "move"}
  BY <1>6 DEF Read
<1> QED BY <1>4, <1>5, <1>6

LEMMA load_step ==
    ASSUME StoreInv, NEW k \in DOMAIN storeCalls, load(k)
    PROVE  StoreInv'
<1>1. PICK c : c = storeCalls[k]
  OBVIOUS
<1>2. /\ k \in Call /\ c \in StoreCall /\ Asked(k, c) /\ Prepared(k, c)
      /\ \A a \in Artifact : a[1] = k => Owned(k, c, a)
      /\ AsRequested(k, c) /\ c.pc = "load" /\ c.sealed = {} /\ c.staging = "Temporary"
  BY <1>1, CallOf DEF load, StoreInv, CallsTold, Prepared
<1>3. PICK standing \in {"none", "pending", "granted", "expired", "fresh", "running", "ended"} :
         standing = Read(k)
  BY ReadTyped
<1>4. PICK r : r = [c EXCEPT !.read = standing]
  OBVIOUS
<1>5. r \in StoreCall /\ r.kind = c.kind /\ r.subject = c.subject /\ r.to = c.to
      /\ r.events = c.events /\ r.sealed = {}
  BY ONLY <1>2, <1>3, <1>4 DEF StoreCall
<1>6. Asked(k, r)
  BY <1>2, <1>5 DEF Asked, One, Two, Retried
<1>7. PICK n : n = IF Streamed(c) THEN [c EXCEPT !.pc = "open", !.at = 1]
                   ELSE prepare_event(r, 1)
  OBVIOUS
<1>8. storeCalls' = [storeCalls EXCEPT ![k] = n]
  BY <1>1, <1>3, <1>4, <1>7 DEF load
<1>9. /\ n \in StoreCall /\ Prepared(k, n) /\ n.pc \in {"open", "commit"} /\ n.sealed = {}
      /\ n.kind = c.kind /\ n.subject = c.subject /\ n.to = c.to /\ n.events = c.events
  <2>1. CASE Streamed(c)
    <3>1. n = [c EXCEPT !.pc = "open", !.at = 1]
      BY <1>7, <2>1
    <3>2. n \in StoreCall
      <4>1. PICK m : m = [c EXCEPT !.pc = "open"]
        OBVIOUS
      <4>2. m \in StoreCall
        BY ONLY <4>1, <1>2 DEF StoreCall, CallPlace
      <4>3. 1 \in 0..2 /\ n = [m EXCEPT !.at = 1]
        BY <3>1, <4>1
      <4> QED BY ONLY <4>2, <4>3 DEF StoreCall
    <3>3. n.pc = "open" /\ n.at = 1 /\ n.staging = "Temporary" /\ n.sealed = {} /\ n.kind = c.kind
          /\ n.subject = c.subject /\ n.to = c.to /\ n.events = c.events
      BY ONLY <3>1, <1>2 DEF StoreCall
    <3>4. n.events = <<>>
      BY <1>2, <2>1, <3>3, EventsTyped
    <3> QED BY <3>2, <3>3, <3>4 DEF Prepared
  <2>2. CASE ~Streamed(c)
    <3>1. n = prepare_event(r, 1)
      BY <1>7, <2>2
    <3>2. \A j \in DOMAIN r.events : r.events[j].big /\ j < 1 => <<k, j>> \in r.sealed
      <4>1. DOMAIN r.events = 1..Len(r.events)
        BY <1>2, <1>6, EventsTyped
      <4> QED BY <4>1
    <3> QED BY <1>2, <1>5, <1>6, <3>1, <3>2, PreparedOn
  <2> QED BY <2>1, <2>2
<1>10. AsRequested(k, n)
  BY <1>2, <1>9, SameRequest
<1>11. ASSUME NEW a \in Artifact, a[1] = k PROVE Owned(k, n, a)'
  <2>1. Owned(k, c, a) /\ files' = files
    BY <1>2, <1>11 DEF load
  <2> QED BY <1>2, <1>9, <2>1 DEF Owned, Sealing
<1> QED
  BY <1>1, <1>2, <1>8, <1>9, <1>10, <1>11, CallMoves DEF load, StoreInv, StoreTypes

\* The artifact a call works on, and that nothing it sealed is.
LEMMA CurrentIs ==
    ASSUME NEW k \in Call, NEW c \in StoreCall, Prepared(k, c), c.pc \in {"open"} \cup Sealing
    PROVE  /\ c.at \in {1, 2}
           /\ <<k, c.at>> \in Artifact /\ <<k, c.at>>[1] = k /\ <<k, c.at>>[2] = c.at
           /\ <<k, c.at>> \notin c.sealed
<1>1. c.at \in {1, 2} /\ \A a \in c.sealed : a[1] = k /\ a[2] < c.at
  BY DEF Prepared
<1>2. <<k, c.at>> \in Artifact
  BY <1>1 DEF Artifact
<1>3. <<k, c.at>> \notin c.sealed
  <2>1. <<k, c.at>>[2] = c.at /\ ~(c.at < c.at)
    BY <1>1
  <2> QED BY <1>1, <2>1
<1> QED BY <1>1, <1>2, <1>3

SetsFile(a, f, k, n) ==
    /\ files' = [files EXCEPT ![a] = f]
    /\ storeCalls' = [storeCalls EXCEPT ![k] = n]
    /\ UNCHANGED <<db, survivors, meddled, stuck, orphaned>>

\* A step of sealing: the file of the artifact under way, and nothing else.
LEMMA FileMoves ==
    ASSUME StoreInv, NEW k \in DOMAIN storeCalls, NEW c, c = storeCalls[k],
           c.pc \in {"open"} \cup Sealing,
           NEW n \in StoreCall, n.at = c.at, n.sealed = c.sealed, n.pc \in Sealing,
           n.kind = c.kind, n.subject = c.subject, n.to = c.to, n.events = c.events,
           NEW f \in StoreFile, Staged(n, f),
           SetsFile(<<k, c.at>>, f, k, n)
    PROVE  StoreInv'
<1>1. /\ k \in Call /\ c \in StoreCall /\ Asked(k, c) /\ Prepared(k, c)
      /\ \A a \in Artifact : a[1] = k => Owned(k, c, a)
      /\ AsRequested(k, c)
  BY CallOf DEF StoreInv, CallsTold
<1>2. PICK cur : cur = <<k, c.at>>
  OBVIOUS
<1>3. c.at \in {1, 2} /\ cur \in Artifact /\ cur[1] = k /\ cur \notin c.sealed
  BY <1>1, <1>2, CurrentIs
<1>4. files \in [Artifact -> StoreFile]
  BY DEF StoreInv, StoreTypes
<1>5. /\ files' \in [Artifact -> StoreFile] /\ files'[cur] = f
      /\ \A a \in Artifact : a # cur => files'[a] = files[a]
  BY <1>2, <1>3, <1>4 DEF SetsFile
<1>6. AsRequested(k, n)
  BY <1>1, SameRequest
<1>7. Prepared(k, n)
  BY <1>1 DEF Prepared, Sealing
<1>8. ASSUME NEW a \in Artifact, a[1] = k PROVE Owned(k, n, a)'
  <2>1. Owned(k, c, a) /\ c.pc # "done" /\ n.pc # "done"
    BY <1>1, <1>8 DEF Sealing
  <2>2. CASE a = cur
    BY <1>2, <1>3, <1>5, <2>1, <2>2 DEF Owned, SetsFile
  <2>3. CASE a # cur
    BY <1>2, <1>5, <2>1, <2>3 DEF Owned, SetsFile
  <2> QED BY <2>2, <2>3
<1>9. \A a \in Artifact : a[1] # k => files'[a] = files[a]
  BY <1>3, <1>5
<1>10. storeCalls[k].pc # "done" /\ stuck' \in SUBSET Artifact /\ stuck \subseteq stuck'
  BY DEF StoreInv, StoreTypes, Sealing, SetsFile
<1> QED BY <1>5, <1>6, <1>7, <1>8, <1>9, <1>10, CallMoves DEF SetsFile

\* What every step of the sealing begins with.
LEMMA SealingStep ==
    ASSUME StoreInv, NEW k \in DOMAIN storeCalls, storeCalls[k].pc \in {"open"} \cup Sealing
    PROVE  /\ k \in Call /\ storeCalls[k] \in StoreCall
           /\ storeCalls[k].at \in {1, 2}
           /\ <<k, storeCalls[k].at>> \in Artifact
           /\ files \in [Artifact -> StoreFile]
           /\ files[<<k, storeCalls[k].at>>] \in StoreFile
           /\ storeCalls[k].pc \in Sealing => Staged(storeCalls[k], files[<<k, storeCalls[k].at>>])
<1>1. k \in Call /\ storeCalls[k] \in StoreCall /\ Prepared(k, storeCalls[k])
      /\ \A a \in Artifact : a[1] = k => Owned(k, storeCalls[k], a)
  BY CallOf
<1>2. /\ storeCalls[k].at \in {1, 2} /\ <<k, storeCalls[k].at>> \in Artifact
      /\ <<k, storeCalls[k].at>>[1] = k
  BY <1>1, CurrentIs
<1>3. files \in [Artifact -> StoreFile]
  BY DEF StoreInv, StoreTypes
<1>4. Owned(k, storeCalls[k], <<k, storeCalls[k].at>>)
  BY <1>1, <1>2
<1>5. storeCalls[k].pc \in Sealing => Staged(storeCalls[k], files[<<k, storeCalls[k].at>>])
  BY <1>4 DEF Owned
<1> QED BY <1>1, <1>2, <1>3, <1>5

LEMMA Placed ==
    ASSUME NEW c \in StoreCall, NEW pc \in CallPlace, NEW n, n = [c EXCEPT !.pc = pc]
    PROVE  /\ n \in StoreCall /\ n.pc = pc
           /\ n.kind = c.kind /\ n.subject = c.subject /\ n.to = c.to /\ n.events = c.events
           /\ n.at = c.at /\ n.staging = c.staging /\ n.sealed = c.sealed /\ n.read = c.read
  BY DEF StoreCall

LEMMA open_step ==
    ASSUME StoreInv, NEW k \in DOMAIN storeCalls, open(k)
    PROVE  StoreInv'
<1>1. PICK c : c = storeCalls[k]
  OBVIOUS
<1>2. c.pc = "open" /\ c \in StoreCall /\ Prepared(k, c) /\ k \in Call
  BY <1>1, CallOf DEF open
<1>3. PICK n : n = [c EXCEPT !.pc = "write"]
  OBVIOUS
<1>4. /\ n \in StoreCall /\ n.pc = "write" /\ n.at = c.at /\ n.sealed = c.sealed
      /\ n.kind = c.kind /\ n.subject = c.subject /\ n.to = c.to /\ n.events = c.events
      /\ n.staging = c.staging
  BY <1>2, <1>3, Placed DEF CallPlace
<1>5. PICK f : f = [NoFile EXCEPT !.name = "tmp", !.passes = redact_payload(c) + wrap_stream(c)]
  OBVIOUS
<1>6. redact_payload(c) + wrap_stream(c) = 1
  BY DEF redact_payload, wrap_stream
<1>7. f \in StoreFile /\ f.name = "tmp" /\ f.passes = 1
  <2>1. f = [name |-> "tmp", bytes |-> 0, synced |-> FALSE, entry |-> FALSE, passes |-> 1]
    BY <1>5, <1>6 DEF NoFile
  <2> QED BY <2>1 DEF StoreFile
<1>8. c.staging = "Temporary"
  BY <1>2 DEF Prepared
<1>9. Staged(n, f)
  BY <1>4, <1>7, <1>8 DEF Staged
<1>10. SetsFile(<<k, c.at>>, f, k, n)
  BY <1>1, <1>3, <1>5 DEF open, CurrentFile, SetsFile
<1> QED BY <1>1, <1>2, <1>4, <1>7, <1>9, <1>10, FileMoves DEF Sealing

LEMMA write_step ==
    ASSUME StoreInv, NEW k \in DOMAIN storeCalls, write(k)
    PROVE  StoreInv'
<1>1. PICK c : c = storeCalls[k]
  OBVIOUS
<1>2. c.pc = "write"
  BY <1>1 DEF write
<1>3. PICK g : g = files[<<k, c.at>>]
  OBVIOUS
<1>4. c \in StoreCall /\ g \in StoreFile /\ Staged(c, g) /\ files \in [Artifact -> StoreFile]
      /\ <<k, c.at>> \in Artifact
  BY <1>1, <1>2, <1>3, SealingStep DEF Sealing
<1>5. PICK n : n = [c EXCEPT !.pc = "sync"]
  OBVIOUS
<1>6. /\ n \in StoreCall /\ n.pc = "sync" /\ n.at = c.at /\ n.sealed = c.sealed
      /\ n.kind = c.kind /\ n.subject = c.subject /\ n.to = c.to /\ n.events = c.events
      /\ n.staging = c.staging
  BY <1>4, <1>5, Placed DEF CallPlace
<1>7. PICK f : f = [g EXCEPT !.bytes = 1]
  OBVIOUS
<1>8. f \in StoreFile /\ f.name = g.name /\ f.passes = g.passes
  BY <1>4, <1>7 DEF StoreFile
<1>9. Staged(n, f)
  BY <1>2, <1>4, <1>6, <1>8 DEF Staged, Sealing
<1>10. SetsFile(<<k, c.at>>, f, k, n)
  BY <1>1, <1>3, <1>5, <1>7 DEF write, CurrentFile, SetsFile
<1> QED BY <1>1, <1>2, <1>6, <1>8, <1>9, <1>10, FileMoves DEF Sealing

LEMMA flush_and_sync_step ==
    ASSUME StoreInv, NEW k \in DOMAIN storeCalls, flush_and_sync(k)
    PROVE  StoreInv'
<1>1. PICK c : c = storeCalls[k]
  OBVIOUS
<1>2. c.pc = "sync"
  BY <1>1 DEF flush_and_sync
<1>3. PICK g : g = files[<<k, c.at>>]
  OBVIOUS
<1>4. c \in StoreCall /\ g \in StoreFile /\ Staged(c, g) /\ files \in [Artifact -> StoreFile]
      /\ <<k, c.at>> \in Artifact
  BY <1>1, <1>2, <1>3, SealingStep DEF Sealing
<1>5. PICK n : n = [c EXCEPT !.pc = "rename"]
  OBVIOUS
<1>6. /\ n \in StoreCall /\ n.pc = "rename" /\ n.at = c.at /\ n.sealed = c.sealed
      /\ n.kind = c.kind /\ n.subject = c.subject /\ n.to = c.to /\ n.events = c.events
      /\ n.staging = c.staging
  BY <1>4, <1>5, Placed DEF CallPlace
<1>7. PICK f : f = [[g EXCEPT !.bytes = Full] EXCEPT !.synced = TRUE]
  OBVIOUS
<1>8. f \in StoreFile /\ f.name = g.name /\ f.passes = g.passes /\ f.bytes = Full
      /\ f.synced = TRUE
  <2>1. PICK h : h = [g EXCEPT !.bytes = Full]
    OBVIOUS
  <2>2. h \in StoreFile /\ h.name = g.name /\ h.passes = g.passes /\ h.bytes = Full
    <3>1. Full \in 0..3
      BY DEF Full
    <3> QED BY <1>4, <2>1, <3>1 DEF StoreFile
  <2>3. f = [h EXCEPT !.synced = TRUE]
    BY <1>7, <2>1
  <2> QED BY <2>2, <2>3 DEF StoreFile
<1>9. Staged(n, f)
  BY <1>2, <1>4, <1>6, <1>8 DEF Staged, Sealing
<1>10. storeCalls' = [storeCalls EXCEPT ![k] = n]
  BY <1>1, <1>5 DEF flush_and_sync
<1>11. files' = [files EXCEPT ![<<k, c.at>>] = f]
  BY <1>1, <1>3, <1>4, <1>7 DEF flush_and_sync, CurrentFile
<1>12. SetsFile(<<k, c.at>>, f, k, n)
  BY <1>10, <1>11 DEF flush_and_sync, SetsFile
<1> QED BY <1>1, <1>2, <1>6, <1>8, <1>9, <1>12, FileMoves DEF Sealing

LEMMA rename_step ==
    ASSUME StoreInv, NEW k \in DOMAIN storeCalls, rename(k)
    PROVE  StoreInv'
<1>1. PICK c : c = storeCalls[k]
  OBVIOUS
<1>2. c.pc = "rename"
  BY <1>1 DEF rename
<1>3. PICK g : g = files[<<k, c.at>>]
  OBVIOUS
<1>4. c \in StoreCall /\ g \in StoreFile /\ Staged(c, g) /\ files \in [Artifact -> StoreFile]
      /\ <<k, c.at>> \in Artifact /\ storeCalls \in Seq(StoreCall)
  BY <1>1, <1>2, <1>3, SealingStep DEF Sealing, StoreInv, StoreTypes
<1>5. PICK m : m = [c EXCEPT !.pc = "syncdir"]
  OBVIOUS
<1>6. /\ m \in StoreCall /\ m.pc = "syncdir" /\ m.at = c.at /\ m.sealed = c.sealed
      /\ m.kind = c.kind /\ m.subject = c.subject /\ m.to = c.to /\ m.events = c.events
  BY <1>4, <1>5, Placed DEF CallPlace
<1>7. PICK n : n = [m EXCEPT !.staging = "Final"]
  OBVIOUS
<1>8. /\ n \in StoreCall /\ n.pc = "syncdir" /\ n.at = c.at /\ n.sealed = c.sealed
      /\ n.kind = c.kind /\ n.subject = c.subject /\ n.to = c.to /\ n.events = c.events
      /\ n.staging = "Final"
  BY <1>6, <1>7 DEF StoreCall
<1>9. PICK f : f = [g EXCEPT !.name = "final"]
  OBVIOUS
<1>10. f \in StoreFile /\ f.name = "final" /\ f.passes = g.passes /\ f.bytes = g.bytes
       /\ f.synced = g.synced
  BY <1>4, <1>9 DEF StoreFile
<1>11. Staged(n, f)
  BY <1>2, <1>4, <1>8, <1>10 DEF Staged, Sealing
<1>12. files' = [files EXCEPT ![<<k, c.at>>] = f]
  BY <1>1, <1>3, <1>9 DEF rename, CurrentFile
<1>13. storeCalls' = [storeCalls EXCEPT ![k] = n]
  BY <1>1, <1>4, <1>5, <1>7 DEF rename
<1>14. SetsFile(<<k, c.at>>, f, k, n)
  BY <1>12, <1>13 DEF rename, SetsFile
<1> QED BY <1>1, <1>2, <1>8, <1>10, <1>11, <1>14, FileMoves DEF Sealing

LEMMA release_step ==
    ASSUME StoreInv, NEW k \in DOMAIN storeCalls, release(k)
    PROVE  StoreInv'
<1>1. PICK c : c = storeCalls[k]
  OBVIOUS
<1>2. c.pc = "syncdir"
  BY <1>1 DEF release
<1>3. PICK cur : cur = <<k, c.at>>
  OBVIOUS
<1>4. PICK g : g = files[cur]
  OBVIOUS
<1>5. /\ k \in Call /\ c \in StoreCall /\ c.at \in {1, 2} /\ cur \in Artifact
      /\ files \in [Artifact -> StoreFile] /\ g \in StoreFile /\ Staged(c, g)
  BY <1>1, <1>2, <1>3, <1>4, SealingStep DEF Sealing
<1>6. /\ Asked(k, c) /\ Prepared(k, c) /\ AsRequested(k, c)
      /\ \A a \in Artifact : a[1] = k => Owned(k, c, a)
  BY <1>1, CallOf DEF StoreInv, CallsTold
<1>7. PICK done : done = c.sealed \cup {cur}
  OBVIOUS
<1>8. done \in SUBSET Artifact
  BY <1>5, <1>7 DEF StoreCall
<1>9. PICK m : m = [c EXCEPT !.staging = "Released"]
  OBVIOUS
<1>10. PICK s : s = [m EXCEPT !.sealed = done]
  OBVIOUS
<1>11. /\ s \in StoreCall /\ s.kind = c.kind /\ s.subject = c.subject /\ s.to = c.to
       /\ s.events = c.events /\ s.sealed = done /\ s.at = c.at
  <2>1. m \in StoreCall /\ m.kind = c.kind /\ m.subject = c.subject /\ m.to = c.to
        /\ m.events = c.events /\ m.at = c.at
    BY <1>5, <1>9 DEF StoreCall
  <2> QED BY <1>8, <1>10, <2>1 DEF StoreCall
<1>12. Asked(k, s)
  BY <1>6, <1>11 DEF Asked, One, Two, Retried
<1>13. PICK n : n = prepare_event(s, c.at + 1)
  OBVIOUS
<1>14. c.at + 1 \in 1..3
  BY <1>5
<1>15. \A a \in s.sealed : a[1] = k /\ a[2] < c.at + 1
  <2>1. \A a \in c.sealed : a[1] = k /\ a[2] < c.at
    BY <1>2, <1>6 DEF Prepared, Sealing
  <2>2. c.sealed \subseteq Artifact
    BY <1>5 DEF StoreCall
  <2> QED BY <1>3, <1>5, <1>7, <1>11, <2>1, <2>2 DEF Artifact
<1>16. \A j \in DOMAIN s.events : s.events[j].big /\ j < c.at + 1 => <<k, j>> \in s.sealed
  <2>1. \A j \in DOMAIN c.events : c.events[j].big /\ j < c.at => <<k, j>> \in c.sealed
    BY <1>2, <1>6 DEF Prepared, Sealing
  <2>2. DOMAIN c.events = 1..Len(c.events) /\ Len(c.events) \in Nat
    BY <1>5, <1>6, EventsTyped
  <2>3. ASSUME NEW j \in DOMAIN c.events, c.events[j].big, j < c.at + 1
        PROVE  <<k, j>> \in done
    <3>1. j < c.at \/ j = c.at
      BY <1>5, <2>2, <2>3
    <3> QED BY <1>3, <1>7, <2>1, <2>3, <3>1
  <2> QED BY <1>11, <2>3
<1>17. /\ n \in StoreCall /\ Prepared(k, n) /\ n.pc \in {"open", "commit"} /\ n.sealed = done
       /\ n.kind = c.kind /\ n.subject = c.subject /\ n.to = c.to /\ n.events = c.events
  BY <1>5, <1>11, <1>12, <1>13, <1>14, <1>15, <1>16, PreparedOn
<1>18. AsRequested(k, n)
  BY <1>6, <1>17, SameRequest
<1>19. PICK f : f = [g EXCEPT !.entry = TRUE]
  OBVIOUS
<1>20. f \in StoreFile /\ SealedWhole(f)
  <2>1. f \in StoreFile /\ f.name = g.name /\ f.bytes = g.bytes /\ f.synced = g.synced
        /\ f.passes = g.passes /\ f.entry = TRUE
    BY <1>5, <1>19 DEF StoreFile
  <2> QED BY <1>2, <1>5, <2>1 DEF Staged, Sealing, SealedWhole
<1>21. files' = [files EXCEPT ![cur] = f]
  BY <1>1, <1>3, <1>4, <1>19 DEF release, CurrentFile
<1>22. /\ files' \in [Artifact -> StoreFile] /\ files'[cur] = f
       /\ \A a \in Artifact : a # cur => files'[a] = files[a]
  BY <1>5, <1>20, <1>21
<1>23. storeCalls' = [storeCalls EXCEPT ![k] = n]
  <2>1. s = [c EXCEPT !.staging = "Released", !.sealed = @ \cup {cur}]
    BY <1>5, <1>7, <1>9, <1>10 DEF StoreCall
  <2> QED BY <1>1, <1>3, <1>11, <1>13, <2>1 DEF release, CurrentFile
<1>24. ASSUME NEW a \in Artifact, a[1] = k PROVE Owned(k, n, a)'
  <2>1. Owned(k, c, a)
    BY <1>6, <1>24
  <2>2. CASE a = cur
    BY <1>7, <1>17, <1>20, <1>22, <2>2 DEF Owned, Sealing
  <2>3. CASE a # cur
    BY <1>2, <1>3, <1>7, <1>17, <1>22, <2>1, <2>3 DEF Owned, Sealing
  <2> QED BY <2>2, <2>3
<1>25. \A a \in Artifact : a[1] # k => files'[a] = files[a]
  BY <1>3, <1>22
<1>26. storeCalls[k].pc # "done" /\ stuck' \in SUBSET Artifact /\ stuck \subseteq stuck'
       /\ UNCHANGED <<db, survivors, meddled, orphaned>>
  BY <1>1, <1>2 DEF StoreInv, StoreTypes, release
<1> QED BY <1>17, <1>18, <1>22, <1>23, <1>24, <1>25, <1>26, CallMoves

\* A call that ends by removing what it wrote.
Clears(k, gone) ==
    /\ \A p \in gone : p[1] \in Artifact /\ p[1][1] = k
    /\ \A a \in Artifact : a[1] = k /\ files[a].name # "none" => <<a, files[a].name>> \in gone

LEMMA ReturnWith ==
    ASSUME StoreInv, NEW k \in DOMAIN storeCalls, storeCalls[k].pc # "done",
           NEW gone, Clears(k, gone), StoreReturn(k, gone),
           UNCHANGED <<db, survivors, meddled, orphaned>>
    PROVE  StoreInv'
<1>1. PICK c : c = storeCalls[k]
  OBVIOUS
<1>2. k \in Call /\ c \in StoreCall /\ Prepared(k, c) /\ AsRequested(k, c)
  BY <1>1, CallOf DEF StoreInv, CallsTold
<1>3. PICK n : n = [c EXCEPT !.pc = "done"]
  OBVIOUS
<1>4. /\ n \in StoreCall /\ n.pc = "done" /\ n.sealed = c.sealed
      /\ n.kind = c.kind /\ n.subject = c.subject /\ n.to = c.to /\ n.events = c.events
  BY <1>2, <1>3, Placed DEF CallPlace
<1>5. AsRequested(k, n) /\ Prepared(k, n)
  BY <1>2, <1>4, SameRequest DEF Prepared, Sealing
<1>6. storeCalls' = [storeCalls EXCEPT ![k] = n]
  BY <1>1, <1>3 DEF StoreReturn
<1>7. PICK kept \in SUBSET Names(gone) :
         /\ stuck' = stuck \cup kept
         /\ files' = [a \in Artifact |-> IF a \in Names(gone) \ kept THEN NoFile ELSE files[a]]
  BY DEF StoreReturn, remove_files
<1>8. /\ Names(gone) \subseteq Artifact
      /\ \A a \in Names(gone) : a[1] = k
      /\ \A a \in Artifact : a[1] = k /\ files[a].name # "none" => a \in Names(gone)
  <2>1. \A a \in Names(gone) : a \in Artifact /\ a[1] = k
    BY DEF Names, Clears
  <2>2. ASSUME NEW a \in Artifact, a[1] = k, files[a].name # "none"
        PROVE  a \in Names(gone)
    <3>1. PICK p : p = <<a, files[a].name>>
      OBVIOUS
    <3>2. p \in gone /\ p[1] = a /\ files[p[1]].name = p[2]
      BY <2>2, <3>1 DEF Clears
    <3> QED BY <3>2 DEF Names
  <2> QED BY <2>1, <2>2
<1>9. files \in [Artifact -> StoreFile] /\ stuck \in SUBSET Artifact
  BY DEF StoreInv, StoreTypes
<1>10. NoFile \in StoreFile /\ NoFile.name = "none"
  BY DEF NoFile, StoreFile
<1>11. /\ files' \in [Artifact -> StoreFile]
       /\ \A a \in Artifact : files'[a] = IF a \in Names(gone) \ kept THEN NoFile ELSE files[a]
  BY <1>7, <1>9, <1>10
<1>12. ASSUME NEW a \in Artifact, a[1] = k PROVE Owned(k, n, a)'
  <2>1. files'[a].name # "none" => a \in stuck'
    BY <1>7, <1>8, <1>10, <1>11, <1>12
  <2> QED BY <1>4, <2>1 DEF Owned, Sealing
<1>13. \A a \in Artifact : a[1] # k => files'[a] = files[a]
  BY <1>8, <1>11
<1>14. stuck' \in SUBSET Artifact /\ stuck \subseteq stuck'
  BY <1>7, <1>8, <1>9
<1> QED BY <1>4, <1>5, <1>6, <1>11, <1>12, <1>13, <1>14, CallMoves

LEMMA SealedClears ==
    ASSUME StoreInv, NEW k \in DOMAIN storeCalls
    PROVE  \A p \in discard_spill(k) : 
              p[1] \in storeCalls[k].sealed /\ p[1] \in Artifact /\ p[1][1] = k
<1>1. storeCalls[k] \in StoreCall /\ Prepared(k, storeCalls[k])
  BY CallOf
<1>2. storeCalls[k].sealed \subseteq Artifact /\ \A a \in storeCalls[k].sealed : a[1] = k
  BY <1>1 DEF StoreCall, Prepared
<1> QED BY <1>2 DEF discard_spill

LEMMA OpenFails_step ==
    ASSUME StoreInv, NEW k \in DOMAIN storeCalls, OpenFails(k) \/ CommitRefused(k)
    PROVE  StoreInv'
<1>1. storeCalls[k].pc \in {"open", "commit"} /\ StoreReturn(k, discard_spill(k))
      /\ UNCHANGED <<db, survivors, meddled, orphaned>>
  BY DEF OpenFails, CommitRefused
<1>2. \A a \in Artifact : a[1] = k => Owned(k, storeCalls[k], a)
  BY CallOf
<1>3. ASSUME NEW a \in Artifact, a[1] = k, files[a].name # "none"
      PROVE  <<a, files[a].name>> \in discard_spill(k)
  <2>1. a \in storeCalls[k].sealed /\ SealedWhole(files[a])
    BY <1>1, <1>2, <1>3 DEF Owned, Sealing
  <2> QED BY <2>1 DEF SealedWhole, discard_spill
<1>4. Clears(k, discard_spill(k))
  BY <1>3, SealedClears DEF Clears
<1> QED BY <1>1, <1>4, ReturnWith

LEMMA Abandon_step ==
    ASSUME StoreInv, NEW k \in DOMAIN storeCalls, Abandon(k)
    PROVE  StoreInv'
<1>1. PICK c : c = storeCalls[k]
  OBVIOUS
<1>2. c.pc \in Sealing
  BY <1>1 DEF Abandon, Sealing
<1>3. PICK cur : cur = <<k, c.at>>
  OBVIOUS
<1>4. cur \in Artifact /\ cur[1] = k /\ Staged(c, files[cur])
  BY <1>1, <1>2, <1>3, SealingStep
<1>5. PICK gone : gone = drop_sink(k) \cup discard_spill(k)
  OBVIOUS
<1>6. drop_sink(k) = {<<cur, files[cur].name>>}
  <2>1. CASE c.pc \in {"write", "sync", "rename"}
    <3>1. c.staging = "Temporary" /\ files[cur].name = "tmp"
      BY <1>4, <2>1 DEF Staged
    <3> QED BY <1>1, <1>3, <3>1 DEF drop_sink, CurrentFile
  <2>2. CASE c.pc = "syncdir"
    <3>1. c.staging = "Final" /\ files[cur].name = "final"
      BY <1>4, <2>2 DEF Staged
    <3> QED BY <1>1, <1>3, <3>1 DEF drop_sink, CurrentFile
  <2> QED BY <1>2, <2>1, <2>2 DEF Sealing
<1>7. ASSUME NEW a \in Artifact, a[1] = k, files[a].name # "none"
      PROVE  <<a, files[a].name>> \in gone
  <2>1. Owned(k, c, a)
    BY <1>1, <1>7, CallOf
  <2>2. CASE a \in c.sealed
    <3>1. files[a].name = "final"
      BY <1>2, <2>1, <2>2 DEF Owned, Sealing, SealedWhole
    <3> QED BY <1>1, <1>5, <2>2, <3>1 DEF discard_spill
  <2>3. CASE a = cur
    BY <1>5, <1>6, <2>3
  <2> QED BY <1>2, <1>3, <1>7, <2>1, <2>2, <2>3 DEF Owned, Sealing
<1>8. Clears(k, gone)
  BY <1>4, <1>5, <1>6, <1>7, SealedClears DEF Clears
<1>9. storeCalls[k].pc # "done" /\ StoreReturn(k, gone)
      /\ UNCHANGED <<db, survivors, meddled, orphaned>>
  BY <1>1, <1>2, <1>5 DEF Abandon, Sealing
<1> QED BY <1>8, <1>9, ReturnWith

-----------------------------------------------------------------------------
\* Steps of no call, and a power loss

LEMMA Begin_step ==
    ASSUME StoreInv, Begin
    PROVE  StoreInv'
<1>1. PICK c \in Requests(Len(storeCalls) + 1) : storeCalls' = Append(storeCalls, c)
  BY DEF Begin
<1>2. storeCalls \in Seq(StoreCall) /\ Len(storeCalls) \in Nat /\ MaxStoreCalls \in Nat
      /\ Len(storeCalls) < MaxStoreCalls /\ DOMAIN storeCalls = 1..Len(storeCalls)
  BY StoreConstants DEF StoreInv, StoreTypes, Begin
<1>3. PICK k : k = Len(storeCalls) + 1
  OBVIOUS
<1>4. k \in Call
  BY <1>2, <1>3 DEF Call
<1>5. /\ c \in StoreCall /\ c.pc = "load" /\ c.sealed = {} /\ c.staging = "Temporary"
      /\ AsRequested(k, c)
  BY <1>1, <1>3, <1>4, RequestTyped
<1>6. /\ storeCalls' \in Seq(StoreCall) /\ Len(storeCalls') = k
      /\ DOMAIN storeCalls' = DOMAIN storeCalls \cup {k} /\ k \notin DOMAIN storeCalls
      /\ storeCalls'[k] = c
      /\ \A j \in DOMAIN storeCalls : storeCalls'[j] = storeCalls[j]
  BY <1>1, <1>2, <1>3, <1>5
<1>7. UNCHANGED <<db, survivors, files, meddled, stuck, orphaned>>
  BY DEF Begin
<1>8. StoreTypes'
  BY <1>2, <1>3, <1>6, <1>7 DEF StoreInv, StoreTypes
<1>9. Prepared(k, c)
  BY <1>5 DEF Prepared, Sealing
<1>10. CallsTold'
  <2>1. ASSUME NEW j \in DOMAIN storeCalls'
        PROVE  AsRequested(j, storeCalls'[j]) /\ Prepared(j, storeCalls'[j])
    BY <1>5, <1>6, <1>9 DEF StoreInv, CallsTold
  <2>2. ASSUME NEW a \in Artifact
        PROVE  /\ a[1] \in DOMAIN storeCalls' => Owned(a[1], storeCalls[a[1]], a)'
               /\ a[1] \notin DOMAIN storeCalls' => files'[a].name = "none"
    <3>1. /\ a[1] \in DOMAIN storeCalls => Owned(a[1], storeCalls[a[1]], a)
          /\ a[1] \notin DOMAIN storeCalls => files[a].name = "none"
      BY DEF StoreInv, CallsTold
    <3>2. CASE a[1] \in DOMAIN storeCalls
      BY <1>6, <1>7, <3>1, <3>2 DEF Owned
    <3>3. CASE a[1] = k
      BY <1>5, <1>6, <1>7, <3>1, <3>3 DEF Owned, Sealing
    <3> QED BY <1>6, <1>7, <3>1, <3>2, <3>3
  <2>3. ASSUME NEW a \in DOMAIN meddled'
        PROVE  a[1] \in DOMAIN storeCalls' /\ storeCalls'[a[1]].pc = "done"
    BY <1>6, <1>7 DEF StoreInv, CallsTold
  <2> QED BY <2>1, <2>2, <2>3 DEF CallsTold
<1>11. ASSUME NEW d \in survivors PROVE ArtifactsStand(d)'
  BY <1>6, <1>7 DEF StoreInv, ArtifactsStand, StandsAs
<1> QED BY <1>7, <1>8, <1>10, <1>11 DEF StoreInv

LEMMA checkpoint_step ==
    ASSUME StoreInv, checkpoint
    PROVE  StoreInv'
<1>1. UNCHANGED <<db, files, storeCalls, meddled, stuck, orphaned>> /\ survivors' = {db}
  BY DEF checkpoint
<1>2. StoreTypes'
  BY <1>1 DEF StoreInv, StoreTypes
<1>3. CallsTold'
  BY <1>1 DEF StoreInv, CallsTold, Owned
<1>4. ArtifactsStand(db)'
  BY <1>1 DEF StoreInv, ArtifactsStand, StandsAs
<1>5. TrueDatabase(db)
  BY DEF StoreInv
<1>6. \A d \in survivors' : d = db'
  BY <1>1
<1> QED BY <1>1, <1>2, <1>3, <1>4, <1>5, <1>6 DEF StoreInv

LEMMA Meddle_step ==
    ASSUME StoreInv, NEW a \in Artifact, Meddle(a)
    PROVE  StoreInv'
<1>1. PICK how \in {"missing", "size_mismatch"} :
         /\ meddled' = [b \in DOMAIN meddled \cup {a} |-> IF b = a THEN how ELSE meddled[b]]
         /\ files' = [files EXCEPT ![a] = IF how = "missing" THEN NoFile
                                          ELSE [@ EXCEPT !.bytes = Full + 1]]
  BY DEF Meddle
<1>2. /\ UNCHANGED <<db, survivors, storeCalls, stuck, orphaned>>
      /\ a \in db.arts /\ a \notin DOMAIN meddled
  BY DEF Meddle
<1>3. files \in [Artifact -> StoreFile] /\ DOMAIN meddled \subseteq Artifact
  BY DEF StoreInv, StoreTypes
<1>4. SealedWhole(files[a]) /\ a[1] \in DOMAIN storeCalls /\ storeCalls[a[1]].pc = "done"
  BY <1>2 DEF StoreInv, ArtifactsStand, StandsAs
<1>5. PICK f : f = IF how = "missing" THEN NoFile ELSE [files[a] EXCEPT !.bytes = Full + 1]
  OBVIOUS
<1>6. /\ f \in StoreFile
      /\ how = "missing" => f = NoFile
      /\ how = "size_mismatch" => Rewritten(f)
  <2>1. CASE how = "missing"
    BY <1>5, <2>1 DEF NoFile, StoreFile
  <2>2. CASE how # "missing"
    <3>1. PICK g : g = files[a]
      OBVIOUS
    <3>2. PICK b : b = Full + 1
      OBVIOUS
    <3>3. g \in StoreFile /\ b \in 0..3
      BY <1>3, <3>1, <3>2 DEF Full
    <3>4. f = [g EXCEPT !.bytes = b]
      BY <1>5, <2>2, <3>1, <3>2
    <3>5. f \in StoreFile /\ f.name = g.name /\ f.synced = g.synced /\ f.entry = g.entry
          /\ f.bytes = b
      BY <3>3, <3>4 DEF StoreFile
    <3> QED BY <1>4, <2>2, <3>1, <3>2, <3>5 DEF SealedWhole, Rewritten
  <2> QED BY <2>1, <2>2
<1>7. files' = [files EXCEPT ![a] = f]
  BY <1>1, <1>5
<1>8. /\ files' \in [Artifact -> StoreFile] /\ files'[a] = f
      /\ \A b \in Artifact : b # a => files'[b] = files[b]
  BY <1>3, <1>6, <1>7
<1>9. /\ DOMAIN meddled' = DOMAIN meddled \cup {a} /\ meddled'[a] = how
      /\ \A b \in DOMAIN meddled : meddled'[b] = meddled[b]
  BY <1>1, <1>2
<1>10. StoreTypes'
  BY <1>2, <1>3, <1>8, <1>9 DEF StoreInv, StoreTypes
<1>11. CallsTold'
  <2>1. ASSUME NEW b \in Artifact
        PROVE  /\ b[1] \in DOMAIN storeCalls' => Owned(b[1], storeCalls[b[1]], b)'
               /\ b[1] \notin DOMAIN storeCalls' => files'[b].name = "none"
    <3>1. /\ b[1] \in DOMAIN storeCalls => Owned(b[1], storeCalls[b[1]], b)
          /\ b[1] \notin DOMAIN storeCalls => files[b].name = "none"
      BY DEF StoreInv, CallsTold
    <3>2. CASE b = a
      BY <1>2, <1>4, <3>2 DEF Owned, Sealing
    <3>3. CASE b # a
      BY <1>2, <1>8, <3>1, <3>3 DEF Owned
    <3> QED BY <3>2, <3>3
  <2>2. ASSUME NEW b \in DOMAIN meddled'
        PROVE  b[1] \in DOMAIN storeCalls' /\ storeCalls'[b[1]].pc = "done"
    BY <1>2, <1>4, <1>9 DEF StoreInv, CallsTold
  <2>3. \A j \in DOMAIN storeCalls' : AsRequested(j, storeCalls'[j]) /\ Prepared(j, storeCalls'[j])
    BY <1>2 DEF StoreInv, CallsTold
  <2> QED BY <2>1, <2>2, <2>3 DEF CallsTold
<1>12. ASSUME NEW d \in survivors PROVE ArtifactsStand(d)'
  <2>1. ASSUME NEW b \in d.arts
        PROVE  /\ b[1] \in DOMAIN storeCalls' /\ storeCalls'[b[1]].pc = "done"
               /\ b \in storeCalls'[b[1]].sealed /\ StandsAs(b)'
    <3>1. /\ b[1] \in DOMAIN storeCalls /\ storeCalls[b[1]].pc = "done"
          /\ b \in storeCalls[b[1]].sealed /\ StandsAs(b) /\ b \in Artifact
      BY DEF StoreInv, ArtifactsStand, TrueDatabase, DatabaseType
    <3>2. CASE b = a
      BY <1>2, <1>6, <1>8, <1>9, <3>1, <3>2 DEF StandsAs
    <3>3. CASE b # a
      BY <1>2, <1>8, <1>9, <3>1, <3>3 DEF StandsAs
    <3> QED BY <3>2, <3>3
  <2> QED BY <2>1 DEF ArtifactsStand
<1> QED BY <1>2, <1>10, <1>11, <1>12 DEF StoreInv

\* What may become of a file.
LEMMA SurvivesAs ==
    ASSUME NEW f \in StoreFile, NEW g \in Survives(f)
    PROVE  /\ g \in StoreFile
           /\ f.name = "none" => g = f
           /\ f.synced /\ f.entry => g = f
<1> DEFINE names == IF f.entry THEN {f.name} ELSE {"tmp", f.name}
           sizes == IF f.synced THEN {f.bytes} ELSE 0..f.bytes
           torn == {Torn(f, n, b) : n \in names, b \in sizes}
<1>1. Survives(f) = CASE f.name = "none" -> {f}
                      [] f.synced /\ f.entry -> {f}
                      [] OTHER -> torn
  BY DEF Survives
<1>2. \A n \in names, b \in sizes : n \in {"none", "tmp", "final"} /\ b \in 0..3
  BY DEF StoreFile
<1> HIDE DEF names, sizes
<1>3. ASSUME g \in torn PROVE g \in StoreFile
  <2>1. PICK n \in names, b \in sizes : g = Torn(f, n, b)
    BY <1>3
  <2>2. n \in {"none", "tmp", "final"} /\ b \in 0..3
    BY <1>2
  <2>3. PICK h : h = [f EXCEPT !.name = n]
    OBVIOUS
  <2>4. h \in StoreFile
    BY <2>2, <2>3 DEF StoreFile
  <2>5. g = [h EXCEPT !.bytes = b]
    BY <2>1, <2>3 DEF Torn
  <2> QED BY <2>2, <2>4, <2>5 DEF StoreFile
<1> HIDE DEF torn
<1>4. CASE f.name = "none"
  <2>1. Survives(f) = {f} \/ (f.synced /\ f.entry /\ Survives(f) = {f})
    BY <1>1, <1>4
  <2> QED BY <2>1
<1>5. CASE f.name # "none" /\ f.synced /\ f.entry
  <2>1. Survives(f) = {f}
    BY <1>1, <1>5
  <2> QED BY <2>1
<1>6. CASE f.name # "none" /\ ~(f.synced /\ f.entry)
  <2>1. Survives(f) = torn
    BY <1>1, <1>6
  <2> QED BY <1>3, <1>6, <2>1
<1> QED BY <1>4, <1>5, <1>6

LEMMA PowerLoss_step ==
    ASSUME StoreInv, PowerLoss
    PROVE  StoreInv'
<1>1. PICK d \in survivors :
          /\ db' = d
          /\ survivors' = {d}
          /\ orphaned' = orphaned \cup {k \in DOMAIN storeCalls :
                              ~Over(k) \/ ~(storeCalls[k].sealed \subseteq d.arts)}
  BY DEF PowerLoss
<1>2. /\ files' \in [Artifact -> UNION {Survives(files[a]) : a \in Artifact}]
      /\ \A a \in Artifact : files'[a] \in Survives(files[a])
      /\ storeCalls' = [k \in DOMAIN storeCalls |-> [storeCalls[k] EXCEPT !.pc = "done"]]
      /\ UNCHANGED <<meddled, stuck>>
  BY DEF PowerLoss
<1>3. /\ files \in [Artifact -> StoreFile] /\ storeCalls \in Seq(StoreCall)
      /\ Len(storeCalls) \in Nat /\ DOMAIN storeCalls = 1..Len(storeCalls)
  BY DEF StoreInv, StoreTypes
<1>4. ASSUME NEW a \in Artifact
      PROVE  /\ files'[a] \in StoreFile
             /\ files[a].name = "none" => files'[a] = files[a]
             /\ files[a].synced /\ files[a].entry => files'[a] = files[a]
  BY <1>2, <1>3, SurvivesAs
<1>5. files' \in [Artifact -> StoreFile]
  BY <1>2, <1>4
<1>6. ASSUME NEW k \in DOMAIN storeCalls
      PROVE  /\ storeCalls'[k] \in StoreCall /\ storeCalls'[k].pc = "done"
             /\ storeCalls'[k].sealed = storeCalls[k].sealed
             /\ AsRequested(k, storeCalls'[k]) /\ Prepared(k, storeCalls'[k])
  <2>1. PICK c : c = storeCalls[k]
    OBVIOUS
  <2>2. c \in StoreCall /\ AsRequested(k, c) /\ Prepared(k, c)
    BY <2>1, CallOf DEF StoreInv, CallsTold
  <2>3. PICK n : n = [c EXCEPT !.pc = "done"]
    OBVIOUS
  <2>4. /\ n \in StoreCall /\ n.pc = "done" /\ n.sealed = c.sealed
        /\ n.kind = c.kind /\ n.subject = c.subject /\ n.to = c.to /\ n.events = c.events
    BY <2>2, <2>3, Placed DEF CallPlace
  <2>5. AsRequested(k, n) /\ Prepared(k, n)
    BY <2>2, <2>4, SameRequest DEF Prepared, Sealing
  <2>6. storeCalls'[k] = n
    BY <1>2, <2>1, <2>3
  <2> QED BY <2>1, <2>4, <2>5, <2>6
<1>7. storeCalls' \in Seq(StoreCall) /\ Len(storeCalls') = Len(storeCalls)
      /\ DOMAIN storeCalls' = DOMAIN storeCalls
  <2>1. DOMAIN storeCalls' = 1..Len(storeCalls)
    BY <1>2, <1>3
  <2>2. storeCalls' \in [1..Len(storeCalls) -> StoreCall]
    BY <1>2, <1>3, <1>6, <2>1
  <2> QED BY <1>3, <2>1, <2>2
<1>8. StoreTypes'
  <2>1. orphaned' \in SUBSET Nat
    <3>1. PICK cut : cut = {k \in DOMAIN storeCalls :
                              ~Over(k) \/ ~(storeCalls[k].sealed \subseteq d.arts)}
      OBVIOUS
    <3>2. cut \subseteq Nat
      BY <1>3, <3>1
    <3> QED BY <1>1, <3>1, <3>2 DEF StoreInv, StoreTypes
  <2> QED BY <1>2, <1>5, <1>7, <2>1 DEF StoreInv, StoreTypes
<1>9. CallsTold'
  <2>1. ASSUME NEW a \in Artifact
        PROVE  /\ a[1] \in DOMAIN storeCalls' => Owned(a[1], storeCalls[a[1]], a)'
               /\ a[1] \notin DOMAIN storeCalls' => files'[a].name = "none"
    <3>1. a[1] \notin DOMAIN storeCalls => files[a].name = "none"
      BY DEF StoreInv, CallsTold
    <3>2. CASE a[1] \in DOMAIN storeCalls
      <4>1. PICK k \in DOMAIN storeCalls : k = a[1]
        BY <3>2
      <4>2. Owned(k, storeCalls[k], a)
        BY <4>1, CallOf
      <4>3. ASSUME k \notin orphaned', files'[a].name # "none"
            PROVE  a \in db'.arts \cup stuck'
        <5>1. storeCalls[k].pc = "done" /\ k \notin orphaned
              /\ storeCalls[k].sealed \subseteq d.arts
          BY <1>1, <4>3 DEF Over
        <5>2. files[a].name # "none"
          BY <1>4, <4>3
        <5>3. a \in db.arts \cup stuck
          BY <4>2, <5>1, <5>2 DEF Owned
        <5>4. a \in db.arts => a \in storeCalls[k].sealed
          BY <4>1 DEF StoreInv, ArtifactsStand
        <5> QED BY <1>1, <1>2, <5>1, <5>3, <5>4
      <4>4. storeCalls'[k].pc = "done"
        BY <1>6
      <4> QED BY <1>7, <4>1, <4>3, <4>4 DEF Owned, Sealing
    <3>3. CASE a[1] \notin DOMAIN storeCalls
      BY <1>4, <1>7, <3>1, <3>3
    <3> QED BY <3>2, <3>3
  <2>2. ASSUME NEW a \in DOMAIN meddled'
        PROVE  a[1] \in DOMAIN storeCalls' /\ storeCalls'[a[1]].pc = "done"
    BY <1>2, <1>6, <1>7 DEF StoreInv, CallsTold
  <2> QED BY <1>6, <1>7, <2>1, <2>2 DEF CallsTold
<1>10. ArtifactsStand(d)'
  <2>1. ASSUME NEW a \in d.arts
        PROVE  /\ a[1] \in DOMAIN storeCalls' /\ storeCalls'[a[1]].pc = "done"
               /\ a \in storeCalls'[a[1]].sealed /\ StandsAs(a)'
    <3>1. /\ a[1] \in DOMAIN storeCalls /\ a \in storeCalls[a[1]].sealed /\ StandsAs(a)
          /\ a \in Artifact
      BY DEF StoreInv, ArtifactsStand, TrueDatabase, DatabaseType
    <3>2. files'[a] = files[a]
      <4>1. files[a] = NoFile => files[a].name = "none"
        BY DEF NoFile
      <4> QED BY <1>4, <3>1, <4>1 DEF StandsAs, SealedWhole, Rewritten
    <3>3. StandsAs(a)'
      BY <1>2, <3>1, <3>2 DEF StandsAs
    <3> QED BY <1>6, <1>7, <3>1, <3>3
  <2> QED BY <2>1 DEF ArtifactsStand
<1>11. TrueDatabase(d)
  BY DEF StoreInv
<1>12. db' \in survivors' /\ \A e \in survivors' : e = d
  BY <1>1
<1>13. ASSUME NEW e \in survivors' PROVE TrueDatabase(e) /\ ArtifactsStand(e)'
  <2>1. e = d
    BY <1>12
  <2> QED BY <1>10, <1>11, <2>1 DEF ArtifactsStand
<1> QED BY <1>8, <1>9, <1>12, <1>13 DEF StoreInv

-----------------------------------------------------------------------------
\* A log that grows

LEMMA CountedTwo ==
    /\ Cardinality({1}) = 1 /\ Cardinality({2}) = 1 /\ Cardinality({1, 2}) = 2
    /\ Cardinality({}) = 0
<1>1. Cardinality({1}) = 1 /\ Cardinality({2}) = 1 /\ IsFiniteSet({1})
  BY FS_Singleton
<1>2. Cardinality({1} \cup {2}) = Cardinality({1}) + 1
  BY <1>1, FS_AddElement
<1>3. {1} \cup {2} = {1, 2}
  OBVIOUS
<1> QED BY <1>1, <1>2, <1>3, FS_EmptySet

LEMMA NthIs ==
    ASSUME NEW S, S \subseteq {1, 2}
    PROVE  /\ Cardinality(S) \in Nat
           /\ \A i \in 1..Cardinality(S) : Nth(S, i) \in S
           /\ S = {1} => Cardinality(S) = 1 /\ Nth(S, 1) = 1
           /\ S = {2} => Cardinality(S) = 1 /\ Nth(S, 1) = 2
<1>1. CASE S = {}
  BY <1>1, CountedTwo
<1>2. CASE S = {1}
  <2>1. {y \in S : y <= 1} = {1}
    BY <1>2
  <2>2. Nth(S, 1) = 1
    BY <1>2, <2>1, CountedTwo DEF Nth
  <2> QED BY <1>2, <2>2, CountedTwo
<1>3. CASE S = {2}
  <2>1. {y \in S : y <= 2} = {2}
    BY <1>3
  <2>2. Nth(S, 1) = 2
    BY <1>3, <2>1, CountedTwo DEF Nth
  <2> QED BY <1>3, <2>2, CountedTwo
<1>4. CASE S = {1, 2}
  <2>1. {y \in S : y <= 1} = {1} /\ {y \in S : y <= 2} = {1, 2}
    BY <1>4
  <2>2. Nth(S, 1) \in S
    BY <1>4, <2>1, CountedTwo DEF Nth
  <2>3. Nth(S, 2) \in S
    BY <1>4, <2>1, CountedTwo DEF Nth
  <2> QED BY <1>4, <2>2, <2>3, CountedTwo
<1>5. S = {} \/ S = {1} \/ S = {2} \/ S = {1, 2}
  OBVIOUS
<1> QED BY <1>1, <1>2, <1>3, <1>4, <1>5

\* A set of numbers has a least, and a bounded one a greatest.
Precedes == {p \in Nat \X Nat : p[1] < p[2]}

LEMMA PrecedesIsWellFounded == IsWellFoundedOn(Precedes, Nat)
<1>1. OpToRel(<, Nat) = Precedes
  BY Zenon DEF OpToRel, Precedes
<1> QED BY Zenon, <1>1, NatLessThanWellFounded

LEMMA LeastExists ==
    ASSUME NEW S, S \subseteq Nat, S # {}
    PROVE  \E x \in S : \A y \in S : x <= y
<1>1. PICK x \in S : \A y \in S : ~(<<y, x>> \in Precedes)
  BY PrecedesIsWellFounded, WFMin
<1>2. ASSUME NEW y \in S PROVE x <= y
  <2>1. y \in Nat /\ x \in Nat
    OBVIOUS
  <2>2. ~(y < x)
    BY <1>1, <2>1 DEF Precedes
  <2> QED BY <2>1, <2>2
<1> QED BY <1>2

LEMMA GreatestIs ==
    ASSUME NEW S, S \subseteq Nat, S # {}, \E b \in Nat : \A y \in S : y <= b
    PROVE  Greatest(S) \in S /\ \A y \in S : y <= Greatest(S)
<1>1. PICK b \in Nat : \A y \in S : y <= b
  OBVIOUS
<1>2. PICK above : above = {m \in Nat : \A y \in S : y <= m}
  OBVIOUS
<1>3. b \in above /\ above \subseteq Nat
  BY <1>1, <1>2
<1>4. PICK m \in above : \A h \in above : m <= h
  BY <1>3, LeastExists
<1>5. m \in Nat /\ \A y \in S : y <= m
  BY <1>2, <1>4
<1>6. m \in S
  <2>1. SUFFICES ASSUME m \notin S PROVE FALSE
    OBVIOUS
  <2>2. \A y \in S : y \in Nat /\ y <= m /\ y # m
    BY <1>5, <2>1
  <2>3. PICK z \in S : TRUE
    OBVIOUS
  <2>4. PICK h : h = m - 1
    OBVIOUS
  <2>5. h \in Nat /\ h < m /\ \A y \in S : y <= h
    BY <1>5, <2>2, <2>3, <2>4
  <2>6. h \in above
    BY <1>2, <2>5
  <2>7. m <= h
    BY <1>4, <2>6
  <2> QED BY <1>5, <2>5, <2>7
<1>7. \E x \in S : \A y \in S : y <= x
  BY <1>5, <1>6
<1> QED BY <1>7 DEF Greatest

\* Every log keeps what it has.
Grown(o, n) ==
    /\ n.log \in [Run -> Seq(LogRow)]
    /\ \A r \in Run : /\ Len(o.log[r]) <= Len(n.log[r])
                      /\ \A i \in DOMAIN o.log[r] : n.log[r][i] = o.log[r][i]

\* The log of the first run gains just this row.
Gains(o, n, w) ==
    Len(n.log[0]) = Len(o.log[0]) + 1 /\ n.log[0][Len(o.log[0]) + 1] = w

NewRows(o, n, r) == DOMAIN n.log[r] \ DOMAIN o.log[r]

LEMMA LogLengths ==
    ASSUME NEW o, NEW n, DatabaseType(o), Grown(o, n), NEW r \in Run
    PROVE  /\ Len(o.log[r]) \in Nat /\ DOMAIN o.log[r] = 1..Len(o.log[r])
           /\ Len(n.log[r]) \in Nat /\ DOMAIN n.log[r] = 1..Len(n.log[r])
           /\ Len(o.log[r]) <= Len(n.log[r])
           /\ DOMAIN o.log[r] \subseteq DOMAIN n.log[r]
           /\ \A i \in DOMAIN o.log[r] : n.log[r][i] = o.log[r][i]
<1>1. o.log[r] \in Seq(LogRow)
  BY DEF DatabaseType
<1>2. n.log[r] \in Seq(LogRow) /\ Len(o.log[r]) <= Len(n.log[r])
      /\ \A i \in DOMAIN o.log[r] : n.log[r][i] = o.log[r][i]
  BY DEF Grown
<1> QED BY <1>1, <1>2

LEMMA FirstRun == 0 \in Run
  BY StoreConstants DEF Run

LEMMA LogOther ==
    ASSUME NEW o, NEW n, DatabaseType(o), Grown(o, n), NEW K,
           \A i \in NewRows(o, n, 0) : n.log[0][i].kind \notin K
    PROVE  LogOf(n, K) = LogOf(o, K) /\ CallsOf(n, K) = CallsOf(o, K)
<1>1. /\ DOMAIN o.log[0] \subseteq DOMAIN n.log[0]
      /\ \A i \in DOMAIN o.log[0] : n.log[0][i] = o.log[0][i]
  BY FirstRun, LogLengths
<1>2. LogOf(n, K) = LogOf(o, K)
  BY <1>1 DEF LogOf, NewRows
<1>3. \A i \in LogOf(o, K) : n.log[0][i].call = o.log[0][i].call
  BY <1>1 DEF LogOf
<1> QED BY <1>2, <1>3 DEF CallsOf

LEMMA GainedAt ==
    ASSUME NEW o, NEW n, NEW w, DatabaseType(o), Grown(o, n), Gains(o, n, w)
    PROVE  /\ DOMAIN n.log[0] = DOMAIN o.log[0] \cup {Len(o.log[0]) + 1}
           /\ Len(o.log[0]) + 1 \notin DOMAIN o.log[0]
           /\ n.log[0][Len(o.log[0]) + 1] = w
           /\ NewRows(o, n, 0) = {Len(o.log[0]) + 1}
<1>1. /\ Len(o.log[0]) \in Nat /\ DOMAIN o.log[0] = 1..Len(o.log[0])
      /\ DOMAIN n.log[0] = 1..Len(n.log[0]) /\ Len(n.log[0]) = Len(o.log[0]) + 1
  BY FirstRun, LogLengths DEF Gains
<1>2. DOMAIN n.log[0] = DOMAIN o.log[0] \cup {Len(o.log[0]) + 1}
  BY <1>1
<1>3. Len(o.log[0]) + 1 \notin DOMAIN o.log[0]
  BY <1>1
<1> QED BY <1>2, <1>3 DEF NewRows, Gains

LEMMA LogMore ==
    ASSUME NEW o, NEW n, NEW w, DatabaseType(o), Grown(o, n), Gains(o, n, w), NEW K, w.kind \in K
    PROVE  /\ LogOf(n, K) = LogOf(o, K) \cup {Len(o.log[0]) + 1}
           /\ CallsOf(n, K) = CallsOf(o, K) \cup {w.call}
<1>1. PICK l : l = Len(o.log[0]) + 1
  OBVIOUS
<1>2. /\ DOMAIN n.log[0] = DOMAIN o.log[0] \cup {l} /\ l \notin DOMAIN o.log[0]
      /\ n.log[0][l] = w
      /\ \A i \in DOMAIN o.log[0] : n.log[0][i] = o.log[0][i]
  BY <1>1, FirstRun, LogLengths, GainedAt
<1>3. LogOf(n, K) = LogOf(o, K) \cup {l}
  BY <1>2 DEF LogOf
<1>4. \A i \in LogOf(o, K) : n.log[0][i].call = o.log[0][i].call
  BY <1>2 DEF LogOf
<1>5. CallsOf(n, K) = CallsOf(o, K) \cup {w.call}
  BY <1>2, <1>3, <1>4 DEF CallsOf
<1> QED BY <1>1, <1>3, <1>5

LEMMA MovesOther ==
    ASSUME NEW o, NEW n, DatabaseType(o), Grown(o, n), NEW x,
           \A i \in NewRows(o, n, 0) : n.log[0][i].kind # "move" \/ n.log[0][i].subject # x
    PROVE  /\ MovesOf(n, x) = MovesOf(o, x)
           /\ \A i \in MovesOf(o, x) : n.log[0][i] = o.log[0][i]
           /\ \A i \in MovesOf(o, x) : ToldUpTo(n, x, i) = ToldUpTo(o, x, i)
           /\ ToldUpTo(n, x, Len(n.log[0]) + 1) = ToldUpTo(o, x, Len(o.log[0]) + 1)
<1>1. /\ DOMAIN o.log[0] \subseteq DOMAIN n.log[0]
      /\ \A i \in DOMAIN o.log[0] : n.log[0][i] = o.log[0][i]
      /\ Len(o.log[0]) \in Nat /\ DOMAIN o.log[0] = 1..Len(o.log[0])
      /\ Len(n.log[0]) \in Nat /\ Len(o.log[0]) <= Len(n.log[0])
  BY FirstRun, LogLengths
<1>2. MovesOf(n, x) = MovesOf(o, x)
  BY <1>1 DEF MovesOf, LogOf, NewRows
<1>3. MovesOf(o, x) \subseteq DOMAIN o.log[0]
  BY DEF MovesOf, LogOf
<1>4. ASSUME NEW i, NEW h,
             {j \in MovesOf(n, x) : j < h} = {j \in MovesOf(o, x) : j < i}
      PROVE  ToldUpTo(n, x, h) = ToldUpTo(o, x, i)
  <2>1. PICK before : before = {j \in MovesOf(o, x) : j < i}
    OBVIOUS
  <2>2. before = {j \in MovesOf(n, x) : j < h} /\ before \subseteq DOMAIN o.log[0]
    BY <1>3, <1>4, <2>1
  <2>3. /\ ToldUpTo(n, x, h) = IF before = {} THEN "fresh" ELSE n.log[0][Greatest(before)].to
        /\ ToldUpTo(o, x, i) = IF before = {} THEN "fresh" ELSE o.log[0][Greatest(before)].to
    BY <2>1, <2>2 DEF ToldUpTo
  <2>4. before # {} => Greatest(before) \in before
    <3>1. \E b \in Nat : \A j \in before : j <= b
      BY <1>1, <2>2
    <3>2. before \subseteq Nat
      BY <1>1, <2>2
    <3> QED BY <3>1, <3>2, GreatestIs
  <2>5. before # {} => n.log[0][Greatest(before)] = o.log[0][Greatest(before)]
    BY ONLY <1>1, <2>2, <2>4
  <2>6. CASE before = {}
    BY ONLY <2>3, <2>6
  <2>7. CASE before # {}
    <3>1. ToldUpTo(n, x, h) = n.log[0][Greatest(before)].to
      BY ONLY <2>3, <2>7
    <3>2. ToldUpTo(o, x, i) = o.log[0][Greatest(before)].to
      BY ONLY <2>3, <2>7
    <3> QED BY ONLY <3>1, <3>2, <2>5, <2>7
  <2> QED BY ONLY <2>6, <2>7
<1>5. \A i \in MovesOf(o, x) : ToldUpTo(n, x, i) = ToldUpTo(o, x, i)
  <2>1. TAKE i \in MovesOf(o, x)
  <2>2. {j \in MovesOf(n, x) : j < i} = {j \in MovesOf(o, x) : j < i}
    BY <1>2
  <2> QED BY <1>4, <2>2
<1>6. ToldUpTo(n, x, Len(n.log[0]) + 1) = ToldUpTo(o, x, Len(o.log[0]) + 1)
  <2>1. {j \in MovesOf(n, x) : j < Len(n.log[0]) + 1}
          = {j \in MovesOf(o, x) : j < Len(o.log[0]) + 1}
    BY <1>1, <1>2, <1>3
  <2> QED BY <1>4, <2>1
<1> QED BY <1>1, <1>2, <1>3, <1>5, <1>6

\* What the moves of x are once the log has gained the move w of it.
MovedOn(o, n, w) ==
    /\ MovesOf(n, w.subject) = MovesOf(o, w.subject) \cup {Len(o.log[0]) + 1}
    /\ \A i \in MovesOf(o, w.subject) : n.log[0][i] = o.log[0][i]
    /\ \A i \in MovesOf(o, w.subject) \cup {Len(o.log[0]) + 1} :
          ToldUpTo(n, w.subject, i) = ToldUpTo(o, w.subject, i)
    /\ ToldUpTo(n, w.subject, Len(n.log[0]) + 1) = w.to

LEMMA MovesMore ==
    ASSUME NEW o, NEW n, NEW w, DatabaseType(o), Grown(o, n), Gains(o, n, w),
           w.kind = "move"
    PROVE  MovedOn(o, n, w)
<1>1. PICK x, l : x = w.subject /\ l = Len(o.log[0]) + 1
  OBVIOUS
<1>2. /\ \A i \in DOMAIN o.log[0] : n.log[0][i] = o.log[0][i]
      /\ Len(o.log[0]) \in Nat /\ DOMAIN o.log[0] = 1..Len(o.log[0])
      /\ Len(n.log[0]) = l /\ l \in Nat
      /\ DOMAIN n.log[0] = DOMAIN o.log[0] \cup {l} /\ l \notin DOMAIN o.log[0]
      /\ n.log[0][l] = w
  BY <1>1, FirstRun, LogLengths, GainedAt DEF Gains
<1>3. MovesOf(n, x) = MovesOf(o, x) \cup {l}
  BY <1>1, <1>2 DEF MovesOf, LogOf
<1>4. MovesOf(o, x) \subseteq DOMAIN o.log[0]
  BY DEF MovesOf, LogOf
<1>5. ASSUME NEW i \in MovesOf(o, x) \cup {l}
      PROVE  ToldUpTo(n, x, i) = ToldUpTo(o, x, i)
  <2>1. PICK before : before = {j \in MovesOf(o, x) : j < i}
    OBVIOUS
  <2>2. i <= l /\ i \in Nat
    BY <1>2, <1>4
  <2>3. before = {j \in MovesOf(n, x) : j < i} /\ before \subseteq DOMAIN o.log[0]
    BY <1>2, <1>3, <1>4, <2>1, <2>2
  <2>4. /\ ToldUpTo(n, x, i) = IF before = {} THEN "fresh" ELSE n.log[0][Greatest(before)].to
        /\ ToldUpTo(o, x, i) = IF before = {} THEN "fresh" ELSE o.log[0][Greatest(before)].to
    BY <2>1, <2>3 DEF ToldUpTo
  <2>5. before # {} => Greatest(before) \in before
    <3>1. \E b \in Nat : \A j \in before : j <= b
      BY <1>2, <2>3
    <3>2. before \subseteq Nat
      BY <1>2, <2>3
    <3> QED BY <3>1, <3>2, GreatestIs
  <2> QED BY <1>2, <2>3, <2>4, <2>5
<1>6. ToldUpTo(n, x, l + 1) = w.to
  <2>1. PICK before : before = {j \in MovesOf(n, x) : j < l + 1}
    OBVIOUS
  <2>2. l \in before /\ \A j \in before : j <= l /\ j \in Nat
    BY <1>2, <1>3, <1>4, <2>1
  <2>3. Greatest(before) = l
    <3>1. before \subseteq Nat /\ before # {} /\ \E b \in Nat : \A j \in before : j <= b
      BY <1>2, <2>2
    <3>2. Greatest(before) \in before /\ \A j \in before : j <= Greatest(before)
      BY <3>1, GreatestIs
    <3>3. PICK g : g = Greatest(before)
      OBVIOUS
    <3>4. g <= l /\ g \in Nat /\ l <= g
      BY <2>2, <3>2, <3>3
    <3>5. g = l
      BY <1>2, <3>4
    <3> QED BY <3>3, <3>5
  <2>4. ToldUpTo(n, x, l + 1) = IF before = {} THEN "fresh" ELSE n.log[0][Greatest(before)].to
    BY <2>1 DEF ToldUpTo
  <2> QED BY <1>2, <2>2, <2>3, <2>4
<1> QED BY <1>1, <1>2, <1>3, <1>4, <1>5, <1>6 DEF MovedOn

-----------------------------------------------------------------------------
\* A commit

\* The call and the record it would write, in the transaction.
Committing(k, c) ==
    /\ k \in DOMAIN storeCalls /\ c = storeCalls[k] /\ c.pc = "commit"
    /\ k \in Call /\ c \in StoreCall /\ Asked(k, c) /\ Prepared(k, c)

LEMMA RowTyped ==
    ASSUME NEW k, NEW c, Committing(k, c), NEW j \in DOMAIN c.events
    PROVE  /\ append_event(k, j) \in LogRow
           /\ append_event(k, j).art \in c.sealed \cup {NoArtifact}
           /\ append_event(k, j).subject = c.subject /\ append_event(k, j).to = c.to
           /\ append_event(k, j).call = k
           /\ append_event(k, j).kind = IF c.kind = "retry" /\ c.events[j].run = 0
                                        THEN "retried" ELSE c.kind
<1>1. /\ c.kind \in CallKind /\ c.subject \in CallSubject /\ c.to \in CallTo /\ k \in Call
      /\ c.sealed \subseteq Artifact
  BY DEF Committing, StoreCall
<1>2. j \in {1, 2}
  BY EventsTyped DEF Committing
<1>3. PICK art : art = IF c.events[j].big THEN <<k, j>> ELSE NoArtifact
  OBVIOUS
<1>4. c.events[j].big => <<k, j>> \in c.sealed
  BY DEF Committing, Prepared
<1>5. art \in c.sealed \cup {NoArtifact} /\ art \in Artifact \cup {NoArtifact}
  BY <1>1, <1>3, <1>4
<1>6. PICK kind : kind = IF c.kind = "retry" /\ c.events[j].run = 0 THEN "retried" ELSE c.kind
  OBVIOUS
<1>7. kind \in CallKind \cup {"retried"}
  BY <1>1, <1>6
<1>8. append_event(k, j) = [kind |-> kind, subject |-> c.subject, to |-> c.to, call |-> k,
                            art |-> art]
  BY <1>3, <1>6 DEF append_event, Committing
<1> QED BY <1>1, <1>5, <1>6, <1>7, <1>8 DEF LogRow

Joins(u, s, t) == u = s \o t

LEMMA JoinIs ==
    ASSUME NEW T, NEW s \in Seq(T), NEW t \in Seq(T), NEW u, Joins(u, s, t)
    PROVE  /\ u \in Seq(T) /\ Len(u) = Len(s) + Len(t) /\ Len(s) \in Nat
           /\ DOMAIN s = 1..Len(s) /\ DOMAIN u = 1..Len(u)
           /\ \A i \in 1..Len(s) : u[i] = s[i]
           /\ \A i \in 1..Len(u) : i > Len(s) => u[i] = t[i - Len(s)]
<1> USE DEF Joins
<1>1. u \in Seq(T) /\ Len(u) = Len(s) + Len(t) /\ Len(s) \in Nat /\ Len(t) \in Nat
      /\ DOMAIN s = 1..Len(s) /\ DOMAIN u = 1..Len(u)
  OBVIOUS
<1>2. \A i \in 1..Len(s) : u[i] = s[i]
  OBVIOUS
<1>3. ASSUME NEW i \in 1..Len(u), i > Len(s) PROVE u[i] = t[i - Len(s)]
  BY <1>1, <1>3
<1> QED BY <1>1, <1>2, <1>3

EventsIn(c, r) == {j \in DOMAIN c.events : c.events[j].run = r}

LEMMA NextIs ==
    ASSUME StoreInv, NEW k, NEW c, Committing(k, c), NEW r \in Run,
           NEW log, log = next_sequence(k, r)
    PROVE  /\ log \in Seq(LogRow)
           /\ Len(log) = Len(db.log[r]) + Cardinality(EventsIn(c, r))
           /\ Len(db.log[r]) \in Nat /\ Cardinality(EventsIn(c, r)) \in Nat
           /\ DOMAIN db.log[r] = 1..Len(db.log[r])
           /\ \A i \in DOMAIN db.log[r] : log[i] = db.log[r][i]
           /\ \A i \in DOMAIN log \ DOMAIN db.log[r] :
                 /\ i - Len(db.log[r]) \in 1..Cardinality(EventsIn(c, r))
                 /\ log[i] = append_event(k, Nth(EventsIn(c, r), i - Len(db.log[r])))
                 /\ Nth(EventsIn(c, r), i - Len(db.log[r])) \in EventsIn(c, r)
<1>1. PICK mine : mine = EventsIn(c, r)
  OBVIOUS
<1>2. DOMAIN c.events = 1..Len(c.events) /\ Len(c.events) \in Nat /\ Len(c.events) <= 2
  BY EventsTyped DEF Committing
<1>3. mine \subseteq {1, 2} /\ mine \subseteq DOMAIN c.events
  BY <1>1, <1>2 DEF EventsIn
<1>4. PICK m : m = Cardinality(mine)
  OBVIOUS
<1>5. m \in Nat /\ \A i \in 1..m : Nth(mine, i) \in mine
  BY <1>3, <1>4, NthIs
<1>6. PICK tail : tail = [i \in 1..m |-> append_event(k, Nth(mine, i))]
  OBVIOUS
<1>7. \A i \in 1..m : append_event(k, Nth(mine, i)) \in LogRow
  BY <1>3, <1>5, RowTyped
<1>8. tail \in Seq(LogRow) /\ Len(tail) = m
      /\ \A i \in 1..m : tail[i] = append_event(k, Nth(mine, i))
  BY <1>5, <1>6, <1>7
<1>9. PICK old : old = db.log[r]
  OBVIOUS
<1>10. old \in Seq(LogRow)
  BY <1>9 DEF StoreInv, TrueDatabase, DatabaseType
<1>11. log = old \o tail
  BY <1>1, <1>4, <1>6, <1>9 DEF next_sequence, EventsIn, Committing
<1>12. /\ log \in Seq(LogRow) /\ Len(log) = Len(old) + m /\ Len(old) \in Nat
       /\ DOMAIN old = 1..Len(old) /\ DOMAIN log = 1..Len(log)
       /\ \A i \in 1..Len(old) : log[i] = old[i]
       /\ \A i \in 1..Len(log) : i > Len(old) => log[i] = tail[i - Len(old)]
  <2>1. tail \in Seq(LogRow) /\ Len(tail) = m
    BY <1>8
  <2>2. /\ log \in Seq(LogRow) /\ Len(log) = Len(old) + Len(tail) /\ Len(old) \in Nat
        /\ DOMAIN old = 1..Len(old) /\ DOMAIN log = 1..Len(log)
        /\ \A i \in 1..Len(old) : log[i] = old[i]
        /\ \A i \in 1..Len(log) : i > Len(old) => log[i] = tail[i - Len(old)]
    <3>1. Joins(log, old, tail)
      BY <1>11 DEF Joins
    <3> QED BY ONLY <1>10, <2>1, <3>1, JoinIs
  <2> QED BY ONLY <2>1, <2>2
<1>13. ASSUME NEW i \in DOMAIN log \ DOMAIN old
       PROVE  /\ i - Len(old) \in 1..m
              /\ log[i] = append_event(k, Nth(mine, i - Len(old)))
              /\ Nth(mine, i - Len(old)) \in mine
  <2>1. PICK h : h = i - Len(old)
    OBVIOUS
  <2>2. h \in 1..m /\ log[i] = tail[h]
    BY <1>5, <1>12, <2>1
  <2> QED BY <1>5, <1>8, <2>1, <2>2
<1> QED BY <1>1, <1>4, <1>5, <1>9, <1>12, <1>13

\* Every new row of a log is that of an event of the call in its run.
RowsOf(k, c, o, n) ==
    \A r \in Run : \A i \in NewRows(o, n, r) :
       \E j \in DOMAIN c.events : c.events[j].run = r /\ n.log[r][i] = append_event(k, j)

LEMMA LogWritten ==
    ASSUME StoreInv, NEW k, NEW c, Committing(k, c), NEW n, n = Updated(k)
    PROVE  /\ Grown(db, n)
           /\ RowsOf(k, c, db, n)
           /\ One(c) => Gains(db, n, append_event(k, 1))
           /\ Retried(k, c) => Gains(db, n, append_event(k, 2))
<1>1. n.log = [r \in Run |-> next_sequence(k, r)]
  BY DEF Updated
<1>2. ASSUME NEW r \in Run
      PROVE  /\ n.log[r] \in Seq(LogRow)
             /\ Len(n.log[r]) = Len(db.log[r]) + Cardinality(EventsIn(c, r))
             /\ Len(db.log[r]) \in Nat /\ Cardinality(EventsIn(c, r)) \in Nat
             /\ DOMAIN db.log[r] = 1..Len(db.log[r])
             /\ \A i \in DOMAIN db.log[r] : n.log[r][i] = db.log[r][i]
             /\ \A i \in NewRows(db, n, r) :
                   /\ n.log[r][i] = append_event(k, Nth(EventsIn(c, r), i - Len(db.log[r])))
                   /\ Nth(EventsIn(c, r), i - Len(db.log[r])) \in EventsIn(c, r)
  <2>1. PICK log : log = next_sequence(k, r)
    OBVIOUS
  <2>2. n.log[r] = log
    BY <1>1, <2>1
  <2> QED BY <2>1, <2>2, NextIs DEF NewRows
<1>3. n.log \in [Run -> Seq(LogRow)]
  BY <1>1, <1>2
<1>4. Grown(db, n)
  BY <1>2, <1>3 DEF Grown
<1>5. RowsOf(k, c, db, n)
  BY <1>2 DEF RowsOf, EventsIn
<1>6. ASSUME NEW j \in {1, 2}, EventsIn(c, 0) = {j}
      PROVE  Gains(db, n, append_event(k, j))
  <2>1. Cardinality(EventsIn(c, 0)) = 1 /\ Nth(EventsIn(c, 0), 1) = j
    BY <1>6, NthIs
  <2>2. PICK l : l = Len(db.log[0]) + 1
    OBVIOUS
  <2>3. n.log[0] \in Seq(LogRow) /\ Len(n.log[0]) = l /\ l \in Nat /\ Len(db.log[0]) \in Nat
        /\ DOMAIN db.log[0] = 1..Len(db.log[0])
    BY <1>2, <2>1, <2>2, FirstRun
  <2>4. l \in NewRows(db, n, 0) /\ l - Len(db.log[0]) = 1
    BY <2>2, <2>3 DEF NewRows
  <2>5. n.log[0][l] = append_event(k, Nth(EventsIn(c, 0), 1))
    BY <1>2, <2>4, FirstRun
  <2> QED BY <2>1, <2>2, <2>3, <2>5 DEF Gains
<1>7. One(c) => EventsIn(c, 0) = {1}
  <2>1. ASSUME NEW b \in BOOLEAN, c.events = <<Ev(0, b)>> PROVE EventsIn(c, 0) = {1}
    <3>1. DOMAIN c.events = {1} /\ c.events[1].run = 0
      BY <2>1 DEF Ev
    <3> QED BY <3>1 DEF EventsIn
  <2> QED BY <2>1 DEF One
<1>8. Retried(k, c) => EventsIn(c, 0) = {2}
  <2>1. ASSUME NEW b \in BOOLEAN, c.events = <<Ev(k, FALSE), Ev(0, b)>>
        PROVE  EventsIn(c, 0) = {2}
    <3>1. DOMAIN c.events = {1, 2} /\ c.events[1].run = k /\ c.events[2].run = 0 /\ k # 0
      BY <2>1, StoreConstants DEF Ev, Committing, Call
    <3> QED BY <3>1 DEF EventsIn
  <2> QED BY <2>1 DEF Retried
<1> QED BY <1>4, <1>5, <1>6, <1>7, <1>8

\* What the transaction writes beside the logs.
Writes(k, c, o, n) ==
    /\ n.arts = o.arts \cup c.sealed
    /\ n.snapshots = IF c.kind = "snapshot" THEN o.snapshots \cup {k} ELSE o.snapshots
    /\ n.runs = IF c.kind = "retry" THEN o.runs \cup {k} ELSE o.runs
    /\ n.state = [x \in Subject |-> IF c.kind = "move" /\ x = c.subject THEN c.to ELSE o.state[x]]
    /\ c.kind = "ask" =>
          n.approvals = [q \in DOMAIN o.approvals \cup {k} |->
             IF q = k THEN [state |-> "pending", scope |-> "exact_call"] ELSE o.approvals[q]]
    /\ c.kind \in {"decide", "resolve"} =>
          /\ DOMAIN n.approvals = DOMAIN o.approvals
          /\ \A q \in DOMAIN o.approvals : q # 0 => n.approvals[q] = o.approvals[q]
          /\ n.approvals[0] = [state |-> c.to, scope |-> IF c.kind = "decide" THEN c.subject
                                                         ELSE o.approvals[0].scope]
          /\ o.approvals[0].state = "pending"
          /\ n.approvals = [q \in DOMAIN n.approvals |-> n.approvals[q]]
    /\ c.kind \notin {"ask", "decide", "resolve"} => n.approvals = o.approvals
    /\ c.kind = "move" => <<o.state[c.subject], c.to>> \in Edges

LEMMA ChangeWritten ==
    ASSUME StoreInv, NEW k, NEW c, Committing(k, c), change(k), NEW n, n = Updated(k)
    PROVE  Writes(k, c, db, n)
<1>1. /\ n.arts = db.arts \cup c.sealed
      /\ n.snapshots = IF c.kind = "snapshot" THEN db.snapshots \cup {k} ELSE db.snapshots
      /\ n.runs = IF c.kind = "retry" THEN db.runs \cup {k} ELSE db.runs
  BY DEF Updated, insert_artifact, insert_snapshot, insert_retry, Committing
<1>2. n.state = [x \in Subject |-> IF c.kind = "move" /\ x = c.subject THEN c.to ELSE db.state[x]]
  <2>1. n.state = update_record(k)
    BY DEF Updated
  <2> QED BY <2>1 DEF update_record, Committing
<1>3. n.approvals = CASE c.kind = "ask" -> insert_approval(k)
                      [] c.kind \in {"decide", "resolve"} -> update_resolution(k)
                      [] OTHER -> db.approvals
  BY DEF Updated, Committing
<1>4. CASE c.kind = "ask"
  <2>1. n.approvals = insert_approval(k)
    BY <1>3, <1>4
  <2> QED BY <1>1, <1>2, <1>4, <2>1 DEF Writes, insert_approval
<1>5. CASE c.kind \in {"decide", "resolve"}
  <2>1. n.approvals = update_resolution(k)
    BY <1>3, <1>5
  <2>2. PICK old : old = db.approvals
    OBVIOUS
  <2>3. 0 \in DOMAIN old /\ old \in [DOMAIN old -> ApprovalRow]
    BY <2>2 DEF StoreInv, TrueDatabase, DatabaseType
  <2>4. PICK answer : answer = [state |-> c.to, scope |-> IF c.kind = "decide" THEN c.subject
                                                          ELSE old[0].scope]
    OBVIOUS
  <2>5. n.approvals = [old EXCEPT ![0] = answer]
    BY <2>1, <2>2, <2>4 DEF update_resolution, Committing
  <2>6. /\ DOMAIN n.approvals = DOMAIN old /\ n.approvals[0] = answer
        /\ \A q \in DOMAIN old : q # 0 => n.approvals[q] = old[q]
        /\ n.approvals = [q \in DOMAIN n.approvals |-> n.approvals[q]]
    BY <2>3, <2>5
  <2>7. db.approvals[0].state = "pending"
    BY <1>5 DEF change, Allowed, Read, decide, resolve, Committing
  <2> QED BY <1>1, <1>2, <1>5, <2>2, <2>4, <2>6, <2>7 DEF Writes
<1>6. CASE c.kind \notin {"ask", "decide", "resolve"}
  <2>1. n.approvals = db.approvals
    BY <1>3, <1>6
  <2>2. c.kind = "move" => <<db.state[c.subject], c.to>> \in Edges
    BY DEF change, Allowed, Read, validate_edge, Committing
  <2> QED BY <1>1, <1>2, <1>6, <2>1, <2>2 DEF Writes
<1> QED BY <1>4, <1>5, <1>6

\* The rows of a call, by what it announces.
LEMMA RowKinds ==
    ASSUME NEW k, NEW c, NEW o, NEW n, Committing(k, c), RowsOf(k, c, o, n),
           NEW r \in Run, NEW i \in NewRows(o, n, r)
    PROVE  /\ n.log[r][i].kind \in {c.kind, "retried"}
           /\ n.log[r][i].kind = "retried" => c.kind = "retry"
           /\ n.log[r][i].art \in c.sealed \cup {NoArtifact}
           /\ n.log[r][i].subject = c.subject
<1>1. PICK j \in DOMAIN c.events : n.log[r][i] = append_event(k, j)
  BY DEF RowsOf
<1>2. c.kind # "retried"
  BY DEF Committing, StoreCall, CallKind
<1> QED BY <1>1, <1>2, RowTyped

LEMMA FirstRow ==
    ASSUME NEW k, NEW c, Committing(k, c), One(c)
    PROVE  LET w == append_event(k, 1) IN
           w.kind = c.kind /\ w.subject = c.subject /\ w.to = c.to /\ w.call = k
<1>1. 1 \in DOMAIN c.events /\ c.kind # "retry"
  <2>1. 1 \in DOMAIN c.events /\ Len(c.events) = 1
    BY DEF One
  <2>2. Retried(k, c) => Len(c.events) = 2
    BY DEF Retried
  <2> QED BY <2>1, <2>2 DEF Committing, Asked
<1> QED BY <1>1, RowTyped

LEMMA RetriedRow ==
    ASSUME NEW k, NEW c, Committing(k, c), c.kind = "retry", Retried(k, c)
    PROVE  append_event(k, 2).kind = "retried" /\ append_event(k, 2).call = k
<1>1. 2 \in DOMAIN c.events /\ c.events[2].run = 0
  BY DEF Retried, Ev
<1> QED BY <1>1, RowTyped

LEMMA MovesStayTrue ==
    ASSUME NEW k, NEW c, NEW o, NEW n, TrueDatabase(o), Committing(k, c), Grown(o, n),
           RowsOf(k, c, o, n), One(c) => Gains(o, n, append_event(k, 1)), Writes(k, c, o, n)
    PROVE  MovesTold(n)
<1>1. DatabaseType(o) /\ MovesTold(o)
  BY DEF TrueDatabase
<1>2. SUFFICES ASSUME NEW x \in Subject
      PROVE  /\ \A i \in MovesOf(n, x) : <<ToldUpTo(n, x, i), n.log[0][i].to>> \in Edges
             /\ n.state[x] = ToldUpTo(n, x, Len(n.log[0]) + 1)
  BY DEF MovesTold
<1>3. /\ \A i \in MovesOf(o, x) : <<ToldUpTo(o, x, i), o.log[0][i].to>> \in Edges
      /\ o.state[x] = ToldUpTo(o, x, Len(o.log[0]) + 1)
  BY <1>1 DEF MovesTold
<1>4. CASE c.kind = "move" /\ c.subject = x
  <2>1. One(c)
    BY <1>4 DEF Committing, Asked
  <2>2. PICK w : w = append_event(k, 1)
    OBVIOUS
  <2>3. w.kind = "move" /\ w.subject = x /\ w.to = c.to /\ Gains(o, n, w)
    BY <1>4, <2>1, <2>2, FirstRow
  <2>4. PICK l : l = Len(o.log[0]) + 1
    OBVIOUS
  <2>5. /\ MovesOf(n, x) = MovesOf(o, x) \cup {l}
        /\ \A i \in MovesOf(o, x) : n.log[0][i] = o.log[0][i]
        /\ \A i \in MovesOf(o, x) \cup {l} : ToldUpTo(n, x, i) = ToldUpTo(o, x, i)
        /\ ToldUpTo(n, x, Len(n.log[0]) + 1) = w.to
    <3>1. /\ MovesOf(n, w.subject) = MovesOf(o, w.subject) \cup {Len(o.log[0]) + 1}
          /\ \A i \in MovesOf(o, w.subject) : n.log[0][i] = o.log[0][i]
          /\ \A i \in MovesOf(o, w.subject) \cup {Len(o.log[0]) + 1} :
                ToldUpTo(n, w.subject, i) = ToldUpTo(o, w.subject, i)
          /\ ToldUpTo(n, w.subject, Len(n.log[0]) + 1) = w.to
      <4>1. MovedOn(o, n, w)
        BY <1>1, <2>3, MovesMore
      <4> QED BY ONLY <4>1 DEF MovedOn
    <3> QED BY ONLY <2>3, <2>4, <3>1
  <2>6. n.log[0][l] = w
    BY <2>3, <2>4 DEF Gains
  <2>7. <<ToldUpTo(n, x, l), w.to>> \in Edges
    <3>1. <<o.state[x], c.to>> \in Edges
      BY ONLY <1>4, Writes(k, c, o, n) DEF Writes
    <3>2. ToldUpTo(n, x, l) = ToldUpTo(o, x, l)
      BY ONLY <2>5
    <3>3. o.state[x] = ToldUpTo(o, x, l)
      BY ONLY <1>3, <2>4
    <3> QED BY ONLY <1>4, <2>3, <3>1, <3>2, <3>3
  <2>8. n.state[x] = w.to
    BY <1>4, <2>3 DEF Writes
  <2>9. ASSUME NEW i \in MovesOf(n, x) PROVE <<ToldUpTo(n, x, i), n.log[0][i].to>> \in Edges
    BY <1>3, <2>5, <2>6, <2>7
  <2> QED BY <2>5, <2>8, <2>9
<1>5. CASE ~(c.kind = "move" /\ c.subject = x)
  <2>1. \A i \in NewRows(o, n, 0) : n.log[0][i].kind # "move" \/ n.log[0][i].subject # x
    BY <1>5, FirstRun, RowKinds
  <2>2. /\ MovesOf(n, x) = MovesOf(o, x)
        /\ \A i \in MovesOf(o, x) : n.log[0][i] = o.log[0][i]
        /\ \A i \in MovesOf(o, x) : ToldUpTo(n, x, i) = ToldUpTo(o, x, i)
        /\ ToldUpTo(n, x, Len(n.log[0]) + 1) = ToldUpTo(o, x, Len(o.log[0]) + 1)
    BY <1>1, <2>1, MovesOther
  <2>3. n.state[x] = o.state[x]
    BY <1>5 DEF Writes
  <2> QED BY <1>3, <2>2, <2>3
<1> QED BY <1>4, <1>5

LEMMA AnswerStaysTrue ==
    ASSUME NEW k, NEW c, NEW o, NEW n, TrueDatabase(o), Committing(k, c), Grown(o, n),
           RowsOf(k, c, o, n), One(c) => Gains(o, n, append_event(k, 1)), Writes(k, c, o, n)
    PROVE  AnswerTold(n)
<1>1. DatabaseType(o) /\ AnswerTold(o) /\ 0 \in DOMAIN o.approvals
  BY DEF TrueDatabase, DatabaseType
<1>2. PICK K : K = {"decide", "resolve"}
  OBVIOUS
<1>3. CASE c.kind \in K
  <2>1. One(c) /\ o.approvals[0].state = "pending"
    BY <1>2, <1>3 DEF Committing, Asked, Writes
  <2>2. PICK w : w = append_event(k, 1)
    OBVIOUS
  <2>3. w.kind = c.kind /\ w.subject = c.subject /\ w.to = c.to /\ Gains(o, n, w)
    BY <2>1, <2>2, FirstRow
  <2>4. PICK l : l = Len(o.log[0]) + 1
    OBVIOUS
  <2>5. LogOf(o, K) = {}
    BY <1>1, <1>2, <2>1 DEF AnswerTold
  <2>6. LogOf(n, K) = {l} /\ n.log[0][l] = w
    BY <1>1, <1>3, <2>3, <2>4, <2>5, LogMore DEF Gains
  <2>7. /\ n.approvals[0].state = c.to
        /\ c.kind = "decide" => n.approvals[0].scope = c.subject
    BY <1>2, <1>3 DEF Writes
  <2>8. c.to \in {"granted", "expired"} /\ (c.to = "granted" => c.kind = "decide")
    BY <1>2, <1>3 DEF Committing, Asked
  <2> QED BY <1>2, <2>3, <2>6, <2>7, <2>8 DEF AnswerTold
<1>4. CASE c.kind \notin K
  <2>1. \A i \in NewRows(o, n, 0) : n.log[0][i].kind \notin K
    BY <1>2, <1>4, FirstRun, RowKinds
  <2>2. LogOf(n, K) = LogOf(o, K)
    BY <1>1, <2>1, LogOther
  <2>3. \A i \in LogOf(o, K) : n.log[0][i] = o.log[0][i]
    BY <1>1, FirstRun, LogLengths DEF LogOf
  <2>4. n.approvals[0] = o.approvals[0]
    <3>1. k # 0
      BY StoreConstants DEF Committing, Call
    <3> QED BY <1>1, <1>2, <1>4, <3>1 DEF Writes
  <2> QED BY <1>1, <1>2, <2>2, <2>3, <2>4 DEF AnswerTold
<1> QED BY <1>3, <1>4

LEMMA RowsStayTrue ==
    ASSUME NEW k, NEW c, NEW o, NEW n, TrueDatabase(o), Committing(k, c), Grown(o, n),
           RowsOf(k, c, o, n), One(c) => Gains(o, n, append_event(k, 1)),
           Retried(k, c) => Gains(o, n, append_event(k, 2)), Writes(k, c, o, n)
    PROVE  DatabaseType(n) /\ SpillsRecorded(n) /\ RowsTold(n)
<1>1. DatabaseType(o) /\ RowsTold(o) /\ SpillsRecorded(o)
      /\ c.sealed \subseteq Artifact /\ k \in Run
      /\ 0 \in DOMAIN o.approvals
  BY StoreConstants DEF TrueDatabase, Committing, StoreCall, Call, Run, DatabaseType
<1>2. DatabaseType(n)
  <2>1. n.arts \in SUBSET Artifact /\ n.runs \in SUBSET Run /\ n.log \in [Run -> Seq(LogRow)]
    BY <1>1 DEF DatabaseType, Writes, Grown
  <2>2. n.state \in [Subject -> {"fresh", "running", "ended"}]
    <3>1. c.kind = "move" => c.to \in {"running", "ended"}
      BY DEF Committing, Asked
    <3> QED BY <1>1, <3>1 DEF DatabaseType, Writes
  <2>3. 0 \in DOMAIN n.approvals /\ n.approvals \in [DOMAIN n.approvals -> ApprovalRow]
    <3>1. CASE c.kind = "ask"
      BY <1>1, <3>1 DEF DatabaseType, Writes, ApprovalRow, ApprovalScope
    <3>2. CASE c.kind \in {"decide", "resolve"}
      <4>1. n.approvals[0] \in ApprovalRow
        <5>1. c.to \in {"granted", "expired"} /\ (c.kind = "decide" => c.subject \in ApprovalScope)
          BY <3>2 DEF Committing, Asked
        <5>2. o.approvals[0] \in ApprovalRow
          BY <1>1 DEF DatabaseType
        <5> QED BY <3>2, <5>1, <5>2 DEF Writes, ApprovalRow
      <4>2. \A q \in DOMAIN o.approvals : o.approvals[q] \in ApprovalRow
        BY <1>1 DEF DatabaseType
      <4>3. /\ DOMAIN n.approvals = DOMAIN o.approvals
            /\ \A q \in DOMAIN o.approvals : q # 0 => n.approvals[q] = o.approvals[q]
            /\ n.approvals = [q \in DOMAIN n.approvals |-> n.approvals[q]]
        BY <3>2 DEF Writes
      <4>4. \A q \in DOMAIN n.approvals : n.approvals[q] \in ApprovalRow
        BY <4>1, <4>2, <4>3
      <4> QED BY <1>1, <4>3, <4>4
    <3>3. CASE c.kind \notin {"ask", "decide", "resolve"}
      BY <1>1, <3>3 DEF DatabaseType, Writes
    <3> QED BY <3>1, <3>2, <3>3
  <2> QED BY <2>1, <2>2, <2>3 DEF DatabaseType
<1>3. SpillsRecorded(n)
  <2>1. SUFFICES ASSUME NEW r \in Run, NEW i \in DOMAIN n.log[r]
                 PROVE  n.log[r][i].art \in n.arts \cup {NoArtifact}
    BY DEF SpillsRecorded
  <2>2. CASE i \in DOMAIN o.log[r]
    BY <1>1, <2>2, LogLengths DEF SpillsRecorded, Writes
  <2>3. CASE i \notin DOMAIN o.log[r]
    <3>1. i \in NewRows(o, n, r)
      BY <2>3 DEF NewRows
    <3> QED BY <3>1, RowKinds DEF Writes
  <2> QED BY <2>2, <2>3
<1>4. ASSUME NEW kind \in {"snapshot", "ask", "retried"}
      PROVE  CallsOf(n, {kind}) = CallsOf(o, {kind}) \cup
                (IF c.kind = kind \/ (kind = "retried" /\ c.kind = "retry") THEN {k} ELSE {})
  <2>1. c.kind # "retried"
    BY DEF Committing, StoreCall, CallKind
  <2>2. CASE c.kind = kind
    <3>1. One(c)
      BY <2>1, <2>2 DEF Committing, Asked
    <3>2. PICK w : w = append_event(k, 1)
      OBVIOUS
    <3>3. w.kind \in {kind} /\ w.call = k /\ Gains(o, n, w)
      BY <2>2, <3>1, <3>2, FirstRow
    <3> QED BY <1>1, <2>2, <3>3, LogMore
  <2>3. CASE kind = "retried" /\ c.kind = "retry"
    <3>1. Retried(k, c)
      BY <2>3 DEF Committing, Asked
    <3>2. PICK w : w = append_event(k, 2)
      OBVIOUS
    <3>3. w.kind \in {kind} /\ w.call = k /\ Gains(o, n, w)
      BY <2>3, <3>1, <3>2, RetriedRow
    <3> QED BY <1>1, <2>3, <3>3, LogMore
  <2>4. CASE c.kind # kind /\ ~(kind = "retried" /\ c.kind = "retry")
    <3>1. \A i \in NewRows(o, n, 0) : n.log[0][i].kind \notin {kind}
      BY <2>4, FirstRun, RowKinds
    <3> QED BY <1>1, <2>4, <3>1, LogOther
  <2> QED BY <2>2, <2>3, <2>4
<1>5. n.snapshots = CallsOf(n, {"snapshot"})
  BY <1>1, <1>4 DEF RowsTold, Writes
<1>6. DOMAIN n.approvals = {0} \cup CallsOf(n, {"ask"})
  <2>1. DOMAIN n.approvals = DOMAIN o.approvals \cup (IF c.kind = "ask" THEN {k} ELSE {})
    BY DEF Writes
  <2> QED BY <1>1, <1>4, <2>1 DEF RowsTold
<1>7. n.runs = {0} \cup CallsOf(n, {"retried"})
  <2>1. n.runs = o.runs \cup (IF c.kind = "retry" THEN {k} ELSE {}) /\ c.kind # "retried"
    BY DEF Writes, Committing, StoreCall, CallKind
  <2> QED BY <1>1, <1>4, <2>1 DEF RowsTold
<1>8. \A r \in n.runs : \A i \in DOMAIN n.log[r] : n.log[r][i].art \in n.arts \cup {NoArtifact}
  BY <1>2, <1>3 DEF SpillsRecorded, DatabaseType
<1> QED BY <1>2, <1>3, <1>5, <1>6, <1>7, <1>8 DEF RowsTold

LEMMA CommitKeeps ==
    ASSUME StoreInv, NEW k, NEW c, Committing(k, c), NEW n, n = Updated(k),
           TrueDatabase(n), Writes(k, c, db, n), commit_event(k)
    PROVE  StoreInv'
<1>1. db' = n /\ survivors' = survivors \cup {n}
      /\ storeCalls' = [storeCalls EXCEPT ![k].pc = "done"]
      /\ UNCHANGED <<files, meddled, stuck, orphaned>>
  BY DEF commit_event
<1>2. PICK e : e = [c EXCEPT !.pc = "done"]
  OBVIOUS
<1>3. k \in DOMAIN storeCalls /\ c = storeCalls[k] /\ c.pc = "commit" /\ k \in Call
      /\ c \in StoreCall /\ Prepared(k, c) /\ AsRequested(k, c)
  BY DEF Committing, StoreInv, CallsTold
<1>4. /\ e \in StoreCall /\ e.pc = "done" /\ e.sealed = c.sealed
      /\ e.kind = c.kind /\ e.subject = c.subject /\ e.to = c.to /\ e.events = c.events
  BY <1>2, <1>3, Placed DEF CallPlace
<1>5. AsRequested(k, e) /\ Prepared(k, e)
  BY <1>3, <1>4, SameRequest DEF Prepared, Sealing
<1>6. storeCalls' = [storeCalls EXCEPT ![k] = e]
  BY <1>1, <1>2, <1>3
<1>7. /\ storeCalls' \in Seq(StoreCall) /\ Len(storeCalls') = Len(storeCalls)
      /\ DOMAIN storeCalls' = DOMAIN storeCalls /\ storeCalls'[k] = e
      /\ \A j \in DOMAIN storeCalls : j # k => storeCalls'[j] = storeCalls[j]
  BY <1>3, <1>4, <1>6 DEF StoreInv, StoreTypes
<1>8. n.arts = db.arts \cup c.sealed
  BY DEF Writes
<1>9. StoreTypes'
  BY <1>1, <1>7 DEF StoreInv, StoreTypes
<1>10. CallsTold'
  <2>1. ASSUME NEW a \in Artifact
        PROVE  /\ a[1] \in DOMAIN storeCalls' => Owned(a[1], storeCalls[a[1]], a)'
               /\ a[1] \notin DOMAIN storeCalls' => files'[a].name = "none"
    <3>1. /\ a[1] \in DOMAIN storeCalls => Owned(a[1], storeCalls[a[1]], a)
          /\ a[1] \notin DOMAIN storeCalls => files[a].name = "none"
      BY DEF StoreInv, CallsTold
    <3>2. CASE a[1] = k
      <4>1. files[a].name # "none" => a \in c.sealed
        BY <1>3, <3>1, <3>2 DEF Owned, Sealing
      <4> QED BY <1>1, <1>4, <1>7, <1>8, <3>2, <4>1 DEF Owned, Sealing
    <3>3. CASE a[1] # k
      BY <1>1, <1>7, <1>8, <3>1, <3>3 DEF Owned
    <3> QED BY <3>2, <3>3
  <2>2. ASSUME NEW a \in DOMAIN meddled'
        PROVE  a[1] \in DOMAIN storeCalls' /\ storeCalls'[a[1]].pc = "done"
    BY <1>1, <1>4, <1>7 DEF StoreInv, CallsTold
  <2>3. \A j \in DOMAIN storeCalls' : AsRequested(j, storeCalls'[j]) /\ Prepared(j, storeCalls'[j])
    BY <1>5, <1>7 DEF StoreInv, CallsTold
  <2> QED BY <2>1, <2>2, <2>3 DEF CallsTold
<1>11. ASSUME NEW d \in survivors, NEW a \in d.arts
       PROVE  /\ a[1] \in DOMAIN storeCalls' /\ storeCalls'[a[1]].pc = "done"
              /\ a \in storeCalls'[a[1]].sealed /\ StandsAs(a)'
  BY <1>1, <1>3, <1>7 DEF StoreInv, ArtifactsStand, StandsAs
<1>12. ASSUME NEW a \in c.sealed
       PROVE  /\ a[1] \in DOMAIN storeCalls' /\ storeCalls'[a[1]].pc = "done"
              /\ a \in storeCalls'[a[1]].sealed /\ StandsAs(a)'
  <2>1. a \in Artifact /\ a[1] = k
    BY <1>3 DEF StoreCall, Prepared
  <2>2. SealedWhole(files[a])
    BY <1>3, <2>1 DEF StoreInv, CallsTold, Owned
  <2>3. a \notin DOMAIN meddled
    BY <1>3, <2>1 DEF StoreInv, CallsTold
  <2> QED BY <1>1, <1>3, <1>4, <1>7, <2>1, <2>2, <2>3 DEF StandsAs
<1>13. ASSUME NEW d \in survivors' PROVE TrueDatabase(d) /\ ArtifactsStand(d)'
  <2>1. CASE d \in survivors
    BY <1>11, <2>1 DEF StoreInv, ArtifactsStand
  <2>2. CASE d = n
    <3>1. db \in survivors
      BY DEF StoreInv
    <3> QED BY <1>8, <1>11, <1>12, <2>2, <3>1 DEF ArtifactsStand
  <2> QED BY <1>1, <2>1, <2>2
<1>14. db' \in survivors'
  BY <1>1
<1> QED BY <1>9, <1>10, <1>13, <1>14 DEF StoreInv

LEMMA commit_event_step ==
    ASSUME StoreInv, NEW k \in DOMAIN storeCalls, commit_event(k)
    PROVE  StoreInv'
<1>1. PICK c : c = storeCalls[k]
  OBVIOUS
<1>2. PICK n : n = Updated(k)
  OBVIOUS
<1>3. Committing(k, c) /\ change(k)
  BY <1>1, CallOf DEF commit_event, Committing
<1>4. PICK o : o = db
  OBVIOUS
<1>5. TrueDatabase(o)
  BY <1>4 DEF StoreInv
<1>6. /\ Grown(o, n) /\ RowsOf(k, c, o, n)
      /\ One(c) => Gains(o, n, append_event(k, 1))
      /\ Retried(k, c) => Gains(o, n, append_event(k, 2))
      /\ Writes(k, c, o, n)
  BY <1>2, <1>3, <1>4, LogWritten, ChangeWritten
<1>7. TrueDatabase(n)
  BY <1>3, <1>5, <1>6, MovesStayTrue, AnswerStaysTrue, RowsStayTrue DEF TrueDatabase
<1> QED BY <1>2, <1>3, <1>4, <1>6, <1>7, CommitKeeps

-----------------------------------------------------------------------------
\* The theorem

LEMMA StoreStart == StoreInit => StoreInv
<1> SUFFICES ASSUME StoreInit PROVE StoreInv
  OBVIOUS
<1> USE StoreConstants
<1>1. PICK blank : blank \in Seq(LogRow) /\ blank = <<>> /\ Len(blank) = 0 /\ DOMAIN blank = {}
  <2>1. PICK empty : empty = <<>>
    OBVIOUS
  <2>2. empty \in Seq(LogRow) /\ Len(empty) = 0
    BY <2>1
  <2>3. DOMAIN empty = {}
    BY <2>2
  <2> QED BY <2>1, <2>2, <2>3
<1>2. /\ db.arts = {} /\ db.snapshots = {} /\ db.runs = {0}
      /\ db.state = [x \in Subject |-> "fresh"]
      /\ db.approvals = [q \in {0} |-> [state |-> "pending", scope |-> "tool_for_run"]]
      /\ db.log = [r \in Run |-> blank]
  BY <1>1 DEF StoreInit
<1>3. 0 \in Run /\ db.log[0] = blank
  BY <1>2, FirstRun
<1>4. DatabaseType(db)
  BY <1>1, <1>2, <1>3 DEF DatabaseType, ApprovalRow, ApprovalScope
<1>5. \A K : LogOf(db, K) = {} /\ CallsOf(db, K) = {}
  BY <1>1, <1>3 DEF LogOf, CallsOf
<1>6. MovesTold(db)
  <2>1. \A x : MovesOf(db, x) = {}
    BY <1>5 DEF MovesOf
  <2>2. \A x, i : ToldUpTo(db, x, i) = "fresh"
    BY <2>1 DEF ToldUpTo
  <2> QED BY <1>2, <2>1, <2>2 DEF MovesTold
<1>7. AnswerTold(db)
  BY <1>2, <1>5 DEF AnswerTold
<1>8. RowsTold(db) /\ SpillsRecorded(db)
  BY <1>1, <1>2, <1>3, <1>5 DEF RowsTold, SpillsRecorded
<1>9. TrueDatabase(db) /\ ArtifactsStand(db)
  BY <1>2, <1>4, <1>6, <1>7, <1>8 DEF TrueDatabase, ArtifactsStand
<1>10. /\ files = [a \in Artifact |-> NoFile] /\ storeCalls = <<>> /\ DOMAIN storeCalls = {}
       /\ survivors = {db} /\ meddled = [a \in {} |-> "none"] /\ stuck = {} /\ orphaned = {}
  BY DEF StoreInit
<1>11. StoreTypes
  <2>1. NoFile \in StoreFile
    BY DEF NoFile, StoreFile
  <2> QED BY <1>10, <2>1 DEF StoreTypes
<1>12. CallsTold
  BY <1>10 DEF CallsTold, NoFile
<1> QED BY <1>9, <1>10, <1>11, <1>12 DEF StoreInv

LEMMA StoreSteps == StoreInv /\ [StoreNext]_storeVars => StoreInv'
<1> SUFFICES ASSUME StoreInv, [StoreNext]_storeVars PROVE StoreInv'
  OBVIOUS
<1>1. ASSUME NEW k \in DOMAIN storeCalls,
             \/ load(k) \/ open(k) \/ OpenFails(k) \/ write(k) \/ flush_and_sync(k)
             \/ rename(k) \/ release(k) \/ Abandon(k) \/ commit_event(k) \/ CommitRefused(k)
      PROVE  StoreInv'
  BY <1>1, load_step, open_step, OpenFails_step, write_step, flush_and_sync_step, rename_step,
     release_step, Abandon_step, commit_event_step
<1>2. CASE UNCHANGED storeVars
  BY <1>2 DEF storeVars, StoreInv, StoreTypes, CallsTold, Owned, ArtifactsStand, StandsAs
<1> QED BY <1>1, <1>2, Begin_step, checkpoint_step, PowerLoss_step, Meddle_step DEF StoreNext

LEMMA StoreSays == StoreInv => StoreKept
<1> SUFFICES ASSUME StoreInv PROVE StoreKept
  OBVIOUS
<1>1. TrueDatabase(db) /\ ArtifactsStand(db)
  BY DEF StoreInv
<1>2. BytesStand
  <2>1. ASSUME NEW a \in db.arts
        PROVE  /\ probe(a) = IF a \in DOMAIN meddled THEN meddled[a] ELSE "available"
               /\ a \notin DOMAIN meddled => files[a].passes = 1
    <3>1. StandsAs(a)
      BY <1>1 DEF ArtifactsStand
    <3>2. CASE a \notin DOMAIN meddled
      <4>1. SealedWhole(files[a])
        BY <3>1, <3>2 DEF StandsAs
      <4> QED BY <3>2, <4>1 DEF SealedWhole, probe
    <3>3. CASE a \in DOMAIN meddled /\ meddled[a] = "missing" /\ files[a] = NoFile
      BY <3>3 DEF probe, NoFile
    <3>4. CASE a \in DOMAIN meddled /\ meddled[a] = "size_mismatch" /\ Rewritten(files[a])
      <4>1. files[a].name = "final" /\ files[a].bytes # Full
        BY <3>4 DEF Rewritten, Full
      <4> QED BY <3>4, <4>1 DEF probe
    <3> QED BY <3>1, <3>2, <3>3, <3>4 DEF StandsAs
  <2> QED BY <2>1 DEF BytesStand
<1>3. NoLitter
  BY DEF NoLitter, Over, StoreInv, CallsTold, Owned
<1>4. LogTellsTheState
  BY <1>1 DEF LogTellsTheState, TrueDatabase
<1> QED BY <1>2, <1>3, <1>4 DEF StoreKept

\* What the store holds is whole: every recorded artifact has its bytes,
\* whichever commits a power loss takes back; a refused call leaves no file
\* without a row unless the machine went down or a removal failed; and the log
\* is the history of the records (artifact.rs, event.rs, mod.rs).
THEOREM StoreIsKept == StoreSpec => []StoreKept
<1>1. StoreSpec => []StoreInv
  BY StoreStart, StoreSteps, PTL DEF StoreSpec
<1> QED BY <1>1, StoreSays, PTL

=============================================================================
