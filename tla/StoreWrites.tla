---------------------------- MODULE StoreWrites ----------------------------
(***************************************************************************)
(* The write side of the runtime store: artifacts that are streamed to a   *)
(* file and then recorded, events that ride in one transaction with the    *)
(* change they announce, and event payloads too large for their row, which *)
(* are spilled to an artifact before the transaction opens.                *)
(*                                                                         *)
(* A call of the store goes through                                        *)
(*    load    the record it will change is read, outside the transaction;  *)
(*    open    a `.tmp-` file is created for the next artifact it writes;   *)
(*    write, sync, rename, syncdir   the sealing of that artifact;         *)
(*    commit  one write transaction, which may be refused.                 *)
(* Any file operation may fail, the machine may lose power between two     *)
(* steps, and somebody outside may delete or rewrite a finished artifact.  *)
(***************************************************************************)
EXTENDS Naturals, Sequences, FiniteSets

CONSTANTS MaxStoreCalls,    \* calls made of the store
          MaxCrashes,  \* power losses
          MaxMeddling, \* files somebody outside touches
          MaxStuck     \* removals the file system refuses

ASSUME StoreConstants ==
    {MaxStoreCalls, MaxCrashes, MaxMeddling, MaxStuck} \subseteq Nat

Call == 1..MaxStoreCalls
\* An artifact is named after the call that writes it: identities are fresh.
Artifact == Call \X {1, 2}
NoArtifact == <<0, 0>>

VARIABLES db,        \* the committed database
          survivors, \* the commits a power loss may fall back to
          files,     \* the artifact directory
          storeCalls,     \* the calls of the store, in the order they began
          crashes,
          meddled,   \* what an outsider did, for each artifact touched
          stuck,     \* files whose removal the file system refused
          orphaned   \* calls a power loss cut short

storeVars == <<db, survivors, files, storeCalls, crashes, meddled, stuck, orphaned>>

NoFile == [name |-> "none", bytes |-> 0, synced |-> FALSE, entry |-> FALSE, passes |-> 0]
Full == 2

(* A retry inserts a run of its own, named after the call that makes it. *)
Run == 0..MaxStoreCalls

(* The records whose state a call may move, and a lifecycle cut down to the  *)
(* edges that matter here; RunRecords has the whole tables.                  *)
Subject == {"run", "step", "tool_call"}
Edges == {<<"fresh", "running">>, <<"running", "ended">>}

(* Breadths an approval may have; a decision may narrow to the single call. *)
ApprovalScope == {"exact_call", "tool_for_run"}

(***************************************************************************)
(* The calls.  `events` are the events a call records: the run each one    *)
(* belongs to and whether its encoded payload overflows the row.           *)
(***************************************************************************)
Ev(r, overflows) == [run |-> r, big |-> overflows]
NewCall(kind, subject, to, events) ==
    [kind |-> kind, subject |-> subject, to |-> to, events |-> events, pc |-> "load",
     at |-> 0, staging |-> "Temporary", sealed |-> {}, read |-> "none"]

Requests(k) ==
       {NewCall(kind, "none", "none", <<>>) : kind \in {"artifact", "json"}}
  \cup {NewCall("append", "none", "none", <<Ev(0, TRUE)>>)}
  \cup {NewCall("batch", "none", "none", <<Ev(0, TRUE), Ev(0, b)>>) : b \in BOOLEAN}
  \cup {NewCall("move", subject, to, <<Ev(0, subject = "tool_call")>>) :
            subject \in Subject, to \in {"running", "ended"}}
  \cup {NewCall("ask", "none", "none", <<Ev(0, FALSE)>>)}
  \cup {NewCall("decide", scope, "granted", <<Ev(0, b)>>) : scope \in ApprovalScope, b \in BOOLEAN}
  \cup {NewCall("resolve", "none", "expired", <<Ev(0, FALSE)>>)}
  \cup {NewCall("snapshot", "none", "none", <<Ev(0, FALSE)>>)}
  \cup {NewCall("retry", "none", "none", <<Ev(k, FALSE), Ev(0, b)>>) : b \in BOOLEAN}

StoreInit ==
    /\ db = [arts |-> {}, snapshots |-> {}, runs |-> {0},
             state |-> [x \in Subject |-> "fresh"],
             approvals |-> [q \in {0} |-> [state |-> "pending", scope |-> "tool_for_run"]],
             log |-> [r \in Run |-> <<>>]]
    /\ survivors = {db}
    /\ files = [a \in Artifact |-> NoFile]
    /\ storeCalls = <<>>
    /\ crashes = 0
    /\ meddled = [a \in {} |-> "none"]
    /\ stuck = {}
    /\ orphaned = {}

Begin ==
    /\ Len(storeCalls) < MaxStoreCalls
    /\ \E c \in Requests(Len(storeCalls) + 1) : storeCalls' = Append(storeCalls, c)
    /\ UNCHANGED <<db, survivors, files, crashes, meddled, stuck, orphaned>>

CurrentFile(k) == <<k, storeCalls[k].at>>
\* The next event of a call whose payload needs a file, from position `i` on.
Spills(c, i) == {j \in i..Len(c.events) : c.events[j].big}
Least(S) == CHOOSE x \in S : \A y \in S : x <= y
Greatest(S) == CHOOSE x \in S : \A y \in S : y <= x
\* The i-th of a set of positions, in their order.
Nth(S, i) == CHOOSE x \in S : Cardinality({y \in S : y <= x}) = i

\* Where a call goes once everything before position `i` is prepared.
prepare_event(c, i) ==
    IF Spills(c, i) = {}
    THEN [c EXCEPT !.pc = "commit"]
    ELSE [c EXCEPT !.pc = "open", !.at = Least(Spills(c, i)), !.staging = "Temporary"]

\* A tool's artifact, streamed or handed over as a JSON value, has no event.
Streamed(c) == c.kind \in {"artifact", "json"}

\* Redaction::Pending wraps the stream; Redaction::Applied does not.
wrap_stream(c) == IF c.kind = "artifact" THEN 1 ELSE 0

\* An event's payload and a JSON artifact are redacted by value first.
redact_payload(c) == IF c.kind = "artifact" THEN 0 ELSE 1

(***************************************************************************)
(* change_approval and the tool-call and run changes: what is changed is   *)
(* read first, so that the payload can be prepared outside the             *)
(* transaction.                                                            *)
(***************************************************************************)
Read(k) ==
    CASE storeCalls[k].kind \in {"decide", "resolve"} -> db.approvals[0].state
      [] storeCalls[k].kind = "move" -> db.state[storeCalls[k].subject]
      [] OTHER -> "none"

load(k) ==
    /\ storeCalls[k].pc = "load"
    /\ storeCalls' = [storeCalls EXCEPT ![k] =
          IF Streamed(@)
          THEN [@ EXCEPT !.pc = "open", !.at = 1]
          ELSE prepare_event([@ EXCEPT !.read = Read(k)], 1)]
    /\ UNCHANGED <<db, survivors, files, crashes, meddled, stuck, orphaned>>

(***************************************************************************)
(* Removing.  A removal is best effort: one the file system refuses leaves *)
(* the file.  `gone` is the set of <<artifact, name>> to be removed.       *)
(***************************************************************************)
Names(gone) == {p[1] : p \in {q \in gone : files[q[1]].name = q[2]}}

remove_files(gone) ==
    /\ \E kept \in SUBSET Names(gone) :
          /\ Cardinality(stuck \cup kept) <= MaxStuck
          /\ stuck' = stuck \cup kept
          /\ files' = [a \in Artifact |-> IF a \in Names(gone) \ kept THEN NoFile ELSE files[a]]

\* What dropping an unfinished sink removes.
drop_sink(k) ==
    CASE storeCalls[k].staging = "Temporary" -> {<<CurrentFile(k), "tmp">>}
      [] storeCalls[k].staging = "Final" -> {<<CurrentFile(k), "final">>}
      [] OTHER -> {}

\* append_events and insert_retry_with_events: what the earlier events of a
\* call already spilled.
discard_spill(k) == {<<a, "final">> : a \in storeCalls[k].sealed}

StoreReturn(k, gone) ==
    /\ remove_files(gone)
    /\ storeCalls' = [storeCalls EXCEPT ![k].pc = "done"]

\* A step of sealing fails: the sink is dropped and the call refused.
Abandon(k) ==
    /\ storeCalls[k].pc \in {"write", "sync", "rename", "syncdir"}
    /\ StoreReturn(k, drop_sink(k) \cup discard_spill(k))
    /\ UNCHANGED <<db, survivors, crashes, meddled, orphaned>>

(***************************************************************************)
(* ArtifactSink::open.  The run is looked for before anything is written.  *)
(***************************************************************************)
RunOf(c) == IF Streamed(c) THEN 0 ELSE c.events[c.at].run

open(k) ==
    LET c == storeCalls[k] IN
    /\ c.pc = "open"
    /\ RunOf(c) \in db.runs
    /\ files' = [files EXCEPT ![CurrentFile(k)] =
                    [NoFile EXCEPT !.name = "tmp", !.passes = redact_payload(c) + wrap_stream(c)]]
    /\ storeCalls' = [storeCalls EXCEPT ![k].pc = "write"]
    /\ UNCHANGED <<db, survivors, crashes, meddled, stuck, orphaned>>

OpenFails(k) ==
    /\ storeCalls[k].pc = "open"
    /\ StoreReturn(k, discard_spill(k))
    /\ UNCHANGED <<db, survivors, crashes, meddled, orphaned>>

write(k) ==
    /\ storeCalls[k].pc = "write"
    /\ files' = [files EXCEPT ![CurrentFile(k)].bytes = 1]
    /\ storeCalls' = [storeCalls EXCEPT ![k].pc = "sync"]
    /\ UNCHANGED <<db, survivors, crashes, meddled, stuck, orphaned>>

(* Faulty: the buffered bytes are flushed and the file is not synced. *)
FlushesOnly(k) ==
    /\ storeCalls[k].pc = "sync"
    /\ files' = [files EXCEPT ![CurrentFile(k)].bytes = Full]
    /\ storeCalls' = [storeCalls EXCEPT ![k].pc = "rename"]
    /\ UNCHANGED <<db, survivors, crashes, meddled, stuck, orphaned>>

flush_and_sync(k) ==
    /\ storeCalls[k].pc = "sync"
    /\ files' = [files EXCEPT ![CurrentFile(k)].bytes = Full, ![CurrentFile(k)].synced = TRUE]
    /\ storeCalls' = [storeCalls EXCEPT ![k].pc = "rename"]
    /\ UNCHANGED <<db, survivors, crashes, meddled, stuck, orphaned>>

rename(k) ==
    /\ storeCalls[k].pc = "rename"
    /\ files' = [files EXCEPT ![CurrentFile(k)].name = "final"]
    /\ storeCalls' = [storeCalls EXCEPT ![k].pc = "syncdir", ![k].staging = "Final"]
    /\ UNCHANGED <<db, survivors, crashes, meddled, stuck, orphaned>>

\* The directory is synced and the sealed record takes the bytes over.
release(k) ==
    LET c == [storeCalls[k] EXCEPT !.staging = "Released", !.sealed = @ \cup {CurrentFile(k)}] IN
    /\ storeCalls[k].pc = "syncdir"
    /\ files' = [files EXCEPT ![CurrentFile(k)].entry = TRUE]
    /\ storeCalls' = [storeCalls EXCEPT ![k] = prepare_event(c, c.at + 1)]
    /\ UNCHANGED <<db, survivors, crashes, meddled, stuck, orphaned>>

(***************************************************************************)
(* in_write_transaction.                                                   *)
(***************************************************************************)
\* ApprovalRequest::decide: a pending request, answered no more broadly than
\* it may be granted.  ApprovalRequest::resolve: a pending request.
decide(k, found) ==
    /\ found = "pending"
    /\ storeCalls[k].subject \in {"exact_call", db.approvals[0].scope}

resolve(k, found) == found = "pending"

\* Lifecycle::validate_edge.
validate_edge(k, found) == <<found, storeCalls[k].to>> \in Edges

Allowed(k, found) ==
    CASE storeCalls[k].kind = "move" -> validate_edge(k, found)
      [] storeCalls[k].kind = "decide" -> decide(k, found)
      [] storeCalls[k].kind = "resolve" -> resolve(k, found)
      [] OTHER -> TRUE

\* The change the closure makes to the record it loads in the transaction.
change(k) == Allowed(k, Read(k))

\* The row of one event: the marker of its spill, or its payload.
append_event(k, j) ==
    [kind |-> IF storeCalls[k].kind = "retry" /\ storeCalls[k].events[j].run = 0
              THEN "retried" ELSE storeCalls[k].kind,
     subject |-> storeCalls[k].subject, to |-> storeCalls[k].to, call |-> k,
     art |-> IF storeCalls[k].events[j].big THEN <<k, j>> ELSE NoArtifact]

\* The events of one run, numbered on from what the run's log holds.
next_sequence(k, r) ==
    LET mine == {j \in DOMAIN storeCalls[k].events : storeCalls[k].events[j].run = r} IN
    db.log[r] \o [i \in 1..Cardinality(mine) |-> append_event(k, Nth(mine, i))]

insert_artifact(k) == db.arts \cup storeCalls[k].sealed

insert_snapshot(k) ==
    IF storeCalls[k].kind = "snapshot" THEN db.snapshots \cup {k} ELSE db.snapshots

insert_retry(k) == IF storeCalls[k].kind = "retry" THEN db.runs \cup {k} ELSE db.runs

update_record(k) ==
    [x \in Subject |-> IF storeCalls[k].kind = "move" /\ x = storeCalls[k].subject
                       THEN storeCalls[k].to ELSE db.state[x]]

insert_approval(k) ==
    [q \in DOMAIN db.approvals \cup {k} |->
        IF q = k THEN [state |-> "pending", scope |-> "exact_call"] ELSE db.approvals[q]]

update_resolution(k) ==
    [db.approvals EXCEPT ![0] =
        [state |-> storeCalls[k].to,
         scope |-> IF storeCalls[k].kind = "decide" THEN storeCalls[k].subject ELSE @.scope]]

Updated(k) ==
    [arts |-> insert_artifact(k),
     snapshots |-> insert_snapshot(k),
     runs |-> insert_retry(k),
     state |-> update_record(k),
     approvals |-> CASE storeCalls[k].kind = "ask" -> insert_approval(k)
                     [] storeCalls[k].kind \in {"decide", "resolve"} -> update_resolution(k)
                     [] OTHER -> db.approvals,
     log |-> [r \in Run |-> next_sequence(k, r)]]

commit_event(k) ==
    /\ storeCalls[k].pc = "commit"
    /\ change(k)
    /\ db' = Updated(k)
    /\ survivors' = survivors \cup {db'}
    /\ storeCalls' = [storeCalls EXCEPT ![k].pc = "done"]
    /\ UNCHANGED <<files, crashes, meddled, stuck, orphaned>>

\* The change is illegal, a row names a record of another run, or the database
\* stayed busy: whatever the call wrote is removed.
CommitRefused(k) ==
    /\ storeCalls[k].pc = "commit"
    /\ StoreReturn(k, discard_spill(k))
    /\ UNCHANGED <<db, survivors, crashes, meddled, orphaned>>

(***************************************************************************)
(* Store::checkpoint.  The write-ahead log is not synced on every commit   *)
(* (synchronous = NORMAL), so a power loss may take back commits made      *)
(* since the last checkpoint; a busy checkpoint changes nothing.           *)
(***************************************************************************)
checkpoint ==
    /\ survivors # {db}
    /\ survivors' = {db}
    /\ UNCHANGED <<db, files, storeCalls, crashes, meddled, stuck, orphaned>>

\* A file under the name and with the bytes that reached the disk.
Torn(f, name, bytes) == [f EXCEPT !.name = name, !.bytes = bytes]

Survives(f) ==
    CASE f.name = "none" -> {f}
      [] f.synced /\ f.entry -> {f}
      [] OTHER -> {Torn(f, n, b) :
                      n \in IF f.entry THEN {f.name} ELSE {"tmp", f.name},
                      b \in IF f.synced THEN {f.bytes} ELSE 0..f.bytes}

Over(k) == storeCalls[k].pc = "done"

PowerLoss ==
    /\ crashes < MaxCrashes
    /\ crashes' = crashes + 1
    /\ \E d \in survivors :
          /\ db' = d
          /\ survivors' = {d}
          /\ orphaned' = orphaned \cup {k \in DOMAIN storeCalls :
                              ~Over(k) \/ ~(storeCalls[k].sealed \subseteq d.arts)}
    /\ files' \in [Artifact -> UNION {Survives(files[a]) : a \in Artifact}]
    /\ \A a \in Artifact : files'[a] \in Survives(files[a])
    /\ storeCalls' = [k \in DOMAIN storeCalls |-> [storeCalls[k] EXCEPT !.pc = "done"]]
    /\ UNCHANGED <<meddled, stuck>>

\* Somebody outside deletes or rewrites a finished artifact.
Meddle(a) ==
    /\ a \in db.arts
    /\ files[a].name = "final"
    /\ a \notin DOMAIN meddled
    /\ Cardinality(DOMAIN meddled) < MaxMeddling
    /\ \E how \in {"missing", "size_mismatch"} :
          /\ meddled' = [b \in DOMAIN meddled \cup {a} |-> IF b = a THEN how ELSE meddled[b]]
          /\ files' = [files EXCEPT ![a] = IF how = "missing" THEN NoFile
                                           ELSE [@ EXCEPT !.bytes = Full + 1]]
    /\ UNCHANGED <<db, survivors, storeCalls, crashes, stuck, orphaned>>

StoreNext ==
    \/ Begin
    \/ \E k \in DOMAIN storeCalls :
          \/ load(k) \/ open(k) \/ OpenFails(k) \/ write(k) \/ flush_and_sync(k)
          \/ rename(k) \/ release(k) \/ Abandon(k) \/ commit_event(k) \/ CommitRefused(k)
    \/ checkpoint
    \/ PowerLoss
    \/ \E a \in Artifact : Meddle(a)

StoreSpec == StoreInit /\ [][StoreNext]_storeVars

----------------------------------------------------------------------------
\* What a read of an artifact's row reports of its bytes.
probe(a) ==
    IF files[a].name # "final" THEN "missing"
    ELSE IF files[a].bytes = Full THEN "available" ELSE "size_mismatch"

(* Every recorded artifact has its bytes: whichever commits a power loss       *)
(* takes back, whatever is refused or removed, a row that is read finds a file *)
(* of the recorded size whose content went through the redactor once, unless   *)
(* somebody outside touched it, and then the read reports just what they did.  *)
(* ("Finalizing an artifact is write, sync, rename, then insert", artifact.rs.) *)
BytesStand ==
    \A a \in db.arts :
       /\ probe(a) = IF a \in DOMAIN meddled THEN meddled[a] ELSE "available"
       /\ a \notin DOMAIN meddled => files[a].passes = 1

(* An ordinary refusal leaves nothing behind: once a call is over, every file  *)
(* it wrote has a row, whichever step of it failed, unless a power loss cut    *)
(* the call short or the file system refused the removal.                      *)
NoLitter ==
    \A k \in DOMAIN storeCalls :
       Over(k) /\ k \notin orphaned =>
          \A a \in Artifact :
             a[1] = k /\ files[a].name # "none" => a \in db.arts \cup stuck

\* Where the log of the first run tells an event of one of `kinds`, and of
\* which calls these are, in database d.
LogOf(d, kinds) == {i \in DOMAIN d.log[0] : d.log[0][i].kind \in kinds}
CallsOf(d, kinds) == {d.log[0][i].call : i \in LogOf(d, kinds)}

\* The moves the log tells of x, and the state it tells of x up to its i-th event.
MovesOf(d, x) == {i \in LogOf(d, {"move"}) : d.log[0][i].subject = x}
ToldUpTo(d, x, i) ==
    LET earlier == {j \in MovesOf(d, x) : j < i}
    IN  IF earlier = {} THEN "fresh" ELSE d.log[0][Greatest(earlier)].to

(* The log is the history of what it announces: the moves it tells of a run,   *)
(* a step or a tool call are legal and end in the state that record is in; an  *)
(* approval is resolved by the one event that says so, at the breadth it says; *)
(* snapshots, requests and retries have their events; and the spilled payload  *)
(* of an event is recorded with it.                                            *)
MovesTold(d) ==
    \A x \in Subject :
       /\ \A i \in MovesOf(d, x) : <<ToldUpTo(d, x, i), d.log[0][i].to>> \in Edges
       /\ d.state[x] = ToldUpTo(d, x, Len(d.log[0]) + 1)

AnswerTold(d) ==
    LET answers == LogOf(d, {"decide", "resolve"}) IN
    IF d.approvals[0].state = "pending" THEN answers = {}
    ELSE \E i \in answers :
            /\ answers = {i}
            /\ d.log[0][i].to = d.approvals[0].state
            /\ d.log[0][i].to = "granted" => d.log[0][i].subject = d.approvals[0].scope

RowsTold(d) ==
    /\ d.snapshots = CallsOf(d, {"snapshot"})
    /\ DOMAIN d.approvals = {0} \cup CallsOf(d, {"ask"})
    /\ d.runs = {0} \cup CallsOf(d, {"retried"})
    /\ \A r \in d.runs : \A i \in DOMAIN d.log[r] :
          d.log[r][i].art \in d.arts \cup {NoArtifact}

LogTellsTheState == MovesTold(db) /\ AnswerTold(db) /\ RowsTold(db)

(* What the store holds is whole: bytes behind every row, no row-less bytes     *)
(* after a refusal, and a log that tells the state (artifact.rs, event.rs and   *)
(* record.rs: the three properties above).                                      *)
StoreKept == BytesStand /\ NoLitter /\ LogTellsTheState
============================================================================
