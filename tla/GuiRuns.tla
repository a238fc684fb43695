------------------------------- MODULE GuiRuns --------------------------------
(***************************************************************************)
(* The runs surface of the window: the RunsBackend bridge one page owns    *)
(* (runs_backend.rs), the page that reviews one approval or one run        *)
(* through it (ApprovalPage.qml, RunDetailPage.qml), the paged run list    *)
(* (run_list_model.rs) and the queue of pending approvals                  *)
(* (approval_model.rs), against a run store that other processes change.   *)
(*                                                                         *)
(* The page looks at run Subject and at the approval that run waits on.    *)
(* The run list is newest first; runs are numbered by creation.  A bridge  *)
(* operation is a worker thread: it reads or changes the store at one      *)
(* moment and settles on the Qt thread at a later one.                     *)
(***************************************************************************)
EXTENDS Naturals, Sequences, FiniteSets

CONSTANTS
  MaxRuns,     \* bound: runs the store can come to hold
  PageSize,    \* RUN_PAGE_SIZE
  MaxOps,      \* bound: bridge operations
  MaxListings, \* bound: page and queue requests
  Surfaces     \* bound: what one behaviour exercises: "page", "list", "queue"

ASSUME RunsAssumption ==
  /\ MaxRuns \in Nat \ {0} /\ PageSize \in Nat \ {0}
  /\ MaxOps \in Nat /\ MaxListings \in Nat
  /\ Surfaces \subseteq {"page", "list", "queue"}

VARIABLES
  surface,   \* what this behaviour exercises
  runs,      \* run -> "active" | "ended"; its approval is pending while it waits
  asks,      \* run -> "none" | "pending" | "answered": its approval
  bridge,    \* RunsBackendRust: next_request, newest per slot, and the properties
  ops,       \* operations outstanding
  page,      \* the page's own flags
  issued,    \* what was asked last, per answer, and how it really went
  list,      \* RunListModelRust, with the pages outstanding
  queue      \* ApprovalModelRust, with the listings outstanding
runsVars == <<surface, runs, asks, bridge, ops, page, issued, list, queue>>

Subject == 1
Slots == {"Decision", "ApprovalInput", "RunDetail", "ArtifactExcerpt"}
RunNumber == 1..Len(runs)

\* What a property of the bridge holds: no answer, or an answer.
NoAnswer == [kind |-> "blank", of |-> "", saw |-> ""]
Shown(of, saw) == [kind |-> "ok", of |-> of, saw |-> saw]
RefusedFor(why) == [kind |-> "refused", of |-> why, saw |-> ""]

(***************************************************************************)
(* Dispatch: both watermarks are taken on the Qt thread.                   *)
(***************************************************************************)
DispatchOn(b, o, slot, what) ==
  [bridge |-> [b EXCEPT !.next = @ + 1, !.newest[slot] = b.next + 1],
   ops |-> o \cup {[req |-> b.next + 1, slot |-> slot, what |-> what, at |-> "work", out |-> NoAnswer]}]

dispatch_answering(slot, what) ==
  LET d == DispatchOn(bridge, ops, slot, what)
  IN /\ bridge.next < MaxOps
     /\ bridge' = d.bridge /\ ops' = d.ops

\* ApprovalPage.decidable: what this page read says the request is pending; before
\* it has read anything, the row it was opened from does.
ReadsPending == bridge.run.kind # "ok" \/ bridge.run.saw = "pending"

Press(what) ==
  /\ surface = "page" /\ ops = {}
  /\ what \in {"approve", "deny"} => ReadsPending
  /\ what = "cancel" => ~page.deciding
  /\ what = "retry" => bridge.run.kind = "ok" /\ bridge.run.of = ""
  /\ dispatch_answering("Decision", what)
  /\ page' = [page EXCEPT !.deciding = TRUE]
  /\ UNCHANGED <<surface, runs, asks, issued, list, queue>>

Load(slot) ==
  /\ surface = "page" /\ slot # "Decision"
  /\ dispatch_answering(slot, "load")
  /\ page' = [page EXCEPT !.raw = @ \/ slot = "ApprovalInput"]
  /\ UNCHANGED <<surface, runs, asks, issued, list, queue>>

(***************************************************************************)
(* The workers.  A decision goes through the coordinator, which is the     *)
(* authority on what can still be decided; a read goes through the store.  *)
(***************************************************************************)
Done(op, out) == ops' = (ops \ {op}) \cup {[op EXCEPT !.at = "settle", !.out = out]}
Truth(op, out) ==
  issued' = IF op.req > issued[op.slot].req
            THEN [issued EXCEPT ![op.slot] = [req |-> op.req, out |-> out]] ELSE issued

Finish(op, out) == Done(op, out) /\ Truth(op, out)

Refuses(op, why) == Finish(op, RefusedFor(why)) /\ UNCHANGED <<runs, asks>>

decide_approval(op) ==
  /\ op.what \in {"approve", "deny"}
  /\ \/ /\ asks[Subject] = "pending"
        /\ asks' = [asks EXCEPT ![Subject] = "answered"]
        /\ Finish(op, Shown(op.what, "answered")) /\ UNCHANGED runs
     \/ asks[Subject] # "pending" /\ Refuses(op, "decided")

cancel_run(op) ==
  /\ op.what = "cancel"
  /\ \/ /\ runs[Subject] = "active"
        /\ runs' = [runs EXCEPT ![Subject] = "ended"]
        /\ asks' = [asks EXCEPT ![Subject] = IF @ = "pending" THEN "answered" ELSE @]
        /\ Finish(op, Shown("cancel", "ended"))
     \/ runs[Subject] = "ended" /\ Refuses(op, "run_ended")

\* What the page may do, read off the state retry_run refuses on: the run has
\* ended and no attempt at it is still going.
retry_blocked ==
  IF runs[Subject] = "active" \/ \E r \in RunNumber \ {Subject} : runs[r] = "active"
  THEN "run_still_active" ELSE ""

\* The retry is a new run; nothing of the original is resumed.
retry_run(op) ==
  /\ op.what = "retry"
  /\ \/ /\ retry_blocked = "" /\ Len(runs) < MaxRuns
        /\ runs' = Append(runs, "active") /\ asks' = Append(asks, "none")
        /\ Finish(op, Shown("retry", ""))
     \/ retry_blocked # "" /\ Refuses(op, retry_blocked)

run_detail_in(op) ==
  /\ op.what = "load" /\ op.slot = "RunDetail"
  /\ Finish(op, Shown(retry_blocked, asks[Subject])) /\ UNCHANGED <<runs, asks>>

approval_input(op) ==
  /\ op.what = "load" /\ op.slot = "ApprovalInput"
  /\ Finish(op, Shown("input", "")) /\ UNCHANGED <<runs, asks>>

artifact_excerpt_in(op) ==
  /\ op.what = "load" /\ op.slot = "ArtifactExcerpt"
  /\ \/ Finish(op, Shown("excerpt", "")) /\ UNCHANGED <<runs, asks>>
     \/ Refuses(op, "artifact_not_text")

\* The store or the coordinator cannot be opened, or answers with an error.
open_store_fails(op) == Refuses(op, "store")

Work(op) ==
  /\ op.at = "work"
  /\ \/ decide_approval(op) \/ cancel_run(op) \/ retry_run(op)
     \/ run_detail_in(op) \/ approval_input(op) \/ artifact_excerpt_in(op)
     \/ open_store_fails(op)
  /\ UNCHANGED <<surface, bridge, page, list, queue>>

(***************************************************************************)
(* Settling.  The newest operation of any kind writes the shared status;   *)
(* the newest of its own kind writes the answer it owns, and a decision    *)
(* blanks the input as well.  A property set to the value it has notifies  *)
(* nobody; a new outcome makes the page read the run again at once.        *)
(***************************************************************************)
\* Faulty: one watermark for the whole bridge.
SettlementShared(op) == [answer |-> op.req = bridge.next, status |-> op.req = bridge.next]

settlement(op) ==
  [answer |-> op.req = bridge.newest[op.slot], status |-> op.req = bridge.next]

AnsweredRun(b, op) ==
  LET said == IF op.out.kind = "ok" THEN op.out ELSE NoAnswer
  IN CASE op.slot = "Decision" -> [b EXCEPT !.outcome = op.out, !.detail = NoAnswer]
       [] op.slot = "ApprovalInput" -> [b EXCEPT !.detail = said]
       [] op.slot = "RunDetail" -> [b EXCEPT !.run = said]
       [] OTHER -> [b EXCEPT !.excerpt = said]

OutcomeChanged(b, op) == b.outcome # bridge.outcome

settle(op) ==
  /\ op.at = "settle"
  /\ LET s == settlement(op)
         said == IF s.status THEN [bridge EXCEPT !.status = op.out] ELSE bridge
         b == IF s.answer THEN AnsweredRun(said, op) ELSE said
         changed == OutcomeChanged(b, op)
         d == DispatchOn(b, ops \ {op}, "RunDetail", "load")
     IN IF changed
        THEN /\ bridge' = d.bridge /\ ops' = d.ops
             /\ page' = [page EXCEPT !.deciding = FALSE, !.raw = FALSE]
        ELSE bridge' = b /\ ops' = ops \ {op} /\ UNCHANGED page
  /\ UNCHANGED <<surface, runs, asks, issued, list, queue>>

\* One page of the runs below the cursor, or of all of them, newest first.
list_runs(cursor) ==
  LET top == IF cursor = 0 THEN Len(runs) ELSE cursor - 1
      rows == [i \in 1..top |-> top + 1 - i]
  IN [rows |-> SubSeq(rows, 1, IF top < PageSize THEN top ELSE PageSize),
      next |-> IF top > PageSize THEN rows[PageSize] ELSE 0]

begin_request(kind, cursor) ==
  /\ list.next < MaxListings
  /\ list' = [list EXCEPT !.next = @ + 1, !.loading = TRUE,
       !.out = @ \cup {[req |-> list.next + 1, kind |-> kind, cursor |-> cursor, at |-> "read",
                        rows |-> <<>>, more |-> 0]}]

refresh_list ==
  /\ surface = "list" /\ begin_request("replace", 0)
  /\ UNCHANGED <<surface, runs, asks, bridge, ops, page, issued, queue>>

load_more ==
  /\ surface = "list" /\ list.cursor # 0 /\ ~list.loading
  /\ begin_request("append", list.cursor)
  /\ UNCHANGED <<surface, runs, asks, bridge, ops, page, issued, queue>>

load_page(p) ==
  /\ p.at = "read"
  /\ \/ LET l == list_runs(p.cursor)
        IN list' = [list EXCEPT !.out = (@ \ {p}) \cup {[p EXCEPT !.at = "apply", !.rows = l.rows, !.more = l.next]}]
     \/ list' = [list EXCEPT !.out = (@ \ {p}) \cup {[p EXCEPT !.at = "fail"]}]
  /\ UNCHANGED <<surface, runs, asks, bridge, ops, page, issued, queue>>

IsNewest(p) == p.req = list.next

\* replace_page and append_page; a failed page drops the cursor (fail).
ApplyPage(p) ==
  /\ p.at \in {"apply", "fail"}
  /\ LET l == [list EXCEPT !.out = @ \ {p}]
     IN list' = IF ~IsNewest(p) THEN l
                ELSE IF p.at = "fail" THEN [l EXCEPT !.loading = FALSE, !.cursor = 0]
                ELSE [l EXCEPT !.loading = FALSE, !.cursor = p.more,
                               !.rows = IF p.kind = "replace" THEN p.rows ELSE @ \o p.rows]
  /\ UNCHANGED <<surface, runs, asks, bridge, ops, page, issued, queue>>

(***************************************************************************)
(* The queue of pending approvals, polled.                                 *)
(***************************************************************************)
refresh_queue ==
  /\ surface = "queue" /\ queue.next < MaxListings
  /\ queue' = [queue EXCEPT !.next = @ + 1, !.loading = TRUE,
       !.out = @ \cup {[req |-> queue.next + 1, at |-> "read", rows |-> {}]}]
  /\ UNCHANGED <<surface, runs, asks, bridge, ops, page, issued, list>>

load_pending(q) ==
  /\ q.at = "read"
  /\ \E ok \in BOOLEAN :
       queue' = [queue EXCEPT !.out = (@ \ {q}) \cup
         {IF ok THEN [q EXCEPT !.at = "apply", !.rows = {r \in RunNumber : asks[r] = "pending"}]
          ELSE [q EXCEPT !.at = "fail"]}]
  /\ UNCHANGED <<surface, runs, asks, bridge, ops, page, issued, list>>

QueueNewest(q) == q.req = queue.next

apply_queue(q) ==
  /\ q.at \in {"apply", "fail"}
  /\ LET l == [queue EXCEPT !.out = @ \ {q}]
     IN queue' = IF ~QueueNewest(q) THEN l
                 ELSE IF q.at = "fail" THEN [l EXCEPT !.loading = FALSE]
                 ELSE [l EXCEPT !.loading = FALSE, !.rows = q.rows, !.gone = queue.gone \cup (queue.rows \ q.rows)]
  /\ UNCHANGED <<surface, runs, asks, bridge, ops, page, issued, list>>

(***************************************************************************)
(* Everybody else: a worker parks a run on an approval, another front end  *)
(* answers it, a run ends, a run starts.                                   *)
(***************************************************************************)
Elsewhere ==
  /\ \/ \E r \in RunNumber : runs[r] = "active" /\ asks[r] = "none"
                       /\ asks' = [asks EXCEPT ![r] = "pending"] /\ UNCHANGED runs
     \/ \E r \in RunNumber : asks[r] = "pending"
                       /\ asks' = [asks EXCEPT ![r] = "answered"] /\ UNCHANGED runs
     \/ \E r \in RunNumber : runs[r] = "active" /\ asks[r] # "pending"
                       /\ runs' = [runs EXCEPT ![r] = "ended"] /\ UNCHANGED asks
     \/ surface # "page" /\ Len(runs) < MaxRuns
          /\ runs' = Append(runs, "active") /\ asks' = Append(asks, "none")
  /\ UNCHANGED <<surface, bridge, ops, page, issued, list, queue>>

RunsInit ==
  /\ surface \in Surfaces
  /\ runs = [r \in 1..(IF surface = "list" THEN MaxRuns - 1 ELSE 1) |-> "active"]
  /\ asks = [r \in DOMAIN runs |-> IF r = 1 THEN "pending" ELSE "none"]
  /\ bridge = [next |-> 0, newest |-> [s \in Slots |-> 0], status |-> NoAnswer, detail |-> NoAnswer,
               run |-> NoAnswer, excerpt |-> NoAnswer, outcome |-> NoAnswer]
  /\ ops = {} /\ page = [deciding |-> FALSE, raw |-> FALSE]
  /\ issued = [s \in Slots |-> [req |-> 0, out |-> NoAnswer]]
  /\ list = [rows |-> <<>>, cursor |-> 0, loading |-> FALSE, next |-> 0, out |-> {}]
  /\ queue = [rows |-> {}, gone |-> {}, loading |-> FALSE, next |-> 0, out |-> {}]

RunsNext ==
  \/ \E what \in {"approve", "deny", "cancel", "retry"} : Press(what)
  \/ \E slot \in Slots : Load(slot)
  \/ \E op \in ops : Work(op) \/ settle(op)
  \/ refresh_list \/ load_more \/ \E p \in list.out : load_page(p) \/ ApplyPage(p)
  \/ refresh_queue \/ \E q \in queue.out : load_pending(q) \/ apply_queue(q)
  \/ Elsewhere

RunsSpec == RunsInit /\ [][RunsNext]_runsVars

(***************************************************************************)
(* Properties.                                                             *)
(***************************************************************************)
Said(slot) == IF issued[slot].out.kind = "ok" THEN issued[slot].out ELSE NoAnswer

\* Once nothing is outstanding, every answer on the bridge is the answer to the
\* newest question of its own kind, however the replies overtook each other;
\* the outcome is the newest decision's; and the input is never that of a
\* question older than the last decision that settled.
AnswersNewest ==
  ops = {} =>
    /\ bridge.run = Said("RunDetail") /\ bridge.excerpt = Said("ArtifactExcerpt")
    /\ bridge.outcome = issued["Decision"].out
    /\ bridge.detail \in {NoAnswer, Said("ApprovalInput")}

\* A page whose own decision was accepted does not go on offering that decision:
\* once nothing is outstanding it shows the request answered, unless its last
\* read failed.
DecisionShown ==
  (ops = {} /\ bridge.outcome.kind = "ok" /\ bridge.outcome.of \in {"approve", "deny"}
     /\ bridge.run.kind = "ok")
    => bridge.run.saw = "answered"

\* The rows of the run list are distinct, newest first and without a hole, while
\* runs start and pages, refreshes and failures overlap.
ListContiguous ==
  \A i \in 1..(Len(list.rows) - 1) : list.rows[i + 1] = list.rows[i] - 1

\* A request that left the queue was answered, and does not come back.
QueueForward == queue.rows \cap queue.gone = {}

\* The run pages agree with the runs once their replies are in, in whatever
\* order those come: the newest answer stands, the decision made is shown, the
\* list has no hole and the queue no request that was already answered.
RunPagesTrue == AnswersNewest /\ DecisionShown /\ ListContiguous /\ QueueForward
===============================================================================
