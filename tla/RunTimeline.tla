----------------------------- MODULE RunTimeline -----------------------------
(***************************************************************************)
(* The timeline of one run in the graphical front end:                     *)
(* run_timeline_model.rs.  Rows live on the Qt thread; every selection     *)
(* spawns a thread that subscribes, reads the newest page and then feeds   *)
(* batches, and each backwards page or payload is a thread of its own.     *)
(* All of them reach the model through closures queued to the Qt thread.   *)
(*                                                                         *)
(* A thread is named by its request, the number its selection advanced to. *)
(* An event is its number in the log of its run; of its contents only      *)
(* whether it is a progress tick of the run's call is kept.  The receiver  *)
(* is what EventDelivery shows of one: the log in order from its first     *)
(* event to the last one replayed or published, or its loss once the       *)
(* reader is LiveCapacity live events behind.                              *)
(***************************************************************************)
EXTENDS Naturals, Sequences, SequencesExt

CONSTANTS
    Run, NoRun,
    MaxSelect,     \* bound on selections; the last one asks for nothing more
    Tick,          \* Tick[u]: which events of run u are progress ticks of its call
    Recorded,      \* events recorded before anything is selected
    MaxLogged,     \* bound on the events of a run
    MaxReads,      \* bound on backwards pages and payloads asked for
    PageSize,      \* TIMELINE_PAGE_SIZE
    MaxRows,       \* MAX_TIMELINE_ROWS
    LiveCapacity,      \* SUBSCRIBER_CAPACITY
    MayFailRead   \* a read of the store may fail

ASSUME TimelineAssumption ==
    /\ NoRun \notin Run /\ Tick \in [Run -> SUBSET Nat]
    /\ {MaxSelect, Recorded, MaxLogged, MaxReads, PageSize, MaxRows, LiveCapacity} \subseteq Nat
    /\ PageSize > 0 /\ MaxRows > 0
    /\ MayFailRead \in BOOLEAN

VARIABLES
    log,        \* log[u]: the last event of run u's log
    endedAt,    \* endedAt[u]: the event of u's recorded end, 0 before it
    sent,       \* sent[u]: the cursor of u's delivery, the last event published
    closed,     \* the runs whose delivery is closed
    selection,  \* Selection: the newest request
    shown,      \* the model's run property
    timeline,   \* Timeline: rows, last_seq, beginning
    flags,      \* the loading, live, more and kind properties, and "fell behind"
    thread,     \* thread[q]: the subscriber thread of request q
    reads,      \* backwards pages and payloads being read
    asked,      \* how many of those were asked for
    qt          \* closures queued to the Qt thread, in order

runVars == <<log, endedAt, sent, closed>>
timelineVars == <<runVars, selection, shown, timeline, flags, thread, reads, asked, qt>>

EmptyTimeline == [rows |-> <<>>, last |-> 0, beginning |-> FALSE]
NoThread == [at |-> "none", run |-> NoRun, live |-> FALSE, tip |-> 0, pos |-> 0, floor |-> 0]

TimelineInit ==
    /\ log = [u \in Run |-> Recorded] /\ sent = log
    /\ endedAt = [u \in Run |-> 0] /\ closed = {}
    /\ selection = 0 /\ shown = NoRun
    /\ timeline = EmptyTimeline
    /\ flags = [loading |-> FALSE, live |-> FALSE, more |-> FALSE, behind |-> FALSE, failed |-> FALSE]
    /\ thread = [q \in 1..MaxSelect |-> NoThread]
    /\ reads = {} /\ asked = 0 /\ qt = <<>>

-----------------------------------------------------------------------------
\* Rows: event_row, fold and the plans of Timeline

EventRow(u, n) ==
    [run |-> u, seq |-> n, first |-> n, count |-> IF n \in Tick[u] THEN 1 ELSE 0,
     detail |-> 0]

RowsOf(u, from, to) == [i \in 1..(to - from + 1) |-> EventRow(u, from + i - 1)]

FoldsInto(previous, row) == previous.count > 0 /\ row.count > 0

Absorb(earlier, later) ==
    [later EXCEPT !.first = earlier.first, !.count = earlier.count + later.count]

Fold(rows) ==
    FoldLeft(LAMBDA folded, row :
                IF folded # <<>> /\ FoldsInto(Last(folded), row)
                THEN Append(Front(folded), Absorb(Last(folded), row))
                ELSE Append(folded, row),
             <<>>, rows)

LastSeq(rows) == IF rows = <<>> THEN 0 ELSE Last(rows).seq
AtLeast(a, b) == IF a > b THEN a ELSE b

\* Timeline::reset
Reset(rows, beginning) ==
    [rows |-> Fold(rows), last |-> LastSeq(rows), beginning |-> beginning]

\* Dropping the oldest rows past the bound takes back the claim to hold the
\* run's first event.
Trim(t) ==
    IF Len(t.rows) <= MaxRows THEN t
    ELSE [t EXCEPT !.rows = SubSeq(@, Len(@) - MaxRows + 1, Len(@)), !.beginning = FALSE]

\* plan_append and its edits: repeats are dropped, a tick at the tip is
\* folded into the row there, and the oldest rows go.
PlanAppend(t, batch) ==
    LET fresh == Fold(SelectSeq(batch, LAMBDA row : row.seq > t.last))
        merges == fresh # <<>> /\ t.rows # <<>> /\ FoldsInto(Last(t.rows), Head(fresh))
        rows == IF merges THEN Append(Front(t.rows), Absorb(Last(t.rows), Head(fresh))) ELSE t.rows
        rest == IF merges THEN Tail(fresh) ELSE fresh
    IN Trim([t EXCEPT !.rows = rows \o rest, !.last = AtLeast(@, LastSeq(fresh))])

\* plan_prepend and its edit: ticks fold within the page only.
PlanPrepend(t, batch) ==
    LET older == SelectSeq(batch, LAMBDA row : t.rows = <<>> \/ row.seq < Head(t.rows).first)
    IN [t EXCEPT !.rows = Fold(older) \o @, !.last = AtLeast(@, LastSeq(older))]

\* plan_detail: the row that still ends in the event asked for.
PlanDetail(t, n) ==
    [t EXCEPT !.rows = [i \in DOMAIN @ |-> IF @[i].seq = n THEN [@[i] EXCEPT !.detail = n] ELSE @[i]]]

More(t) == ~t.beginning /\ Len(t.rows) < MaxRows
AtBound(t) == ~t.beginning /\ Len(t.rows) >= MaxRows

-----------------------------------------------------------------------------
\* What the coordinator writes and publishes

readerVars == <<selection, shown, timeline, flags, thread, reads, asked, qt>>

Ended(u) == endedAt[u] > 0
AppendEventTo(u) == log[u] < MaxLogged /\ log' = [log EXCEPT ![u] = @ + 1]

\* The worker, or a surface that decides or cancels, records an event of a
\* live run; the last one is its end.
RunRecords(u) ==
    /\ ~Ended(u) /\ AppendEventTo(u)
    /\ \E over \in BOOLEAN : endedAt' = IF over THEN [endedAt EXCEPT ![u] = log'[u]] ELSE endedAt
    /\ UNCHANGED <<sent, closed, readerVars>>

\* publish: everything recorded by then is pushed to the receivers.
Publish(u) ==
    /\ u \notin closed /\ sent[u] < log[u]
    /\ sent' = [sent EXCEPT ![u] = log[u]]
    /\ UNCHANGED <<log, endedAt, closed, readerVars>>

\* The worker publishes what it recorded before it closes, unless the log
\* could not be read.
CloseRunDelivery(u) ==
    /\ Ended(u) /\ u \notin closed
    /\ sent[u] >= endedAt[u] \/ MayFailRead
    /\ closed' = closed \cup {u}
    /\ UNCHANGED <<log, endedAt, sent, readerVars>>

\* A retry adds run_retried to the run that ended, and publishes its own run.
RetryRecords(u) ==
    /\ Ended(u) /\ AppendEventTo(u)
    /\ UNCHANGED <<endedAt, sent, closed, readerVars>>

CoordinatorSteps(u) ==
    RunRecords(u) \/ Publish(u) \/ CloseRunDelivery(u) \/ RetryRecords(u)

-----------------------------------------------------------------------------
\* What the reader does: Qt-thread entry points

\* select and refresh
Select(u) ==
    /\ selection < MaxSelect
    /\ selection' = selection + 1 /\ shown' = u
    /\ timeline' = EmptyTimeline
    /\ flags' = [loading |-> u # NoRun, live |-> FALSE, more |-> FALSE,
                 behind |-> flags.behind /\ u = NoRun, failed |-> flags.failed /\ u = NoRun]
    /\ thread' = IF u = NoRun THEN thread
                 ELSE [thread EXCEPT ![selection + 1] = [NoThread EXCEPT !.at = "open", !.run = u]]
    /\ UNCHANGED <<runVars, reads, asked, qt>>

MayAsk == asked < MaxReads /\ selection < MaxSelect  \* bounds

LoadOlder ==
    /\ ~flags.loading /\ ~AtBound(timeline) /\ timeline.rows # <<>>
    /\ MayAsk /\ asked' = asked + 1
    /\ reads' = reads \cup {[what |-> "older", request |-> selection, run |-> shown,
                             seq |-> Head(timeline.rows).first]}
    /\ flags' = [flags EXCEPT !.loading = TRUE]
    /\ UNCHANGED <<runVars, selection, shown, timeline, thread, qt>>

LoadDetail(i) ==
    /\ shown \in Run /\ i \in DOMAIN timeline.rows
    /\ MayAsk /\ asked' = asked + 1
    /\ reads' = reads \cup {[what |-> "detail", request |-> selection, run |-> shown,
                             seq |-> timeline.rows[i].seq]}
    /\ UNCHANGED <<runVars, selection, shown, timeline, flags, thread, qt>>

-----------------------------------------------------------------------------
\* Store reads on their own threads

Queue(closure) == qt' = Append(qt, closure)
\* A thread that is done keeps what its timeline was promised.
Finished(t) == [NoThread EXCEPT !.at = "done", !.live = t.live, !.floor = t.floor]
GivenUp == [NoThread EXCEPT !.at = "done"]

Report(q) == [do |-> "report", request |-> q]

\* event_page(Newest) before seq, with whether it reached the first event;
\* rows oldest first.
NewestPage(u, before) ==
    LET from == IF before > PageSize + 1 THEN before - PageSize ELSE 1
    IN [rows |-> RowsOf(u, from, before - 1), beginning |-> from = 1]

OlderRead(read) ==
    /\ read \in reads /\ read.what = "older" /\ reads' = reads \ {read}
    /\ \/ Queue([do |-> "prepend", request |-> read.request,
                 page |-> NewestPage(read.run, read.seq)])
       \/ MayFailRead /\ Queue(Report(read.request))
    /\ UNCHANGED <<runVars, selection, shown, timeline, flags, thread, asked>>

DetailRead(read) ==
    /\ read \in reads /\ read.what = "detail" /\ reads' = reads \ {read}
    /\ \/ Queue([do |-> "detail", request |-> read.request, seq |-> read.seq])
       \/ MayFailRead /\ Queue(Report(read.request))
    /\ UNCHANGED <<runVars, selection, shown, timeline, flags, thread, asked>>

\* open_timeline_in: the run's row decides whether a receiver is wanted ..
OpenLoads(q) ==
    /\ thread[q].at = "open"
    /\ thread' = [thread EXCEPT ![q].at = IF Ended(thread[q].run) THEN "page" ELSE "subscribe"]
    /\ UNCHANGED <<runVars, selection, shown, timeline, flags, reads, asked, qt>>

OpenFails(q) ==
    /\ MayFailRead /\ thread[q].at \in {"open", "subscribe", "page"}
    /\ thread' = [thread EXCEPT ![q] = GivenUp]
    /\ Queue(Report(q))
    /\ UNCHANGED <<runVars, selection, shown, timeline, flags, reads, asked>>

\* .. which is opened before the page is read, if a coordinator is attached.
OpenSubscribes(q) ==
    /\ thread[q].at = "subscribe"
    /\ \E attached \in BOOLEAN :
         thread' = [thread EXCEPT ![q].at = "page", ![q].live = attached,
                                  ![q].tip = IF attached THEN log[thread[q].run] ELSE 0]
    /\ UNCHANGED <<runVars, selection, shown, timeline, flags, reads, asked, qt>>

OpenReads(q) ==
    /\ thread[q].at = "page"
    /\ LET n == log[thread[q].run]
       IN /\ thread' = [thread EXCEPT ![q].at = IF thread[q].live THEN "deliver" ELSE "done",
                                      ![q].floor = n]
          /\ Queue([do |-> "apply", request |-> q, live |-> thread[q].live,
                    page |-> NewestPage(thread[q].run, n + 1)])
    /\ UNCHANGED <<runVars, selection, shown, timeline, flags, reads, asked>>

-----------------------------------------------------------------------------
\* deliver: the subscriber thread's loop

Wanted(q) == selection = q

DeliverUnwanted(q) ==
    /\ thread[q].at = "deliver" /\ ~Wanted(q)
    /\ thread' = [thread EXCEPT ![q] = GivenUp]
    /\ UNCHANGED <<runVars, selection, shown, timeline, flags, reads, asked, qt>>

\* What the receiver comes to: the log as it was when it joined, then what is
\* published.
Reach(t) == AtLeast(t.tip, sent[t.run])

\* One event or more, as many as are queued by then; those the page shows
\* become nothing.
DeliverBatch(q) ==
    /\ thread[q].at = "deliver" /\ Wanted(q)
    /\ LET t == thread[q] IN
       \E to \in (t.pos + 1)..Reach(t) :
         LET from == AtLeast(t.pos, t.floor) + 1
         IN /\ thread' = [thread EXCEPT ![q].pos = to]
            /\ IF from > to THEN UNCHANGED qt
               ELSE Queue([do |-> "append", request |-> q, rows |-> RowsOf(t.run, from, to)])
    /\ UNCHANGED <<runVars, selection, shown, timeline, flags, reads, asked>>

DeliverLagged(q) ==
    /\ thread[q].at = "deliver" /\ Wanted(q)
    /\ thread[q].pos >= thread[q].tip
    /\ sent[thread[q].run] - thread[q].pos > LiveCapacity
    /\ thread' = [thread EXCEPT ![q] = Finished(@)]
    /\ Queue([do |-> "lagged", request |-> q])
    /\ UNCHANGED <<runVars, selection, shown, timeline, flags, reads, asked>>

DeliverDisconnected(q) ==
    /\ thread[q].at = "deliver" /\ Wanted(q)
    /\ thread[q].run \in closed /\ thread[q].pos = Reach(thread[q])
    /\ thread' = [thread EXCEPT ![q] = Finished(@)]
    /\ Queue([do |-> "settle", request |-> q])
    /\ UNCHANGED <<runVars, selection, shown, timeline, flags, reads, asked>>

-----------------------------------------------------------------------------
\* The Qt thread applies a queued closure, if it still describes the selection

\* Faulty: replies of an earlier selection are applied too
IsCurrentAlways(closure) == TRUE

IsCurrent(closure) == closure.request = selection

ApplyPage(c) ==
    LET t == Reset(c.page.rows, c.page.beginning)
    IN /\ timeline' = t
       /\ flags' = [flags EXCEPT !.loading = FALSE, !.live = c.live, !.more = More(t)]

PrependPage(c) ==
    LET planned == PlanPrepend(timeline, c.page.rows)
        t == [planned EXCEPT !.beginning = @ \/ c.page.beginning]
    IN /\ timeline' = t
       /\ flags' = [flags EXCEPT !.loading = FALSE, !.more = More(t)]

AppendBatch(c) ==
    LET t == PlanAppend(timeline, c.rows)
    IN timeline' = t /\ flags' = [flags EXCEPT !.more = More(t)]

AttachDetail(c) == timeline' = PlanDetail(timeline, c.seq) /\ UNCHANGED flags

ReportFailure(c) ==
    flags' = [flags EXCEPT !.loading = FALSE, !.failed = TRUE] /\ UNCHANGED timeline

SettleStream(c) == flags' = [flags EXCEPT !.live = FALSE] /\ UNCHANGED timeline

StreamLagged(c) ==
    flags' = [flags EXCEPT !.live = FALSE, !.behind = TRUE] /\ UNCHANGED timeline

QtRuns ==
    /\ qt # <<>> /\ qt' = Tail(qt)
    /\ LET c == Head(qt) IN
         \/ ~IsCurrent(c) /\ UNCHANGED <<timeline, flags>>
         \/ IsCurrent(c) /\ c.do = "apply" /\ ApplyPage(c)
         \/ IsCurrent(c) /\ c.do = "prepend" /\ PrependPage(c)
         \/ IsCurrent(c) /\ c.do = "append" /\ AppendBatch(c)
         \/ IsCurrent(c) /\ c.do = "detail" /\ AttachDetail(c)
         \/ IsCurrent(c) /\ c.do = "report" /\ ReportFailure(c)
         \/ IsCurrent(c) /\ c.do = "settle" /\ SettleStream(c)
         \/ IsCurrent(c) /\ c.do = "lagged" /\ StreamLagged(c)
    /\ UNCHANGED <<runVars, selection, shown, thread, reads, asked>>

-----------------------------------------------------------------------------

ReadSteps == \E read \in reads : OlderRead(read) \/ DetailRead(read)

ThreadSteps(q) ==
    \/ OpenLoads(q) \/ OpenFails(q) \/ OpenSubscribes(q) \/ OpenReads(q)
    \/ DeliverUnwanted(q) \/ DeliverBatch(q) \/ DeliverLagged(q) \/ DeliverDisconnected(q)

TimelineNext ==
    \/ \E u \in Run : CoordinatorSteps(u)
    \/ \E u \in Run \cup {NoRun} : Select(u)
    \/ LoadOlder
    \/ \E i \in 1..(MaxRows + PageSize) : LoadDetail(i)
    \/ ReadSteps
    \/ \E q \in 1..MaxSelect : ThreadSteps(q)
    \/ QtRuns

\* The Qt loop runs, and a thread that was started goes on.
TimelineFairness ==
    /\ WF_timelineVars(QtRuns) /\ WF_timelineVars(ReadSteps)
    /\ \A q \in 1..MaxSelect : WF_timelineVars(ThreadSteps(q))

TimelineSpec == TimelineInit /\ [][TimelineNext]_timelineVars /\ TimelineFairness

-----------------------------------------------------------------------------

\* The rows are what the log of the run being shown says: each of that run,
\* in order and none twice, a folded row counting exactly the consecutive
\* ticks from its first to its last, and a payload under its own event.
RowsTrue ==
    LET rows == timeline.rows IN
    \A i \in DOMAIN rows :
         /\ rows[i].run = shown /\ rows[i].seq <= log[shown]
         /\ rows[i].detail \in {0, rows[i].seq}
         /\ rows[i].count = 0 => rows[i].first = rows[i].seq
         /\ rows[i].count > 0 =>
              /\ rows[i].count = rows[i].seq - rows[i].first + 1
              /\ rows[i].first..rows[i].seq \subseteq Tick[shown]
         /\ i > 1 => rows[i - 1].seq < rows[i].first

\* A timeline whose threads are done shows what was in the log when its page
\* was read and, if it had a stream, what was published until that closed,
\* unless it said that it fell behind or failed to read: the page and the
\* stream leave no gap between them at the tip.  It need not show the tip of
\* the log: a retry's line in a run that ended is recorded and never published
\* (coordinator/mod.rs:597-613), so an open timeline misses it until the run
\* is selected again, as it does an end whose publishing failed.
Quiet == qt = <<>> /\ reads = {} /\ ~flags.loading

TailShown ==
    Quiet /\ shown \in Run /\ thread[selection].at = "done" /\ ~flags.behind /\ ~flags.failed
      => /\ timeline.last >= thread[selection].floor
         /\ thread[selection].live => timeline.last >= sent[shown]

\* The page, the older pages and the stream make one timeline: what is shown
\* is true of the run selected, and complete up to the last event published.
TimelineTrue == RowsTrue /\ TailShown

\* A model that says it is loading is answered, whatever is selected meanwhile.
LoadingEnds == flags.loading ~> ~flags.loading

=============================================================================
