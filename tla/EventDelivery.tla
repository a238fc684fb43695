---------------------------- MODULE EventDelivery ----------------------------
(***************************************************************************)
(* The delivery of one run's event log to live receivers:                  *)
(* coordinator/subscription.rs, the parts of coordinator/mod.rs that       *)
(* publish, subscribe and close, and the log queries of store/event.rs.    *)
(*                                                                         *)
(* The log is append-only and numbered 1, 2, ..: next_sequence allocates   *)
(* one more than the maximum inside the inserting transaction, so an event *)
(* is its number and the log is the number of its last event, tip.         *)
(* publish holds the delivery's mutex while it pushes; receivers take from *)
(* their own queues under another mutex, and appends need neither.         *)
(***************************************************************************)
EXTENDS Naturals, Sequences

CONSTANTS
    Receiver,
    Capacity,      \* SUBSCRIBER_CAPACITY
    PageLimit,     \* DEFAULT_EVENT_PAGE_LIMIT
    MaxEvents,     \* bound on the log
    Origins,       \* which runs are looked at: "own", "historic", "foreign"
    MayFailStore   \* a read or a write of the log may fail

ASSUME DeliveryAssumption ==
    /\ Capacity \in Nat \ {0} /\ PageLimit \in Nat \ {0} /\ MaxEvents \in Nat \ {0}
    /\ Origins \subseteq {"own", "historic", "foreign"}
    /\ MayFailStore \in BOOLEAN
    /\ Receiver \cap {"none", "worker", "surface"} = {}  \* names of the mutex's holders

VARIABLES
    origin,     \* who drives the run: this coordinator, nobody any more, another process
    tip,        \* the last event of the log
    terminal,   \* the run's row is in a terminal state
    active,     \* the run is in CoordinatorInner::active
    worker,     \* where the worker thread, or start before it, is
    surface,    \* where a thread in cancel_run or decide_approval is
    delivery,   \* RunDelivery: its mutex's holder, cursor, closed and subscribers
    rx,         \* each EventReceiver with its Subscriber
    got,        \* what each receiver has returned so far
    endTip,     \* the last event when the worker recorded the end
    lossy       \* some publish gave up on a failed read

deliveryVars ==
    <<origin, tip, terminal, active, worker, surface, delivery, rx, got, endTip, lossy>>

Publisher == {"worker", "surface"}
Event(n) == [lagged |-> FALSE, seq |-> n]
Lagged(n) == [lagged |-> TRUE, seq |-> n]

NewReceiver ==
    [phase |-> "none", terminal |-> FALSE, liveAfter |-> 0, items |-> <<>>,
     closed |-> FALSE, tip |-> 0, cursor |-> 0, page |-> <<>>, exhausted |-> TRUE,
     failed |-> FALSE]

\* An own run has just been recorded with its run_state_changed(queued) event.
DeliveryInit ==
    /\ origin \in Origins
    /\ tip = 1 /\ endTip = 0
    /\ terminal = (origin = "historic")
    /\ active = FALSE
    /\ worker = IF origin = "own" THEN "starting" ELSE "absent"
    /\ surface = "idle"
    /\ delivery = [holder |-> "none", cursor |-> 0, closed |-> FALSE, joined |-> {}]
    /\ rx = [r \in Receiver |-> NewReceiver]
    /\ got = [r \in Receiver |-> <<>>]
    /\ lossy = FALSE

-----------------------------------------------------------------------------
\* Store::append_event, inside whatever transaction appends

AppendEvent == tip < MaxEvents /\ tip' = tip + 1

-----------------------------------------------------------------------------
\* Subscriber::push and close

Push(x, n) ==
    IF n <= x.liveAfter \/ x.closed THEN x
    ELSE IF Len(x.items) >= Capacity
      THEN [x EXCEPT !.items = <<Lagged(n)>>, !.closed = TRUE]
    ELSE [x EXCEPT !.items = Append(@, Event(n))]

-----------------------------------------------------------------------------
\* publish: under the delivery's mutex, page after page until one is empty

WantsPublish(p) ==
    IF p = "worker" THEN worker \in {"starting", "publishing", "ended", "final", "failed"}
                    ELSE surface = "publishing"

\* What the publisher does once publish returns: ok says how.
PublishReturns(p, ok) ==
    /\ IF p = "surface" THEN surface' = "idle" /\ UNCHANGED worker
       ELSE /\ worker' = CASE worker = "starting" -> "register"
                           [] worker = "publishing" -> IF ok THEN "driving" ELSE "faulted"
                           [] worker = "ended" -> "final"
                           [] worker = "final" -> "published"
                           [] worker = "failed" -> "removed"
            /\ UNCHANGED surface
    /\ delivery' = [delivery EXCEPT !.holder = "none"]

PublishBegin(p) ==
    /\ WantsPublish(p) /\ delivery.holder = "none"
    /\ delivery' = [delivery EXCEPT !.holder = p]
    /\ UNCHANGED <<origin, tip, terminal, active, worker, surface, rx, got, endTip, lossy>>

\* One event of a page: retain drops the receivers that are gone.
PublishEvent(p) ==
    /\ delivery.holder = p /\ delivery.cursor < tip
    /\ LET n == delivery.cursor + 1
           alive == {r \in delivery.joined : rx[r].phase # "dropped"}
       IN /\ delivery' = [delivery EXCEPT !.cursor = n, !.joined = alive]
          /\ rx' = [r \in Receiver |-> IF r \in alive THEN Push(rx[r], n) ELSE rx[r]]
    /\ UNCHANGED <<origin, tip, terminal, active, worker, surface, got, endTip, lossy>>

PublishDone(p) ==
    /\ delivery.holder = p /\ delivery.cursor = tip
    /\ PublishReturns(p, TRUE)
    /\ UNCHANGED <<origin, tip, terminal, active, rx, got, endTip, lossy>>

\* Reading a page fails: the cursor stays and the next publish resumes there.
\* A start answers it with a diagnostic event.
PublishFails(p) ==
    /\ MayFailStore /\ delivery.holder = p
    /\ PublishReturns(p, FALSE)
    /\ lossy' = TRUE
    /\ tip' = IF p = "worker" /\ worker = "starting" /\ tip < MaxEvents THEN tip + 1 ELSE tip
    /\ UNCHANGED <<origin, terminal, active, rx, got, endTip>>

-----------------------------------------------------------------------------
\* create_run after the row is recorded, and RunWorker::drive

Register ==
    /\ worker = "register" /\ active' = TRUE /\ worker' = "spawning"
    /\ UNCHANGED <<origin, tip, terminal, surface, delivery, rx, got, endTip, lossy>>

Spawned ==
    /\ worker = "spawning" /\ worker' = "driving"
    /\ UNCHANGED <<origin, tip, terminal, active, surface, delivery, rx, got, endTip, lossy>>

\* The thread cannot be created: the run leaves active, is failed, published
\* and closed by start itself.
SpawnFails ==
    /\ worker = "spawning" /\ active' = FALSE /\ worker' = "unspawned"
    /\ UNCHANGED <<origin, tip, terminal, surface, delivery, rx, got, endTip, lossy>>

FailUnspawned ==
    /\ worker = "unspawned" /\ worker' = "failed"
    /\ \/ AppendEvent /\ terminal' = TRUE /\ endTip' = tip + 1
       \/ MayFailStore /\ endTip' = tip /\ UNCHANGED <<tip, terminal>>
    /\ UNCHANGED <<origin, active, surface, delivery, rx, got, lossy>>

\* Any step of the drive: a record and its event in one transaction.
Drive ==
    /\ worker = "driving" /\ AppendEvent /\ worker' = "publishing"
    /\ UNCHANGED <<origin, terminal, active, surface, delivery, rx, got, endTip, lossy>>

\* The run's own ending, or record_fault's; the latter may fail to be recorded.
End ==
    /\ worker \in {"driving", "faulted"}
    /\ \/ AppendEvent /\ terminal' = TRUE /\ endTip' = tip + 1
       \/ MayFailStore /\ endTip' = tip /\ UNCHANGED <<tip, terminal>>
    /\ worker' = IF worker = "driving" THEN "ended" ELSE "final"
    /\ UNCHANGED <<origin, active, surface, delivery, rx, got, lossy>>

Deregister ==
    /\ worker = "published" /\ active' = FALSE /\ worker' = "removed"
    /\ UNCHANGED <<origin, tip, terminal, surface, delivery, rx, got, endTip, lossy>>

\* close_delivery
CloseDelivery ==
    /\ worker = "removed" /\ delivery.holder = "none" /\ worker' = "closed"
    /\ LET alive == {r \in delivery.joined : rx[r].phase # "dropped"}
       IN /\ delivery' = [delivery EXCEPT !.closed = TRUE, !.joined = alive]
          /\ rx' = [r \in Receiver |->
                      IF r \in alive THEN [rx[r] EXCEPT !.closed = TRUE] ELSE rx[r]]
    /\ UNCHANGED <<origin, tip, terminal, active, surface, got, endTip, lossy>>

-----------------------------------------------------------------------------
\* cancel_run and decide_approval from another thread, and other writers

SurfaceEnter ==
    /\ surface = "idle" /\ active /\ tip < MaxEvents /\ surface' = "writing"
    /\ UNCHANGED <<origin, tip, terminal, active, worker, delivery, rx, got, endTip, lossy>>

SurfaceWrites ==
    /\ surface = "writing" /\ surface' = "publishing"
    /\ AppendEvent \/ UNCHANGED tip
    /\ UNCHANGED <<origin, terminal, active, worker, delivery, rx, got, endTip, lossy>>

\* retry_run adds run_retried to the log of a terminal run and publishes
\* nothing for it.
RetryRecorded ==
    /\ terminal /\ AppendEvent
    /\ UNCHANGED <<origin, terminal, active, worker, surface, delivery, rx, got, endTip, lossy>>

\* Another process drives the run: its publishes do not reach this one.
ForeignWrites ==
    /\ origin = "foreign" /\ ~terminal /\ AppendEvent
    /\ terminal' \in BOOLEAN
    /\ UNCHANGED <<origin, active, worker, surface, delivery, rx, got, endTip, lossy>>

-----------------------------------------------------------------------------
\* RunCoordinator::subscribe: the row, then under the delivery's mutex the tip
\* and the decision

SubscribeLoads(r) ==
    /\ rx[r].phase = "none"
    /\ rx' = [rx EXCEPT ![r].phase = "loaded", ![r].terminal = terminal]
    /\ UNCHANGED <<origin, tip, terminal, active, worker, surface, delivery, got, endTip, lossy>>

\* Faulty: the tip is read before the mutex is taken, so an event published
\* in between is queued and replayed by nobody
UnlockedSubscribeTip(r) ==
    /\ rx[r].phase = "loaded"
    /\ rx' = [rx EXCEPT ![r].phase = "joining", ![r].liveAfter = tip, ![r].tip = tip,
                        ![r].exhausted = (tip = 0)]
    /\ UNCHANGED <<origin, tip, terminal, active, worker, surface, delivery, got, endTip, lossy>>

SubscribeTip(r) ==
    /\ rx[r].phase = "loaded" /\ delivery.holder = "none"
    /\ delivery' = [delivery EXCEPT !.holder = r]
    /\ rx' = [rx EXCEPT ![r].phase = "joining", ![r].liveAfter = tip, ![r].tip = tip,
                        ![r].exhausted = (tip = 0)]
    /\ UNCHANGED <<origin, tip, terminal, active, worker, surface, got, endTip, lossy>>

\* Faulty: only a delivery closed in this process closes the receiver
SubscribeTrustsDelivery(r) ==
    /\ rx[r].phase = "joining"
    /\ rx' = [rx EXCEPT ![r].phase = "open", ![r].closed = delivery.closed]
    /\ delivery' = [delivery EXCEPT !.holder = "none",
                      !.joined = IF delivery.closed THEN @ ELSE @ \cup {r}]
    /\ UNCHANGED <<origin, tip, terminal, active, worker, surface, got, endTip, lossy>>

SubscribeJoins(r) ==
    /\ rx[r].phase = "joining"
    /\ LET over == delivery.closed \/ (rx[r].terminal /\ ~active)
       IN /\ rx' = [rx EXCEPT ![r].phase = "open", ![r].closed = over]
          /\ delivery' = [delivery EXCEPT !.holder = "none",
                            !.joined = IF over THEN @ ELSE @ \cup {r}]
    /\ UNCHANGED <<origin, tip, terminal, active, worker, surface, got, endTip, lossy>>

-----------------------------------------------------------------------------
\* EventReceiver: replay_next first, then the queue

Replaying(r) == rx[r].page # <<>> \/ ~rx[r].exhausted

\* A page of store/event.rs::events after the cursor, cut at the replay's tip.
ReplayPage(x) ==
    LET last == IF x.cursor + PageLimit < x.tip THEN x.cursor + PageLimit ELSE x.tip
    IN [i \in 1..(last - x.cursor) |-> x.cursor + i]

ReplayReads(r) ==
    /\ rx[r].phase = "open" /\ rx[r].page = <<>> /\ ~rx[r].exhausted
    /\ LET page == ReplayPage(rx[r])
           last == rx[r].cursor + Len(page)
       IN rx' = [rx EXCEPT ![r].page = page, ![r].cursor = last,
                           ![r].exhausted = (last >= rx[r].tip)]
    /\ UNCHANGED <<origin, tip, terminal, active, worker, surface, delivery, got, endTip, lossy>>

ReplayFails(r) ==
    /\ MayFailStore /\ rx[r].phase = "open" /\ rx[r].page = <<>> /\ ~rx[r].exhausted
    /\ rx' = [rx EXCEPT ![r].exhausted = TRUE, ![r].closed = TRUE, ![r].failed = TRUE]
    /\ UNCHANGED <<origin, tip, terminal, active, worker, surface, delivery, got, endTip, lossy>>

RecvReplayed(r) ==
    /\ rx[r].phase = "open" /\ rx[r].page # <<>>
    /\ got' = [got EXCEPT ![r] = Append(@, Event(Head(rx[r].page)))]
    /\ rx' = [rx EXCEPT ![r].page = Tail(@)]
    /\ UNCHANGED <<origin, tip, terminal, active, worker, surface, delivery, endTip, lossy>>

RecvLive(r) ==
    /\ rx[r].phase = "open" /\ ~Replaying(r) /\ rx[r].items # <<>>
    /\ got' = [got EXCEPT ![r] = Append(@, Head(rx[r].items))]
    /\ rx' = [rx EXCEPT ![r].items = Tail(@)]
    /\ UNCHANGED <<origin, tip, terminal, active, worker, surface, delivery, endTip, lossy>>

RecvDisconnected(r) ==
    /\ rx[r].phase = "open" /\ ~Replaying(r) /\ rx[r].items = <<>> /\ rx[r].closed
    /\ rx' = [rx EXCEPT ![r].phase = "disconnected"]
    /\ UNCHANGED <<origin, tip, terminal, active, worker, surface, delivery, got, endTip, lossy>>

\* The receiver is dropped: the delivery holds it weakly.
DropReceiver(r) ==
    /\ rx[r].phase \in {"open", "disconnected"}
    /\ rx' = [rx EXCEPT ![r].phase = "dropped"]
    /\ UNCHANGED <<origin, tip, terminal, active, worker, surface, delivery, got, endTip, lossy>>

-----------------------------------------------------------------------------

PublishSteps ==
    \E p \in Publisher :
        PublishBegin(p) \/ PublishEvent(p) \/ PublishDone(p) \/ PublishFails(p)

WorkerSteps ==
    Register \/ Spawned \/ SpawnFails \/ FailUnspawned \/ Drive \/ End
        \/ Deregister \/ CloseDelivery

ProducerSteps ==
    PublishSteps \/ WorkerSteps \/ SurfaceEnter \/ SurfaceWrites \/ RetryRecorded \/ ForeignWrites

Recv(r) ==
    ReplayReads(r) \/ ReplayFails(r) \/ RecvReplayed(r) \/ RecvLive(r) \/ RecvDisconnected(r)

Subscribe(r) == SubscribeLoads(r) \/ SubscribeTip(r) \/ SubscribeJoins(r)

DeliveryNext ==
    ProducerSteps \/ \E r \in Receiver : Subscribe(r) \/ Recv(r) \/ DropReceiver(r)

\* A thread past its last write goes on, and a receiver whose owner keeps
\* asking is answered.  The mutex is granted to a thread that keeps waiting for
\* it (strong fairness): its other users are commands of people, which come
\* to an end.
DeliveryFairness ==
    /\ \A p \in Publisher :
         /\ SF_deliveryVars(PublishBegin(p))
         /\ WF_deliveryVars(PublishEvent(p) \/ PublishDone(p))
    /\ WF_deliveryVars(Deregister) /\ SF_deliveryVars(CloseDelivery)
    /\ \A r \in Receiver :
         /\ SF_deliveryVars(SubscribeTip(r)) /\ WF_deliveryVars(SubscribeJoins(r))
         /\ WF_deliveryVars(Recv(r))

DeliverySpec == DeliveryInit /\ [][DeliveryNext]_deliveryVars /\ DeliveryFairness

-----------------------------------------------------------------------------

\* Whatever joins, lags or fails, a receiver returns events in the order of the
\* log, each at most once, and after Lagged nothing (subscription.rs:13-15).
InOrder ==
    \A r \in Receiver : \A i, j \in DOMAIN got[r] :
        i < j => ~got[r][i].lagged /\ got[r][i].seq < got[r][j].seq

\* Unless its replay could not be read, what a receiver has returned is the
\* log from its first event without a hole, up to a Lagged: the history it
\* replays and the live queue meet exactly, whenever it joined.
GapFree ==
    \A r \in Receiver : ~rx[r].failed =>
        \A i \in DOMAIN got[r] : got[r][i].lagged \/ got[r][i].seq = i

\* A receiver is told Disconnected only after everything the worker recorded,
\* the run's end included, unless it lagged or a read of the log failed.
EndSeen ==
    \A r \in Receiver :
        rx[r].phase = "disconnected" /\ ~rx[r].failed /\ ~lossy
          => \/ \E i \in DOMAIN got[r] : got[r][i].lagged
             \/ Len(got[r]) >= endTip

\* What a receiver returns is the run's log: in order and once, without a hole
\* it was not told of, and to the end, whenever it joined and however slow it is.
DeliveryFaithful == InOrder /\ GapFree /\ EndSeen

\* A receiver of a run that is over here, or was over before it joined, is
\* told so: nobody waits on a run without a worker.
Over == origin = "historic" \/ worker \in {"ended", "final", "published", "removed", "closed"}

ReceiversSettle ==
    \A r \in Receiver :
        (rx[r].phase = "open" /\ Over) ~> rx[r].phase \in {"disconnected", "dropped"}
=============================================================================
