------------------------ MODULE EventDeliveryProofs ------------------------
(* Proofs about EventDelivery, for any receivers, queue and page sizes, and *)
(* any length of the log.                                                   *)
EXTENDS EventDelivery, SequenceTheorems, TLAPS

-----------------------------------------------------------------------------
\* The inductive invariant

Entry == [lagged : BOOLEAN, seq : Nat]

Phase == {"none", "loaded", "joining", "open", "disconnected", "dropped"}

ReceiverType ==
    [phase : Phase, terminal : BOOLEAN, liveAfter : Nat, items : Seq(Entry), closed : BOOLEAN,
     tip : Nat, cursor : Nat, page : Seq(Nat), exhausted : BOOLEAN, failed : BOOLEAN]

WorkerPC == {"absent", "starting", "register", "spawning", "unspawned", "failed", "driving",
             "publishing", "faulted", "ended", "final", "published", "removed", "closed"}

\* The worker has recorded the end of its run, as well as it could.
Past == {"ended", "final", "published", "failed", "removed", "closed"}

DeliveryTypeOK ==
    /\ origin \in Origins
    /\ tip \in Nat /\ endTip \in Nat
    /\ terminal \in BOOLEAN /\ active \in BOOLEAN /\ lossy \in BOOLEAN
    /\ worker \in WorkerPC
    /\ surface \in {"idle", "writing", "publishing"}
    /\ delivery \in [holder : {"none"} \cup Publisher \cup Receiver, cursor : Nat,
                     closed : BOOLEAN, joined : SUBSET Receiver]
    /\ rx \in [Receiver -> ReceiverType]
    /\ got \in [Receiver -> Seq(Entry)]

\* Who holds the mutex is publishing or joining, and only those.
Mutex ==
    /\ delivery.holder = "worker" => WantsPublish("worker")
    /\ delivery.holder = "surface" => WantsPublish("surface")
    /\ \A r \in Receiver : rx[r].phase = "joining" <=> delivery.holder = r

\* The end of the run is recorded once, and published before the delivery is
\* closed unless a read of the log failed.
Ending ==
    /\ origin = "own" <=> worker # "absent"
    /\ endTip <= tip /\ delivery.cursor <= tip
    /\ worker \notin Past => endTip = 0
    /\ origin = "own" /\ terminal => worker \in Past
    /\ delivery.closed <=> worker = "closed"
    /\ worker \in {"published", "removed", "closed"} /\ ~lossy => delivery.cursor >= endTip

\* The replay of a receiver is over.
Live(x) == x.page = <<>> /\ x.exhausted

\* A receiver that has not joined has nothing.
Blank(x, g) ==
    x.phase \in {"none", "loaded", "joining"} =>
        /\ g = <<>> /\ x.items = <<>> /\ x.page = <<>>
        /\ ~x.closed /\ ~x.failed /\ x.cursor = 0

\* What was replayed, what is in the page and what is left to read make up the
\* log as it was when the receiver joined.
Replayed(x, g) ==
    /\ x.cursor <= x.tip /\ x.tip = x.liveAfter
    /\ x.exhausted /\ ~x.failed => x.cursor = x.tip
    /\ Len(x.page) <= x.cursor
    /\ \A j \in DOMAIN x.page : x.page[j] = (x.cursor - Len(x.page)) + j
    /\ ~Live(x) => /\ ~x.failed
                   /\ Len(g) + Len(x.page) = x.cursor
                   /\ \A i \in DOMAIN g : g[i] = Event(i)
    /\ Live(x) /\ ~x.failed => Len(g) >= x.liveAfter

\* The event before the first one in the live queue.
Base(x, g) == IF Live(x) THEN Len(g) ELSE x.liveAfter

Ordered(q) == \A i, j \in DOMAIN q : i < j => ~q[i].lagged /\ q[i].seq < q[j].seq

HasLag(q) == \E i \in DOMAIN q : q[i].lagged

\* The live queue goes on where the replay ends, and is only cut by a lag.
Queued(x, g, cursor, joins) ==
    /\ Ordered(g) /\ Ordered(x.items)
    /\ \A i \in DOMAIN g : /\ g[i].seq <= x.liveAfter \/ g[i].seq <= cursor
                           /\ \A j \in DOMAIN x.items : ~g[i].lagged /\ g[i].seq < x.items[j].seq
    /\ \A j \in DOMAIN x.items : x.liveAfter < x.items[j].seq /\ x.items[j].seq <= cursor
    /\ ~x.failed => /\ \A i \in DOMAIN g : g[i].lagged \/ g[i].seq = i
                    /\ \A j \in DOMAIN x.items : x.items[j].lagged \/ x.items[j].seq = Base(x, g) + j
    /\ HasLag(g) \/ HasLag(x.items) \/ x.failed => x.closed
    /\ joins /\ ~x.closed =>
         Base(x, g) + Len(x.items) = IF cursor > x.liveAfter THEN cursor ELSE x.liveAfter

\* A receiver is closed after the end, with everything up to it in its hands.
Closing(x, g, joins) ==
    /\ joins => x.phase \in {"open", "disconnected", "dropped"}
    /\ x.phase = "open" /\ ~x.closed => joins
    /\ x.liveAfter <= tip
    /\ x.terminal /\ origin = "own" => worker \in Past
    /\ x.phase = "joining" => /\ delivery.cursor <= x.liveAfter
                              /\ x.terminal \/ delivery.closed => x.liveAfter >= endTip
    /\ x.closed /\ ~x.failed /\ ~HasLag(g) /\ ~HasLag(x.items) =>
         /\ worker \in Past \cup {"absent"}
         /\ ~lossy => Base(x, g) + Len(x.items) >= endTip
    /\ x.phase = "disconnected" => Live(x) /\ x.items = <<>> /\ x.closed

\* All of it, of one receiver that has returned g.
Good(x, g, cursor, joins) == Blank(x, g) /\ Replayed(x, g) /\ Queued(x, g, cursor, joins)

Receivers ==
    \A r \in Receiver :
        /\ Good(rx[r], got[r], delivery.cursor, r \in delivery.joined)
        /\ Closing(rx[r], got[r], r \in delivery.joined)

DeliveryInv == DeliveryTypeOK /\ Mutex /\ Ending /\ Receivers

-----------------------------------------------------------------------------
\* Lists, entry by entry

\* An entry is added behind the others.
LEMMA AddedLast ==
    ASSUME NEW T, NEW q \in Seq(T), NEW e \in T
    PROVE  /\ Append(q, e) \in Seq(T) /\ Append(q, e) # <<>>
           /\ Len(q) \in Nat /\ Len(Append(q, e)) = Len(q) + 1
           /\ DOMAIN q = 1..Len(q) /\ DOMAIN Append(q, e) = 1..(Len(q) + 1)
           /\ \A i \in 1..Len(q) : Append(q, e)[i] = q[i]
           /\ Append(q, e)[Len(q) + 1] = e
  OBVIOUS

\* The first entry is taken.
LEMMA FirstTaken ==
    ASSUME NEW T, NEW q \in Seq(T), q # <<>>
    PROVE  /\ Head(q) = q[1] /\ q[1] \in T /\ Tail(q) \in Seq(T)
           /\ Len(q) \in Nat /\ Len(q) >= 1 /\ Len(Tail(q)) = Len(q) - 1
           /\ DOMAIN q = 1..Len(q) /\ DOMAIN Tail(q) = 1..(Len(q) - 1)
           /\ \A i \in 1..(Len(q) - 1) : Tail(q)[i] = q[i + 1]
  OBVIOUS

\* A list is empty when its length is 0.
LEMMA Emptiness ==
    ASSUME NEW T, NEW q \in Seq(T)
    PROVE  Len(q) \in Nat /\ DOMAIN q = 1..Len(q) /\ (q = <<>> <=> Len(q) = 0)
  OBVIOUS

\* An entry above all others goes to the end of an ordered list.
LEMMA Grows ==
    ASSUME NEW q, NEW p, NEW m \in Nat, NEW n \in Nat,
           DOMAIN q = 1..m, DOMAIN p = 1..(m + 1), p[m + 1].seq = n,
           \A i \in 1..m : p[i] = q[i] /\ ~q[i].lagged /\ q[i].seq < n,
           Ordered(q)
    PROVE  /\ Ordered(p)
           /\ HasLag(p) <=> p[m + 1].lagged
           /\ \A i \in DOMAIN p : (i \in DOMAIN q /\ p[i] = q[i]) \/ i = m + 1
  BY DEF Ordered, HasLag

\* The rest of an ordered list is ordered, and above its first entry.
LEMMA Shrinks ==
    ASSUME NEW q, NEW p, NEW m \in Nat, m >= 1,
           DOMAIN q = 1..m, DOMAIN p = 1..(m - 1), \A i \in 1..(m - 1) : p[i] = q[i + 1],
           Ordered(q)
    PROVE  /\ Ordered(p)
           /\ HasLag(q) <=> HasLag(p) \/ q[1].lagged
           /\ \A j \in DOMAIN p : /\ j + 1 \in DOMAIN q /\ p[j] = q[j + 1]
                                /\ ~q[1].lagged /\ q[1].seq < p[j].seq
<1>1. \A j \in 1..(m - 1) : j + 1 \in 1..m /\ j + 1 > 1 /\ 1 \in 1..m
  OBVIOUS
<1>2. \A i \in 1..m : i = 1 \/ (i - 1 \in 1..(m - 1) /\ p[i - 1] = q[i])
  OBVIOUS
<1>3. ASSUME NEW i \in DOMAIN p, NEW j \in DOMAIN p, i < j
      PROVE  ~p[i].lagged /\ p[i].seq < p[j].seq
  <2>1. i + 1 \in DOMAIN q /\ j + 1 \in DOMAIN q /\ i + 1 < j + 1 /\ p[i] = q[i + 1] /\ p[j] = q[j + 1]
    BY <1>1, <1>3
  <2>2. ~q[i + 1].lagged /\ q[i + 1].seq < q[j + 1].seq
    BY <2>1 DEF Ordered
  <2>3. QED
    BY <2>1, <2>2
<1>4. HasLag(q) <=> HasLag(p) \/ q[1].lagged
  <2>1. ASSUME NEW i \in DOMAIN q, q[i].lagged PROVE HasLag(p) \/ q[1].lagged
    <3>1. i = 1 \/ (i - 1 \in DOMAIN p /\ p[i - 1] = q[i])
      BY <1>2
    <3>2. QED
      BY <2>1, <3>1 DEF HasLag
  <2>2. ASSUME NEW i \in DOMAIN p, p[i].lagged PROVE HasLag(q)
    <3>1. i + 1 \in DOMAIN q /\ p[i] = q[i + 1]
      BY <1>1
    <3>2. QED
      BY <2>2, <3>1 DEF HasLag
  <2>3. QED
    BY <1>1, <2>1, <2>2 DEF HasLag
<1>5. QED
  BY <1>1, <1>3, <1>4 DEF Ordered

\* The next event joins the queue: it is behind everything that was taken and
\* everything that waits, and one after it.
CanJoin(g, q, p, m, b, after, c) ==
    /\ c >= after /\ b + m = c
    /\ DOMAIN q = 1..m /\ DOMAIN p = 1..(m + 1)
    /\ \A j \in 1..m : p[j] = q[j] /\ q[j].seq \in Nat
    /\ p[m + 1] = Event(c + 1)
    /\ \A i \in DOMAIN g : g[i].seq \in Nat /\ (g[i].seq <= after \/ g[i].seq <= c)
    /\ \A i \in DOMAIN g : \A j \in DOMAIN q : ~g[i].lagged /\ g[i].seq < q[j].seq
    /\ \A j \in DOMAIN q : after < q[j].seq /\ q[j].seq <= c
    /\ \A j \in DOMAIN q : q[j].lagged \/ q[j].seq = b + j
    /\ Ordered(q) /\ ~HasLag(q) /\ ~HasLag(g)

\* It has joined.
HasJoined(g, p, b, after, c) ==
    /\ Ordered(p) /\ ~HasLag(p)
    /\ \A i \in DOMAIN g : \A j \in DOMAIN p : ~g[i].lagged /\ g[i].seq < p[j].seq
    /\ \A j \in DOMAIN p : after < p[j].seq /\ p[j].seq <= c
    /\ \A j \in DOMAIN p : p[j].lagged \/ p[j].seq = b + j

\* The queue stays in order, after what was taken and without a hole.
LEMMA Joins ==
    ASSUME NEW g, NEW q, NEW p, NEW m \in Nat, NEW b \in Nat, NEW after \in Nat, NEW c \in Nat,
           CanJoin(g, q, p, m, b, after, c)
    PROVE  HasJoined(g, p, b, after, c + 1)
<1> USE DEF CanJoin, HasJoined
<1>1. ~Event(c + 1).lagged /\ Event(c + 1).seq = c + 1
  BY DEF Event
<1>2. \A j \in 1..m : p[j] = q[j] /\ ~q[j].lagged /\ q[j].seq < c + 1
  BY DEF HasLag
<1>3. /\ Ordered(p) /\ ~HasLag(p)
      /\ \A j \in DOMAIN p : (j \in DOMAIN q /\ p[j] = q[j]) \/ (j = m + 1 /\ p[j] = Event(c + 1))
  <2>1. c + 1 \in Nat /\ p[m + 1].seq = c + 1 /\ ~p[m + 1].lagged
    BY <1>1
  <2>2. QED
    BY <1>2, <2>1, Grows
<1>4. \A i \in DOMAIN g : ~g[i].lagged /\ g[i].seq < c + 1
  BY DEF HasLag
<1>5. ASSUME NEW j \in DOMAIN p
      PROVE  /\ \A i \in DOMAIN g : ~g[i].lagged /\ g[i].seq < p[j].seq
             /\ after < p[j].seq /\ p[j].seq <= c + 1 /\ (p[j].lagged \/ p[j].seq = b + j)
  <2>1. CASE j \in DOMAIN q /\ p[j] = q[j]
    BY <1>4, <2>1
  <2>2. CASE j = m + 1 /\ p[j] = Event(c + 1)
    BY <1>1, <1>4, <2>2
  <2>3. QED
    BY <1>3, <2>1, <2>2
<1>6. QED
  BY <1>3, <1>5

-----------------------------------------------------------------------------
\* One receiver

\* A receiver before and after event n is pushed to it.
Pushable(x, g, c) ==
    /\ x \in ReceiverType /\ g \in Seq(Entry) /\ c \in Nat
    /\ Good(x, g, c, TRUE) /\ x.phase \in {"open", "disconnected", "dropped"}

Pushed(x, g, n, y) ==
    /\ y \in ReceiverType /\ Good(y, g, n, TRUE)
    /\ y.phase = x.phase /\ y.terminal = x.terminal /\ y.liveAfter = x.liveAfter
    /\ y.failed = x.failed /\ (Live(y) <=> Live(x))
    /\ x.closed => y = x
    /\ y.closed /\ ~x.closed => HasLag(y.items)

\* An event that is published is the next of the queue, or all of it is lost.
LEMMA PushKeeps ==
    ASSUME NEW x, NEW g, NEW c, NEW y, Pushable(x, g, c), y = Push(x, c + 1)
    PROVE  Pushed(x, g, c + 1, y)
<1> USE DEF Pushable, Pushed
<1> DEFINE n == c + 1
<1>0. /\ x.items \in Seq(Entry) /\ Len(x.items) \in Nat /\ DOMAIN x.items = 1..Len(x.items)
      /\ Len(g) \in Nat /\ DOMAIN g = 1..Len(g)
      /\ x.liveAfter \in Nat /\ \A j \in DOMAIN x.items : x.items[j] \in Entry
      /\ \A i \in DOMAIN g : g[i] \in Entry
  BY DEF ReceiverType
<1>1. CASE x.closed \/ n <= x.liveAfter
  <2>1. y = x
    BY <1>1 DEF Push
  <2>2. Queued(x, g, n, TRUE)
    BY <1>0, <1>1 DEF Good, Queued, Entry, Base
  <2>3. QED
    BY <1>1, <2>1, <2>2 DEF Good
<1>2. CASE ~(x.closed \/ n <= x.liveAfter) /\ Len(x.items) >= Capacity
  <2>1. y = [x EXCEPT !.items = <<Lagged(n)>>, !.closed = TRUE]
    BY <1>0, <1>2, DeliveryAssumption DEF Push
  <2>0. <<Lagged(n)>> \in Seq(Entry)
    BY DEF Lagged, Entry
  <2>2. /\ y \in ReceiverType /\ y.items = <<Lagged(n)>> /\ y.closed /\ y.phase = x.phase
        /\ y.terminal = x.terminal /\ y.liveAfter = x.liveAfter /\ y.tip = x.tip
        /\ y.cursor = x.cursor /\ y.page = x.page /\ y.exhausted = x.exhausted
        /\ y.failed = x.failed
    BY ONLY x \in ReceiverType, <2>0, <2>1 DEF ReceiverType
  <2>3. DOMAIN y.items = {1} /\ y.items[1].lagged /\ y.items[1].seq = n
    BY <2>2 DEF Lagged
  <2>4. Blank(y, g) /\ Replayed(y, g) /\ (Live(y) <=> Live(x))
    BY ONLY <2>2, <1>2, Pushable(x, g, c) DEF Pushable, Good, Blank, Replayed, Live
  <2>5. Queued(y, g, n, TRUE)
    BY <1>0, <1>2, <2>2, <2>3 DEF Good, Queued, Ordered, HasLag, Entry
  <2>6. QED
    BY <1>2, <2>2, <2>3, <2>4, <2>5 DEF Good, HasLag
<1>3. CASE ~(x.closed \/ n <= x.liveAfter) /\ ~(Len(x.items) >= Capacity)
  <2>1. y = [x EXCEPT !.items = Append(@, Event(n))]
    BY <1>0, <1>3, DeliveryAssumption DEF Push
  <2>0. Event(n) \in Entry /\ ~Event(n).lagged /\ Event(n).seq = n
    BY DEF Event, Entry
  <2>2. /\ y.items = Append(x.items, Event(n)) /\ y.closed = x.closed /\ y.phase = x.phase
        /\ y.terminal = x.terminal /\ y.liveAfter = x.liveAfter /\ y.tip = x.tip
        /\ y.cursor = x.cursor /\ y.page = x.page /\ y.exhausted = x.exhausted
        /\ y.failed = x.failed
    BY <2>1 DEF ReceiverType
  <2>3. /\ y.items \in Seq(Entry) /\ Len(y.items) = Len(x.items) + 1
        /\ DOMAIN y.items = 1..(Len(x.items) + 1)
        /\ \A i \in 1..Len(x.items) : y.items[i] = x.items[i]
        /\ y.items[Len(x.items) + 1] = Event(n)
    BY ONLY <1>0, <2>0, <2>2, AddedLast
  <2>4. y \in ReceiverType
    BY <2>1, <2>2, <2>3 DEF ReceiverType
  <2>5. Blank(y, g) /\ Replayed(y, g) /\ (Live(y) <=> Live(x))
    BY <1>3, <2>2 DEF Good, Blank, Replayed, Live
  <2>6. Queued(y, g, n, TRUE)
    <3>1. /\ ~HasLag(g) /\ ~HasLag(x.items) /\ ~x.failed
          /\ Base(x, g) + Len(x.items) = c /\ Base(x, g) \in Nat /\ c >= x.liveAfter
      BY <1>0, <1>3 DEF Good, Queued, Base
    <3>2. /\ \A j \in DOMAIN x.items : x.items[j].seq \in Nat
          /\ \A i \in DOMAIN g : g[i].seq \in Nat
      BY <1>0 DEF Entry
    <3>3. \A i \in DOMAIN g : ~g[i].lagged
      BY <3>1 DEF HasLag
    <3>6. /\ Ordered(x.items)
          /\ \A i \in DOMAIN g : g[i].seq <= x.liveAfter \/ g[i].seq <= c
          /\ \A i \in DOMAIN g : \A j \in DOMAIN x.items : ~g[i].lagged /\ g[i].seq < x.items[j].seq
          /\ \A j \in DOMAIN x.items : x.liveAfter < x.items[j].seq /\ x.items[j].seq <= c
          /\ \A j \in DOMAIN x.items : x.items[j].lagged \/ x.items[j].seq = Base(x, g) + j
      BY ONLY Good(x, g, c, TRUE), <3>1 DEF Good, Queued
    <3>7. y.items[Len(x.items) + 1] = Event(c + 1) /\ x.liveAfter \in Nat
      BY <1>0, <2>3
    <3>4. /\ Ordered(y.items) /\ ~HasLag(y.items)
          /\ \A i \in DOMAIN g : \A j \in DOMAIN y.items : ~g[i].lagged /\ g[i].seq < y.items[j].seq
          /\ \A j \in DOMAIN y.items : x.liveAfter < y.items[j].seq /\ y.items[j].seq <= c + 1
          /\ \A j \in DOMAIN y.items : y.items[j].lagged \/ y.items[j].seq = Base(x, g) + j
      <4>1. CanJoin(g, x.items, y.items, Len(x.items), Base(x, g), x.liveAfter, c)
        BY ONLY <1>0, <2>3, <3>1, <3>2, <3>6, <3>7, c \in Nat DEF CanJoin
      <4>2. Len(x.items) \in Nat /\ Base(x, g) \in Nat /\ x.liveAfter \in Nat
        BY <1>0, <3>1
      <4>3. HasJoined(g, y.items, Base(x, g), x.liveAfter, c + 1)
        BY ONLY <4>1, <4>2, c \in Nat, Joins
      <4>4. QED
        BY ONLY <4>3 DEF HasJoined
    <3>5. Base(y, g) = Base(x, g) /\ Base(y, g) + Len(y.items) = n
      <4>1. Len(g) \in Nat /\ Len(x.items) \in Nat /\ x.liveAfter \in Nat /\ c \in Nat
            /\ Len(y.items) = Len(x.items) + 1
        BY <1>0, <2>3
      <4>2. Base(y, g) = Base(x, g)
        BY ONLY <2>2, <2>5 DEF Base
      <4>3. QED
        BY ONLY <3>1, <4>1, <4>2
    <3>8. \A i \in DOMAIN g : g[i].seq <= y.liveAfter \/ g[i].seq <= n
      BY ONLY <1>0, <2>2, <3>2, Good(x, g, c, TRUE), c \in Nat DEF Good, Queued
    <3>9. Ordered(g) /\ \A i \in DOMAIN g : g[i].lagged \/ g[i].seq = i
      BY ONLY Good(x, g, c, TRUE), <3>1 DEF Good, Queued
    <3>10. n > y.liveAfter
      BY ONLY <1>0, <1>3, <2>2, c \in Nat
    <3> HIDE DEF n
    <3>11. QED
      BY ONLY <2>2, <3>1, <3>4, <3>5, <3>8, <3>9, <3>10 DEF Queued, n
  <2>7. QED
    BY <1>3, <2>2, <2>4, <2>5, <2>6 DEF Good
<1>4. QED
  BY <1>1, <1>2, <1>3

\* Whoever takes from a receiver, or reads for it, leaves its part in the end of
\* the delivery as it was: nothing is closed, lost or gained.
Conserved(x, g, y, h) ==
    /\ y.phase = x.phase /\ y.terminal = x.terminal /\ y.liveAfter = x.liveAfter
    /\ y.closed = x.closed /\ y.failed = x.failed
    /\ HasLag(h) \/ HasLag(y.items) <=> HasLag(g) \/ HasLag(x.items)
    /\ Base(y, h) + Len(y.items) = Base(x, g) + Len(x.items)

\* A receiver after it read a page, failed to, or gave away its first event.
PageRead(x) ==
    [x EXCEPT !.page = ReplayPage(x), !.cursor = x.cursor + Len(ReplayPage(x)),
              !.exhausted = (x.cursor + Len(ReplayPage(x)) >= x.tip)]

ReadFailed(x) == [x EXCEPT !.exhausted = TRUE, !.closed = TRUE, !.failed = TRUE]

PageReturned(x, g) == Append(g, Event(Head(x.page)))

PageTaken(x) == [x EXCEPT !.page = Tail(@)]

ItemReturned(x, g) == Append(g, Head(x.items))

ItemTaken(x) == [x EXCEPT !.items = Tail(@)]

\* A page goes on where the last one ended.
LEMMA ReadKeeps ==
    ASSUME NEW x \in ReceiverType, NEW g \in Seq(Entry), NEW c \in Nat, NEW joins, NEW y,
           Good(x, g, c, joins), x.phase = "open", x.page = <<>>, ~x.exhausted,
           y = PageRead(x)
    PROVE  y \in ReceiverType /\ Good(y, g, c, joins) /\ Conserved(x, g, y, g)
<1> DEFINE last == IF x.cursor + PageLimit < x.tip THEN x.cursor + PageLimit ELSE x.tip
           page == ReplayPage(x)
           k == last - x.cursor
<1>0. /\ x.cursor \in Nat /\ x.tip \in Nat /\ x.liveAfter \in Nat /\ PageLimit \in Nat
      /\ x.items \in Seq(Entry) /\ Len(g) \in Nat /\ Len(x.items) \in Nat
  BY DeliveryAssumption DEF ReceiverType
<1>1. x.cursor <= x.tip /\ x.tip = x.liveAfter /\ ~x.failed /\ ~Live(x) /\ Len(g) = x.cursor
  <2>1. ~Live(x) /\ Len(x.page) = 0
    BY DEF Live
  <2>2. QED
    BY <1>0, <2>1 DEF Good, Replayed
<1>2. /\ k \in Nat /\ last \in Nat /\ x.cursor + k = last /\ last <= x.tip
      /\ last >= x.tip => last = x.tip
  BY <1>0, <1>1
<1>3. page \in [1..k -> Nat] /\ \A j \in 1..k : page[j] = x.cursor + j
  BY <1>0, <1>2 DEF ReplayPage
<1> HIDE DEF page, k, last
<1>4. page \in Seq(Nat) /\ Len(page) = k /\ DOMAIN page = 1..k
  BY <1>2, <1>3
<1>10. y = [x EXCEPT !.page = page, !.cursor = last, !.exhausted = (last >= x.tip)]
  BY <1>2, <1>4 DEF page, PageRead
<1>5. /\ y.page = page /\ y.cursor = last /\ y.exhausted = (last >= x.tip)
      /\ y.phase = x.phase /\ y.terminal = x.terminal /\ y.liveAfter = x.liveAfter
      /\ y.closed = x.closed /\ y.failed = x.failed /\ y.items = x.items /\ y.tip = x.tip
      /\ y \in ReceiverType
  <2>1. last \in Nat /\ page \in Seq(Nat) /\ (last >= x.tip) \in BOOLEAN
    BY <1>2, <1>4
  <2> DEFINE over == last >= x.tip
  <2>2. over \in BOOLEAN /\ y = [x EXCEPT !.page = page, !.cursor = last, !.exhausted = over]
    BY <1>10, <2>1
  <2> HIDE DEF over
  <2>3. /\ y.page = page /\ y.cursor = last /\ y.exhausted = over
        /\ y.phase = x.phase /\ y.terminal = x.terminal /\ y.liveAfter = x.liveAfter
        /\ y.closed = x.closed /\ y.failed = x.failed /\ y.items = x.items /\ y.tip = x.tip
        /\ y \in ReceiverType
    BY ONLY <2>1, <2>2, x \in ReceiverType DEF ReceiverType
  <2>4. QED
    BY <2>3 DEF over
<1>6. Live(y) => last = x.tip /\ k = 0
  <2>1. Live(y) => Len(y.page) = 0 /\ (last >= x.tip)
    BY ONLY <1>5 DEF Live
  <2>2. QED
    BY ONLY <1>2, <1>4, <1>5, <2>1
<1>7. Base(y, g) = Base(x, g)
  BY <1>0, <1>1, <1>2, <1>5, <1>6 DEF Base
<1>8. Replayed(y, g)
  <2>1. \A i \in DOMAIN g : g[i] = Event(i)
    BY <1>1 DEF Good, Replayed
  <2>2. \A j \in DOMAIN page : page[j] = (last - k) + j
    <3>1. x.cursor \in Nat /\ k \in Nat /\ x.cursor + k = last /\ DOMAIN page = 1..k
      BY <1>0, <1>2, <1>4
    <3>2. x.cursor = last - k
      BY ONLY <3>1
    <3>3. QED
      BY ONLY <1>3, <3>1, <3>2
  <2>4. k <= last /\ Len(g) + k = last
    BY ONLY <1>0, <1>1, <1>2
  <2>6. Live(y) => Len(g) >= y.liveAfter
    BY ONLY <1>0, <1>1, <1>2, <1>5, <1>6
  <2>5. QED
    BY ONLY <1>1, <1>2, <1>4, <1>5, <1>6, <2>1, <2>2, <2>4, <2>6 DEF Replayed
<1>9. QED
  BY <1>5, <1>7, <1>8 DEF Good, Blank, Queued, Conserved

\* The first event of the page is the next one of the log.
LEMMA ReplayedKeeps ==
    ASSUME NEW x \in ReceiverType, NEW g \in Seq(Entry), NEW c \in Nat, NEW joins,
           NEW y, NEW h, Good(x, g, c, joins), x.phase = "open", x.page # <<>>,
           h = PageReturned(x, g), y = PageTaken(x)
    PROVE  /\ y \in ReceiverType /\ h \in Seq(Entry)
           /\ Good(y, h, c, joins) /\ Conserved(x, g, y, h)
<1> DEFINE k == Len(x.page)
           m == Len(g)
<1>0. /\ x.cursor \in Nat /\ x.tip \in Nat /\ x.liveAfter \in Nat
      /\ x.items \in Seq(Entry) /\ Len(x.items) \in Nat /\ x.page \in Seq(Nat)
      /\ \A j \in DOMAIN x.items : x.items[j] \in Entry
  BY DEF ReceiverType
<1>1. /\ Head(x.page) = x.page[1] /\ x.page[1] \in Nat /\ Tail(x.page) \in Seq(Nat)
      /\ k \in Nat /\ k >= 1 /\ Len(Tail(x.page)) = k - 1
      /\ DOMAIN x.page = 1..k /\ DOMAIN Tail(x.page) = 1..(k - 1)
      /\ \A i \in 1..(k - 1) : Tail(x.page)[i] = x.page[i + 1]
  BY <1>0, FirstTaken
<1>2. ~Live(x)
  BY DEF Live
<1>3. /\ x.cursor <= x.tip /\ x.tip = x.liveAfter /\ ~x.failed /\ m + k = x.cursor
      /\ \A j \in 1..k : x.page[j] = (x.cursor - k) + j
      /\ \A i \in DOMAIN g : g[i] = Event(i)
      /\ (x.exhausted => x.cursor = x.tip)
  BY <1>1, <1>2 DEF Good, Replayed
<1>4. Event(Head(x.page)) \in Entry
  BY <1>1 DEF Event, Entry
<1>5. /\ h \in Seq(Entry) /\ m \in Nat /\ Len(h) = m + 1 /\ DOMAIN g = 1..m
      /\ DOMAIN h = 1..(m + 1) /\ \A i \in 1..m : h[i] = g[i]
      /\ h[m + 1] = Event(Head(x.page))
  BY <1>4, AddedLast DEF PageReturned
<1>6. /\ y.page = Tail(x.page) /\ y.cursor = x.cursor /\ y.exhausted = x.exhausted
      /\ y.phase = x.phase /\ y.terminal = x.terminal /\ y.liveAfter = x.liveAfter
      /\ y.closed = x.closed /\ y.failed = x.failed /\ y.items = x.items /\ y.tip = x.tip
      /\ y \in ReceiverType
  BY <1>1 DEF ReceiverType, PageTaken
<1>16. /\ k \in Nat /\ k >= 1 /\ m \in Nat /\ Len(y.page) = k - 1 /\ Len(h) = m + 1
       /\ DOMAIN x.page = 1..k /\ DOMAIN y.page = 1..(k - 1)
       /\ \A i \in 1..(k - 1) : y.page[i] = x.page[i + 1]
       /\ DOMAIN g = 1..m /\ DOMAIN h = 1..(m + 1) /\ \A i \in 1..m : h[i] = g[i]
       /\ h[m + 1] = Event(x.page[1])
  BY <1>1, <1>5, <1>6
<1>17. x.cursor \in Nat /\ x.tip \in Nat /\ x.liveAfter \in Nat
  BY <1>0
<1> HIDE DEF k, m
<1>7. \A i \in DOMAIN h : h[i] = Event(i)
  <2>1. x.page[1] = m + 1
    BY ONLY <1>3, <1>16, <1>17
  <2>2. \A i \in 1..(m + 1) : i \in 1..m \/ i = m + 1
    BY ONLY <1>16
  <2>3. QED
    BY ONLY <1>3, <1>16, <2>1, <2>2
<1>8. Live(y) => x.exhausted /\ k = 1 /\ Len(h) = x.liveAfter
  <2>1. Live(y) => x.exhausted /\ Len(y.page) = 0
    BY <1>6 DEF Live
  <2>2. /\ k \in Nat /\ m \in Nat /\ Len(y.page) = k - 1 /\ Len(h) = m + 1
        /\ x.tip = x.liveAfter /\ m + k = x.cursor /\ (x.exhausted => x.cursor = x.tip)
    BY ONLY <1>3, <1>16
  <2>3. QED
    BY ONLY <1>17, <2>1, <2>2
<1>9. Replayed(y, h)
  <2>1. \A j \in DOMAIN y.page : y.page[j] = (x.cursor - (k - 1)) + j
    <3>1. ASSUME NEW j \in 1..(k - 1) PROVE y.page[j] = (x.cursor - (k - 1)) + j
      <4>1. j \in Nat /\ j + 1 \in 1..k /\ (x.cursor - k) + (j + 1) = (x.cursor - (k - 1)) + j
        <5>1. k \in Nat /\ x.cursor \in Nat
          BY ONLY <1>16, <1>17
        <5>2. QED
          BY ONLY <3>1, <5>1
      <4>2. QED
        BY ONLY <1>3, <1>16, <3>1, <4>1
    <3>2. QED
      BY ONLY <1>16, <3>1
  <2>2. Len(y.page) = k - 1 /\ k - 1 <= x.cursor /\ Len(h) + (k - 1) = x.cursor
    BY ONLY <1>3, <1>16, <1>17
  <2>3. QED
    BY ONLY <1>0, <1>3, <1>5, <1>6, <1>7, <1>8, <2>1, <2>2 DEF Replayed
<1>10. Base(y, h) = Base(x, g)
  BY <1>2, <1>6, <1>8 DEF Base
<1>11. \A i \in Nat : ~Event(i).lagged /\ Event(i).seq = i
  BY DEF Event
<1>12. ~HasLag(g) /\ ~HasLag(h) /\ Ordered(h)
  BY <1>3, <1>5, <1>7, <1>11 DEF HasLag, Ordered
<1>13. \A i \in DOMAIN h : h[i].seq = i /\ ~h[i].lagged /\ i <= x.liveAfter
  <2>1. ASSUME NEW i \in 1..(m + 1) PROVE i \in Nat /\ i <= x.liveAfter
    BY ONLY <1>3, <1>16, <1>17, <2>1
  <2>2. QED
    BY ONLY <1>7, <1>11, <1>16, <2>1
<1>14. Queued(y, h, c, joins)
  <2>1. \A i \in DOMAIN h : /\ h[i].seq <= y.liveAfter \/ h[i].seq <= c
                            /\ \A j \in DOMAIN y.items : ~h[i].lagged /\ h[i].seq < y.items[j].seq
    <3>1. \A j \in DOMAIN x.items : x.liveAfter < x.items[j].seq /\ x.items[j].seq \in Nat
      BY <1>0 DEF Good, Queued, Entry
    <3>2. QED
      BY ONLY <1>0, <1>5, <1>6, <1>13, <3>1
  <2>2. QED
    BY <1>6, <1>10, <1>12, <1>13, <2>1 DEF Good, Queued
<1>15. QED
  BY <1>5, <1>6, <1>9, <1>10, <1>12, <1>14 DEF Good, Blank, Conserved

\* The first entry of the queue is the next event of the log, or the lag.
LEMMA LiveKeeps ==
    ASSUME NEW x \in ReceiverType, NEW g \in Seq(Entry), NEW c \in Nat, NEW joins,
           NEW y, NEW h, Good(x, g, c, joins), x.phase = "open", Live(x), x.items # <<>>,
           h = ItemReturned(x, g), y = ItemTaken(x)
    PROVE  /\ y \in ReceiverType /\ h \in Seq(Entry)
           /\ Good(y, h, c, joins) /\ Conserved(x, g, y, h)
<1> DEFINE k == Len(x.items)
           m == Len(g)
           q == x.items
           p == y.items
<1>0. /\ x.cursor \in Nat /\ x.tip \in Nat /\ x.liveAfter \in Nat /\ q \in Seq(Entry)
      /\ \A i \in DOMAIN g : g[i] \in Entry
  BY DEF ReceiverType
<1>1. /\ Head(q) = q[1] /\ q[1] \in Entry /\ Tail(q) \in Seq(Entry)
      /\ k \in Nat /\ k >= 1 /\ Len(Tail(q)) = k - 1
      /\ DOMAIN q = 1..k /\ DOMAIN Tail(q) = 1..(k - 1)
      /\ \A i \in 1..(k - 1) : Tail(q)[i] = q[i + 1]
  BY <1>0, FirstTaken
<1>2. /\ h \in Seq(Entry) /\ m \in Nat /\ Len(h) = m + 1 /\ DOMAIN g = 1..m
      /\ DOMAIN h = 1..(m + 1) /\ \A i \in 1..m : h[i] = g[i]
      /\ h[m + 1] = q[1]
  BY <1>1, AddedLast DEF ItemReturned
<1>3. /\ y.page = x.page /\ y.cursor = x.cursor /\ y.exhausted = x.exhausted
      /\ y.phase = x.phase /\ y.terminal = x.terminal /\ y.liveAfter = x.liveAfter
      /\ y.closed = x.closed /\ y.failed = x.failed /\ p = Tail(q) /\ y.tip = x.tip
      /\ y \in ReceiverType
  BY <1>1 DEF ReceiverType, ItemTaken
<1>4. Live(y) /\ Base(x, g) = m /\ Base(y, h) = m + 1
  BY <1>2, <1>3 DEF Live, Base
<1>14. /\ k \in Nat /\ k >= 1 /\ m \in Nat /\ Len(p) = k - 1 /\ Len(h) = m + 1
       /\ DOMAIN q = 1..k /\ DOMAIN p = 1..(k - 1)
       /\ \A i \in 1..(k - 1) : p[i] = q[i + 1]
       /\ DOMAIN g = 1..m /\ DOMAIN h = 1..(m + 1) /\ \A i \in 1..m : h[i] = g[i]
       /\ h[m + 1] = q[1]
  BY <1>1, <1>2, <1>3
<1> HIDE DEF k, m, q, p
<1>5. /\ Ordered(g) /\ Ordered(q)
      /\ \A i \in DOMAIN g : /\ g[i].seq <= x.liveAfter \/ g[i].seq <= c
                             /\ \A j \in DOMAIN q : ~g[i].lagged /\ g[i].seq < q[j].seq
      /\ \A j \in DOMAIN q : x.liveAfter < q[j].seq /\ q[j].seq <= c
      /\ ~x.failed => /\ \A i \in DOMAIN g : g[i].lagged \/ g[i].seq = i
                      /\ \A j \in DOMAIN q : q[j].lagged \/ q[j].seq = m + j
      /\ HasLag(g) \/ HasLag(q) \/ x.failed => x.closed
      /\ joins /\ ~x.closed => m + k = IF c > x.liveAfter THEN c ELSE x.liveAfter
  BY <1>4 DEF Good, Queued, k, q
<1>6. 1 \in DOMAIN q /\ q[1].seq \in Nat /\ q[1].lagged \in BOOLEAN
  BY <1>1 DEF Entry
<1>7. /\ Ordered(h) /\ (HasLag(h) <=> q[1].lagged)
      /\ \A i \in DOMAIN h : (i \in DOMAIN g /\ h[i] = g[i]) \/ i = m + 1
  <2>1. \A i \in 1..m : h[i] = g[i] /\ ~g[i].lagged /\ g[i].seq < q[1].seq
    BY <1>2, <1>5, <1>6
  <2>2. h[m + 1].seq = q[1].seq /\ h[m + 1].lagged = q[1].lagged
    BY <1>2
  <2>3. m \in Nat /\ q[1].seq \in Nat /\ DOMAIN g = 1..m /\ DOMAIN h = 1..(m + 1)
    BY <1>6, <1>14
  <2>4. h[m + 1].seq = q[1].seq
    BY <2>2
  <2>5. Ordered(g)
    BY <1>5
  <2>6. /\ Ordered(h) /\ (HasLag(h) <=> h[m + 1].lagged)
        /\ \A i \in DOMAIN h : (i \in DOMAIN g /\ h[i] = g[i]) \/ i = m + 1
    BY ONLY <2>1, <2>3, <2>4, <2>5, Grows
  <2>7. QED
    BY ONLY <2>2, <2>6
<1>8. /\ Ordered(p) /\ (HasLag(q) <=> HasLag(p) \/ q[1].lagged)
      /\ \A j \in DOMAIN p : /\ j + 1 \in DOMAIN q /\ p[j] = q[j + 1]
                             /\ ~q[1].lagged /\ q[1].seq < p[j].seq
  BY ONLY <1>5, <1>14, Shrinks
<1>9. ~HasLag(g)
  BY <1>5, <1>6 DEF HasLag
<1>10. Queued(y, h, c, joins)
  <2>1. ASSUME NEW i \in DOMAIN h
        PROVE  /\ h[i].seq <= x.liveAfter \/ h[i].seq <= c
               /\ \A j \in DOMAIN p : ~h[i].lagged /\ h[i].seq < p[j].seq
               /\ ~x.failed => h[i].lagged \/ h[i].seq = i
    <3>1. CASE i \in DOMAIN g /\ h[i] = g[i]
      BY ONLY <1>5, <1>8, <2>1, <3>1
    <3>2. CASE i = m + 1
      BY ONLY <1>2, <1>5, <1>6, <1>8, <3>2
    <3>3. QED
      BY <1>7, <3>1, <3>2
  <2>2. ASSUME NEW j \in DOMAIN p
        PROVE  /\ x.liveAfter < p[j].seq /\ p[j].seq <= c
               /\ ~x.failed => p[j].lagged \/ p[j].seq = (m + 1) + j
    <3>1. j \in Nat
      BY <1>1, <1>3
    <3>2. QED
      <4>1. j + 1 \in DOMAIN q /\ p[j] = q[j + 1] /\ m + (j + 1) = (m + 1) + j
        BY ONLY <1>8, <1>14, <2>2, <3>1
      <4>2. QED
        BY ONLY <1>5, <4>1
  <2>3. Len(p) = k - 1 /\ (m + 1) + (k - 1) = m + k
    BY <1>1, <1>2, <1>3
  <2>4. QED
    BY <1>3, <1>4, <1>5, <1>7, <1>8, <1>9, <2>1, <2>2, <2>3 DEF Queued, p
<1>11. Replayed(y, h)
  <2>1. Len(h) = Len(g) + 1 /\ Len(g) \in Nat
    BY <1>2 DEF m
  <2>2. QED
    BY ONLY <1>0, <1>3, <1>4, <2>1, Good(x, g, c, joins), Live(x) DEF Good, Replayed
<1>12. Conserved(x, g, y, h)
  <2>1. Len(p) = k - 1 /\ (m + 1) + (k - 1) = m + k
    BY <1>1, <1>2, <1>3
  <2>2. QED
    BY <1>3, <1>4, <1>7, <1>8, <1>9, <2>1 DEF Conserved, p, q, k
<1>13. QED
  BY <1>2, <1>3, <1>10, <1>11, <1>12 DEF Good, Blank

\* A failed read ends a receiver.
LEMMA FailKeeps ==
    ASSUME NEW x \in ReceiverType, NEW g \in Seq(Entry), NEW c \in Nat, NEW joins,
           NEW y, Good(x, g, c, joins), x.phase = "open", x.page = <<>>, ~x.exhausted,
           y = ReadFailed(x)
    PROVE  /\ y \in ReceiverType /\ Good(y, g, c, joins) /\ y.failed /\ y.closed
           /\ y.phase = x.phase /\ y.liveAfter = x.liveAfter /\ y.terminal = x.terminal
<1>1. /\ y.failed /\ y.closed /\ y.exhausted /\ y \in ReceiverType
      /\ y.phase = x.phase /\ y.terminal = x.terminal /\ y.liveAfter = x.liveAfter
      /\ y.items = x.items /\ y.tip = x.tip /\ y.cursor = x.cursor /\ y.page = x.page
  BY DEF ReceiverType, ReadFailed
<1>2. Replayed(y, g) /\ Blank(y, g)
  BY <1>1 DEF Good, Replayed, Blank, Live
<1>3. Queued(y, g, c, joins)
  BY ONLY <1>1, Good(x, g, c, joins) DEF Good, Queued
<1>4. QED
  BY <1>1, <1>2, <1>3 DEF Good

\* The end of the delivery does not look at who took what.
LEMMA ClosingKept ==
    ASSUME NEW x, NEW g, NEW y, NEW h, NEW joins, x.phase = "open",
           Closing(x, g, joins), Conserved(x, g, y, h)
    PROVE  Closing(y, h, joins)
  BY DEF Closing, Conserved

-----------------------------------------------------------------------------
\* Steps

\* A step of one receiver leaves the others alone.
LEMMA OneReceiver ==
    ASSUME DeliveryTypeOK, Receivers, NEW r \in Receiver, NEW y \in ReceiverType, NEW h \in Seq(Entry),
           rx' = [rx EXCEPT ![r] = y], got' = [got EXCEPT ![r] = h],
           UNCHANGED <<origin, tip, worker, endTip, lossy>>,
           delivery'.cursor = delivery.cursor, delivery'.closed = delivery.closed,
           \A s \in Receiver \ {r} : s \in delivery'.joined <=> s \in delivery.joined,
           Good(y, h, delivery.cursor, r \in delivery'.joined),
           Closing(y, h, r \in delivery'.joined)
    PROVE  /\ Receivers' /\ rx' \in [Receiver -> ReceiverType] /\ got' \in [Receiver -> Seq(Entry)]
           /\ rx'[r] = y /\ \A s \in Receiver \ {r} : rx'[s] = rx[s]
<1>1. /\ rx' \in [Receiver -> ReceiverType] /\ got' \in [Receiver -> Seq(Entry)]
      /\ rx'[r] = y /\ got'[r] = h
      /\ \A s \in Receiver \ {r} : rx'[s] = rx[s] /\ got'[s] = got[s]
  BY DEF DeliveryTypeOK
<1>2. ASSUME NEW s \in Receiver
      PROVE  /\ Good(rx[s], got[s], delivery.cursor, s \in delivery.joined)'
             /\ Closing(rx[s], got[s], s \in delivery.joined)'
  <2>1. CASE s = r
    BY <1>1, <2>1 DEF Closing, Good, Blank, Replayed, Queued, Base, Live, HasLag, Ordered
  <2>2. CASE s # r
    <3>1. /\ Good(rx[s], got[s], delivery.cursor, s \in delivery.joined)
          /\ Closing(rx[s], got[s], s \in delivery.joined)
      BY DEF Receivers
    <3>2. QED
      BY <1>1, <2>2, <3>1 DEF Closing, Good, Blank, Replayed, Queued, Base, Live, HasLag, Ordered
  <2>3. QED
    BY <2>1, <2>2
<1>3. QED
  BY <1>1, <1>2 DEF Receivers

\* Steps of threads that touch no receiver: the log only grows, and the end of
\* a run is recorded by a worker that has not recorded it.
LEMMA ReceiversRest ==
    ASSUME DeliveryTypeOK, Ending, Receivers, UNCHANGED <<origin, rx, got>>,
           tip' \in Nat, tip' >= tip,
           delivery'.cursor = delivery.cursor, delivery'.closed = delivery.closed,
           delivery'.joined = delivery.joined,
           worker \in Past \cup {"absent"} => endTip' = endTip,
           worker \in Past => worker' \in Past, worker = "absent" => worker' = "absent",
           lossy => lossy'
    PROVE  Receivers'
<1>1. ASSUME NEW r \in Receiver
      PROVE  /\ Good(rx[r], got[r], delivery.cursor, r \in delivery.joined)'
             /\ Closing(rx[r], got[r], r \in delivery.joined)'
  <2>1. /\ Good(rx[r], got[r], delivery.cursor, r \in delivery.joined)
        /\ Closing(rx[r], got[r], r \in delivery.joined)
        /\ rx[r].liveAfter \in Nat /\ tip \in Nat
    BY DEF Receivers, DeliveryTypeOK, ReceiverType
  <2>2. Good(rx[r], got[r], delivery.cursor, r \in delivery.joined)'
    BY <2>1 DEF Good, Blank, Replayed, Queued, Base, Live, HasLag, Ordered
  <2>3. Base(rx[r], got[r])' = Base(rx[r], got[r]) /\ HasLag(got[r])' = HasLag(got[r])
        /\ HasLag(rx[r].items)' = HasLag(rx[r].items) /\ Live(rx[r])' = Live(rx[r])
    BY DEF Base, Live, HasLag
  <2>4. delivery.closed => worker \in Past
    BY DEF Ending, Past
  <2>5. origin = "own" <=> worker # "absent"
    BY DEF Ending
  <2>6. rx[r].phase = "joining" /\ (rx[r].terminal \/ delivery.closed) => endTip' = endTip
    BY <2>1, <2>4, <2>5 DEF Closing
  <2>7. Closing(rx[r], got[r], r \in delivery.joined)'
    BY <2>1, <2>3, <2>6 DEF Closing
  <2>8. QED
    BY <2>2, <2>7
<1>2. QED
  BY <1>1 DEF Receivers

\* What a thread of the coordinator does away from the receivers.
Aside ==
    \/ \E p \in Publisher : PublishBegin(p) \/ PublishDone(p) \/ PublishFails(p)
    \/ Register \/ Spawned \/ SpawnFails \/ FailUnspawned \/ Drive \/ End \/ Deregister
    \/ SurfaceEnter \/ SurfaceWrites \/ RetryRecorded \/ ForeignWrites

\* The log, the mutex and the end of the run stay in order away from the receivers.
LEMMA AsideKeeps ==
    ASSUME DeliveryInv, Aside
    PROVE  DeliveryInv'
<1> USE DEF DeliveryInv
<1> DEFINE Same == UNCHANGED <<origin, rx, got>>
           Log == /\ tip' \in Nat /\ tip' >= tip
                  /\ delivery'.cursor = delivery.cursor /\ delivery'.closed = delivery.closed
                  /\ delivery'.joined = delivery.joined
                  /\ worker \in Past \cup {"absent"} => endTip' = endTip
                  /\ worker \in Past => worker' \in Past
                  /\ worker = "absent" => worker' = "absent"
                  /\ lossy => lossy'
           Rest == DeliveryTypeOK' /\ Mutex' /\ Ending'
<1>0. /\ tip \in Nat /\ endTip \in Nat /\ worker \in WorkerPC
      /\ delivery \in [holder : {"none"} \cup Publisher \cup Receiver, cursor : Nat,
                       closed : BOOLEAN, joined : SUBSET Receiver]
      /\ "worker" \notin Receiver /\ "surface" \notin Receiver /\ "none" \notin Receiver
  BY DeliveryAssumption DEF DeliveryTypeOK
<1>1. ASSUME NEW p \in Publisher, PublishBegin(p) PROVE Same /\ Log /\ Rest
  <2>1. Same /\ Log
    BY <1>0, <1>1 DEF PublishBegin
  <2>2. DeliveryTypeOK' /\ Ending'
    BY <1>0, <1>1 DEF PublishBegin, DeliveryTypeOK, Ending
  <2>3. Mutex'
    BY <1>0, <1>1 DEF PublishBegin, Mutex, WantsPublish, Publisher
  <2>4. QED
    BY <2>1, <2>2, <2>3
<1>2. ASSUME NEW p \in Publisher, PublishDone(p) PROVE Same /\ Log /\ Rest
  <2>1. /\ delivery' = [delivery EXCEPT !.holder = "none"] /\ delivery.holder = p
        /\ IF p = "surface" THEN surface' = "idle" /\ worker' = worker
           ELSE /\ surface' = surface
                /\ \/ worker = "starting" /\ worker' = "register"
                   \/ worker = "publishing" /\ worker' = "driving"
                   \/ worker = "ended" /\ worker' = "final"
                   \/ worker = "final" /\ worker' = "published"
                   \/ worker = "failed" /\ worker' = "removed"
        /\ WantsPublish(p)
    BY <1>2 DEF PublishDone, PublishReturns, WantsPublish, Mutex, Publisher
  <2>2. Same /\ Log
    BY <1>0, <1>2, <2>1 DEF PublishDone, Past
  <2>3. DeliveryTypeOK'
    BY <1>0, <1>2, <2>1 DEF PublishDone, DeliveryTypeOK, WorkerPC
  <2>4. Ending'
    BY <1>0, <1>2, <2>1 DEF PublishDone, Ending, Past
  <2>5. Mutex'
    BY <1>0, <1>2, <2>1 DEF PublishDone, Mutex, WantsPublish, Publisher
  <2>6. QED
    BY <2>2, <2>3, <2>4, <2>5
<1>3. ASSUME NEW p \in Publisher, PublishFails(p) PROVE Same /\ Log /\ Rest
  <2>1. /\ delivery' = [delivery EXCEPT !.holder = "none"] /\ delivery.holder = p
        /\ IF p = "surface" THEN surface' = "idle" /\ worker' = worker
           ELSE /\ surface' = surface
                /\ \/ worker = "starting" /\ worker' = "register"
                   \/ worker = "publishing" /\ worker' = "faulted"
                   \/ worker = "ended" /\ worker' = "final"
                   \/ worker = "final" /\ worker' = "published"
                   \/ worker = "failed" /\ worker' = "removed"
        /\ WantsPublish(p)
    BY <1>3 DEF PublishFails, PublishReturns, WantsPublish, Mutex, Publisher
  <2>2. tip' \in Nat /\ tip' >= tip
    BY <1>0, <1>3 DEF PublishFails
  <2>3. Same /\ Log
    BY <1>0, <1>3, <2>1, <2>2 DEF PublishFails, Past
  <2>4. DeliveryTypeOK'
    BY <1>0, <1>3, <2>1, <2>2 DEF PublishFails, DeliveryTypeOK, WorkerPC
  <2>5. Ending'
    BY <1>0, <1>3, <2>1, <2>2 DEF PublishFails, Ending, Past
  <2>6. Mutex'
    BY <1>0, <1>3, <2>1 DEF PublishFails, Mutex, WantsPublish, Publisher
  <2>7. QED
    BY <2>3, <2>4, <2>5, <2>6
<1>4. ASSUME Register \/ Spawned \/ SpawnFails \/ Deregister PROVE Same /\ Log /\ Rest
  <2>1. Same /\ Log
    BY <1>0, <1>4 DEF Register, Spawned, SpawnFails, Deregister, Past
  <2>2. DeliveryTypeOK'
    BY <1>0, <1>4 DEF Register, Spawned, SpawnFails, Deregister, DeliveryTypeOK, WorkerPC
  <2>3. Ending'
    BY <1>0, <1>4 DEF Register, Spawned, SpawnFails, Deregister, Ending, Past
  <2>4. Mutex'
    BY <1>0, <1>4 DEF Register, Spawned, SpawnFails, Deregister, Mutex, WantsPublish
  <2>5. QED
    BY <2>1, <2>2, <2>3, <2>4
<1>5. ASSUME FailUnspawned \/ Drive \/ End PROVE Same /\ Log /\ Rest
  <2>1. /\ tip' \in Nat /\ tip' >= tip /\ endTip' \in Nat /\ endTip' <= tip' /\ terminal' \in BOOLEAN
        /\ worker \notin Past \cup {"absent"}
    <3>1. endTip <= tip /\ terminal \in BOOLEAN
      BY DEF Ending, DeliveryTypeOK
    <3>2. worker \notin Past \cup {"absent"}
      BY <1>5 DEF FailUnspawned, Drive, End, Past
    <3>3. /\ tip' = tip + 1 \/ tip' = tip
          /\ endTip' = tip' \/ (endTip' = endTip /\ tip' = tip + 1)
          /\ terminal' \in BOOLEAN
      BY ONLY <1>0, <1>5, <3>1 DEF FailUnspawned, Drive, End, AppendEvent
    <3>4. QED
      BY ONLY <1>0, <3>1, <3>2, <3>3
  <2>2. Same /\ Log
    BY <1>0, <1>5, <2>1 DEF FailUnspawned, Drive, End
  <2>3. DeliveryTypeOK'
    BY <1>0, <1>5, <2>1 DEF FailUnspawned, Drive, End, DeliveryTypeOK, WorkerPC
  <2>4. Ending'
    BY <1>0, <1>5, <2>1 DEF FailUnspawned, Drive, End, Ending, Past
  <2>5. Mutex'
    BY <1>0, <1>5 DEF FailUnspawned, Drive, End, Mutex, WantsPublish
  <2>6. QED
    BY <2>2, <2>3, <2>4, <2>5
<1>6. ASSUME SurfaceEnter \/ SurfaceWrites \/ RetryRecorded \/ ForeignWrites PROVE Same /\ Log /\ Rest
  <2>1. tip' \in Nat /\ tip' >= tip /\ terminal' \in BOOLEAN
    BY <1>0, <1>6
       DEF SurfaceEnter, SurfaceWrites, RetryRecorded, ForeignWrites, AppendEvent, DeliveryTypeOK
  <2>2. Same /\ Log
    BY <1>0, <1>6, <2>1 DEF SurfaceEnter, SurfaceWrites, RetryRecorded, ForeignWrites
  <2>3. DeliveryTypeOK'
    BY <1>0, <1>6, <2>1
       DEF SurfaceEnter, SurfaceWrites, RetryRecorded, ForeignWrites, DeliveryTypeOK
  <2>4. Ending'
    BY <1>0, <1>6, <2>1 DEF SurfaceEnter, SurfaceWrites, RetryRecorded, ForeignWrites, Ending
  <2>5. Mutex'
    BY <1>0, <1>6 DEF SurfaceEnter, SurfaceWrites, RetryRecorded, ForeignWrites, Mutex, WantsPublish
  <2>6. QED
    BY <2>2, <2>3, <2>4, <2>5
<1>7. Same /\ Log /\ Rest
  BY <1>1, <1>2, <1>3, <1>4, <1>5, <1>6 DEF Aside
<1>8. QED
  BY <1>7, ReceiversRest

\* An event reaches every receiver that is there.
LEMMA PublishKeeps ==
    ASSUME DeliveryInv, NEW p \in Publisher, PublishEvent(p)
    PROVE  DeliveryInv'
<1> USE DEF DeliveryInv
<1> DEFINE c == delivery.cursor
           alive == {r \in delivery.joined : rx[r].phase # "dropped"}
<1>0. /\ delivery.holder = p /\ c \in Nat /\ tip \in Nat /\ c < tip /\ alive \subseteq Receiver
      /\ delivery \in [holder : {"none"} \cup Publisher \cup Receiver, cursor : Nat,
                       closed : BOOLEAN, joined : SUBSET Receiver]
      /\ delivery' = [delivery EXCEPT !.cursor = c + 1, !.joined = alive]
      /\ rx' = [r \in Receiver |-> IF r \in alive THEN Push(rx[r], c + 1) ELSE rx[r]]
      /\ UNCHANGED <<origin, tip, terminal, active, worker, surface, got, endTip, lossy>>
  BY DEF PublishEvent, DeliveryTypeOK
<1> HIDE DEF alive, c
<1>1. /\ delivery'.cursor = c + 1 /\ delivery'.joined = alive /\ delivery'.closed = delivery.closed
      /\ delivery'.holder = p
      /\ delivery' \in [holder : {"none"} \cup Publisher \cup Receiver, cursor : Nat,
                        closed : BOOLEAN, joined : SUBSET Receiver]
  <2>1. c + 1 \in Nat /\ alive \in SUBSET Receiver
    BY <1>0
  <2> DEFINE d == c + 1
  <2>2. d \in Nat /\ delivery' = [delivery EXCEPT !.cursor = d, !.joined = alive]
    BY <1>0, <2>1
  <2>3. /\ delivery.holder = p
        /\ delivery \in [holder : {"none"} \cup Publisher \cup Receiver, cursor : Nat,
                         closed : BOOLEAN, joined : SUBSET Receiver]
    BY <1>0
  <2> HIDE DEF d
  <2>4. /\ delivery'.cursor = d /\ delivery'.joined = alive /\ delivery'.closed = delivery.closed
        /\ delivery'.holder = p
        /\ delivery' \in [holder : {"none"} \cup Publisher \cup Receiver, cursor : Nat,
                          closed : BOOLEAN, joined : SUBSET Receiver]
    BY ONLY <2>1, <2>2, <2>3
  <2>5. QED
    BY <2>4 DEF d
<1>2. ASSUME NEW r \in Receiver
      PROVE  /\ rx'[r] \in ReceiverType /\ rx'[r].phase = rx[r].phase
             /\ Good(rx[r], got[r], delivery.cursor, r \in delivery.joined)'
             /\ Closing(rx[r], got[r], r \in delivery.joined)'
  <2> DEFINE x == rx[r]
             g == got[r]
             y == Push(x, c + 1)
  <2>1. /\ x \in ReceiverType /\ g \in Seq(Entry)
        /\ Good(x, g, c, r \in delivery.joined) /\ Closing(x, g, r \in delivery.joined)
    BY DEF DeliveryTypeOK, Receivers, c
  <2>2. g' = g
    BY <1>0
  <2>9. x.phase # "joining"
    BY <1>0, DeliveryAssumption DEF Mutex, Publisher
  <2>3. CASE r \in alive
    <3>1. r \in delivery.joined /\ x' = y /\ x.phase \in {"open", "disconnected", "dropped"}
      BY <1>0, <2>1, <2>3 DEF alive, Closing
    <3>2. /\ y \in ReceiverType /\ Good(y, g, c + 1, TRUE)
          /\ y.phase = x.phase /\ y.terminal = x.terminal /\ y.liveAfter = x.liveAfter
          /\ y.failed = x.failed /\ (Live(y) <=> Live(x))
          /\ x.closed => y = x
          /\ y.closed /\ ~x.closed => HasLag(y.items)
      <4>1. Pushable(x, g, c)
        BY <1>0, <2>1, <3>1 DEF Pushable
      <4>2. Pushed(x, g, c + 1, y)
        BY <4>1, PushKeeps
      <4>3. QED
        BY ONLY <4>2 DEF Pushed
    <3>3. Closing(y, g, TRUE)
      BY <2>1, <2>9, <3>1, <3>2 DEF Closing
    <3> HIDE DEF x, y, g
    <3>4. Good(x, g, delivery.cursor, r \in delivery.joined)'
      BY <1>1, <2>2, <2>3, <3>1, <3>2
         DEF Good, Blank, Replayed, Queued, Base, Live, HasLag, Ordered
    <3>5. Closing(x, g, r \in delivery.joined)'
      BY <1>0, <1>1, <2>2, <2>3, <2>9, <3>1, <3>2, <3>3 DEF Closing, Base, Live, HasLag
    <3>6. QED
      BY <3>1, <3>2, <3>4, <3>5 DEF x, g
  <2>4. CASE r \notin alive
    <3>1. x' = x
      BY <1>0, <2>4
    <3>2. r \in delivery.joined => x.phase = "dropped"
      BY <2>4 DEF alive
    <3> HIDE DEF x, y, g
    <3>3. \A q \in Seq(Entry) : \A i \in DOMAIN q : q[i].seq \in Nat
      <4>1. \A q \in Seq(Entry) : \A i \in DOMAIN q : q[i] \in Entry
        OBVIOUS
      <4>2. QED
        BY ONLY <4>1 DEF Entry
    <3>4. g \in Seq(Entry) /\ x.items \in Seq(Entry)
      BY <2>1 DEF ReceiverType
    <3>5. Good(x, g, c + 1, FALSE)
      BY <1>0, <2>1, <3>3, <3>4 DEF Good, Queued
    <3>6. Good(x, g, delivery.cursor, r \in delivery.joined)'
      BY <1>1, <2>2, <2>4, <3>1, <3>5
         DEF Good, Blank, Replayed, Queued, Base, Live, HasLag, Ordered
    <3>7. Closing(x, g, r \in delivery.joined)'
      BY <1>0, <1>1, <2>1, <2>2, <2>4, <2>9, <3>1, <3>2 DEF Closing, Base, Live, HasLag
    <3>8. QED
      BY <2>1, <3>1, <3>6, <3>7 DEF x, g
  <2>5. QED
    BY <2>3, <2>4
<1>3. rx' \in [Receiver -> ReceiverType]
  <2>1. rx' = [r \in Receiver |-> rx'[r]]
    BY <1>0
  <2>2. QED
    BY <1>2, <2>1
<1>4. DeliveryTypeOK'
  BY <1>0, <1>1, <1>3 DEF DeliveryTypeOK
<1>5. Mutex'
  BY <1>0, <1>1, <1>2 DEF Mutex, WantsPublish
<1>6. Ending'
  <2>1. endTip \in Nat /\ delivery.cursor \in Nat /\ delivery'.cursor = delivery.cursor + 1
        /\ delivery.cursor < tip
    BY <1>0, <1>1 DEF DeliveryTypeOK, c
  <2>2. QED
    BY <1>0, <1>1, <2>1 DEF Ending
<1>7. QED
  BY <1>2, <1>4, <1>5, <1>6 DEF Receivers

\* The delivery is closed when everything up to the end is in the queues.
LEMMA CloseKeeps ==
    ASSUME DeliveryInv, CloseDelivery
    PROVE  DeliveryInv'
<1> USE DEF DeliveryInv
<1> DEFINE alive == {r \in delivery.joined : rx[r].phase # "dropped"}
<1>0. /\ delivery.holder = "none" /\ worker = "removed" /\ worker' = "closed"
      /\ alive \subseteq Receiver
      /\ delivery \in [holder : {"none"} \cup Publisher \cup Receiver, cursor : Nat,
                       closed : BOOLEAN, joined : SUBSET Receiver]
      /\ delivery' = [delivery EXCEPT !.closed = TRUE, !.joined = alive]
      /\ rx' = [r \in Receiver |-> IF r \in alive THEN [rx[r] EXCEPT !.closed = TRUE] ELSE rx[r]]
      /\ UNCHANGED <<origin, tip, terminal, active, surface, got, endTip, lossy>>
  BY DEF CloseDelivery, DeliveryTypeOK
<1>1. /\ delivery'.cursor = delivery.cursor /\ delivery'.joined = alive /\ delivery'.closed
      /\ delivery'.holder = "none"
      /\ delivery' \in [holder : {"none"} \cup Publisher \cup Receiver, cursor : Nat,
                        closed : BOOLEAN, joined : SUBSET Receiver]
  BY <1>0
<1>8. /\ tip \in Nat /\ endTip \in Nat /\ delivery.cursor \in Nat
      /\ ~lossy => delivery.cursor >= endTip
      /\ worker' \in Past /\ worker \in Past
  BY <1>0 DEF DeliveryTypeOK, Ending, Past
<1> HIDE DEF alive
<1>2. ASSUME NEW r \in Receiver
      PROVE  /\ rx'[r] \in ReceiverType /\ rx'[r].phase = rx[r].phase
             /\ Good(rx[r], got[r], delivery.cursor, r \in delivery.joined)'
             /\ Closing(rx[r], got[r], r \in delivery.joined)'
  <2> DEFINE x == rx[r]
             g == got[r]
             y == [x EXCEPT !.closed = TRUE]
  <2>1. /\ x \in ReceiverType /\ g \in Seq(Entry)
        /\ Good(x, g, delivery.cursor, r \in delivery.joined)
        /\ Closing(x, g, r \in delivery.joined)
    BY DEF DeliveryTypeOK, Receivers
  <2>2. g' = g
    BY <1>0
  <2>9. x.phase # "joining"
    BY <1>0, DeliveryAssumption DEF Mutex
  <2>3. CASE r \in alive
    <3>1. r \in delivery.joined /\ x' = y /\ x.phase \in {"open", "disconnected"}
      BY <1>0, <2>1, <2>3 DEF alive, Closing
    <3>2. /\ y \in ReceiverType /\ y.closed
          /\ y.phase = x.phase /\ y.terminal = x.terminal /\ y.liveAfter = x.liveAfter
          /\ y.failed = x.failed /\ y.items = x.items /\ y.tip = x.tip /\ y.cursor = x.cursor
          /\ y.page = x.page /\ y.exhausted = x.exhausted
      BY <2>1 DEF ReceiverType
    <3> HIDE DEF x, y, g
    <3>3. Good(y, g, delivery.cursor, TRUE)
      BY <2>1, <3>1, <3>2 DEF Good, Blank, Replayed, Queued, Live, Base
    <3>4. ~x.failed /\ ~HasLag(g) /\ ~HasLag(x.items) /\ ~lossy => Base(x, g) + Len(x.items) >= endTip
      <4>1. CASE x.closed
        BY <2>1, <4>1 DEF Closing
      <4>2. CASE ~x.closed
        <5>1. Base(x, g) + Len(x.items)
                = IF delivery.cursor > x.liveAfter THEN delivery.cursor ELSE x.liveAfter
          BY <2>1, <3>1, <4>2 DEF Good, Queued
        <5>2. x.liveAfter \in Nat
          BY <2>1 DEF ReceiverType
        <5>3. QED
          BY <1>8, <5>1, <5>2
      <4>3. QED
        BY <4>1, <4>2
    <3>5. Base(y, g) = Base(x, g) /\ (Live(y) <=> Live(x))
      BY <3>2 DEF Base, Live
    <3>6. Good(x, g, delivery.cursor, r \in delivery.joined)'
      BY <1>1, <2>2, <2>3, <3>1, <3>3
         DEF Good, Blank, Replayed, Queued, Base, Live, HasLag, Ordered
    <3>10. /\ x.liveAfter <= tip /\ (x.phase = "disconnected" => Live(x) /\ x.items = <<>>)
      BY <2>1 DEF Closing
    <3>7. /\ y.liveAfter <= tip
          /\ y.phase = "disconnected" => Live(y) /\ y.items = <<>> /\ y.closed
          /\ ~y.failed /\ ~HasLag(g) /\ ~HasLag(y.items) /\ ~lossy => Base(y, g) + Len(y.items) >= endTip
      BY <3>2, <3>4, <3>5, <3>10
    <3>8. Closing(x, g, r \in delivery.joined)'
      BY <1>0, <1>1, <1>8, <2>2, <2>3, <3>1, <3>2, <3>7 DEF Closing, Base, Live, HasLag
    <3>9. QED
      BY <3>1, <3>2, <3>6, <3>8 DEF x, g
  <2>4. CASE r \notin alive
    <3>1. x' = x
      BY <1>0, <2>4
    <3>2. r \in delivery.joined => x.phase = "dropped"
      BY <2>4 DEF alive
    <3> HIDE DEF x, y, g
    <3>5. Good(x, g, delivery.cursor, FALSE)
      BY <2>1 DEF Good, Queued
    <3>6. Good(x, g, delivery.cursor, r \in delivery.joined)'
      BY <1>1, <2>2, <2>4, <3>1, <3>5
         DEF Good, Blank, Replayed, Queued, Base, Live, HasLag, Ordered
    <3>7. Closing(x, g, r \in delivery.joined)'
      BY <1>0, <1>1, <1>8, <2>1, <2>2, <2>4, <2>9, <3>1, <3>2 DEF Closing, Base, Live, HasLag
    <3>8. QED
      BY <2>1, <3>1, <3>6, <3>7 DEF x, g
  <2>5. QED
    BY <2>3, <2>4
<1>3. rx' \in [Receiver -> ReceiverType]
  <2>1. rx' = [r \in Receiver |-> rx'[r]]
    BY <1>0
  <2>2. QED
    BY <1>2, <2>1
<1>4. DeliveryTypeOK'
  BY <1>0, <1>1, <1>3 DEF DeliveryTypeOK, WorkerPC
<1>5. Mutex'
  BY <1>0, <1>1, <1>2, DeliveryAssumption DEF Mutex, WantsPublish
<1>6. Ending'
  BY <1>0, <1>1, <1>8 DEF Ending
<1>7. QED
  BY <1>2, <1>4, <1>5, <1>6 DEF Receivers

\* A receiver's own step that moves neither the delivery nor any thread keeps
\* the invariant when it does so for that receiver.
LEMMA ReceiverKeeps ==
    ASSUME DeliveryInv, NEW r \in Receiver, NEW y \in ReceiverType, NEW h \in Seq(Entry),
           rx' = [rx EXCEPT ![r] = y], got' = [got EXCEPT ![r] = h],
           UNCHANGED <<origin, tip, terminal, active, worker, surface, delivery, endTip, lossy>>,
           Good(y, h, delivery.cursor, r \in delivery.joined),
           Closing(y, h, r \in delivery.joined),
           y.phase = "joining" <=> rx[r].phase = "joining"
    PROVE  DeliveryInv'
<1> USE DEF DeliveryInv
<1>1. /\ Receivers' /\ rx' \in [Receiver -> ReceiverType] /\ got' \in [Receiver -> Seq(Entry)]
      /\ rx'[r] = y /\ \A s \in Receiver \ {r} : rx'[s] = rx[s]
  <2>1. /\ UNCHANGED <<origin, tip, worker, endTip, lossy>>
        /\ delivery'.cursor = delivery.cursor /\ delivery'.closed = delivery.closed
        /\ \A s \in Receiver \ {r} : s \in delivery'.joined <=> s \in delivery.joined
        /\ Good(y, h, delivery.cursor, r \in delivery'.joined)
        /\ Closing(y, h, r \in delivery'.joined)
    OBVIOUS
  <2>2. QED
    BY <2>1, OneReceiver
<1>2. DeliveryTypeOK'
  BY <1>1 DEF DeliveryTypeOK
<1>3. Mutex'
  BY <1>1 DEF Mutex, WantsPublish
<1>4. Ending'
  BY DEF Ending
<1>5. QED
  BY <1>1, <1>2, <1>3, <1>4

\* What is known of one receiver.
LEMMA Known ==
    ASSUME DeliveryInv, NEW r \in Receiver
    PROVE  /\ rx[r] \in ReceiverType /\ got[r] \in Seq(Entry)
           /\ delivery.cursor \in Nat /\ (r \in delivery.joined) \in BOOLEAN
           /\ Good(rx[r], got[r], delivery.cursor, r \in delivery.joined)
           /\ Closing(rx[r], got[r], r \in delivery.joined)
           /\ rx \in [Receiver -> ReceiverType] /\ got \in [Receiver -> Seq(Entry)]
           /\ got = [got EXCEPT ![r] = got[r]]
  BY DEF DeliveryInv, DeliveryTypeOK, Receivers

\* A receiver that reads a page, or returns an entry, keeps the invariant.
LEMMA RecvKeeps ==
    ASSUME DeliveryInv, NEW r \in Receiver, Recv(r) \/ DropReceiver(r)
    PROVE  DeliveryInv'
<1> DEFINE x == rx[r]
           g == got[r]
           joins == r \in delivery.joined
           c == delivery.cursor
           Rest == UNCHANGED <<origin, tip, terminal, active, worker, surface, delivery, endTip, lossy>>
           Fits(y, h) == /\ y \in ReceiverType /\ h \in Seq(Entry) /\ Rest
                         /\ rx' = [rx EXCEPT ![r] = y] /\ got' = [got EXCEPT ![r] = h]
                         /\ Good(y, h, c, joins) /\ Closing(y, h, joins)
                         /\ (y.phase = "joining" <=> x.phase = "joining")
<1>0. /\ x \in ReceiverType /\ g \in Seq(Entry) /\ c \in Nat /\ joins \in BOOLEAN
      /\ Good(x, g, c, joins) /\ Closing(x, g, joins)
      /\ rx \in [Receiver -> ReceiverType] /\ got \in [Receiver -> Seq(Entry)]
      /\ got = [got EXCEPT ![r] = g]
  BY Known
<1>1. ASSUME NEW y, NEW h, Fits(y, h) PROVE DeliveryInv'
  BY <1>1, ReceiverKeeps
<1>2. CASE ReplayReads(r)
  <2> DEFINE y == PageRead(x)
  <2>1. /\ x.phase = "open" /\ x.page = <<>> /\ ~x.exhausted /\ Rest /\ got' = got
        /\ rx' = [rx EXCEPT ![r] = y]
    BY <1>0, <1>2 DEF ReplayReads, PageRead
  <2>2. y \in ReceiverType /\ Good(y, g, c, joins) /\ Conserved(x, g, y, g)
    BY <1>0, <2>1, ReadKeeps
  <2> HIDE DEF y, x, g, c, joins
  <2>3. Closing(y, g, joins) /\ y.phase = x.phase
    BY <1>0, <2>1, <2>2, ClosingKept DEF Conserved
  <2>4. Fits(y, g)
    BY <1>0, <2>1, <2>2, <2>3
  <2>5. QED
    BY <1>1, <2>4
<1>3. CASE ReplayFails(r)
  <2> DEFINE y == ReadFailed(x)
  <2>1. /\ x.phase = "open" /\ x.page = <<>> /\ ~x.exhausted /\ Rest /\ got' = got
        /\ rx' = [rx EXCEPT ![r] = y]
    BY <1>0, <1>3 DEF ReplayFails, ReadFailed
  <2>2. /\ y \in ReceiverType /\ Good(y, g, c, joins) /\ y.failed /\ y.closed
        /\ y.phase = x.phase /\ y.liveAfter = x.liveAfter /\ y.terminal = x.terminal
    BY <1>0, <2>1, FailKeeps
  <2> HIDE DEF y, x, g, c, joins
  <2>3. Closing(y, g, joins)
    BY <1>0, <2>1, <2>2 DEF Closing
  <2>4. Fits(y, g)
    BY <1>0, <2>1, <2>2, <2>3
  <2>5. QED
    BY <1>1, <2>4
<1>4. CASE RecvReplayed(r)
  <2> DEFINE y == PageTaken(x)
             h == PageReturned(x, g)
  <2>1. /\ x.phase = "open" /\ x.page # <<>> /\ Rest
        /\ rx' = [rx EXCEPT ![r] = y] /\ got' = [got EXCEPT ![r] = h]
    BY <1>0, <1>4 DEF RecvReplayed, PageTaken, PageReturned
  <2>2. /\ y \in ReceiverType /\ h \in Seq(Entry)
        /\ Good(y, h, c, joins) /\ Conserved(x, g, y, h)
    BY <1>0, <2>1, ReplayedKeeps
  <2> HIDE DEF y, h, x, g, c, joins
  <2>3. Closing(y, h, joins) /\ y.phase = x.phase
    BY <1>0, <2>1, <2>2, ClosingKept DEF Conserved
  <2>4. Fits(y, h)
    BY <1>0, <2>1, <2>2, <2>3
  <2>5. QED
    BY <1>1, <2>4
<1>5. CASE RecvLive(r)
  <2> DEFINE y == ItemTaken(x)
             h == ItemReturned(x, g)
  <2>1. /\ x.phase = "open" /\ Live(x) /\ x.items # <<>> /\ Rest
        /\ rx' = [rx EXCEPT ![r] = y] /\ got' = [got EXCEPT ![r] = h]
    BY <1>0, <1>5 DEF RecvLive, Replaying, Live, ItemTaken, ItemReturned
  <2>2. /\ y \in ReceiverType /\ h \in Seq(Entry)
        /\ Good(y, h, c, joins) /\ Conserved(x, g, y, h)
    BY <1>0, <2>1, LiveKeeps
  <2> HIDE DEF y, h, x, g, c, joins
  <2>3. Closing(y, h, joins) /\ y.phase = x.phase
    BY <1>0, <2>1, <2>2, ClosingKept DEF Conserved
  <2>4. Fits(y, h)
    BY <1>0, <2>1, <2>2, <2>3
  <2>5. QED
    BY <1>1, <2>4
<1>6. CASE RecvDisconnected(r) \/ DropReceiver(r)
  <2>1. PICK phase \in {"disconnected", "dropped"} :
           /\ rx' = [rx EXCEPT ![r].phase = phase] /\ got' = got /\ Rest
           /\ x.phase \in {"open", "disconnected"}
           /\ phase = "disconnected" => Live(x) /\ x.items = <<>> /\ x.closed
    BY <1>6 DEF RecvDisconnected, DropReceiver, Replaying, Live
  <2> DEFINE y == [x EXCEPT !.phase = phase]
  <2>2. rx' = [rx EXCEPT ![r] = y]
    BY <1>0, <2>1
  <2>3. /\ y \in ReceiverType /\ y.phase = phase /\ y.terminal = x.terminal
        /\ y.liveAfter = x.liveAfter /\ y.items = x.items /\ y.closed = x.closed /\ y.tip = x.tip
        /\ y.cursor = x.cursor /\ y.page = x.page /\ y.exhausted = x.exhausted
        /\ y.failed = x.failed
    BY <1>0 DEF ReceiverType, Phase
  <2> HIDE DEF y, x, g, c, joins
  <2>4. Good(y, g, c, joins) /\ (Live(y) <=> Live(x)) /\ Base(y, g) = Base(x, g)
    BY <1>0, <2>3 DEF Good, Blank, Replayed, Queued, Live, Base
  <2>5. Closing(y, g, joins)
    BY <1>0, <2>1, <2>3, <2>4 DEF Closing
  <2>6. Fits(y, g)
    BY <1>0, <2>1, <2>2, <2>3, <2>4, <2>5
  <2>7. QED
    BY <1>1, <2>6
<1>7. QED
  BY <1>2, <1>3, <1>4, <1>5, <1>6 DEF Recv

\* A receiver that subscribes, at whatever moment of the run.
LEMMA LoadKeeps ==
    ASSUME DeliveryInv, NEW r \in Receiver, SubscribeLoads(r)
    PROVE  DeliveryInv'
<1> DEFINE x == rx[r]
           g == got[r]
           joins == r \in delivery.joined
           y == [x EXCEPT !.phase = "loaded", !.terminal = terminal]
<1>0. /\ x \in ReceiverType /\ g \in Seq(Entry)
      /\ Good(x, g, delivery.cursor, joins) /\ Closing(x, g, joins)
      /\ rx \in [Receiver -> ReceiverType] /\ got \in [Receiver -> Seq(Entry)]
      /\ got = [got EXCEPT ![r] = g] /\ terminal \in BOOLEAN
  BY Known DEF DeliveryInv, DeliveryTypeOK
<1>1. /\ x.phase = "none" /\ rx' = [rx EXCEPT ![r] = y] /\ got' = [got EXCEPT ![r] = g]
      /\ UNCHANGED <<origin, tip, terminal, active, worker, surface, delivery, endTip, lossy>>
  BY <1>0 DEF SubscribeLoads
<1>2. /\ y \in ReceiverType /\ y.phase = "loaded" /\ y.terminal = terminal
      /\ y.liveAfter = x.liveAfter /\ y.items = x.items /\ y.closed = x.closed /\ y.tip = x.tip
      /\ y.cursor = x.cursor /\ y.page = x.page /\ y.exhausted = x.exhausted
      /\ y.failed = x.failed
  BY <1>0 DEF ReceiverType, Phase
<1>3. terminal /\ origin = "own" => worker \in Past
  BY DEF DeliveryInv, Ending
<1> HIDE DEF x, g, joins, y
<1>4. Good(y, g, delivery.cursor, joins)
  BY <1>0, <1>1, <1>2 DEF Good, Blank, Replayed, Queued, Live, Base
<1>5. Closing(y, g, joins)
  BY <1>0, <1>1, <1>2, <1>3 DEF Closing, Good, Blank
<1>6. QED
  <2>1. y.phase = "joining" <=> rx[r].phase = "joining"
    BY <1>1, <1>2 DEF x
  <2>2. Good(y, g, delivery.cursor, r \in delivery.joined) /\ Closing(y, g, r \in delivery.joined)
    BY <1>4, <1>5 DEF joins
  <2>3. QED
    BY <1>0, <1>1, <1>2, <2>1, <2>2, ReceiverKeeps

\* It takes the mutex with the log's last event in hand.
LEMMA TipKeeps ==
    ASSUME DeliveryInv, NEW r \in Receiver, SubscribeTip(r)
    PROVE  DeliveryInv'
<1> DEFINE x == rx[r]
           g == got[r]
           y == [x EXCEPT !.phase = "joining", !.liveAfter = tip, !.tip = tip, !.exhausted = (tip = 0)]
<1>0. /\ x \in ReceiverType /\ g \in Seq(Entry)
      /\ Good(x, g, delivery.cursor, r \in delivery.joined)
      /\ Closing(x, g, r \in delivery.joined)
      /\ rx \in [Receiver -> ReceiverType] /\ got \in [Receiver -> Seq(Entry)]
      /\ got = [got EXCEPT ![r] = g]
      /\ tip \in Nat /\ endTip \in Nat /\ endTip <= tip
      /\ delivery \in [holder : {"none"} \cup Publisher \cup Receiver, cursor : Nat,
                       closed : BOOLEAN, joined : SUBSET Receiver]
      /\ delivery.cursor <= tip
  BY Known DEF DeliveryInv, DeliveryTypeOK, Ending
<1>1. /\ x.phase = "loaded" /\ delivery.holder = "none"
      /\ delivery' = [delivery EXCEPT !.holder = r]
      /\ rx' = [rx EXCEPT ![r] = y] /\ got' = [got EXCEPT ![r] = g]
      /\ UNCHANGED <<origin, tip, terminal, active, worker, surface, endTip, lossy>>
  BY <1>0 DEF SubscribeTip
<1>2. /\ y \in ReceiverType /\ y.phase = "joining" /\ y.terminal = x.terminal
      /\ y.liveAfter = tip /\ y.items = x.items /\ y.closed = x.closed /\ y.tip = tip
      /\ y.cursor = x.cursor /\ y.page = x.page /\ y.exhausted = (tip = 0)
      /\ y.failed = x.failed
  <2> DEFINE empty == tip = 0
  <2>1. /\ empty \in BOOLEAN
        /\ y = [x EXCEPT !.phase = "joining", !.liveAfter = tip, !.tip = tip, !.exhausted = empty]
    OBVIOUS
  <2> HIDE DEF empty
  <2>2. /\ y \in ReceiverType /\ y.phase = "joining" /\ y.terminal = x.terminal
        /\ y.liveAfter = tip /\ y.items = x.items /\ y.closed = x.closed /\ y.tip = tip
        /\ y.cursor = x.cursor /\ y.page = x.page /\ y.exhausted = empty
        /\ y.failed = x.failed
    BY <1>0, <2>1 DEF ReceiverType, Phase
  <2>3. QED
    BY <2>2 DEF empty
<1>3. /\ delivery' \in [holder : {"none"} \cup Publisher \cup Receiver, cursor : Nat,
                        closed : BOOLEAN, joined : SUBSET Receiver]
      /\ delivery'.cursor = delivery.cursor /\ delivery'.closed = delivery.closed
      /\ delivery'.joined = delivery.joined /\ delivery'.holder = r
  BY <1>0, <1>1
<1> HIDE DEF x, g, y
<1>4. /\ r \notin delivery.joined /\ g = <<>> /\ y.items = <<>> /\ y.page = <<>>
      /\ ~y.closed /\ ~y.failed /\ y.cursor = 0 /\ x.terminal = y.terminal
      /\ y.terminal /\ origin = "own" => worker \in Past
  BY <1>0, <1>1, <1>2 DEF Closing, Good, Blank
<1>5. Len(<<>>) = 0 /\ DOMAIN <<>> = {}
  OBVIOUS
<1>6. Replayed(y, g)
  <2>1. y.exhausted <=> tip = 0
    BY ONLY <1>2
  <2>2. /\ tip \in Nat /\ y.liveAfter = tip /\ y.tip = tip /\ y.cursor = 0 /\ ~y.failed
        /\ g = <<>> /\ y.page = <<>>
    BY ONLY <1>0, <1>2, <1>4
  <2>3. QED
    BY ONLY <1>5, <2>1, <2>2 DEF Replayed, Live
<1>7. Queued(y, g, delivery.cursor, r \in delivery'.joined)
  BY <1>3, <1>4, <1>5 DEF Queued, HasLag, Ordered
<1>8. Good(y, g, delivery.cursor, r \in delivery'.joined)
  BY <1>2, <1>3, <1>4, <1>6, <1>7 DEF Good, Blank
<1>9. Closing(y, g, r \in delivery'.joined)
  BY <1>0, <1>2, <1>3, <1>4 DEF Closing
<1>10. /\ Receivers' /\ rx' \in [Receiver -> ReceiverType] /\ got' \in [Receiver -> Seq(Entry)]
       /\ rx'[r] = y /\ \A s \in Receiver \ {r} : rx'[s] = rx[s]
  <2>1. DeliveryTypeOK /\ Receivers
    BY DEF DeliveryInv
  <2>2. UNCHANGED <<origin, tip, worker, endTip, lossy>>
    BY <1>1
  <2>3. \A s \in Receiver \ {r} : s \in delivery'.joined <=> s \in delivery.joined
    BY <1>3
  <2>4. QED
    BY <1>0, <1>1, <1>2, <1>3, <1>8, <1>9, <2>1, <2>2, <2>3, OneReceiver
<1>11. DeliveryTypeOK'
  BY <1>1, <1>3, <1>10 DEF DeliveryInv, DeliveryTypeOK
<1>12. Mutex'
  BY <1>1, <1>2, <1>3, <1>10, DeliveryAssumption DEF DeliveryInv, Mutex, WantsPublish
<1>13. Ending'
  BY <1>1, <1>3 DEF DeliveryInv, Ending
<1>14. QED
  BY <1>10, <1>11, <1>12, <1>13 DEF DeliveryInv

\* It joins, or is closed when the run is over.
LEMMA JoinKeeps ==
    ASSUME DeliveryInv, NEW r \in Receiver, SubscribeJoins(r)
    PROVE  DeliveryInv'
<1> DEFINE x == rx[r]
           g == got[r]
           over == delivery.closed \/ (x.terminal /\ ~active)
           joined == IF over THEN delivery.joined ELSE delivery.joined \cup {r}
           y == [x EXCEPT !.phase = "open", !.closed = over]
<1>0. /\ x \in ReceiverType /\ g \in Seq(Entry)
      /\ Good(x, g, delivery.cursor, r \in delivery.joined)
      /\ Closing(x, g, r \in delivery.joined)
      /\ rx \in [Receiver -> ReceiverType] /\ got \in [Receiver -> Seq(Entry)]
      /\ got = [got EXCEPT ![r] = g]
      /\ tip \in Nat /\ endTip \in Nat /\ endTip <= tip
      /\ delivery \in [holder : {"none"} \cup Publisher \cup Receiver, cursor : Nat,
                       closed : BOOLEAN, joined : SUBSET Receiver]
      /\ active \in BOOLEAN
      /\ delivery.closed => worker \in Past
      /\ origin = "own" <=> worker # "absent"
  BY Known DEF DeliveryInv, DeliveryTypeOK, Ending, Past
<1>1. /\ x.phase = "joining" /\ joined \in SUBSET Receiver
      /\ delivery' = [delivery EXCEPT !.holder = "none", !.joined = joined]
      /\ rx' = [rx EXCEPT ![r] = y] /\ got' = [got EXCEPT ![r] = g]
      /\ UNCHANGED <<origin, tip, terminal, active, worker, surface, endTip, lossy>>
  BY <1>0 DEF SubscribeJoins
<1>15. delivery.holder = r
  BY <1>1 DEF DeliveryInv, Mutex
<1>16. over \in BOOLEAN
  BY <1>0 DEF ReceiverType
<1>17. over => delivery.closed \/ x.terminal
  OBVIOUS
<1>18. r \in joined <=> r \in delivery.joined \/ ~over
  OBVIOUS
<1>19. \A s \in Receiver \ {r} : s \in joined <=> s \in delivery.joined
  OBVIOUS
<1> HIDE DEF over, joined
<1>2. /\ y \in ReceiverType /\ y.phase = "open" /\ y.terminal = x.terminal
      /\ y.liveAfter = x.liveAfter /\ y.items = x.items /\ y.closed = over /\ y.tip = x.tip
      /\ y.cursor = x.cursor /\ y.page = x.page /\ y.exhausted = x.exhausted
      /\ y.failed = x.failed
  BY <1>0, <1>16 DEF ReceiverType, Phase
<1>3. /\ delivery' \in [holder : {"none"} \cup Publisher \cup Receiver, cursor : Nat,
                        closed : BOOLEAN, joined : SUBSET Receiver]
      /\ delivery'.cursor = delivery.cursor /\ delivery'.closed = delivery.closed
      /\ delivery'.joined = joined /\ delivery'.holder = "none"
  BY <1>0, <1>1
<1> HIDE DEF x, g, y
<1>4. /\ r \notin delivery.joined /\ g = <<>> /\ y.items = <<>> /\ y.page = <<>>
      /\ ~y.failed /\ y.cursor = 0 /\ x.liveAfter \in Nat /\ x.liveAfter <= tip
      /\ delivery.cursor \in Nat /\ delivery.cursor <= x.liveAfter
      /\ over => x.liveAfter >= endTip /\ worker \in Past \cup {"absent"}
      /\ x.terminal /\ origin = "own" => worker \in Past
  BY <1>0, <1>1, <1>2, <1>17 DEF Closing, Good, Blank, ReceiverType
<1>5. Len(<<>>) = 0 /\ DOMAIN <<>> = {}
  OBVIOUS
<1>6. Replayed(y, g) /\ Base(y, g) = y.liveAfter
  <2>1. Replayed(x, g) /\ (Live(y) <=> Live(x))
    BY <1>0, <1>2 DEF Good, Live
  <2>2. Replayed(y, g)
    BY <1>2, <2>1 DEF Replayed
  <2>3. Live(y) => y.liveAfter <= 0
    BY <1>4, <1>5, <2>2 DEF Replayed
  <2>4. QED
    BY <1>2, <1>4, <1>5, <2>2, <2>3 DEF Base
<1>7. Queued(y, g, delivery.cursor, r \in joined)
  BY <1>2, <1>4, <1>5, <1>6, <1>18 DEF Queued, HasLag, Ordered
<1>8. Good(y, g, delivery.cursor, r \in delivery'.joined)
  BY <1>2, <1>3, <1>6, <1>7 DEF Good, Blank
<1>9. Closing(y, g, r \in delivery'.joined)
  <2>1. Base(y, g) + Len(y.items) = x.liveAfter
    BY <1>2, <1>4, <1>5, <1>6
  <2>2. QED
    BY <1>2, <1>3, <1>4, <1>18, <2>1 DEF Closing
<1>10. /\ Receivers' /\ rx' \in [Receiver -> ReceiverType] /\ got' \in [Receiver -> Seq(Entry)]
       /\ rx'[r] = y /\ \A s \in Receiver \ {r} : rx'[s] = rx[s]
  <2>1. DeliveryTypeOK /\ Receivers
    BY DEF DeliveryInv
  <2>2. UNCHANGED <<origin, tip, worker, endTip, lossy>>
    BY <1>1
  <2>3. \A s \in Receiver \ {r} : s \in delivery'.joined <=> s \in delivery.joined
    BY <1>3, <1>19
  <2>4. QED
    BY <1>0, <1>1, <1>2, <1>3, <1>8, <1>9, <2>1, <2>2, <2>3, OneReceiver
<1>11. DeliveryTypeOK'
  BY <1>1, <1>3, <1>10 DEF DeliveryInv, DeliveryTypeOK
<1>12. Mutex'
  BY <1>1, <1>2, <1>3, <1>10, <1>15, DeliveryAssumption DEF DeliveryInv, Mutex, WantsPublish
<1>13. Ending'
  BY <1>1, <1>3 DEF DeliveryInv, Ending
<1>14. QED
  BY <1>10, <1>11, <1>12, <1>13 DEF DeliveryInv

-----------------------------------------------------------------------------
\* The invariant of the specification

\* Nobody has subscribed and the run has just been recorded.
LEMMA DeliveryStarts ==
    ASSUME DeliveryInit
    PROVE  DeliveryInv
<1>1. <<>> \in Seq(Entry) /\ <<>> \in Seq(Nat) /\ Len(<<>>) = 0 /\ DOMAIN <<>> = {}
  OBVIOUS
<1>2. NewReceiver \in ReceiverType
  BY <1>1 DEF NewReceiver, ReceiverType, Phase
<1>3. DeliveryTypeOK
  BY <1>1, <1>2, DeliveryAssumption DEF DeliveryInit, DeliveryTypeOK, WorkerPC
<1>4. Mutex
  BY DeliveryAssumption DEF DeliveryInit, Mutex, NewReceiver
<1>5. Ending
  <2>1. /\ tip = 1 /\ endTip = 0 /\ delivery.cursor = 0 /\ ~delivery.closed
        /\ worker = "starting" \/ worker = "absent"
        /\ origin = "own" <=> worker # "absent"
        /\ terminal => origin = "historic"
    BY DEF DeliveryInit
  <2>2. QED
    BY ONLY <2>1 DEF Ending, Past
<1>6. Receivers
  <2>1. ASSUME NEW r \in Receiver
        PROVE  /\ rx[r] = NewReceiver /\ got[r] = <<>>
               /\ delivery.joined = {} /\ delivery.cursor = 0 /\ tip = 1 /\ ~delivery.closed
    BY DEF DeliveryInit
  <2>2. ASSUME NEW r \in Receiver
        PROVE  Good(rx[r], got[r], delivery.cursor, r \in delivery.joined)
    <3>1. /\ rx[r].items = <<>> /\ rx[r].page = <<>> /\ ~rx[r].closed /\ ~rx[r].failed
          /\ rx[r].liveAfter = 0 /\ rx[r].tip = 0 /\ rx[r].cursor = 0 /\ rx[r].exhausted
          /\ got[r] = <<>> /\ r \notin delivery.joined
      BY <2>1 DEF NewReceiver
    <3>2. QED
      BY ONLY <1>1, <3>1 DEF Good, Blank, Replayed, Queued, Base, Live, HasLag, Ordered
  <2>3. ASSUME NEW r \in Receiver
        PROVE  Closing(rx[r], got[r], r \in delivery.joined)
    BY <1>1, <2>1 DEF Closing, NewReceiver
  <2>4. QED
    BY <2>2, <2>3 DEF Receivers
<1>7. QED
  BY <1>3, <1>4, <1>5, <1>6 DEF DeliveryInv

\* No step of a thread or a receiver leaves it.
LEMMA DeliveryStep ==
    ASSUME DeliveryInv, [DeliveryNext]_deliveryVars
    PROVE  DeliveryInv'
<1>1. CASE Aside
  BY <1>1, AsideKeeps
<1>2. ASSUME NEW p \in Publisher, PublishEvent(p) PROVE DeliveryInv'
  BY <1>2, PublishKeeps
<1>3. CASE CloseDelivery
  BY <1>3, CloseKeeps
<1>4. ASSUME NEW r \in Receiver, Subscribe(r) PROVE DeliveryInv'
  BY <1>4, LoadKeeps, TipKeeps, JoinKeeps DEF Subscribe
<1>5. ASSUME NEW r \in Receiver, Recv(r) \/ DropReceiver(r) PROVE DeliveryInv'
  BY <1>5, RecvKeeps
<1>6. CASE UNCHANGED deliveryVars
  BY <1>6 DEF deliveryVars, DeliveryInv, DeliveryTypeOK, Mutex, WantsPublish, Ending, Receivers,
       Good, Blank, Replayed, Queued, Closing, Base, Live, HasLag, Ordered
<1>7. QED
  BY <1>1, <1>2, <1>3, <1>4, <1>5, <1>6
     DEF DeliveryNext, ProducerSteps, PublishSteps, WorkerSteps, Aside

\* What the property asks of each receiver is in the invariant.
LEMMA InvIsFaithful ==
    ASSUME DeliveryInv
    PROVE  DeliveryFaithful
<1>1. ASSUME NEW r \in Receiver
      PROVE  /\ Good(rx[r], got[r], delivery.cursor, r \in delivery.joined)
             /\ Closing(rx[r], got[r], r \in delivery.joined)
  BY DEF DeliveryInv, Receivers
<1>2. InOrder
  BY <1>1 DEF InOrder, Good, Queued, Ordered
<1>3. GapFree
  BY <1>1 DEF GapFree, Good, Queued
<1>4. EndSeen
  <2>1. ASSUME NEW r \in Receiver, rx[r].phase = "disconnected", ~rx[r].failed, ~lossy,
               ~HasLag(got[r])
        PROVE  Len(got[r]) >= endTip
    <3>1. rx[r].items = <<>> /\ Live(rx[r]) /\ rx[r].closed
      BY <1>1, <2>1 DEF Closing
    <3>2. ~HasLag(rx[r].items) /\ Len(rx[r].items) = 0
      BY <3>1 DEF HasLag
    <3>3. Base(rx[r], got[r]) + Len(rx[r].items) >= endTip /\ Base(rx[r], got[r]) = Len(got[r])
      BY <1>1, <2>1, <3>1, <3>2 DEF Closing, Base
    <3>4. Len(got[r]) \in Nat
      BY DEF DeliveryInv, DeliveryTypeOK
    <3>5. QED
      BY <3>2, <3>3, <3>4
  <2>2. QED
    BY <2>1 DEF EndSeen, HasLag
<1>5. QED
  BY <1>2, <1>3, <1>4 DEF DeliveryFaithful

\* Whatever a receiver returns is the log in order, without a hole it is not
\* told of, and up to the run's end (subscription.rs EventReceiver::recv).
THEOREM DeliveryIsFaithful == DeliverySpec => []DeliveryFaithful
<1>1. DeliveryInit => DeliveryInv
  BY DeliveryStarts
<1>2. DeliveryInv /\ [DeliveryNext]_deliveryVars => DeliveryInv'
  BY DeliveryStep
<1>3. DeliveryInv => DeliveryFaithful
  BY InvIsFaithful
<1>4. QED
  BY <1>1, <1>2, <1>3, PTL DEF DeliverySpec
=============================================================================
