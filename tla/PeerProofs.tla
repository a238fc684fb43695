----------------------------- MODULE PeerProofs -----------------------------
(* Proofs about the programs Harkness runs and talks to.  About PeerConnection, *)
(* for any number of callers, any capacities and any mix of what the peer and   *)
(* the user do; about ChildProcess, for any number of chunks written, any sizes *)
(* of the pipes, the queue and the limits, and any company a leader starts.     *)
EXTENDS PeerConnection, ChildProcess, FiniteSetTheorems, FunctionTheorems, TLAPS

-----------------------------------------------------------------------------
\* The inductive invariant

Reasons == {"open", "write", "cancelled", "startup", "quarantined", "exit"}
Outcomes == Reasons \cup {"none", "answer", "idle", "timeout", "sendtimeout", "full", "desync"}
Early == {"send", "cloned", "handover", "send-pump", "send-lead"}
Asked == {"check", "pump", "lead"}
Message == {Answer(i) : i \in ReqId} \cup {Note, Junk, Eof}
SlotState == {"waiting", "answered", "abandoned", "spent"}

ConnTypes ==
    /\ peer \in [mix : Mixes, up : BOOLEAN, helper : BOOLEAN, owes : SUBSET ReqId,
                 said : SUBSET ReqId, notes : Nat, bad : BOOLEAN]
    /\ inPipe \in Seq(ReqId) /\ outPipe \in Seq(Message) /\ inq \in Seq(Message)
    /\ outq \in Seq(ReqId \cup {Close})
    /\ writer \in {Parked, Gone} \cup {Holding(i) : i \in ReqId}
    /\ term \in Reasons /\ cterm \in Reasons
    /\ slots \in [DOMAIN slots -> SlotState] /\ DOMAIN slots \subseteq ReqId
    /\ retired \in Seq(ReqId)
    /\ pc \in [Thread -> {"idle", "done"} \cup Early \cup Asked]
    /\ req \in [Thread -> ReqId \cup {0}] /\ res \in [Thread -> Outcomes]
    /\ pc[Consumer] \in {"idle", "done"} \cup Asked

\* The ids that have been given out, and the callers that are finished.
Issuers == {t \in Caller : req[t] # 0}
CallsFinished == {t \in Caller : pc[t] = "done"}

\* A caller that is under way has a slot of its own, ids are given out in
\* order, and no slot is evicted.
CallsPlaced ==
    /\ \A t \in Caller : pc[t] = "idle" => req[t] = 0
    /\ \A t \in Caller : pc[t] \in Early \cup Asked =>
         req[t] \in DOMAIN slots /\ slots[req[t]] \in {"waiting", "answered"}
    /\ \A t, u \in Caller : req[t] = req[u] /\ req[t] # 0 => t = u
    /\ \A t \in Caller : req[t] <= Cardinality(Issuers)
    /\ DOMAIN slots \subseteq 1 .. Cardinality(Issuers)
    /\ Len(retired) <= Cardinality(CallsFinished)

In(q, x) == \E k \in 1 .. Len(q) : q[k] = x
Once(q, x) == \A j, k \in 1 .. Len(q) : q[j] = x /\ q[k] = x => j = k

Places == {"outq", "writer", "inPipe", "owes", "outPipe", "inq", "nowhere"}

\* Request i, or the answer to it, is at place l and nowhere else.
Trip(i, l) ==
    /\ In(outq, i) => l = "outq"
    /\ writer = Holding(i) => l = "writer"
    /\ In(inPipe, i) => l = "inPipe"
    /\ i \in peer.owes => l = "owes"
    /\ In(outPipe, Answer(i)) => l = "outPipe"
    /\ In(inq, Answer(i)) => l = "inq"
    /\ Once(outq, i) /\ Once(inPipe, i) /\ Once(outPipe, Answer(i)) /\ Once(inq, Answer(i))
    /\ l # "nowhere" => i \in DOMAIN slots /\ slots[i] \in {"waiting", "abandoned"}
    /\ \A t \in Caller : req[t] = i /\ pc[t] \in Early => l = "nowhere" /\ slots[i] = "waiting"

\* Every request makes one trip, and nothing else comes from the peer.
InStep ==
    /\ \A i \in ReqId : \E l \in Places : Trip(i, l)
    /\ ~In(outPipe, Junk) /\ ~In(inq, Junk)
    /\ \A t \in Thread : res[t] # "desync"

ConnInv == ConnTypes /\ CallsPlaced /\ (~peer.bad => InStep)

-----------------------------------------------------------------------------
\* Queues

\* A message joins a queue at its end.
LEMMA AppendIn ==
    ASSUME NEW T, NEW q \in Seq(T), NEW e \in T
    PROVE  \A x : /\ In(Append(q, e), x) <=> In(q, x) \/ x = e
                  /\ Once(q, x) /\ (x = e => ~In(q, x)) => Once(Append(q, e), x)
<1> DEFINE b == Append(q, e)
<1>1. /\ Len(b) = Len(q) + 1 /\ Len(q) \in Nat /\ b[Len(q) + 1] = e
      /\ \A k \in 1 .. Len(q) : b[k] = q[k]
  OBVIOUS
<1> HIDE DEF b
<1> SUFFICES ASSUME NEW x
             PROVE  /\ In(b, x) <=> In(q, x) \/ x = e
                    /\ Once(q, x) /\ (x = e => ~In(q, x)) => Once(b, x)
  BY DEF b
<1>2. In(b, x) => In(q, x) \/ x = e
  BY <1>1 DEF In
<1>3. In(q, x) => In(b, x)
  <2>1. ASSUME NEW k \in 1 .. Len(q), q[k] = x PROVE In(b, x)
    <3>1. k \in 1 .. Len(b) /\ b[k] = x
      BY <1>1, <2>1
    <3>2. QED
      BY <3>1 DEF In
  <2>2. QED
    BY <2>1 DEF In
<1>4. x = e => In(b, x)
  <2>1. Len(q) + 1 \in 1 .. Len(b)
    BY <1>1
  <2>2. QED
    BY <1>1, <2>1 DEF In
<1>5. ASSUME Once(q, x), x = e => ~In(q, x), NEW j \in 1 .. Len(b), NEW k \in 1 .. Len(b),
             b[j] = x, b[k] = x
      PROVE  j = k
  <2>1. \A n \in 1 .. Len(b) : n \in 1 .. Len(q) \/ n = Len(q) + 1
    BY <1>1
  <2>2. CASE x = e
    <3>1. \A n \in 1 .. Len(q) : q[n] # x
      BY <1>5, <2>2 DEF In
    <3>2. j = Len(q) + 1 /\ k = Len(q) + 1
      BY <1>1, <1>5, <2>1, <3>1
    <3>3. QED
      BY <3>2
  <2>3. CASE x # e
    <3>1. j \in 1 .. Len(q) /\ k \in 1 .. Len(q)
      BY <1>1, <1>5, <2>1, <2>3
    <3>2. q[j] = x /\ q[k] = x
      BY <1>1, <1>5, <3>1
    <3>3. QED
      BY <1>5, <3>1, <3>2 DEF Once
  <2>4. QED
    BY <2>2, <2>3
<1>6. QED
  BY <1>2, <1>3, <1>4, <1>5 DEF Once

\* The first message is taken off a queue.
LEMMA TailIn ==
    ASSUME NEW T, NEW q \in Seq(T), q # <<>>
    PROVE  /\ In(q, Head(q)) /\ Head(q) \in T
           /\ \A x : /\ In(Tail(q), x) => In(q, x)
                     /\ Once(q, x) => Once(Tail(q), x)
                     /\ Once(q, x) /\ x = Head(q) => ~In(Tail(q), x)
<1> DEFINE b == Tail(q)
<1>1. /\ Len(q) \in Nat /\ Len(q) >= 1 /\ Head(q) = q[1] /\ Len(b) = Len(q) - 1
      /\ \A k \in 1 .. Len(b) : b[k] = q[k + 1] /\ k + 1 \in 1 .. Len(q)
  OBVIOUS
<1>2. 1 \in 1 .. Len(q) /\ Head(q) \in T
  BY <1>1
<1> HIDE DEF b
<1> SUFFICES ASSUME NEW x
             PROVE  /\ In(b, x) => In(q, x)
                    /\ Once(q, x) => Once(b, x)
                    /\ Once(q, x) /\ x = Head(q) => ~In(b, x)
  BY <1>1, <1>2 DEF b, In
<1>3. In(b, x) => In(q, x)
  BY <1>1 DEF In
<1>4. ASSUME Once(q, x), NEW j \in 1 .. Len(b), NEW k \in 1 .. Len(b), b[j] = x, b[k] = x
      PROVE  j = k
  <2>1. j + 1 \in 1 .. Len(q) /\ k + 1 \in 1 .. Len(q) /\ q[j + 1] = x /\ q[k + 1] = x
    BY <1>1, <1>4
  <2>2. j + 1 = k + 1
    BY <1>4, <2>1 DEF Once
  <2>3. j \in Int /\ k \in Int
    BY <1>1
  <2>4. QED
    BY <2>2, <2>3
<1>5. ASSUME Once(q, x), x = Head(q), NEW k \in 1 .. Len(b), b[k] = x PROVE FALSE
  <2>1. k + 1 \in 1 .. Len(q) /\ q[k + 1] = x /\ q[1] = x
    BY <1>1, <1>5
  <2>2. k + 1 = 1
    BY <1>2, <1>5, <2>1 DEF Once
  <2>3. k \in Int /\ k >= 1
    BY <1>1
  <2>4. QED
    BY <2>2, <2>3
<1>6. QED
  BY <1>3, <1>4, <1>5 DEF In, Once

\* Nothing is in an empty queue.
LEMMA EmptyIn == \A x : ~In(<<>>, x) /\ Once(<<>>, x)
BY DEF In, Once

-----------------------------------------------------------------------------
\* Calls

\* The requests made over the connection fit in what it remembers.
Few == IsFiniteSet(Caller) /\ Cardinality(Caller) <= Retained

\* A caller that is under way finishes, and is counted once.
LEMMA OneMore ==
    ASSUME Few, NEW S, NEW t \in Caller, S \subseteq Caller, t \notin S
    PROVE  /\ Cardinality(S) \in Nat /\ Cardinality(S \cup {t}) = Cardinality(S) + 1
           /\ Cardinality(S) + 1 <= Cardinality(Caller) /\ Cardinality(Caller) \in Nat
<1>1. IsFiniteSet(Caller)
  BY DEF Few
<1>2. IsFiniteSet(S)
  BY <1>1, FS_Subset
<1>3. Cardinality(S \cup {t}) = Cardinality(S) + 1
  BY <1>2, FS_AddElement
<1>4. S \cup {t} \subseteq Caller
  OBVIOUS
<1>5. Cardinality(S \cup {t}) <= Cardinality(Caller)
  BY <1>1, <1>4, FS_Subset
<1>6. Cardinality(S) \in Nat /\ Cardinality(Caller) \in Nat
  BY <1>1, <1>2, FS_CardinalityType
<1>7. QED
  BY <1>3, <1>5, <1>6

\* Retiring an id evicts none while the requests are few.
LEMMA RetireIs ==
    ASSUME Few, ConnTypes, CallsPlaced, NEW t \in Caller, pc[t] \in Early \cup Asked,
           NEW answered \in BOOLEAN, retire(req[t], answered)
    PROVE  /\ DOMAIN slots' = DOMAIN slots
           /\ slots' \in [DOMAIN slots -> SlotState]
           /\ slots'[req[t]] = (IF answered THEN "spent" ELSE "abandoned")
           /\ \A k \in DOMAIN slots : k # req[t] => slots'[k] = slots[k]
           /\ retired' \in Seq(ReqId) /\ Len(retired') = Len(retired) + 1
<1> DEFINE i == req[t]
           kept == Append(retired, i)
           over == IF Len(kept) > Retained THEN Len(kept) - Retained ELSE 0
           gone == {kept[k] : k \in 1 .. over}
<1>1. i \in DOMAIN slots /\ i \in ReqId /\ slots \in [DOMAIN slots -> SlotState]
  BY DEF CallsPlaced, ConnTypes
<1>2. kept \in Seq(ReqId) /\ Len(kept) = Len(retired) + 1 /\ Len(retired) \in Nat
  BY <1>1 DEF ConnTypes
<1>3. Len(retired) + 1 <= Retained
  <2>1. pc[t] # "done"
    BY DEF Early, Asked
  <2>2. t \notin CallsFinished /\ CallsFinished \subseteq Caller
    BY <2>1 DEF CallsFinished
  <2>3. /\ Cardinality(CallsFinished) \in Nat /\ Cardinality(Caller) \in Nat
        /\ Cardinality(CallsFinished) + 1 <= Cardinality(Caller)
    BY <2>2, OneMore
  <2>4. Len(retired) <= Cardinality(CallsFinished) /\ Cardinality(Caller) <= Retained
    BY DEF CallsPlaced, Few
  <2>5. QED
    BY <1>2, <2>3, <2>4, PeerConstants
<1>4. over = 0
  BY <1>2, <1>3, PeerConstants
<1>5. retired' = SubSeq(kept, over + 1, Len(kept))
  BY DEF retire
<1>6. slots' = [k \in (DOMAIN slots \cup {i}) \ gone |->
                   IF k = i THEN (IF answered THEN "spent" ELSE "abandoned") ELSE slots[k]]
  BY DEF retire
<1>7. gone = {}
  BY <1>4
<1> HIDE DEF kept, over, gone
<1>8. retired' = kept
  <2>1. retired' = SubSeq(kept, 1, Len(kept))
    BY <1>4, <1>5
  <2>2. QED
    BY <1>2, <2>1
<1>9. (DOMAIN slots \cup {i}) \ gone = DOMAIN slots
  BY <1>1, <1>7
<1>10. slots' = [k \in DOMAIN slots |->
                   IF k = i THEN (IF answered THEN "spent" ELSE "abandoned") ELSE slots[k]]
  BY <1>6, <1>9
<1>11. QED
  BY <1>1, <1>2, <1>8, <1>10 DEF SlotState

\* Nobody starts or finishes, and a slot that is needed stays.
LEMMA CallsStay ==
    ASSUME CallsPlaced, req' = req, retired' = retired,
           \A t \in Caller : /\ pc'[t] = "idle" => pc[t] = "idle"
                             /\ pc'[t] \in Early \cup Asked => pc[t] \in Early \cup Asked
                             /\ pc'[t] = "done" <=> pc[t] = "done",
           DOMAIN slots' = DOMAIN slots,
           \A k \in DOMAIN slots : slots[k] \in {"waiting", "answered"} =>
                                   slots'[k] \in {"waiting", "answered"}
    PROVE  CallsPlaced'
<1>1. Issuers' = Issuers /\ CallsFinished' = CallsFinished
  BY DEF Issuers, CallsFinished
<1>2. QED
  BY <1>1 DEF CallsPlaced

\* A caller that is under way finishes.
LEMMA CallsFinish ==
    ASSUME Few, ConnTypes, CallsPlaced, NEW t \in Caller, pc[t] \in Early \cup Asked,
           NEW answered \in BOOLEAN, retire(req[t], answered), NEW why, Finish(t, why)
    PROVE  CallsPlaced'
<1>1. /\ DOMAIN slots' = DOMAIN slots /\ Len(retired') = Len(retired) + 1
      /\ \A k \in DOMAIN slots : k # req[t] => slots'[k] = slots[k]
  BY RetireIs
<1>2. /\ pc' = [pc EXCEPT ![t] = "done"] /\ req' = req
      /\ pc \in [Thread -> {"idle", "done"} \cup Early \cup Asked] /\ t \in Thread
  BY DEF Finish, ConnTypes, Thread
<1>3. pc'[t] = "done" /\ \A u \in Thread : u # t => pc'[u] = pc[u]
  BY <1>2
<1>4. Issuers' = Issuers
  BY <1>2 DEF Issuers
<1>5. CallsFinished' = CallsFinished \cup {t} /\ t \notin CallsFinished /\ CallsFinished \subseteq Caller
  <2>1. pc[t] # "done"
    BY DEF Early, Asked
  <2>2. QED
    BY <1>3, <2>1 DEF CallsFinished, Thread
<1>6. Cardinality(CallsFinished') = Cardinality(CallsFinished) + 1 /\ Cardinality(CallsFinished) \in Nat
  BY <1>5, OneMore
<1>7. req[t] \in DOMAIN slots /\ req[t] # 0
  BY DEF CallsPlaced, ConnTypes, ReqId
<1>8. Len(retired') <= Cardinality(CallsFinished')
  <2>1. Len(retired) \in Nat /\ Len(retired) <= Cardinality(CallsFinished)
    BY DEF ConnTypes, CallsPlaced
  <2>2. QED
    BY <1>1, <1>6, <2>1
<1>9. \A u \in Caller : pc'[u] = "idle" => req'[u] = 0
  BY <1>2, <1>3 DEF CallsPlaced, Thread
<1>10. ASSUME NEW u \in Caller, pc'[u] \in Early \cup Asked
       PROVE  req'[u] \in DOMAIN slots' /\ slots'[req'[u]] \in {"waiting", "answered"}
  <2>1. u # t
    BY <1>3, <1>10 DEF Early, Asked
  <2>2. pc'[u] = pc[u]
    BY <1>3, <2>1 DEF Thread
  <2>3. req[u] \in DOMAIN slots /\ slots[req[u]] \in {"waiting", "answered"}
    BY <1>10, <2>2 DEF CallsPlaced
  <2>4. req[u] # req[t]
    BY <1>7, <2>1 DEF CallsPlaced
  <2>5. QED
    BY <1>1, <1>2, <2>3, <2>4
<1>11. QED
  BY <1>1, <1>2, <1>4, <1>8, <1>9, <1>10 DEF CallsPlaced

\* What becomes of slots and types when a thread gives up.
LEMMA GivesUp ==
    ASSUME Few, ConnTypes, CallsPlaced, NEW t \in Thread, pc[t] \in Early \cup Asked,
           NEW why \in Outcomes, FinishRetired(t, why)
    PROVE  /\ CallsPlaced' /\ DOMAIN slots' = DOMAIN slots
           /\ slots' \in [DOMAIN slots -> SlotState] /\ retired' \in Seq(ReqId)
           /\ \A k \in DOMAIN slots : slots'[k] = slots[k] \/ slots'[k] = "abandoned"
           /\ req' = req /\ pc' = [pc EXCEPT ![t] = "done"]
           /\ res' = [res EXCEPT ![t] = why]
<1>1. /\ Finish(t, why) /\ req' = req /\ pc' = [pc EXCEPT ![t] = "done"]
      /\ res' = [res EXCEPT ![t] = why]
  BY DEF FinishRetired, Finish
<1>2. CASE t \in Caller
  <2>1. retire(req[t], FALSE)
    BY <1>2 DEF FinishRetired
  <2>2. /\ DOMAIN slots' = DOMAIN slots
        /\ slots' \in [DOMAIN slots -> SlotState] /\ slots'[req[t]] = "abandoned"
        /\ \A k \in DOMAIN slots : k # req[t] => slots'[k] = slots[k]
        /\ retired' \in Seq(ReqId)
    BY <1>2, <2>1, RetireIs
  <2>3. CallsPlaced'
    BY <1>1, <1>2, <2>1, CallsFinish
  <2>4. QED
    BY <1>1, <2>2, <2>3
<1>3. CASE t \notin Caller
  <2>1. slots' = slots /\ retired' = retired /\ t = Consumer
    BY <1>3 DEF FinishRetired, Thread
  <2>2. \A u \in Caller : pc'[u] = pc[u]
    BY <1>1, <1>3 DEF ConnTypes, Thread
  <2>3. CallsPlaced'
    BY <1>1, <2>1, <2>2, CallsStay
  <2>4. QED
    BY <1>1, <2>1, <2>3 DEF ConnTypes
<1>4. QED
  BY <1>2, <1>3

-----------------------------------------------------------------------------
\* Trips

\* Queue q becomes r, with no more of x in it.
Calm(q, r, x) == (In(r, x) => In(q, x)) /\ (Once(q, x) => Once(r, x))

\* Request i goes nowhere in this step.
Rests(i) ==
    /\ Calm(outq, outq', i) /\ Calm(inPipe, inPipe', i)
    /\ Calm(outPipe, outPipe', Answer(i)) /\ Calm(inq, inq', Answer(i))
    /\ writer' = Holding(i) => writer = Holding(i)
    /\ i \in peer'.owes => i \in peer.owes

\* What the connection remembers of request i still fits it at place l.
Fits(i, l) ==
    /\ l # "nowhere" => i \in DOMAIN slots' /\ slots'[i] \in {"waiting", "abandoned"}
    /\ \A t \in Caller : req'[t] = i /\ pc'[t] \in Early =>
         l = "nowhere" /\ slots'[i] = "waiting"

\* A request that rests is where it was.
LEMMA TripRests ==
    ASSUME NEW i, NEW l, Trip(i, l), Rests(i), Fits(i, l)
    PROVE  Trip(i, l)'
BY DEF Trip, Rests, Fits, Calm

\* A slot that is dropped by nobody, and no caller that goes back.
LEMMA FitsStill ==
    ASSUME ConnTypes, NEW i, NEW l, Trip(i, l), DOMAIN slots' = DOMAIN slots,
           l # "nowhere" => slots'[i] \in {"waiting", "abandoned"},
           \A t \in Caller : /\ req'[t] = req[t]
                             /\ pc'[t] \in Early =>
                                  pc[t] \in Early /\ slots'[req[t]] = slots[req[t]]
    PROVE  Fits(i, l)
BY DEF Trip, Fits

\* A step in which every request rests.
LEMMA AllRest ==
    ASSUME InStep, \A i \in ReqId : Rests(i),
           \A i \in ReqId, l \in Places : Trip(i, l) => Fits(i, l),
           Calm(outPipe, outPipe', Junk), Calm(inq, inq', Junk),
           \A t \in Thread : res'[t] # "desync"
    PROVE  InStep'
<1>1. ASSUME NEW i \in ReqId PROVE \E l \in Places : Trip(i, l)'
  <2>1. PICK l \in Places : Trip(i, l)
    BY DEF InStep
  <2>2. Trip(i, l)'
    BY <2>1, TripRests
  <2>3. QED
    BY <2>2
<1>2. QED
  BY <1>1 DEF InStep, Calm

\* A queue that is left alone, cleared, or loses its first message.
LEMMA CalmQueues ==
    ASSUME NEW T, NEW q \in Seq(T), NEW x
    PROVE  /\ Calm(q, q, x) /\ Calm(q, <<>>, x)
           /\ q # <<>> => Calm(q, Tail(q), x)
           /\ \A e \in T : e # x => Calm(q, Append(q, e), x)
<1>1. Calm(q, q, x)
  BY DEF Calm
<1>2. Calm(q, <<>>, x)
  BY EmptyIn DEF Calm
<1>3. q # <<>> => Calm(q, Tail(q), x)
  BY TailIn DEF Calm
<1>4. ASSUME NEW e \in T, e # x PROVE Calm(q, Append(q, e), x)
  BY <1>4, AppendIn DEF Calm
<1>5. QED
  BY <1>1, <1>2, <1>3, <1>4

\* The messages are told apart.
LEMMA Apart ==
    /\ \A i, j : Answer(i) = Answer(j) => i = j
    /\ \A i, j : Holding(i) = Holding(j) => i = j
    /\ \A i : /\ Answer(i) # Note /\ Answer(i) # Junk /\ Answer(i) # Eof
              /\ Holding(i) # Parked /\ Holding(i) # Gone
              /\ Answer(i).kind = "answer" /\ Answer(i).id = i
              /\ Holding(i).at = "holding" /\ Holding(i).id = i
    /\ Note # Junk /\ Eof # Junk /\ Note.kind = "note" /\ Junk.kind = "junk" /\ Eof.kind = "eof"
    /\ Parked.at = "parked" /\ Gone.at = "ended" /\ Parked # Gone
    /\ Note \in Message /\ Junk \in Message /\ Eof \in Message
    /\ \A i \in ReqId : Answer(i) \in Message
<1>1. \A i, j : Answer(i) = Answer(j) => i = j
  <2> SUFFICES ASSUME NEW i, NEW j, Answer(i) = Answer(j) PROVE i = j
    OBVIOUS
  <2>1. Answer(i).id = i /\ Answer(j).id = j
    BY DEF Answer
  <2>2. QED
    BY <2>1
<1>2. \A i, j : Holding(i) = Holding(j) => i = j
  <2> SUFFICES ASSUME NEW i, NEW j, Holding(i) = Holding(j) PROVE i = j
    OBVIOUS
  <2>1. Holding(i).id = i /\ Holding(j).id = j
    BY DEF Holding
  <2>2. QED
    BY <2>1
<1>3. \A i : Answer(i).kind = "answer" /\ Answer(i).id = i
  BY DEF Answer
<1>4. \A i : Holding(i).at = "holding" /\ Holding(i).id = i
  BY DEF Holding
<1>5. Note.kind = "note" /\ Junk.kind = "junk" /\ Eof.kind = "eof"
  BY DEF Note, Junk, Eof
<1>6. Parked.at = "parked" /\ Gone.at = "ended"
  BY DEF Parked, Gone
<1>7. \A i : Answer(i) # Note /\ Answer(i) # Junk /\ Answer(i) # Eof
  BY <1>3, <1>5
<1>8. \A i : Holding(i) # Parked /\ Holding(i) # Gone
  BY <1>4, <1>6
<1>9. Note # Junk /\ Eof # Junk /\ Parked # Gone
  BY <1>5, <1>6
<1>10. /\ Note \in Message /\ Junk \in Message /\ Eof \in Message
       /\ \A i \in ReqId : Answer(i) \in Message
  BY DEF Message
<1>11. QED
  BY <1>1, <1>2, <1>3, <1>4, <1>5, <1>6, <1>7, <1>8, <1>9, <1>10

\* A step in which one request moves.
LEMMA OneMoves ==
    ASSUME InStep, NEW m \in ReqId, \A i \in ReqId \ {m} : Rests(i),
           \A i \in ReqId \ {m}, l \in Places : Trip(i, l) => Fits(i, l),
           \E l \in Places : Trip(m, l)',
           Calm(outPipe, outPipe', Junk), Calm(inq, inq', Junk),
           \A t \in Thread : res'[t] # "desync"
    PROVE  InStep'
<1>1. ASSUME NEW i \in ReqId PROVE \E l \in Places : Trip(i, l)'
  <2>1. CASE i = m
    BY <2>1
  <2>2. CASE i # m
    <3>1. PICK l \in Places : Trip(i, l)
      BY DEF InStep
    <3>2. Rests(i) /\ Fits(i, l)
      BY <2>2, <3>1
    <3>3. Trip(i, l)'
      BY <3>1, <3>2, TripRests
    <3>4. QED
      BY <3>3
  <2>3. QED
    BY <2>1, <2>2
<1>2. QED
  BY <1>1 DEF InStep, Calm

\* The callers and their slots are left alone.
CallsAlone == pc' = pc /\ req' = req /\ slots' = slots /\ retired' = retired

\* Then all that is said of them stays.
LEMMA AloneStay ==
    ASSUME ConnTypes, CallsPlaced, CallsAlone
    PROVE  /\ CallsPlaced'
           /\ \A i, l : Trip(i, l) => Fits(i, l)
<1>1. CallsPlaced'
  BY CallsStay DEF CallsAlone
<1>2. ASSUME NEW i, NEW l, Trip(i, l) PROVE Fits(i, l)
  BY <1>2 DEF CallsAlone, Trip, Fits
<1>3. QED
  BY <1>1, <1>2

-----------------------------------------------------------------------------
\* The peer

\* The peer reads a request.
LEMMA ReadsKept == ASSUME ConnInv, PeerReads PROVE ConnInv'
<1>0. PICK m : m = Head(inPipe)
  OBVIOUS
<1>1. /\ inPipe # <<>> /\ inPipe' = Tail(inPipe)
      /\ peer' = [peer EXCEPT !.owes = peer.owes \cup {m}]
      /\ outPipe' = outPipe /\ inq' = inq /\ outq' = outq /\ writer' = writer /\ res' = res
      /\ term' = term /\ cterm' = cterm /\ CallsAlone
  BY <1>0 DEF PeerReads, pipeVars, endVars, tableVars, CallsAlone
<1>2. ConnTypes /\ CallsPlaced /\ inPipe \in Seq(ReqId)
  BY DEF ConnInv, ConnTypes
<1>3. /\ m \in ReqId /\ In(inPipe, m)
      /\ Once(inPipe, m) => ~In(inPipe', m) /\ Once(inPipe', m)
      /\ inPipe' \in Seq(ReqId)
  BY <1>0, <1>1, <1>2, TailIn
<1>4. /\ peer'.owes = peer.owes \cup {m} /\ peer'.bad = peer.bad
      /\ peer' \in [mix : Mixes, up : BOOLEAN, helper : BOOLEAN, owes : SUBSET ReqId,
                    said : SUBSET ReqId, notes : Nat, bad : BOOLEAN]
  BY <1>1, <1>2, <1>3 DEF ConnTypes
<1>5. ConnTypes'
  BY <1>1, <1>2, <1>3, <1>4 DEF ConnTypes, CallsAlone
<1>6. CallsPlaced' /\ \A i, l : Trip(i, l) => Fits(i, l)
  BY <1>1, <1>2, AloneStay
<1>7. ASSUME ~peer'.bad PROVE InStep'
  <2>1. InStep
    BY <1>4, <1>7 DEF ConnInv
  <2>2. \A x : /\ Calm(outq, outq', x) /\ Calm(outPipe, outPipe', x) /\ Calm(inq, inq', x)
               /\ Calm(inPipe, inPipe', x)
    <3>1. \A x : Calm(inPipe, inPipe', x)
      BY <1>1, <1>2, CalmQueues
    <3>2. QED
      BY <1>1, <3>1 DEF Calm
  <2>3. \A i \in ReqId \ {m} : Rests(i)
    BY <1>1, <1>4, <2>2 DEF Rests
  <2>4. PICK l \in Places : Trip(m, l)
    BY <1>3, <2>1 DEF InStep
  <2>5. l = "inPipe"
    BY <1>3, <2>4 DEF Trip
  <2>6. Trip(m, "owes")'
    <3>1. /\ ~In(outq, m) /\ writer # Holding(m) /\ ~In(outPipe, Answer(m)) /\ ~In(inq, Answer(m))
          /\ Once(outq, m) /\ Once(inPipe, m) /\ Once(outPipe, Answer(m)) /\ Once(inq, Answer(m))
          /\ m \in DOMAIN slots /\ slots[m] \in {"waiting", "abandoned"}
          /\ \A t \in Caller : ~(req[t] = m /\ pc[t] \in Early)
      BY <2>4, <2>5 DEF Trip
    <3>2. ~In(inPipe', m) /\ Once(inPipe', m)
      BY <1>3, <3>1
    <3>3. QED
      BY <1>1, <3>1, <3>2 DEF Trip, CallsAlone
  <2>7. \A t \in Thread : res'[t] # "desync"
    BY <1>1, <2>1 DEF InStep
  <2>8. "owes" \in Places
    BY DEF Places
  <2>9. \E p \in Places : Trip(m, p)'
    BY <2>6, <2>8
  <2>10. QED
    BY <1>3, <1>6, <2>1, <2>2, <2>3, <2>7, <2>9, OneMoves
<1>8. QED
  BY <1>5, <1>6, <1>7 DEF ConnInv

\* The peer answers a request it owes an answer to.
LEMMA AnswersKept == ASSUME ConnInv, PeerAnswers PROVE ConnInv'
<1>1. PICK m \in peer.owes :
        PeerSays(Answer(m), [peer EXCEPT !.owes = @ \ {m}, !.said = @ \cup {m}])
  BY DEF PeerAnswers
<1>2. /\ outPipe' = Append(outPipe, Answer(m)) /\ inPipe' = inPipe
      /\ peer' = [peer EXCEPT !.owes = peer.owes \ {m}, !.said = peer.said \cup {m}]
      /\ inq' = inq /\ outq' = outq /\ writer' = writer /\ res' = res
      /\ term' = term /\ cterm' = cterm /\ CallsAlone
  BY <1>1 DEF PeerSays, pipeVars, endVars, tableVars, CallsAlone
<1>3. ConnTypes /\ CallsPlaced /\ outPipe \in Seq(Message)
  BY DEF ConnInv, ConnTypes
<1>4. /\ peer'.owes = peer.owes \ {m} /\ peer'.bad = peer.bad /\ m \in ReqId
      /\ peer' \in [mix : Mixes, up : BOOLEAN, helper : BOOLEAN, owes : SUBSET ReqId,
                    said : SUBSET ReqId, notes : Nat, bad : BOOLEAN]
  BY <1>2, <1>3 DEF ConnTypes
<1> DEFINE a == Answer(m)
<1>5. a \in Message /\ a # Junk /\ \A i : i # m => Answer(i) # a
  BY <1>4, Apart
<1> HIDE DEF a
<1>6. /\ outPipe' \in Seq(Message)
      /\ Once(outPipe, a) /\ ~In(outPipe, a) => Once(outPipe', a)
      /\ \A x : x # a => Calm(outPipe, outPipe', x)
  <2>1. outPipe' = Append(outPipe, a)
    BY <1>2 DEF a
  <2>2. QED
    BY <1>3, <1>5, <2>1, AppendIn, CalmQueues
<1>7. ConnTypes'
  BY <1>2, <1>3, <1>4, <1>6 DEF ConnTypes, CallsAlone
<1>8. CallsPlaced' /\ \A i, l : Trip(i, l) => Fits(i, l)
  BY <1>2, <1>3, AloneStay
<1>9. ASSUME ~peer'.bad PROVE InStep'
  <2>1. InStep
    BY <1>4, <1>9 DEF ConnInv
  <2>2. \A x : Calm(outq, outq', x) /\ Calm(inPipe, inPipe', x) /\ Calm(inq, inq', x)
    BY <1>2 DEF Calm
  <2>3. \A i \in ReqId \ {m} : Rests(i)
    BY <1>2, <1>4, <1>5, <1>6, <2>2 DEF Rests
  <2>4. PICK l \in Places : Trip(m, l)
    BY <1>4, <2>1 DEF InStep
  <2>5. l = "owes"
    BY <1>1, <2>4 DEF Trip
  <2>6. Trip(m, "outPipe")'
    BY <1>2, <1>4, <1>6, <2>4, <2>5 DEF Trip, CallsAlone, a
  <2>7. \A t \in Thread : res'[t] # "desync"
    BY <1>2, <2>1 DEF InStep
  <2>8. "outPipe" \in Places /\ Calm(outPipe, outPipe', Junk)
    BY <1>5, <1>6 DEF Places
  <2>9. QED
    BY <1>4, <1>8, <2>1, <2>2, <2>3, <2>6, <2>7, <2>8, OneMoves
<1>10. QED
  BY <1>7, <1>8, <1>9 DEF ConnInv

\* Whatever else the peer does.
LEMMA PeerKept ==
    ASSUME ConnInv, PeerRepeats \/ PeerBabbles \/ PeerNotes \/ PeerExits
    PROVE  ConnInv'
<1>0. ConnTypes /\ CallsPlaced /\ outPipe \in Seq(Message)
  BY DEF ConnInv, ConnTypes
<1>1. CASE PeerRepeats \/ PeerBabbles
  <2>1. PICK a \in Message : PeerSays(a, [peer EXCEPT !.bad = TRUE])
    <3>1. peer.said \subseteq ReqId
      BY <1>0 DEF ConnTypes
    <3>2. QED
      BY <1>1, <3>1, Apart DEF PeerRepeats, PeerBabbles
  <2>2. /\ outPipe' = Append(outPipe, a) /\ inPipe' = inPipe
        /\ peer' = [peer EXCEPT !.bad = TRUE]
        /\ inq' = inq /\ outq' = outq /\ writer' = writer /\ res' = res
        /\ term' = term /\ cterm' = cterm /\ CallsAlone
    BY <2>1 DEF PeerSays, pipeVars, endVars, tableVars, CallsAlone
  <2>3. outPipe' \in Seq(Message)
    BY <1>0, <2>2
  <2>4. /\ peer' \in [mix : Mixes, up : BOOLEAN, helper : BOOLEAN, owes : SUBSET ReqId,
                      said : SUBSET ReqId, notes : Nat, bad : BOOLEAN]
        /\ peer'.bad = TRUE
    BY <1>0, <2>2 DEF ConnTypes
  <2>5. ConnTypes'
    BY <1>0, <2>2, <2>3, <2>4 DEF ConnTypes, CallsAlone
  <2>6. CallsPlaced'
    BY <1>0, <2>2, AloneStay
  <2>7. QED
    BY <2>4, <2>5, <2>6 DEF ConnInv
<1>2. CASE PeerNotes \/ PeerExits
  <2>1. /\ \/ outPipe' = outPipe
           \/ outPipe' = Append(outPipe, Note) /\ Note \in Message
        /\ inPipe' = inPipe /\ inq' = inq /\ outq' = outq /\ writer' = writer /\ res' = res
        /\ term' = term /\ cterm' = cterm /\ CallsAlone
    BY <1>2, Apart
    DEF PeerNotes, PeerSays, PeerExits, pipeVars, endVars, tableVars, CallsAlone
  <2>2. /\ peer' \in [mix : Mixes, up : BOOLEAN, helper : BOOLEAN, owes : SUBSET ReqId,
                      said : SUBSET ReqId, notes : Nat, bad : BOOLEAN]
        /\ peer'.bad = peer.bad /\ peer'.owes = peer.owes
    <3>1. CASE PeerNotes
      <4>1. peer' = [peer EXCEPT !.notes = peer.notes + 1]
        BY <3>1 DEF PeerNotes, PeerSays
      <4>2. peer.notes + 1 \in Nat
        <5>1. peer.notes \in Nat
          BY <1>0 DEF ConnTypes
        <5>2. QED
          BY <5>1
      <4>3. QED
        BY <1>0, <4>1, <4>2 DEF ConnTypes
    <3>2. CASE PeerExits
      <4>1. peer' = [peer EXCEPT !.up = FALSE]
        BY <3>2 DEF PeerExits
      <4>2. QED
        BY <1>0, <4>1 DEF ConnTypes
    <3>3. QED
      BY <1>2, <3>1, <3>2
  <2>3. outPipe' \in Seq(Message) /\ \A x : x # Note => Calm(outPipe, outPipe', x)
    <3>1. CASE outPipe' = outPipe
      BY <1>0, <3>1 DEF Calm
    <3>2. CASE outPipe' = Append(outPipe, Note) /\ Note \in Message
      <4>1. outPipe' \in Seq(Message)
        BY <1>0, <3>2
      <4>2. \A x : x # Note => Calm(outPipe, Append(outPipe, Note), x)
        BY <1>0, <3>2, CalmQueues
      <4>3. QED
        BY <3>2, <4>1, <4>2
    <3>3. QED
      BY <2>1, <3>1, <3>2
  <2>4. ConnTypes'
    BY <1>0, <2>1, <2>2, <2>3 DEF ConnTypes, CallsAlone
  <2>5. CallsPlaced' /\ \A i, l : Trip(i, l) => Fits(i, l)
    BY <1>0, <2>1, AloneStay
  <2>6. ASSUME ~peer'.bad PROVE InStep'
    <3>1. InStep
      BY <2>2, <2>6 DEF ConnInv
    <3>2. \A x : Calm(outq, outq', x) /\ Calm(inPipe, inPipe', x) /\ Calm(inq, inq', x)
      BY <2>1 DEF Calm
    <3>3. \A i \in ReqId : Rests(i)
      BY <2>1, <2>2, <2>3, <3>2, Apart DEF Rests
    <3>4. \A t \in Thread : res'[t] # "desync"
      BY <2>1, <3>1 DEF InStep
    <3>5. Calm(outPipe, outPipe', Junk)
      BY <2>3, Apart
    <3>6. QED
      BY <2>5, <3>1, <3>2, <3>3, <3>4, <3>5, AllRest
  <2>7. QED
    BY <2>4, <2>5, <2>6 DEF ConnInv
<1>3. QED
  BY <1>1, <1>2

-----------------------------------------------------------------------------
\* The threads of the transport

\* The reader forwards a message, or the end of the stream.
LEMMA ForwardsKept == ASSUME ConnInv, read_messages PROVE ConnInv'
<1>1. /\ peer' = peer /\ inPipe' = inPipe /\ outq' = outq /\ writer' = writer /\ res' = res
      /\ term' = term /\ cterm' = cterm /\ CallsAlone
  BY DEF read_messages, endVars, tableVars, CallsAlone
<1>2. ConnTypes /\ CallsPlaced /\ outPipe \in Seq(Message) /\ inq \in Seq(Message)
  BY DEF ConnInv, ConnTypes
<1>3. CallsPlaced' /\ \A i, l : Trip(i, l) => Fits(i, l)
  BY <1>1, <1>2, AloneStay
<1>4. \A x : Calm(outq, outq', x) /\ Calm(inPipe, inPipe', x)
  BY <1>1 DEF Calm
<1>6. CASE outPipe # <<>>
  <2>1. PICK b : b = Head(outPipe)
    OBVIOUS
  <2>2. outPipe' = Tail(outPipe) /\ inq' = Append(inq, b)
    BY <1>6, <2>1 DEF read_messages
  <2>3. /\ In(outPipe, b) /\ b \in Message /\ outPipe' \in Seq(Message)
        /\ Once(outPipe, b) => ~In(outPipe', b)
        /\ \A x : Once(outPipe, x) => Once(outPipe', x)
        /\ \A x : Calm(outPipe, outPipe', x)
    BY <1>2, <1>6, <2>1, <2>2, TailIn, CalmQueues
  <2>4. /\ inq' \in Seq(Message)
        /\ Once(inq, b) /\ ~In(inq, b) => Once(inq', b)
        /\ \A x : x # b => Calm(inq, inq', x)
    <3>1. \A x : x # b => Calm(inq, Append(inq, b), x)
      BY <1>2, <2>3, CalmQueues
    <3>2. Once(inq, b) /\ ~In(inq, b) => Once(Append(inq, b), b)
      BY <1>2, <2>3, AppendIn
    <3>3. QED
      BY <1>2, <2>2, <2>3, <3>1, <3>2
  <2>5. ConnTypes'
    BY <1>1, <1>2, <2>3, <2>4 DEF ConnTypes, CallsAlone
  <2>6. ASSUME ~peer'.bad PROVE InStep'
    <3>1. InStep
      BY <1>1, <2>6 DEF ConnInv
    <3>2. b # Junk
      BY <2>3, <3>1 DEF InStep
    <3>3. \A t \in Thread : res'[t] # "desync"
      BY <1>1, <3>1 DEF InStep
    <3>4. Calm(outPipe, outPipe', Junk) /\ Calm(inq, inq', Junk)
      BY <2>3, <2>4, <3>2
    <3>5. ASSUME NEW i \in ReqId, Answer(i) # b PROVE Rests(i)
      <4>1. Calm(outPipe, outPipe', Answer(i)) /\ Calm(inq, inq', Answer(i))
        BY <2>3, <2>4, <3>5
      <4>2. QED
        BY <1>1, <1>4, <4>1 DEF Rests
    <3>6. CASE \E m \in ReqId : b = Answer(m)
      <4>1. PICK m \in ReqId : b = Answer(m)
        BY <3>6
      <4>2. \A i \in ReqId \ {m} : Rests(i)
        BY <3>5, <4>1, Apart
      <4>3. PICK l \in Places : Trip(m, l)
        BY <3>1 DEF InStep
      <4>4. l = "outPipe"
        BY <2>3, <4>1, <4>3 DEF Trip
      <4>5. Trip(m, "inq")'
        <5>1. /\ ~In(outq, m) /\ writer # Holding(m) /\ ~In(inPipe, m) /\ m \notin peer.owes
              /\ ~In(inq, b)
              /\ Once(outq, m) /\ Once(inPipe, m) /\ Once(outPipe, b) /\ Once(inq, b)
              /\ m \in DOMAIN slots /\ slots[m] \in {"waiting", "abandoned"}
              /\ \A t \in Caller : ~(req[t] = m /\ pc[t] \in Early)
          BY <4>1, <4>3, <4>4 DEF Trip
        <5>2. ~In(outPipe', b) /\ Once(outPipe', b) /\ Once(inq', b)
          BY <2>3, <2>4, <5>1
        <5>3. QED
          BY <1>1, <4>1, <5>1, <5>2 DEF Trip, CallsAlone
      <4>6. \E p \in Places : Trip(m, p)'
        BY <4>5 DEF Places
      <4>7. QED
        BY <1>3, <3>1, <3>3, <3>4, <4>2, <4>6, OneMoves
    <3>7. CASE \A m \in ReqId : b # Answer(m)
      <4>1. \A i \in ReqId : Rests(i)
        BY <3>5, <3>7
      <4>2. QED
        BY <1>3, <3>1, <3>3, <3>4, <4>1, AllRest
    <3>8. QED
      BY <3>6, <3>7
  <2>7. QED
    BY <1>3, <2>5, <2>6 DEF ConnInv
<1>7. CASE outPipe = <<>>
  <2>1. outPipe' = outPipe /\ inq' = Append(inq, Eof)
    BY <1>7 DEF read_messages
  <2>2. inq' \in Seq(Message) /\ \A x : x # Eof => Calm(inq, inq', x)
    <3>1. Eof \in Message
      BY Apart
    <3>2. \A x : x # Eof => Calm(inq, Append(inq, Eof), x)
      BY <1>2, <3>1, CalmQueues
    <3>3. QED
      BY <1>2, <2>1, <3>1, <3>2
  <2>3. ConnTypes'
    BY <1>1, <1>2, <2>1, <2>2 DEF ConnTypes, CallsAlone
  <2>4. ASSUME ~peer'.bad PROVE InStep'
    <3>1. InStep
      BY <1>1, <2>4 DEF ConnInv
    <3>2. \A x : Calm(outPipe, outPipe', x)
      BY <2>1 DEF Calm
    <3>3. Calm(inq, inq', Junk) /\ \A i : Calm(inq, inq', Answer(i))
      BY <2>2, Apart
    <3>4. \A i \in ReqId : Rests(i)
      BY <1>1, <1>4, <3>2, <3>3 DEF Rests
    <3>5. \A t \in Thread : res'[t] # "desync"
      BY <1>1, <3>1 DEF InStep
    <3>6. QED
      BY <1>3, <3>1, <3>2, <3>3, <3>4, <3>5, AllRest
  <2>5. QED
    BY <1>3, <2>3, <2>4 DEF ConnInv
<1>8. QED
  BY <1>6, <1>7

\* The writer ends.
LEMMA EndsKept ==
    ASSUME ConnInv, NEW fails \in BOOLEAN, NEW held, WriterEnds(fails, held), CallsAlone,
           peer' = peer, inPipe' = inPipe, outPipe' = outPipe, inq' = inq, res' = res,
           cterm' = cterm
    PROVE  ConnInv'
<1>1. writer' = Gone /\ outq' = <<>> /\ (term' = term \/ term' = "write")
  BY DEF WriterEnds
<1>2. ConnTypes /\ CallsPlaced /\ outq \in Seq(ReqId \cup {Close})
  BY DEF ConnInv, ConnTypes
<1>3. ConnTypes'
  <2>1. outq' \in Seq(ReqId \cup {Close}) /\ term' \in Reasons
    BY <1>1, <1>2 DEF ConnTypes, Reasons
  <2>2. QED
    BY <1>1, <1>2, <2>1 DEF ConnTypes, CallsAlone
<1>4. CallsPlaced' /\ \A i, l : Trip(i, l) => Fits(i, l)
  BY <1>2, AloneStay
<1>5. ASSUME ~peer'.bad PROVE InStep'
  <2>1. InStep
    BY <1>5 DEF ConnInv
  <2>2. \A x : /\ Calm(outq, outq', x) /\ Calm(inPipe, inPipe', x)
               /\ Calm(outPipe, outPipe', x) /\ Calm(inq, inq', x)
    BY <1>1, EmptyIn DEF Calm
  <2>3. \A i \in ReqId : Rests(i)
    BY <1>1, <2>2, Apart DEF Rests
  <2>4. \A t \in Thread : res'[t] # "desync"
    BY <2>1 DEF InStep
  <2>5. QED
    BY <1>4, <2>1, <2>2, <2>3, <2>4, AllRest
<1>6. QED
  BY <1>3, <1>4, <1>5 DEF ConnInv

\* The writer takes a request from its queue.
LEMMA TakesKept == ASSUME ConnInv, WriterTakes PROVE ConnInv'
<1>1. /\ peer' = peer /\ inPipe' = inPipe /\ outPipe' = outPipe /\ inq' = inq /\ res' = res
      /\ cterm' = cterm /\ CallsAlone /\ writer.at = "parked"
  BY DEF WriterTakes, tableVars, CallsAlone
<1>2. CASE WriterEnds(FALSE, 0)
  BY <1>1, <1>2, EndsKept
<1>3. CASE ~WriterEnds(FALSE, 0)
  <2>1. PICK m : m = Head(outq)
    OBVIOUS
  <2>2. /\ outq # <<>> /\ m # Close /\ writer' = Holding(m) /\ outq' = Tail(outq)
        /\ term' = term
    BY <1>3, <2>1 DEF WriterTakes
  <2>3. ConnTypes /\ CallsPlaced /\ outq \in Seq(ReqId \cup {Close})
    BY DEF ConnInv, ConnTypes
  <2>4. /\ m \in ReqId /\ In(outq, m) /\ outq' \in Seq(ReqId \cup {Close})
        /\ Once(outq, m) => ~In(outq', m) /\ Once(outq', m)
        /\ \A x : Calm(outq, outq', x)
    BY <2>1, <2>2, <2>3, TailIn, CalmQueues
  <2>5. ConnTypes'
    BY <1>1, <2>2, <2>3, <2>4 DEF ConnTypes, CallsAlone
  <2>6. CallsPlaced' /\ \A i, l : Trip(i, l) => Fits(i, l)
    BY <1>1, <2>3, AloneStay
  <2>7. ASSUME ~peer'.bad PROVE InStep'
    <3>1. InStep
      BY <1>1, <2>7 DEF ConnInv
    <3>2. \A x : Calm(inPipe, inPipe', x) /\ Calm(outPipe, outPipe', x) /\ Calm(inq, inq', x)
      BY <1>1 DEF Calm
    <3>3. \A i \in ReqId \ {m} : Rests(i)
      BY <1>1, <2>2, <2>4, <3>2, Apart DEF Rests
    <3>4. PICK l \in Places : Trip(m, l)
      BY <2>4, <3>1 DEF InStep
    <3>5. l = "outq"
      BY <2>4, <3>4 DEF Trip
    <3>6. Trip(m, "writer")'
      <4>1. /\ ~In(inPipe, m) /\ m \notin peer.owes
            /\ ~In(outPipe, Answer(m)) /\ ~In(inq, Answer(m))
            /\ Once(outq, m) /\ Once(inPipe, m) /\ Once(outPipe, Answer(m)) /\ Once(inq, Answer(m))
            /\ m \in DOMAIN slots /\ slots[m] \in {"waiting", "abandoned"}
            /\ \A t \in Caller : ~(req[t] = m /\ pc[t] \in Early)
        BY <3>4, <3>5 DEF Trip
      <4>2. ~In(outq', m) /\ Once(outq', m)
        BY <2>4, <4>1
      <4>3. QED
        BY <1>1, <4>1, <4>2 DEF Trip, CallsAlone
    <3>7. \A t \in Thread : res'[t] # "desync"
      BY <1>1, <3>1 DEF InStep
    <3>8. \E p \in Places : Trip(m, p)'
      BY <3>6 DEF Places
    <3>9. QED
      BY <2>4, <2>6, <3>1, <3>2, <3>3, <3>7, <3>8, OneMoves
  <2>8. QED
    BY <2>5, <2>6, <2>7 DEF ConnInv
<1>4. QED
  BY <1>2, <1>3

\* The writer writes the request it holds, or fails to.
LEMMA WritesKept == ASSUME ConnInv, WriterWrites PROVE ConnInv'
<1>1. /\ peer' = peer /\ outPipe' = outPipe /\ inq' = inq /\ res' = res
      /\ cterm' = cterm /\ CallsAlone /\ writer.at = "holding"
  BY DEF WriterWrites, tableVars, CallsAlone
<1>2. CASE WriterEnds(TRUE, 1) /\ inPipe' = inPipe
  BY <1>1, <1>2, EndsKept
<1>3. CASE ~(WriterEnds(TRUE, 1) /\ inPipe' = inPipe)
  <2>1. ConnTypes /\ CallsPlaced /\ inPipe \in Seq(ReqId)
    BY DEF ConnInv, ConnTypes
  <2>2. PICK m \in ReqId : writer = Holding(m)
    BY <1>1, <2>1, Apart DEF ConnTypes
  <2>3. /\ inPipe' = Append(inPipe, m) /\ writer' = Parked /\ outq' = outq /\ term' = term
    BY <1>3, <2>2, Apart DEF WriterWrites
  <2>4. /\ inPipe' \in Seq(ReqId)
        /\ Once(inPipe, m) /\ ~In(inPipe, m) => Once(inPipe', m)
        /\ \A x : x # m => Calm(inPipe, inPipe', x)
    <3>1. \A x : x # m => Calm(inPipe, Append(inPipe, m), x)
      BY <2>1, CalmQueues
    <3>2. Once(inPipe, m) /\ ~In(inPipe, m) => Once(Append(inPipe, m), m)
      BY <2>1, AppendIn
    <3>3. QED
      BY <2>1, <2>3, <3>1, <3>2
  <2>5. ConnTypes'
    BY <1>1, <2>1, <2>3, <2>4 DEF ConnTypes, CallsAlone
  <2>6. CallsPlaced' /\ \A i, l : Trip(i, l) => Fits(i, l)
    BY <1>1, <2>1, AloneStay
  <2>7. ASSUME ~peer'.bad PROVE InStep'
    <3>1. InStep
      BY <1>1, <2>7 DEF ConnInv
    <3>2. \A x : Calm(outq, outq', x) /\ Calm(outPipe, outPipe', x) /\ Calm(inq, inq', x)
      BY <1>1, <2>3 DEF Calm
    <3>3. \A i \in ReqId \ {m} : Rests(i)
      BY <1>1, <2>3, <2>4, <3>2, Apart DEF Rests
    <3>4. PICK l \in Places : Trip(m, l)
      BY <3>1 DEF InStep
    <3>5. l = "writer"
      BY <2>2, <3>4 DEF Trip
    <3>6. Trip(m, "inPipe")'
      <4>1. /\ ~In(outq, m) /\ ~In(inPipe, m) /\ m \notin peer.owes
            /\ ~In(outPipe, Answer(m)) /\ ~In(inq, Answer(m))
            /\ Once(outq, m) /\ Once(inPipe, m) /\ Once(outPipe, Answer(m)) /\ Once(inq, Answer(m))
            /\ m \in DOMAIN slots /\ slots[m] \in {"waiting", "abandoned"}
            /\ \A t \in Caller : ~(req[t] = m /\ pc[t] \in Early)
        BY <3>4, <3>5 DEF Trip
      <4>2. Once(inPipe', m) /\ writer' # Holding(m)
        BY <2>3, <2>4, <4>1, Apart
      <4>3. QED
        BY <1>1, <2>3, <4>1, <4>2 DEF Trip, CallsAlone
    <3>7. \A t \in Thread : res'[t] # "desync"
      BY <1>1, <3>1 DEF InStep
    <3>8. \E p \in Places : Trip(m, p)'
      BY <3>6 DEF Places
    <3>9. QED
      BY <2>6, <3>1, <3>2, <3>3, <3>7, <3>8, OneMoves
  <2>8. QED
    BY <2>5, <2>6, <2>7 DEF ConnInv
<1>4. QED
  BY <1>2, <1>3


-----------------------------------------------------------------------------
\* The callers

\* What a thread that calls the transport does to the queues.
CallQueues ==
    /\ peer' = peer /\ inPipe' = inPipe /\ outPipe' = outPipe /\ writer' = writer
    /\ outq' = outq \/ outq' = Append(outq, Close)
    /\ inq' = inq \/ (inq # <<>> /\ inq' = Tail(inq))

\* No request moves by it.
LEMMA CallRests ==
    ASSUME ConnTypes, CallQueues
    PROVE  /\ outq' \in Seq(ReqId \cup {Close}) /\ inq' \in Seq(Message)
           /\ \A i \in ReqId : Rests(i)
           /\ Calm(outPipe, outPipe', Junk) /\ Calm(inq, inq', Junk)
<1>1. /\ outq \in Seq(ReqId \cup {Close}) /\ inq \in Seq(Message) /\ Close = 0
      /\ Close \in ReqId \cup {Close} /\ \A i \in ReqId : Close # i
  BY DEF ConnTypes, Close, ReqId
<1>2. outq' \in Seq(ReqId \cup {Close}) /\ \A i \in ReqId : Calm(outq, outq', i)
  <2>1. \A i \in ReqId : Calm(outq, outq, i) /\ Calm(outq, Append(outq, Close), i)
    BY <1>1, CalmQueues
  <2>2. Append(outq, Close) \in Seq(ReqId \cup {Close})
    BY <1>1
  <2>3. QED
    BY <1>1, <2>1, <2>2 DEF CallQueues
<1>3. inq' \in Seq(Message) /\ \A x : Calm(inq, inq', x)
  <2>1. CASE inq' = inq
    BY <1>1, <2>1 DEF Calm
  <2>2. CASE inq # <<>> /\ inq' = Tail(inq)
    <3>1. \A x : Calm(inq, Tail(inq), x)
      BY <1>1, <2>2, CalmQueues
    <3>2. Tail(inq) \in Seq(Message)
      BY <1>1, <2>2
    <3>3. QED
      BY <2>2, <3>1, <3>2
  <2>3. QED
    BY <2>1, <2>2 DEF CallQueues
<1>4. \A x : Calm(inPipe, inPipe', x) /\ Calm(outPipe, outPipe', x)
  BY DEF CallQueues, Calm
<1>5. \A i \in ReqId : Rests(i)
  BY <1>2, <1>3, <1>4 DEF Rests, CallQueues
<1>6. QED
  BY <1>2, <1>3, <1>4, <1>5

\* The reasons the transport and the connection give.
LEMMA ReasonsGiven ==
    ASSUME ConnTypes, NEW why \in Reasons
    PROVE  /\ Ended \in Reasons /\ Recorded(why) \in Reasons /\ Remembered(why) \in Reasons
           /\ \A had : Refined(why, had) \in Outcomes /\ Refined(why, had) # "desync"
           /\ why \in Outcomes /\ why # "desync"
           /\ "answer" \in Outcomes /\ "timeout" \in Outcomes /\ "sendtimeout" \in Outcomes
           /\ "full" \in Outcomes /\ "desync" \in Outcomes
<1>1. term \in Reasons /\ cterm \in Reasons
  BY DEF ConnTypes
<1>2. Ended \in Reasons
  BY <1>1 DEF Ended, Reasons
<1>3. Recorded(why) \in Reasons /\ Remembered(why) \in Reasons
  BY <1>1 DEF Recorded, Remembered
<1>4. \A had : Refined(why, had) = why \/ Refined(why, had) = "idle"
  BY DEF Refined
<1>5. why \in Outcomes /\ why # "desync" /\ "idle" \in Outcomes
  BY DEF Reasons, Outcomes
<1>6. QED
  BY <1>2, <1>3, <1>4, <1>5 DEF Outcomes

\* A thread moves on: its request is neither lost nor finished.
LEMMA MovesOn ==
    ASSUME ConnInv, NEW t \in Thread, NEW where, GoTo(t, where), CallQueues,
           slots' = slots, retired' = retired, res' = res,
           term' \in Reasons, cterm' \in Reasons,
           where \in {"idle"} \cup Early \cup Asked, where \in Early => pc[t] \in Early,
           pc[t] # "done", t \in Caller => pc[t] # "idle" /\ where # "idle"
    PROVE  ConnInv'
<1>1. ConnTypes /\ CallsPlaced /\ (~peer.bad => InStep)
  BY DEF ConnInv
<1>2. /\ pc' = [pc EXCEPT ![t] = where] /\ req' = req
      /\ pc \in [Thread -> {"idle", "done"} \cup Early \cup Asked]
      /\ pc[Consumer] \in {"idle", "done"} \cup Asked
  BY <1>1 DEF GoTo, ConnTypes
<1>3. pc'[t] = where /\ \A u \in Thread : u # t => pc'[u] = pc[u]
  BY <1>2
<1>4. /\ pc' \in [Thread -> {"idle", "done"} \cup Early \cup Asked]
      /\ pc'[Consumer] \in {"idle", "done"} \cup Asked
  <2>1. pc' \in [Thread -> {"idle", "done"} \cup Early \cup Asked]
    BY <1>2
  <2>2. Consumer \in Thread
    BY DEF Thread
  <2>3. t = Consumer => where \notin Early
    BY <1>2 DEF Early, Asked
  <2>4. QED
    BY <1>2, <1>3, <2>1, <2>2, <2>3
<1>5. ConnTypes'
  <2>1. outq' \in Seq(ReqId \cup {Close}) /\ inq' \in Seq(Message)
    BY <1>1, CallRests
  <2>2. QED
    BY <1>1, <1>2, <1>4, <2>1 DEF ConnTypes, CallQueues
<1>6. \A u \in Caller : /\ pc'[u] = "idle" => pc[u] = "idle"
                        /\ pc'[u] \in Early \cup Asked => pc[u] \in Early \cup Asked
                        /\ pc'[u] = "done" <=> pc[u] = "done"
                        /\ pc'[u] \in Early => pc[u] \in Early
  <2> SUFFICES ASSUME NEW u \in Caller
               PROVE  /\ pc'[u] = "idle" => pc[u] = "idle"
                      /\ pc'[u] \in Early \cup Asked => pc[u] \in Early \cup Asked
                      /\ pc'[u] = "done" <=> pc[u] = "done"
                      /\ pc'[u] \in Early => pc[u] \in Early
    OBVIOUS
  <2>1. CASE u = t
    <3>1. pc[t] \in Early \cup Asked /\ where \in Early \cup Asked
      BY <1>2, <2>1
    <3>2. "done" \notin Early \cup Asked /\ "idle" \notin Early \cup Asked
      BY DEF Early, Asked
    <3>3. QED
      BY <1>3, <2>1, <3>1, <3>2
  <2>2. CASE u # t
    BY <1>3, <2>2 DEF Thread
  <2>3. QED
    BY <2>1, <2>2
<1>7. CallsPlaced'
  BY <1>1, <1>2, <1>6, CallsStay
<1>8. ASSUME ~peer'.bad PROVE InStep'
  <2>1. InStep
    BY <1>1, <1>8 DEF CallQueues
  <2>2. ASSUME NEW i \in ReqId, NEW l \in Places, Trip(i, l) PROVE Fits(i, l)
    <3>1. l # "nowhere" => slots'[i] \in {"waiting", "abandoned"}
      BY <2>2 DEF Trip
    <3>2. QED
      BY <1>1, <1>2, <1>6, <2>2, <3>1, FitsStill
  <2>3. \A u \in Thread : res'[u] # "desync"
    BY <2>1 DEF InStep
  <2>4. QED
    BY <1>1, <2>1, <2>2, <2>3, CallRests, AllRest
<1>9. QED
  BY <1>5, <1>7, <1>8 DEF ConnInv

\* A thread gives up: an answer of its request will still be known.
LEMMA LeavesOff ==
    ASSUME Few, ConnInv, NEW t \in Thread, pc[t] \in Early \cup Asked,
           NEW why \in Outcomes, FinishRetired(t, why), CallQueues,
           term' \in Reasons, cterm' \in Reasons, ~peer.bad => why # "desync"
    PROVE  ConnInv'
<1>1. ConnTypes /\ CallsPlaced /\ (~peer.bad => InStep)
  BY DEF ConnInv
<1>2. /\ CallsPlaced' /\ DOMAIN slots' = DOMAIN slots
      /\ slots' \in [DOMAIN slots -> SlotState] /\ retired' \in Seq(ReqId)
      /\ \A k \in DOMAIN slots : slots'[k] = slots[k] \/ slots'[k] = "abandoned"
      /\ req' = req /\ pc' = [pc EXCEPT ![t] = "done"]
      /\ res' = [res EXCEPT ![t] = why]
  BY <1>1, GivesUp
<1>3. /\ pc' \in [Thread -> {"idle", "done"} \cup Early \cup Asked]
      /\ pc'[Consumer] \in {"idle", "done"} \cup Asked
      /\ pc'[t] = "done" /\ \A u \in Thread : u # t => pc'[u] = pc[u]
      /\ res' \in [Thread -> Outcomes]
      /\ res'[t] = why /\ \A u \in Thread : u # t => res'[u] = res[u]
  BY <1>1, <1>2 DEF ConnTypes
<1>4. ConnTypes'
  <2>1. outq' \in Seq(ReqId \cup {Close}) /\ inq' \in Seq(Message)
    BY <1>1, CallRests
  <2>2. QED
    BY <1>1, <1>2, <1>3, <2>1 DEF ConnTypes, CallQueues
<1>5. ASSUME ~peer'.bad PROVE InStep'
  <2>1. InStep /\ why # "desync"
    BY <1>1, <1>5 DEF CallQueues
  <2>2. ASSUME NEW i \in ReqId, NEW l \in Places, Trip(i, l) PROVE Fits(i, l)
    <3>1. l # "nowhere" => slots'[i] \in {"waiting", "abandoned"}
      BY <1>2, <2>2 DEF Trip
    <3>2. ASSUME NEW u \in Caller, pc'[u] \in Early
          PROVE  pc[u] \in Early /\ slots'[req[u]] = slots[req[u]]
      <4>1. u # t /\ u \in Thread
        BY <1>3, <3>2 DEF Early, Thread
      <4>2. pc[u] \in Early
        BY <1>3, <3>2, <4>1
      <4>3. req[u] \in DOMAIN slots
        BY <1>1, <4>2 DEF CallsPlaced
      <4>4. slots'[req[u]] \in {"waiting", "answered"}
        BY <1>2, <3>2 DEF CallsPlaced
      <4>5. QED
        BY <1>2, <4>2, <4>3, <4>4
    <3>3. \A u \in Caller : /\ req'[u] = req[u]
                            /\ pc'[u] \in Early =>
                                 pc[u] \in Early /\ slots'[req[u]] = slots[req[u]]
      BY <1>2, <3>2
    <3>4. QED
      BY <1>1, <1>2, <2>2, <3>1, <3>3, FitsStill
  <2>3. \A u \in Thread : res'[u] # "desync"
    BY <1>3, <2>1 DEF InStep
  <2>4. QED
    BY <1>1, <2>1, <2>2, <2>3, CallRests, AllRest
<1>6. QED
  BY <1>2, <1>4, <1>5 DEF ConnInv

\* A call finds the connection over, or opens a request under a new id.
LEMMA RequestKept == ASSUME Few, ConnInv, NEW t \in Thread, request(t) PROVE ConnInv'
<1> DEFINE i == Cardinality(Issuers) + 1
<1>1. ConnTypes /\ CallsPlaced /\ (~peer.bad => InStep)
  BY DEF ConnInv
<1>2. /\ t \in Caller /\ t \in Thread /\ pc[t] = "idle" /\ req[t] = 0 /\ CallQueues
      /\ retired' = retired /\ term' = term /\ cterm' = cterm
  BY <1>1 DEF request, CallQueues, peerVars, pipeVars, endVars, CallsPlaced
<1>3. /\ pc \in [Thread -> {"idle", "done"} \cup Early \cup Asked]
      /\ req \in [Thread -> ReqId \cup {0}] /\ res \in [Thread -> Outcomes]
      /\ slots \in [DOMAIN slots -> SlotState] /\ DOMAIN slots \subseteq ReqId
      /\ pc[Consumer] \in {"idle", "done"} \cup Asked /\ t # Consumer
  BY <1>1, <1>2, PeerConstants DEF ConnTypes
<1>4. outq' \in Seq(ReqId \cup {Close}) /\ inq' \in Seq(Message)
  BY <1>1, <1>2, CallRests
<1>5. CASE cterm # "open"
  <2>1. /\ pc' = [pc EXCEPT ![t] = "done"] /\ res' = [res EXCEPT ![t] = Refined(cterm, FALSE)]
        /\ slots' = slots /\ req' = req
    BY <1>5 DEF request
  <2>2. Refined(cterm, FALSE) \in Outcomes /\ Refined(cterm, FALSE) # "desync"
    <3>1. cterm \in Reasons
      BY <1>1 DEF ConnTypes
    <3>2. QED
      BY <1>1, <3>1, ReasonsGiven
  <2>3. /\ pc' \in [Thread -> {"idle", "done"} \cup Early \cup Asked]
        /\ pc'[Consumer] = pc[Consumer]
        /\ pc'[t] = "done" /\ \A u \in Thread : u # t => pc'[u] = pc[u]
        /\ res' \in [Thread -> Outcomes]
        /\ \A u \in Thread : res'[u] = res[u] \/ res'[u] # "desync"
    BY <1>2, <1>3, <2>1, <2>2 DEF Thread
  <2>4. ConnTypes'
    BY <1>1, <1>2, <1>3, <1>4, <2>1, <2>3 DEF ConnTypes, CallQueues
  <2>5. CallsPlaced'
    <3>1. Issuers' = Issuers
      BY <2>1 DEF Issuers
    <3>2. CallsFinished' = CallsFinished \cup {t} /\ t \notin CallsFinished /\ CallsFinished \subseteq Caller
      BY <1>2, <2>3 DEF CallsFinished, Thread
    <3>3. Cardinality(CallsFinished') = Cardinality(CallsFinished) + 1 /\ Cardinality(CallsFinished) \in Nat
      BY <1>2, <3>2, OneMore
    <3>4. Len(retired') <= Cardinality(CallsFinished')
      <4>1. Len(retired) \in Nat /\ Len(retired) <= Cardinality(CallsFinished)
        BY <1>1 DEF ConnTypes, CallsPlaced
      <4>2. QED
        BY <1>2, <3>3, <4>1
    <3>5. "done" \notin Early \cup Asked
      BY DEF Early, Asked
    <3>6. \A u \in Caller : /\ pc'[u] = "idle" => pc[u] = "idle"
                            /\ pc'[u] \in Early \cup Asked => pc[u] \in Early \cup Asked
      BY <2>3, <3>5 DEF Thread
    <3>7. QED
      BY <1>1, <2>1, <3>1, <3>4, <3>6 DEF CallsPlaced
  <2>6. ASSUME ~peer'.bad PROVE InStep'
    <3>1. InStep
      BY <1>1, <1>2, <2>6 DEF CallQueues
    <3>2. \A u \in Caller : pc'[u] \in Early => pc[u] \in Early
      BY <2>3 DEF Early, Thread
    <3>3. ASSUME NEW n \in ReqId, NEW l \in Places, Trip(n, l) PROVE Fits(n, l)
      <4>1. l # "nowhere" => slots'[n] \in {"waiting", "abandoned"}
        BY <2>1, <3>3 DEF Trip
      <4>2. QED
        BY <1>1, <2>1, <3>2, <3>3, <4>1, FitsStill
    <3>4. \A u \in Thread : res'[u] # "desync"
      BY <2>3, <3>1 DEF InStep
    <3>5. QED
      BY <1>1, <1>2, <3>1, <3>3, <3>4, CallRests, AllRest
  <2>7. QED
    BY <2>4, <2>5, <2>6 DEF ConnInv
<1>6. CASE cterm = "open"
  <2>1. /\ slots' = [k \in DOMAIN slots \cup {i} |-> IF k = i THEN "waiting" ELSE slots[k]]
        /\ req' = [req EXCEPT ![t] = i] /\ pc' = [pc EXCEPT ![t] = "send"] /\ res' = res
    BY <1>6 DEF request, Issuers
  <2>2. t \notin Issuers /\ Issuers \subseteq Caller
    BY <1>2 DEF Issuers
  <2>3. /\ Cardinality(Issuers) \in Nat /\ i <= Cardinality(Caller) /\ Cardinality(Caller) \in Nat
        /\ Cardinality(Issuers \cup {t}) = i
    BY <1>2, <2>2, OneMore
  <2>4. i \in ReqId /\ i # 0
    BY <2>3 DEF ReqId
  <2>5. i \notin DOMAIN slots /\ \A u \in Caller : req[u] # i
    <3>1. ASSUME NEW u \in Caller PROVE req[u] # i
      <4>1. req[u] \in Int /\ req[u] <= Cardinality(Issuers)
        BY <1>1, <1>3 DEF CallsPlaced, ReqId, Thread
      <4>2. QED
        BY <2>3, <4>1
    <3>2. i \notin 1 .. Cardinality(Issuers)
      BY <2>3
    <3>3. QED
      BY <1>1, <3>1, <3>2 DEF CallsPlaced
  <2> HIDE DEF i
  <2>6. /\ DOMAIN slots' = DOMAIN slots \cup {i} /\ slots'[i] = "waiting"
        /\ \A k \in DOMAIN slots : slots'[k] = slots[k]
        /\ slots' \in [DOMAIN slots' -> SlotState]
    BY <1>3, <2>1, <2>5 DEF SlotState
  <2>7. /\ pc' \in [Thread -> {"idle", "done"} \cup Early \cup Asked]
        /\ pc'[Consumer] = pc[Consumer] /\ pc'[t] = "send" /\ req'[t] = i
        /\ \A u \in Thread : u # t => pc'[u] = pc[u] /\ req'[u] = req[u]
        /\ req' \in [Thread -> ReqId \cup {0}]
    <3>1. "send" \in {"idle", "done"} \cup Early \cup Asked /\ Consumer \in Thread
      BY DEF Early, Thread
    <3>2. QED
      BY <1>2, <1>3, <2>1, <2>4, <3>1
  <2>8. ConnTypes'
    BY <1>1, <1>2, <1>3, <1>4, <2>1, <2>4, <2>6, <2>7 DEF ConnTypes, CallQueues
  <2>9. Issuers' = Issuers \cup {t} /\ CallsFinished' = CallsFinished
    <3>1. Issuers' = Issuers \cup {t}
      BY <1>2, <2>4, <2>7 DEF Issuers, Thread
    <3>2. CallsFinished' = CallsFinished
      BY <1>2, <2>7 DEF CallsFinished, Thread
    <3>3. QED
      BY <3>1, <3>2
  <2>10. Cardinality(Issuers') = i /\ i = Cardinality(Issuers) + 1
    BY <2>3, <2>9 DEF i
  <2>11. CallsPlaced'
    <3>1. \A u \in Caller : pc'[u] = "idle" => req'[u] = 0
      BY <1>1, <2>7 DEF CallsPlaced, Thread
    <3>2. \A u \in Caller : pc'[u] \in Early \cup Asked =>
            req'[u] \in DOMAIN slots' /\ slots'[req'[u]] \in {"waiting", "answered"}
      BY <1>1, <2>6, <2>7 DEF CallsPlaced, Thread
    <3>3. \A u, v \in Caller : req'[u] = req'[v] /\ req'[u] # 0 => u = v
      BY <1>1, <2>5, <2>7 DEF CallsPlaced, Thread
    <3>4. \A u \in Caller : req'[u] <= Cardinality(Issuers')
      <4> SUFFICES ASSUME NEW u \in Caller PROVE req'[u] <= Cardinality(Issuers')
        OBVIOUS
      <4>1. CASE u = t
        BY <2>3, <2>7, <2>10, <4>1
      <4>2. CASE u # t
        <5>1. /\ req'[u] = req[u] /\ req[u] <= Cardinality(Issuers)
              /\ req[u] \in ReqId \cup {0}
          BY <1>1, <1>3, <2>7, <4>2 DEF CallsPlaced, Thread
        <5>2. QED
          BY <2>3, <2>10, <5>1 DEF ReqId
      <4>3. QED
        BY <4>1, <4>2
    <3>5. DOMAIN slots' \subseteq 1 .. Cardinality(Issuers')
      <4>1. DOMAIN slots \subseteq 1 .. Cardinality(Issuers)
        BY <1>1 DEF CallsPlaced
      <4>2. QED
        BY <2>3, <2>6, <2>10, <4>1
    <3>6. Len(retired') <= Cardinality(CallsFinished')
      BY <1>1, <1>2, <2>9 DEF CallsPlaced
    <3>7. QED
      BY <3>1, <3>2, <3>3, <3>4, <3>5, <3>6 DEF CallsPlaced
  <2>12. ASSUME ~peer'.bad PROVE InStep'
    <3>1. InStep
      BY <1>1, <1>2, <2>12 DEF CallQueues
    <3>2. ASSUME NEW n \in ReqId, NEW l \in Places, Trip(n, l) PROVE Fits(n, l)
      <4>1. l # "nowhere" => n \in DOMAIN slots' /\ slots'[n] \in {"waiting", "abandoned"}
        BY <2>6, <3>2 DEF Trip
      <4>2. ASSUME NEW u \in Caller, req'[u] = n, pc'[u] \in Early
            PROVE  l = "nowhere" /\ slots'[n] = "waiting"
        <5>1. CASE u = t
          <6>1. n = i
            BY <2>7, <4>2, <5>1
          <6>2. QED
            BY <2>5, <2>6, <3>2, <6>1 DEF Trip
        <5>2. CASE u # t
          <6>1. pc[u] \in Early /\ req[u] = n
            BY <2>7, <4>2, <5>2 DEF Thread
          <6>2. n \in DOMAIN slots
            BY <1>1, <6>1 DEF CallsPlaced
          <6>3. l = "nowhere" /\ slots[n] = "waiting"
            BY <3>2, <6>1 DEF Trip
          <6>4. QED
            BY <2>6, <6>2, <6>3
        <5>3. QED
          BY <5>1, <5>2
      <4>3. QED
        BY <4>1, <4>2 DEF Fits
    <3>3. \A u \in Thread : res'[u] # "desync"
      BY <2>1, <3>1 DEF InStep
    <3>4. QED
      BY <1>1, <1>2, <3>1, <3>2, <3>3, CallRests, AllRest
  <2>13. QED
    BY <2>8, <2>11, <2>12 DEF ConnInv
<1>7. QED
  BY <1>5, <1>6

\* A call that ends here or goes on to the next step, and closes at most the
\* child's input on its way.
Reports(t) == \E why \in Outcomes : why # "desync" /\ FinishRetired(t, why)
Advances(t, where) == GoTo(t, where) /\ UNCHANGED <<slots, retired>>

LEMMA EasySteps ==
    ASSUME Few, ConnInv, NEW t \in Thread, pc[t] \in Early \cup Asked, CallQueues,
           term' \in Reasons, cterm' \in Reasons,
           \/ Reports(t)
           \/ \E where \in Asked : Advances(t, where)
           \/ pc[t] \in Early /\ \E where \in Early : Advances(t, where)
    PROVE  ConnInv'
<1>1. pc[t] # "done" /\ pc[t] # "idle"
  BY DEF Early, Asked
<1>2. CASE Reports(t)
  BY <1>2, LeavesOff DEF Reports
<1>3. ASSUME NEW where \in Asked, Advances(t, where) PROVE ConnInv'
  <2>1. where \notin Early /\ where # "idle"
    BY <1>3 DEF Early, Asked
  <2>2. GoTo(t, where) /\ slots' = slots /\ retired' = retired /\ res' = res
    BY <1>3 DEF Advances, GoTo
  <2>3. QED
    BY <1>1, <1>3, <2>1, <2>2, MovesOn
<1>4. ASSUME NEW where \in Early, pc[t] \in Early, Advances(t, where) PROVE ConnInv'
  <2>1. where # "idle"
    BY <1>4 DEF Early
  <2>2. GoTo(t, where) /\ slots' = slots /\ retired' = retired /\ res' = res
    BY <1>4 DEF Advances, GoTo
  <2>3. QED
    BY <1>1, <1>4, <2>1, <2>2, MovesOn
<1>5. QED
  BY <1>2, <1>3, <1>4

\* Closing the child's input puts at most the closing command in the queue.
LEMMA CloseIs == ASSUME close_stdin PROVE outq' = outq \/ outq' = Append(outq, Close)
BY DEF close_stdin
LEMMA CheckIs ==
    ASSUME CheckEffect
    PROVE  term' = Ended /\ (outq' = outq \/ outq' = Append(outq, Close))
BY CloseIs DEF CheckEffect

\* A request is offered to the transport.
LEMMA SendKept ==
    ASSUME Few, ConnInv, NEW t \in Thread, try_send(t) \/ CountOut(t) PROVE ConnInv'
<1>1. ConnTypes /\ term \in Reasons /\ cterm \in Reasons
  BY DEF ConnInv, ConnTypes
<1>2. /\ pc[t] \in Early /\ peer' = peer /\ inPipe' = inPipe /\ outPipe' = outPipe
      /\ writer' = writer /\ inq' = inq
  BY DEF try_send, CountOut, Early, peerVars
<1>3. "write" \in Reasons /\ "send-pump" \in Early /\ "cloned" \in Early /\ "handover" \in Early
  BY DEF Reasons, Early
<1>4. CASE CheckEffect /\ FinishRetired(t, Ended) /\ cterm' = Remembered(Ended)
  <2>1. Ended \in Reasons
    BY <1>1, <1>3, ReasonsGiven
  <2>2. Remembered(Ended) \in Reasons /\ Ended \in Outcomes /\ Ended # "desync"
    BY <1>1, <2>1, ReasonsGiven
  <2>3. Reports(t)
    BY <1>4, <2>2 DEF Reports
  <2>4. CallQueues /\ term' = Ended
    BY <1>2, <1>4, CheckIs DEF CallQueues
  <2>5. QED
    BY <1>2, <1>4, <2>1, <2>2, <2>3, <2>4, EasySteps
<1>5. CASE FinishRetired(t, "write") /\ cterm' = Remembered("write") /\ term' = term /\ outq' = outq
  <2>1. Remembered("write") \in Reasons /\ "write" \in Outcomes /\ "write" # "desync"
    BY <1>1, <1>3, ReasonsGiven
  <2>2. Reports(t)
    BY <1>5, <2>1 DEF Reports
  <2>3. QED
    BY <1>1, <1>2, <1>5, <2>1, <2>2, EasySteps DEF CallQueues
<1>6. CASE /\ outq' = outq /\ term' = term /\ cterm' = cterm
           /\ \E where \in Early : Advances(t, where)
  BY <1>1, <1>2, <1>6, EasySteps DEF CallQueues
<1>7. CASE CountOut(t)
  BY <1>3, <1>6, <1>7 DEF CountOut, Advances, tableVars, endVars
<1>8. CASE try_send(t)
  <2>1. \/ CheckEffect /\ FinishRetired(t, Ended) /\ cterm' = Remembered(Ended)
        \/ GoTo(t, "send-pump") /\ UNCHANGED <<depth, term, outOpen, outq, tableVars>>
        \/ FinishRetired(t, "write") /\ cterm' = Remembered("write")
           /\ UNCHANGED <<depth, term, outOpen, outq>>
        \/ GoTo(t, "cloned") /\ UNCHANGED <<depth, term, outOpen, outq, tableVars>>
    BY <1>8 DEF try_send
  <2>2. QED
    BY <1>3, <1>4, <1>5, <1>6, <2>1 DEF Advances, tableVars
<1>9. QED
  BY <1>7, <1>8

\* A request joins the queue, is handed back, or finds the writer gone.
LEMMA HandoverKept == ASSUME Few, ConnInv, NEW t \in Thread, Handover(t) PROVE ConnInv'
<1>1. ConnTypes /\ CallsPlaced /\ term \in Reasons /\ cterm \in Reasons
      /\ outq \in Seq(ReqId \cup {Close})
  BY DEF ConnInv, ConnTypes
<1>2. /\ pc[t] \in Early /\ pc[t] = "handover" /\ peer' = peer /\ inPipe' = inPipe
      /\ outPipe' = outPipe /\ writer' = writer /\ inq' = inq /\ term' = term
  BY DEF Handover, Early, peerVars, endVars
<1>3. CASE /\ FinishRetired(t, Recorded("write")) /\ cterm' = Remembered(Recorded("write"))
           /\ outq' = outq
  <2>1. "write" \in Reasons
    BY DEF Reasons
  <2>2. Recorded("write") \in Reasons
    BY <1>1, <2>1, ReasonsGiven
  <2>3. /\ Remembered(Recorded("write")) \in Reasons
        /\ Recorded("write") \in Outcomes /\ Recorded("write") # "desync"
    BY <1>1, <2>2, ReasonsGiven
  <2>4. Reports(t)
    BY <1>3, <2>3 DEF Reports
  <2>5. QED
    BY <1>1, <1>2, <1>3, <2>3, <2>4, EasySteps DEF CallQueues
<1>4. CASE GoTo(t, "send-pump") /\ outq' = outq /\ UNCHANGED tableVars
  <2>1. "send-pump" \in Early /\ Advances(t, "send-pump") /\ cterm' = cterm
    BY <1>4 DEF Advances, tableVars, Early
  <2>2. QED
    BY <1>1, <1>2, <1>4, <2>1, EasySteps DEF CallQueues
<1>5. CASE outq' = Append(outq, req[t]) /\ GoTo(t, "check") /\ UNCHANGED tableVars
  <2>1. t \in Caller
    BY <1>1, <1>2 DEF ConnTypes, Thread, Early, Asked
  <2>0. PICK m \in ReqId : m = req[t]
    BY <1>1, <1>2, <2>1 DEF CallsPlaced, ConnTypes
  <2>2. m \in ReqId /\ m \in DOMAIN slots /\ req[t] = m
    BY <1>1, <1>2, <2>0, <2>1 DEF CallsPlaced
  <2>3. /\ outq' = Append(outq, m) /\ slots' = slots /\ retired' = retired /\ cterm' = cterm
        /\ req' = req /\ res' = res /\ pc' = [pc EXCEPT ![t] = "check"]
    BY <1>5, <2>2 DEF GoTo, tableVars
  <2>4. outq' \in Seq(ReqId \cup {Close})
    BY <1>1, <2>2, <2>3
  <2>5. /\ pc' \in [Thread -> {"idle", "done"} \cup Early \cup Asked]
        /\ pc'[Consumer] = pc[Consumer] /\ pc'[t] = "check"
        /\ \A u \in Thread : u # t => pc'[u] = pc[u]
    <3>1. "check" \in {"idle", "done"} \cup Early \cup Asked /\ t # Consumer
          /\ Consumer \in Thread
      BY <2>1, PeerConstants DEF Asked, Thread
    <3>2. QED
      BY <1>1, <2>3, <3>1 DEF ConnTypes
  <2>6. ConnTypes'
    BY <1>1, <1>2, <2>3, <2>4, <2>5 DEF ConnTypes
  <2>7. \A u \in Caller : /\ pc'[u] = "idle" => pc[u] = "idle"
                          /\ pc'[u] \in Early \cup Asked => pc[u] \in Early \cup Asked
                          /\ pc'[u] = "done" <=> pc[u] = "done"
                          /\ pc'[u] \in Early => pc[u] \in Early /\ u # t
    BY <1>2, <2>5 DEF Early, Asked, Thread
  <2>8. CallsPlaced'
    BY <1>1, <2>3, <2>7, CallsStay
  <2>9. ASSUME ~peer'.bad PROVE InStep'
    <3>1. InStep
      BY <1>2, <2>9 DEF ConnInv
    <3>2. /\ \A x : x # m => Calm(outq, outq', x)
          /\ Once(outq, m) /\ ~In(outq, m) => Once(outq', m)
      <4>1. \A x : m # x => Calm(outq, Append(outq, m), x)
        BY <1>1, <2>2, CalmQueues
      <4>2. Once(outq, m) /\ ~In(outq, m) => Once(Append(outq, m), m)
        BY <1>1, <2>2, AppendIn
      <4>3. QED
        BY <2>3, <4>1, <4>2
    <3>3. \A x : Calm(inPipe, inPipe', x) /\ Calm(outPipe, outPipe', x) /\ Calm(inq, inq', x)
      BY <1>2 DEF Calm
    <3>4. \A n \in ReqId \ {m} : Rests(n)
      BY <1>2, <3>2, <3>3 DEF Rests
    <3>5. ASSUME NEW n \in ReqId \ {m}, NEW l \in Places, Trip(n, l) PROVE Fits(n, l)
      <4>1. l # "nowhere" => slots'[n] \in {"waiting", "abandoned"}
        BY <2>3, <3>5 DEF Trip
      <4>2. QED
        BY <1>1, <2>3, <2>7, <3>5, <4>1, FitsStill
    <3>6. PICK l \in Places : Trip(m, l)
      BY <2>2, <3>1 DEF InStep
    <3>7. l = "nowhere" /\ slots[m] = "waiting"
      BY <1>2, <2>1, <2>2, <3>6 DEF Trip
    <3>8. /\ ~In(outq, m) /\ writer # Holding(m) /\ ~In(inPipe, m) /\ m \notin peer.owes
          /\ ~In(outPipe, Answer(m)) /\ ~In(inq, Answer(m))
          /\ Once(outq, m) /\ Once(inPipe, m) /\ Once(outPipe, Answer(m)) /\ Once(inq, Answer(m))
      BY <3>6, <3>7 DEF Trip
    <3>9. \A u \in Caller : ~(req'[u] = m /\ pc'[u] \in Early)
      <4>1. m # 0
        BY <2>2 DEF ReqId
      <4>2. \A u \in Caller : req[u] = m => u = t
        BY <1>1, <2>1, <2>2, <4>1 DEF CallsPlaced
      <4>3. QED
        BY <2>3, <2>7, <4>2
    <3>10. \E p \in Places : Trip(m, p)'
      <4>1. Trip(m, "outq")'
        <5>1. Once(outq', m) /\ slots'[m] = "waiting" /\ m \in DOMAIN slots'
          BY <2>2, <2>3, <3>2, <3>7, <3>8
        <5>2. QED
          BY <1>2, <3>8, <3>9, <5>1 DEF Trip
      <4>2. QED
        BY <4>1 DEF Places
    <3>11. \A u \in Thread : res'[u] # "desync"
      BY <2>3, <3>1 DEF InStep
    <3>12. QED
      BY <2>2, <3>1, <3>3, <3>4, <3>5, <3>10, <3>11, OneMoves
  <2>10. QED
    BY <2>6, <2>8, <2>9 DEF ConnInv
<1>6. QED
  BY <1>3, <1>4, <1>5 DEF Handover

\* A caller takes its answer.
LEMMA AnswerKept == ASSUME Few, ConnInv, NEW t \in Thread, CheckAnswer(t) PROVE ConnInv'
<1>1. ConnTypes /\ CallsPlaced
  BY DEF ConnInv
<1>2. /\ t \in Caller /\ pc[t] \in Early \cup Asked /\ pc[t] \in Asked
      /\ slots[req[t]] = "answered" /\ retire(req[t], TRUE) /\ Finish(t, "answer")
      /\ CallQueues /\ term' = term /\ cterm' = cterm
  BY DEF CheckAnswer, Asked, CallQueues, peerVars, pipeVars, endVars
<1>3. /\ DOMAIN slots' = DOMAIN slots /\ slots' \in [DOMAIN slots -> SlotState]
      /\ \A k \in DOMAIN slots : k # req[t] => slots'[k] = slots[k]
      /\ retired' \in Seq(ReqId)
  BY <1>1, <1>2, RetireIs
<1>4. CallsPlaced'
  BY <1>1, <1>2, CallsFinish
<1>5. /\ req' = req /\ pc' = [pc EXCEPT ![t] = "done"] /\ res' = [res EXCEPT ![t] = "answer"]
  BY <1>2 DEF Finish
<1>6. /\ pc' \in [Thread -> {"idle", "done"} \cup Early \cup Asked]
      /\ pc'[Consumer] \in {"idle", "done"} \cup Asked
      /\ pc'[t] = "done" /\ \A u \in Thread : u # t => pc'[u] = pc[u]
      /\ res' \in [Thread -> Outcomes] /\ \A u \in Thread : res'[u] = res[u] \/ res'[u] = "answer"
  <2>1. "answer" \in Outcomes
    BY DEF Outcomes
  <2>2. QED
    BY <1>1, <1>5, <2>1 DEF ConnTypes
<1>7. ConnTypes'
  <2>1. outq' \in Seq(ReqId \cup {Close}) /\ inq' \in Seq(Message)
    BY <1>1, <1>2, CallRests
  <2>2. QED
    BY <1>1, <1>2, <1>3, <1>5, <1>6, <2>1 DEF ConnTypes, CallQueues
<1>8. ASSUME ~peer'.bad PROVE InStep'
  <2>1. InStep
    BY <1>2, <1>8 DEF CallQueues, ConnInv
  <2>2. ASSUME NEW i \in ReqId, NEW l \in Places, Trip(i, l) PROVE Fits(i, l)
    <3>1. l # "nowhere" => slots'[i] \in {"waiting", "abandoned"}
      <4>1. l # "nowhere" => i \in DOMAIN slots /\ slots[i] \in {"waiting", "abandoned"}
        BY <2>2 DEF Trip
      <4>2. QED
        BY <1>2, <1>3, <4>1
    <3>2. ASSUME NEW u \in Caller, pc'[u] \in Early
          PROVE  pc[u] \in Early /\ slots'[req[u]] = slots[req[u]]
      <4>1. u # t /\ u \in Thread
        BY <1>6, <3>2 DEF Early, Thread
      <4>2. pc[u] \in Early
        BY <1>6, <3>2, <4>1
      <4>3. req[u] \in DOMAIN slots /\ req[u] # 0
        BY <1>1, <4>2 DEF CallsPlaced, ConnTypes, ReqId
      <4>4. req[u] # req[t]
        BY <1>1, <1>2, <4>1, <4>3 DEF CallsPlaced
      <4>5. QED
        BY <1>3, <4>2, <4>3, <4>4
    <3>3. QED
      BY <1>1, <1>3, <1>5, <2>2, <3>1, <3>2, FitsStill
  <2>3. \A u \in Thread : res'[u] # "desync"
    BY <1>6, <2>1 DEF InStep
  <2>4. QED
    BY <1>1, <1>2, <2>1, <2>2, <2>3, CallRests, AllRest
<1>9. QED
  BY <1>4, <1>7, <1>8 DEF ConnInv

\* The consumer asks for a message, or has one.
LEMMA MessageKept == ASSUME ConnInv, next_peer_message \/ CheckMessage PROVE ConnInv'
<1>1. term \in Reasons /\ cterm \in Reasons
  BY DEF ConnInv, ConnTypes
<1>2. /\ Consumer \in Thread /\ Consumer \notin Caller /\ pc[Consumer] # "done"
      /\ CallQueues /\ term' = term /\ cterm' = cterm
      /\ slots' = slots /\ retired' = retired /\ res' = res
  BY PeerConstants
  DEF Thread, next_peer_message, CheckMessage, CallQueues, peerVars, pipeVars, endVars,
      tableVars, GoTo
<1>3. GoTo(Consumer, "check") \/ GoTo(Consumer, "idle")
  BY DEF next_peer_message, CheckMessage
<1>4. \A where \in {"idle", "check"} : where \in {"idle"} \cup Early \cup Asked
                                       /\ where \notin Early
  BY DEF Early, Asked
<1>5. QED
  BY <1>1, <1>2, <1>3, <1>4, MovesOn

\* The top of a caller's loop, and of the wait for room.
LEMMA WaitsKept ==
    ASSUME Few, ConnInv, NEW t \in Thread, CheckElse(t) \/ SendWaits(t) \/ PumpOffer(t)
    PROVE  ConnInv'
<1>1. ConnTypes /\ term \in Reasons /\ cterm \in Reasons
  BY DEF ConnInv, ConnTypes
<1>2. /\ pc[t] \in Early \cup Asked
      /\ SendWaits(t) => pc[t] \in Early
      /\ peer' = peer /\ inPipe' = inPipe /\ outPipe' = outPipe /\ writer' = writer
      /\ inq' = inq
  BY DEF CheckElse, SendWaits, PumpOffer, Early, Asked, peerVars, pipeVars
<1>3. /\ {"cancelled", "quarantined"} \subseteq Reasons /\ {"pump", "lead", "check"} \subseteq Asked
      /\ {"send-lead", "send"} \subseteq Early
  BY DEF Reasons, Early, Asked
<1>4. CASE FinishRetired(t, "cancelled") /\ give_up("cancelled")
  <2>1. /\ Recorded("quarantined") \in Reasons /\ Remembered("cancelled") \in Reasons
        /\ "cancelled" \in Outcomes /\ "cancelled" # "desync"
    BY <1>1, <1>3, ReasonsGiven
  <2>2. CallQueues /\ term' = Recorded("quarantined") /\ cterm' = Remembered("cancelled")
    BY <1>2, <1>4, CloseIs DEF CallQueues, give_up
  <2>3. Reports(t)
    BY <1>4, <2>1 DEF Reports
  <2>4. QED
    BY <1>2, <2>1, <2>2, <2>3, EasySteps
<1>5. ASSUME NEW why \in Outcomes, why # "desync", FinishRetired(t, why),
             UNCHANGED <<term, outq, cterm>>
      PROVE  ConnInv'
  <2>1. Reports(t) /\ CallQueues /\ term' = term /\ cterm' = cterm
    BY <1>2, <1>5 DEF Reports, CallQueues
  <2>2. QED
    BY <1>1, <1>2, <2>1, EasySteps
<1>6. ASSUME NEW where, where \in Asked \/ (where \in Early /\ pc[t] \in Early),
             GoTo(t, where), UNCHANGED <<term, outq, tableVars>>
      PROVE  ConnInv'
  <2>1. Advances(t, where) /\ CallQueues /\ term' = term /\ cterm' = cterm
    BY <1>2, <1>6 DEF Advances, CallQueues, tableVars
  <2>2. QED
    BY <1>1, <1>2, <1>6, <2>1, EasySteps
<1>7. /\ \A had : Refined(cterm, had) \in Outcomes /\ Refined(cterm, had) # "desync"
      /\ "timeout" \in Outcomes /\ "sendtimeout" \in Outcomes
  BY <1>1, ReasonsGiven
<1>8. CASE CheckElse(t)
  <2>1. \/ FinishRetired(t, Refined(cterm, t \in Caller \/ Outstanding))
           /\ UNCHANGED <<term, outOpen, outq, cterm>>
        \/ FinishRetired(t, "cancelled") /\ give_up("cancelled")
        \/ FinishRetired(t, "timeout") /\ UNCHANGED <<term, outOpen, outq, cterm>>
        \/ GoTo(t, "pump") /\ UNCHANGED <<term, outOpen, outq, tableVars>>
    BY <1>8 DEF CheckElse
  <2>2. QED
    BY <1>3, <1>4, <1>5, <1>6, <1>7, <2>1
<1>9. CASE SendWaits(t)
  <2>1. \/ FinishRetired(t, "cancelled") /\ give_up("cancelled")
        \/ FinishRetired(t, "sendtimeout") /\ UNCHANGED <<term, outOpen, outq, cterm>>
        \/ \E where \in {"send-lead", "send"} :
             GoTo(t, where) /\ UNCHANGED <<term, outOpen, outq, tableVars>>
    BY <1>9 DEF SendWaits
  <2>2. QED
    BY <1>2, <1>3, <1>4, <1>5, <1>6, <1>7, <1>9, <2>1
<1>10. CASE PumpOffer(t)
  <2>1. \E where \in {"lead", "check"} : GoTo(t, where)
    BY <1>10 DEF PumpOffer
  <2>2. UNCHANGED <<term, outq, tableVars>>
    BY <1>10 DEF PumpOffer, pipeVars, endVars
  <2>3. QED
    BY <1>3, <1>6, <2>1, <2>2
<1>11. QED
  BY <1>8, <1>9, <1>10

\* A turn of the pump that routes an answer to a request, waiting or given up:
\* the request is back, and nothing of it is left on the way.
LEMMA RoutesKept ==
    ASSUME ConnInv, NEW t \in Thread, pc[t] \in {"lead", "send-lead"}, NEW b, b = Head(inq),
           inq # <<>>, inq' = Tail(inq), b.kind = "answer", b.id \in DOMAIN slots,
           NEW state \in {"answered", "spent"}, slots' = [slots EXCEPT ![b.id] = state],
           slots[b.id] = (IF state = "answered" THEN "waiting" ELSE "abandoned"),
           GoTo(t, Loop(t)), retired' = retired, cterm' = cterm, term' = term, outq' = outq,
           peer' = peer, inPipe' = inPipe, outPipe' = outPipe, writer' = writer
    PROVE  ConnInv'
<1>1. ConnTypes /\ CallsPlaced /\ (~peer.bad => InStep) /\ CallQueues
      /\ inq \in Seq(Message)
  BY DEF ConnInv, CallQueues, ConnTypes
<1>2. PICK m \in ReqId : b = Answer(m) /\ b.id = m
  <2>1. b \in Message
    BY <1>1, TailIn
  <2>2. QED
    BY <2>1, Apart DEF Message
<1>3. /\ m \in DOMAIN slots /\ slots' = [slots EXCEPT ![m] = state]
      /\ slots \in [DOMAIN slots -> SlotState] /\ state \in SlotState
      /\ slots[m] = (IF state = "answered" THEN "waiting" ELSE "abandoned")
  BY <1>1, <1>2 DEF ConnTypes, SlotState
<1>4. /\ DOMAIN slots' = DOMAIN slots /\ slots' \in [DOMAIN slots -> SlotState]
      /\ slots'[m] = state /\ \A k \in DOMAIN slots : k # m => slots'[k] = slots[k]
  BY <1>3
<1>5. /\ pc' = [pc EXCEPT ![t] = Loop(t)] /\ req' = req /\ res' = res
      /\ Loop(t) \in Early \cup Asked /\ pc[t] \in Early \cup Asked
      /\ Loop(t) \in Early => pc[t] \in Early
  BY DEF GoTo, Loop, Early, Asked
<1>6. /\ pc' \in [Thread -> {"idle", "done"} \cup Early \cup Asked]
      /\ pc'[Consumer] \in {"idle", "done"} \cup Asked
      /\ pc'[t] = Loop(t) /\ \A u \in Thread : u # t => pc'[u] = pc[u]
  <2>1. Consumer \in Thread /\ pc[Consumer] \in {"idle", "done"} \cup Asked
        /\ pc \in [Thread -> {"idle", "done"} \cup Early \cup Asked]
    BY <1>1 DEF ConnTypes, Thread
  <2>2. pc[Consumer] \notin Early
    BY <2>1 DEF Early, Asked
  <2>3. QED
    BY <1>5, <2>1, <2>2
<1>7. ConnTypes'
  <2>1. outq' \in Seq(ReqId \cup {Close}) /\ inq' \in Seq(Message)
    BY <1>1, CallRests
  <2>2. QED
    BY <1>1, <1>4, <1>5, <1>6, <2>1 DEF ConnTypes
<1>8. \A u \in Caller : /\ pc'[u] = "idle" => pc[u] = "idle"
                        /\ pc'[u] \in Early \cup Asked => pc[u] \in Early \cup Asked
                        /\ pc'[u] = "done" <=> pc[u] = "done"
                        /\ pc'[u] \in Early => pc[u] \in Early
  <2>1. "done" \notin Early \cup Asked /\ "idle" \notin Early \cup Asked
    BY DEF Early, Asked
  <2>2. \A u \in Caller : u \in Thread
    BY DEF Thread
  <2>3. QED
    BY <1>5, <1>6, <2>1, <2>2
<1>9. CallsPlaced'
  <2>1. ASSUME NEW k \in DOMAIN slots, slots[k] \in {"waiting", "answered"}
        PROVE  slots'[k] \in {"waiting", "answered"}
    <3>1. k = m => state = "answered"
      BY <1>3, <2>1
    <3>2. QED
      BY <1>4, <2>1, <3>1
  <2>2. QED
    BY <1>1, <1>4, <1>5, <1>8, <2>1, CallsStay
<1>10. ASSUME ~peer'.bad PROVE InStep'
  <2>1. InStep
    BY <1>1, <1>10
  <2>2. /\ \A i \in ReqId : Rests(i)
        /\ Calm(outPipe, outPipe', Junk) /\ Calm(inq, inq', Junk)
    BY <1>1, CallRests
  <2>3. PICK l \in Places : Trip(m, l)
    BY <2>1 DEF InStep
  <2>4. In(inq, Answer(m)) /\ (Once(inq, Answer(m)) => ~In(inq', Answer(m)))
    BY <1>1, <1>2, TailIn
  <2>5. l = "inq"
    BY <2>3, <2>4 DEF Trip
  <2>6. \A u \in Caller : ~(req[u] = m /\ pc[u] \in Early)
    BY <2>3, <2>5 DEF Trip
  <2>7. Trip(m, "nowhere")'
    <3>1. /\ ~In(outq, m) /\ writer # Holding(m) /\ ~In(inPipe, m) /\ m \notin peer.owes
          /\ ~In(outPipe, Answer(m)) /\ Once(inq, Answer(m))
          /\ Once(outq, m) /\ Once(inPipe, m) /\ Once(outPipe, Answer(m))
      BY <2>3, <2>5 DEF Trip
    <3>2. ~In(inq', Answer(m)) /\ Once(inq', Answer(m))
      BY <2>2, <2>4, <3>1 DEF Rests, Calm
    <3>3. \A u \in Caller : ~(req'[u] = m /\ pc'[u] \in Early)
      BY <1>5, <1>8, <2>6
    <3>4. QED
      BY <3>1, <3>2, <3>3 DEF Trip
  <2>8. \E p \in Places : Trip(m, p)'
    BY <2>7 DEF Places
  <2>9. ASSUME NEW n \in ReqId \ {m}, NEW p \in Places, Trip(n, p) PROVE Fits(n, p)
    <3>1. p # "nowhere" => slots'[n] \in {"waiting", "abandoned"}
      BY <1>4, <2>9 DEF Trip
    <3>2. ASSUME NEW u \in Caller, pc'[u] \in Early
          PROVE  pc[u] \in Early /\ slots'[req[u]] = slots[req[u]]
      <4>1. pc[u] \in Early /\ req[u] # m
        BY <1>8, <2>6, <3>2
      <4>2. req[u] \in DOMAIN slots
        BY <1>1, <4>1 DEF CallsPlaced
      <4>3. QED
        BY <1>4, <4>1, <4>2
    <3>3. QED
      BY <1>1, <1>4, <1>5, <2>9, <3>1, <3>2, FitsStill
  <2>10. \A u \in Thread : res'[u] # "desync"
    BY <1>5, <2>1 DEF InStep
  <2>11. QED
    BY <2>1, <2>2, <2>8, <2>9, <2>10, OneMoves
<1>11. QED
  BY <1>7, <1>9, <1>10 DEF ConnInv

\* While the peer keeps to the protocol, nothing in the inbound queue is out of
\* step: an answer there is to a request that waits or was given up.
LEMMA HeadExpected ==
    ASSUME ConnInv, ~peer.bad, inq # <<>>, NEW b, b = Head(inq)
    PROVE  /\ b.kind # "junk"
           /\ b.kind = "answer" => b.id \in DOMAIN slots /\ slots[b.id] \in {"waiting", "abandoned"}
<1>1. InStep /\ inq \in Seq(Message)
  BY DEF ConnInv, ConnTypes
<1>2. In(inq, b) /\ b \in Message
  BY <1>1, TailIn
<1>3. b # Junk
  BY <1>1, <1>2 DEF InStep
<1>4. CASE \E m \in ReqId : b = Answer(m)
  <2>1. PICK m \in ReqId : b = Answer(m)
    BY <1>4
  <2>2. PICK l \in Places : Trip(m, l)
    BY <1>1 DEF InStep
  <2>3. l = "inq"
    BY <1>2, <2>1, <2>2 DEF Trip
  <2>4. m \in DOMAIN slots /\ slots[m] \in {"waiting", "abandoned"}
    BY <2>2, <2>3 DEF Trip
  <2>5. b.id = m /\ b.kind = "answer"
    BY <2>1, Apart
  <2>6. QED
    BY <2>4, <2>5
<1>5. CASE b = Note \/ b = Eof
  BY <1>5, Apart
<1>6. QED
  BY <1>2, <1>3, <1>4, <1>5 DEF Message

\* A turn of the pump.
LEMMA PumpKept == ASSUME Few, ConnInv, NEW t \in Thread, pump_once(t) PROVE ConnInv'
<1>1. ConnTypes /\ term \in Reasons /\ cterm \in Reasons
  BY DEF ConnInv, ConnTypes
<1>2. /\ pc[t] \in {"lead", "send-lead"} /\ pc[t] \in Early \cup Asked
      /\ peer' = peer /\ inPipe' = inPipe /\ outPipe' = outPipe /\ writer' = writer
  BY DEF pump_once, Early, Asked, peerVars
<1>3. PICK b : b = Head(inq)
  OBVIOUS
<1>4. {"exit", "quarantined"} \subseteq Reasons
  BY DEF Reasons
<1>5. CASE FinishRetired(t, "full") /\ UNCHANGED <<inq, cterm, term, outq>>
  <2>1. Reports(t)
    BY <1>1, <1>4, <1>5, ReasonsGiven DEF Reports
  <2>2. CallQueues /\ term' = term /\ cterm' = cterm
    BY <1>2, <1>5 DEF CallQueues
  <2>3. QED
    BY <1>1, <1>2, <2>1, <2>2, EasySteps
<1>6. CASE /\ CheckEffect /\ FinishRetired(t, Refined(Ended, Awaiting(t)))
           /\ cterm' = Remembered(Ended) /\ inq' = inq
  <2>1. Ended \in Reasons
    BY <1>1, <1>4, ReasonsGiven
  <2>2. /\ Remembered(Ended) \in Reasons /\ Refined(Ended, Awaiting(t)) \in Outcomes
        /\ Refined(Ended, Awaiting(t)) # "desync"
    BY <1>1, <2>1, ReasonsGiven
  <2>3. Reports(t)
    BY <1>6, <2>2 DEF Reports
  <2>4. CallQueues /\ term' = Ended
    BY <1>2, <1>6, CheckIs DEF CallQueues
  <2>5. QED
    BY <1>2, <1>6, <2>1, <2>2, <2>3, <2>4, EasySteps
<1>7. CASE /\ GoTo(t, Loop(t)) /\ UNCHANGED <<tableVars, term, outq>>
           /\ inq' = inq \/ (inq # <<>> /\ inq' = Tail(inq))
  <2>1. Loop(t) \in Asked \/ (Loop(t) \in Early /\ pc[t] \in Early)
    BY <1>2 DEF Loop, Asked, Early
  <2>2. Advances(t, Loop(t)) /\ CallQueues /\ term' = term /\ cterm' = cterm
    BY <1>2, <1>7 DEF Advances, CallQueues, tableVars
  <2>3. QED
    BY <1>1, <1>2, <2>1, <2>2, EasySteps
<1>8. CASE /\ inq # <<>> /\ inq' = Tail(inq) /\ b.kind = "answer" /\ b.id \in DOMAIN slots
           /\ GoTo(t, Loop(t)) /\ UNCHANGED <<retired, cterm, term, outq>>
           /\ \/ slots[b.id] = "waiting" /\ slots' = [slots EXCEPT ![b.id] = "answered"]
              \/ slots[b.id] = "abandoned" /\ slots' = [slots EXCEPT ![b.id] = "spent"]
  <2>1. /\ retired' = retired /\ cterm' = cterm /\ term' = term /\ outq' = outq
        /\ GoTo(t, Loop(t)) /\ inq # <<>> /\ inq' = Tail(inq) /\ b.kind = "answer"
        /\ b.id \in DOMAIN slots
    BY <1>8
  <2>2. CASE slots[b.id] = "waiting" /\ slots' = [slots EXCEPT ![b.id] = "answered"]
    BY ONLY <1>2, <1>3, <2>1, <2>2, ConnInv, t \in Thread, RoutesKept
  <2>3. CASE slots[b.id] = "abandoned" /\ slots' = [slots EXCEPT ![b.id] = "spent"]
    BY ONLY <1>2, <1>3, <2>1, <2>3, ConnInv, t \in Thread, RoutesKept
  <2>4. QED
    BY <1>8, <2>2, <2>3
<1>9. CASE /\ FinishRetired(t, "desync") /\ give_up("quarantined")
           /\ inq # <<>> /\ inq' = Tail(inq) /\ peer.bad
  <2>1. /\ Recorded("quarantined") \in Reasons /\ Remembered("quarantined") \in Reasons
        /\ "desync" \in Outcomes
    BY <1>1, <1>4, ReasonsGiven
  <2>2. CallQueues /\ term' = Recorded("quarantined") /\ cterm' = Remembered("quarantined")
    BY <1>2, <1>9, CloseIs DEF CallQueues, give_up
  <2>3. QED
    BY <1>2, <1>9, <2>1, <2>2, LeavesOff
<1>10. CASE /\ term' = Recorded("exit") /\ cterm' = Remembered("exit")
            /\ FinishRetired(t, Refined("exit", Awaiting(t)))
            /\ inq # <<>> /\ inq' = Tail(inq) /\ outq' = outq
  <2>1. /\ Recorded("exit") \in Reasons /\ Remembered("exit") \in Reasons
        /\ Refined("exit", Awaiting(t)) \in Outcomes /\ Refined("exit", Awaiting(t)) # "desync"
    BY <1>1, <1>4, ReasonsGiven
  <2>2. Reports(t) /\ CallQueues
    BY <1>2, <1>10, <2>1 DEF Reports, CallQueues
  <2>3. QED
    BY <1>2, <1>10, <2>1, <2>2, EasySteps
<1>11. \/ FinishRetired(t, "full") /\ UNCHANGED <<inq, cterm, term, outq>>
       \/ /\ CheckEffect /\ FinishRetired(t, Refined(Ended, Awaiting(t)))
          /\ cterm' = Remembered(Ended) /\ inq' = inq
       \/ GoTo(t, Loop(t)) /\ UNCHANGED <<inq, tableVars, term, outq>>
       \/ /\ inq # <<>> /\ inq' = Tail(inq)
          /\ \/ GoTo(t, Loop(t)) /\ UNCHANGED <<tableVars, term, outq>>
             \/ /\ b.kind = "answer" /\ b.id \in DOMAIN slots /\ slots[b.id] = "waiting"
                /\ slots' = [slots EXCEPT ![b.id] = "answered"] /\ GoTo(t, Loop(t))
                /\ UNCHANGED <<retired, cterm, term, outq>>
             \/ /\ b.kind = "answer" /\ LateAnswer(b.id)
                /\ slots' = [slots EXCEPT ![b.id] = "spent"] /\ GoTo(t, Loop(t))
                /\ UNCHANGED <<retired, cterm, term, outq>>
             \/ /\ b.kind = "answer" /\ ~LateAnswer(b.id)
                /\ ~(b.id \in DOMAIN slots /\ slots[b.id] = "waiting")
                /\ FinishRetired(t, "desync") /\ give_up("quarantined")
             \/ b.kind = "junk" /\ FinishRetired(t, "desync") /\ give_up("quarantined")
             \/ /\ term' = Recorded("exit") /\ cterm' = Remembered("exit")
                /\ FinishRetired(t, Refined("exit", Awaiting(t))) /\ outq' = outq
  BY <1>3 DEF pump_once
<1>12. CASE /\ inq # <<>> /\ inq' = Tail(inq) /\ FinishRetired(t, "desync")
            /\ give_up("quarantined")
            /\ \/ b.kind = "junk"
               \/ /\ b.kind = "answer" /\ ~LateAnswer(b.id)
                  /\ ~(b.id \in DOMAIN slots /\ slots[b.id] = "waiting")
  <2>1. ASSUME ~peer.bad PROVE FALSE
    BY <1>3, <1>12, <2>1, HeadExpected DEF LateAnswer
  <2>2. peer.bad \in BOOLEAN
    BY <1>1 DEF ConnTypes
  <2>3. QED
    BY <1>9, <1>12, <2>1
<1>13. QED
  BY <1>5, <1>6, <1>7, <1>8, <1>10, <1>11, <1>12 DEF LateAnswer

-----------------------------------------------------------------------------
\* The rest, and the theorem

\* A step that leaves the requests, their answers and the callers where they are.
LEMMA StillKept ==
    ASSUME ConnInv, CallsAlone, inPipe' = inPipe, outPipe' = outPipe, writer' = writer,
           outq' = outq \/ outq' = Append(outq, Close), inq' = inq \/ inq' = <<>>,
           term' = term, cterm' = cterm, res' = res,
           \E up, helper \in BOOLEAN : peer' = [peer EXCEPT !.up = up, !.helper = helper]
    PROVE  ConnInv'
<1>1. ConnTypes /\ CallsPlaced /\ (~peer.bad => InStep)
      /\ outq \in Seq(ReqId \cup {Close}) /\ inq \in Seq(Message)
  BY DEF ConnInv, ConnTypes
<1>2. /\ peer'.bad = peer.bad /\ peer'.owes = peer.owes
      /\ peer' \in [mix : Mixes, up : BOOLEAN, helper : BOOLEAN, owes : SUBSET ReqId,
                    said : SUBSET ReqId, notes : Nat, bad : BOOLEAN]
  BY <1>1 DEF ConnTypes
<1>3. Close = 0 /\ Close \in ReqId \cup {Close} /\ \A i \in ReqId : Close # i
  BY DEF Close, ReqId
<1>4. outq' \in Seq(ReqId \cup {Close}) /\ \A i \in ReqId : Calm(outq, outq', i)
  <2>1. \A i \in ReqId : Calm(outq, outq, i) /\ Calm(outq, Append(outq, Close), i)
    BY <1>1, <1>3, CalmQueues
  <2>2. Append(outq, Close) \in Seq(ReqId \cup {Close})
    BY <1>1, <1>3
  <2>3. QED
    BY <1>1, <2>1, <2>2
<1>5. inq' \in Seq(Message) /\ \A x : Calm(inq, inq', x)
  <2>1. \A x : Calm(inq, inq, x) /\ Calm(inq, <<>>, x)
    BY <1>1, CalmQueues
  <2>2. <<>> \in Seq(Message)
    OBVIOUS
  <2>3. QED
    BY <1>1, <2>1, <2>2
<1>6. \A x : Calm(inPipe, inPipe', x) /\ Calm(outPipe, outPipe', x)
  BY DEF Calm
<1>7. ConnTypes'
  BY <1>1, <1>2, <1>4, <1>5 DEF ConnTypes, CallsAlone
<1>8. CallsPlaced' /\ \A i, l : Trip(i, l) => Fits(i, l)
  BY <1>1, AloneStay
<1>9. ASSUME ~peer'.bad PROVE InStep'
  <2>1. InStep
    BY <1>1, <1>2, <1>9
  <2>2. \A i \in ReqId : Rests(i)
    BY <1>2, <1>4, <1>5, <1>6 DEF Rests
  <2>3. \A t \in Thread : res'[t] # "desync"
    BY <2>1 DEF InStep
  <2>4. QED
    BY <1>5, <1>6, <1>8, <2>1, <2>2, <2>3, AllRest
<1>10. QED
  BY <1>7, <1>8, <1>9 DEF ConnInv

LEMMA TearKept ==
    ASSUME ConnInv, handshake_complete \/ Meanwhile \/ TearStep \/ UNCHANGED connVars
    PROVE  ConnInv'
<1>1. /\ CallsAlone /\ inPipe' = inPipe /\ outPipe' = outPipe /\ writer' = writer
      /\ term' = term /\ cterm' = cterm /\ res' = res
  BY DEF handshake_complete, Meanwhile, TearStep, TearBegins, TearCloses, TearEscalates,
         TearReaps, TearDrains, TearJoins, TearsDown, connVars, CallsAlone, peerVars, pipeVars,
         endVars, tableVars
<1>2. outq' = outq \/ outq' = Append(outq, Close)
  BY CloseIs
  DEF handshake_complete, Meanwhile, TearStep, TearBegins, TearCloses, TearEscalates,
      TearReaps, TearDrains, TearJoins, connVars, pipeVars
<1>3. inq' = inq \/ inq' = <<>>
  BY DEF handshake_complete, Meanwhile, TearStep, TearBegins, TearCloses, TearEscalates,
         TearReaps, TearDrains, TearJoins, TearsDown, connVars, pipeVars, drain_inbound
<1>4. \E up, helper \in BOOLEAN : peer' = [peer EXCEPT !.up = up, !.helper = helper]
  <2>1. \/ peer' = peer \/ peer' = [peer EXCEPT !.up = FALSE]
        \/ peer' = [peer EXCEPT !.up = FALSE, !.helper = FALSE]
    BY DEF handshake_complete, Meanwhile, TearStep, TearBegins, TearCloses, TearEscalates,
           TearReaps, TearDrains, TearJoins, TearsDown, connVars, peerVars, reap_group
  <2>2. /\ peer \in [mix : Mixes, up : BOOLEAN, helper : BOOLEAN, owes : SUBSET ReqId,
                     said : SUBSET ReqId, notes : Nat, bad : BOOLEAN]
    BY DEF ConnInv, ConnTypes
  <2>3. /\ peer = [peer EXCEPT !.up = peer.up, !.helper = peer.helper]
        /\ [peer EXCEPT !.up = FALSE] = [peer EXCEPT !.up = FALSE, !.helper = peer.helper]
        /\ peer.up \in BOOLEAN /\ peer.helper \in BOOLEAN
    BY <2>2
  <2>4. QED
    BY <2>1, <2>3
<1>5. QED
  BY <1>1, <1>2, <1>3, <1>4, StillKept

LEMMA InvInit == ASSUME Few, ConnInit PROVE ConnInv
<1>1. PICK mix \in Mixes :
        peer = [mix |-> mix, up |-> TRUE, helper |-> ("helper" \in mix), owes |-> {}, said |-> {},
                notes |-> 0, bad |-> FALSE]
  BY DEF ConnInit
<1>2. /\ inPipe = <<>> /\ outPipe = <<>> /\ outq = <<>> /\ writer = Parked /\ inq = <<>>
      /\ term = "open" /\ slots = [i \in {} |-> "waiting"] /\ retired = <<>> /\ cterm = "open"
      /\ pc = [t \in Thread |-> "idle"] /\ req = [t \in Thread |-> 0]
      /\ res = [t \in Thread |-> "none"]
  BY DEF ConnInit
<1>3. DOMAIN slots = {} /\ slots \in [DOMAIN slots -> SlotState]
  BY <1>2
<1>4. /\ \A t \in Thread : pc[t] = "idle" /\ req[t] = 0 /\ res[t] = "none"
      /\ \A t \in Caller : t \in Thread
      /\ Consumer \in Thread
  BY <1>2 DEF Thread
<1>5. ConnTypes
  <2>1. /\ "idle" \in {"idle", "done"} \cup Early \cup Asked /\ "none" \in Outcomes
        /\ "open" \in Reasons
    BY DEF Outcomes, Reasons
  <2>2. peer \in [mix : Mixes, up : BOOLEAN, helper : BOOLEAN, owes : SUBSET ReqId,
                  said : SUBSET ReqId, notes : Nat, bad : BOOLEAN]
    BY <1>1
  <2>3. QED
    BY <1>2, <1>3, <1>4, <2>1, <2>2 DEF ConnTypes
<1>6. Cardinality(Issuers) = 0 /\ Cardinality(CallsFinished) = 0
  <2>1. Issuers = {} /\ CallsFinished = {}
    BY <1>4 DEF Issuers, CallsFinished
  <2>2. QED
    BY <2>1, FS_EmptySet
<1>7. CallsPlaced
  <2>1. "idle" \notin Early \cup Asked
    BY DEF Early, Asked
  <2>2. QED
    BY <1>2, <1>3, <1>4, <1>6, <2>1 DEF CallsPlaced
<1>8. InStep
  <2>1. ASSUME NEW i \in ReqId PROVE Trip(i, "nowhere")
    <3>1. peer.owes = {}
      BY <1>1
    <3>2. "idle" \notin Early
      BY DEF Early
    <3>3. QED
      BY <1>2, <1>4, <3>1, <3>2, EmptyIn, Apart DEF Trip
  <2>2. "nowhere" \in Places
    BY DEF Places
  <2>3. ~In(outPipe, Junk) /\ ~In(inq, Junk)
    BY <1>2, EmptyIn
  <2>4. QED
    BY <1>4, <2>1, <2>2, <2>3 DEF InStep
<1>9. QED
  BY <1>5, <1>7, <1>8 DEF ConnInv

\* While no more requests are made than the connection remembers, it is given up
\* as out of step only when the peer really was (HealthyKept): each request, and
\* then its answer, is in one place at a time from try_send to the pump, and a
\* slot that was given up is kept until the late answer has been read.
THEOREM ConnectionsAreHealthy == ASSUME Few PROVE ConnSpec => []HealthyKept
<1>1. ConnInit => ConnInv
  BY InvInit
<1>2. ConnInv /\ [ConnNext]_connVars => ConnInv'
  <2> SUFFICES ASSUME ConnInv, [ConnNext]_connVars PROVE ConnInv'
    OBVIOUS
  <2>1. CASE PeerReads
    BY <2>1, ReadsKept
  <2>2. CASE PeerAnswers
    BY <2>2, AnswersKept
  <2>3. CASE PeerRepeats \/ PeerBabbles \/ PeerNotes \/ PeerExits
    BY <2>3, PeerKept
  <2>4. CASE read_messages
    BY <2>4, ForwardsKept
  <2>5. CASE WriterTakes
    BY <2>5, TakesKept
  <2>6. CASE WriterWrites
    BY <2>6, WritesKept
  <2>7. ASSUME NEW t \in Thread, CallStep(t) PROVE ConnInv'
    <3>1. CASE request(t)
      BY <3>1, RequestKept
    <3>2. CASE try_send(t) \/ CountOut(t)
      BY <3>2, SendKept
    <3>3. CASE Handover(t)
      BY <3>3, HandoverKept
    <3>4. CASE CheckAnswer(t)
      BY <3>4, AnswerKept
    <3>5. CASE CheckElse(t) \/ SendWaits(t) \/ PumpOffer(t)
      BY <3>5, WaitsKept
    <3>6. CASE pump_once(t)
      BY <3>6, PumpKept
    <3>7. QED
      BY <2>7, <3>1, <3>2, <3>3, <3>4, <3>5, <3>6 DEF CallStep
  <2>8. CASE next_peer_message \/ CheckMessage
    BY <2>8, MessageKept
  <2>9. CASE handshake_complete \/ Meanwhile \/ TearStep \/ UNCHANGED connVars
    BY <2>9, TearKept
  <2>10. QED
    BY <2>1, <2>2, <2>3, <2>4, <2>5, <2>6, <2>7, <2>8, <2>9 DEF ConnNext
<1>3. ConnInv => HealthyKept
  BY DEF ConnInv, InStep, HealthyKept
<1>4. QED
  BY <1>1, <1>2, <1>3, PTL DEF ConnSpec

-----------------------------------------------------------------------------
\* The inductive invariant

\* The chunks in a pipe that the leader wrote, by position.
LeadersAt(q) == {k \in DOMAIN q : q[k] = "leader"}
Unread(q) == Cardinality(LeadersAt(q))

Place == {"none", "alive", "killed", "exited", "gone"}
Reader == [at : {"none", "reading", "sending", "done"}, budget : Nat, got : Nat, stored : Nat,
           cut : BOOLEAN, failed : BOOLEAN,
           artifact : {"none", "staged", "kept", "deleted"}]
ChildTypes ==
    /\ kind \in {"tool", "git", "github"} /\ proc \in [Process -> Place]
    /\ said \in [Stream -> Nat] /\ pipe \in [Stream -> Seq(Process)]
    /\ asked \subseteq Limits[kind] /\ sawExit \in BOOLEAN /\ stopFlag \in BOOLEAN
    /\ rd \in [Stream -> Reader]

\* What the leader wrote has been read or is in the pipe, except for what the
\* GitHub command threw away; the pipe is bounded.
Counted(s) ==
    /\ Len(pipe[s]) =< PipeSize
    /\ (kind = "github" => ~rd[s].cut) => said[s] = rd[s].got + Unread(pipe[s])

\* Once the readers are stopped the leader writes no more, and what it wrote
\* is within the reads that are left.
Within(s) ==
    /\ ~stopFlag => rd[s].budget = ReadsAfterStop
    /\ stopFlag => /\ proc["leader"] # "alive"
                   /\ \A k \in LeadersAt(pipe[s]) : k =< rd[s].budget

\* A reader that is done has read all the leader wrote.
ReadOut(s) == rd[s].at = "done" => proc["leader"] # "alive" /\ LeadersAt(pipe[s]) = {}

\* The artifact of a stream is open, and counts what was read, until it fails.
Stays(s) == kind = "tool" =>
    /\ sup \in {"opened", "spawn"} => rd[s].artifact = "staged"
    /\ sup \notin {"start", "opened", "spawn", "abandon", "done"} =>
          rd[s].artifact = "staged" \/ rd[s].failed
    /\ sup = "done" /\ outcome \in {"exited", "timeout", "cancelled", "deadline"} =>
          rd[s].artifact = "kept" \/ rd[s].failed
    /\ rd[s].stored >= rd[s].got \/ rd[s].cut \/ rd[s].failed

\* Where the readers are, by where the supervisor is.
Placed(s) ==
    /\ sup \in {"start", "opened", "spawn", "abandon"} => rd[s].at = "none"
    /\ kind = "tool" /\ sup = "done" => rd[s].at \in {"none", "done"}
    /\ sup = "finish" => rd[s].at = "done"
    /\ sup = "done" /\ outcome \in {"exited", "timeout", "cancelled", "deadline"} =>
          rd[s].at = "done" /\ (kind = "github" /\ outcome = "exited" => ~rd[s].cut)

\* And where the processes are.
CallOver == sup = "done" /\ (kind # "git" \/ outcome \in {"cancelled", "deadline"})
Bare ==
    /\ sup \in {"start", "opened", "spawn"} =>
          proc["leader"] = "none" /\ proc["helper"] = "none" /\ ~stopFlag
    /\ sup \in {"abandon", "reap"} => proc["leader"] # "alive" /\ proc["helper"] # "alive"
    /\ sup = "act" /\ sawExit => proc["leader"] = "gone"
    /\ sup \in {"drain", "finish"} => proc["leader"] = "gone" /\ proc["helper"] # "alive"
    /\ sup = "join" => /\ proc["leader"] = "gone"
                       /\ kind # "git" \/ outcome \in {"cancelled", "deadline"} =>
                             proc["helper"] # "alive"
    /\ CallOver => proc["leader"] \in {"none", "gone"} /\ proc["helper"] # "alive"

ChildInv ==
    /\ ChildTypes /\ Bare
    /\ \A s \in Stream : Counted(s) /\ Within(s) /\ ReadOut(s) /\ Stays(s) /\ Placed(s)

-----------------------------------------------------------------------------
\* Pipes

\* What the leader wrote into a pipe is a finite number of chunks.
LEMMA UnreadFinite ==
    ASSUME NEW q \in Seq(Process)
    PROVE  /\ IsFiniteSet(LeadersAt(q)) /\ Unread(q) \in Nat
           /\ LeadersAt(q) \subseteq 1 .. Len(q)
           /\ LeadersAt(q) = {} => Unread(q) = 0
<1>1. LeadersAt(q) \in SUBSET (1 .. Len(q)) /\ Len(q) \in Nat
  BY DEF LeadersAt
<1>2. IsFiniteSet(1 .. Len(q))
  <2>1. 1 \in Int /\ Len(q) \in Int
    BY <1>1
  <2>2. QED
    BY <2>1, FS_Interval
<1>3. IsFiniteSet(LeadersAt(q))
  BY ONLY <1>1, <1>2, FS_Subset
<1>4. Unread(q) \in Nat
  BY ONLY <1>3, FS_CardinalityType DEF Unread
<1>5. LeadersAt(q) = {} => Unread(q) = 0
  BY FS_EmptySet DEF Unread
<1>6. QED
  BY <1>1, <1>3, <1>4, <1>5

\* A chunk joins a pipe at its end.
LEMMA AppendUnread ==
    ASSUME NEW q \in Seq(Process), NEW p \in Process
    PROVE  /\ Append(q, p) \in Seq(Process) /\ Len(Append(q, p)) = Len(q) + 1
           /\ Unread(Append(q, p)) = IF p = "leader" THEN Unread(q) + 1 ELSE Unread(q)
           /\ p # "leader" => LeadersAt(Append(q, p)) = LeadersAt(q)
<1> DEFINE b == Append(q, p)
<1>1. /\ b \in Seq(Process) /\ Len(b) = Len(q) + 1 /\ Len(q) \in Nat
      /\ b[Len(q) + 1] = p /\ \A k \in 1 .. Len(q) : b[k] = q[k]
      /\ DOMAIN b = 1 .. Len(q) + 1 /\ DOMAIN q = 1 .. Len(q)
  OBVIOUS
<1> HIDE DEF b
<1>2. p # "leader" => LeadersAt(b) = LeadersAt(q)
  BY <1>1 DEF LeadersAt
<1>3. p = "leader" => LeadersAt(b) = LeadersAt(q) \cup {Len(q) + 1}
  BY <1>1 DEF LeadersAt
<1>4. Len(q) + 1 \notin LeadersAt(q)
  BY <1>1 DEF LeadersAt
<1>5. Cardinality(LeadersAt(q) \cup {Len(q) + 1}) = Cardinality(LeadersAt(q)) + 1
  BY <1>4, UnreadFinite, FS_AddElement
<1>6. QED
  BY <1>1, <1>2, <1>3, <1>5 DEF Unread, b

\* The first chunk is taken off a pipe.
LEMMA TailUnread ==
    ASSUME NEW q \in Seq(Process), q # << >>
    PROVE  /\ Tail(q) \in Seq(Process) /\ Len(Tail(q)) = Len(q) - 1 /\ Head(q) \in Process
           /\ Unread(q) = IF Head(q) = "leader" THEN Unread(Tail(q)) + 1 ELSE Unread(Tail(q))
           /\ \A k \in LeadersAt(Tail(q)) : k + 1 \in LeadersAt(q) /\ k \in Nat
<1> DEFINE b == Tail(q)
           L == LeadersAt(q) \ {1}
           M == LeadersAt(b)
           f == [k \in L |-> k - 1]
<1>1. /\ b \in Seq(Process) /\ Len(q) \in Nat /\ Len(q) >= 1 /\ Len(b) = Len(q) - 1
      /\ Head(q) = q[1] /\ Head(q) \in Process
      /\ DOMAIN q = 1 .. Len(q) /\ DOMAIN b = 1 .. Len(q) - 1
      /\ \A k \in 1 .. Len(q) - 1 : b[k] = q[k + 1]
  OBVIOUS
<1> HIDE DEF b
<1>2. \A k \in M : k + 1 \in L /\ k \in Nat
  BY <1>1 DEF LeadersAt
<1>3. \A k \in L : k - 1 \in M /\ k \in Nat
  BY <1>1 DEF LeadersAt
<1>4. 1 \in LeadersAt(q) <=> Head(q) = "leader"
  BY <1>1 DEF LeadersAt
<1> HIDE DEF L, M
<1>5. f \in [L -> M] /\ \A i, j \in L : f[i] = f[j] => i = j
  BY ONLY <1>3
<1>6. \A k \in M : \E i \in L : f[i] = k
  <2> SUFFICES ASSUME NEW k \in M PROVE \E i \in L : f[i] = k
    OBVIOUS
  <2>1. k + 1 \in L /\ f[k + 1] = k
    BY ONLY <1>2
  <2>2. QED
    BY ONLY <2>1
<1> HIDE DEF f
<1>7. f \in Bijection(L, M)
  BY ONLY <1>5, <1>6, Fun_IsBij
<1>8. ExistsBijection(L, M)
  BY ONLY <1>7, Fun_ExistsBij
<1>9. IsFiniteSet(LeadersAt(q)) /\ IsFiniteSet(L) /\ Unread(q) \in Nat
  <2>1. IsFiniteSet(LeadersAt(q)) /\ Unread(q) \in Nat
    BY UnreadFinite
  <2>2. IsFiniteSet(L)
    BY ONLY <2>1, FS_RemoveElement DEF L
  <2>3. QED
    BY <2>1, <2>2
<1>10. Cardinality(M) = Cardinality(L)
  BY ONLY <1>8, <1>9, FS_Bijection
<1>11. Cardinality(L) = IF 1 \in LeadersAt(q) THEN Cardinality(LeadersAt(q)) - 1
                        ELSE Cardinality(LeadersAt(q))
  BY ONLY <1>9, FS_RemoveElement DEF L
<1>12. Unread(q) = IF Head(q) = "leader" THEN Unread(b) + 1 ELSE Unread(b)
  BY <1>4, <1>9, <1>10, <1>11 DEF Unread, M
<1>13. \A k \in LeadersAt(b) : k + 1 \in LeadersAt(q) /\ k \in Nat
  BY <1>2 DEF L, M
<1>14. QED
  BY <1>1, <1>12, <1>13 DEF b

-----------------------------------------------------------------------------
\* What most steps have in common

\* A step after which no more processes run, and which stops the readers at
\* most once the leader has been told to end.
ProcessCalm ==
    /\ kind' = kind /\ proc' \in [Process -> Place] /\ stopFlag' \in BOOLEAN
    /\ \A p \in Process : proc'[p] = "alive" => proc[p] = "alive"
    /\ \A p \in Process : proc[p] \in {"none", "gone"} => proc'[p] = proc[p]
    /\ stopFlag => stopFlag'
    /\ stopFlag' => stopFlag \/ proc'["leader"] # "alive"

\* A step that reads nothing from a stream, and ends its reader only if nothing
\* of the leader's is left to read.
Quiet(s) ==
    /\ pipe'[s] = pipe[s] /\ said'[s] = said[s]
    /\ rd'[s].got = rd[s].got /\ rd'[s].cut = rd[s].cut
    /\ rd'[s].budget = rd[s].budget \/ (stopFlag /\ LeadersAt(pipe[s]) = {})
    /\ rd'[s].at = "done" =>
         rd[s].at = "done" \/ (proc["leader"] # "alive" /\ LeadersAt(pipe[s]) = {})

InPlace(s) == Counted(s) /\ Within(s) /\ ReadOut(s)

LEMMA QuietStream ==
    ASSUME ChildInv, ProcessCalm, NEW s \in Stream, Quiet(s)
    PROVE  InPlace(s)'
<1>1. /\ Len(pipe[s]) =< PipeSize /\ Len(pipe[s]) \in Nat
      /\ LeadersAt(pipe[s]) \subseteq 1 .. Len(pipe[s]) /\ stopFlag \in BOOLEAN
      /\ PipeSize \in Nat /\ ReadsAfterStop \in Nat /\ ReadsAfterStop > PipeSize
  <2>1. pipe[s] \in Seq(Process) /\ Len(pipe[s]) =< PipeSize /\ stopFlag \in BOOLEAN
    BY DEF ChildInv, ChildTypes, Counted
  <2>2. LeadersAt(pipe[s]) \subseteq 1 .. Len(pipe[s])
    BY <2>1, UnreadFinite
  <2>3. QED
    BY <2>1, <2>2, ChildConstants
<1>2. proc'["leader"] = "alive" => proc["leader"] = "alive"
  BY DEF ProcessCalm, Process
<1>3. Counted(s)'
  BY DEF ChildInv, Counted, ProcessCalm, Quiet
<1>4. ReadOut(s)'
  BY <1>2 DEF ChildInv, ReadOut, Quiet
<1>5. ~stopFlag' => rd'[s].budget = ReadsAfterStop
  BY DEF ChildInv, Within, ProcessCalm, Quiet
<1>6. stopFlag' => proc'["leader"] # "alive"
  BY <1>2 DEF ChildInv, Within, ProcessCalm
<1>7. \A k \in LeadersAt(pipe[s]) : k =< ReadsAfterStop
  BY <1>1
<1>8. stopFlag' => \A k \in LeadersAt(pipe'[s]) : k =< rd'[s].budget
  <2>1. CASE ~stopFlag
    <3>1. rd'[s].budget = ReadsAfterStop /\ pipe'[s] = pipe[s]
      BY <2>1 DEF ChildInv, Within, Quiet
    <3>2. QED
      BY <1>7, <3>1
  <2>2. CASE stopFlag
    BY <2>2 DEF ChildInv, Within, Quiet
  <2>3. QED
    BY <1>1, <2>1, <2>2
<1>9. Within(s)'
  BY <1>5, <1>6, <1>8 DEF Within
<1>10. QED
  BY <1>3, <1>4, <1>9 DEF InPlace

\* A reader takes one chunk; one of the leader's is counted, if any is.
Taken(s) ==
    /\ pipe[s] # << >> /\ pipe'[s] = Tail(pipe[s]) /\ said'[s] = said[s]
    /\ rd'[s].at # "done" /\ rd'[s].budget \in Nat
    /\ IF stopFlag THEN rd'[s].budget >= rd[s].budget - 1 ELSE rd'[s].budget = rd[s].budget
    /\ (kind = "github" => ~rd'[s].cut) =>
          /\ kind = "github" => ~rd[s].cut
          /\ rd'[s].got = IF Head(pipe[s]) = "leader" THEN rd[s].got + 1 ELSE rd[s].got

LEMMA TakenStream ==
    ASSUME ChildInv, NEW s \in Stream, Taken(s), UNCHANGED <<kind, proc, stopFlag>>
    PROVE  InPlace(s)'
<1>1. /\ pipe[s] \in Seq(Process) /\ pipe[s] # << >> /\ pipe'[s] = Tail(pipe[s])
      /\ Len(pipe[s]) =< PipeSize /\ Len(pipe[s]) \in Nat /\ PipeSize \in Nat
      /\ rd[s].budget \in Nat /\ rd'[s].budget \in Nat /\ rd[s].got \in Nat
  BY ChildConstants DEF ChildInv, ChildTypes, Counted, Reader, Taken
<1>2. /\ Len(pipe'[s]) = Len(pipe[s]) - 1 /\ pipe'[s] \in Seq(Process)
      /\ Unread(pipe[s]) = IF Head(pipe[s]) = "leader" THEN Unread(pipe'[s]) + 1
                           ELSE Unread(pipe'[s])
      /\ \A k \in LeadersAt(pipe'[s]) : k + 1 \in LeadersAt(pipe[s]) /\ k \in Nat
  BY <1>1, TailUnread
<1>3. Unread(pipe'[s]) \in Nat
  <2>1. \A q \in Seq(Process) : Unread(q) \in Nat
    BY UnreadFinite
  <2>2. QED
    BY <1>2, <2>1
<1>4. Len(pipe'[s]) =< PipeSize
  BY ONLY <1>1, <1>2
<1>5. ASSUME kind = "github" => ~rd'[s].cut
      PROVE  said'[s] = rd'[s].got + Unread(pipe'[s])
  <2>1. said[s] = rd[s].got + Unread(pipe[s]) /\ said'[s] = said[s]
    BY <1>5 DEF ChildInv, Counted, Taken
  <2>2. rd'[s].got = IF Head(pipe[s]) = "leader" THEN rd[s].got + 1 ELSE rd[s].got
    BY <1>5 DEF Taken
  <2>3. CASE Head(pipe[s]) = "leader"
    <3>1. rd'[s].got = rd[s].got + 1 /\ Unread(pipe[s]) = Unread(pipe'[s]) + 1
      BY <1>2, <2>2, <2>3
    <3>2. said'[s] = rd[s].got + (Unread(pipe'[s]) + 1)
      BY ONLY <2>1, <3>1
    <3>3. rd[s].got \in Nat
      BY <1>1
    <3>4. rd[s].got + (Unread(pipe'[s]) + 1) = (rd[s].got + 1) + Unread(pipe'[s])
      BY ONLY <1>3, <3>3
    <3>5. QED
      BY ONLY <3>1, <3>2, <3>4
  <2>4. CASE Head(pipe[s]) # "leader"
    <3>1. rd'[s].got = rd[s].got /\ Unread(pipe[s]) = Unread(pipe'[s])
      BY <1>2, <2>2, <2>4
    <3>2. QED
      BY ONLY <2>1, <3>1
  <2>5. QED
    BY <2>3, <2>4
<1>6. Counted(s)'
  BY <1>4, <1>5 DEF Counted
<1>7. Within(s)'
  <2>1. CASE stopFlag
    <3>1. /\ proc["leader"] # "alive" /\ \A k \in LeadersAt(pipe[s]) : k =< rd[s].budget
          /\ rd'[s].budget >= rd[s].budget - 1
      BY <2>1 DEF ChildInv, Within, Taken
    <3>2. ASSUME NEW k \in LeadersAt(pipe'[s]) PROVE k =< rd'[s].budget
      <4>1. k + 1 =< rd[s].budget /\ k \in Nat
        BY <1>2, <3>1
      <4>2. QED
        BY ONLY <1>1, <3>1, <4>1
    <3>3. QED
      BY <2>1, <3>1, <3>2 DEF Within
  <2>2. CASE ~stopFlag
    BY <2>2 DEF ChildInv, Within, Taken
  <2>3. QED
    BY <2>1, <2>2
<1>8. ReadOut(s)'
  BY DEF ReadOut, Taken
<1>9. QED
  BY <1>6, <1>7, <1>8 DEF InPlace

\* The parts of the invariant, put together.
LEMMA Together ==
    ASSUME ChildTypes', Bare', \A s \in Stream : InPlace(s)' /\ Stays(s)' /\ Placed(s)'
    PROVE  ChildInv'
  BY DEF ChildInv, InPlace

LEMMA CalmStep ==
    ASSUME ChildInv, ProcessCalm, ChildTypes', Bare',
           \A s \in Stream : Quiet(s) /\ Stays(s)' /\ Placed(s)'
    PROVE  ChildInv'
<1>1. \A s \in Stream : InPlace(s)'
  BY QuietStream
<1>2. QED
  BY <1>1, Together

-----------------------------------------------------------------------------
\* The steps, one at a time

\* A process ends by itself.
LEMMA Exits_step ==
    ASSUME ChildInv, Exits
    PROVE  ChildInv'
<1> USE DEF Exits, kernel, Process, Stream
<1>1. ProcessCalm
  BY DEF ChildInv, ChildTypes, Place, Bare, ProcessCalm
<1>2. ChildTypes'
  BY DEF ChildInv, ChildTypes, Place, Reader
<1>3. Bare'
  BY DEF ChildInv, ChildTypes, Bare, CallOver
<1>4. \A s \in Stream : Quiet(s)
  BY DEF ChildInv, ChildTypes, Reader, Quiet
<1>5. \A s \in Stream : Stays(s)'
  BY DEF ChildInv, ChildTypes, Reader, Stays
<1>6. \A s \in Stream : Placed(s)'
  BY DEF ChildInv, ChildTypes, Reader, Placed
<1>7. QED
  BY ONLY <1>1, <1>2, <1>3, <1>4, <1>5, <1>6, ChildInv, CalmStep DEF Stream

\* A killed process ends.
LEMMA Dies_step ==
    ASSUME ChildInv, Dies
    PROVE  ChildInv'
<1> USE DEF Dies, kernel, Process, Stream
<1>1. ProcessCalm
  BY DEF ChildInv, ChildTypes, Place, Bare, ProcessCalm
<1>2. ChildTypes'
  BY DEF ChildInv, ChildTypes, Place, Reader
<1>3. Bare'
  BY DEF ChildInv, ChildTypes, Bare, CallOver
<1>4. \A s \in Stream : Quiet(s)
  BY DEF ChildInv, ChildTypes, Reader, Quiet
<1>5. \A s \in Stream : Stays(s)'
  BY DEF ChildInv, ChildTypes, Reader, Stays
<1>6. \A s \in Stream : Placed(s)'
  BY DEF ChildInv, ChildTypes, Reader, Placed
<1>7. QED
  BY ONLY <1>1, <1>2, <1>3, <1>4, <1>5, <1>6, ChildInv, CalmStep DEF Stream

\* The call is interrupted.
LEMMA Interrupts_step ==
    ASSUME ChildInv, Interrupts
    PROVE  ChildInv'
<1> USE DEF Interrupts, Limits, kernel, Process, Stream
<1>1. ProcessCalm
  BY DEF ChildInv, ChildTypes, Place, Bare, ProcessCalm
<1>2. ChildTypes'
  BY DEF ChildInv, ChildTypes, Place, Reader
<1>3. Bare'
  BY DEF ChildInv, ChildTypes, Bare, CallOver
<1>4. \A s \in Stream : Quiet(s)
  BY DEF ChildInv, ChildTypes, Reader, Quiet
<1>5. \A s \in Stream : Stays(s)'
  BY DEF ChildInv, ChildTypes, Reader, Stays
<1>6. \A s \in Stream : Placed(s)'
  BY DEF ChildInv, ChildTypes, Reader, Placed
<1>7. QED
  BY ONLY <1>1, <1>2, <1>3, <1>4, <1>5, <1>6, ChildInv, CalmStep DEF Stream

\* A leader whose pipes could not be prepared is reaped.
LEMMA abandon_step ==
    ASSUME ChildInv, abandon
    PROVE  ChildInv'
<1> USE DEF abandon, Return, kernel, Process, Stream
<1>1. ProcessCalm
  BY DEF ChildInv, ChildTypes, Place, Bare, ProcessCalm
<1>2. ChildTypes'
  BY DEF ChildInv, ChildTypes, Place, Reader
<1>3. Bare'
  BY DEF ChildInv, ChildTypes, Bare, CallOver
<1>4. \A s \in Stream : Quiet(s)
  BY DEF ChildInv, ChildTypes, Reader, Quiet
<1>5. \A s \in Stream : Stays(s)'
  BY DEF ChildInv, ChildTypes, Reader, Stays
<1>6. \A s \in Stream : Placed(s)'
  BY DEF ChildInv, ChildTypes, Reader, Placed
<1>7. QED
  BY ONLY <1>1, <1>2, <1>3, <1>4, <1>5, <1>6, ChildInv, CalmStep DEF Stream

\* Segments are passed on.
LEMMA forward_step ==
    ASSUME ChildInv, forward
    PROVE  ChildInv'
<1> USE DEF forward, kernel, Process, Stream
<1>1. ProcessCalm
  BY DEF ChildInv, ChildTypes, Place, Bare, ProcessCalm
<1>2. ChildTypes'
  BY DEF ChildInv, ChildTypes, Place, Reader
<1>3. Bare'
  BY DEF ChildInv, ChildTypes, Bare, CallOver
<1>4. \A s \in Stream : Quiet(s)
  BY DEF ChildInv, ChildTypes, Reader, Quiet
<1>5. \A s \in Stream : Stays(s)'
  BY DEF ChildInv, ChildTypes, Reader, Stays
<1>6. \A s \in Stream : Placed(s)'
  BY DEF ChildInv, ChildTypes, Reader, Placed
<1>7. QED
  BY ONLY <1>1, <1>2, <1>3, <1>4, <1>5, <1>6, ChildInv, CalmStep DEF Stream

\* The supervisor looks for the exit, and reaps a leader that has one.
LEMMA try_wait_step ==
    ASSUME ChildInv, try_wait
    PROVE  ChildInv'
<1> USE DEF try_wait, kernel, Process, Stream
<1>1. ProcessCalm
  BY DEF ChildInv, ChildTypes, Place, Bare, ProcessCalm
<1>2. ChildTypes'
  BY DEF ChildInv, ChildTypes, Place, Reader
<1>3. Bare'
  BY DEF ChildInv, ChildTypes, Bare, CallOver
<1>4. \A s \in Stream : Quiet(s)
  BY DEF ChildInv, ChildTypes, Reader, Quiet
<1>5. \A s \in Stream : Stays(s)'
  BY DEF ChildInv, ChildTypes, Reader, Stays
<1>6. \A s \in Stream : Placed(s)'
  BY DEF ChildInv, ChildTypes, Reader, Placed
<1>7. QED
  BY ONLY <1>1, <1>2, <1>3, <1>4, <1>5, <1>6, ChildInv, CalmStep DEF Stream

\* The exit was seen: the group is ended and the readers are stopped.
LEMMA ExitSeen_step ==
    ASSUME ChildInv, ExitSeen
    PROVE  ChildInv'
<1> USE DEF ExitSeen, Killed, Group, kernel, Process, Stream
<1>1. ProcessCalm
  BY DEF ChildInv, ChildTypes, Place, Bare, ProcessCalm
<1>2. ChildTypes'
  BY DEF ChildInv, ChildTypes, Place, Reader
<1>3. Bare'
  BY DEF ChildInv, ChildTypes, Bare, CallOver
<1>4. \A s \in Stream : Quiet(s)
  BY DEF ChildInv, ChildTypes, Reader, Quiet
<1>5. \A s \in Stream : Stays(s)'
  BY DEF ChildInv, ChildTypes, Reader, Stays
<1>6. \A s \in Stream : Placed(s)'
  BY DEF ChildInv, ChildTypes, Reader, Placed
<1>7. QED
  BY ONLY <1>1, <1>2, <1>3, <1>4, <1>5, <1>6, ChildInv, CalmStep DEF Stream

\* An interrupted call: the group is ended and the readers are stopped.
LEMMA terminate_and_collect_step ==
    ASSUME ChildInv, terminate_and_collect
    PROVE  ChildInv'
<1> USE DEF terminate_and_collect, Killed, Group, Reason, kernel, Process, Stream
<1>1. ProcessCalm
  BY DEF ChildInv, ChildTypes, Place, Bare, ProcessCalm
<1>2. ChildTypes'
  BY DEF ChildInv, ChildTypes, Place, Reader
<1>3. Bare'
  BY DEF ChildInv, ChildTypes, Bare, CallOver
<1>4. \A s \in Stream : Quiet(s)
  BY DEF ChildInv, ChildTypes, Reader, Quiet
<1>5. \A s \in Stream : Stays(s)'
  BY DEF ChildInv, ChildTypes, Reader, Stays
<1>6. \A s \in Stream : Placed(s)'
  BY DEF ChildInv, ChildTypes, Reader, Placed
<1>7. QED
  BY ONLY <1>1, <1>2, <1>3, <1>4, <1>5, <1>6, ChildInv, CalmStep DEF Stream

\* Nothing to do yet.
LEMMA poll_again_step ==
    ASSUME ChildInv, poll_again
    PROVE  ChildInv'
<1> USE DEF poll_again, kernel, Process, Stream
<1>1. ProcessCalm
  BY DEF ChildInv, ChildTypes, Place, Bare, ProcessCalm
<1>2. ChildTypes'
  BY DEF ChildInv, ChildTypes, Place, Reader
<1>3. Bare'
  BY DEF ChildInv, ChildTypes, Bare, CallOver
<1>4. \A s \in Stream : Quiet(s)
  BY DEF ChildInv, ChildTypes, Reader, Quiet
<1>5. \A s \in Stream : Stays(s)'
  BY DEF ChildInv, ChildTypes, Reader, Stays
<1>6. \A s \in Stream : Placed(s)'
  BY DEF ChildInv, ChildTypes, Reader, Placed
<1>7. QED
  BY ONLY <1>1, <1>2, <1>3, <1>4, <1>5, <1>6, ChildInv, CalmStep DEF Stream

\* The ended leader is reaped.
LEMMA reap_step ==
    ASSUME ChildInv, reap
    PROVE  ChildInv'
<1> USE DEF reap, kernel, Process, Stream
<1>1. ProcessCalm
  BY DEF ChildInv, ChildTypes, Place, Bare, ProcessCalm
<1>2. ChildTypes'
  BY DEF ChildInv, ChildTypes, Place, Reader
<1>3. Bare'
  BY DEF ChildInv, ChildTypes, Bare, CallOver
<1>4. \A s \in Stream : Quiet(s)
  BY DEF ChildInv, ChildTypes, Reader, Quiet
<1>5. \A s \in Stream : Stays(s)'
  BY DEF ChildInv, ChildTypes, Reader, Stays
<1>6. \A s \in Stream : Placed(s)'
  BY DEF ChildInv, ChildTypes, Reader, Placed
<1>7. QED
  BY ONLY <1>1, <1>2, <1>3, <1>4, <1>5, <1>6, ChildInv, CalmStep DEF Stream

\* The supervisor drains until both readers are done.
LEMMA drain_until_read_step ==
    ASSUME ChildInv, drain_until_read
    PROVE  ChildInv'
<1> USE DEF drain_until_read, ReadersDone, kernel, Process, Stream
<1>1. ProcessCalm
  BY DEF ChildInv, ChildTypes, Place, Bare, ProcessCalm
<1>2. ChildTypes'
  BY DEF ChildInv, ChildTypes, Place, Reader
<1>3. Bare'
  BY DEF ChildInv, ChildTypes, Bare, CallOver
<1>4. \A s \in Stream : Quiet(s)
  BY DEF ChildInv, ChildTypes, Reader, Quiet
<1>5. \A s \in Stream : Stays(s)'
  BY DEF ChildInv, ChildTypes, Reader, Stays
<1>6. \A s \in Stream : Placed(s)'
  BY DEF ChildInv, ChildTypes, Reader, Placed
<1>7. QED
  BY ONLY <1>1, <1>2, <1>3, <1>4, <1>5, <1>6, ChildInv, CalmStep DEF Stream

\* Git is interrupted.
LEMMA GitStops_step ==
    ASSUME ChildInv, GitStops
    PROVE  ChildInv'
<1> USE DEF GitStops, Killed, Group, Reason, Limits, kernel, Process, Stream
<1>1. ProcessCalm
  BY DEF ChildInv, ChildTypes, Place, Bare, ProcessCalm
<1>2. ChildTypes'
  BY DEF ChildInv, ChildTypes, Place, Reader
<1>3. Bare'
  BY DEF ChildInv, ChildTypes, Bare, CallOver
<1>4. \A s \in Stream : Quiet(s)
  BY DEF ChildInv, ChildTypes, Reader, Quiet
<1>5. \A s \in Stream : Stays(s)'
  BY DEF ChildInv, ChildTypes, Reader, Stays
<1>6. \A s \in Stream : Placed(s)'
  BY DEF ChildInv, ChildTypes, Reader, Placed
<1>7. QED
  BY ONLY <1>1, <1>2, <1>3, <1>4, <1>5, <1>6, ChildInv, CalmStep DEF Stream

\* Git has exited.
LEMMA GitExits_step ==
    ASSUME ChildInv, GitExits
    PROVE  ChildInv'
<1> USE DEF GitExits, kernel, Process, Stream
<1>1. ProcessCalm
  BY DEF ChildInv, ChildTypes, Place, Bare, ProcessCalm
<1>2. ChildTypes'
  BY DEF ChildInv, ChildTypes, Place, Reader
<1>3. Bare'
  BY DEF ChildInv, ChildTypes, Bare, CallOver
<1>4. \A s \in Stream : Quiet(s)
  BY DEF ChildInv, ChildTypes, Reader, Quiet
<1>5. \A s \in Stream : Stays(s)'
  BY DEF ChildInv, ChildTypes, Reader, Stays
<1>6. \A s \in Stream : Placed(s)'
  BY DEF ChildInv, ChildTypes, Reader, Placed
<1>7. QED
  BY ONLY <1>1, <1>2, <1>3, <1>4, <1>5, <1>6, ChildInv, CalmStep DEF Stream

\* The GitHub command is interrupted, or has said too much.
LEMMA GithubStops_step ==
    ASSUME ChildInv, GithubStops
    PROVE  ChildInv'
<1> USE DEF GithubStops, Killed, Group, Reason, TooLarge, kernel, Process, Stream
<1>1. ProcessCalm
  BY DEF ChildInv, ChildTypes, Place, Bare, ProcessCalm
<1>2. ChildTypes'
  BY DEF ChildInv, ChildTypes, Place, Reader
<1>3. Bare'
  BY DEF ChildInv, ChildTypes, Bare, CallOver
<1>4. \A s \in Stream : Quiet(s)
  BY DEF ChildInv, ChildTypes, Reader, Quiet
<1>5. \A s \in Stream : Stays(s)'
  BY DEF ChildInv, ChildTypes, Reader, Stays
<1>6. \A s \in Stream : Placed(s)'
  BY DEF ChildInv, ChildTypes, Reader, Placed
<1>7. QED
  BY ONLY <1>1, <1>2, <1>3, <1>4, <1>5, <1>6, ChildInv, CalmStep DEF Stream

\* The GitHub command has exited.
LEMMA GithubExits_step ==
    ASSUME ChildInv, GithubExits
    PROVE  ChildInv'
<1> USE DEF GithubExits, Killed, Group, TooLarge, kernel, Process, Stream
<1>1. ProcessCalm
  BY DEF ChildInv, ChildTypes, Place, Bare, ProcessCalm
<1>2. ChildTypes'
  BY DEF ChildInv, ChildTypes, Place, Reader
<1>3. Bare'
  BY DEF ChildInv, ChildTypes, Bare, CallOver
<1>4. \A s \in Stream : Quiet(s)
  BY DEF ChildInv, ChildTypes, Reader, Quiet
<1>5. \A s \in Stream : Stays(s)'
  BY DEF ChildInv, ChildTypes, Reader, Stays
<1>6. \A s \in Stream : Placed(s)'
  BY DEF ChildInv, ChildTypes, Reader, Placed
<1>7. QED
  BY ONLY <1>1, <1>2, <1>3, <1>4, <1>5, <1>6, ChildInv, CalmStep DEF Stream

\* The readers of Git or of the GitHub command are joined.
LEMMA Joined_step ==
    ASSUME ChildInv, Joined
    PROVE  ChildInv'
<1> USE DEF Joined, Return, ReadersDone, TooLarge, kernel, Process, Stream
<1>1. ProcessCalm
  BY DEF ChildInv, ChildTypes, Place, Bare, ProcessCalm
<1>2. ChildTypes'
  BY DEF ChildInv, ChildTypes, Place, Reader
<1>3. Bare'
  BY DEF ChildInv, ChildTypes, Bare, CallOver
<1>4. \A s \in Stream : Quiet(s)
  BY DEF ChildInv, ChildTypes, Reader, Quiet
<1>5. \A s \in Stream : Stays(s)'
  BY DEF ChildInv, ChildTypes, Reader, Stays
<1>6. \A s \in Stream : Placed(s)'
  BY DEF ChildInv, ChildTypes, Reader, Placed
<1>7. QED
  BY ONLY <1>1, <1>2, <1>3, <1>4, <1>5, <1>6, ChildInv, CalmStep DEF Stream

\* No process could be started.
LEMMA spawn_fails_step ==
    ASSUME ChildInv, spawn_fails
    PROVE  ChildInv'
<1> USE DEF spawn_fails, Return, Discard, kernel, Process, Stream
<1>1. ProcessCalm
  BY DEF ChildInv, ChildTypes, Place, Bare, ProcessCalm
<1>2. ChildTypes'
  BY DEF ChildInv, ChildTypes, Place, Reader
<1>3. Bare'
  BY DEF ChildInv, ChildTypes, Bare, CallOver
<1>4. \A s \in Stream : Quiet(s)
  BY DEF ChildInv, ChildTypes, Reader, Quiet
<1>5. \A s \in Stream : Stays(s)'
  BY DEF ChildInv, ChildTypes, Reader, Stays
<1>6. \A s \in Stream : Placed(s)'
  BY DEF ChildInv, ChildTypes, Reader, Placed
<1>7. QED
  BY ONLY <1>1, <1>2, <1>3, <1>4, <1>5, <1>6, ChildInv, CalmStep DEF Stream

\* A stopped call keeps what arrived.
LEMMA preserve_step ==
    ASSUME ChildInv, preserve
    PROVE  ChildInv'
<1> USE DEF preserve, Return, ReadersDone, Finished, kernel, Process, Stream
<1>1. ProcessCalm
  BY DEF ChildInv, ChildTypes, Place, Bare, ProcessCalm
<1>2. ChildTypes'
  BY DEF ChildInv, ChildTypes, Place, Reader
<1>3. Bare'
  BY DEF ChildInv, ChildTypes, Bare, CallOver
<1>4. \A s \in Stream : Quiet(s)
  BY DEF ChildInv, ChildTypes, Reader, Quiet
<1>5. \A s \in Stream : Stays(s)'
  BY DEF ChildInv, ChildTypes, Reader, Stays
<1>6. \A s \in Stream : Placed(s)'
  BY DEF ChildInv, ChildTypes, Reader, Placed
<1>7. QED
  BY ONLY <1>1, <1>2, <1>3, <1>4, <1>5, <1>6, ChildInv, CalmStep DEF Stream

\* The reader of standard error passes a segment on.
LEMMA send_segment_step ==
    ASSUME ChildInv, send_segment
    PROVE  ChildInv'
<1> USE DEF send_segment, kernel, Process, Stream
<1>1. ProcessCalm
  BY DEF ChildInv, ChildTypes, Place, Bare, ProcessCalm
<1>2. ChildTypes'
  BY DEF ChildInv, ChildTypes, Place, Reader
<1>3. Bare'
  BY DEF ChildInv, ChildTypes, Bare, CallOver
<1>4. \A s \in Stream : Quiet(s)
  BY DEF ChildInv, ChildTypes, Reader, Quiet
<1>5. \A s \in Stream : Stays(s)'
  BY DEF ChildInv, ChildTypes, Reader, Stays
<1>6. \A s \in Stream : Placed(s)'
  BY DEF ChildInv, ChildTypes, Reader, Placed
<1>7. QED
  BY ONLY <1>1, <1>2, <1>3, <1>4, <1>5, <1>6, ChildInv, CalmStep DEF Stream

\* The child cannot be waited on.
LEMMA WaitFails_step ==
    ASSUME ChildInv, WaitFails
    PROVE  ChildInv'
<1> USE DEF WaitFails, Killed, Group, Return, TooLarge, kernel, Process, Stream
<1>1. /\ proc' = Killed \/ proc' = proc
      /\ stopFlag' = stopFlag \/ (stopFlag' = TRUE /\ proc' = Killed)
      /\ UNCHANGED <<kind, said, asked, pipe, sawExit, rd>>
  OBVIOUS
<1>2. ProcessCalm
  <2>1. /\ Killed \in [Process -> Place] /\ Killed["leader"] # "alive"
        /\ \A p \in Process : Killed[p] = "alive" => proc[p] = "alive"
        /\ \A p \in Process : proc[p] \in {"none", "gone"} => Killed[p] = proc[p]
    BY DEF ChildInv, ChildTypes, Place
  <2>2. /\ proc \in [Process -> Place] /\ stopFlag \in BOOLEAN
        /\ stopFlag => proc["leader"] # "alive"
    BY DEF ChildInv, ChildTypes, Within
  <2>3. proc' \in [Process -> Place] /\ stopFlag' \in BOOLEAN
    BY ONLY <1>1, <2>1, <2>2
  <2>4. /\ \A p \in Process : proc'[p] = "alive" => proc[p] = "alive"
        /\ \A p \in Process : proc[p] \in {"none", "gone"} => proc'[p] = proc[p]
    BY ONLY <1>1, <2>1
  <2>5. stopFlag => stopFlag'
    BY ONLY <1>1, <2>2
  <2>6. stopFlag' => stopFlag \/ proc'["leader"] # "alive"
    BY ONLY <1>1, <2>1, <2>2
  <2>7. QED
    BY <1>1, <2>3, <2>4, <2>5, <2>6 DEF ProcessCalm
<1>3. ChildTypes'
  BY <1>1, <1>2 DEF ChildInv, ChildTypes, ProcessCalm
<1>4. Bare'
  BY DEF ChildInv, ChildTypes, Bare, CallOver
<1>5. \A s \in Stream : Quiet(s) /\ Stays(s)' /\ Placed(s)'
  BY DEF ChildInv, ChildTypes, Reader, Quiet, Stays, Placed
<1>6. QED
  BY ONLY <1>2, <1>3, <1>4, <1>5, ChildInv, CalmStep DEF Stream
\* A step that only moves the supervisor on or back, and settles artifacts.
Settles(r, q) ==
    /\ q \in Reader
    /\ q.at = r.at /\ q.budget = r.budget /\ q.got = r.got /\ q.stored = r.stored
    /\ q.cut = r.cut /\ q.failed = r.failed

LEMMA SettledStep ==
    ASSUME ChildInv, UNCHANGED <<kernel, proc, pipe, sawExit, stopFlag>>,
           rd' \in [Stream -> Reader], \A s \in Stream : Settles(rd[s], rd'[s]),
           Bare', \A s \in Stream : Stays(s)' /\ Placed(s)'
    PROVE  ChildInv'
<1>1. ProcessCalm
  BY DEF ChildInv, ChildTypes, ProcessCalm, kernel
<1>2. ChildTypes'
  BY DEF ChildInv, ChildTypes, kernel
<1>3. \A s \in Stream : Quiet(s)
  BY DEF Quiet, Settles, kernel
<1>4. QED
  BY ONLY <1>1, <1>2, <1>3, ChildInv, Bare', \A s \in Stream : Stays(s)' /\ Placed(s)',
     CalmStep

\* A tool's artifacts are opened, if the call is still permitted.
LEMMA check_still_permitted_step ==
    ASSUME ChildInv, check_still_permitted
    PROVE  ChildInv'
<1> DEFINE opens == IF kind = "tool" THEN "staged" ELSE "none"
<1>1. /\ sup = "start" /\ UNCHANGED <<kernel, proc, pipe, sawExit, stopFlag>>
      /\ \/ sup' = "done" /\ outcome' = "refused" /\ rd' = rd
         \/ /\ sup' = IF kind = "tool" THEN "opened" ELSE "spawn"
            /\ rd' = [s \in Stream |-> [rd[s] EXCEPT !.artifact = opens]]
            /\ outcome' = outcome
  BY DEF check_still_permitted, Return
<1>2. opens \in {"none", "staged"} /\ (kind = "tool" => opens = "staged")
  OBVIOUS
<1> HIDE DEF opens
<1>3. rd' \in [Stream -> Reader] /\ \A s \in Stream : Settles(rd[s], rd'[s])
  <2>1. CASE rd' = rd
    BY <2>1 DEF ChildInv, ChildTypes, Settles, Reader
  <2>2. CASE rd' = [s \in Stream |-> [rd[s] EXCEPT !.artifact = opens]]
    <3>1. \A s \in Stream : Settles(rd[s], [rd[s] EXCEPT !.artifact = opens])
      BY <1>2 DEF ChildInv, ChildTypes, Settles, Reader
    <3>2. QED
      BY <2>2, <3>1 DEF Settles
  <2>3. QED
    BY <1>1, <2>1, <2>2
<1>4. Bare'
  BY <1>1 DEF ChildInv, ChildTypes, Bare, CallOver, kernel
<1>5. \A s \in Stream : Stays(s)'
  <2> SUFFICES ASSUME NEW s \in Stream PROVE Stays(s)'
    OBVIOUS
  <2>1. CASE rd' = rd /\ sup' = "done" /\ outcome' = "refused"
    BY <1>1, <2>1 DEF ChildInv, Stays, kernel
  <2>2. CASE /\ sup' \in {"opened", "spawn"}
             /\ rd'[s] = [rd[s] EXCEPT !.artifact = opens]
    BY <1>1, <1>2, <2>2 DEF ChildInv, ChildTypes, Reader, Stays, kernel
  <2>3. QED
    BY <1>1, <2>1, <2>2
<1>6. \A s \in Stream : Placed(s)'
  BY <1>1, <1>3 DEF ChildInv, Placed, Settles, kernel
<1>7. QED
  BY ONLY <1>1, <1>3, <1>4, <1>5, <1>6, ChildInv, SettledStep DEF kernel

\* The second check of the permission.
LEMMA recheck_step ==
    ASSUME ChildInv, recheck
    PROVE  ChildInv'
<1>1. /\ sup = "opened" /\ UNCHANGED <<kernel, proc, pipe, sawExit, stopFlag>>
      /\ \/ sup' = "done" /\ outcome' = "refused" /\ rd' = Discard
         \/ sup' = "spawn" /\ outcome' = outcome /\ rd' = rd
  BY DEF recheck, Return
<1>2. rd' \in [Stream -> Reader] /\ \A s \in Stream : Settles(rd[s], rd'[s])
  <2>1. CASE rd' = rd
    BY <2>1 DEF ChildInv, ChildTypes, Settles, Reader
  <2>2. CASE rd' = Discard
    <3>1. \A s \in Stream :
            Settles(rd[s], [rd[s] EXCEPT !.artifact = IF @ = "staged" THEN "deleted" ELSE @])
      BY DEF ChildInv, ChildTypes, Settles, Reader
    <3>2. QED
      BY <2>2, <3>1 DEF Discard, Settles
  <2>3. QED
    BY <1>1, <2>1, <2>2
<1>3. Bare'
  BY <1>1 DEF ChildInv, ChildTypes, Bare, CallOver, kernel
<1>4. \A s \in Stream : Stays(s)'
  <2>1. CASE sup' = "done" /\ outcome' = "refused"
    BY <1>1, <1>2, <2>1 DEF ChildInv, Stays, Settles, kernel
  <2>2. CASE sup' = "spawn" /\ rd' = rd
    BY <1>1, <2>2 DEF ChildInv, Stays, kernel
  <2>3. QED
    BY <1>1, <2>1, <2>2
<1>5. \A s \in Stream : Placed(s)'
  BY <1>1, <1>2 DEF ChildInv, Placed, Settles, kernel
<1>6. QED
  BY ONLY <1>1, <1>2, <1>3, <1>4, <1>5, ChildInv, SettledStep DEF kernel

\* A call that ran to its end keeps its artifacts, unless one could not be
\* stored.
LEMMA finish_stream_step ==
    ASSUME ChildInv, finish_stream
    PROVE  ChildInv'
<1>1. /\ sup' = "done" /\ kind = "tool" /\ UNCHANGED <<kernel, proc, pipe, sawExit, stopFlag>>
      /\ sup = "finish" \/ (sup = "join" /\ ReadersDone)
  BY DEF finish_stream, Return
<1>2. \A s \in Stream : rd'[s] \in {Finished(rd[s]), Unfinished(rd[s])}
  BY DEF finish_stream, ChildInv, ChildTypes, Stream
<1>3. \/ outcome' = "unstored"
      \/ \A s \in Stream : rd'[s] = Finished(rd[s])
  BY DEF finish_stream, Return
<1>4. \A s \in Stream : /\ Settles(rd[s], Finished(rd[s]))
                        /\ Settles(rd[s], Unfinished(rd[s]))
                        /\ rd[s].artifact = "staged" => Finished(rd[s]).artifact = "kept"
  BY DEF ChildInv, ChildTypes, Settles, Reader, Finished, Unfinished
<1>5. rd' \in [Stream -> Reader] /\ \A s \in Stream : Settles(rd[s], rd'[s])
  <2>1. \A s \in Stream : Settles(rd[s], rd'[s]) /\ rd'[s] \in Reader
    BY <1>2, <1>4 DEF Settles
  <2>2. rd' = [s \in Stream |-> rd'[s]]
    BY DEF finish_stream, ChildInv, ChildTypes
  <2>3. QED
    BY <2>1, <2>2
<1>6. Bare'
  BY <1>1 DEF ChildInv, ChildTypes, Bare, CallOver, kernel
<1>7. \A s \in Stream : Stays(s)'
  <2> SUFFICES ASSUME NEW s \in Stream PROVE Stays(s)'
    OBVIOUS
  <2>1. rd[s].artifact = "staged" \/ rd[s].failed
    BY <1>1 DEF ChildInv, Stays
  <2>2. outcome' = "unstored" \/ rd'[s].artifact = "kept" \/ rd'[s].failed
    <3>1. CASE rd'[s] = Finished(rd[s])
      <4>1. rd[s].artifact = "staged" => rd'[s].artifact = "kept"
        BY <1>4, <3>1
      <4>2. rd'[s].failed = rd[s].failed
        BY <1>5 DEF Settles
      <4>3. QED
        BY <2>1, <4>1, <4>2
    <3>2. QED
      BY <1>3, <3>1
  <2>3. rd'[s].stored >= rd'[s].got \/ rd'[s].cut \/ rd'[s].failed
    BY <1>1, <1>5 DEF ChildInv, Stays, Settles
  <2>4. QED
    BY <1>1, <2>2, <2>3 DEF Stays
<1>8. \A s \in Stream : Placed(s)'
  BY <1>1, <1>5 DEF ChildInv, Placed, Settles, ReadersDone, kernel
<1>9. QED
  BY ONLY <1>1, <1>5, <1>6, <1>7, <1>8, ChildInv, SettledStep DEF kernel

\* Processes are started: none ran before, and no reader has begun.
LEMMA StartedStep ==
    ASSUME ChildInv, sup = "spawn", UNCHANGED <<kernel, pipe, sawExit, outcome, stopFlag>>,
           proc' \in [Process -> Place], rd' \in [Stream -> Reader],
           \A s \in Stream : /\ rd'[s].at # "done" /\ rd'[s].budget = rd[s].budget
                             /\ rd'[s].got = rd[s].got /\ rd'[s].cut = rd[s].cut,
           Bare', \A s \in Stream : Stays(s)' /\ Placed(s)'
    PROVE  ChildInv'
<1>1. ~stopFlag
  BY DEF ChildInv, Bare
<1>2. ChildTypes'
  BY DEF ChildInv, ChildTypes, kernel
<1>3. \A s \in Stream : InPlace(s)'
  BY <1>1 DEF ChildInv, InPlace, Counted, Within, ReadOut, kernel
<1>4. QED
  BY <1>2, <1>3, Together

\* The leader, its company and the readers start.
LEMMA spawn_step ==
    ASSUME ChildInv, spawn
    PROVE  ChildInv'
<1>1. /\ sup = "spawn" /\ sup' = "forward"
      /\ UNCHANGED <<kernel, pipe, sawExit, outcome, stopFlag>>
      /\ proc' \in [Process -> Place]
      /\ rd' = [s \in Stream |-> [rd[s] EXCEPT !.at = "reading"]]
  BY DEF spawn, Place
<1>2. /\ rd' \in [Stream -> Reader]
      /\ \A s \in Stream : /\ rd'[s].at = "reading" /\ rd'[s].budget = rd[s].budget
                           /\ rd'[s].got = rd[s].got /\ rd'[s].cut = rd[s].cut
                           /\ rd'[s].artifact = rd[s].artifact /\ rd'[s].failed = rd[s].failed
                           /\ rd'[s].stored = rd[s].stored
  BY <1>1 DEF ChildInv, ChildTypes, Reader
<1>3. Bare'
  BY <1>1 DEF Bare, CallOver
<1>4. \A s \in Stream : Stays(s)' /\ Placed(s)'
  BY <1>1, <1>2 DEF ChildInv, Stays, Placed, kernel
<1>5. QED
  BY <1>1, <1>2, <1>3, <1>4, StartedStep

\* They start, and are ended at once because a pipe could not be prepared.
LEMMA set_pipe_nonblocking_fails_step ==
    ASSUME ChildInv, set_pipe_nonblocking_fails
    PROVE  ChildInv'
<1>1. /\ sup = "spawn" /\ sup' = "abandon"
      /\ UNCHANGED <<kernel, pipe, sawExit, outcome, stopFlag>>
      /\ proc' \in [Process -> Place]
      /\ proc'["leader"] # "alive" /\ proc'["helper"] # "alive"
      /\ rd' = Discard
  BY DEF set_pipe_nonblocking_fails, Place, Process, Group
<1>2. rd' \in [Stream -> Reader] /\ \A s \in Stream : Settles(rd[s], rd'[s])
  <2>1. \A s \in Stream :
          Settles(rd[s], [rd[s] EXCEPT !.artifact = IF @ = "staged" THEN "deleted" ELSE @])
    BY DEF ChildInv, ChildTypes, Settles, Reader
  <2>2. QED
    BY <1>1, <2>1 DEF Discard, Settles
<1>3. Bare'
  BY <1>1 DEF Bare, CallOver
<1>4. \A s \in Stream : Stays(s)' /\ Placed(s)'
  BY <1>1, <1>2 DEF ChildInv, Stays, Placed, Settles, kernel
<1>5. \A s \in Stream : rd'[s].at # "done"
  BY <1>1, <1>2 DEF ChildInv, Placed, Settles
<1>6. QED
  BY <1>1, <1>2, <1>3, <1>4, <1>5, StartedStep DEF Settles

\* A process writes: the leader only while it runs, and so before its reader is
\* done and before the readers are stopped.
LEMMA Writes_step ==
    ASSUME ChildInv, Writes
    PROVE  ChildInv'
<1>1. PICK p \in Process, s \in Stream :
        /\ proc[p] = "alive" /\ Len(pipe[s]) < PipeSize
        /\ pipe' = [pipe EXCEPT ![s] = Append(@, p)]
        /\ said' = IF p = "leader" THEN [said EXCEPT ![s] = @ + 1] ELSE said
        /\ UNCHANGED <<kind, proc, asked, sup, sawExit, outcome, stopFlag, listening,
                       segments, rd>>
  BY DEF Writes
<1>2. pipe \in [Stream -> Seq(Process)] /\ said \in [Stream -> Nat] /\ rd[s].got \in Nat
  BY DEF ChildInv, ChildTypes, Reader
<1>3. /\ pipe'[s] = Append(pipe[s], p) /\ \A u \in Stream \ {s} : pipe'[u] = pipe[u]
      /\ Append(pipe[s], p) \in Seq(Process)
      /\ Len(Append(pipe[s], p)) = Len(pipe[s]) + 1
      /\ Unread(Append(pipe[s], p)) = IF p = "leader" THEN Unread(pipe[s]) + 1
                                      ELSE Unread(pipe[s])
      /\ p # "leader" => LeadersAt(Append(pipe[s], p)) = LeadersAt(pipe[s])
      /\ Unread(pipe[s]) \in Nat
  <2>1. pipe[s] \in Seq(Process)
    BY <1>2
  <2>2. pipe'[s] = Append(pipe[s], p) /\ \A u \in Stream \ {s} : pipe'[u] = pipe[u]
    BY <1>1, <1>2
  <2>3. QED
    BY <2>1, <2>2, AppendUnread, UnreadFinite
<1>4. ChildTypes'
  <2>1. pipe' \in [Stream -> Seq(Process)]
    BY <1>1, <1>2, <1>3
  <2>2. said' \in [Stream -> Nat]
    BY <1>1, <1>2
  <2>3. QED
    BY <1>1, <2>1, <2>2 DEF ChildInv, ChildTypes
<1>5. Bare' /\ \A u \in Stream : Stays(u)' /\ Placed(u)'
  BY <1>1 DEF ChildInv, Bare, CallOver, Stays, Placed
<1>6. \A u \in Stream \ {s} : InPlace(u)'
  <2> SUFFICES ASSUME NEW u \in Stream, u # s PROVE InPlace(u)'
    OBVIOUS
  <2>1. ProcessCalm
    BY <1>1 DEF ChildInv, ChildTypes, ProcessCalm
  <2>2. Quiet(u)
    BY <1>1, <1>2, <1>3 DEF Quiet
  <2>3. QED
    BY <2>1, <2>2, QuietStream
<1>7. InPlace(s)'
  <2>1. Counted(s)'
    <3>1. Len(pipe'[s]) =< PipeSize
      BY <1>1, <1>2, <1>3, ChildConstants
    <3>2. ASSUME kind = "github" => ~rd[s].cut
          PROVE  said'[s] = rd[s].got + Unread(pipe'[s])
      <4>1. said[s] = rd[s].got + Unread(pipe[s])
        BY <3>2 DEF ChildInv, Counted
      <4>2. CASE p = "leader"
        <5>1. said'[s] = said[s] + 1 /\ Unread(pipe'[s]) = Unread(pipe[s]) + 1
          BY <1>1, <1>2, <1>3, <4>2
        <5>2. rd[s].got \in Nat /\ Unread(pipe[s]) \in Nat
          BY <1>2, <1>3
        <5>3. (rd[s].got + Unread(pipe[s])) + 1 = rd[s].got + (Unread(pipe[s]) + 1)
          BY ONLY <5>2
        <5>4. QED
          BY ONLY <4>1, <5>1, <5>3
      <4>3. CASE p # "leader"
        BY <1>1, <1>3, <4>1, <4>3
      <4>4. QED
        BY <4>2, <4>3
    <3>3. QED
      BY <1>1, <3>1, <3>2 DEF Counted
  <2>2. CASE p = "leader"
    <3>1. ~stopFlag /\ rd[s].at # "done" /\ rd[s].budget = ReadsAfterStop
      BY <1>1, <2>2 DEF ChildInv, Within, ReadOut, ChildTypes
    <3>2. Within(s)' /\ ReadOut(s)'
      BY <1>1, <3>1 DEF Within, ReadOut
    <3>3. QED
      BY <2>1, <3>2 DEF InPlace
  <2>3. CASE p # "leader"
    <3>1. LeadersAt(pipe'[s]) = LeadersAt(pipe[s])
      BY <1>3, <2>3
    <3>2. Within(s)' /\ ReadOut(s)'
      BY <1>1, <3>1 DEF ChildInv, Within, ReadOut
    <3>3. QED
      BY <2>1, <3>2 DEF InPlace
  <2>4. QED
    BY <2>2, <2>3
<1>8. \A u \in Stream : InPlace(u)'
  BY <1>6, <1>7
<1>9. QED
  BY ONLY <1>4, <1>5, <1>8, Together

-----------------------------------------------------------------------------
\* The readers

\* One reader of a running call takes a turn.
LEMMA ReaderStep ==
    ASSUME ChildInv, NEW s \in Stream, rd[s].at = "reading",
           UNCHANGED <<kernel, proc, sup, sawExit, outcome, stopFlag>>,
           NEW r \in Reader, rd' = [rd EXCEPT ![s] = r],
           pipe' \in [Stream -> Seq(Process)], \A u \in Stream \ {s} : pipe'[u] = pipe[u],
           Quiet(s) \/ Taken(s), Stays(s)'
    PROVE  ChildInv'
<1>1. /\ rd'[s] = r /\ rd' \in [Stream -> Reader]
      /\ \A u \in Stream \ {s} : rd'[u] = rd[u]
  BY DEF ChildInv, ChildTypes
<1>2. ProcessCalm
  BY DEF ChildInv, ChildTypes, ProcessCalm, kernel
<1>3. \A u \in Stream : InPlace(u)'
  <2>1. ASSUME NEW u \in Stream \ {s} PROVE InPlace(u)'
    <3>1. Quiet(u)
      BY <1>1 DEF Quiet, kernel
    <3>2. QED
      BY <1>2, <3>1, QuietStream
  <2>2. InPlace(s)'
    <3>1. CASE Quiet(s)
      BY <1>2, <3>1, QuietStream
    <3>2. CASE Taken(s)
      BY <3>2, TakenStream DEF kernel
    <3>3. QED
      BY <3>1, <3>2
  <2>3. QED
    BY <2>1, <2>2
<1>4. ChildTypes'
  BY <1>1 DEF ChildInv, ChildTypes, kernel
<1>5. Bare'
  BY DEF ChildInv, Bare, CallOver, kernel
<1>6. \A u \in Stream : Stays(u)' /\ Placed(u)'
  <2>1. ASSUME NEW u \in Stream \ {s} PROVE Stays(u)' /\ Placed(u)'
    BY <1>1 DEF ChildInv, Stays, Placed, kernel
  <2>2. Placed(s)'
    BY DEF ChildInv, Placed, kernel
  <2>3. QED
    BY <2>1, <2>2
<1>7. QED
  BY ONLY <1>3, <1>4, <1>5, <1>6, Together

\* A reader that is finished: nothing of the leader's is left for it.
LEMMA EndedReader ==
    ASSUME ChildInv, NEW s \in Stream, rd[s].at = "reading",
           UNCHANGED <<kernel, proc, pipe, sup, sawExit, outcome, stopFlag>>,
           NEW r \in Reader, r = rd[s] \/ (stopFlag /\ r = [rd[s] EXCEPT !.budget = @ - 1]),
           ReaderEnds(s, r), stopFlag \/ proc["leader"] # "alive",
           LeadersAt(pipe[s]) = {}
    PROVE  ChildInv'
<1> DEFINE q == [r EXCEPT !.at = "done"]
<1>1. proc["leader"] # "alive"
  BY DEF ChildInv, Within
<1>2. /\ q \in Reader /\ q.at = "done" /\ q.got = r.got /\ q.cut = r.cut /\ q.budget = r.budget
      /\ q.artifact = r.artifact /\ q.failed = r.failed /\ q.stored = r.stored
  BY DEF Reader
<1>3. /\ r.got = rd[s].got /\ r.cut = rd[s].cut
      /\ r.artifact = rd[s].artifact /\ r.failed = rd[s].failed /\ r.stored = rd[s].stored
      /\ r.budget = rd[s].budget \/ stopFlag
  BY DEF ChildInv, ChildTypes, Reader
<1>4. rd' = [rd EXCEPT ![s] = q]
  BY DEF ReaderEnds
<1> HIDE DEF q
<1>5. rd'[s] = q
  BY <1>4 DEF ChildInv, ChildTypes
<1>6. Quiet(s)
  BY <1>1, <1>2, <1>3, <1>5 DEF Quiet, kernel
<1>7. Stays(s)'
  <2>1. kind = "tool" => sup \notin {"done"}
    BY DEF ChildInv, Placed
  <2>2. QED
    BY <1>2, <1>3, <1>5, <2>1 DEF ChildInv, Stays, kernel
<1>8. pipe' \in [Stream -> Seq(Process)] /\ \A u \in Stream \ {s} : pipe'[u] = pipe[u]
  BY DEF ChildInv, ChildTypes
<1>9. QED
  BY ONLY <1>2, <1>4, <1>6, <1>7, <1>8, ChildInv, s \in Stream, rd[s].at = "reading",
     UNCHANGED <<kernel, proc, sup, sawExit, outcome, stopFlag>>, ReaderStep

\* At the end of the file.
LEMMA EndOfFile ==
    ASSUME NEW s \in Stream, ChildTypes, ChildEnded(s)
    PROVE  proc["leader"] # "alive" /\ LeadersAt(pipe[s]) = {}
<1>1. proc["leader"] # "alive"
  BY DEF ChildEnded, Holds, Process
<1>2. pipe[s] = << >>
  BY DEF ChildEnded
<1>3. QED
  BY <1>1, <1>2 DEF LeadersAt

\* Git's readers.
LEMMA read_to_end_step ==
    ASSUME ChildInv, NEW s \in Stream, read_to_end(s)
    PROVE  ChildInv'
<1>1. /\ kind = "git" /\ rd[s].at = "reading"
      /\ UNCHANGED <<kernel, proc, sup, sawExit, outcome, stopFlag>>
  BY DEF read_to_end
<1>2. rd[s] \in Reader /\ pipe[s] \in Seq(Process) /\ ChildTypes
  BY DEF ChildInv, ChildTypes
<1>3. CASE ChildEnded(s) /\ ReaderEnds(s, rd[s]) /\ UNCHANGED pipe
  <2>1. proc["leader"] # "alive" /\ LeadersAt(pipe[s]) = {}
    BY <1>2, <1>3, EndOfFile
  <2>2. QED
    BY <1>1, <1>2, <1>3, <2>1, EndedReader
<1>4. CASE /\ pipe[s] # << >> /\ TakeChunk(s)
           /\ rd' = [rd EXCEPT ![s] = CountedChunk(@, s)]
  <2> DEFINE r == CountedChunk(rd[s], s)
  <2>1. /\ r \in Reader /\ r.at = "reading" /\ r.budget = rd[s].budget
        /\ r.got = IF Head(pipe[s]) = "leader" THEN rd[s].got + 1 ELSE rd[s].got
    BY <1>1, <1>2 DEF CountedChunk, Reader
  <2>2. rd' = [rd EXCEPT ![s] = r]
    BY <1>4
  <2> HIDE DEF r
  <2>3. /\ pipe'[s] = Tail(pipe[s]) /\ pipe' \in [Stream -> Seq(Process)]
        /\ \A u \in Stream \ {s} : pipe'[u] = pipe[u]
    BY <1>2, <1>4 DEF ChildTypes, TakeChunk
  <2>4. rd'[s] = r
    BY <1>2, <2>2 DEF ChildTypes
  <2>5. Taken(s)
    BY <1>1, <1>2, <1>4, <2>1, <2>3, <2>4 DEF Taken, kernel, Reader
  <2>6. Stays(s)'
    BY <1>1 DEF Stays, kernel
  <2>7. QED
    BY ONLY <1>1, <2>1, <2>2, <2>3, <2>5, <2>6, ChildInv, s \in Stream, ReaderStep
<1>5. QED
  BY <1>3, <1>4 DEF read_to_end

\* The readers of the GitHub command.
LEMMA read_bounded_step ==
    ASSUME ChildInv, NEW s \in Stream, read_bounded(s)
    PROVE  ChildInv'
<1>1. /\ kind = "github" /\ rd[s].at = "reading"
      /\ UNCHANGED <<kernel, proc, sup, sawExit, outcome, stopFlag>>
  BY DEF read_bounded
<1>2. rd[s] \in Reader /\ pipe[s] \in Seq(Process) /\ ChildTypes
  BY DEF ChildInv, ChildTypes
<1>3. CASE ChildEnded(s) /\ ReaderEnds(s, rd[s]) /\ UNCHANGED pipe
  <2>1. proc["leader"] # "alive" /\ LeadersAt(pipe[s]) = {}
    BY <1>2, <1>3, EndOfFile
  <2>2. QED
    BY <1>1, <1>2, <1>3, <2>1, EndedReader
<1>4. CASE /\ pipe[s] # << >> /\ TakeChunk(s)
           /\ rd' = [rd EXCEPT ![s] =
                      IF rd[s].stored < OutputLimit
                        THEN [CountedChunk(rd[s], s) EXCEPT !.stored = @ + 1]
                        ELSE [rd[s] EXCEPT !.cut = TRUE]]
  <2> DEFINE c == CountedChunk(rd[s], s)
             kept == [c EXCEPT !.stored = @ + 1]
             dropped == [rd[s] EXCEPT !.cut = TRUE]
             r == IF rd[s].stored < OutputLimit THEN kept ELSE dropped
  <2>1. /\ c \in Reader /\ c.at = "reading" /\ c.budget = rd[s].budget /\ c.cut = rd[s].cut
        /\ c.got = IF Head(pipe[s]) = "leader" THEN rd[s].got + 1 ELSE rd[s].got
    BY <1>1, <1>2 DEF CountedChunk, Reader
  <2>2. dropped \in Reader /\ dropped.at = "reading" /\ dropped.budget = rd[s].budget /\ dropped.cut
    BY <1>1, <1>2 DEF Reader
  <2>3. rd' = [rd EXCEPT ![s] = r]
    BY <1>4
  <2> HIDE DEF c, dropped
  <2>4. /\ kept \in Reader /\ kept.at = c.at /\ kept.budget = c.budget
        /\ kept.cut = c.cut /\ kept.got = c.got
    BY <2>1 DEF Reader
  <2> HIDE DEF kept
  <2>5. /\ r \in Reader /\ r.at = "reading" /\ r.budget = rd[s].budget
        /\ ~r.cut => /\ ~rd[s].cut
                     /\ r.got = IF Head(pipe[s]) = "leader" THEN rd[s].got + 1 ELSE rd[s].got
    BY <2>1, <2>2, <2>4
  <2> HIDE DEF r
  <2>6. /\ pipe'[s] = Tail(pipe[s]) /\ pipe' \in [Stream -> Seq(Process)]
        /\ \A u \in Stream \ {s} : pipe'[u] = pipe[u]
    BY <1>2, <1>4 DEF ChildTypes, TakeChunk
  <2>7. rd'[s] = r
    BY <1>2, <2>3 DEF ChildTypes
  <2>8. Taken(s)
    <3>1. rd[s].budget \in Nat /\ r.at # "done"
      BY <1>2, <2>5 DEF Reader
    <3>2. ~r.cut => /\ ~rd[s].cut
                    /\ rd'[s].got = IF Head(pipe[s]) = "leader" THEN rd[s].got + 1
                                    ELSE rd[s].got
      BY ONLY <2>5, <2>7
    <3>3. rd'[s].budget \in Nat /\ rd'[s].budget = rd[s].budget /\ rd'[s].at # "done"
      BY ONLY <2>5, <2>7, <3>1
    <3>4. IF stopFlag THEN rd'[s].budget >= rd[s].budget - 1 ELSE rd'[s].budget = rd[s].budget
      BY ONLY <3>1, <3>3
    <3>5. pipe[s] # << >> /\ said'[s] = said[s] /\ kind = "github"
      BY <1>1, <1>4 DEF kernel
    <3>6. QED
      BY <2>6, <2>7, <3>2, <3>3, <3>4, <3>5 DEF Taken
  <2>9. Stays(s)'
    BY <1>1 DEF Stays, kernel
  <2>10. QED
    BY ONLY <1>1, <2>3, <2>5, <2>6, <2>8, <2>9, ChildInv, s \in Stream, ReaderStep
<1>5. QED
  BY <1>3, <1>4, Zenon DEF read_bounded

\* What a tool's reader makes of a chunk: it is counted, and stored if there is
\* an artifact with room for it, or the artifact is marked.
LEMMA Stores ==
    ASSUME NEW r \in Reader
    PROVE  /\ Stored(r) \in Reader /\ Stored(r).at = r.at /\ Stored(r).budget = r.budget
           /\ Stored(r).got = r.got /\ Stored(r).failed = r.failed
           /\ Stored(r).artifact = r.artifact
           /\ r.artifact = "staged" =>
                Stored(r).stored = r.stored + 1 \/ (Stored(r).stored = r.stored /\ Stored(r).cut)
           /\ r.cut => Stored(r).cut
           /\ r.artifact # "staged" => Stored(r) = r
<1>1. CASE r.artifact # "staged"
  BY <1>1 DEF Stored, Reader
<1>2. CASE r.artifact = "staged" /\ r.stored < ArtifactLimit
  BY <1>2 DEF Stored, Reader
<1>3. CASE r.artifact = "staged" /\ ~(r.stored < ArtifactLimit)
  BY <1>3 DEF Stored, Reader
<1>4. QED
  BY <1>1, <1>2, <1>3

\* The readers of a tool.
LEMMA drain_step ==
    ASSUME ChildInv, NEW s \in Stream, drain(s)
    PROVE  ChildInv'
<1>1. /\ kind = "tool" /\ rd[s].at = "reading"
      /\ UNCHANGED <<kernel, proc, sup, sawExit, outcome, stopFlag>>
  BY DEF drain
<1>2. rd[s] \in Reader /\ pipe[s] \in Seq(Process) /\ ChildTypes
  BY DEF ChildInv, ChildTypes
<1>3. stopFlag => /\ proc["leader"] # "alive"
                  /\ \A k \in LeadersAt(pipe[s]) : k =< rd[s].budget
  BY DEF ChildInv, Within
<1>4. \A k \in LeadersAt(pipe[s]) : k \in Nat /\ k >= 1
  BY <1>2 DEF LeadersAt
<1>5. ~Exhausted(s) => /\ Charged(rd[s]) \in Reader /\ Charged(rd[s]).at = "reading"
                       /\ Charged(rd[s]) = rd[s] \/
                            (stopFlag /\ Charged(rd[s]) = [rd[s] EXCEPT !.budget = @ - 1])
  BY <1>1, <1>2 DEF Exhausted, Charged, Reader
<1>6. CASE Exhausted(s) /\ ReaderEnds(s, rd[s]) /\ UNCHANGED pipe
  <2>1. LeadersAt(pipe[s]) = {}
    BY <1>3, <1>4, <1>6 DEF Exhausted
  <2>2. stopFlag
    BY <1>6 DEF Exhausted
  <2>3. QED
    BY <1>1, <1>2, <1>6, <2>1, <2>2, EndedReader
<1>7. CASE ~Exhausted(s) /\ ChildEnded(s) /\ ReaderEnds(s, Charged(rd[s])) /\ UNCHANGED pipe
  <2>1. proc["leader"] # "alive" /\ LeadersAt(pipe[s]) = {}
    BY <1>2, <1>7, EndOfFile
  <2>2. PICK r \in Reader : r = Charged(rd[s])
    BY <1>5, <1>7
  <2>3. ReaderEnds(s, r) /\ (r = rd[s] \/ (stopFlag /\ r = [rd[s] EXCEPT !.budget = @ - 1]))
    BY <1>5, <1>7, <2>2
  <2>4. QED
    BY <1>1, <1>7, <2>1, <2>3, EndedReader
<1>8. CASE /\ ~Exhausted(s) /\ pipe[s] = << >> /\ stopFlag
           /\ ReaderEnds(s, Charged(rd[s])) /\ UNCHANGED pipe
  <2>1. LeadersAt(pipe[s]) = {}
    BY <1>8 DEF LeadersAt
  <2>2. PICK r \in Reader : r = Charged(rd[s])
    BY <1>5, <1>8
  <2>3. ReaderEnds(s, r) /\ (r = rd[s] \/ (stopFlag /\ r = [rd[s] EXCEPT !.budget = @ - 1]))
    BY <1>5, <1>8, <2>2
  <2>4. QED
    BY <1>1, <1>8, <2>1, <2>3, EndedReader
<1>9. ASSUME ~Exhausted(s), pipe[s] # << >>, TakeChunk(s),
             NEW r, r \in {Stored(CountedChunk(Charged(rd[s]), s)),
                           Unstored(CountedChunk(Charged(rd[s]), s))},
             NEW q, rd' = [rd EXCEPT ![s] = q], q = r \/ q = [r EXCEPT !.at = "sending"]
      PROVE  ChildInv'
  <2> DEFINE c == Charged(rd[s])
             d == CountedChunk(c, s)
  <2>1. /\ c \in Reader /\ c.at = "reading" /\ c.got = rd[s].got /\ c.stored = rd[s].stored
        /\ c.cut = rd[s].cut /\ c.failed = rd[s].failed /\ c.artifact = rd[s].artifact
        /\ IF stopFlag THEN c.budget = rd[s].budget - 1 ELSE c.budget = rd[s].budget
    BY <1>1, <1>2, <1>9 DEF Exhausted, Charged, Reader
  <2> HIDE DEF c
  <2>2. /\ d \in Reader /\ d.at = "reading" /\ d.budget = c.budget /\ d.stored = c.stored
        /\ d.cut = c.cut /\ d.failed = c.failed /\ d.artifact = c.artifact
        /\ d.got = IF Head(pipe[s]) = "leader" THEN c.got + 1 ELSE c.got
    BY <2>1 DEF CountedChunk, Reader
  <2>3. r \in {Stored(d), Unstored(d)}
    BY <1>9 DEF c
  <2> HIDE DEF d
  <2>4. /\ rd[s].artifact = "staged" \/ rd[s].failed
        /\ rd[s].stored >= rd[s].got \/ rd[s].cut \/ rd[s].failed
        /\ sup # "done" /\ sup \notin {"opened", "spawn"}
    <3>1. sup \notin {"start", "opened", "spawn", "abandon", "done"}
      BY <1>1 DEF ChildInv, Placed
    <3>2. QED
      BY <1>1, <3>1 DEF ChildInv, Stays
  <2>5. /\ r \in Reader /\ r.at = "reading" /\ r.budget = d.budget /\ r.got = d.got
        /\ r.artifact = "staged" \/ r.failed
        /\ r.stored >= r.got \/ r.cut \/ r.failed
    <3>1. CASE r = Stored(d)
      <4>1. CASE d.failed
        BY <2>2, <3>1, <4>1, Stores
      <4>2. CASE ~d.failed
        <5>1. d.artifact = "staged" /\ (d.stored + 1 >= d.got \/ d.cut)
          BY <2>1, <2>2, <2>4, <4>2 DEF Reader
        <5>2. /\ r \in Reader /\ r.at = d.at /\ r.budget = d.budget /\ r.got = d.got
              /\ r.artifact = d.artifact
              /\ r.stored = d.stored + 1 \/ r.cut
              /\ d.cut => r.cut
          BY <2>2, <3>1, <5>1, Stores
        <5>3. QED
          BY <2>2, <5>1, <5>2
      <4>3. QED
        BY <4>1, <4>2
    <3>2. CASE r = Unstored(d)
      BY <2>2, <3>2 DEF Unstored, Reader
    <3>3. QED
      BY <2>3, <3>1, <3>2
  <2>6. /\ q \in Reader /\ q.at # "done" /\ q.budget = r.budget /\ q.got = r.got
        /\ q.artifact = r.artifact /\ q.failed = r.failed /\ q.stored = r.stored
        /\ q.cut = r.cut
    BY <1>9, <2>5 DEF Reader
  <2>7. rd'[s] = q
    BY <1>2, <1>9 DEF ChildTypes
  <2>8. /\ pipe'[s] = Tail(pipe[s]) /\ pipe' \in [Stream -> Seq(Process)]
        /\ \A u \in Stream \ {s} : pipe'[u] = pipe[u]
    BY <1>2, <1>9 DEF ChildTypes, TakeChunk
  <2>9. Taken(s)
    <3>1. q.got = IF Head(pipe[s]) = "leader" THEN rd[s].got + 1 ELSE rd[s].got
      BY <2>1, <2>2, <2>5, <2>6
    <3>2. q.budget \in Nat
      BY <2>6 DEF Reader
    <3>3. IF stopFlag THEN q.budget >= rd[s].budget - 1 ELSE q.budget = rd[s].budget
      BY <1>2, <2>1, <2>2, <2>5, <2>6 DEF Reader
    <3>4. QED
      BY <1>1, <1>9, <2>6, <2>7, <2>8, <3>1, <3>2, <3>3 DEF Taken, kernel
  <2>10. Stays(s)'
    BY <1>1, <2>4, <2>5, <2>6, <2>7 DEF Stays
  <2>11. QED
    BY ONLY <1>1, <1>9, <2>6, <2>8, <2>9, <2>10, ChildInv, s \in Stream, ReaderStep
<1>10. ASSUME ~Exhausted(s), pipe[s] # << >>, TakeChunk(s),
              NEW r, r \in {Stored(CountedChunk(Charged(rd[s]), s)),
                            Unstored(CountedChunk(Charged(rd[s]), s))},
              rd' = [rd EXCEPT ![s] =
                       IF s = "err" /\ listening THEN [r EXCEPT !.at = "sending"] ELSE r]
       PROVE  ChildInv'
  <2>1. CASE s = "err" /\ listening
    <3>1. rd' = [rd EXCEPT ![s] = [r EXCEPT !.at = "sending"]]
      BY <1>10, <2>1, Zenon
    <3>2. QED
      BY <1>9, <1>10, <3>1, Zenon
  <2>2. CASE ~(s = "err" /\ listening)
    <3>1. rd' = [rd EXCEPT ![s] = r]
      BY <1>10, <2>2, Zenon
    <3>2. QED
      BY <1>9, <1>10, <3>1, Zenon
  <2>3. QED
    BY <2>1, <2>2
<1>11. \/ Exhausted(s) /\ ReaderEnds(s, rd[s]) /\ UNCHANGED pipe
       \/ ~Exhausted(s) /\ ChildEnded(s) /\ ReaderEnds(s, Charged(rd[s])) /\ UNCHANGED pipe
       \/ /\ ~Exhausted(s) /\ pipe[s] = << >> /\ stopFlag
          /\ ReaderEnds(s, Charged(rd[s])) /\ UNCHANGED pipe
       \/ /\ ~Exhausted(s) /\ pipe[s] # << >> /\ TakeChunk(s)
          /\ \E r \in {Stored(CountedChunk(Charged(rd[s]), s)),
                       Unstored(CountedChunk(Charged(rd[s]), s))} :
               rd' = [rd EXCEPT ![s] =
                        IF s = "err" /\ listening THEN [r EXCEPT !.at = "sending"] ELSE r]
  BY Zenon DEF drain
<1>12. QED
  BY <1>6, <1>7, <1>8, <1>10, <1>11, Zenon

-----------------------------------------------------------------------------
\* The theorem

LEMMA ChildStart == ChildInit => ChildInv
<1> SUFFICES ASSUME ChildInit PROVE ChildInv
  OBVIOUS
<1>1. ChildTypes
  <2>1. kind \in {"tool", "git", "github"} /\ asked = {}
    BY ChildConstants DEF ChildInit
  <2>2. rd \in [Stream -> Reader]
    BY ChildConstants DEF ChildInit, Reader
  <2>3. pipe \in [Stream -> Seq(Process)] /\ said \in [Stream -> Nat] /\ proc \in [Process -> Place]
    BY DEF ChildInit, Place
  <2>4. QED
    BY <2>1, <2>2, <2>3 DEF ChildInit, ChildTypes
<1>2. Bare
  BY DEF ChildInit, Bare, CallOver, Process
<1>3. ASSUME NEW s \in Stream
      PROVE  Counted(s) /\ Within(s) /\ ReadOut(s) /\ Stays(s) /\ Placed(s)
  <2>1. /\ rd[s].at = "none" /\ rd[s].budget = ReadsAfterStop /\ rd[s].got = 0
        /\ rd[s].stored = 0 /\ pipe[s] = << >> /\ said[s] = 0 /\ sup = "start"
        /\ outcome = "none" /\ ~stopFlag
    BY <1>3 DEF ChildInit
  <2>2. Len(pipe[s]) = 0 /\ LeadersAt(pipe[s]) = {} /\ pipe[s] \in Seq(Process)
    BY <2>1 DEF LeadersAt
  <2>3. Unread(pipe[s]) = 0
    BY <2>2, UnreadFinite
  <2>4. Counted(s)
    BY <2>1, <2>2, <2>3, ChildConstants DEF Counted
  <2>5. QED
    BY <2>1, <2>4 DEF Within, ReadOut, Stays, Placed
<1>4. QED
  BY <1>1, <1>2, <1>3 DEF ChildInv

LEMMA ChildKeeps == ChildInv /\ [ChildNext]_childVars => ChildInv'
<1> SUFFICES ASSUME ChildInv, [ChildNext]_childVars PROVE ChildInv'
  OBVIOUS
<1>1. CASE UNCHANGED childVars
  BY <1>1 DEF childVars, ChildInv, ChildTypes, Bare, CallOver, Counted, Within, ReadOut, Stays,
     Placed
<1>2. CASE Writes \/ Exits \/ Dies \/ Interrupts \/ send_segment
  BY ONLY <1>2, ChildInv, Writes_step, Exits_step, Dies_step, Interrupts_step, send_segment_step
<1>3. CASE Supervises
  <2>1. CASE \/ check_still_permitted \/ recheck \/ spawn \/ abandon \/ forward \/ try_wait
    BY ONLY <2>1, ChildInv, check_still_permitted_step, recheck_step, spawn_step, abandon_step,
       forward_step, try_wait_step
  <2>2. CASE \/ ExitSeen \/ terminate_and_collect \/ poll_again \/ reap \/ drain_until_read
             \/ preserve \/ finish_stream
    BY ONLY <2>2, ChildInv, ExitSeen_step, terminate_and_collect_step, poll_again_step,
       reap_step, drain_until_read_step, preserve_step, finish_stream_step
  <2>3. CASE GitStops \/ GitExits \/ GithubStops \/ GithubExits \/ Joined
    BY ONLY <2>3, ChildInv, GitStops_step, GitExits_step, GithubStops_step, GithubExits_step,
       Joined_step
  <2>4. QED
    BY <1>3, <2>1, <2>2, <2>3 DEF Supervises
<1>4. CASE Fails
  BY <1>4, spawn_fails_step, set_pipe_nonblocking_fails_step, WaitFails_step DEF Fails
<1>5. CASE \E s \in Stream : Reads(s)
  BY <1>5, drain_step, read_to_end_step, read_bounded_step DEF Reads
<1>6. QED
  BY <1>1, <1>2, <1>3, <1>4, <1>5 DEF ChildNext

LEMMA ChildSays == ChildInv => ChildTrue
<1> SUFFICES ASSUME ChildInv PROVE ChildTrue
  OBVIOUS
<1>1. NoOrphans
  BY DEF ChildInv, Bare, CallOver, NoOrphans
<1>2. ASSUME sup = "done", outcome = "exited", NEW s \in Stream
      PROVE  rd[s].got = said[s]
  <2>1. rd[s].at = "done" /\ (kind = "github" => ~rd[s].cut)
    BY <1>2 DEF ChildInv, Placed
  <2>2. LeadersAt(pipe[s]) = {} /\ said[s] = rd[s].got + Unread(pipe[s])
    BY <2>1 DEF ChildInv, ReadOut, Counted
  <2>3. pipe[s] \in Seq(Process) /\ rd[s].got \in Nat
    BY DEF ChildInv, ChildTypes, Reader
  <2>4. Unread(pipe[s]) = 0
    BY <2>2, <2>3, UnreadFinite
  <2>5. QED
    BY <2>2, <2>3, <2>4
<1>3. ASSUME sup = "done", kind = "tool", NEW s \in Stream,
             outcome \in {"exited", "timeout", "cancelled", "deadline"}
      PROVE  /\ rd[s].artifact = "kept" \/ rd[s].failed
             /\ rd[s].stored < rd[s].got => rd[s].cut \/ rd[s].failed
  BY <1>3 DEF ChildInv, ChildTypes, Reader, Stays
<1>4. OutputTrue
  BY <1>2, <1>3 DEF OutputTrue
<1>5. QED
  BY <1>1, <1>4 DEF ChildTrue

\* Whatever a supervised child and the processes it starts write, and however
\* the call ends, an exit is reported with all of the leader's output, a tool's
\* artifacts are complete or marked, and no process of the group outlives the
\* call (process.rs:639-661, backend.rs:2653-2655, runner.rs:193-194).
THEOREM ChildrenAreTrue == ChildSpec => []ChildTrue
<1>1. ChildSpec => []ChildInv
  BY ChildStart, ChildKeeps, PTL DEF ChildSpec
<1>2. QED
  BY <1>1, ChildSays, PTL
=============================================================================
