--------------------------- MODULE SchedulerProofs ---------------------------
(* Proofs about Scheduler, for any set of submissions, any worktrees, any    *)
(* capacities and any number of Workspace objects.                           *)
EXTENDS Scheduler, FiniteSetTheorems, SequenceTheorems, TLAPS

-----------------------------------------------------------------------------
\* Sequences without repetition: what joining, leaving and sweeping a queue
\* does to the submissions in it.

\* A submission that was not in the queue joins it at the end.
LEMMA AppendNew ==
    ASSUME NEW T, NEW q \in Seq(T), NEW x \in T
    PROVE  /\ Append(q, x) \in Seq(T)
           /\ Range(Append(q, x)) = Range(q) \cup {x}
           /\ IsInjective(q) /\ x \notin Range(q) => IsInjective(Append(q, x))
<1>1. /\ Append(q, x) \in Seq(T) /\ Len(q) \in Nat
      /\ DOMAIN q = 1 .. Len(q) /\ DOMAIN Append(q, x) = 1 .. Len(q) + 1
      /\ \A n \in 1 .. Len(q) : Append(q, x)[n] = q[n]
      /\ Append(q, x)[Len(q) + 1] = x
  OBVIOUS
<1>2. DOMAIN Append(q, x) = DOMAIN q \cup {Len(q) + 1}
  BY <1>1
<1>3. QED
  BY <1>1, <1>2 DEF Range, IsInjective

\* The first submission leaves the queue.
LEMMA HeadTail ==
    ASSUME NEW T, NEW q \in Seq(T), q # <<>>
    PROVE  /\ Head(q) \in T /\ Head(q) \in Range(q)
           /\ Tail(q) \in Seq(T)
           /\ Len(Tail(q)) = Len(q) - 1
           /\ Range(q) = Range(Tail(q)) \cup {Head(q)}
           /\ IsInjective(q) => IsInjective(Tail(q)) /\ Head(q) \notin Range(Tail(q))
<1>1. /\ Head(q) \in T /\ Tail(q) \in Seq(T)
      /\ Len(Tail(q)) = Len(q) - 1 /\ Len(q) \in Nat /\ Len(q) > 0
  OBVIOUS
<1>2. Head(q) = q[1] /\ \A n \in 1 .. Len(q) - 1 : Tail(q)[n] = q[n + 1]
  OBVIOUS
<1>3. DOMAIN q = 1 .. Len(q) /\ DOMAIN Tail(q) = 1 .. Len(q) - 1
  BY <1>1
<1>4. \A n \in DOMAIN q : n = 1 \/ (n - 1 \in DOMAIN Tail(q) /\ q[n] = Tail(q)[n - 1])
  BY <1>1, <1>2, <1>3
<1>5. \A n \in DOMAIN Tail(q) : n + 1 \in DOMAIN q /\ Tail(q)[n] = q[n + 1]
  BY <1>1, <1>2, <1>3
<1>6. 1 \in DOMAIN q
  BY <1>1, <1>3
<1>7. Range(q) = Range(Tail(q)) \cup {Head(q)}
  <2>1. ASSUME NEW n \in DOMAIN q PROVE q[n] \in Range(Tail(q)) \cup {Head(q)}
    BY <1>2, <1>4 DEF Range
  <2>2. Range(Tail(q)) \subseteq Range(q) /\ Head(q) \in Range(q)
    BY <1>2, <1>5, <1>6 DEF Range
  <2>3. QED
    BY <2>1, <2>2 DEF Range
<1>8. ASSUME IsInjective(q) PROVE IsInjective(Tail(q)) /\ Head(q) \notin Range(Tail(q))
  BY <1>8, <1>1, <1>2, <1>3, <1>5, <1>6 DEF Range, IsInjective
<1>9. QED
  BY <1>1, <1>2, <1>6, <1>7, <1>8 DEF Range

\* A list without entries is the empty one.
LEMMA NoEntries ==
    ASSUME NEW T, NEW q \in Seq(T)
    PROVE  q = <<>> <=> Len(q) = 0
  BY EmptySeq

\* A list is down to its last entry exactly when its tail is empty.
LEMMA LastEntry ==
    ASSUME NEW T, NEW q \in Seq(T), q # <<>>
    PROVE  Len(q) = 1 <=> Tail(q) = <<>>
<1>1. Tail(q) \in Seq(T) /\ Len(Tail(q)) = Len(q) - 1 /\ Len(q) \in Nat
  BY HeadTail
<1>2. Tail(q) = <<>> <=> Len(Tail(q)) = 0
  BY <1>1, NoEntries
<1>3. QED
  BY <1>1, <1>2

\* Only picks exactly the elements it is asked for, each once.
LEMMA OnlyKeeps ==
    ASSUME NEW T, NEW q \in Seq(T), NEW S
    PROVE  /\ Only(q, S) \in Seq(T \cap S)
           /\ Range(Only(q, S)) = Range(q) \cap S
           /\ IsInjective(q) => IsInjective(Only(q, S))
<1> DEFINE at == {n \in DOMAIN q : q[n] \in S}
           upTo(m) == {n \in at : n <= m}
           place == [m \in at |-> Cardinality(upTo(m))]
           K == Cardinality(at)
           pick == [n \in 1 .. K |-> CHOOSE m \in at : Cardinality(upTo(m)) = n]
<1>1. /\ IsFiniteSet(at) /\ K \in Nat
      /\ \A m \in at : IsFiniteSet(upTo(m)) /\ Cardinality(upTo(m)) \in 0 .. K
  <2>1. IsFiniteSet(at)
    BY FS_Interval, FS_Subset
  <2>2. \A m \in at : upTo(m) \in SUBSET at
    OBVIOUS
  <2>3. QED
    BY <2>1, <2>2, FS_Subset, FS_CardinalityType
<1>2. ASSUME NEW m \in at
      PROVE  Cardinality(upTo(m)) = Cardinality({n \in at : n < m}) + 1
  <2>1. IsFiniteSet({n \in at : n < m})
    BY <1>1, FS_Subset
  <2>2. upTo(m) = {n \in at : n < m} \cup {m}
    OBVIOUS
  <2>3. QED
    BY <2>1, <2>2, FS_AddElement
<1>3. ASSUME NEW l \in at, NEW m \in at, l < m
      PROVE  Cardinality(upTo(l)) < Cardinality(upTo(m))
  <2>1. upTo(l) \in SUBSET {n \in at : n < m} /\ IsFiniteSet({n \in at : n < m})
    BY <1>1, <1>3, FS_Subset
  <2>2. Cardinality(upTo(l)) <= Cardinality({n \in at : n < m})
    BY <2>1, FS_Subset
  <2>3. Cardinality(upTo(l)) \in Nat /\ Cardinality({n \in at : n < m}) \in Nat
    BY <1>1, <2>1, FS_CardinalityType
  <2>4. QED
    BY <2>2, <2>3, <1>2
<1>4. place \in Injection(at, 1 .. K)
  <2>1. \A m \in at : Cardinality(upTo(m)) \in 1 .. K
    <3> TAKE m \in at
    <3>1. Cardinality({n \in at : n < m}) \in Nat
      BY <1>1, FS_Subset, FS_CardinalityType
    <3>2. QED
      BY <3>1, <1>1, <1>2
  <2>2. \A l, m \in at : place[l] = place[m] => l = m
    <3> TAKE l \in at, m \in at
    <3>1. l \in Nat /\ m \in Nat
      OBVIOUS
    <3>2. place[l] \in Nat /\ place[m] \in Nat
      <4>1. place[l] = Cardinality(upTo(l)) /\ place[m] = Cardinality(upTo(m))
        OBVIOUS
      <4>2. Cardinality(upTo(l)) \in 0 .. K /\ Cardinality(upTo(m)) \in 0 .. K
        BY <1>1
      <4> HIDE DEF at, upTo, place, K
      <4>3. QED
        BY <4>1, <4>2
    <3>3. l < m => place[l] < place[m]
      BY <1>3
    <3>4. m < l => place[m] < place[l]
      BY <1>3
    <3> HIDE DEF at, place
    <3>5. QED
      BY <3>1, <3>2, <3>3, <3>4
  <2>3. QED
    BY <2>1, <2>2 DEF Injection, IsInjective
<1>5. place \in Surjection(at, 1 .. K)
  <2>1. IsFiniteSet(1 .. K) /\ Cardinality(1 .. K) = K
    BY <1>1, FS_Interval
  <2>2. QED
    BY <1>1, <1>4, <2>1, FS_Injection
<1>6. \A n \in 1 .. K : pick[n] \in at /\ place[pick[n]] = n
  <2> TAKE n \in 1 .. K
  <2>1. PICK m \in at : place[m] = n
    BY <1>5 DEF Surjection
  <2>2. Cardinality(upTo(m)) = n
    BY <2>1
  <2> HIDE DEF at, upTo, K
  <2>3. QED
    BY <2>2
<1>7. \A m \in at : place[m] \in 1 .. K /\ pick[place[m]] = m
  <2> TAKE m \in at
  <2>1. place[m] \in 1 .. K
    BY <1>4 DEF Injection
  <2>2. pick[place[m]] \in at /\ place[pick[place[m]]] = place[m]
    BY <2>1, <1>6
  <2> HIDE DEF at, pick, place, K
  <2>3. QED
    BY <2>1, <2>2, <1>4 DEF Injection, IsInjective
<1> DEFINE r == [n \in 1 .. K |-> q[pick[n]]]
<1>8. Only(q, S) = r
  BY DEF Only
<1>9. r \in Seq(T \cap S)
  <2>1. \A n \in 1 .. K : q[pick[n]] \in T \cap S
    <3>1. \A m \in at : q[m] \in T \cap S
      OBVIOUS
    <3> HIDE DEF at, pick, K
    <3>2. QED
      BY <3>1, <1>6
  <2>2. K \in Nat
    BY <1>1
  <2> HIDE DEF pick, K
  <2>3. \A k \in Nat : \A f \in [1 .. k -> T \cap S] : f \in Seq(T \cap S)
    OBVIOUS
  <2>4. r \in [1 .. K -> T \cap S]
    BY <2>1
  <2> HIDE DEF r
  <2>5. QED
    BY <2>2, <2>3, <2>4
<1>10. Range(r) = Range(q) \cap S
  <2>1. \A n \in 1 .. K : r[n] \in Range(q) \cap S
    BY <1>6 DEF Range
  <2>2. ASSUME NEW x \in Range(q) \cap S PROVE x \in Range(r)
    <3>1. PICK m \in DOMAIN q : q[m] = x
      BY DEF Range
    <3>2. m \in at
      BY <3>1
    <3>3. place[m] \in 1 .. K /\ r[place[m]] = x
      BY <3>1, <3>2, <1>7
    <3>4. QED
      BY <3>3 DEF Range
  <2>3. \A x : x \in Range(r) <=> \E n \in 1 .. K : r[n] = x
    BY DEF Range
  <2> HIDE DEF r, K
  <2>4. QED
    BY <2>1, <2>2, <2>3
<1>11. ASSUME IsInjective(q) PROVE IsInjective(r)
  <2> SUFFICES ASSUME NEW a \in 1 .. K, NEW b \in 1 .. K, r[a] = r[b] PROVE a = b
    BY DEF IsInjective
  <2>1. pick[a] \in DOMAIN q /\ pick[b] \in DOMAIN q /\ q[pick[a]] = q[pick[b]]
    BY <1>6
  <2>2. pick[a] = pick[b]
    BY <2>1, <1>11 DEF IsInjective
  <2>3. QED
    BY <2>2, <1>6
<1>12. QED
  BY <1>8, <1>9, <1>10, <1>11

-----------------------------------------------------------------------------
\* Where a submission is

\* The submitter has put its call in a queue, whatever became of it since.
Joined == {"admit", "check", "stopping", "returned"}

\* The places of a submission exclude each other and agree with where its
\* submitter and its worker are.
Located ==
    \A s \in Sub, i \in Inst :
        /\ s \in waiting[i] <=> spc[s] = "parked" /\ inst[s] = i
        /\ s \in Range(queue[i]) => inst[s] = i /\ spc[s] \in Joined /\ wpc[s] = "none"
        /\ s \in running[i] <=> wpc[s] \in {"ready", "executing"} /\ inst[s] = i

\* No call is queued twice.
NoRepeats == \A i \in Inst : IsInjective(queue[i])

\* Threads of a submission that joined have an object; the thread inside
\* `stop` for a submission is its submitter; nobody works on an empty list.
Threads ==
    /\ \A s \in Sub :
         /\ spc[s] \in Joined \cup {"parked"} => inst[s] \in Inst
         /\ wpc[s] # "none" => spc[s] \in Joined
         /\ wpc[s] \in {"pump", "admit"} => todo[s] # <<>>
         /\ tpc[s] # "idle" => spc[s] \in {"stopping", "returned"}
    /\ \A t \in Stopper :
         /\ tpc[t] = "sweep" => list[t] # <<>>
         /\ tpc[t] = "admit" => swept[t] # <<>>

Placed == TypeOK /\ Located /\ NoRepeats /\ Threads

-----------------------------------------------------------------------------
\* The call of a submission is one of the calls.
LEMMA CallInRange == \A s \in Sub : CallOf[s] \in Range(CallOf)
  BY SchedulerAssumption DEF Range

\* Submissions, runs and the shutdown have a thread inside `stop` each.
LEMMA StopperHas == Sub \subseteq Stopper /\ Run \subseteq Stopper /\ ShutdownThread \in Stopper
  BY DEF Stopper

\* The list `stop` and pump_in_turn work on: the objects the map names.
LEMMA LiveListed ==
    ASSUME map \in [Key -> Inst \cup {NoInst}]
    PROVE  /\ LiveWorkspaces \in Seq(Inst)
           /\ Range(LiveWorkspaces) = Range(map) \cap Inst
           /\ LiveWorkspaces = <<>> => Range(map) \cap Inst = {}
<1>1. map \in Seq(Inst \cup {NoInst})
  BY SchedulerAssumption DEF Key
<1>2. /\ LiveWorkspaces \in Seq((Inst \cup {NoInst}) \cap Inst)
      /\ Range(LiveWorkspaces) = Range(map) \cap Inst
  BY <1>1, OnlyKeeps DEF LiveWorkspaces
<1>3. (Inst \cup {NoInst}) \cap Inst = Inst
  OBVIOUS
<1>4. Range(<<>>) = {}
  BY DEF Range
<1>5. QED
  BY <1>2, <1>3, <1>4

\* pump_in_turn never works on an empty list.
LEMMA PumpListed ==
    ASSUME map \in [Key -> Inst \cup {NoInst}], sweep \in Nat, NEW i \in Inst
    PROVE  PumpList(i) \in Seq(Inst) /\ PumpList(i) # <<>>
<1> DEFINE all == IF i \in Range(map) THEN LiveWorkspaces ELSE Append(LiveWorkspaces, i)
           n == sweep % Len(all)
<1>1. all \in Seq(Inst) /\ all # <<>>
  BY LiveListed
<1>2. PumpList(i) = SubSeq(all, n + 1, Len(all)) \o SubSeq(all, 1, n)
  BY DEF PumpList, RotateLeft
<1> HIDE DEF all
<1>3. n \in 0 .. Len(all) - 1
  <2>1. Len(all) \in Nat /\ Len(all) > 0
    BY <1>1
  <2>2. QED
    BY <2>1
<1>4. /\ SubSeq(all, n + 1, Len(all)) \in Seq(Inst)
      /\ Len(SubSeq(all, n + 1, Len(all))) = Len(all) - n
      /\ SubSeq(all, 1, n) \in Seq(Inst)
  <2>1. n \in Nat /\ Len(all) \in Nat /\ \A k \in 1 .. Len(all) : all[k] \in Inst
    BY <1>1, <1>3
  <2> HIDE DEF n
  <2>2. QED
    BY <1>3, <2>1, SubSeqProperties
<1>5. QED
  <2> DEFINE front == SubSeq(all, n + 1, Len(all))
             back == SubSeq(all, 1, n)
  <2>1. Len(front) > 0
    BY <1>1, <1>3, <1>4
  <2>2. front \in Seq(Inst) /\ back \in Seq(Inst) /\ PumpList(i) = front \o back
    BY <1>2, <1>4
  <2> HIDE DEF front, back
  <2>3. front # <<>>
    BY <2>1
  <2>4. QED
    BY <2>2, <2>3

\* Settling one removed call leaves what `stop` removed well formed.
LEMMA SettleOne ==
    ASSUME NEW t \in Stopper, swept \in [Stopper -> Seq([ws : Inst, removed : Seq(Sub)])],
           swept[t] # <<>>, Head(swept[t]).removed # <<>>
    PROVE  LET rest == [swept EXCEPT ![t][1].removed = Tail(@)]
           IN  /\ rest \in [Stopper -> Seq([ws : Inst, removed : Seq(Sub)])]
               /\ \A u \in Stopper : DOMAIN rest[u] = DOMAIN swept[u]
               /\ \A u \in Stopper : \A n \in DOMAIN swept[u] :
                    rest[u][n].removed = IF u = t /\ n = 1 THEN Tail(swept[t][1].removed)
                                                          ELSE swept[u][n].removed
<1> DEFINE entry == [swept[t][1] EXCEPT !.removed = Tail(@)]
           mine == [swept[t] EXCEPT ![1] = entry]
           rest == [swept EXCEPT ![t][1].removed = Tail(@)]
<1> DEFINE Entry == [ws : Inst, removed : Seq(Sub)]
<1>1. /\ 1 \in 1 .. Len(swept[t]) /\ swept[t][1] \in Entry
      /\ DOMAIN swept[t] = 1 .. Len(swept[t]) /\ Head(swept[t]) = swept[t][1]
  <2> HIDE DEF Entry
  <2>1. swept[t] \in Seq(Entry)
    BY DEF Entry
  <2>2. QED
    BY <2>1
<1>2. entry \in Entry /\ entry.removed = Tail(swept[t][1].removed)
  <2>1. Tail(swept[t][1].removed) \in Seq(Sub)
    BY <1>1
  <2>2. QED
    BY <1>1, <2>1
<1>3. /\ mine \in Seq(Entry)
      /\ DOMAIN mine = DOMAIN swept[t]
      /\ \A n \in DOMAIN swept[t] : mine[n] = IF n = 1 THEN entry ELSE swept[t][n]
  <2>1. swept[t] \in Seq(Entry)
    OBVIOUS
  <2> HIDE DEF entry, Entry
  <2>2. QED
    BY <1>1, <1>2, <2>1, ExceptSeq
<1>4. rest = [swept EXCEPT ![t] = mine]
  OBVIOUS
<1> HIDE DEF mine, entry, rest
<1>5. /\ rest \in [Stopper -> Seq([ws : Inst, removed : Seq(Sub)])]
      /\ \A u \in Stopper : rest[u] = IF u = t THEN mine ELSE swept[u]
  BY <1>3, <1>4
<1>6. QED
  BY <1>2, <1>3, <1>5 DEF rest

-----------------------------------------------------------------------------
\* Every step keeps every submission placed.

\* What a submitter does under the mutex once the backpressure loop lets it
\* go: its call takes the last place of one queue, or leaves the scheduler.
LEMMA JoinKeepsPlaced ==
    ASSUME Placed, NEW s \in Sub, NEW i \in Inst, JoinQueue(s, i),
           spc[s] = "claimed" \/ (spc[s] = "parked" /\ inst[s] = i),
           map' \in [Key -> Inst \cup {NoInst}],
           waiting' \in [Inst -> SUBSET Sub],
           \A u \in Sub, j \in Inst : u \in waiting'[j] <=> u \in waiting[j] /\ u # s,
           UNCHANGED <<running, inUse, live, sweep, shutting, tokens, ticket,
                       wpc, todo, tpc, list, swept, targets>>
    PROVE  Placed'
<1>1. /\ queue \in [Inst -> Seq(Sub)] /\ spc \in [Sub -> SubmitPC]
      /\ inst \in [Sub -> Inst \cup {NoInst}] /\ wpc \in [Sub -> WorkerPC]
  BY DEF Placed, TypeOK
<1>2. wpc[s] = "none" /\ \A j \in Inst : s \notin Range(queue[j]) /\ s \notin running[j]
  BY <1>1 DEF Placed, Located, Threads, Joined
<1>3. CASE shutting
  <2>1. /\ claimed' = claimed \ {CallOf[s]} /\ UNCHANGED <<queue, locked>>
        /\ spc' = [spc EXCEPT ![s] = "refused"]
        /\ inst' = [inst EXCEPT ![s] = NoInst]
    BY <1>3 DEF JoinQueue
  <2>2. TypeOK'
    <3>1. spc' \in [Sub -> SubmitPC]
      BY <1>1, <2>1 DEF SubmitPC
    <3>2. QED
      BY <2>1, <3>1 DEF Placed, TypeOK
  <2>3. Located'
    BY <1>1, <1>2, <2>1 DEF Placed, Located, Joined
  <2>4. Threads'
    BY <1>1, <1>2, <2>1, StopperHas DEF Placed, Threads, Joined
  <2>5. QED
    BY <2>1, <2>2, <2>3, <2>4 DEF Placed, NoRepeats
<1>4. CASE ~shutting
  <2>1. /\ queue' = [queue EXCEPT ![i] = Append(@, s)]
        /\ locked' = locked \cup {i} /\ claimed' = claimed
        /\ spc' = [spc EXCEPT ![s] = "admit"]
        /\ inst' = [inst EXCEPT ![s] = i]
    BY <1>4 DEF JoinQueue
  <2>2. /\ Append(queue[i], s) \in Seq(Sub)
        /\ Range(Append(queue[i], s)) = Range(queue[i]) \cup {s}
        /\ IsInjective(Append(queue[i], s))
    BY <1>1, <1>2, AppendNew DEF Placed, NoRepeats
  <2>3. TypeOK'
    <3>1. spc' \in [Sub -> SubmitPC] /\ inst' \in [Sub -> Inst \cup {NoInst}]
          /\ queue' \in [Inst -> Seq(Sub)]
      BY <1>1, <2>1, <2>2 DEF SubmitPC
    <3>2. QED
      BY <2>1, <3>1 DEF Placed, TypeOK
  <2>4. Located'
    BY <1>1, <1>2, <2>1, <2>2 DEF Placed, Located, Joined
  <2>5. NoRepeats'
    BY <1>1, <2>1, <2>2 DEF Placed, NoRepeats
  <2>6. Threads'
    BY <1>1, <1>2, <2>1, StopperHas DEF Placed, Threads, Joined
  <2>7. QED
    BY <2>3, <2>4, <2>5, <2>6 DEF Placed
<1>5. QED
  BY <1>3, <1>4

\* Taking a list of workspaces to stop: nobody moves.
LEMMA CollectKeepsPlaced ==
    ASSUME Placed, NEW t \in Stopper, StopCollect(t),
           t \in Sub => spc'[t] = "stopping",
           spc' = spc \/ (t \in Sub /\ spc[t] = "check" /\ spc' = [spc EXCEPT ![t] = "stopping"]),
           UNCHANGED <<workspaceVars, counterVars, inst, workerVars>>
    PROVE  Placed'
<1> USE DEF workspaceVars, counterVars, workerVars
<1>1. /\ spc \in [Sub -> SubmitPC] /\ list \in [Stopper -> Seq(Inst)]
      /\ tpc \in [Stopper -> StopPC] /\ targets \in [Stopper -> SUBSET Sub]
  BY DEF Placed, TypeOK
<1>2. LiveWorkspaces \in Seq(Inst)
  BY LiveListed DEF Placed, TypeOK
<1>3. /\ list' = [list EXCEPT ![t] = LiveWorkspaces]
      /\ tpc' = [tpc EXCEPT ![t] = IF LiveWorkspaces = <<>> THEN "settle" ELSE "sweep"]
      /\ UNCHANGED swept
      /\ targets' \in [Stopper -> SUBSET Sub]
  BY <1>1 DEF StopCollect
<1>4. TypeOK'
  <2>1. /\ spc' \in [Sub -> SubmitPC] /\ list' \in [Stopper -> Seq(Inst)]
        /\ tpc' \in [Stopper -> StopPC]
    BY <1>1, <1>2, <1>3 DEF SubmitPC, StopPC
  <2>2. QED
    BY <1>3, <2>1 DEF Placed, TypeOK
<1>5. Located' /\ NoRepeats'
  BY <1>1 DEF Placed, Located, NoRepeats, Joined
<1>6. Threads'
  BY <1>1, <1>3, StopperHas DEF Placed, Threads, Joined
<1>7. QED
  BY <1>4, <1>5, <1>6 DEF Placed

\* Whoever dispatches an object: its admitted calls get their workers.
LEMMA SpawnKeepsPlaced ==
    ASSUME Placed, NEW i \in Inst, locked' \subseteq Inst,
           spc' \in [Sub -> SubmitPC], tpc' \in [Stopper -> StopPC],
           swept' \in [Stopper -> Seq([ws : Inst, removed : Seq(Sub)])],
           \A u \in Sub : spc'[u] = spc[u] \/ (spc[u] \in Joined /\ spc'[u] \in Joined),
           wpc' = Spawned(i),
           Threads',
           UNCHANGED <<map, queue, running, waiting, counterVars, inst, todo, list, targets>>
    PROVE  Placed'
<1> USE DEF counterVars
<1>1. spc \in [Sub -> SubmitPC] /\ wpc \in [Sub -> WorkerPC]
  BY DEF Placed, TypeOK
<1>2. wpc' \in [Sub -> WorkerPC]
  BY <1>1 DEF Spawned, WorkerPC
<1>3. TypeOK'
  BY <1>2 DEF Placed, TypeOK
<1>4. Located'
  BY <1>1 DEF Placed, Located, Spawned, Joined
<1>5. QED
  BY <1>3, <1>4 DEF Placed, NoRepeats

\* A submitter's step, from Scheduler::submit's first look at the claim to its
\* return, moves only its own submission, and only where Placed allows.
LEMMA SubmitKeepsPlaced ==
    ASSUME Placed, NEW s \in Sub, Submit(s)
    PROVE  Placed'
<1> USE DEF workspaceVars, counterVars, submitVars, workerVars, stopVars
<1>1. ASSUME SubmitRefused(s) PROVE Placed'
  <2> USE <1>1 DEF SubmitRefused
  <2>1. TypeOK'
    BY DEF Placed, TypeOK, SubmitPC
  <2>2. Located' /\ NoRepeats' /\ Threads'
    BY StopperHas DEF Placed, TypeOK, Located, NoRepeats, Threads, Joined
  <2>3. QED
    BY <2>1, <2>2 DEF Placed
<1>2. ASSUME SubmitClaim(s) PROVE Placed'
  <2> USE <1>2 DEF SubmitClaim
  <2>1. TypeOK'
    BY CallInRange DEF Placed, TypeOK, SubmitPC
  <2>2. Located' /\ NoRepeats' /\ Threads'
    BY StopperHas DEF Placed, TypeOK, Located, NoRepeats, Threads, Joined
  <2>3. QED
    BY <2>1, <2>2 DEF Placed
<1>3. ASSUME SubmitLoadFails(s) PROVE Placed'
  <2> USE <1>3 DEF SubmitLoadFails
  <2>1. TypeOK'
    BY DEF Placed, TypeOK, SubmitPC
  <2>2. Located' /\ NoRepeats' /\ Threads'
    BY StopperHas DEF Placed, TypeOK, Located, NoRepeats, Threads, Joined
  <2>3. QED
    BY <2>1, <2>2 DEF Placed
<1>4. ASSUME SubmitEnter(s) PROVE Placed'
  <2>1. PICK i \in Inst :
          /\ map' = [map EXCEPT ![KeyOf[s]] = i]
          /\ \/ /\ waiting' = [waiting EXCEPT ![i] = @ \cup {s}]
                /\ spc' = [spc EXCEPT ![s] = "parked"]
                /\ inst' = [inst EXCEPT ![s] = i]
                /\ UNCHANGED <<queue, locked, claimed>>
             \/ JoinQueue(s, i) /\ UNCHANGED waiting
    BY <1>4 DEF SubmitEnter
  <2>2. /\ spc[s] = "claimed"
        /\ UNCHANGED <<running, inUse, live, sweep, shutting, tokens, ticket,
                       wpc, todo, tpc, list, swept, targets>>
    BY <1>4 DEF SubmitEnter
  <2>3. /\ map' \in [Key -> Inst \cup {NoInst}]
        /\ waiting \in [Inst -> SUBSET Sub] /\ spc \in [Sub -> SubmitPC]
        /\ inst \in [Sub -> Inst \cup {NoInst}]
    BY <2>1 DEF Placed, TypeOK
  <2>4. CASE JoinQueue(s, i) /\ UNCHANGED waiting
    <3>1. \A u \in Sub, j \in Inst : u \in waiting'[j] <=> u \in waiting[j] /\ u # s
      BY <2>2, <2>4 DEF Placed, Located
    <3>2. QED
      BY <2>2, <2>3, <2>4, <3>1, JoinKeepsPlaced
  <2>5. CASE /\ waiting' = [waiting EXCEPT ![i] = @ \cup {s}]
             /\ spc' = [spc EXCEPT ![s] = "parked"]
             /\ inst' = [inst EXCEPT ![s] = i]
             /\ UNCHANGED <<queue, locked, claimed>>
    <3>1. wpc[s] = "none" /\ \A j \in Inst : s \notin Range(queue[j]) /\ s \notin running[j]
      BY <2>2 DEF Placed, Located, Threads, Joined
    <3>2. TypeOK'
      <4>1. /\ waiting' \in [Inst -> SUBSET Sub] /\ spc' \in [Sub -> SubmitPC]
            /\ inst' \in [Sub -> Inst \cup {NoInst}]
        BY <2>3, <2>5 DEF SubmitPC
      <4>2. QED
        BY <2>2, <2>3, <2>5, <4>1 DEF Placed, TypeOK
    <3>3. Located'
      BY <2>2, <2>3, <2>5, <3>1 DEF Placed, Located, Joined
    <3>4. Threads'
      BY <2>2, <2>3, <2>5, <3>1, StopperHas DEF Placed, Threads, Joined
    <3>5. QED
      BY <2>5, <3>2, <3>3, <3>4 DEF Placed, NoRepeats
  <2>6. QED
    BY <2>1, <2>4, <2>5
<1>5. ASSUME SubmitWake(s) PROVE Placed'
  <2>1. /\ spc[s] = "parked" /\ JoinQueue(s, inst[s])
        /\ waiting' = [waiting EXCEPT ![inst[s]] = @ \ {s}]
        /\ UNCHANGED <<map, running, inUse, live, sweep, shutting, tokens, ticket,
                       wpc, todo, tpc, list, swept, targets>>
    BY <1>5 DEF SubmitWake
  <2>2. inst[s] \in Inst /\ waiting \in [Inst -> SUBSET Sub] /\ map' \in [Key -> Inst \cup {NoInst}]
    BY <2>1 DEF Placed, TypeOK, Threads
  <2>3. /\ waiting' \in [Inst -> SUBSET Sub]
        /\ \A u \in Sub, j \in Inst : u \in waiting'[j] <=> u \in waiting[j] /\ u # s
    BY <2>1, <2>2 DEF Placed, Located
  <2>4. QED
    BY <2>1, <2>2, <2>3, JoinKeepsPlaced
<1>6. ASSUME SubmitDispatch(s) PROVE Placed'
  <2>1. /\ spc[s] = "admit" /\ spc' = [spc EXCEPT ![s] = "check"]
        /\ locked' = locked \ {inst[s]} /\ wpc' = Spawned(inst[s])
        /\ UNCHANGED <<map, queue, running, waiting, counterVars, inst, todo, stopVars>>
    BY <1>6 DEF SubmitDispatch, EndAdmit
  <2>2. /\ inst[s] \in Inst /\ locked' \subseteq Inst
        /\ spc \in [Sub -> SubmitPC] /\ spc' \in [Sub -> SubmitPC]
        /\ tpc' \in [Stopper -> StopPC]
        /\ swept' \in [Stopper -> Seq([ws : Inst, removed : Seq(Sub)])]
    BY <2>1 DEF Placed, TypeOK, Threads, Joined, SubmitPC
  <2>3. Threads'
    BY <2>1, <2>2 DEF Placed, Threads, Joined, Spawned
  <2>4. \A u \in Sub : spc'[u] = spc[u] \/ (spc[u] \in Joined /\ spc'[u] \in Joined)
    BY <2>1, <2>2 DEF Joined
  <2>5. UNCHANGED <<map, queue, running, waiting, counterVars, inst, todo, list, targets>>
    BY <2>1
  <2> HIDE DEF counterVars
  <2>6. QED
    BY <2>1, <2>2, <2>3, <2>4, <2>5, SpawnKeepsPlaced
<1>7. ASSUME SubmitReturn(s) PROVE Placed'
  <2>1. CASE shutting
    <3>1. /\ spc[s] = "check" /\ spc' = [spc EXCEPT ![s] = "stopping"] /\ StopCollect(s)
          /\ UNCHANGED <<workspaceVars, counterVars, inst, workerVars>>
      BY <1>7, <2>1 DEF SubmitReturn
    <3>2. s \in Stopper /\ spc'[s] = "stopping"
      BY <3>1, StopperHas DEF Placed, TypeOK
    <3> HIDE DEF workspaceVars, counterVars, workerVars
    <3>3. QED
      BY <3>1, <3>2, CollectKeepsPlaced
  <2>2. CASE ~shutting
    <3> USE <1>7, <2>2 DEF SubmitReturn
    <3>1. TypeOK'
      BY DEF Placed, TypeOK, SubmitPC
    <3>2. spc \in [Sub -> SubmitPC]
      BY DEF Placed, TypeOK
    <3>3. Located' /\ NoRepeats'
      BY <3>2 DEF Placed, Located, NoRepeats, Joined
    <3>4. Threads'
      BY <3>2, StopperHas DEF Placed, Threads, Joined
    <3>5. QED
      BY <3>1, <3>3, <3>4 DEF Placed
  <2>3. QED
    BY <2>1, <2>2
<1>8. QED
  BY <1>1, <1>2, <1>3, <1>4, <1>5, <1>6, <1>7 DEF Submit

\* The worker goes on with its list exactly when there is more of it.
LEMMA NextInList ==
    ASSUME NEW s, todo[s] \in Seq(Inst), todo[s] # <<>>
    PROVE  /\ Head(todo[s]) \in Inst /\ Tail(todo[s]) \in Seq(Inst)
           /\ AfterPump(s) \in {"forget", "pump"}
           /\ AfterPump(s) = "pump" => Tail(todo[s]) # <<>>
  BY HeadTail, LastEntry DEF AfterPump

\* So does a worker's step, from the end of the executor to Workers::leave.
LEMMA WorkerKeepsPlaced ==
    ASSUME Placed, NEW s \in Sub, Worker(s)
    PROVE  Placed'
<1> USE DEF workspaceVars, counterVars, submitVars, workerVars, stopVars
<1>0. /\ wpc \in [Sub -> WorkerPC] /\ todo \in [Sub -> Seq(Inst)]
      /\ running \in [Inst -> SUBSET Sub]
      /\ wpc[s] # "none" => inst[s] \in Inst
  BY DEF Placed, TypeOK, Threads
<1>1. ASSUME CompleteRelease(s) PROVE Placed'
  <2>1. /\ wpc[s] = "executing" /\ inst[s] \in Inst
        /\ running' = [running EXCEPT ![inst[s]] = @ \ {s}]
        /\ UNCHANGED <<map, queue, waiting, locked, live, sweep, claimed, shutting,
                       tokens, ticket, spc, inst, tpc, list, swept, targets>>
    BY <1>0, <1>1 DEF CompleteRelease
  <2>2. /\ inUse' \in Nat /\ inUse' <= inUse
        /\ \/ wpc' = [wpc EXCEPT ![s] = "collect"] /\ todo' = todo
           \/ /\ wpc' = [wpc EXCEPT ![s] = "pump"]
              /\ todo' = [todo EXCEPT ![s] = <<inst[s]>>]
    <3>1. inUse \in Nat
      BY DEF Placed, TypeOK
    <3>2. QED
      BY <1>1, <3>1 DEF CompleteRelease
  <2>3. <<inst[s]>> \in Seq(Inst) /\ <<inst[s]>> # <<>>
    BY <2>1
  <2>4. TypeOK'
    <3>1. wpc' \in [Sub -> WorkerPC] /\ todo' \in [Sub -> Seq(Inst)]
          /\ running' \in [Inst -> SUBSET Sub]
      BY <1>0, <2>1, <2>2, <2>3 DEF WorkerPC
    <3>2. QED
      BY <2>1, <2>2, <3>1 DEF Placed, TypeOK
  <2>5. Located'
    BY <1>0, <2>1, <2>2 DEF Placed, Located
  <2>6. Threads'
    BY <1>0, <2>1, <2>2, <2>3 DEF Placed, Threads
  <2>7. QED
    BY <2>1, <2>4, <2>5, <2>6 DEF Placed, NoRepeats
<1>2. ASSUME PumpInTurn(s) PROVE Placed'
  <2>1. /\ wpc[s] = "collect" /\ wpc' = [wpc EXCEPT ![s] = "pump"]
        /\ todo' = [todo EXCEPT ![s] = PumpList(inst[s])]
        /\ sweep' = (sweep + 1) % SweepModulus
        /\ UNCHANGED <<map, queue, running, waiting, locked, inUse, live, claimed,
                       shutting, tokens, ticket, spc, inst, tpc, list, swept, targets>>
    BY <1>2 DEF PumpInTurn
  <2>2. PumpList(inst[s]) \in Seq(Inst) /\ PumpList(inst[s]) # <<>>
    BY <1>0, <2>1, PumpListed DEF Placed, TypeOK
  <2>3. TypeOK'
    <3>1. sweep' \in Nat
      BY <2>1, SchedulerAssumption DEF Placed, TypeOK
    <3>2. wpc' \in [Sub -> WorkerPC] /\ todo' \in [Sub -> Seq(Inst)]
      BY <1>0, <2>1, <2>2 DEF WorkerPC
    <3>3. QED
      BY <2>1, <3>1, <3>2 DEF Placed, TypeOK
  <2>4. Located' /\ NoRepeats'
    BY <1>0, <2>1 DEF Placed, Located, NoRepeats
  <2>5. Threads'
    BY <1>0, <2>1, <2>2 DEF Placed, Threads
  <2>6. QED
    BY <2>3, <2>4, <2>5 DEF Placed
<1>3. ASSUME WorkerPump(s) PROVE Placed'
  <2>1. /\ wpc[s] = "pump" /\ todo[s] # <<>>
        /\ \/ /\ locked' = locked \cup {Head(todo[s])}
              /\ wpc' = [wpc EXCEPT ![s] = "admit"] /\ todo' = todo
           \/ /\ wpc' = [wpc EXCEPT ![s] = AfterPump(s)]
              /\ todo' = [todo EXCEPT ![s] = Tail(@)] /\ locked' = locked
        /\ UNCHANGED <<map, queue, running, waiting, inUse, live, sweep, claimed,
                       shutting, tokens, ticket, spc, inst, tpc, list, swept, targets>>
    BY <1>3 DEF WorkerPump, Placed, Threads
  <2>2. /\ Head(todo[s]) \in Inst /\ Tail(todo[s]) \in Seq(Inst)
        /\ AfterPump(s) \in {"forget", "pump"}
        /\ AfterPump(s) = "pump" => Tail(todo[s]) # <<>>
    BY <1>0, <2>1, NextInList
  <2>3. TypeOK'
    <3>1. wpc' \in [Sub -> WorkerPC] /\ todo' \in [Sub -> Seq(Inst)]
      BY <1>0, <2>1, <2>2 DEF WorkerPC
    <3>2. locked' \subseteq Inst
      BY <2>1, <2>2 DEF Placed, TypeOK
    <3>3. QED
      BY <2>1, <3>1, <3>2 DEF Placed, TypeOK
  <2>4. Located' /\ NoRepeats'
    BY <1>0, <2>1, <2>2 DEF Placed, Located, NoRepeats
  <2>5. Threads'
    BY <1>0, <2>1, <2>2 DEF Placed, Threads
  <2>6. QED
    BY <2>3, <2>4, <2>5 DEF Placed
<1>4. ASSUME WorkerDispatch(s) PROVE Placed'
  <2> DEFINE i == Head(todo[s])
  <2>1. /\ wpc[s] = "admit" /\ todo[s] # <<>>
        /\ locked' = locked \ {i}
        /\ wpc' = [Spawned(i) EXCEPT ![s] = AfterPump(s)]
        /\ todo' = [todo EXCEPT ![s] = Tail(@)]
        /\ UNCHANGED <<map, queue, running, waiting, inUse, live, sweep, claimed,
                       shutting, tokens, ticket, spc, inst, tpc, list, swept, targets>>
    BY <1>4 DEF WorkerDispatch, EndAdmit, Placed, Threads
  <2>2. /\ Tail(todo[s]) \in Seq(Inst)
        /\ AfterPump(s) \in {"forget", "pump"}
        /\ AfterPump(s) = "pump" => Tail(todo[s]) # <<>>
    BY <1>0, <2>1, NextInList
  <2>3. \A u \in Sub : wpc'[u] = IF u = s THEN AfterPump(s)
                                 ELSE IF wpc[u] = "ready" /\ inst[u] = i THEN "executing"
                                 ELSE wpc[u]
    BY <2>1 DEF Spawned
  <2>4. TypeOK'
    <3>1. wpc' \in [Sub -> WorkerPC] /\ todo' \in [Sub -> Seq(Inst)]
      BY <1>0, <2>1, <2>2 DEF WorkerPC, Spawned
    <3>2. QED
      BY <2>1, <3>1 DEF Placed, TypeOK
  <2> HIDE DEF i
  <2>5. Located' /\ NoRepeats'
    BY <1>0, <2>1, <2>2, <2>3 DEF Placed, Located, NoRepeats
  <2>6. Threads'
    BY <1>0, <2>1, <2>2, <2>3 DEF Placed, Threads
  <2>7. QED
    BY <2>4, <2>5, <2>6 DEF Placed
<1>5. ASSUME WorkerForget(s) PROVE Placed'
  <2>1. /\ wpc[s] = "forget" /\ wpc' = [wpc EXCEPT ![s] = "release"]
        /\ map' = Forgotten
        /\ UNCHANGED <<queue, running, waiting, locked, counterVars, submitVars, todo, stopVars>>
    BY <1>5 DEF WorkerForget
  <2>2. TypeOK'
    BY <2>1 DEF Placed, TypeOK, WorkerPC, Forgotten
  <2>3. Located' /\ NoRepeats' /\ Threads'
    BY <1>0, <2>1 DEF Placed, Located, NoRepeats, Threads
  <2>4. QED
    BY <2>2, <2>3 DEF Placed
<1>6. ASSUME WorkerRelease(s) PROVE Placed'
  <2>1. /\ wpc[s] = "release" /\ wpc' = [wpc EXCEPT ![s] = "leave"]
        /\ claimed' = claimed \ {CallOf[s]}
        /\ UNCHANGED <<workspaceVars, inUse, live, sweep, shutting, tokens, ticket,
                       submitVars, todo, stopVars>>
    BY <1>6 DEF WorkerRelease
  <2>2. TypeOK'
    BY <2>1 DEF Placed, TypeOK, WorkerPC
  <2>3. Located' /\ NoRepeats' /\ Threads'
    BY <1>0, <2>1 DEF Placed, Located, NoRepeats, Threads
  <2>4. QED
    BY <2>2, <2>3 DEF Placed
<1>7. ASSUME WorkerLeave(s) PROVE Placed'
  <2>1. /\ wpc[s] = "leave" /\ wpc' = [wpc EXCEPT ![s] = "ended"]
        /\ ticket' = [ticket EXCEPT ![s] = "ended"]
        /\ live' = IF live > 0 THEN live - 1 ELSE 0
        /\ UNCHANGED <<workspaceVars, inUse, sweep, claimed, shutting, tokens,
                       submitVars, todo, stopVars>>
    BY <1>7 DEF WorkerLeave
  <2>2. TypeOK'
    <3>1. live' \in Nat
      BY <2>1 DEF Placed, TypeOK
    <3>2. wpc' \in [Sub -> WorkerPC] /\ ticket' \in [Sub -> {"none", "ended", "cancelled"}]
      BY <2>1 DEF Placed, TypeOK, WorkerPC
    <3>3. QED
      BY <2>1, <3>1, <3>2 DEF Placed, TypeOK
  <2>3. Located' /\ NoRepeats' /\ Threads'
    BY <1>0, <2>1 DEF Placed, Located, NoRepeats, Threads
  <2>4. QED
    BY <2>2, <2>3 DEF Placed
<1>8. QED
  BY <1>1, <1>2, <1>3, <1>4, <1>5, <1>6, <1>7 DEF Worker

\* One iteration of an admission loop: the first call of a queue occupies its
\* worktree.
LEMMA AdmitTakesHead ==
    ASSUME Placed, NEW i \in Inst, AdmitHead(i), NEW s, s = Head(queue[i])
    PROVE  /\ s \in Sub /\ s \in Range(queue[i])
           /\ inst[s] = i /\ spc[s] \in Joined /\ wpc[s] = "none"
           /\ queue' = [queue EXCEPT ![i] = Tail(@)]
           /\ Tail(queue[i]) \in Seq(Sub) /\ IsInjective(Tail(queue[i]))
           /\ Range(queue[i]) = Range(Tail(queue[i])) \cup {s}
           /\ s \notin Range(Tail(queue[i]))
           /\ running' = [running EXCEPT ![i] = @ \cup {s}]
           /\ wpc' = [wpc EXCEPT ![s] = "ready"]
           /\ live' = live + 1
           /\ inUse' = IF s \in SpawnsProcesses THEN inUse + 1 ELSE inUse
           /\ UNCHANGED <<map, waiting, locked, sweep, claimed, shutting, tokens, ticket,
                          spc, inst, todo, tpc, list, swept, targets>>
<1>1. queue[i] # <<>> /\ queue[i] \in Seq(Sub) /\ IsInjective(queue[i])
  BY DEF AdmitHead, Admissible, Placed, TypeOK, NoRepeats
<1>2. /\ s \in Sub /\ s \in Range(queue[i]) /\ Tail(queue[i]) \in Seq(Sub)
      /\ IsInjective(Tail(queue[i])) /\ s \notin Range(Tail(queue[i]))
      /\ Range(queue[i]) = Range(Tail(queue[i])) \cup {s}
  BY <1>1, HeadTail
<1>3. inst[s] = i /\ spc[s] \in Joined /\ wpc[s] = "none"
  BY <1>2 DEF Placed, Located
<1>4. QED
  BY <1>2, <1>3 DEF AdmitHead, submitVars, stopVars

\* Admitting the front of a queue moves it into the running set and makes a
\* worker ready for it, in one step under the mutex.
LEMMA AdmitKeepsPlaced ==
    ASSUME Placed, NEW i \in Inst, AdmitHead(i)
    PROVE  Placed'
<1> DEFINE s == Head(queue[i])
<1>1. /\ s \in Sub /\ s \in Range(queue[i])
      /\ inst[s] = i /\ spc[s] \in Joined /\ wpc[s] = "none"
      /\ queue' = [queue EXCEPT ![i] = Tail(@)]
      /\ Tail(queue[i]) \in Seq(Sub) /\ IsInjective(Tail(queue[i]))
      /\ Range(queue[i]) = Range(Tail(queue[i])) \cup {s}
      /\ s \notin Range(Tail(queue[i]))
      /\ running' = [running EXCEPT ![i] = @ \cup {s}]
      /\ wpc' = [wpc EXCEPT ![s] = "ready"]
      /\ live' = live + 1
      /\ inUse' = IF s \in SpawnsProcesses THEN inUse + 1 ELSE inUse
      /\ UNCHANGED <<map, waiting, locked, sweep, claimed, shutting, tokens, ticket,
                     spc, inst, todo, tpc, list, swept, targets>>
  BY AdmitTakesHead
<1> HIDE DEF s
<1>2. /\ queue \in [Inst -> Seq(Sub)] /\ running \in [Inst -> SUBSET Sub]
      /\ wpc \in [Sub -> WorkerPC] /\ live \in Nat /\ inUse \in Nat
  BY DEF Placed, TypeOK
<1>3. TypeOK'
  <2>1. /\ queue' \in [Inst -> Seq(Sub)] /\ running' \in [Inst -> SUBSET Sub]
        /\ wpc' \in [Sub -> WorkerPC] /\ live' \in Nat /\ inUse' \in Nat
    BY <1>1, <1>2 DEF WorkerPC
  <2>2. QED
    BY <1>1, <2>1 DEF Placed, TypeOK
<1>4. Located'
  BY <1>1, <1>2 DEF Placed, Located
<1>5. NoRepeats'
  BY <1>1, <1>2 DEF Placed, NoRepeats
<1>6. Threads'
  BY <1>1, <1>2 DEF Placed, Threads
<1>7. QED
  BY <1>3, <1>4, <1>5, <1>6 DEF Placed

\* What `stop` sweeps next, and whether there is more of it.
LEMMA NextSwept ==
    ASSUME NEW q \in Seq(Inst), q # <<>>
    PROVE  /\ Head(q) \in Inst /\ Tail(q) \in Seq(Inst)
           /\ Len(q) # 1 => Tail(q) # <<>>
           /\ Len(q) = 1 => Tail(q) = <<>>
  BY HeadTail, LastEntry

\* What sweeping does to one queue.
LEMMA OnlyOf ==
    ASSUME NEW q \in Seq(Sub), NEW S
    PROVE  /\ Only(q, S) \in Seq(Sub)
           /\ Range(Only(q, S)) = Range(q) \cap S
           /\ Range(Only(q, S)) \subseteq Range(q)
           /\ IsInjective(q) => IsInjective(Only(q, S))
<1>1. /\ Only(q, S) \in Seq(Sub \cap S)
      /\ Range(Only(q, S)) = Range(q) \cap S
      /\ IsInjective(q) => IsInjective(Only(q, S))
  BY OnlyKeeps
<1>2. Only(q, S) \in Seq(Sub)
  BY <1>1, SeqMonotonic
<1>3. QED
  BY <1>1, <1>2

\* A step of `stop` takes calls out of queues and never puts one back.
LEMMA StopKeepsPlaced ==
    ASSUME Placed, NEW t \in Stopper, Stop(t)
    PROVE  Placed'
<1> USE DEF workspaceVars, counterVars, submitVars, workerVars, stopVars
<1> DEFINE Entry == [ws : Inst, removed : Seq(Sub)]
<1>0. /\ tpc \in [Stopper -> StopPC] /\ list \in [Stopper -> Seq(Inst)]
      /\ swept \in [Stopper -> Seq(Entry)] /\ queue \in [Inst -> Seq(Sub)]
      /\ spc \in [Sub -> SubmitPC]
  BY DEF Placed, TypeOK
<1>1. ASSUME StopSweep(t) PROVE Placed'
  <2> DEFINE i == Head(list[t])
             gone == Only(queue[i], {s \in Sub : Matches(t, s)})
             kept == Only(queue[i], {s \in Sub : ~Matches(t, s)})
             entry == [ws |-> i, removed |-> gone]
  <2>1. /\ tpc[t] = "sweep" /\ list[t] # <<>>
        /\ queue' = [queue EXCEPT ![i] = kept]
        /\ tokens' = tokens \cup {s \in running[i] : Matches(t, s)}
        /\ swept' = [swept EXCEPT ![t] = Append(@, entry)]
        /\ list' = [list EXCEPT ![t] = Tail(@)]
        /\ tpc' = [tpc EXCEPT ![t] = IF Len(list[t]) = 1 THEN "settle" ELSE "sweep"]
        /\ UNCHANGED <<map, running, waiting, locked, inUse, live, sweep, claimed,
                       shutting, ticket, spc, inst, wpc, todo, targets>>
    BY <1>1 DEF StopSweep, Placed, Threads
  <2>2. /\ i \in Inst /\ Tail(list[t]) \in Seq(Inst)
        /\ Len(list[t]) # 1 => Tail(list[t]) # <<>>
    BY <1>0, <2>1, NextSwept
  <2>3. queue[i] \in Seq(Sub) /\ IsInjective(queue[i])
    BY <1>0, <2>2 DEF Placed, NoRepeats
  <2>4. /\ gone \in Seq(Sub)
        /\ kept \in Seq(Sub) /\ Range(kept) \subseteq Range(queue[i]) /\ IsInjective(kept)
    BY <2>3, OnlyOf
  <2>5. entry \in Entry
    BY <2>2, <2>4
  <2> HIDE DEF i, gone, kept, entry
  <2>6. TypeOK'
    <3>1. Append(swept[t], entry) \in Seq(Entry)
      BY <1>0, <2>5, AppendNew
    <3> HIDE DEF Entry
    <3>2. /\ queue' \in [Inst -> Seq(Sub)] /\ swept' \in [Stopper -> Seq(Entry)]
          /\ list' \in [Stopper -> Seq(Inst)] /\ tpc' \in [Stopper -> StopPC]
      BY <1>0, <2>1, <2>2, <2>4, <3>1 DEF StopPC
    <3>3. tokens' \subseteq Sub
      BY <2>1, <2>2 DEF Placed, TypeOK
    <3>4. QED
      BY <2>1, <3>2, <3>3 DEF Placed, TypeOK, Entry
  <2>7. Located'
    BY <1>0, <2>1, <2>2, <2>4 DEF Placed, Located
  <2>8. NoRepeats'
    BY <1>0, <2>1, <2>2, <2>4 DEF Placed, NoRepeats
  <2>9. Threads'
    <3>1. \A u \in Stopper : /\ tpc'[u] = "sweep" => list'[u] # <<>>
                             /\ tpc'[u] = "admit" => swept'[u] # <<>>
      BY <1>0, <2>1, <2>2 DEF Placed, Threads
    <3>2. \A s \in Sub : tpc'[s] # "idle" => spc[s] \in {"stopping", "returned"}
      BY <1>0, <2>1, StopperHas DEF Placed, Threads
    <3>3. QED
      BY <2>1, <3>1, <3>2 DEF Placed, Threads
  <2>10. QED
    BY <2>6, <2>7, <2>8, <2>9 DEF Placed
<1>2. ASSUME StopSettle(t) PROVE Placed'
  <2>1. /\ tpc[t] = "settle" /\ swept[t] # <<>> /\ Head(swept[t]).removed # <<>>
        /\ swept' = [swept EXCEPT ![t][1].removed = Tail(@)]
        /\ \E s : ticket' = [ticket EXCEPT ![s] = "cancelled"] /\ claimed' = claimed \ {CallOf[s]}
        /\ UNCHANGED <<map, queue, running, waiting, locked, inUse, live, sweep, shutting,
                       tokens, spc, inst, wpc, todo, tpc, list, targets>>
    BY <1>2 DEF StopSettle
  <2>2. swept' \in [Stopper -> Seq(Entry)]
    BY <1>0, <2>1, SettleOne
  <2>3. TypeOK'
    <3>1. ticket' \in [Sub -> {"none", "ended", "cancelled"}] /\ claimed' \subseteq Range(CallOf)
      BY <2>1 DEF Placed, TypeOK
    <3>2. QED
      BY <2>1, <2>2, <3>1 DEF Placed, TypeOK
  <2>4. Located' /\ NoRepeats'
    BY <2>1 DEF Placed, Located, NoRepeats
  <2>5. Threads'
    <3>1. \A u \in Stopper : tpc[u] = "admit" => swept'[u] = swept[u]
      BY <1>0, <2>1
    <3>2. QED
      BY <2>1, <3>1 DEF Placed, Threads
  <2>6. QED
    BY <2>3, <2>4, <2>5 DEF Placed
<1>3. ASSUME StopPump(t) PROVE Placed'
  <2>1. /\ tpc[t] = "settle" /\ swept[t] # <<>>
        /\ \/ /\ locked' = locked \cup {Head(swept[t]).ws}
              /\ tpc' = [tpc EXCEPT ![t] = "admit"] /\ swept' = swept
           \/ swept' = [swept EXCEPT ![t] = Tail(@)] /\ UNCHANGED <<locked, tpc>>
        /\ UNCHANGED <<map, queue, running, waiting, inUse, live, sweep, claimed, shutting,
                       tokens, ticket, spc, inst, wpc, todo, list, targets>>
    BY <1>3 DEF StopPump
  <2>2. Head(swept[t]) \in Entry /\ Tail(swept[t]) \in Seq(Entry)
    BY <1>0, <2>1, HeadTail
  <2>3. TypeOK'
    <3>1. locked' \subseteq Inst
      BY <2>1, <2>2 DEF Placed, TypeOK
    <3> HIDE DEF Entry
    <3>2. tpc' \in [Stopper -> StopPC] /\ swept' \in [Stopper -> Seq(Entry)]
      BY <1>0, <2>1, <2>2 DEF StopPC
    <3>3. QED
      BY <2>1, <3>1, <3>2 DEF Placed, TypeOK, Entry
  <2>4. Located' /\ NoRepeats'
    BY <2>1 DEF Placed, Located, NoRepeats
  <2>5. Threads'
    <3> HIDE DEF Entry
    <3>1. \A u \in Stopper : /\ tpc'[u] = "sweep" => list'[u] # <<>>
                             /\ tpc'[u] = "admit" => swept'[u] # <<>>
      BY <1>0, <2>1 DEF Placed, Threads
    <3>2. \A s \in Sub : tpc'[s] # "idle" => spc[s] \in {"stopping", "returned"}
      BY <1>0, <2>1, StopperHas DEF Placed, Threads
    <3>3. QED
      BY <2>1, <3>1, <3>2 DEF Placed, Threads
  <2>6. QED
    BY <2>3, <2>4, <2>5 DEF Placed
<1>4. ASSUME StopDispatch(t) PROVE Placed'
  <2> DEFINE i == Head(swept[t]).ws
  <2>1. /\ tpc[t] = "admit" /\ swept[t] # <<>>
        /\ locked' = locked \ {i} /\ wpc' = Spawned(i)
        /\ swept' = [swept EXCEPT ![t] = Tail(@)]
        /\ tpc' = [tpc EXCEPT ![t] = "settle"]
        /\ UNCHANGED <<map, queue, running, waiting, counterVars, submitVars, todo,
                       list, targets>>
    BY <1>4 DEF StopDispatch, EndAdmit, Placed, Threads
  <2>2. Head(swept[t]) \in Entry /\ Tail(swept[t]) \in Seq(Entry)
    BY <1>0, <2>1, HeadTail
  <2>3. i \in Inst /\ locked' \subseteq Inst
    BY <2>1, <2>2 DEF Placed, TypeOK
  <2> HIDE DEF i, Entry
  <2>4. tpc' \in [Stopper -> StopPC] /\ swept' \in [Stopper -> Seq(Entry)]
    BY <1>0, <2>1, <2>2 DEF StopPC
  <2>5. Threads'
    <3>1. \A u \in Stopper : /\ tpc'[u] = "sweep" => list'[u] # <<>>
                             /\ tpc'[u] = "admit" => swept'[u] # <<>>
      BY <1>0, <2>1 DEF Placed, Threads
    <3>2. \A s \in Sub : tpc'[s] # "idle" => spc[s] \in {"stopping", "returned"}
      BY <1>0, <2>1, StopperHas DEF Placed, Threads
    <3>3. \A s \in Sub : wpc'[s] = wpc[s] \/ (wpc[s] = "ready" /\ wpc'[s] = "executing")
      BY <2>1 DEF Spawned
    <3>4. QED
      BY <2>1, <3>1, <3>2, <3>3 DEF Placed, Threads
  <2>6. spc' = spc /\ UNCHANGED <<map, queue, running, waiting, counterVars, inst, todo, list, targets>>
    BY <2>1
  <2> HIDE DEF counterVars
  <2>7. QED
    BY <1>0, <2>1, <2>3, <2>4, <2>5, <2>6, SpawnKeepsPlaced DEF Entry
<1>5. ASSUME StopForget(t) PROVE Placed'
  <2>1. /\ tpc[t] = "settle" /\ map' = Forgotten
        /\ tpc' = [tpc EXCEPT ![t] = IF t = ShutdownThread THEN "waiting" ELSE "done"]
        /\ spc' = IF t \in Sub THEN [spc EXCEPT ![t] = "returned"] ELSE spc
        /\ targets' = [targets EXCEPT ![t] = {}]
        /\ UNCHANGED <<queue, running, waiting, locked, inUse, live, sweep, claimed, shutting,
                       tokens, ticket, inst, wpc, todo, list, swept>>
    BY <1>5 DEF StopForget
  <2>2. t \in Sub => spc[t] \in {"stopping", "returned"}
    BY <2>1 DEF Placed, Threads
  <2>3. \A s \in Sub : spc'[s] = spc[s] \/ (spc[s] \in {"stopping", "returned"} /\ spc'[s] = "returned")
    BY <1>0, <2>1, <2>2
  <2>4. TypeOK'
    <3>1. spc' \in [Sub -> SubmitPC] /\ tpc' \in [Stopper -> StopPC]
      BY <1>0, <2>1 DEF SubmitPC, StopPC
    <3>2. map' \in [Key -> Inst \cup {NoInst}] /\ targets' \in [Stopper -> SUBSET Sub]
      BY <2>1 DEF Placed, TypeOK, Forgotten
    <3>3. QED
      BY <2>1, <3>1, <3>2 DEF Placed, TypeOK
  <2>5. Located' /\ NoRepeats'
    BY <2>1, <2>3 DEF Placed, Located, NoRepeats, Joined
  <2>6. Threads'
    <3> HIDE DEF Entry
    <3>1. \A u \in Stopper : /\ tpc'[u] = "sweep" => list'[u] # <<>>
                             /\ tpc'[u] = "admit" => swept'[u] # <<>>
      BY <1>0, <2>1 DEF Placed, Threads
    <3>2. \A s \in Sub : tpc'[s] # "idle" => spc'[s] \in {"stopping", "returned"}
      BY <1>0, <2>1, <2>2, <2>3, StopperHas DEF Placed, Threads
    <3>3. QED
      BY <2>1, <2>3, <3>1, <3>2 DEF Placed, Threads, Joined
  <2>7. QED
    BY <2>4, <2>5, <2>6 DEF Placed
<1>6. QED
  BY <1>1, <1>2, <1>3, <1>4, <1>5 DEF Stop

\* Calling cancel_run or shutdown moves no submission.
LEMMA CallerKeepsPlaced ==
    ASSUME Placed, \/ \E r \in Run : CancelRun(r)
                   \/ BeginShutdown \/ ShutdownStops \/ ShutdownEnds
    PROVE  Placed'
<1> USE DEF workspaceVars, counterVars, submitVars, workerVars, stopVars
<1>0. tpc \in [Stopper -> StopPC] /\ ShutdownThread \in Stopper /\ ShutdownThread \notin Sub
  BY StopperHas, SchedulerAssumption DEF Placed, TypeOK
<1>1. ASSUME NEW r \in Run, CancelRun(r) PROVE Placed'
  <2>1. StopCollect(r) /\ r \in Stopper /\ r \notin Sub
    BY <1>1, StopperHas, SchedulerAssumption DEF CancelRun
  <2>2. spc' = spc /\ UNCHANGED <<workspaceVars, counterVars, inst, workerVars>>
    BY <1>1 DEF CancelRun
  <2> HIDE DEF workspaceVars, counterVars, workerVars
  <2>3. QED
    BY <2>1, <2>2, CollectKeepsPlaced
<1>2. ASSUME ShutdownStops PROVE Placed'
  <2>1. StopCollect(ShutdownThread)
    BY <1>2 DEF ShutdownStops
  <2>2. spc' = spc /\ UNCHANGED <<workspaceVars, counterVars, inst, workerVars>>
    BY <1>2 DEF ShutdownStops
  <2> HIDE DEF workspaceVars, counterVars, workerVars
  <2>3. QED
    BY <1>0, <2>1, <2>2, CollectKeepsPlaced
<1>3. ASSUME BeginShutdown \/ ShutdownEnds PROVE Placed'
  <2>1. /\ \E pc \in {"begun", "clean", "deadline"} :
             tpc' = [tpc EXCEPT ![ShutdownThread] = pc]
        /\ shutting' \in BOOLEAN
        /\ UNCHANGED <<workspaceVars, inUse, live, sweep, claimed, tokens, ticket,
                       submitVars, workerVars, list, swept, targets>>
    BY <1>3 DEF BeginShutdown, ShutdownEnds, Placed, TypeOK
  <2>2. TypeOK'
    BY <1>0, <2>1 DEF Placed, TypeOK, StopPC
  <2>3. Located' /\ NoRepeats'
    BY <2>1 DEF Placed, Located, NoRepeats
  <2>4. Threads'
    BY <1>0, <2>1, StopperHas DEF Placed, Threads
  <2>5. QED
    BY <2>2, <2>3, <2>4 DEF Placed
<1>4. QED
  BY <1>1, <1>2, <1>3

\* Placed holds when the scheduler is built.
LEMMA PlacedAtFirst == Init => Placed
<1> SUFFICES ASSUME Init PROVE Placed
  OBVIOUS
<1>1. Range(<<>>) = {} /\ IsInjective(<<>>)
  BY DEF Range, IsInjective
<1>2. TypeOK
  <2>1. map \in [Key -> Inst \cup {NoInst}] /\ queue \in [Inst -> Seq(Sub)]
    BY DEF Init
  <2>2. /\ running \in [Inst -> SUBSET Sub] /\ waiting \in [Inst -> SUBSET Sub]
        /\ locked \subseteq Inst /\ inUse \in Nat /\ live \in Nat /\ sweep \in Nat
        /\ claimed \subseteq Range(CallOf) /\ shutting \in BOOLEAN /\ tokens \subseteq Sub
        /\ targets \in [Stopper -> SUBSET Sub]
    BY DEF Init
  <2>3. /\ ticket \in [Sub -> {"none", "ended", "cancelled"}]
        /\ spc \in [Sub -> SubmitPC] /\ wpc \in [Sub -> WorkerPC] /\ tpc \in [Stopper -> StopPC]
        /\ inst \in [Sub -> Inst \cup {NoInst}]
    BY DEF Init, SubmitPC, WorkerPC, StopPC
  <2>4. todo \in [Sub -> Seq(Inst)] /\ list \in [Stopper -> Seq(Inst)]
    BY DEF Init
  <2>5. swept \in [Stopper -> Seq([ws : Inst, removed : Seq(Sub)])]
    BY DEF Init
  <2>6. QED
    BY <2>1, <2>2, <2>3, <2>4, <2>5 DEF TypeOK
<1>3. Located /\ NoRepeats
  BY <1>1, SchedulerAssumption DEF Init, Located, NoRepeats, Joined
<1>4. Threads
  BY StopperHas DEF Init, Threads, Joined
<1>5. QED
  BY <1>2, <1>3, <1>4 DEF Placed

\* Every submission is where its threads say it is, throughout a run of the
\* scheduler.
THEOREM EveryoneIsPlaced == Spec => []Placed
<1>1. Placed /\ [Next]_vars => Placed'
  <2> SUFFICES ASSUME Placed, [Next]_vars PROVE Placed'
    OBVIOUS
  <2>1. CASE \E s \in Sub : Submit(s) \/ Worker(s)
    BY <2>1, SubmitKeepsPlaced, WorkerKeepsPlaced
  <2>2. CASE \E i \in Inst : AdmitHead(i)
    BY <2>2, AdmitKeepsPlaced
  <2>3. CASE \E t \in Stopper : Stop(t)
    BY <2>3, StopKeepsPlaced
  <2>4. CASE \/ \E r \in Run : CancelRun(r)
             \/ BeginShutdown \/ ShutdownStops \/ ShutdownEnds
    BY <2>4, CallerKeepsPlaced
  <2>5. CASE UNCHANGED vars
    <3> USE <2>5 DEF vars, workspaceVars, counterVars, submitVars, workerVars, stopVars
    <3>1. TypeOK'
      BY DEF Placed, TypeOK
    <3>2. Located' /\ NoRepeats' /\ Threads'
      BY DEF Placed, Located, NoRepeats, Threads
    <3>3. QED
      BY <3>1, <3>2 DEF Placed
  <2>6. QED
    BY <2>1, <2>2, <2>3, <2>4, <2>5 DEF Next, Idle
<1>2. QED
  BY PlacedAtFirst, <1>1, PTL DEF Spec

\* The variables keep their types.
THEOREM SchedulerTypes == Spec => []TypeOK
<1>1. Placed => TypeOK
  BY DEF Placed
<1>2. QED
  BY EveryoneIsPlaced, <1>1, PTL

-----------------------------------------------------------------------------
\* One object per worktree, and in it a mutation alone

\* What the object a mutation runs in holds: the mutation and nothing else.
Alone == \A i \in Inst : \A s, u \in running[i] : Mutates(s) => s = u

\* The map changes only where a submission enters, or where forget_idle finds
\* an idle object: every object that carries something keeps its entry.
LEMMA AnchoredStep ==
    ASSUME Placed, Anchored, [Next]_vars
    PROVE  Anchored'
<1> USE DEF workspaceVars, counterVars, submitVars, workerVars, stopVars
<1>0. /\ map \in [Key -> Inst \cup {NoInst}] /\ queue \in [Inst -> Seq(Sub)]
      /\ waiting \in [Inst -> SUBSET Sub] /\ running \in [Inst -> SUBSET Sub]
      /\ KeyOf \in [Sub -> Key] /\ NoInst \notin Inst
  BY SchedulerAssumption DEF Placed, TypeOK
\* Nobody is carried who was not, and the map stays.
<1>1. ASSUME map' = map,
             \A s \in Sub, i \in Inst : Carries(i, s)' => Carries(i, s)
      PROVE  Anchored'
  BY <1>1 DEF Anchored
<1>2. ASSUME UNCHANGED <<map, queue, running, waiting>>
      PROVE  Anchored'
  BY <1>1, <1>2 DEF Carries
<1>3. ASSUME map' = Forgotten, UNCHANGED <<queue, running, waiting>>
      PROVE  Anchored'
  <2> SUFFICES ASSUME NEW s \in Sub, NEW i \in Inst, Carries(i, s)
               PROVE  map'[KeyOf[s]] = i
    BY <1>3 DEF Anchored, Carries
  <2>1. map[KeyOf[s]] = i /\ KeyOf[s] \in Key
    BY <1>0 DEF Anchored
  <2>2. ~IsIdle(i)
    BY DEF IsIdle, Carries, Range
  <2>3. QED
    BY <1>3, <2>1, <2>2 DEF Forgotten
<1>4. ASSUME NEW s \in Sub, NEW i \in Inst,
             map' = map \/ (map[KeyOf[s]] = NoInst /\ map' = [map EXCEPT ![KeyOf[s]] = i]),
             map'[KeyOf[s]] = i,
             \A u \in Sub, j \in Inst : Carries(j, u)' => Carries(j, u) \/ (u = s /\ j = i)
      PROVE  Anchored'
  <2> SUFFICES ASSUME NEW u \in Sub, NEW j \in Inst, Carries(j, u)' PROVE map'[KeyOf[u]] = j
    BY DEF Anchored
  <2>1. CASE u = s /\ j = i
    BY <1>4, <2>1
  <2>2. CASE Carries(j, u)
    BY <1>0, <1>4, <2>2 DEF Anchored
  <2>3. QED
    BY <1>4, <2>1, <2>2
<1>5. ASSUME NEW s \in Sub, SubmitEnter(s) PROVE Anchored'
  <2>1. PICK i \in Inst :
          /\ i = map[KeyOf[s]] \/ map[KeyOf[s]] = NoInst
          /\ map' = [map EXCEPT ![KeyOf[s]] = i]
          /\ \/ waiting' = [waiting EXCEPT ![i] = @ \cup {s}] /\ queue' = queue
             \/ JoinQueue(s, i) /\ waiting' = waiting
          /\ running' = running
    BY <1>5 DEF SubmitEnter
  <2>2. /\ map' = map \/ (map[KeyOf[s]] = NoInst /\ map' = [map EXCEPT ![KeyOf[s]] = i])
        /\ map'[KeyOf[s]] = i
    BY <1>0, <2>1
  <2>3. \A j \in Inst : Range(queue'[j]) \subseteq Range(queue[j]) \cup (IF j = i THEN {s} ELSE {})
    <3>1. Range(Append(queue[i], s)) = Range(queue[i]) \cup {s}
      BY <1>0, AppendNew
    <3>2. queue' = queue \/ queue' = [queue EXCEPT ![i] = Append(@, s)]
      BY <2>1 DEF JoinQueue
    <3>3. QED
      BY <1>0, <3>1, <3>2
  <2>4. \A j \in Inst : waiting'[j] \subseteq waiting[j] \cup (IF j = i THEN {s} ELSE {})
    BY <1>0, <2>1
  <2>5. \A u \in Sub, j \in Inst : Carries(j, u)' => Carries(j, u) \/ (u = s /\ j = i)
    BY <2>1, <2>3, <2>4 DEF Carries
  <2>6. QED
    BY <1>4, <2>2, <2>5
<1>6. ASSUME NEW s \in Sub, SubmitWake(s) PROVE Anchored'
  <2> DEFINE i == inst[s]
  <2>1. /\ spc[s] = "parked" /\ i \in Inst /\ s \in waiting[i]
        /\ waiting' = [waiting EXCEPT ![i] = @ \ {s}]
        /\ JoinQueue(s, i) /\ map' = map /\ running' = running
    BY <1>6 DEF SubmitWake, Placed, Located, Threads
  <2>2. map'[KeyOf[s]] = i
    BY <2>1 DEF Anchored, Carries
  <2>3. \A j \in Inst : Range(queue'[j]) \subseteq Range(queue[j]) \cup (IF j = i THEN {s} ELSE {})
    <3>1. Range(Append(queue[i], s)) = Range(queue[i]) \cup {s}
      BY <1>0, <2>1, AppendNew
    <3>2. queue' = queue \/ queue' = [queue EXCEPT ![i] = Append(@, s)]
      BY <2>1 DEF JoinQueue
    <3>3. QED
      BY <1>0, <2>1, <3>1, <3>2
  <2>4. \A j \in Inst : waiting'[j] \subseteq waiting[j]
    BY <1>0, <2>1
  <2>5. \A u \in Sub, j \in Inst : Carries(j, u)' => Carries(j, u) \/ (u = s /\ j = i)
    BY <2>1, <2>3, <2>4 DEF Carries
  <2> HIDE DEF i
  <2>6. QED
    BY <1>4, <2>1, <2>2, <2>5
<1>7. ASSUME NEW s \in Sub, Submit(s) PROVE Anchored'
  BY <1>2, <1>5, <1>6, <1>7
     DEF Submit, SubmitRefused, SubmitClaim, SubmitLoadFails, SubmitDispatch, SubmitReturn
<1>8. ASSUME NEW s \in Sub, Worker(s) PROVE Anchored'
  <2>1. ASSUME CompleteRelease(s) PROVE Anchored'
    <3>1. /\ inst[s] \in Inst /\ running' = [running EXCEPT ![inst[s]] = @ \ {s}]
          /\ UNCHANGED <<map, queue, waiting>>
      BY <2>1 DEF CompleteRelease, Placed, Threads
    <3>2. QED
      BY <1>0, <1>1, <3>1 DEF Carries
  <2>2. ASSUME WorkerForget(s) PROVE Anchored'
    BY <1>3, <2>2 DEF WorkerForget
  <2>3. QED
    BY <1>2, <1>8, <2>1, <2>2
       DEF Worker, PumpInTurn, WorkerPump, WorkerDispatch, WorkerRelease, WorkerLeave
<1>9. ASSUME NEW i \in Inst, AdmitHead(i) PROVE Anchored'
  <2>1. PICK s \in Range(queue[i]) :
          /\ queue' = [queue EXCEPT ![i] = Tail(@)]
          /\ Range(queue[i]) = Range(Tail(queue[i])) \cup {s}
          /\ running' = [running EXCEPT ![i] = @ \cup {s}]
          /\ UNCHANGED <<map, waiting>>
    BY <1>9, AdmitTakesHead
  <2>2. QED
    BY <1>0, <1>1, <2>1 DEF Carries
<1>10. ASSUME NEW t \in Stopper, Stop(t) PROVE Anchored'
  <2>1. ASSUME StopSweep(t) PROVE Anchored'
    <3> DEFINE i == Head(list[t])
               kept == Only(queue[i], {s \in Sub : ~Matches(t, s)})
    <3>1. /\ list[t] \in Seq(Inst) /\ list[t] # <<>>
          /\ queue' = [queue EXCEPT ![i] = kept] /\ UNCHANGED <<map, running, waiting>>
      BY <2>1 DEF StopSweep, Placed, TypeOK, Threads
    <3>2. i \in Inst
      BY <3>1, HeadTail
    <3>3. Range(kept) \subseteq Range(queue[i])
      BY <1>0, <3>2, OnlyOf
    <3> HIDE DEF i, kept
    <3>4. QED
      BY <1>0, <1>1, <3>1, <3>2, <3>3 DEF Carries
  <2>2. ASSUME StopForget(t) PROVE Anchored'
    BY <1>3, <2>2 DEF StopForget
  <2>3. QED
    BY <1>2, <1>10, <2>1, <2>2 DEF Stop, StopSettle, StopPump, StopDispatch
<1>11. QED
  BY <1>2, <1>7, <1>8, <1>9, <1>10
     DEF Next, CancelRun, BeginShutdown, ShutdownStops, ShutdownEnds, Idle, vars

\* Only an admission adds to the running calls of an object, and it lets a
\* mutation in only where nothing runs, and nothing in where a mutation runs.
LEMMA AloneStep ==
    ASSUME Placed, Alone, [Next]_vars
    PROVE  Alone'
<1> USE DEF workspaceVars, counterVars, submitVars, workerVars, stopVars
<1>0. running \in [Inst -> SUBSET Sub]
  BY DEF Placed, TypeOK
<1>1. ASSUME \A i \in Inst : running'[i] \subseteq running[i] PROVE Alone'
  BY <1>1 DEF Alone
<1>2. ASSUME NEW i \in Inst, AdmitHead(i) PROVE Alone'
  <2> DEFINE s == Head(queue[i])
  <2>1. running' = [running EXCEPT ![i] = @ \cup {s}]
    BY <1>2 DEF AdmitHead
  <2>2. IF Mutates(s) THEN running[i] = {} ELSE \A r \in running[i] : ~Mutates(r)
    BY <1>2 DEF AdmitHead, Admissible
  <2> HIDE DEF s
  <2>3. QED
    BY <1>0, <2>1, <2>2 DEF Alone
<1>3. ASSUME NEW s \in Sub, CompleteRelease(s) PROVE Alone'
  BY <1>0, <1>1, <1>3 DEF CompleteRelease
<1>4. ASSUME running' = running PROVE Alone'
  BY <1>1, <1>4
<1>5. ASSUME NEW s \in Sub, Submit(s) PROVE Alone'
  BY <1>4, <1>5 DEF Submit, SubmitRefused, SubmitClaim, SubmitLoadFails, SubmitEnter,
       SubmitWake, SubmitDispatch, SubmitReturn
<1>6. ASSUME NEW s \in Sub, Worker(s) PROVE Alone'
  BY <1>3, <1>4, <1>6 DEF Worker, PumpInTurn, WorkerPump, WorkerDispatch, WorkerForget,
       WorkerRelease, WorkerLeave
<1>7. ASSUME NEW t \in Stopper, Stop(t) PROVE Alone'
  BY <1>4, <1>7 DEF Stop, StopSweep, StopSettle, StopPump, StopDispatch, StopForget
<1>8. QED
  BY <1>2, <1>4, <1>5, <1>6, <1>7
     DEF Next, CancelRun, BeginShutdown, ShutdownStops, ShutdownEnds, Idle, vars

\* The queued, running and parked calls of a worktree are always in the one
\* object the map names for it, and a mutating call never overlaps another
\* call of its worktree: queue.rs and forget_idle together, however submitters,
\* workers and `stop` interleave.
THEOREM WorktreesAreExclusive == Spec => []Exclusive
<1>1. Init => Anchored /\ Alone
  <2>1. Range(<<>>) = {}
    BY DEF Range
  <2>2. QED
    BY <2>1 DEF Init, Anchored, Alone, Carries
<1>2. Placed /\ Anchored /\ Alone /\ [Next]_vars => Anchored' /\ Alone'
  BY AnchoredStep, AloneStep
<1>3. Anchored /\ Alone => Exclusive
  BY DEF Exclusive, MutationExclusive, Anchored, Alone, Carries
<1>4. QED
  BY EveryoneIsPlaced, <1>1, <1>2, <1>3, PTL DEF Spec

-----------------------------------------------------------------------------
\* The counters

\* The calls that hold a process slot, and the workers that have not ended.
Occupying == {s \in SpawnsProcesses : \E i \in Inst : s \in running[i]}
Working == {s \in Sub : wpc[s] \notin {"none", "ended"}}

\* What SlotAccounting counts is finite, so one call more or less is one more
\* or less of the count.
LEMMA FiniteCounts ==
    /\ IsFiniteSet(Occupying) /\ IsFiniteSet(Working)
    /\ Cardinality(Occupying) \in Nat /\ Cardinality(Working) \in Nat
<1>1. Occupying \in SUBSET Sub /\ Working \in SUBSET Sub
  BY SchedulerAssumption DEF Occupying, Working
<1>2. QED
  BY <1>1, SchedulerAssumption, FS_Subset, FS_CardinalityType

\* A step that admits nothing, completes nothing and ends no worker counts
\* nothing.
LEMMA UncountedStep ==
    ASSUME SlotAccounting, UNCHANGED <<running, inUse, live>>,
           \A s \in Sub : wpc[s] \in {"none", "ended"} <=> wpc'[s] \in {"none", "ended"}
    PROVE  SlotAccounting'
  BY DEF SlotAccounting

\* inUse and live move with the running sets and the workers: AdmitHead adds to
\* both, CompleteRelease gives the process slot back, WorkerLeave the worker.
LEMMA AccountStep ==
    ASSUME Placed, SlotAccounting, [Next]_vars
    PROVE  SlotAccounting'
<1> USE DEF workspaceVars, counterVars, submitVars, workerVars, stopVars
<1>0. /\ running \in [Inst -> SUBSET Sub] /\ wpc \in [Sub -> WorkerPC]
      /\ inUse = Cardinality(Occupying) /\ live = Cardinality(Working)
      /\ inUse \in Nat /\ live \in Nat /\ inUse <= ProcessCapacity /\ ProcessCapacity \in Nat
  BY SchedulerAssumption DEF Placed, TypeOK, SlotAccounting, Occupying, Working
<1>1. ASSUME inUse' = Cardinality(Occupying'), inUse' <= ProcessCapacity,
             live' = Cardinality(Working')
      PROVE  SlotAccounting'
  BY <1>1 DEF SlotAccounting, Occupying, Working
<1>2. ASSUME NEW i \in Inst, AdmitHead(i) PROVE SlotAccounting'
  <2>1. PICK s \in Sub :
          /\ s = Head(queue[i]) /\ wpc[s] = "none"
          /\ running' = [running EXCEPT ![i] = @ \cup {s}]
          /\ wpc' = [wpc EXCEPT ![s] = "ready"]
          /\ live' = live + 1
          /\ inUse' = IF s \in SpawnsProcesses THEN inUse + 1 ELSE inUse
    BY <1>2, AdmitTakesHead
  <2>2. s \in SpawnsProcesses => inUse < ProcessCapacity
    BY <1>2, <2>1 DEF AdmitHead, Admissible
  <2>3. \A j \in Inst : s \notin running[j]
    BY <2>1 DEF Placed, Located
  <2>4. Working' = Working \cup {s} /\ s \notin Working
    BY <1>0, <2>1 DEF Working
  <2>5. live' = Cardinality(Working')
    BY <1>0, <2>1, <2>4, FiniteCounts, FS_AddElement
  <2>6. CASE s \in SpawnsProcesses
    <3>1. Occupying' = Occupying \cup {s} /\ s \notin Occupying
      BY <1>0, <2>1, <2>3, <2>6 DEF Occupying
    <3>2. inUse' = Cardinality(Occupying')
      BY <1>0, <2>1, <2>6, <3>1, FiniteCounts, FS_AddElement
    <3>3. inUse' <= ProcessCapacity
      BY <1>0, <2>1, <2>2, <2>6
    <3>4. QED
      BY <1>1, <2>5, <3>2, <3>3
  <2>7. CASE s \notin SpawnsProcesses
    <3>1. Occupying' = Occupying
      BY <1>0, <2>1, <2>7 DEF Occupying
    <3>2. QED
      BY <1>0, <1>1, <2>1, <2>5, <2>7, <3>1
  <2>8. QED
    BY <2>6, <2>7
<1>3. ASSUME NEW s \in Sub, CompleteRelease(s) PROVE SlotAccounting'
  <2>1. /\ wpc[s] = "executing" /\ inst[s] \in Inst /\ s \in running[inst[s]]
        /\ running' = [running EXCEPT ![inst[s]] = @ \ {s}]
        /\ live' = live
        /\ wpc' = [wpc EXCEPT ![s] = IF s \in SpawnsProcesses THEN "collect" ELSE "pump"]
        /\ inUse' = IF s \in SpawnsProcesses /\ inUse > 0 THEN inUse - 1
                    ELSE IF s \in SpawnsProcesses THEN 0 ELSE inUse
    BY <1>0, <1>3 DEF CompleteRelease, Placed, Located, Threads
  <2>2. \A j \in Inst : s \in running[j] => j = inst[s]
    BY DEF Placed, Located
  <2>3. Working' = Working
    BY <1>0, <2>1 DEF Working
  <2>4. CASE s \in SpawnsProcesses
    <3>1. Occupying' = Occupying \ {s} /\ s \in Occupying
      BY <1>0, <2>1, <2>2, <2>4 DEF Occupying
    <3>2. Cardinality(Occupying') = Cardinality(Occupying) - 1 /\ Cardinality(Occupying') \in Nat
      <4>1. IsFiniteSet(Occupying \ {s})
        BY FiniteCounts, FS_RemoveElement
      <4>2. QED
        BY <3>1, <4>1, FiniteCounts, FS_RemoveElement, FS_CardinalityType
    <3>3. inUse' = Cardinality(Occupying') /\ inUse' <= ProcessCapacity
      BY <1>0, <2>1, <2>4, <3>2
    <3>4. QED
      BY <1>0, <1>1, <2>1, <2>3, <3>3
  <2>5. CASE s \notin SpawnsProcesses
    <3>1. Occupying' = Occupying
      BY <1>0, <2>1, <2>5 DEF Occupying
    <3>2. QED
      BY <1>0, <1>1, <2>1, <2>3, <2>5, <3>1
  <2>6. QED
    BY <2>4, <2>5
<1>4. ASSUME NEW s \in Sub, WorkerLeave(s) PROVE SlotAccounting'
  <2>1. /\ wpc[s] = "leave" /\ wpc' = [wpc EXCEPT ![s] = "ended"]
        /\ live' = IF live > 0 THEN live - 1 ELSE 0
        /\ UNCHANGED <<running, inUse>>
    BY <1>4 DEF WorkerLeave
  <2>2. Working' = Working \ {s} /\ s \in Working
    BY <1>0, <2>1 DEF Working
  <2>3. Cardinality(Working') = Cardinality(Working) - 1 /\ Cardinality(Working') \in Nat
    <3>1. IsFiniteSet(Working \ {s})
      BY FiniteCounts, FS_RemoveElement
    <3>2. QED
      BY <2>2, <3>1, FiniteCounts, FS_RemoveElement, FS_CardinalityType
  <2>4. live' = Cardinality(Working')
    BY <1>0, <2>1, <2>3
  <2>5. Occupying' = Occupying
    BY <2>1 DEF Occupying
  <2>6. QED
    BY <1>0, <1>1, <2>1, <2>4, <2>5
<1>5. ASSUME NEW s \in Sub, Submit(s) PROVE SlotAccounting'
  <2>1. \A i : \A u \in Sub : wpc[u] \in {"none", "ended"} <=> Spawned(i)[u] \in {"none", "ended"}
    BY DEF Spawned
  <2>2. UNCHANGED <<running, inUse, live>> /\ (wpc' = wpc \/ wpc' = Spawned(inst[s]))
    BY <1>5 DEF Submit, SubmitRefused, SubmitClaim, SubmitLoadFails, SubmitEnter,
         SubmitWake, SubmitDispatch, SubmitReturn
  <2>3. QED
    BY <2>1, <2>2, UncountedStep
<1>6. ASSUME NEW s \in Sub, PumpInTurn(s) \/ WorkerPump(s) \/ WorkerForget(s) \/ WorkerRelease(s)
      PROVE  SlotAccounting'
  <2>1. /\ UNCHANGED <<running, inUse, live>> /\ wpc[s] \notin {"none", "ended"}
        /\ \/ wpc' = wpc
           \/ \E pc \in {"pump", "admit", "forget", "release", "leave"} :
                wpc' = [wpc EXCEPT ![s] = pc]
    BY <1>6 DEF PumpInTurn, WorkerPump, WorkerForget, WorkerRelease, AfterPump
  <2>2. QED
    BY <1>0, <2>1, UncountedStep
<1>7. ASSUME NEW s \in Sub, WorkerDispatch(s) PROVE SlotAccounting'
  <2>1. /\ UNCHANGED <<running, inUse, live>> /\ wpc[s] = "admit"
        /\ \A u \in Sub : \/ u = s /\ wpc'[u] \in {"pump", "forget"}
                          \/ u # s /\ wpc'[u] = Spawned(Head(todo[s]))[u]
    BY <1>7 DEF WorkerDispatch, AfterPump, Spawned
  <2>2. QED
    BY <2>1, UncountedStep DEF Spawned
<1>8. ASSUME NEW s \in Sub, Worker(s) PROVE SlotAccounting'
  BY <1>3, <1>4, <1>6, <1>7, <1>8 DEF Worker
<1>9. ASSUME NEW t \in Stopper, Stop(t) PROVE SlotAccounting'
  <2>1. \A i : \A u \in Sub : wpc[u] \in {"none", "ended"} <=> Spawned(i)[u] \in {"none", "ended"}
    BY DEF Spawned
  <2>2. UNCHANGED <<running, inUse, live>> /\ (wpc' = wpc \/ \E i : wpc' = Spawned(i))
    BY <1>9 DEF Stop, StopSweep, StopSettle, StopPump, StopDispatch, StopForget
  <2>3. QED
    BY <2>1, <2>2, UncountedStep
<1>10. ASSUME \/ \E r \in Run : CancelRun(r)
              \/ BeginShutdown \/ ShutdownStops \/ ShutdownEnds \/ UNCHANGED vars
       PROVE  SlotAccounting'
  <2>1. UNCHANGED <<running, inUse, live, wpc>>
    BY <1>10 DEF CancelRun, BeginShutdown, ShutdownStops, ShutdownEnds, vars
  <2>2. QED
    BY <2>1, UncountedStep
<1>11. QED
  BY <1>2, <1>5, <1>8, <1>9, <1>10 DEF Next, Idle

\* The process limit counts exactly the running calls that hold a slot and
\* never passes its capacity, and Workers::live counts exactly the workers
\* shutdown waits for.
THEOREM SlotsAreAccounted == Spec => []SlotAccounting
<1>1. Init => SlotAccounting
  <2> SUFFICES ASSUME Init PROVE SlotAccounting
    OBVIOUS
  <2>1. Occupying = {} /\ Working = {}
    BY DEF Init, Occupying, Working
  <2>2. Cardinality(Occupying) = 0 /\ Cardinality(Working) = 0
    BY <2>1, FS_EmptySet
  <2>3. 0 <= ProcessCapacity /\ inUse = 0 /\ live = 0
    BY SchedulerAssumption DEF Init
  <2>4. QED
    BY <2>2, <2>3 DEF SlotAccounting, Occupying, Working
<1>2. Placed /\ SlotAccounting /\ [Next]_vars => SlotAccounting'
  BY AccountStep
<1>3. QED
  BY EveryoneIsPlaced, <1>1, <1>2, PTL DEF Spec

-----------------------------------------------------------------------------
\* The scheduler implements WorktreeSlots

\* Both modules count alike.
LEMMA SlotsCount == \A S : Slots!Cardinality(S) = Cardinality(S)
  BY DEF Slots!Cardinality, Cardinality

\* Every step is a start, a finish or a stutter of the worktrees' occupancy.
LEMMA SlotsStep ==
    ASSUME Placed, Anchored, SlotAccounting, [Next]_vars
    PROVE  [Slots!Next]_Busy
<1> USE DEF workspaceVars, counterVars, submitVars, workerVars, stopVars
<1>0. /\ running \in [Inst -> SUBSET Sub] /\ KeyOf \in [Sub -> Key]
      /\ ReadConcurrency \in Nat
  BY SchedulerAssumption DEF Placed, TypeOK
<1>1. ASSUME running' = running PROVE [Slots!Next]_Busy
  BY <1>1 DEF Busy
<1>2. ASSUME NEW i \in Inst, AdmitHead(i) PROVE Slots!Next
  <2>1. PICK s \in Sub :
          /\ s = Head(queue[i]) /\ s \in Range(queue[i]) /\ wpc[s] = "none"
          /\ running' = [running EXCEPT ![i] = @ \cup {s}]
    BY <1>2, AdmitTakesHead
  <2>2. /\ IF Mutates(s) THEN running[i] = {}
           ELSE /\ \A r \in running[i] : ~Mutates(r)
                /\ Cardinality(running[i]) < ReadConcurrency
        /\ s \in SpawnsProcesses => inUse < ProcessCapacity
    BY <1>2, <2>1 DEF AdmitHead, Admissible
  <2>3. \A j \in Inst : s \notin running[j]
    BY <2>1 DEF Placed, Located
  <2>4. Busy[KeyOf[s]] \in SUBSET running[i]
    <3>1. map[KeyOf[s]] = i
      BY <2>1 DEF Anchored, Carries
    <3>2. QED
      BY <1>0, <3>1 DEF Busy, Anchored, Carries
  <2>5. Slots!Fits(s, KeyOf[s])
    <3>1. CASE Mutates(s)
      BY <2>2, <2>4, <3>1 DEF Slots!Fits
    <3>2. CASE ~Mutates(s)
      <4>1. IsFiniteSet(running[i])
        BY <1>0, SchedulerAssumption, FS_Subset
      <4>2. /\ Cardinality(Busy[KeyOf[s]]) <= Cardinality(running[i])
            /\ Cardinality(Busy[KeyOf[s]]) \in Nat /\ Cardinality(running[i]) \in Nat
        BY <2>4, <4>1, FS_Subset, FS_CardinalityType
      <4>3. Cardinality(Busy[KeyOf[s]]) < ReadConcurrency
        BY <1>0, <2>2, <3>2, <4>2
      <4>4. Busy[KeyOf[s]] \cap {u \in Sub : Mutates(u)} = {}
        BY <2>2, <2>4, <3>2
      <4>5. s \notin {u \in Sub : Mutates(u)}
        BY <3>2
      <4>6. QED
        BY <4>3, <4>4, <4>5, SlotsCount, Zenon DEF Slots!Fits
    <3>3. QED
      BY <3>1, <3>2
  <2>6. s \in SpawnsProcesses => Cardinality(Slots!Spawned) < ProcessCapacity
    <3>1. Slots!Spawned = {u \in SpawnsProcesses : \E j \in Inst : u \in running[j]}
      BY <1>0, SchedulerAssumption DEF Slots!Spawned, Busy
    <3>2. QED
      BY <2>2, <3>1 DEF SlotAccounting
  <2>7. \A k \in Key : s \notin Busy[k]
    BY <2>3 DEF Busy
  <2>8. Busy' = [Busy EXCEPT ![KeyOf[s]] = @ \cup {s}]
    BY <1>0, <2>1 DEF Busy
  <2>9. Slots!Start(s)
    BY <2>5, <2>6, <2>7, <2>8, SlotsCount, Zenon DEF Slots!Start
  <2>10. QED
    BY <2>9 DEF Slots!Next
<1>3. ASSUME NEW s \in Sub, CompleteRelease(s) PROVE Slots!Next
  <2>1. /\ inst[s] \in Inst /\ s \in running[inst[s]]
        /\ running' = [running EXCEPT ![inst[s]] = @ \ {s}]
    BY <1>0, <1>3 DEF CompleteRelease, Placed, Located, Threads
  <2>2. \A j \in Inst : s \in running[j] => j = inst[s]
    BY DEF Placed, Located
  <2>3. s \in Busy[KeyOf[s]]
    BY <1>0, <2>1 DEF Busy
  <2>4. Busy' = [Busy EXCEPT ![KeyOf[s]] = @ \ {s}]
    <3>1. \A u \in Sub : (\E j \in Inst : u \in running'[j]) <=> u # s /\ \E j \in Inst : u \in running[j]
      BY <1>0, <2>1, <2>2
    <3>2. \A k \in Key : Busy'[k] = IF k = KeyOf[s] THEN Busy[k] \ {s} ELSE Busy[k]
      BY <3>1 DEF Busy
    <3>3. QED
      BY <1>0, <3>2 DEF Busy
  <2>5. Slots!Finish(s)
    BY <2>3, <2>4 DEF Slots!Finish
  <2>6. QED
    BY <2>5 DEF Slots!Next
<1>4. ASSUME NEW s \in Sub, Submit(s) PROVE running' = running
  BY <1>4 DEF Submit, SubmitRefused, SubmitClaim, SubmitLoadFails, SubmitEnter,
       SubmitWake, SubmitDispatch, SubmitReturn
<1>5. ASSUME NEW s \in Sub, Worker(s) PROVE CompleteRelease(s) \/ running' = running
  BY <1>5 DEF Worker, PumpInTurn, WorkerPump, WorkerDispatch, WorkerForget,
       WorkerRelease, WorkerLeave
<1>6. ASSUME NEW t \in Stopper, Stop(t) PROVE running' = running
  BY <1>6 DEF Stop, StopSweep, StopSettle, StopPump, StopDispatch, StopForget
<1>7. QED
  BY <1>1, <1>2, <1>3, <1>4, <1>5, <1>6
     DEF Next, CancelRun, BeginShutdown, ShutdownStops, ShutdownEnds, Idle, vars

\* Over all worktrees at once the scheduler only ever starts a call its
\* worktree can take and a process slot is free for, or ends one.
THEOREM SlotsAreImplemented == Spec => ImplementsSlots
<1>1. Init => Slots!Init
  BY DEF Init, Slots!Init, Busy
<1>2. Placed /\ Anchored /\ SlotAccounting /\ [Next]_vars => [Slots!Next]_Busy
  BY SlotsStep
<1>3. Exclusive => Anchored
  BY DEF Exclusive
<1>4. QED
  BY EveryoneIsPlaced, WorktreesAreExclusive, SlotsAreAccounted, <1>1, <1>2, <1>3, PTL
     DEF Spec, ImplementsSlots, Slots!Spec

-----------------------------------------------------------------------------
\* What the scheduler keeps to a recorded call, and what it promises whoever
\* cancels a run or shuts it down.

\* Where a submission can go in one step: into a queue only by joining it,
\* which needs the flag unset; to a worker only from a queue; and never back
\* before the claim.
LEMMA Moves ==
    ASSUME Placed, [Next]_vars, NEW s \in Sub
    PROVE  /\ spc[s] \in Joined => spc'[s] \in Joined
           /\ \A i \in Inst : s \in Range(queue'[i]) =>
                s \in Range(queue[i]) \/ (spc[s] \in {"claimed", "parked"} /\ ~shutting)
           /\ \A i \in Inst : s \in running'[i] => s \in running[i] \/ s \in Range(queue[i])
           /\ wpc[s] \in {"none", "leave", "ended"} /\ wpc'[s] \notin {"none", "leave", "ended"} =>
                \E i \in Inst : s \in Range(queue[i])
           /\ wpc[s] \in {"none", "ended"} /\ wpc'[s] # wpc[s] => \E i \in Inst : s \in Range(queue[i])
<1> USE DEF workspaceVars, counterVars, submitVars, workerVars, stopVars
<1>0. /\ queue \in [Inst -> Seq(Sub)] /\ running \in [Inst -> SUBSET Sub]
      /\ spc \in [Sub -> SubmitPC] /\ wpc \in [Sub -> WorkerPC]
  BY DEF Placed, TypeOK
<1> DEFINE Forward == spc[s] \in Joined => spc'[s] \in Joined
           QueueIn == \A i \in Inst : s \in Range(queue'[i]) =>
                        s \in Range(queue[i]) \/ (spc[s] \in {"claimed", "parked"} /\ ~shutting)
           RunIn == \A i \in Inst : s \in running'[i] => s \in running[i] \/ s \in Range(queue[i])
           WorkIn ==
             /\ wpc[s] \in {"none", "leave", "ended"} /\ wpc'[s] \notin {"none", "leave", "ended"} =>
                  \E i \in Inst : s \in Range(queue[i])
             /\ wpc[s] \in {"none", "ended"} /\ wpc'[s] # wpc[s] => \E i \in Inst : s \in Range(queue[i])
\* A worker that starts has been admitted before.
<1>1. ASSUME wpc' = wpc \/ \E i : wpc' = Spawned(i) PROVE WorkIn
  BY <1>1 DEF Spawned
<1>2. ASSUME NEW u \in Sub, NEW i \in Inst, JoinQueue(u, i), spc[u] \in {"claimed", "parked"},
             UNCHANGED <<running, wpc>>
      PROVE  Forward /\ QueueIn /\ RunIn /\ WorkIn
  <2>1. Range(Append(queue[i], u)) = Range(queue[i]) \cup {u}
    BY <1>0, AppendNew
  <2>2. \/ queue' = queue /\ spc' = [spc EXCEPT ![u] = "refused"]
        \/ ~shutting /\ queue' = [queue EXCEPT ![i] = Append(@, u)] /\ spc' = [spc EXCEPT ![u] = "admit"]
    BY <1>2 DEF JoinQueue
  <2>3. QED
    BY <1>0, <1>2, <2>1, <2>2 DEF Joined
<1>3. ASSUME NEW u \in Sub, Submit(u) PROVE Forward /\ QueueIn /\ RunIn /\ WorkIn
  <2>1. ASSUME SubmitEnter(u) PROVE Forward /\ QueueIn /\ RunIn /\ WorkIn
    <3>1. PICK i \in Inst : \/ spc' = [spc EXCEPT ![u] = "parked"] /\ queue' = queue
                            \/ JoinQueue(u, i)
      BY <2>1 DEF SubmitEnter
    <3>2. spc[u] = "claimed" /\ UNCHANGED <<running, wpc>>
      BY <2>1 DEF SubmitEnter
    <3>3. QED
      BY <1>0, <1>2, <3>1, <3>2 DEF Joined
  <2>2. ASSUME SubmitWake(u) PROVE Forward /\ QueueIn /\ RunIn /\ WorkIn
    <3>1. spc[u] = "parked" /\ inst[u] \in Inst /\ JoinQueue(u, inst[u]) /\ UNCHANGED <<running, wpc>>
      BY <2>2 DEF SubmitWake, Placed, Threads
    <3>2. QED
      BY <1>2, <3>1
  <2>3. ASSUME SubmitRefused(u) \/ SubmitClaim(u) \/ SubmitLoadFails(u) \/ SubmitDispatch(u)
                 \/ SubmitReturn(u)
        PROVE  Forward /\ QueueIn /\ RunIn /\ WorkIn
    <3>1. UNCHANGED <<queue, running>> /\ (wpc' = wpc \/ \E i : wpc' = Spawned(i))
      BY <2>3 DEF SubmitRefused, SubmitClaim, SubmitLoadFails, SubmitDispatch, SubmitReturn
    <3>2. Forward
      BY <1>0, <2>3 DEF Joined, SubmitRefused, SubmitClaim, SubmitLoadFails, SubmitDispatch,
                        SubmitReturn
    <3>3. QED
      BY <1>1, <3>1, <3>2
  <2>4. QED
    BY <1>3, <2>1, <2>2, <2>3 DEF Submit
<1>4. ASSUME NEW u \in Sub, Worker(u) PROVE Forward /\ QueueIn /\ RunIn /\ WorkIn
  <2>1. UNCHANGED <<spc, queue>>
    BY <1>4 DEF Worker, CompleteRelease, PumpInTurn, WorkerPump, WorkerDispatch, WorkerForget,
         WorkerRelease, WorkerLeave
  <2>2. RunIn
    <3>1. running' = running \/ running' = [running EXCEPT ![inst[u]] = @ \ {u}]
      BY <1>4 DEF Worker, CompleteRelease, PumpInTurn, WorkerPump, WorkerDispatch, WorkerForget,
         WorkerRelease, WorkerLeave
    <3>2. QED
      BY <1>0, <3>1
  <2>3. WorkIn
    <3>1. ASSUME WorkerDispatch(u) PROVE WorkIn
      BY <1>0, <3>1 DEF WorkerDispatch, Spawned
    <3>2. ASSUME \/ CompleteRelease(u) \/ PumpInTurn(u) \/ WorkerPump(u) \/ WorkerForget(u)
                 \/ WorkerRelease(u) \/ WorkerLeave(u)
          PROVE  WorkIn
      <4>1. /\ wpc' = wpc \/ \E pc : wpc' = [wpc EXCEPT ![u] = pc]
            /\ wpc[u] \notin {"none", "ended"}
            /\ wpc[u] = "leave" => wpc'[u] = "ended"
        BY <1>0, <3>2 DEF CompleteRelease, PumpInTurn, WorkerPump, WorkerForget, WorkerRelease,
             WorkerLeave
      <4>2. QED
        BY <1>0, <4>1
    <3>3. QED
      BY <1>4, <3>1, <3>2 DEF Worker
  <2>4. QED
    BY <2>1, <2>2, <2>3
<1>5. ASSUME NEW i \in Inst, AdmitHead(i) PROVE Forward /\ QueueIn /\ RunIn /\ WorkIn
  <2>1. PICK u \in Sub :
          /\ u \in Range(queue[i]) /\ queue' = [queue EXCEPT ![i] = Tail(@)]
          /\ Range(queue[i]) = Range(Tail(queue[i])) \cup {u}
          /\ running' = [running EXCEPT ![i] = @ \cup {u}]
          /\ wpc' = [wpc EXCEPT ![u] = "ready"] /\ spc' = spc
    BY <1>5, AdmitTakesHead
  <2>2. QED
    BY <1>0, <2>1
<1>6. ASSUME NEW t \in Stopper, Stop(t) PROVE Forward /\ QueueIn /\ RunIn /\ WorkIn
  <2>1. running' = running /\ (wpc' = wpc \/ \E i : wpc' = Spawned(i))
    BY <1>6 DEF Stop, StopSweep, StopSettle, StopPump, StopDispatch, StopForget
  <2>2. QueueIn
    <3>1. CASE StopSweep(t)
      <4>1. PICK i \in Inst, S \in SUBSET Sub : queue' = [queue EXCEPT ![i] = Only(queue[i], S)]
        <5>1. list[t] \in Seq(Inst) /\ list[t] # <<>>
          BY <3>1 DEF StopSweep, Placed, TypeOK, Threads
        <5>2. Head(list[t]) \in Inst
          BY <5>1, HeadTail
        <5>3. QED
          BY <3>1, <5>2 DEF StopSweep
      <4>2. Range(Only(queue[i], S)) \subseteq Range(queue[i])
        BY <1>0, OnlyOf
      <4>3. QED
        BY <1>0, <4>1, <4>2
    <3>2. CASE ~StopSweep(t)
      BY <1>6, <3>2 DEF Stop, StopSettle, StopPump, StopDispatch, StopForget
    <3>3. QED
      BY <3>1, <3>2
  <2>3. Forward
    BY <1>0, <1>6 DEF Stop, StopSweep, StopSettle, StopPump, StopDispatch, StopForget, Joined
  <2>4. QED
    BY <1>1, <2>1, <2>2, <2>3
<1>7. ASSUME UNCHANGED <<queue, running, wpc, spc>> PROVE Forward /\ QueueIn /\ RunIn /\ WorkIn
  BY <1>1, <1>7
<1>8. Forward /\ QueueIn /\ RunIn /\ WorkIn
  BY <1>3, <1>4, <1>5, <1>6, <1>7
     DEF Next, CancelRun, BeginShutdown, ShutdownStops, ShutdownEnds, Idle, vars
<1>9. QED
  BY <1>8

\* A thread inside `stop` is moved on by its own steps only.
LEMMA OwnSteps ==
    ASSUME Placed, [Next]_vars, NEW t \in Stopper
    PROVE  \/ /\ tpc'[t] = tpc[t] /\ list'[t] = list[t]
              /\ swept'[t] = swept[t] /\ targets'[t] = targets[t]
           \/ StopCollect(t) /\ UNCHANGED <<map, queue, running, tokens, shutting, wpc>>
           \/ StopSweep(t) \/ StopSettle(t) \/ StopPump(t) \/ StopDispatch(t) \/ StopForget(t)
           \/ t = ShutdownThread /\ (BeginShutdown \/ ShutdownEnds)
<1> USE DEF workspaceVars, counterVars, submitVars, workerVars, stopVars
<1>0. /\ tpc \in [Stopper -> StopPC] /\ list \in [Stopper -> Seq(Inst)]
      /\ swept \in [Stopper -> Seq([ws : Inst, removed : Seq(Sub)])]
      /\ targets \in [Stopper -> SUBSET Sub]
  BY DEF Placed, TypeOK
<1> DEFINE Still == /\ tpc'[t] = tpc[t] /\ list'[t] = list[t]
                    /\ swept'[t] = swept[t] /\ targets'[t] = targets[t]
           Collected == StopCollect(t) /\ UNCHANGED <<map, queue, running, tokens, shutting, wpc>>
<1>1. ASSUME NEW u \in Stopper, StopCollect(u), UNCHANGED <<map, queue, running, tokens, shutting, wpc>>
      PROVE  Still \/ Collected
  <2>1. u # t => Still
    BY <1>0, <1>1 DEF StopCollect
  <2>2. QED
    BY <1>1, <2>1
<1>2. ASSUME NEW s \in Sub, Submit(s) \/ Worker(s) PROVE Still \/ Collected
  <2>1. ASSUME SubmitReturn(s), shutting PROVE Still \/ Collected
    <3>1. s \in Stopper /\ StopCollect(s) /\ UNCHANGED <<map, queue, running, tokens, shutting, wpc>>
      BY <2>1, StopperHas DEF SubmitReturn
    <3>2. QED
      BY <1>1, <3>1
  <2>2. ASSUME ~(SubmitReturn(s) /\ shutting) PROVE UNCHANGED stopVars
    BY <1>2, <2>2 DEF Submit, SubmitRefused, SubmitClaim, SubmitLoadFails, SubmitEnter,
       SubmitWake, SubmitDispatch, SubmitReturn, Worker, CompleteRelease, PumpInTurn, WorkerPump,
       WorkerDispatch, WorkerForget, WorkerRelease, WorkerLeave
  <2>3. UNCHANGED stopVars => Still
    OBVIOUS
  <2>4. QED
    BY <2>1, <2>2, <2>3
<1>3. ASSUME NEW u \in Stopper, Stop(u), u # t PROVE Still
  <2>1. ASSUME StopSweep(u) PROVE Still
    BY <1>0, <1>3, <2>1 DEF StopSweep
  <2>2. ASSUME StopSettle(u) PROVE Still
    BY <1>0, <1>3, <2>2 DEF StopSettle
  <2>3. ASSUME StopPump(u) \/ StopDispatch(u) \/ StopForget(u) PROVE Still
    BY <1>0, <1>3, <2>3 DEF StopPump, StopDispatch, StopForget
  <2>4. QED
    BY <1>3, <2>1, <2>2, <2>3 DEF Stop
<1>4. ASSUME NEW r \in Run, CancelRun(r) PROVE Still \/ Collected
  BY <1>1, <1>4, StopperHas DEF CancelRun
<1>5. ASSUME ShutdownStops PROVE Still \/ Collected
  BY <1>1, <1>5, StopperHas DEF ShutdownStops
<1>6. ASSUME BeginShutdown \/ ShutdownEnds, t # ShutdownThread PROVE Still
  BY <1>0, <1>6 DEF BeginShutdown, ShutdownEnds
<1>7. ASSUME (\E i \in Inst : AdmitHead(i)) \/ UNCHANGED vars PROVE Still
  BY <1>7 DEF AdmitHead, vars
<1>8. QED
  BY <1>2, <1>3, <1>4, <1>5, <1>6, <1>7 DEF Next, Stop, Idle

\* Everything queued or running is in an object `stop` finds in the map.
LEMMA LiveCarried ==
    ASSUME Placed, Anchored, NEW s \in Sub, NEW i \in Inst,
           s \in running[i] \/ s \in Range(queue[i])
    PROVE  i \in Range(LiveWorkspaces) /\ LiveWorkspaces # <<>>
<1>1. map[KeyOf[s]] = i /\ KeyOf[s] \in Key /\ map \in [Key -> Inst \cup {NoInst}]
  BY SchedulerAssumption DEF Anchored, Carries, Placed, TypeOK
<1>2. i \in Range(map)
  BY <1>1 DEF Range
<1>3. QED
  BY <1>1, <1>2, LiveListed

\* Sweeping one object: what matches is out of its queue or has its token
\* tripped, and the objects still to come are still to come.
LEMMA Swept ==
    ASSUME Placed, NEW t \in Stopper, StopSweep(t), NEW i, i = Head(list[t])
    PROVE  /\ i \in Inst
           /\ Range(queue'[i]) = Range(queue[i]) \cap {s \in Sub : ~Matches(t, s)}
           /\ tokens' = tokens \cup {s \in running[i] : Matches(t, s)}
           /\ \A j \in Range(list[t]) : j # i => tpc'[t] = "sweep" /\ j \in Range(list'[t])
           /\ UNCHANGED <<running, targets>>
<1>1. /\ list[t] \in Seq(Inst) /\ list[t] # <<>> /\ queue \in [Inst -> Seq(Sub)]
      /\ tpc \in [Stopper -> StopPC] /\ list \in [Stopper -> Seq(Inst)]
  BY DEF StopSweep, Placed, TypeOK, Threads
<1>2. i \in Inst /\ Range(list[t]) = Range(Tail(list[t])) \cup {i}
  BY <1>1, HeadTail
<1>3. Len(list[t]) = 1 => Tail(list[t]) = <<>>
  BY <1>1, LastEntry
<1>4. Range(<<>>) = {}
  BY DEF Range
<1>5. /\ queue' = [queue EXCEPT ![i] = Only(queue[i], {s \in Sub : ~Matches(t, s)})]
      /\ tokens' = tokens \cup {s \in running[i] : Matches(t, s)}
      /\ list' = [list EXCEPT ![t] = Tail(@)]
      /\ tpc' = [tpc EXCEPT ![t] = IF Len(list[t]) = 1 THEN "settle" ELSE "sweep"]
      /\ UNCHANGED <<running, targets>>
  BY DEF StopSweep
<1>6. Range(Only(queue[i], {s \in Sub : ~Matches(t, s)})) = Range(queue[i]) \cap {s \in Sub : ~Matches(t, s)}
  BY <1>1, <1>2, OnlyOf
<1>7. \A j \in Range(list[t]) : j # i => tpc'[t] = "sweep" /\ j \in Range(list'[t])
  BY <1>1, <1>2, <1>3, <1>4, <1>5
<1>8. QED
  BY <1>1, <1>2, <1>5, <1>6, <1>7

-----------------------------------------------------------------------------
\* What `stop` was asked to stop

\* A target never returns to a queue; as long as it is in one, or runs with
\* its token intact, `stop` has its object still to sweep.
Reached ==
    \A t \in Stopper, s \in Sub :
        s \in targets[t] =>
            /\ Matches(t, s) /\ spc[s] \in Joined
            /\ \A i \in Inst :
                 s \in Range(queue[i]) \/ (s \in running[i] /\ s \notin tokens) =>
                     tpc[t] = "sweep" /\ i \in Range(list[t])

\* The flag is set by the thread that then stops everything, and a call is in
\* a queue after that only until that thread has swept its object.
Drained ==
    /\ shutting <=> tpc[ShutdownThread] # "idle"
    /\ shutting => \A s \in Sub, i \in Inst :
         s \in Range(queue[i]) => \/ tpc[ShutdownThread] = "begun"
                                  \/ tpc[ShutdownThread] = "sweep" /\ i \in Range(list[ShutdownThread])

\* After a clean stop no worker is left.
Quiet == tpc[ShutdownThread] = "clean" => \A s \in Sub : wpc[s] \in {"none", "ended"}

\* A tripped token stays tripped.
LEMMA TokensKept == ASSUME [Next]_vars PROVE tokens \subseteq tokens'
<1> USE DEF workspaceVars, counterVars, submitVars, workerVars, stopVars
<1>1. ASSUME NEW s \in Sub, Submit(s) \/ Worker(s) PROVE tokens' = tokens
  BY <1>1 DEF Submit, SubmitRefused, SubmitClaim, SubmitLoadFails, SubmitEnter,
     SubmitWake, SubmitDispatch, SubmitReturn, Worker, CompleteRelease, PumpInTurn, WorkerPump,
     WorkerDispatch, WorkerForget, WorkerRelease, WorkerLeave
<1>2. ASSUME NEW t \in Stopper, Stop(t) PROVE tokens \subseteq tokens'
  BY <1>2 DEF Stop, StopSweep, StopSettle, StopPump, StopDispatch, StopForget
<1>3. QED
  BY <1>1, <1>2 DEF Next, AdmitHead, CancelRun, BeginShutdown, ShutdownStops, ShutdownEnds, Idle, vars

\* Whatever moves between two sweeps of `stop`, its targets move only towards
\* being stopped: admission keeps a call in the object `stop` still has to sweep.
LEMMA ReachedStep ==
    ASSUME Placed, Anchored, Reached, Drained, [Next]_vars
    PROVE  Reached'
<1> SUFFICES ASSUME NEW t \in Stopper, NEW s \in Sub, s \in targets'[t]
             PROVE  /\ Matches(t, s) /\ spc'[s] \in Joined
                    /\ \A i \in Inst :
                         s \in Range(queue'[i]) \/ (s \in running'[i] /\ s \notin tokens') =>
                             tpc'[t] = "sweep" /\ i \in Range(list'[t])
  BY DEF Reached, Matches
<1>0. /\ tpc \in [Stopper -> StopPC] /\ list \in [Stopper -> Seq(Inst)]
      /\ targets \in [Stopper -> SUBSET Sub]
  BY DEF Placed, TypeOK
\* A target stays matched, joined and out of every queue it is not in.
<1>1. ASSUME s \in targets[t]
      PROVE  /\ Matches(t, s) /\ spc'[s] \in Joined
             /\ \A i \in Inst :
                  s \in Range(queue'[i]) \/ (s \in running'[i] /\ s \notin tokens') =>
                      tpc[t] = "sweep" /\ i \in Range(list[t])
  <2>1. Matches(t, s) /\ spc[s] \in Joined
    BY <1>1 DEF Reached
  <2>2. spc'[s] \in Joined
    BY <2>1, Moves
  <2>3. ASSUME NEW i \in Inst, s \in Range(queue'[i]) \/ (s \in running'[i] /\ s \notin tokens')
        PROVE  s \in Range(queue[i]) \/ (s \in running[i] /\ s \notin tokens)
    <3>1. s \in Range(queue'[i]) => s \in Range(queue[i])
      BY <2>1, Moves DEF Joined
    <3>2. s \in running'[i] => s \in running[i] \/ s \in Range(queue[i])
      BY Moves
    <3>3. QED
      BY <2>3, <3>1, <3>2, TokensKept
  <2>4. QED
    BY <1>1, <2>1, <2>2, <2>3 DEF Reached
<1>2. ASSUME s \in targets[t], tpc[t] # "sweep" \/ (tpc'[t] = tpc[t] /\ list'[t] = list[t])
      PROVE  /\ Matches(t, s) /\ spc'[s] \in Joined
             /\ \A i \in Inst :
                  s \in Range(queue'[i]) \/ (s \in running'[i] /\ s \notin tokens') =>
                      tpc'[t] = "sweep" /\ i \in Range(list'[t])
  BY <1>1, <1>2
<1>3. CASE tpc'[t] = tpc[t] /\ list'[t] = list[t] /\ targets'[t] = targets[t]
  BY <1>2, <1>3
<1>4. CASE StopCollect(t) /\ UNCHANGED <<map, queue, running, tokens, shutting, wpc>>
  <2>1. /\ targets' = [targets EXCEPT ![t] = {u \in Sub : Matches(t, u) /\ InWorkspace(u)}]
        /\ list' = [list EXCEPT ![t] = LiveWorkspaces]
        /\ tpc' = [tpc EXCEPT ![t] = IF LiveWorkspaces = <<>> THEN "settle" ELSE "sweep"]
    BY <1>4 DEF StopCollect
  <2>2. Matches(t, s) /\ InWorkspace(s)
    BY <1>0, <2>1
  <2>3. spc[s] \in Joined
    BY <2>2 DEF InWorkspace, Placed, Located, Threads
  <2>4. spc'[s] \in Joined
    BY <2>3, Moves
  <2>5. ASSUME NEW i \in Inst, s \in Range(queue[i]) \/ s \in running[i]
        PROVE  tpc'[t] = "sweep" /\ i \in Range(list'[t])
    BY <1>0, <2>1, <2>5, LiveCarried
  <2>6. QED
    BY <1>4, <2>2, <2>4, <2>5
<1>5. CASE StopSweep(t)
  <2> DEFINE h == Head(list[t])
  <2>1. /\ h \in Inst
        /\ Range(queue'[h]) = Range(queue[h]) \cap {u \in Sub : ~Matches(t, u)}
        /\ tokens' = tokens \cup {u \in running[h] : Matches(t, u)}
        /\ \A j \in Range(list[t]) : j # h => tpc'[t] = "sweep" /\ j \in Range(list'[t])
        /\ UNCHANGED <<running, targets>>
    BY <1>5, Swept
  <2> HIDE DEF h
  <2>2. /\ Matches(t, s) /\ spc'[s] \in Joined
        /\ \A i \in Inst :
             s \in Range(queue'[i]) \/ (s \in running'[i] /\ s \notin tokens') =>
                 i \in Range(list[t])
    BY <1>1, <2>1
  <2>3. ~(s \in Range(queue'[h]) \/ (s \in running'[h] /\ s \notin tokens'))
    BY <2>1, <2>2
  <2>4. QED
    BY <2>1, <2>2, <2>3
<1>6. CASE StopForget(t)
  <2>1. targets'[t] = {}
    BY <1>0, <1>6 DEF StopForget
  <2>2. QED
    BY <2>1
<1>7. CASE StopSettle(t) \/ StopPump(t) \/ StopDispatch(t)
  <2>1. tpc[t] # "sweep" /\ targets' = targets
    BY <1>7 DEF StopSettle, StopPump, StopDispatch
  <2>2. QED
    BY <1>2, <2>1
<1>8. CASE t = ShutdownThread /\ (BeginShutdown \/ ShutdownEnds)
  <2>1. tpc[t] # "sweep" /\ targets' = targets
    BY <1>8 DEF BeginShutdown, ShutdownEnds, Drained
  <2>2. QED
    BY <1>2, <2>1
<1>9. QED
  BY <1>3, <1>4, <1>5, <1>6, <1>7, <1>8, OwnSteps

\* The flag goes up before the list of workspaces is taken, and JoinQueue reads
\* it under the mutex: no queue grows behind the sweep.
LEMMA DrainedStep ==
    ASSUME Placed, Anchored, Drained, [Next]_vars
    PROVE  Drained'
<1> DEFINE T == ShutdownThread
<1>0. /\ tpc \in [Stopper -> StopPC] /\ list \in [Stopper -> Seq(Inst)]
      /\ T \in Stopper /\ \A s \in Sub : Matches(T, s)
  BY StopperHas, SchedulerAssumption DEF Placed, TypeOK, Matches
<1>1. BeginShutdown \/ shutting' = shutting
  <2> USE DEF workspaceVars, counterVars, submitVars, workerVars, stopVars
  <2>1. ASSUME NEW s \in Sub, Submit(s) \/ Worker(s) PROVE shutting' = shutting
    BY <2>1 DEF Submit, SubmitRefused, SubmitClaim, SubmitLoadFails, SubmitEnter,
       SubmitWake, SubmitDispatch, SubmitReturn, Worker, CompleteRelease, PumpInTurn, WorkerPump,
       WorkerDispatch, WorkerForget, WorkerRelease, WorkerLeave
  <2>2. ASSUME NEW t \in Stopper, Stop(t) PROVE shutting' = shutting
    BY <2>2 DEF Stop, StopSweep, StopSettle, StopPump, StopDispatch, StopForget
  <2>3. QED
    BY <2>1, <2>2 DEF Next, AdmitHead, CancelRun, ShutdownStops, ShutdownEnds, Idle, vars
\* While the flag is set no call gets into a queue.
<1>2. ASSUME shutting, NEW s \in Sub, NEW i \in Inst, s \in Range(queue'[i])
      PROVE  s \in Range(queue[i])
  BY <1>2, Moves
<1>3. CASE BeginShutdown
  BY <1>0, <1>3 DEF BeginShutdown, Drained
<1>4. CASE tpc'[T] = tpc[T] /\ list'[T] = list[T] /\ ~BeginShutdown
  BY <1>1, <1>2, <1>4 DEF Drained
<1>5. CASE StopCollect(T) /\ UNCHANGED <<map, queue, running, tokens, shutting, wpc>>
  <2>1. /\ list' = [list EXCEPT ![T] = LiveWorkspaces]
        /\ tpc' = [tpc EXCEPT ![T] = IF LiveWorkspaces = <<>> THEN "settle" ELSE "sweep"]
    BY <1>5 DEF StopCollect
  <2>2. \A s \in Sub, i \in Inst : s \in Range(queue[i]) => i \in Range(LiveWorkspaces) /\ LiveWorkspaces # <<>>
    BY LiveCarried
  <2>3. shutting
    <3> USE DEF workspaceVars, counterVars, submitVars, workerVars, stopVars
    <3>1. CASE ~shutting
      <4>1. tpc[T] = "idle" /\ tpc'[T] \in {"settle", "sweep"}
        BY <1>0, <2>1, <3>1 DEF Drained
      <4>2. ASSUME NEW s \in Sub, Submit(s) \/ Worker(s) PROVE FALSE
        <5>1. tpc' = tpc
          BY <3>1, <4>2 DEF Submit, SubmitRefused, SubmitClaim, SubmitLoadFails, SubmitEnter,
             SubmitWake, SubmitDispatch, SubmitReturn, Worker, CompleteRelease, PumpInTurn,
             WorkerPump, WorkerDispatch, WorkerForget, WorkerRelease, WorkerLeave
        <5>2. QED
          BY <4>1, <5>1
      <4>3. ASSUME NEW t \in Stopper, Stop(t) PROVE FALSE
        <5>1. t # T
          BY <4>1, <4>3 DEF Stop, StopSweep, StopSettle, StopPump, StopDispatch, StopForget
        <5>2. tpc'[T] = tpc[T]
          BY <1>0, <4>3, <5>1 DEF Stop, StopSweep, StopSettle, StopPump, StopDispatch, StopForget
        <5>3. QED
          BY <4>1, <5>2
      <4>4. ASSUME NEW r \in Run, CancelRun(r) PROVE FALSE
        <5>1. r # T /\ r \in Stopper
          BY StopperHas, SchedulerAssumption
        <5>2. tpc'[T] = tpc[T]
          BY <1>0, <4>4, <5>1 DEF CancelRun, StopCollect
        <5>3. QED
          BY <4>1, <5>2
      <4>5. QED
        BY <1>0, <1>5, <3>1, <4>1, <4>2, <4>3, <4>4
           DEF Next, AdmitHead, BeginShutdown, ShutdownStops, ShutdownEnds, Idle, vars
    <3>2. QED
      BY <3>1
  <2>4. QED
    BY <1>0, <1>5, <2>1, <2>2, <2>3 DEF Drained
<1>6. CASE StopSweep(T)
  <2> DEFINE h == Head(list[T])
  <2>1. /\ h \in Inst
        /\ Range(queue'[h]) = Range(queue[h]) \cap {u \in Sub : ~Matches(T, u)}
        /\ \A j \in Range(list[T]) : j # h => tpc'[T] = "sweep" /\ j \in Range(list'[T])
    BY <1>0, <1>6, Swept
  <2>2. tpc[T] = "sweep" /\ tpc'[T] \in {"settle", "sweep"} /\ shutting' = shutting
    BY <1>0, <1>6 DEF StopSweep
  <2> HIDE DEF h
  <2>3. \A s \in Sub : s \notin Range(queue'[h])
    BY <1>0, <2>1
  <2>4. shutting
    BY <2>2 DEF Drained
  <2>5. \A s \in Sub, i \in Inst : s \in Range(queue'[i]) => tpc'[T] = "sweep" /\ i \in Range(list'[T])
    BY <1>2, <2>1, <2>2, <2>3, <2>4 DEF Drained
  <2>6. QED
    BY <2>2, <2>4, <2>5 DEF Drained
<1>7. CASE StopSettle(T) \/ StopPump(T) \/ StopDispatch(T) \/ StopForget(T) \/ ShutdownEnds
  <2>1. /\ tpc[T] \in {"settle", "admit", "waiting"} /\ tpc'[T] # "idle"
        /\ shutting' = shutting
    BY <1>0, <1>7 DEF StopSettle, StopPump, StopDispatch, StopForget, ShutdownEnds, counterVars
  <2>2. QED
    BY <1>2, <2>1 DEF Drained
<1>8. QED
  BY <1>0, <1>3, <1>4, <1>5, <1>6, <1>7, OwnSteps

\* wait_until_idle reports a clean stop only without live workers, and a worker
\* starts only from a queue.
LEMMA QuietStep ==
    ASSUME Placed, SlotAccounting, Drained, Quiet, [Next]_vars
    PROVE  Quiet'
<1> DEFINE T == ShutdownThread
<1>0. tpc \in [Stopper -> StopPC] /\ T \in Stopper
  BY StopperHas DEF Placed, TypeOK
<1> SUFFICES ASSUME tpc'[T] = "clean" PROVE \A s \in Sub : wpc'[s] \in {"none", "ended"}
  BY DEF Quiet
<1>1. CASE tpc[T] = "clean"
  <2>1. \A s \in Sub, i \in Inst : s \notin Range(queue[i])
    BY <1>1 DEF Drained
  <2>2. \A s \in Sub : wpc'[s] = wpc[s]
    BY <1>1, <2>1, Moves DEF Quiet
  <2>3. QED
    BY <1>1, <2>2 DEF Quiet
<1>2. CASE tpc[T] # "clean"
  <2>1. ShutdownEnds
    <3>1. StopCollect(T) => tpc'[T] # "clean"
      BY <1>0 DEF StopCollect
    <3>2. StopSweep(T) \/ StopSettle(T) \/ StopPump(T) \/ StopDispatch(T) \/ StopForget(T) =>
            tpc'[T] # "clean"
      BY <1>0 DEF StopSweep, StopSettle, StopPump, StopDispatch, StopForget
    <3>3. BeginShutdown => tpc'[T] # "clean"
      BY <1>0 DEF BeginShutdown
    <3>4. QED
      BY <1>0, <1>2, <3>1, <3>2, <3>3, OwnSteps
  <2>2. live = 0 /\ wpc' = wpc
    BY <1>0, <2>1 DEF ShutdownEnds, workerVars
  <2>3. Working = {}
    BY <2>2, FiniteCounts, FS_EmptySet DEF SlotAccounting, Working
  <2>4. QED
    BY <2>2, <2>3 DEF Working
<1>3. QED
  BY <1>1, <1>2

\* The three hold together in every reachable state.
LEMMA StopInvariants == Spec => [](Reached /\ Drained /\ Quiet)
<1>1. Init => Reached /\ Drained /\ Quiet
  BY StopperHas DEF Init, Reached, Drained, Quiet
<1>2. /\ Placed /\ Anchored /\ SlotAccounting /\ Reached /\ Drained /\ Quiet /\ [Next]_vars
      => Reached' /\ Drained' /\ Quiet'
  BY ReachedStep, DrainedStep, QuietStep
<1>3. Exclusive => Anchored
  BY DEF Exclusive
<1>4. QED
  BY EveryoneIsPlaced, WorktreesAreExclusive, SlotsAreAccounted, <1>1, <1>2, <1>3, PTL DEF Spec

\* When `stop` is done with its workspaces, every call that was queued or
\* running when it began, however it moved meanwhile, is out of the queues and
\* executes only with its token tripped.
THEOREM StopReachesEveryone == Spec => []StopReaches
<1>1. Placed /\ Reached => StopReaches
  <2> SUFFICES ASSUME Placed, Reached, NEW t \in Stopper, tpc[t] = "settle",
                      NEW s \in targets[t], NEW i \in Inst
               PROVE  /\ s \notin Range(queue[i])
                      /\ wpc[s] \in {"ready", "executing"} => s \in tokens
    BY DEF StopReaches
  <2>1. s \in Sub
    BY DEF Placed, TypeOK
  <2>2. wpc[s] \in {"ready", "executing"} => inst[s] \in Inst /\ s \in running[inst[s]]
    BY <2>1 DEF Placed, Located, Threads
  <2>3. QED
    BY <2>1, <2>2 DEF Reached
<1>2. QED
  BY EveryoneIsPlaced, StopInvariants, <1>1, PTL

\* A shutdown that reports a clean stop left no call queued or running and no
\* worker about to start, then or ever after.
THEOREM CleanStopsAreClean == Spec => []CleanShutdown
<1>1. Placed /\ Drained /\ Quiet => CleanShutdown
  <2> SUFFICES ASSUME Placed, Drained, Quiet, tpc[ShutdownThread] = "clean", NEW s \in Sub
               PROVE  ~InWorkspace(s) /\ wpc[s] \in {"none", "ended"}
    BY DEF CleanShutdown
  <2>1. wpc[s] \in {"none", "ended"}
    BY DEF Quiet
  <2>2. \A i \in Inst : s \notin running[i] /\ s \notin Range(queue[i])
    BY <2>1 DEF Placed, Located, Drained
  <2>3. QED
    BY <2>1, <2>2 DEF InWorkspace
<1>2. QED
  BY EveryoneIsPlaced, StopInvariants, <1>1, PTL

-----------------------------------------------------------------------------
\* One way at a time for a recorded call

\* `stop` has taken s out of its queue and has not settled it.
InSwept(s) ==
    \E t \in Stopper : \E n \in DOMAIN swept[t] : s \in Range(swept[t][n].removed)

\* What `stop` removed is nowhere else, and it is removed once.
Removed ==
    /\ \A s \in Sub : InSwept(s) =>
         /\ spc[s] \in Joined /\ wpc[s] = "none"
         /\ \A i \in Inst : s \notin Range(queue[i])
    /\ \A t \in Stopper : \A n \in DOMAIN swept[t] : IsInjective(swept[t][n].removed)
    /\ \A t, u \in Stopper : \A n \in DOMAIN swept[t], m \in DOMAIN swept[u] : \A s \in Sub :
         s \in Range(swept[t][n].removed) /\ s \in Range(swept[u][m].removed) => t = u /\ n = m

\* The submission is on its way: from its claim until its worker, or `stop`,
\* gives the claim back.
Holds(s) ==
    \/ spc[s] \in {"claimed", "parked"}
    \/ \E i \in Inst : s \in Range(queue[i])
    \/ wpc[s] \notin {"none", "leave", "ended"}
    \/ InSwept(s)

\* Whoever is on its way holds the claim on its call, and nobody else is on
\* its way with that call.
ClaimHeld ==
    \A s \in Sub : Holds(s) =>
        /\ CallOf[s] \in claimed
        /\ \A u \in Sub : Holds(u) /\ CallOf[s] = CallOf[u] => s = u

\* A step of `stop` on what it removed: entries go from the front, calls from
\* the front of the first entry, and only StopSweep adds one.
LEMMA SweptShape ==
    ASSUME Placed, [Next]_vars
    PROVE  \/ swept' = swept
           \/ \E t \in Stopper : StopSweep(t) \/ StopSettle(t)
           \/ \E t \in Stopper : swept[t] # <<>> /\ swept' = [swept EXCEPT ![t] = Tail(@)]
<1> USE DEF workspaceVars, counterVars, submitVars, workerVars, stopVars
<1>1. ASSUME NEW s \in Sub, Submit(s) \/ Worker(s) PROVE swept' = swept
  BY <1>1 DEF Submit, SubmitRefused, SubmitClaim, SubmitLoadFails, SubmitEnter,
     SubmitWake, SubmitDispatch, SubmitReturn, StopCollect, Worker, CompleteRelease, PumpInTurn,
     WorkerPump, WorkerDispatch, WorkerForget, WorkerRelease, WorkerLeave
<1>2. ASSUME NEW t \in Stopper, StopPump(t) \/ StopDispatch(t)
      PROVE  \/ swept' = swept
             \/ swept[t] # <<>> /\ swept' = [swept EXCEPT ![t] = Tail(@)]
  BY <1>2 DEF StopPump, StopDispatch, Placed, Threads
<1>3. ASSUME NEW t \in Stopper, StopForget(t) PROVE swept' = swept
  BY <1>3 DEF StopForget
<1>4. QED
  BY <1>1, <1>2, <1>3 DEF Next, Stop, AdmitHead, CancelRun, StopCollect, BeginShutdown, ShutdownStops,
     ShutdownEnds, Idle, vars

\* The first entry of what a thread removed has been worked off.
LEMMA EntryDone ==
    ASSUME Placed, Removed, NEW t \in Stopper, swept[t] # <<>>,
           swept' = [swept EXCEPT ![t] = Tail(@)]
    PROVE  /\ \A s \in Sub : InSwept(s)' => InSwept(s)
           /\ \A u \in Stopper : \A n \in DOMAIN swept'[u] : IsInjective(swept'[u][n].removed)
           /\ \A u, v \in Stopper : \A n \in DOMAIN swept'[u], m \in DOMAIN swept'[v] : \A s \in Sub :
                s \in Range(swept'[u][n].removed) /\ s \in Range(swept'[v][m].removed) => u = v /\ n = m
<1> DEFINE Entry == [ws : Inst, removed : Seq(Sub)]
           shift(u, n) == IF u = t THEN n + 1 ELSE n
<1>1. swept \in [Stopper -> Seq(Entry)]
  BY DEF Placed, TypeOK
<1> HIDE DEF Entry
<1>2. /\ DOMAIN swept[t] = 1 .. Len(swept[t]) /\ Len(swept[t]) \in Nat
      /\ DOMAIN Tail(swept[t]) = 1 .. Len(swept[t]) - 1
      /\ \A n \in 1 .. Len(swept[t]) - 1 : Tail(swept[t])[n] = swept[t][n + 1]
  BY <1>1
<1>3. \A u \in Stopper : \A n \in DOMAIN swept'[u] :
        /\ n \in Nat
        /\ shift(u, n) \in DOMAIN swept[u] /\ swept'[u][n] = swept[u][shift(u, n)]
  <2> TAKE u \in Stopper
  <2>1. CASE u = t
    BY <1>1, <1>2, <2>1
  <2>2. CASE u # t
    <3>1. swept'[u] = swept[u] /\ DOMAIN swept[u] = 1 .. Len(swept[u])
      BY <1>1, <2>2
    <3>2. QED
      BY <2>2, <3>1
  <2>3. QED
    BY <2>1, <2>2
<1>4. \A s \in Sub : InSwept(s)' => InSwept(s)
  BY <1>3 DEF InSwept
<1>5. \A u \in Stopper : \A n \in DOMAIN swept'[u] : IsInjective(swept'[u][n].removed)
  BY <1>3 DEF Removed
<1>6. ASSUME NEW u \in Stopper, NEW v \in Stopper, NEW n \in DOMAIN swept'[u], NEW m \in DOMAIN swept'[v],
             NEW s \in Sub, s \in Range(swept'[u][n].removed), s \in Range(swept'[v][m].removed)
      PROVE  u = v /\ n = m
  <2>1. u = v /\ shift(u, n) = shift(v, m)
    <3>1. /\ shift(u, n) \in DOMAIN swept[u] /\ s \in Range(swept[u][shift(u, n)].removed)
          /\ shift(v, m) \in DOMAIN swept[v] /\ s \in Range(swept[v][shift(v, m)].removed)
      BY <1>3, <1>6
    <3> HIDE DEF shift
    <3>2. QED
      BY <3>1 DEF Removed
  <2>2. n \in Nat /\ m \in Nat
    BY <1>3
  <2>3. QED
    BY <2>1, <2>2
<1>7. QED
  BY <1>4, <1>5, <1>6

\* Sweeping moves the matching calls of one queue to a new entry.
LEMMA SweepRemoves ==
    ASSUME Placed, Removed, NEW t \in Stopper, StopSweep(t)
    PROVE  /\ Removed'
           /\ \A s \in Sub : InSwept(s)' => InSwept(s) \/ \E j \in Inst : s \in Range(queue[j])
<1> DEFINE Entry == [ws : Inst, removed : Seq(Sub)]
           i == Head(list[t])
           gone == Only(queue[i], {s \in Sub : Matches(t, s)})
           kept == Only(queue[i], {s \in Sub : ~Matches(t, s)})
           entry == [ws |-> i, removed |-> gone]
           last == Len(swept[t]) + 1
<1>1. /\ swept \in [Stopper -> Seq(Entry)] /\ queue \in [Inst -> Seq(Sub)]
      /\ list[t] \in Seq(Inst) /\ list[t] # <<>>
  BY DEF StopSweep, Placed, TypeOK, Threads
<1>2. i \in Inst
  BY <1>1, HeadTail
<1>3. /\ queue' = [queue EXCEPT ![i] = kept]
      /\ swept' = [swept EXCEPT ![t] = Append(@, entry)]
      /\ UNCHANGED <<spc, wpc>>
  BY DEF StopSweep, submitVars, workerVars
<1>4. /\ Range(gone) = Range(queue[i]) \cap {s \in Sub : Matches(t, s)} /\ IsInjective(gone)
      /\ Range(kept) = Range(queue[i]) \cap {s \in Sub : ~Matches(t, s)}
  BY <1>1, <1>2, OnlyOf DEF Placed, NoRepeats
<1>5. entry.removed = gone
  OBVIOUS
<1> HIDE DEF i, gone, kept, entry, Entry
<1>6. /\ DOMAIN swept[t] = 1 .. Len(swept[t]) /\ Len(swept[t]) \in Nat
      /\ DOMAIN Append(swept[t], entry) = DOMAIN swept[t] \cup {last} /\ last \notin DOMAIN swept[t]
      /\ \A n \in DOMAIN swept[t] : Append(swept[t], entry)[n] = swept[t][n]
      /\ Append(swept[t], entry)[last] = entry
  <2>1. swept[t] \in Seq(Entry)
    BY <1>1
  <2>2. /\ DOMAIN swept[t] = 1 .. Len(swept[t]) /\ Len(swept[t]) \in Nat
        /\ DOMAIN Append(swept[t], entry) = 1 .. Len(swept[t]) + 1
        /\ \A n \in 1 .. Len(swept[t]) : Append(swept[t], entry)[n] = swept[t][n]
        /\ Append(swept[t], entry)[Len(swept[t]) + 1] = entry
    BY <2>1
  <2>3. QED
    BY <2>2
<1> HIDE DEF last
<1>7. \A u \in Stopper : \A n \in DOMAIN swept'[u] :
        \/ u = t /\ n = last /\ swept'[u][n].removed = gone
        \/ n \in DOMAIN swept[u] /\ swept'[u][n] = swept[u][n]
  BY <1>1, <1>3, <1>5, <1>6
\* The calls that go were queued, and so in no entry.
<1>8. \A s \in Range(gone) : s \in Sub /\ ~InSwept(s)
  BY <1>2, <1>4 DEF Removed
<1>9. ASSUME NEW s \in Sub, InSwept(s)'
      PROVE  spc'[s] \in Joined /\ wpc'[s] = "none" /\ \A j \in Inst : s \notin Range(queue'[j])
  <2>1. PICK u \in Stopper : \E n \in DOMAIN swept'[u] : s \in Range(swept'[u][n].removed)
    BY <1>9 DEF InSwept
  <2>2. CASE s \in Range(gone)
    <3>1. s \in Range(queue[i]) /\ s \notin Range(kept)
      BY <1>4, <2>2
    <3>2. inst[s] = i /\ spc[s] \in Joined /\ wpc[s] = "none"
      BY <1>2, <3>1 DEF Placed, Located
    <3>3. \A j \in Inst : s \in Range(queue[j]) => j = i
      BY <3>2 DEF Placed, Located
    <3>4. QED
      BY <1>1, <1>2, <1>3, <3>1, <3>2, <3>3
  <2>3. CASE InSwept(s)
    <3>1. spc[s] \in Joined /\ wpc[s] = "none" /\ \A j \in Inst : s \notin Range(queue[j])
      BY <2>3 DEF Removed
    <3>2. QED
      BY <1>1, <1>2, <1>3, <1>4, <3>1
  <2>4. QED
    BY <1>7, <2>1, <2>2, <2>3 DEF InSwept
<1>10. \A u \in Stopper : \A n \in DOMAIN swept'[u] : IsInjective(swept'[u][n].removed)
  BY <1>4, <1>7 DEF Removed
<1>11. ASSUME NEW u \in Stopper, NEW v \in Stopper, NEW n \in DOMAIN swept'[u], NEW m \in DOMAIN swept'[v],
              NEW s \in Sub, s \in Range(swept'[u][n].removed), s \in Range(swept'[v][m].removed)
       PROVE  u = v /\ n = m
  <2>1. CASE InSwept(s)
    <3>1. s \notin Range(gone)
      BY <1>8, <2>1
    <3>2. n \in DOMAIN swept[u] /\ swept'[u][n] = swept[u][n] /\ m \in DOMAIN swept[v] /\ swept'[v][m] = swept[v][m]
      BY <1>7, <1>11, <3>1
    <3>3. QED
      BY <1>11, <3>2 DEF Removed
  <2>2. CASE ~InSwept(s)
    BY <1>7, <1>11, <2>2 DEF InSwept
  <2>3. QED
    BY <2>1, <2>2
<1>12. ASSUME NEW s \in Sub, InSwept(s)', ~InSwept(s)
       PROVE  \E j \in Inst : s \in Range(queue[j])
  <2>1. s \in Range(gone)
    BY <1>7, <1>12 DEF InSwept
  <2>2. QED
    BY <1>2, <1>4, <2>1
<1>13. Removed'
  BY <1>9, <1>10, <1>11 DEF Removed
<1>14. QED
  BY <1>12, <1>13

\* Settling a removed call takes it, and it alone, out of what was removed.
LEMMA SettleRemoves ==
    ASSUME Placed, Removed, NEW t \in Stopper, StopSettle(t)
    PROVE  /\ \E s \in Sub : InSwept(s) /\ ~InSwept(s)' /\ claimed' = claimed \ {CallOf[s]}
           /\ \A s \in Sub : InSwept(s)' => InSwept(s)
           /\ \A u \in Stopper : \A n \in DOMAIN swept'[u] : IsInjective(swept'[u][n].removed)
           /\ \A u, v \in Stopper : \A n \in DOMAIN swept'[u], m \in DOMAIN swept'[v] : \A s \in Sub :
                s \in Range(swept'[u][n].removed) /\ s \in Range(swept'[v][m].removed) => u = v /\ n = m
<1> DEFINE Entry == [ws : Inst, removed : Seq(Sub)]
           old == swept[t][1].removed
<1>1. /\ swept \in [Stopper -> Seq(Entry)] /\ swept[t] # <<>> /\ Head(swept[t]).removed # <<>>
      /\ swept' = [swept EXCEPT ![t][1].removed = Tail(@)]
      /\ claimed' = claimed \ {CallOf[Head(Head(swept[t]).removed)]}
  BY DEF StopSettle, Placed, TypeOK
<1>2. /\ \A u \in Stopper : DOMAIN swept'[u] = DOMAIN swept[u]
      /\ \A u \in Stopper : \A n \in DOMAIN swept[u] :
           swept'[u][n].removed = IF u = t /\ n = 1 THEN Tail(old) ELSE swept[u][n].removed
  BY <1>1, SettleOne
<1>3. 1 \in DOMAIN swept[t] /\ Head(swept[t]) = swept[t][1] /\ swept[t][1] \in Entry
  <2> HIDE DEF Entry
  <2>1. swept[t] \in Seq(Entry) /\ swept[t] # <<>>
    BY <1>1
  <2>2. QED
    BY <2>1
<1>4. old \in Seq(Sub) /\ old # <<>> /\ IsInjective(old)
  BY <1>1, <1>3 DEF Removed
<1>5. PICK s0 \in Sub :
        /\ s0 = Head(old) /\ s0 \in Range(old) /\ s0 \notin Range(Tail(old))
        /\ Range(old) = Range(Tail(old)) \cup {s0} /\ IsInjective(Tail(old))
  BY <1>4, HeadTail
<1>6. claimed' = claimed \ {CallOf[s0]}
  BY <1>1, <1>3, <1>5
<1> HIDE DEF Entry, old
<1>7. \A u \in Stopper : \A n \in DOMAIN swept'[u] :
        /\ n \in DOMAIN swept[u]
        /\ Range(swept'[u][n].removed) \subseteq Range(swept[u][n].removed)
        /\ IsInjective(swept'[u][n].removed)
        /\ s0 \notin Range(swept'[u][n].removed)
  <2> SUFFICES ASSUME NEW u \in Stopper, NEW n \in DOMAIN swept'[u]
               PROVE  /\ n \in DOMAIN swept[u]
                      /\ Range(swept'[u][n].removed) \subseteq Range(swept[u][n].removed)
                      /\ IsInjective(swept'[u][n].removed)
                      /\ s0 \notin Range(swept'[u][n].removed)
    OBVIOUS
  <2>1. n \in DOMAIN swept[u]
    BY <1>2
  <2>2. CASE u = t /\ n = 1
    BY <1>2, <1>5, <2>1, <2>2 DEF old
  <2>3. CASE ~(u = t /\ n = 1)
    <3>1. swept'[u][n].removed = swept[u][n].removed
      BY <1>2, <2>1, <2>3
    <3>2. s0 \notin Range(swept[u][n].removed)
      BY <1>3, <1>5, <2>1, <2>3 DEF Removed, old
    <3>3. QED
      BY <2>1, <3>1, <3>2 DEF Removed
  <2>4. QED
    BY <2>2, <2>3
<1>8. InSwept(s0) /\ ~InSwept(s0)'
  BY <1>3, <1>5, <1>7 DEF InSwept, old
<1>9. \A s \in Sub : InSwept(s)' => InSwept(s)
  BY <1>7 DEF InSwept
<1>10. ASSUME NEW u \in Stopper, NEW v \in Stopper, NEW n \in DOMAIN swept'[u], NEW m \in DOMAIN swept'[v],
              NEW s \in Sub, s \in Range(swept'[u][n].removed), s \in Range(swept'[v][m].removed)
       PROVE  u = v /\ n = m
  <2>1. /\ n \in DOMAIN swept[u] /\ s \in Range(swept[u][n].removed)
        /\ m \in DOMAIN swept[v] /\ s \in Range(swept[v][m].removed)
    BY <1>7, <1>10
  <2>2. QED
    BY <2>1 DEF Removed
<1>11. \A u \in Stopper : \A n \in DOMAIN swept'[u] : IsInjective(swept'[u][n].removed)
  BY <1>7
<1>12. QED
  BY <1>6, <1>8, <1>9, <1>10, <1>11

\* What has been removed stays removed once, and out of the way.
LEMMA RemovedStep ==
    ASSUME Placed, Removed, [Next]_vars
    PROVE  Removed'
\* Nothing is removed anew: who is in an entry stays out of the way.
<1>1. ASSUME \A s \in Sub : InSwept(s)' => InSwept(s)
      PROVE  \A s \in Sub : InSwept(s)' =>
               /\ spc'[s] \in Joined /\ wpc'[s] = "none"
               /\ \A i \in Inst : s \notin Range(queue'[i])
  <2> SUFFICES ASSUME NEW s \in Sub, InSwept(s)'
               PROVE  /\ spc'[s] \in Joined /\ wpc'[s] = "none"
                      /\ \A i \in Inst : s \notin Range(queue'[i])
    OBVIOUS
  <2>1. spc[s] \in Joined /\ wpc[s] = "none" /\ \A i \in Inst : s \notin Range(queue[i])
    BY <1>1 DEF Removed
  <2>2. QED
    BY <2>1, Moves DEF Joined
<1>2. CASE swept' = swept
  BY <1>1, <1>2 DEF Removed, InSwept
<1>3. ASSUME NEW t \in Stopper, StopSweep(t) PROVE Removed'
  BY <1>3, SweepRemoves
<1>4. ASSUME NEW t \in Stopper, StopSettle(t) PROVE Removed'
  BY <1>1, <1>4, SettleRemoves DEF Removed
<1>5. ASSUME NEW t \in Stopper, swept[t] # <<>>, swept' = [swept EXCEPT ![t] = Tail(@)]
      PROVE  Removed'
  BY <1>1, <1>5, EntryDone DEF Removed
<1>6. QED
  BY <1>2, <1>3, <1>4, <1>5, SweptShape

\* What is on its way has been on its way, or is being claimed.
LEMMA HeldFrom ==
    ASSUME Placed, Removed, [Next]_vars, NEW s \in Sub, Holds(s)'
    PROVE  Holds(s) \/ SubmitClaim(s)
<1> USE DEF workspaceVars, counterVars, submitVars, workerVars, stopVars
<1>0. spc \in [Sub -> SubmitPC]
  BY DEF Placed, TypeOK
<1> DEFINE From == spc'[s] \in {"claimed", "parked"} =>
                     spc[s] \in {"claimed", "parked"} \/ SubmitClaim(s)
<1>1. ASSUME NEW u \in Sub, Submit(u) PROVE From
  <2>1. ASSUME SubmitClaim(u) PROVE From
    BY <1>0, <2>1 DEF SubmitClaim
  <2>2. ASSUME SubmitEnter(u) \/ SubmitWake(u) PROVE From
    <3>1. spc[u] \in {"claimed", "parked"} /\ \E pc : spc' = [spc EXCEPT ![u] = pc]
      BY <2>2 DEF SubmitEnter, SubmitWake, JoinQueue
    <3>2. QED
      BY <1>0, <3>1
  <2>3. ASSUME SubmitRefused(u) \/ SubmitLoadFails(u) \/ SubmitDispatch(u) \/ SubmitReturn(u)
        PROVE  From
    <3>1. \E pc : pc \notin {"claimed", "parked"} /\ spc' = [spc EXCEPT ![u] = pc]
      BY <2>3 DEF SubmitRefused, SubmitLoadFails, SubmitDispatch, SubmitReturn
    <3>2. QED
      BY <1>0, <3>1
  <2>4. QED
    BY <1>1, <2>1, <2>2, <2>3 DEF Submit
<1>2. ASSUME NEW t \in Stopper, Stop(t) PROVE From
  <2>1. spc' = spc \/ spc' = [spc EXCEPT ![t] = "returned"]
    BY <1>2 DEF Stop, StopSweep, StopSettle, StopPump, StopDispatch, StopForget
  <2>2. QED
    BY <1>0, <2>1
<1>3. ASSUME spc' = spc PROVE From
  BY <1>3
<1>4. From
  <2>1. ASSUME NEW u \in Sub, Worker(u) PROVE spc' = spc
    BY <2>1 DEF Worker, CompleteRelease, PumpInTurn, WorkerPump, WorkerDispatch, WorkerForget,
         WorkerRelease, WorkerLeave
  <2> HIDE DEF From
  <2>2. QED
    BY <1>1, <1>2, <1>3, <2>1
       DEF Next, AdmitHead, CancelRun, BeginShutdown, ShutdownStops, ShutdownEnds, Idle, vars
<1>5. ASSUME InSwept(s)' PROVE InSwept(s) \/ \E i \in Inst : s \in Range(queue[i])
  <2>1. ASSUME NEW t \in Stopper, StopSweep(t)
        PROVE  InSwept(s) \/ \E i \in Inst : s \in Range(queue[i])
    BY <1>5, <2>1, SweepRemoves
  <2>2. ASSUME NEW t \in Stopper, StopSettle(t) PROVE InSwept(s)
    BY <1>5, <2>2, SettleRemoves
  <2>3. ASSUME NEW t \in Stopper, swept[t] # <<>>, swept' = [swept EXCEPT ![t] = Tail(@)]
        PROVE  InSwept(s)
    BY <1>5, <2>3, EntryDone
  <2>4. CASE swept' = swept
    BY <1>5, <2>4 DEF InSwept
  <2>5. QED
    BY <2>1, <2>2, <2>3, <2>4, SweptShape
<1>6. QED
  BY <1>4, <1>5, Moves DEF Holds

\* A claim is given back by whoever held it, and that ends its way.
LEMMA ClaimMoves ==
    ASSUME Placed, Removed, [Next]_vars
    PROVE  \/ claimed' = claimed
           \/ \E u \in Sub : SubmitClaim(u)
           \/ \E u \in Sub : Holds(u) /\ ~Holds(u)' /\ claimed' = claimed \ {CallOf[u]}
<1> USE DEF workspaceVars, counterVars, submitVars, workerVars, stopVars
<1> DEFINE Given(u) == Holds(u) /\ ~Holds(u)' /\ claimed' = claimed \ {CallOf[u]}
<1>0. spc \in [Sub -> SubmitPC] /\ wpc \in [Sub -> WorkerPC]
  BY DEF Placed, TypeOK
\* A submission refused after its claim was nowhere else.
<1>1. ASSUME NEW u \in Sub, spc[u] \in {"claimed", "parked"}, spc' = [spc EXCEPT ![u] = "refused"],
             UNCHANGED <<queue, wpc, swept>>, claimed' = claimed \ {CallOf[u]}
      PROVE  Given(u)
  <2>1. spc[u] \notin Joined
    BY <1>1 DEF Joined
  <2>2. wpc[u] = "none" /\ \A i \in Inst : u \notin Range(queue[i])
    BY <2>1 DEF Placed, Threads, Located
  <2>3. ~InSwept(u)
    BY <2>1 DEF Removed
  <2>4. ~InSwept(u)'
    BY <1>1, <2>3 DEF InSwept
  <2>5. QED
    BY <1>0, <1>1, <2>2, <2>4 DEF Holds
<1>2. ASSUME NEW u \in Sub, Submit(u)
      PROVE  claimed' = claimed \/ SubmitClaim(u) \/ Given(u)
  <2>1. ASSUME NEW i, JoinQueue(u, i), spc[u] \in {"claimed", "parked"}, UNCHANGED <<wpc, swept>>
        PROVE  claimed' = claimed \/ Given(u)
    BY <1>1, <2>1 DEF JoinQueue
  <2>2. ASSUME SubmitEnter(u) PROVE claimed' = claimed \/ Given(u)
    BY <2>1, <2>2 DEF SubmitEnter
  <2>3. ASSUME SubmitWake(u) PROVE claimed' = claimed \/ Given(u)
    BY <2>1, <2>3 DEF SubmitWake
  <2>4. ASSUME SubmitLoadFails(u) PROVE Given(u)
    BY <1>1, <2>4 DEF SubmitLoadFails
  <2>5. ASSUME SubmitRefused(u) \/ SubmitDispatch(u) \/ SubmitReturn(u) PROVE claimed' = claimed
    BY <2>5 DEF SubmitRefused, SubmitDispatch, SubmitReturn
  <2> HIDE DEF Given
  <2>6. QED
    BY <1>2, <2>2, <2>3, <2>4, <2>5 DEF Submit
<1>3. ASSUME NEW u \in Sub, WorkerRelease(u) PROVE Given(u)
  <2>1. /\ wpc[u] = "release" /\ wpc' = [wpc EXCEPT ![u] = "leave"]
        /\ claimed' = claimed \ {CallOf[u]} /\ UNCHANGED <<spc, queue, swept>>
    BY <1>3 DEF WorkerRelease
  <2>2. spc[u] \in Joined /\ \A i \in Inst : u \notin Range(queue[i])
    BY <2>1 DEF Placed, Threads, Located
  <2>3. ~InSwept(u)
    BY <2>1 DEF Removed
  <2>4. ~InSwept(u)'
    BY <2>1, <2>3 DEF InSwept
  <2>5. QED
    BY <1>0, <2>1, <2>2, <2>4 DEF Holds, Joined
<1>4. ASSUME NEW t \in Stopper, StopSettle(t) PROVE \E u \in Sub : Given(u)
  <2>1. PICK u \in Sub : InSwept(u) /\ ~InSwept(u)' /\ claimed' = claimed \ {CallOf[u]}
    BY <1>4, SettleRemoves
  <2>2. /\ spc[u] \in Joined /\ wpc[u] = "none" /\ \A i \in Inst : u \notin Range(queue[i])
        /\ UNCHANGED <<spc, wpc, queue>>
    BY <1>4, <2>1 DEF Removed, StopSettle
  <2>3. QED
    BY <2>1, <2>2 DEF Holds, Joined
<1>5. ASSUME NEW u \in Sub, Worker(u), ~WorkerRelease(u) PROVE claimed' = claimed
  BY <1>5 DEF Worker, CompleteRelease, PumpInTurn, WorkerPump, WorkerDispatch, WorkerForget, WorkerLeave
<1>6. ASSUME NEW t \in Stopper, Stop(t), ~StopSettle(t) PROVE claimed' = claimed
  BY <1>6 DEF Stop, StopSweep, StopPump, StopDispatch, StopForget
<1> HIDE DEF Given
<1>7. \/ claimed' = claimed \/ \E u \in Sub : SubmitClaim(u) \/ Given(u)
  BY <1>2, <1>3, <1>4, <1>5, <1>6
     DEF Next, AdmitHead, CancelRun, BeginShutdown, ShutdownStops, ShutdownEnds, Idle, vars
<1>8. QED
  BY <1>7 DEF Given

\* A claim is taken when nobody holds it and given back by its only holder.
LEMMA ClaimStep ==
    ASSUME Placed, Removed, ClaimHeld, [Next]_vars
    PROVE  ClaimHeld'
<1> SUFFICES ASSUME NEW s \in Sub, Holds(s)'
             PROVE  /\ CallOf[s] \in claimed'
                    /\ \A u \in Sub : Holds(u)' /\ CallOf[s] = CallOf[u] => s = u
  BY DEF ClaimHeld
<1>1. \A u \in Sub : Holds(u)' => Holds(u) \/ SubmitClaim(u)
  BY HeldFrom
<1>2. \A u \in Sub : SubmitClaim(u) => CallOf[u] \notin claimed /\ claimed' = claimed \cup {CallOf[u]}
  BY DEF SubmitClaim
<1>3. ASSUME NEW u \in Sub, NEW v \in Sub, SubmitClaim(u), SubmitClaim(v) PROVE u = v
  <2>1. spc \in [Sub -> SubmitPC]
    BY DEF Placed, TypeOK
  <2>2. QED
    BY <1>3, <2>1 DEF SubmitClaim
<1>4. CallOf[s] \in claimed'
  <2>1. CASE SubmitClaim(s)
    BY <1>2, <2>1
  <2>2. CASE Holds(s)
    <3>1. CallOf[s] \in claimed
      BY <2>2 DEF ClaimHeld
    <3>2. ASSUME NEW u \in Sub, Holds(u), ~Holds(u)', claimed' = claimed \ {CallOf[u]}
          PROVE  CallOf[s] \in claimed'
      <4>1. u # s
        BY <3>2
      <4>2. CallOf[u] # CallOf[s]
        BY <2>2, <3>2, <4>1 DEF ClaimHeld
      <4>3. QED
        BY <3>1, <3>2, <4>2
    <3>3. QED
      BY <1>2, <3>1, <3>2, ClaimMoves
  <2>3. QED
    BY <1>1, <2>1, <2>2
<1>5. ASSUME NEW u \in Sub, Holds(u)', CallOf[s] = CallOf[u] PROVE s = u
  <2>1. CASE Holds(s) /\ Holds(u)
    BY <1>5, <2>1 DEF ClaimHeld
  <2>2. CASE SubmitClaim(s) /\ SubmitClaim(u)
    BY <1>3, <2>2
  <2>3. CASE (Holds(s) /\ SubmitClaim(u)) \/ (SubmitClaim(s) /\ Holds(u))
    BY <1>2, <1>5, <2>3 DEF ClaimHeld
  <2>4. QED
    BY <1>1, <1>5, <2>1, <2>2, <2>3
<1>6. QED
  BY <1>4, <1>5

\* Every submission on its way holds the claim on its call, alone: `submit`
\* takes it, and the path that ends the call gives it back once.
LEMMA ClaimsAreHeld == Spec => [](Removed /\ ClaimHeld)
<1>1. Init => Removed /\ ClaimHeld
  BY DEF Init, Removed, ClaimHeld, Holds, InSwept, Range
<1>2. Placed /\ Removed /\ ClaimHeld /\ [Next]_vars => Removed' /\ ClaimHeld'
  BY RemovedStep, ClaimStep
<1>3. QED
  BY EveryoneIsPlaced, <1>1, <1>2, PTL DEF Spec

\* Two submissions of one recorded call are never carried at once, and the
\* process limit and the worker count are exact: Scheduler::submit claims the
\* call before it queues it, and the claim outlives every slot of the call.
THEOREM CallsAreAccounted == Spec => []Accounted
<1>1. ASSUME Placed, ClaimHeld PROVE ClaimedOnce
  <2>1. ASSUME NEW s \in Sub, NEW i \in Inst, Carries(i, s) PROVE Holds(s)
    BY <1>1, <2>1 DEF Carries, Holds, Placed, Located
  <2>2. QED
    BY <1>1, <2>1 DEF ClaimedOnce, ClaimHeld
<1>2. Placed /\ ClaimHeld /\ SlotAccounting => Accounted
  BY <1>1 DEF Accounted
<1>3. QED
  BY EveryoneIsPlaced, ClaimsAreHeld, SlotsAreAccounted, <1>2, PTL

=============================================================================
