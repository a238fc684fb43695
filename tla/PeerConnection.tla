--------------------------- MODULE PeerConnection ---------------------------
(***************************************************************************)
(* One JSON-RPC conversation with a child process (harkness-transport:     *)
(* stdio.rs, connection.rs).  A reader and a writer thread move messages   *)
(* between the child's pipes and two bounded queues; the callers that wait *)
(* for answers do the reading themselves, one at a time, under the pump;   *)
(* a consumer takes the messages the peer sends on its own account; and    *)
(* when the connection is dropped the child is closed, signalled, killed   *)
(* and the threads are joined.                                             *)
(*                                                                         *)
(* A message is a record [kind, id]: an answer, a note of the peer's own,  *)
(* a line that is no message, or the end of the stream.  Sizes, payloads   *)
(* and standard error are left out; a cut last line ends the stream like   *)
(* any other exit.                                                         *)
(***************************************************************************)
EXTENDS Naturals, Sequences, FiniteSets

CONSTANTS
    Caller,      \* threads making one request each
    Consumer,    \* the thread taking the peer's own messages
    Nobody,
    Mixes,       \* which doings of the peer and the user happen together
    OutCap,      \* capacity of the outbound queue, of the child's input pipe
    PipeCap,     \* and of both pipes
    InCap,       \* of the inbound queue
    PeerCap,     \* of the queue of the peer's own messages
    Retained,    \* request ids remembered after their caller is finished
    MaxNotes     \* bound: messages of the peer's own

ASSUME PeerConstants ==
    /\ OutCap \in Nat \ {0} /\ PipeCap \in Nat \ {0} /\ InCap \in Nat \ {0}
    /\ PeerCap \in Nat \ {0} /\ Retained \in Nat /\ MaxNotes \in Nat
    /\ Consumer \notin Caller /\ Nobody \notin Caller \cup {Consumer}

Thread == Caller \cup {Consumer}
ReqId == 1 .. Cardinality(Caller)

VARIABLES
    peer,        \* the child: running, the requests it owes, what it has said
    inPipe, outPipe, inputClosed,
    outq, outOpen, depth, writer, inq, reader,   \* the transport
    term, cancelled, late, handshake,            \* why it ended, if it did
    slots, retired, cterm,                       \* the correlation table
    peers, pump,                                 \* queued peer messages; the leader
    pc, req, res,                                \* the callers
    teardown

peerVars == <<peer, inPipe, outPipe, inputClosed>>
pipeVars == <<outq, outOpen, depth, writer, inq, reader>>
endVars == <<term, cancelled, late, handshake>>
tableVars == <<slots, retired, cterm>>
connVars == <<peerVars, pipeVars, endVars, tableVars, peers, pump, pc, req, res, teardown>>

Answer(i) == [kind |-> "answer", id |-> i]
Note == [kind |-> "note", id |-> 0]
Junk == [kind |-> "junk", id |-> 0]
Eof == [kind |-> "eof", id |-> 0]

\* A command of the outbound queue is the id of a request, or the closing one;
\* the writer is parked, holds a request it writes, or has ended.
Close == 0
Parked == [at |-> "parked", id |-> 0]
Holding(i) == [at |-> "holding", id |-> i]
Gone == [at |-> "ended", id |-> 0]

ConnInit ==
    /\ \E mix \in Mixes :
       peer = [mix |-> mix, up |-> TRUE, helper |-> ("helper" \in mix), owes |-> {}, said |-> {},
               notes |-> 0, bad |-> FALSE]
    /\ inPipe = << >> /\ outPipe = << >> /\ inputClosed = FALSE
    /\ outq = << >> /\ outOpen = TRUE /\ depth = 0 /\ writer = Parked
    /\ inq = << >> /\ reader = "reading"
    /\ term = "open" /\ cancelled = FALSE /\ late = FALSE /\ handshake = ("startup" \notin peer.mix)
    /\ slots = [i \in {} |-> "waiting"] /\ retired = << >> /\ cterm = "open"
    /\ peers = 0 /\ pump = Nobody
    /\ pc = [t \in Thread |-> "idle"] /\ req = [t \in Thread |-> 0]
    /\ res = [t \in Thread |-> "none"]
    /\ teardown = "none"

-----------------------------------------------------------------------------
(* The child process (external).                                           *)

\* It reads its input only while it has nothing of its own to write.
PeerReads ==
    /\ peer.up /\ inPipe # << >> /\ Len(outPipe) < PipeCap
    /\ peer' = [peer EXCEPT !.owes = @ \cup {Head(inPipe)}]
    /\ inPipe' = Tail(inPipe)
    /\ UNCHANGED <<outPipe, inputClosed, pipeVars, endVars, tableVars, peers, pump, pc, req,
                   res, teardown>>

PeerSays(m, p) ==
    /\ peer.up /\ Len(outPipe) < PipeCap
    /\ outPipe' = Append(outPipe, m) /\ peer' = p
    /\ UNCHANGED <<inPipe, inputClosed, pipeVars, endVars, tableVars, peers, pump, pc, req,
                   res, teardown>>

PeerAnswers == \E i \in peer.owes :
    PeerSays(Answer(i), [peer EXCEPT !.owes = @ \ {i}, !.said = @ \cup {i}])
PeerRepeats == "repeat" \in peer.mix /\ ~peer.bad /\ \E i \in peer.said :
    PeerSays(Answer(i), [peer EXCEPT !.bad = TRUE])
PeerBabbles == "junk" \in peer.mix /\ ~peer.bad /\ PeerSays(Junk, [peer EXCEPT !.bad = TRUE])
PeerNotes == "note" \in peer.mix /\ peer.notes < MaxNotes
             /\ PeerSays(Note, [peer EXCEPT !.notes = @ + 1])

\* It exits on its own account, or because its input ended.
PeerExits ==
    /\ peer.up /\ ("exit" \in peer.mix \/ (inputClosed /\ inPipe = << >>))
    /\ peer' = [peer EXCEPT !.up = FALSE]
    /\ UNCHANGED <<inPipe, outPipe, inputClosed, pipeVars, endVars, tableVars, peers, pump,
                   pc, req, res, teardown>>

-----------------------------------------------------------------------------
(* The transport's threads.                                                *)

\* The reader forwards one message; a line that is no message and the end of
\* the stream are its last.  It waits while the inbound queue is full.
read_messages ==
    /\ reader = "reading" /\ Len(inq) < InCap
    /\ \/ /\ outPipe # << >>
          /\ inq' = Append(inq, Head(outPipe)) /\ outPipe' = Tail(outPipe)
          /\ reader' = IF Head(outPipe).kind = "junk" THEN "ended" ELSE "reading"
       \/ /\ outPipe = << >> /\ ~peer.up /\ ~peer.helper
          /\ inq' = Append(inq, Eof) /\ reader' = "ended" /\ UNCHANGED outPipe
    /\ UNCHANGED <<peer, inPipe, inputClosed, outq, outOpen, depth, writer, endVars,
                   tableVars, peers, pump, pc, req, res, teardown>>

Cloned == \E t \in Thread : pc[t] \in {"cloned", "handover"}
Sent(q) == SelectSeq(q, LAMBDA c : c # Close)

\* The writer takes a command.  Closing, a failed write, or the last sender
\* going away ends it: it discounts what is left in the queue and closes the
\* child's input.
WriterEnds(fails, held) ==
    /\ writer' = Gone /\ inputClosed' = TRUE
    /\ depth' = depth - Len(Sent(outq)) - held
    /\ outq' = << >>
    /\ term' = IF fails /\ term = "open" THEN "write" ELSE term

WriterTakes ==
    /\ writer.at = "parked"
    /\ \/ /\ outq # << >> /\ Head(outq) # Close
          /\ writer' = Holding(Head(outq)) /\ outq' = Tail(outq)
          /\ UNCHANGED <<depth, inputClosed, term>>
       \/ /\ outq # << >> /\ Head(outq) = Close
          /\ WriterEnds(FALSE, 0)
       \/ /\ outq = << >> /\ ~outOpen /\ ~Cloned
          /\ WriterEnds(FALSE, 0)
    /\ UNCHANGED <<peer, inPipe, outPipe, outOpen, inq, reader, cancelled, late, handshake,
                   tableVars, peers, pump, pc, req, res, teardown>>

WriterWrites ==
    /\ writer.at = "holding"
    /\ \/ /\ peer.up /\ Len(inPipe) < PipeCap
          /\ inPipe' = Append(inPipe, writer.id)
          /\ writer' = Parked /\ depth' = depth - 1
          /\ UNCHANGED <<outq, inputClosed, term>>
       \/ ~peer.up /\ WriterEnds(TRUE, 1) /\ UNCHANGED inPipe
    /\ UNCHANGED <<peer, outPipe, outOpen, inq, reader, cancelled, late, handshake,
                   tableVars, peers, pump, pc, req, res, teardown>>

-----------------------------------------------------------------------------
(* What the transport answers a thread that calls it.                      *)

\* The first reason recorded stays.
Recorded(reason) == IF term = "open" THEN reason ELSE term
\* The reasons the checks find, in their order.
Ended == IF term # "open" THEN term
         ELSE IF cancelled THEN "cancelled"
         ELSE IF ~handshake /\ late THEN "startup"
         ELSE "open"
\* The sender is taken, and a close command goes in if there is room.
close_stdin ==
    /\ outOpen' = FALSE
    /\ outq' = IF outOpen /\ writer.at # "ended" /\ Len(outq) < OutCap
                 THEN Append(outq, Close) ELSE outq
CheckFails == Ended # "open"
\* A failed check records its reason, and the two found here close the input.
CheckEffect ==
    /\ term' = Ended
    /\ IF term = "open" THEN close_stdin ELSE UNCHANGED <<outOpen, outq>>

-----------------------------------------------------------------------------
(* The correlation table.                                                  *)

\* Faulty: the slot of a request that is over is dropped.
Forget(i, answered) ==
    /\ slots' = [k \in DOMAIN slots \ {i} |-> slots[k]]
    /\ UNCHANGED retired
\* A finished request's id is kept, and the oldest kept ids are evicted.
retire(i, answered) ==
    LET kept == Append(retired, i)
        over == IF Len(kept) > Retained THEN Len(kept) - Retained ELSE 0
        gone == {kept[k] : k \in 1 .. over}
    IN
    /\ retired' = SubSeq(kept, over + 1, Len(kept))
    /\ slots' = [k \in (DOMAIN slots \cup {i}) \ gone |->
                    IF k = i THEN (IF answered THEN "spent" ELSE "abandoned") ELSE slots[k]]

\* The connection remembers the first terminal failure.
Remembered(reason) == IF cterm = "open" THEN reason ELSE cterm

Finish(t, why) ==
    /\ pc' = [pc EXCEPT ![t] = "done"]
    /\ res' = [res EXCEPT ![t] = why]
    /\ UNCHANGED req
\* A request that fails retires its id; a consumer only reports.
FinishRetired(t, why) ==
    /\ Finish(t, why)
    /\ IF t \in Caller THEN retire(req[t], FALSE) ELSE UNCHANGED <<slots, retired>>
GoTo(t, where) == pc' = [pc EXCEPT ![t] = where] /\ UNCHANGED <<req, res>>

Outstanding == \E k \in DOMAIN slots : slots[k] \in {"waiting", "answered"}
\* The end of the stream is an exit before an answer only where a request is
\* known to be outstanding.
Refined(why, had) == IF why = "exit" /\ ~had THEN "idle" ELSE why

-----------------------------------------------------------------------------
(* Calls.                                                                  *)

request(t) ==
    /\ t \in Caller /\ pc[t] = "idle" /\ teardown = "none"
    /\ LET i == Cardinality({u \in Caller : req[u] # 0}) + 1 IN
       IF cterm # "open"
         THEN /\ pc' = [pc EXCEPT ![t] = "done"] /\ res' = [res EXCEPT ![t] = Refined(cterm, FALSE)]
              /\ UNCHANGED <<slots, req>>
         ELSE /\ slots' = [k \in DOMAIN slots \cup {i} |->
                              IF k = i THEN "waiting" ELSE slots[k]]
              /\ req' = [req EXCEPT ![t] = i]
              /\ pc' = [pc EXCEPT ![t] = "send"] /\ UNCHANGED res
    /\ UNCHANGED <<peerVars, pipeVars, endVars, retired, cterm, peers, pump, teardown>>

\* Refused once the connection is over; no room hands the message back,
\* otherwise the sender is cloned and the message counted before its handover.
try_send(t) ==
    /\ pc[t] = "send"
    /\ \/ /\ CheckFails /\ CheckEffect
          /\ FinishRetired(t, Ended) /\ cterm' = Remembered(Ended)
          /\ UNCHANGED depth
       \/ /\ ~CheckFails /\ depth >= OutCap
          /\ GoTo(t, "send-pump") /\ UNCHANGED <<depth, term, outOpen, outq, tableVars>>
       \/ /\ ~CheckFails /\ depth < OutCap /\ ~outOpen
          /\ FinishRetired(t, "write") /\ cterm' = Remembered("write")
          /\ UNCHANGED <<depth, term, outOpen, outq>>
       \/ /\ ~CheckFails /\ depth < OutCap /\ outOpen
          /\ GoTo(t, "cloned") /\ UNCHANGED <<depth, term, outOpen, outq, tableVars>>
    /\ UNCHANGED <<peerVars, writer, inq, reader, cancelled, late, handshake, peers, pump,
                   teardown>>

CountOut(t) ==
    /\ pc[t] = "cloned"
    /\ depth' = depth + 1 /\ GoTo(t, "handover")
    /\ UNCHANGED <<peerVars, outq, outOpen, writer, inq, reader, endVars, tableVars, peers,
                   pump, teardown>>

\* A message the queue refused is discounted again.
Discounted(d) == d - 1
Handover(t) ==
    /\ pc[t] = "handover"
    /\ \/ /\ writer.at # "ended" /\ Len(outq) < OutCap
          /\ outq' = Append(outq, req[t])
          /\ GoTo(t, "check") /\ UNCHANGED <<depth, tableVars>>
       \/ /\ writer.at # "ended" /\ Len(outq) >= OutCap
          /\ depth' = Discounted(depth)
          /\ GoTo(t, "send-pump") /\ UNCHANGED <<outq, tableVars>>
       \/ /\ writer.at = "ended"
          /\ depth' = Discounted(depth)
          /\ FinishRetired(t, Recorded("write")) /\ cterm' = Remembered(Recorded("write"))
          /\ UNCHANGED outq
    /\ UNCHANGED <<peerVars, outOpen, writer, inq, reader, endVars, peers, pump, teardown>>

\* The consumer asks for a message, as a reader of its own or now and then.
next_peer_message ==
    /\ pc[Consumer] = "idle" /\ teardown = "none" /\ "consume" \in peer.mix
    /\ GoTo(Consumer, "check")
    /\ UNCHANGED <<peerVars, pipeVars, endVars, tableVars, peers, pump, teardown>>

\* The top of a caller's loop: its answer, then the connection's failure, then
\* the token, then its deadline.
give_up(reason) ==
    /\ term' = Recorded("quarantined") /\ close_stdin
    /\ cterm' = Remembered(reason)

CheckAnswer(t) ==
    /\ t \in Caller /\ pc[t] = "check" /\ slots[req[t]] = "answered"
    /\ retire(req[t], TRUE) /\ Finish(t, "answer")
    /\ UNCHANGED <<peerVars, pipeVars, endVars, cterm, peers, pump, teardown>>

CheckMessage ==
    /\ pc[Consumer] = "check" /\ peers > 0
    /\ peers' = peers - 1 /\ GoTo(Consumer, "idle")
    /\ UNCHANGED <<peerVars, pipeVars, endVars, tableVars, pump, teardown>>

Nothing(t) == IF t = Consumer THEN peers = 0 ELSE slots[req[t]] # "answered"

CheckElse(t) ==
    /\ pc[t] = "check" /\ Nothing(t)
    /\ \/ /\ cterm # "open"
          /\ FinishRetired(t, Refined(cterm, t \in Caller \/ Outstanding))
          /\ UNCHANGED <<term, outOpen, outq, cterm>>
       \/ /\ cterm = "open" /\ cancelled
          /\ FinishRetired(t, "cancelled") /\ give_up("cancelled")
       \/ /\ cterm = "open" /\ ~cancelled /\ "expire" \in peer.mix
          /\ FinishRetired(t, "timeout") /\ UNCHANGED <<term, outOpen, outq, cterm>>
       \/ /\ cterm = "open" /\ ~cancelled
          /\ GoTo(t, "pump") /\ UNCHANGED <<term, outOpen, outq, tableVars>>
    /\ UNCHANGED <<peerVars, depth, writer, inq, reader, cancelled, late, handshake, peers,
                   pump, teardown>>

\* A sender that found no room checks its token and its deadline, and pumps.
SendWaits(t) ==
    /\ pc[t] = "send-pump"
    /\ \/ /\ cancelled
          /\ FinishRetired(t, "cancelled") /\ give_up("cancelled") /\ UNCHANGED pump
       \/ /\ ~cancelled /\ "expire" \in peer.mix
          /\ FinishRetired(t, "sendtimeout")
          /\ UNCHANGED <<term, outOpen, outq, cterm, pump>>
       \/ /\ ~cancelled /\ pump = Nobody
          /\ pump' = t /\ GoTo(t, "send-lead")
          /\ UNCHANGED <<term, outOpen, outq, tableVars>>
       \/ /\ ~cancelled /\ pump # Nobody
          /\ GoTo(t, "send") /\ UNCHANGED <<term, outOpen, outq, tableVars, pump>>
    /\ UNCHANGED <<peerVars, depth, writer, inq, reader, cancelled, late, handshake, peers,
                   teardown>>

\* Leads, or waits a moment for whoever does.
PumpOffer(t) ==
    /\ pc[t] = "pump"
    /\ IF pump = Nobody THEN pump' = t /\ GoTo(t, "lead")
                        ELSE UNCHANGED pump /\ GoTo(t, "check")
    /\ UNCHANGED <<peerVars, pipeVars, endVars, tableVars, peers, teardown>>

\* A late answer to a request whose caller gave up.
LateAnswer(i) == i \in DOMAIN slots /\ slots[i] = "abandoned"

Awaiting(t) == t \in Caller /\ pc[t] = "lead"
Loop(t) == IF pc[t] = "lead" THEN "check" ELSE "send"

\* One turn of the pump: refused when the peer's own messages are too many,
\* otherwise the next event is read and routed.
pump_once(t) ==
    /\ pc[t] \in {"lead", "send-lead"}
    /\ pump' = Nobody
    /\ \/ /\ peers >= PeerCap
          /\ FinishRetired(t, "full")
          /\ UNCHANGED <<inq, peers, cterm, term, outOpen, outq>>
       \/ /\ peers < PeerCap /\ CheckFails /\ CheckEffect
          /\ FinishRetired(t, Refined(Ended, Awaiting(t))) /\ cterm' = Remembered(Ended)
          /\ UNCHANGED <<inq, peers>>
       \/ /\ peers < PeerCap /\ ~CheckFails /\ inq = << >>
          /\ GoTo(t, Loop(t)) /\ UNCHANGED <<inq, peers, tableVars, term, outOpen, outq>>
       \/ /\ peers < PeerCap /\ ~CheckFails /\ inq # << >>
          /\ inq' = Tail(inq)
          /\ LET m == Head(inq) IN
             \/ /\ m.kind = "note"
                /\ peers' = peers + 1 /\ GoTo(t, Loop(t))
                /\ UNCHANGED <<tableVars, term, outOpen, outq>>
             \/ /\ m.kind = "answer" /\ m.id \in DOMAIN slots /\ slots[m.id] = "waiting"
                /\ slots' = [slots EXCEPT ![m.id] = "answered"] /\ GoTo(t, Loop(t))
                /\ UNCHANGED <<retired, cterm, peers, term, outOpen, outq>>
             \/ /\ m.kind = "answer" /\ LateAnswer(m.id)
                /\ slots' = [slots EXCEPT ![m.id] = "spent"] /\ GoTo(t, Loop(t))
                /\ UNCHANGED <<retired, cterm, peers, term, outOpen, outq>>
             \/ /\ m.kind = "answer" /\ ~LateAnswer(m.id)
                /\ ~(m.id \in DOMAIN slots /\ slots[m.id] = "waiting")
                /\ FinishRetired(t, "desync") /\ give_up("quarantined") /\ UNCHANGED peers
             \/ /\ m.kind = "junk"
                /\ FinishRetired(t, "desync") /\ give_up("quarantined") /\ UNCHANGED peers
             \/ /\ m.kind = "eof"
                /\ term' = Recorded("exit") /\ cterm' = Remembered("exit")
                /\ FinishRetired(t, Refined("exit", Awaiting(t))) /\ UNCHANGED <<peers, outOpen, outq>>
    /\ UNCHANGED <<peerVars, depth, writer, reader, cancelled, late, handshake, teardown>>

-----------------------------------------------------------------------------
(* What happens meanwhile, and dropping the connection.                    *)

handshake_complete ==
    /\ ~handshake /\ \E t \in Caller : res[t] = "answer"
    /\ handshake' = TRUE
    /\ UNCHANGED <<peerVars, pipeVars, term, cancelled, late, tableVars, peers, pump, pc, req,
                   res, teardown>>
Meanwhile ==
    /\ \/ "cancel" \in peer.mix /\ ~cancelled /\ cancelled' = TRUE /\ UNCHANGED late
       \/ "startup" \in peer.mix /\ ~late /\ late' = TRUE /\ UNCHANGED cancelled
    /\ UNCHANGED <<peerVars, pipeVars, term, handshake, tableVars, peers, pump, pc, req, res,
                   teardown>>

TearsDown(peer2, inq2, depth2) ==
    /\ peer' = peer2 /\ inq' = inq2 /\ depth' = depth2
    /\ UNCHANGED <<inPipe, outPipe, inputClosed, writer, reader, endVars, tableVars,
                   peers, pump, pc, req, res>>

\* Nobody is inside a call any more: the connection is owned by its dropper.
TearBegins ==
    /\ teardown = "none" /\ \A t \in Caller : pc[t] = "done"
    /\ pc[Consumer] \in {"idle", "done"}
    /\ teardown' = "closing" /\ TearsDown(peer, inq, depth) /\ UNCHANGED <<outOpen, outq>>
TearCloses ==
    /\ teardown = "closing" /\ close_stdin
    /\ teardown' = "waiting" /\ TearsDown(peer, inq, depth)
\* The child has gone, or the grace is over and it is signalled and killed.
TearEscalates ==
    /\ teardown = "waiting"
    /\ teardown' = "reaping" /\ TearsDown([peer EXCEPT !.up = FALSE], inq, depth)
    /\ UNCHANGED <<outOpen, outq>>

\* The whole group is killed, whichever way the child itself went.
reap_group(p) == [p EXCEPT !.up = FALSE, !.helper = FALSE]
TearReaps ==
    /\ teardown = "reaping"
    /\ teardown' = "joining" /\ TearsDown(reap_group(peer), inq, depth)
    /\ UNCHANGED <<outOpen, outq>>

drain_inbound(q) == << >>
TearDrains ==
    /\ teardown = "joining" /\ inq # << >> /\ drain_inbound(inq) # inq
    /\ TearsDown(peer, drain_inbound(inq), depth) /\ UNCHANGED <<teardown, outOpen, outq>>
TearJoins ==
    /\ teardown = "joining" /\ reader = "ended" /\ writer.at = "ended"
    /\ teardown' = "down" /\ TearsDown(peer, inq, 0) /\ UNCHANGED <<outOpen, outq>>

CallStep(t) ==
    \/ request(t) \/ try_send(t) \/ CountOut(t) \/ Handover(t) \/ CheckAnswer(t) \/ CheckElse(t)
    \/ SendWaits(t) \/ PumpOffer(t) \/ pump_once(t)
TearStep == TearBegins \/ TearCloses \/ TearEscalates \/ TearReaps \/ TearDrains \/ TearJoins

ConnNext ==
    \/ PeerReads \/ PeerAnswers \/ PeerRepeats \/ PeerBabbles \/ PeerNotes \/ PeerExits
    \/ read_messages \/ WriterTakes \/ WriterWrites
    \/ \E t \in Thread : CallStep(t)
    \/ next_peer_message \/ CheckMessage
    \/ handshake_complete \/ Meanwhile
    \/ TearStep

\* Threads run, the kernel moves bytes, and the peer reads and answers while it
\* lives: the calls may then not rely on their deadlines to end.
ConnFair ==
    /\ \A t \in Thread : WF_connVars(CallStep(t))
    /\ WF_connVars(CheckMessage) /\ WF_connVars(next_peer_message)
    /\ WF_connVars(read_messages) /\ WF_connVars(WriterTakes) /\ WF_connVars(WriterWrites)
    /\ WF_connVars(PeerReads) /\ WF_connVars(PeerAnswers)
    /\ WF_connVars(TearStep)

ConnSpec == ConnInit /\ [][ConnNext]_connVars /\ ConnFair

-----------------------------------------------------------------------------
(* Correctness.                                                            *)

\* A connection is given up as out of step only when its peer really was: the
\* late answer to a call that timed out, was refused or was cancelled, in
\* whatever order it crosses with other calls, never costs the connection.
HealthyKept == ~peer.bad => \A t \in Thread : res[t] # "desync"

\* Every call ends although nothing but an answer, a failure or a full queue
\* ends it, whoever holds the pump and however the count of outstanding messages
\* and the queue itself get out of step between two senders and the writer.
CallsEnd == \A t \in Caller : [](pc[t] # "idle" => <>(pc[t] = "done"))

\* Dropping a connection ends its threads as well: the writer parked on its
\* queue, the reader parked on a full one, and the reader of a pipe that a
\* helper of the dead child still holds.
TearsEnd == (teardown # "none") ~> (teardown = "down")

=============================================================================
