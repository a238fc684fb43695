------------------------------ MODULE ModelTurn ------------------------------
(***************************************************************************)
(* One turn of a model provider: `stream` of the scripted provider, the    *)
(* `TurnDriver` that polls the token, assembles every event and hands it   *)
(* to the sink, and the `TurnAssembler` that builds the turn.  What the    *)
(* endpoint sends is a script chosen step by step; the sink is the bounded *)
(* recorder `RecordedEvents`.                                              *)
(*                                                                         *)
(* Text is a sequence of characters; a wide character is two bytes, so a   *)
(* byte offset may fall inside it.  An identity is a number: `n` is the    *)
(* spelling of the n-th synthesized one, which a provider may issue too.   *)
(* Latencies and the request id are left out.                              *)
(***************************************************************************)
EXTENDS Integers, Sequences, FiniteSets, SequencesExt

CONSTANTS Events,      \* the events a script may emit
          Arguments,   \* the argument steps: [index, text, at]
          Stops,       \* the errors a Fail step injects
          MaxText, MaxArguments, MaxCalls,   \* the assembly limits
          Capacity,    \* of the recorder
          MaxSteps     \* bound: steps of the script

ASSUME TurnConstants == /\ {MaxText, MaxArguments, MaxCalls} \subseteq Nat
                        /\ Capacity \in Nat \ {0}
                        /\ MaxSteps \in Nat

VARIABLES asm,        \* the assembler
          tripped,    \* the cancellation token
          queued,     \* fragments of the argument step being delivered
          sinkSaw,   \* what the sink recorded
          aborted,    \* the driver's flag: the sink answered Stop
          answer,     \* <<>> while the call runs, else <<its result>>
          steps       \* steps the script has taken

turnVars == <<asm, tripped, queued, sinkSaw, aborted, answer, steps>>

Wide == "w"
Width(c) == IF c = Wide THEN 2 ELSE 1
Bytes(text) == FoldLeft(LAMBDA n, c : n + Width(c), 0, text)

-----------------------------------------------------------------------------
(* Finalizing a call *)

\* Blank text trims to nothing; otherwise it must be one JSON value.
Blank(text) == \A k \in DOMAIN text : text[k] = " "
ParsesJson(text) == SelectSeq(text, LAMBDA c : c # " ") \in {<<"{", "}">>, <<"{", Wide, "}">>}

finalize(call, truncated) ==
    [call EXCEPT !.state = IF truncated THEN "truncated"
                           ELSE IF ~call.named THEN "missing_name"
                           ELSE IF Blank(call.raw) \/ ParsesJson(call.raw) THEN "ready"
                           ELSE "unparsable"]

finalize_open_calls(calls, truncated) ==
    [i \in DOMAIN calls |-> IF calls[i].state = "open" THEN finalize(calls[i], truncated)
                            ELSE calls[i]]

-----------------------------------------------------------------------------
(* The assembler *)

NewAssembler ==
    [started |-> FALSE, completed |-> FALSE, text |-> <<>>, calls |-> <<>>,
     seen_ids |-> {}, synthesized |-> 0, usage |-> <<>>, stop |-> <<>>,
     duplicate_ids |-> 0, ignored |-> 0, event_count |-> 0]

\* An observation: the assembler after it, and whether the event was
\* recorded, ignored or malformed.
Took(a) == [asm |-> a, absorbed |-> "recorded"]
Malformed(a) == [asm |-> a, absorbed |-> "malformed"]

\* Faulty: only identities the provider issued are remembered.
RememberedIssued(seen, id, issued) == IF issued THEN seen \union {id} ELSE seen

Remembered(seen, id, issued) == seen \union {id}

start_call(a, e) ==
    LET issued == e.id # <<>>
        n == a.synthesized + 1
        id == IF issued THEN e.id[1] ELSE n
        again == id \in a.seen_ids
        call == [id |-> id, provenance |-> IF issued THEN "provider" ELSE "synthesized",
                 duplicate |-> again, named |-> e.named, raw |-> <<>>, state |-> "open"]
    IN IF e.index \in DOMAIN a.calls \/ Cardinality(DOMAIN a.calls) >= MaxCalls
       THEN Malformed(a)
       ELSE Took([a EXCEPT !.synthesized = IF issued THEN @ ELSE n,
                           !.duplicate_ids = IF again THEN @ + 1 ELSE @,
                           !.seen_ids = Remembered(@, id, issued),
                           !.calls = [i \in DOMAIN @ \union {e.index} |->
                                         IF i = e.index THEN call ELSE @[i]]])

extend_call(a, i, fragment) ==
    IF /\ i \in DOMAIN a.calls
       /\ a.calls[i].state = "open"
       /\ Bytes(a.calls[i].raw) + Bytes(fragment) <= MaxArguments
    THEN Took([a EXCEPT !.calls[i].raw = @ \o fragment])
    ELSE Malformed(a)

ready_call(a, i) ==
    IF i \in DOMAIN a.calls /\ a.calls[i].state = "open"
    THEN Took([a EXCEPT !.calls[i] = finalize(@, FALSE)])
    ELSE Malformed(a)

\* A later usage report keeps what it leaves unset and never upgrades an
\* estimate.
absorb(usage, later) ==
    [tokens |-> IF later.tokens # <<>> THEN later.tokens ELSE usage.tokens,
     exact |-> usage.exact /\ later.exact]

observe(a0, e) ==
    LET a == [a0 EXCEPT !.event_count = @ + 1]
    IN IF a.completed
       THEN [asm |-> [a EXCEPT !.ignored = @ + 1], absorbed |-> "ignored"]
       ELSE CASE e.kind = "TurnStarted" ->
                     IF a.started THEN Malformed(a) ELSE Took([a EXCEPT !.started = TRUE])
              [] e.kind = "TextDelta" ->
                     IF Bytes(a.text) + Bytes(e.text) > MaxText THEN Malformed(a)
                     ELSE Took([a EXCEPT !.text = @ \o e.text])
              [] e.kind = "ToolCallStarted" -> start_call(a, e)
              [] e.kind = "ToolCallArgumentsDelta" -> extend_call(a, e.index, e.fragment)
              [] e.kind = "ToolCallReady" -> ready_call(a, e.index)
              [] e.kind = "Usage" ->
                     Took([a EXCEPT !.usage = IF @ = <<>> THEN <<e.report>>
                                              ELSE <<absorb(@[1], e.report)>>])
              [] e.kind = "TurnCompleted" ->
                     Took([a EXCEPT !.calls = finalize_open_calls(@, FALSE),
                                    !.stop = <<e.stop>>, !.completed = TRUE])

take_turn(a, truncated) ==
    [text |-> a.text, tool_calls |-> finalize_open_calls(a.calls, truncated),
     usage |-> a.usage, stop |-> a.stop]

Failed(kind) == [kind |-> kind, turn |-> <<>>, stop |-> <<>>]
Partial(a) == [kind |-> "disconnected", turn |-> <<take_turn(a, TRUE)>>, stop |-> <<>>]
into_outcome(a, stop, truncated) ==
    [kind |-> "outcome", turn |-> <<take_turn(a, truncated)>>, stop |-> <<stop>>]

finish_assembly(a) ==
    IF a.completed THEN into_outcome(a, a.stop[1], FALSE)
    ELSE IF a.event_count = 0 THEN Failed("empty_response")
    ELSE Partial(a)

-----------------------------------------------------------------------------
(* The driver *)

\* The driver's answer when the stream ends.
finish(a, stopped) == IF stopped /\ ~a.completed
                      THEN into_outcome(a, "aborted_by_sink", TRUE)
                      ELSE finish_assembly(a)

\* Only a disconnect carries what had arrived.
fail(a, kind) == IF kind = "disconnected" THEN Partial(a) ELSE Failed(kind)

\* The recorder keeps the event unless it is full, and answers Stop once it is.
Full(events) == Len(events) >= Capacity
Record(e) == IF Full(sinkSaw) THEN sinkSaw ELSE Append(sinkSaw, e)

Forwarded(absorbed) == absorbed = "recorded"

\* Assemble, then hand to the sink; `rest` is what is left to deliver of this
\* step of the script.
deliver(e, rest) ==
    IF tripped
    THEN answer' = <<Failed("cancelled")>> /\ UNCHANGED <<asm, sinkSaw, aborted, queued>>
    ELSE LET o == observe(asm, e)
         IN /\ asm' = o.asm
            /\ IF Forwarded(o.absorbed)
               THEN /\ sinkSaw' = Record(e)
                    /\ aborted' = (aborted \/ Full(sinkSaw'))
                    /\ answer' = IF Full(sinkSaw') THEN <<finish(o.asm, aborted')>>
                                 ELSE answer
                    /\ queued' = IF Full(sinkSaw') THEN <<>> ELSE rest
               ELSE /\ answer' = IF o.absorbed = "malformed"
                                 THEN <<Failed("malformed_response")>> ELSE answer
                    /\ queued' = rest
                    /\ UNCHANGED <<sinkSaw, aborted>>

-----------------------------------------------------------------------------
(* The script *)

\* `fragments`: the text cut at a byte offset; a character the offset falls
\* inside waits in the accumulator for its last byte, and nothing empty is sent.
Released(text, at) == CHOOSE n \in 0..Len(text) :
                          /\ Bytes(SubSeq(text, 1, n)) <= at
                          /\ n = Len(text) \/ Bytes(SubSeq(text, 1, n + 1)) > at

fragments(text, at) ==
    LET n == Released(text, at)
    IN SelectSeq(<<SubSeq(text, 1, n), SubSeq(text, n + 1, Len(text))>>,
                 LAMBDA f : f # <<>>)

Running == answer = <<>>
Between == Running /\ queued = <<>> /\ steps < MaxSteps

\* `check_cancelled` at the head of every step; also what ends the call
\* before the first one.
Polled == /\ Running
          /\ tripped
          /\ answer' = <<Failed("cancelled")>>
          /\ UNCHANGED <<asm, tripped, queued, sinkSaw, aborted, steps>>

Emit == \E e \in Events :
    /\ Between
    /\ ~tripped
    /\ deliver(e, <<>>)
    /\ steps' = steps + 1
    /\ UNCHANGED tripped

Delta(i, f) == [kind |-> "ToolCallArgumentsDelta", index |-> i, fragment |-> f]

\* An Arguments step; each of its fragments is delivered on its own.
SendArguments == \E s \in Arguments :
    /\ Between
    /\ ~tripped
    /\ queued' = [k \in DOMAIN fragments(s.text, s.at) |->
                     Delta(s.index, fragments(s.text, s.at)[k])]
    /\ steps' = steps + 1
    /\ UNCHANGED <<asm, tripped, sinkSaw, aborted, answer>>

SendFragment ==
    /\ Running
    /\ queued # <<>>
    /\ deliver(Head(queued), Tail(queued))
    /\ UNCHANGED <<tripped, steps>>

Fail == \E kind \in Stops :
    /\ Between
    /\ ~tripped
    /\ answer' = <<fail(asm, kind)>>
    /\ UNCHANGED <<asm, tripped, queued, sinkSaw, aborted, steps>>

\* The script has no more steps.
EndOfStream ==
    /\ Running
    /\ queued = <<>>
    /\ answer' = <<finish(asm, aborted)>>
    /\ UNCHANGED <<asm, tripped, queued, sinkSaw, aborted, steps>>

\* Another thread trips the token at any time.
Trip == /\ Running
        /\ ~tripped
        /\ tripped' = TRUE
        /\ UNCHANGED <<asm, queued, sinkSaw, aborted, answer, steps>>

TurnInit == /\ asm = NewAssembler
            /\ tripped = FALSE
            /\ queued = <<>>
            /\ sinkSaw = <<>>
            /\ aborted = FALSE
            /\ answer = <<>>
            /\ steps = 0

TurnNext == \/ Polled
            \/ Emit
            \/ SendArguments
            \/ SendFragment
            \/ Fail
            \/ EndOfStream
            \/ Trip

TurnSpec == TurnInit /\ [][TurnNext]_turnVars

-----------------------------------------------------------------------------
(* Properties *)

Of(kind) == SelectSeq(sinkSaw, LAMBDA e : e.kind = kind)
About(i) == SelectSeq(sinkSaw, LAMBDA e : "index" \in DOMAIN e /\ e.index = i)

\* The starts recorded up to and including the one for index i.
StartsTo(i) ==
    LET all == Of("ToolCallStarted")
        n == CHOOSE k \in DOMAIN all : all[k].index = i
    IN SubSeq(all, 1, n)

Id(starts, k) == IF starts[k].id # <<>> THEN starts[k].id[1]
                 ELSE Cardinality({j \in 1..k : starts[j].id = <<>>})

\* What the events the sink saw say of the call at index i.
Told(i, ended) ==
    LET said == About(i)
        starts == StartsTo(i)
        n == Len(starts)
        raw == FlattenSeq([k \in 1..Len(SelectSeq(said, LAMBDA e : "fragment" \in DOMAIN e)) |->
                              SelectSeq(said, LAMBDA e : "fragment" \in DOMAIN e)[k].fragment])
        closed == ended \/ \E k \in DOMAIN said : said[k].kind = "ToolCallReady"
    IN [id |-> Id(starts, n),
        provenance |-> IF starts[n].id # <<>> THEN "provider" ELSE "synthesized",
        duplicate |-> \E k \in 1..(n - 1) : Id(starts, k) = Id(starts, n),
        named |-> starts[n].named,
        raw |-> raw,
        state |-> IF ~closed THEN "truncated"
                  ELSE IF ~starts[n].named THEN "missing_name"
                  ELSE IF Blank(raw) \/ ParsesJson(raw) THEN "ready" ELSE "unparsable"]

(***************************************************************************)
(* The turn a call returns -- whole, stopped by the sink or lost with its  *)
(* connection -- is exactly what the events the sink recorded tell: no     *)
(* caller has to derive it again from the stream (contract/provider.rs,    *)
(* "Assembled once").  Text is theirs in order; every call started is      *)
(* there with the identity it was given, marked when an earlier start of   *)
(* the turn had the same one, and it may be executed only if its stream    *)
(* was closed over arguments that are one value; usage is counted exactly  *)
(* only if every report was.                                               *)
(***************************************************************************)
TurnIsWhatWasSeen ==
    \A a \in Range(answer) : a.turn # <<>> =>
        LET turn == a.turn[1]
            ended == Of("TurnCompleted") # <<>>
            texts == Of("TextDelta")
            reports == Of("Usage")
        IN /\ turn.text = FlattenSeq([k \in DOMAIN texts |-> texts[k].text])
           /\ turn.tool_calls =
                 [i \in {e.index : e \in Range(Of("ToolCallStarted"))} |-> Told(i, ended)]
           /\ turn.usage # <<>> <=> reports # <<>>
           /\ reports # <<>> =>
                 (turn.usage[1].exact <=> \A k \in DOMAIN reports : reports[k].report.exact)

(***************************************************************************)
(* A sink that has seen the turn end has seen it end: nothing is delivered *)
(* after the completion, and a turn that completed is reported as the      *)
(* provider ended it even when the sink stopped on its last event, and is  *)
(* never called aborted (driver.rs, `deliver` and `finish`).               *)
(***************************************************************************)
EndIsEnd ==
    /\ \A k \in DOMAIN sinkSaw : sinkSaw[k].kind = "TurnCompleted" => k = Len(sinkSaw)
    /\ \A a \in Range(answer) : a.kind = "outcome" =>
          IF Of("TurnCompleted") # <<>> THEN a.stop = <<Of("TurnCompleted")[1].stop>>
          ELSE a.stop = <<"aborted_by_sink">> /\ Len(sinkSaw) = Capacity

(***************************************************************************)
(* What a turn answers is what its sink saw of it, and its end is the end.  *)
(***************************************************************************)
TurnTrue == TurnIsWhatWasSeen /\ EndIsEnd
=============================================================================
