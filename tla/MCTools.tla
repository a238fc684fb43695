------------------------------ MODULE MCTools ------------------------------
(* What a run does to a workspace and on whose word: the gate before a tool   *)
(* call, the check tool's evidence, staging by hunk and line, the patch tool, *)
(* trust in integrations and the turn of a model.  A behaviour is one of one  *)
(* of them, chosen at the start, so that the state space is the sum of        *)
(* theirs.                                                                    *)
EXTENDS PolicyGate, CheckEvidence, PartialStaging, ApplyPatch, IntegrationTrust, ModelTurn

CONSTANTS f1, f2

VARIABLE part

Map1(x, v) == [y \in {x} |-> v]

\* PolicyGate: a tool the input makes riskier, one that only looks, and files
\* of both schema versions, one of them refused in a repository.
TwoTools == {"fetch", "look"}
TwoDescriptors == [fetch |-> [risk |-> Network, external |-> 0],
                   look |-> [risk |-> Observe, external |-> 0]]
ThreeInputs == {[paths |-> {"read"}, flags |-> {}, force |-> FALSE],
                [paths |-> {}, flags |-> {"network", "remote"}, force |-> FALSE],
                [paths |-> {}, flags |-> {}, force |-> TRUE]}
ThreeFiles ==
    {NoFile,
     [version |-> 1, tools |-> Map1("fetch", Allow), risks |-> Map1(Network, Deny),
      external |-> NoRules, kind |-> "rules"],
     [version |-> 2, tools |-> Map1("look", Ask), risks |-> NoRules,
      external |-> Map1("mcp", Allow), kind |-> "rules"]}

\* CheckEvidence: two files, two commits, and outputs that reach each bound of
\* the scan.
ThreeTrees == [Paths -> 0 .. 1] \ {[p \in Paths |-> 0]}
TwoCommits == <<[p \in Paths |-> 2 - p], [p \in Paths |-> 1]>>
AllThere == {[p \in Paths |-> 1]}
Line(n, k) == [size |-> n, kind |-> k]
FewOutputs ==
    {<<Line(1, "message"), Line(1, "message"), Line(1, "other"), Line(1, "message")>>,
     <<Line(3, "message"), Line(2, "message"), Line(1, "message")>>}

\* PartialStaging: files that are missing, short and unterminated; two ends of one
\* longer text, far enough apart for two hunks, the first of which shifts the
\* second; and texts in which a hunk still fits after an edit, elsewhere.
File(s) == [there |-> TRUE, lines |-> s]
SomeTexts ==
    {Absent, File(<<10, -20>>), File(<<50, 10, -20>>), File(<<10, 20, 10, 20>>),
     File(<<10, 20, 50, 10, 20>>), File(<<50, 10, 20, 50, 10, -21>>)}

\* ApplyPatch.
TwoFiles == <<f1, f2>>

\* IntegrationTrust: an agent that is updated, an account whose
\* resource disappears, a workspace that can do more.
Unknown == [f \in Facts |->
    CASE f = "capabilities" -> {} [] f = "source" -> "user" [] OTHER -> None]
SomeSubjects == [k \in Kinds |->
    CASE k = "agent" -> {[Unknown EXCEPT !["executable"] = <<"e1">>, !["version"] = <<1, 4, 3>>]}
      [] k = "account" -> {[Unknown EXCEPT !["host"] = <<"h1">>, !["resource"] = <<"r1">>]}
      [] k = "workspace" -> {Unknown}]
SomeValues == [k \in Kinds |-> [f \in Facts |->
    CASE k = "agent" /\ f = "version" -> {<<1, 4, 2>>, <<1, 4, 3>>}
      [] k = "workspace" /\ f = "capabilities" -> {{}, {"tools"}}
      [] k = "account" /\ f = "resource" -> {None, <<"r1">>}
      [] OTHER -> {Unknown[f]}]]

\* ModelTurn: a script over two calls, one wide character, an identity the
\* assembler would synthesize and two usage reports, one of them an estimate.
Start(i, id, named) == [kind |-> "ToolCallStarted", index |-> i, id |-> id, named |-> named]
SomeEvents ==
    {[kind |-> "TurnStarted"],
     [kind |-> "TextDelta", text |-> <<"w">>],
     Start(0, <<>>, TRUE), Start(1, <<1>>, TRUE), Start(1, <<>>, FALSE),
     [kind |-> "ToolCallReady", index |-> 0],
     [kind |-> "Usage", report |-> [tokens |-> <<7>>, exact |-> TRUE]],
     [kind |-> "Usage", report |-> [tokens |-> <<>>, exact |-> FALSE]],
     [kind |-> "TurnCompleted", stop |-> "tool_use"],
     [kind |-> "TurnCompleted", stop |-> "max_output"]}
SomeArguments ==
    {[index |-> 0, text |-> <<"{", "w", "}">>, at |-> 2],
     [index |-> 0, text |-> <<"{">>, at |-> 0],
     [index |-> 1, text |-> <<"{", "}">>, at |-> 1],
     [index |-> 1, text |-> <<" ">>, at |-> 1]}

Init == /\ part \in {"gate", "evidence", "staging", "patch", "trust", "turn"}
        /\ GateInit /\ (part = "gate" \/ \A p \in DOMAIN files : files[p] = NoFile)
        /\ EvidenceInit /\ (part = "evidence" \/ repo = CHOOSE r \in Workspaces : TRUE)
        /\ StagingInit /\ (part = "staging" \/ (head = Absent /\ work = Absent))
        /\ PatchInit /\ (part = "patch" \/ \A f \in TargetFile : own[f] = Approved)
        /\ TrustInit /\ (part = "trust" \/ (kind = "agent" /\ here = "r1"))
        /\ TurnInit

Next == \/ /\ part = "gate" /\ GateNext
           /\ UNCHANGED <<part, evidenceVars, stagingVars, patchVars, trustVars, turnVars>>
        \/ /\ part = "evidence" /\ EvidenceNext
           /\ UNCHANGED <<part, gateVars, stagingVars, patchVars, trustVars, turnVars>>
        \/ /\ part = "staging" /\ StagingNext
           /\ UNCHANGED <<part, gateVars, evidenceVars, patchVars, trustVars, turnVars>>
        \/ /\ part = "patch" /\ PatchNext
           /\ UNCHANGED <<part, gateVars, evidenceVars, stagingVars, trustVars, turnVars>>
        \/ /\ part = "trust" /\ TrustNext
           /\ UNCHANGED <<part, gateVars, evidenceVars, stagingVars, patchVars, turnVars>>
        \/ /\ part = "turn" /\ TurnNext
           /\ UNCHANGED <<part, gateVars, evidenceVars, stagingVars, patchVars, trustVars>>

Spec == Init /\ [][Next]_<<part, gateVars, evidenceVars, stagingVars, patchVars, trustVars, turnVars>>
=============================================================================
