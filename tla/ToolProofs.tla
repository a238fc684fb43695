----------------------------- MODULE ToolProofs -----------------------------
(* Proofs about what decides whether a tool call runs (PolicyGate), about    *)
(* the decisions on integrations (IntegrationTrust) and about a tool that    *)
(* writes several files (ApplyPatch): for any tools, inputs, policy files,   *)
(* runs and front ends, any subjects and values of their facts, a patch of   *)
(* any number of files, and any number of calls, decisions and changes.      *)
EXTENDS PolicyGate, IntegrationTrust, ApplyPatch, TLAPS

-----------------------------------------------------------------------------
\* PolicyGate: the inductive invariant

Verdicts == {Allow, Ask, Deny}
RunPhase == {"none", "vouched", "running", "ended"}
CallState == {"proposed", "asked", "ran", "denied", "interrupted"}
Answer == {"none", "pending", "granted", "denied", "cancelled"}
Scope == {"none", "exact_call", "tool_for_run"}
TrustState == {"none", "trusted", "untrusted"}

CallType ==
    [tool : Tools, input : Inputs, risk : Risks, trusted : BOOLEAN, state : CallState,
     verdict : Verdicts, once : BOOLEAN, answer : Answer, scope : Scope]

UserPolicy == {load_optional_file(f) : f \in PolicyFiles}
RepositoryPolicy == {load_repository_policy(f) : f \in PolicyFiles}

RunType ==
    [phase : RunPhase, root : GateRoots \cup {Elsewhere}, repository : RepositoryPolicy]

TrustRow == [root : GateRoots \cup {Elsewhere}, state : TrustState, at : Nat]
Hand == [kind : {"none", "put", "revoke"}, state : TrustState,
         root : GateRoots \cup {Elsewhere}, at : Nat]

GateTypeOK ==
    /\ trust \in TrustRow /\ hands \in [Fronts -> Hand] /\ trustWritten \subseteq Hand
    /\ clock \in Nat /\ meddles \in Nat
    /\ files \in [GateRoots \cup {User} -> PolicyFiles]
    /\ engine \in UserPolicy
    /\ run \in [Runs -> RunType]
    /\ gateCalls \in [Runs -> Seq(CallType)]

HandOK(h) ==
    /\ h # NoHand => h.state # "none"
    /\ h.kind = "revoke" => h.state = "untrusted"

\* A decision that is written down is one or the other, and a row has one.
Decided ==
    /\ trust # NoRow => trustWritten # {}
    /\ \A d \in trustWritten : d.state # "none"
    /\ \A f \in Fronts : HandOK(hands[f])

\* The user policy e, or the repository's of run n, denies call c.
DeniedBy(f, c) ==
    \/ f = Bad
    \/ /\ f # NoFile
       /\ \/ c.tool \in DOMAIN f.tools /\ f.tools[c.tool] = Deny
          \/ c.risk \in DOMAIN f.risks /\ f.risks[c.risk] = Deny

\* No layer denies the call.
Cleared(e, n, c) ==
    /\ ~DeniedBy(n.repository, c)
    /\ n.phase = "running" => ~DeniedBy(e, c)
    /\ ~c.input.force /\ Descriptor[c.tool].external = 0
    /\ c.risk > Observe => c.trusted

\* The layers leave the call to an answer.
AskedAbout(e, n, c) ==
    Judged(e, n.repository,
           [tool |-> c.tool, risk |-> c.risk, force |-> c.input.force, trusted |-> c.trusted]) = Ask

\* An earlier answer of the run opened the tool of call k.
Opened(s, k) ==
    \E j \in 1 .. k - 1 : /\ s[j].tool = s[k].tool /\ s[j].answer = "granted"
                          /\ s[j].scope = "tool_for_run"

\* Call k of the calls s of run n: an open call is the newest one, an answer
\* that grants runs its call, and what the layers did not deny stays so.
CallKept(e, n, s, k) ==
    LET c == s[k]
    IN  /\ c.state \in {"proposed", "asked"} => k = Len(s)
        /\ c.state = "proposed" => c.answer = "none"
        /\ c.answer = "granted" => c.state = "ran" /\ c.scope # "none"
        /\ c.state = "asked" => c.scope # "none"
        /\ c.risk >= Descriptor[c.tool].risk
        /\ c.state = "asked" /\ exact_only(c.risk) => c.scope = "exact_call"
        /\ c.state \in {"asked", "ran"} => Cleared(e, n, c)
        /\ c.state = "ran" =>
             /\ exact_only(c.risk) => c.answer = "granted" /\ c.scope = "exact_call"
             /\ n.phase = "running" /\ AskedAbout(e, n, c) /\ c.answer # "granted" => Opened(s, k)

CallsKept(e, n, s) == \A k \in 1 .. Len(s) : CallKept(e, n, s, k)

\* A run has no call before its policy is loaded.
RunKept(n, s) ==
    /\ n.phase \in {"none", "vouched"} => s = <<>>
    /\ n.phase = "vouched" => n.root \in GateRoots

Gated == \A r \in Runs : RunKept(run[r], gateCalls[r]) /\ CallsKept(engine, run[r], gateCalls[r])

GateInv == GateTypeOK /\ Decided /\ TrustNewest /\ Gated

-----------------------------------------------------------------------------
\* Verdicts and risks

\* A set of small numbers has a maximum.
LEMMA MaxOf ==
    ASSUME NEW S \in SUBSET (0 .. 5), S # {}
    PROVE  Max(S) \in S /\ \A y \in S : y <= Max(S)
<1>1. ASSUME NEW m \in S, \A y \in S : m >= y
      PROVE  Max(S) \in S /\ \A y \in S : y <= Max(S)
  <2>1. \E x \in S : \A y \in S : x >= y
    BY <1>1
  <2>2. Max(S) \in S /\ \A y \in S : Max(S) >= y
    BY <2>1 DEF Max
  <2>3. QED
    BY <2>2
<1>2. CASE 5 \in S
  BY <1>1, <1>2
<1>3. CASE 5 \notin S /\ 4 \in S
  <2>1. \A y \in S : 4 >= y
    BY <1>3
  <2>2. QED
    BY <1>1, <1>3, <2>1
<1>4. CASE 5 \notin S /\ 4 \notin S /\ 3 \in S
  <2>1. \A y \in S : 3 >= y
    BY <1>4
  <2>2. QED
    BY <1>1, <1>4, <2>1
<1>5. CASE 5 \notin S /\ 4 \notin S /\ 3 \notin S /\ 2 \in S
  <2>1. \A y \in S : 2 >= y
    BY <1>5
  <2>2. QED
    BY <1>1, <1>5, <2>1
<1>6. CASE 5 \notin S /\ 4 \notin S /\ 3 \notin S /\ 2 \notin S /\ 1 \in S
  <2>1. \A y \in S : 1 >= y
    BY <1>6
  <2>2. QED
    BY <1>1, <1>6, <2>1
<1>7. CASE 5 \notin S /\ 4 \notin S /\ 3 \notin S /\ 2 \notin S /\ 1 \notin S
  <2>1. \A y \in S : y = 0
    BY <1>7
  <2>2. PICK m \in S : TRUE
    OBVIOUS
  <2>3. \A y \in S : m >= y
    BY <2>1
  <2>4. QED
    BY <1>1, <2>3
<1>8. QED
  BY <1>2, <1>3, <1>4, <1>5, <1>6, <1>7

\* Every rule of a file that may be loaded is a verdict.
Ruled(f) ==
    /\ \A x \in DOMAIN f.tools : f.tools[x] \in Verdicts
    /\ \A x \in DOMAIN f.risks : f.risks[x] \in Verdicts

\* Whatever file is loaded, or not, its rules are verdicts.
LEMMA LoadedIsRuled ==
    /\ \A f \in UserPolicy : Ruled(f)
    /\ \A f \in RepositoryPolicy : Ruled(f)
    /\ NoFile \in RepositoryPolicy
<1>1. Ruled(NoFile) /\ Ruled(Bad)
  BY DEF Ruled, Bad, NoFile, NoRules
<1>2. ASSUME NEW f \in PolicyFiles
      PROVE  Ruled(load_optional_file(f)) /\ Ruled(load_repository_policy(f))
  <2>1. /\ f = [version |-> f.version, tools |-> f.tools, risks |-> f.risks,
                external |-> f.external, kind |-> f.kind]
        /\ \A x \in DOMAIN f.tools : f.tools[x] \in Verdicts
        /\ \A x \in DOMAIN f.risks : f.risks[x] \in Verdicts
    BY GateConstants DEF Verdicts
  <2> DEFINE h == [f EXCEPT !.version = SchemaVersion]
  <2>2. h.tools = f.tools /\ h.risks = f.risks
    BY <2>1
  <2>3. Ruled(h)
    BY <2>1, <2>2 DEF Ruled
  <2> HIDE DEF h
  <2>4. load_optional_file(f) \in {NoFile, Bad, h}
    BY DEF load_optional_file, h
  <2>5. load_repository_policy(f) \in {NoFile, Bad, h}
    BY <2>4 DEF load_repository_policy, validate_repository
  <2>6. QED
    BY <1>1, <2>3, <2>4, <2>5
<1>3. NoFile = load_repository_policy(NoFile)
  BY DEF load_repository_policy, validate_repository, load_optional_file
<1>4. QED
  BY <1>2, <1>3, GateConstants DEF UserPolicy, RepositoryPolicy

\* An input never makes its tool less risky.
LEMMA RiskOf ==
    ASSUME NEW t \in Tools, NEW i \in Inputs
    PROVE  classify_request(t, i) \in Risks /\ classify_request(t, i) >= Descriptor[t].risk
<1> DEFINE S == {access_risk(a) : a \in i.paths}
                  \union {Descriptor[t].risk, flags_risk(force_pushing(i))}
<1>1. i.paths \subseteq Access /\ i.flags \subseteq Flags /\ Descriptor[t].risk \in 0 .. 5
  BY GateConstants DEF Risks, Observe, Destructive
<1>2. \A a \in Access : access_risk(a) \in 0 .. 5
  BY DEF Access, access_risk, Observe, WorkspaceWrite, Destructive
<1>3. force_pushing(i) \subseteq Flags
  BY <1>1 DEF force_pushing, Flags
<1>4. ASSUME NEW fl \in SUBSET Flags PROVE flags_risk(fl) \in 0 .. 5
  <2>1. \/ "destroy" \in fl \/ ("destroy" \notin fl /\ "remote" \in fl)
        \/ (fl \cap {"destroy", "remote"} = {} /\ "network" \in fl)
        \/ fl = {"execute"} \/ fl = {}
    BY DEF Flags
  <2>2. QED
    BY <2>1 DEF flags_risk, Destructive, RemoteWrite, Network, Execute, Observe
<1>5. S \in SUBSET (0 .. 5) /\ S # {} /\ Descriptor[t].risk \in S
  BY <1>1, <1>2, <1>3, <1>4
<1> HIDE DEF S
<1>6. Max(S) \in 0 .. 5 /\ Descriptor[t].risk <= Max(S)
  BY <1>5, MaxOf
<1>7. classify_request(t, i) = Max(S)
  BY DEF classify_request, S
<1>8. QED
  BY <1>1, <1>6, <1>7 DEF Risks, Observe, Destructive

\* A layer only makes a verdict stricter, and one rule that denies is enough.
LEMMA LayerFolds ==
    ASSUME NEW v \in Verdicts, NEW R \in SUBSET Verdicts
    PROVE  /\ fold_layer(v, R) \in Verdicts /\ fold_layer(v, R) >= v
           /\ fold_layer(v, R) # Deny => v # Deny /\ Deny \notin R
<1>1. {v} \union R \in SUBSET (0 .. 5) /\ {v} \union R # {}
  BY DEF Verdicts, Allow, Ask, Deny
<1>2. /\ Max({v} \union R) \in {v} \union R
      /\ \A y \in {v} \union R : y <= Max({v} \union R)
  BY ONLY <1>1, MaxOf
<1>3. fold_layer(v, R) \in {v} \union R /\ \A y \in {v} \union R : y <= fold_layer(v, R)
  BY <1>2 DEF fold_layer
<1>4. QED
  <2> DEFINE m == fold_layer(v, R)
  <2>1. m \in Verdicts /\ v <= m /\ (Deny \in R => Deny <= m)
    BY <1>3
  <2> HIDE DEF m
  <2>2. m >= v /\ (m # Deny => v # Deny /\ Deny \notin R)
    BY ONLY <2>1, v \in Verdicts DEF Verdicts, Allow, Ask, Deny
  <2>3. QED
    BY <2>1, <2>2 DEF m

\* What the layers say of a call: any layer that denies it is obeyed, only
\* observing in a trusted workspace is allowed without a rule, and a verdict
\* short of a denial leaves the call cleared.
LEMMA JudgedSoundly ==
    ASSUME NEW e \in UserPolicy, NEW f \in RepositoryPolicy, NEW q,
           q.tool \in Tools, q.risk \in Risks, q.trusted \in BOOLEAN, q.force \in BOOLEAN
    PROVE  /\ Judged(e, f, q) \in Verdicts
           /\ Judged(e, f, q) # Deny =>
                /\ ~DeniedBy(e, q) /\ ~DeniedBy(f, q) /\ ~q.force /\ Descriptor[q.tool].external = 0
                /\ q.risk > Observe => q.trusted
           /\ Judged(e, f, q) = Allow => ~exact_only(q.risk)
<1> DEFINE b == built_in(q.trusted, q.risk)
           R1 == selected(e, q.tool, q.risk)
           R2 == selected(f, q.tool, q.risk)
           v1 == fold_layer(b, R1)
           v2 == fold_layer(v1, R2)
           barred == Descriptor[q.tool].external > 0 \/ q.force \/ Bad \in {e, f}
<1>1. b \in Verdicts /\ (b # Deny /\ q.risk > Observe => q.trusted) /\ (b = Allow => q.risk = Observe)
  BY DEF built_in, Verdicts, Allow, Ask, Deny, Observe, Risks, Destructive
<1>2. /\ R1 \in SUBSET Verdicts /\ R2 \in SUBSET Verdicts
  BY LoadedIsRuled DEF selected, Matching, Ruled
<1>3. ASSUME NEW h, h # Bad, Deny \notin selected(h, q.tool, q.risk)
      PROVE  ~DeniedBy(h, q)
  BY <1>3 DEF DeniedBy, selected, Matching
<1>4. Judged(e, f, q) = IF barred THEN Deny ELSE v2
  BY DEF Judged
<1> HIDE DEF b, R1, R2, v1, v2, barred
<1>5. v1 \in Verdicts /\ v1 >= b /\ (v1 # Deny => b # Deny /\ Deny \notin R1)
  BY ONLY <1>1, <1>2, LayerFolds DEF v1
<1>6. v2 \in Verdicts /\ v2 >= v1 /\ (v2 # Deny => v1 # Deny /\ Deny \notin R2)
  BY ONLY <1>2, <1>5, LayerFolds DEF v2
<1>7. Judged(e, f, q) \in Verdicts
  BY <1>4, <1>6 DEF Verdicts
<1>8. ASSUME Judged(e, f, q) # Deny
      PROVE  /\ ~DeniedBy(e, q) /\ ~DeniedBy(f, q) /\ ~q.force /\ Descriptor[q.tool].external = 0
             /\ q.risk > Observe => q.trusted
  <2>1. ~barred /\ Deny \notin R1 /\ Deny \notin R2 /\ b # Deny
    BY <1>4, <1>5, <1>6, <1>8
  <2>2. e # Bad /\ f # Bad /\ ~q.force /\ ~(Descriptor[q.tool].external > 0)
    BY <2>1 DEF barred
  <2>3. Descriptor[q.tool].external = 0
    BY <2>2, GateConstants
  <2>4. QED
    BY <1>1, <1>3, <2>1, <2>2, <2>3 DEF R1, R2
<1>9. Judged(e, f, q) = Allow => ~exact_only(q.risk)
  <2>1. Judged(e, f, q) = Allow => b = Allow
    BY <1>1, <1>4, <1>5, <1>6 DEF Verdicts, Allow, Ask, Deny
  <2>2. QED
    BY <1>1, <2>1 DEF exact_only, RemoteWrite, Destructive, Observe
<1>10. QED
  BY <1>7, <1>8, <1>9

-----------------------------------------------------------------------------
\* The calls of one run

\* A call that is over is left alone by what happens to later ones.
LEMMA OverKept ==
    ASSUME NEW e, NEW n, NEW s, NEW t, NEW k \in Nat,
           \A i \in 1 .. k : t[i] = s[i], k >= 1,
           CallKept(e, n, s, k), s[k].state \notin {"proposed", "asked"}
    PROVE  CallKept(e, n, t, k)
<1>1. t[k] = s[k] /\ \A j \in 1 .. k - 1 : t[j] = s[j]
  OBVIOUS
<1>2. Opened(s, k) => Opened(t, k)
  BY <1>1 DEF Opened
<1>3. QED
  BY <1>1, <1>2 DEF CallKept

\* The newest call changes, and the others were over.
Changed(s, m, d) == [s EXCEPT ![m] = d]

\* Only the newest call was open.
LEMMA NewestChanges ==
    ASSUME NEW e, NEW n, NEW s \in Seq(CallType), NEW d \in CallType, NEW t, NEW m,
           s # <<>>, m = Len(s), s[m].state \in {"proposed", "asked"}, CallsKept(e, n, s),
           t = Changed(s, m, d), CallKept(e, n, t, m)
    PROVE  t \in Seq(CallType) /\ CallsKept(e, n, t)
<1>1. /\ m \in Nat /\ m >= 1 /\ t \in Seq(CallType) /\ Len(t) = m
      /\ \A i \in 1 .. m - 1 : t[i] = s[i]
  BY DEF Changed
<1>2. ASSUME NEW k \in 1 .. m - 1 PROVE CallKept(e, n, t, k)
  <2>1. k \in Nat /\ k >= 1 /\ k # m /\ k \in 1 .. m /\ \A i \in 1 .. k : i \in 1 .. m - 1
    BY <1>1, <1>2
  <2>2. CallKept(e, n, s, k)
    BY <2>1 DEF CallsKept
  <2>3. s[k].state \notin {"proposed", "asked"}
    BY <2>1, <2>2 DEF CallKept
  <2>4. QED
    BY ONLY <1>1, <2>1, <2>2, <2>3, OverKept
<1>3. \A k \in 1 .. m : k = m \/ k \in 1 .. m - 1
  BY <1>1
<1>4. QED
  BY <1>1, <1>2, <1>3 DEF CallsKept

\* A new call is proposed after the others are over.
LEMMA ProposedKept ==
    ASSUME NEW e, NEW n, NEW s \in Seq(CallType), NEW d \in CallType, NEW t,
           s # <<>> => s[Len(s)].state \notin {"proposed", "asked"}, CallsKept(e, n, s),
           d.state = "proposed", d.answer = "none", d.risk >= Descriptor[d.tool].risk,
           t = Append(s, d)
    PROVE  t \in Seq(CallType) /\ CallsKept(e, n, t)
<1> DEFINE m == Len(s)
<1>1. /\ m \in Nat /\ t \in Seq(CallType) /\ Len(t) = m + 1 /\ t[m + 1] = d
      /\ \A i \in 1 .. m : t[i] = s[i]
      /\ m >= 1 => s # <<>>
  OBVIOUS
<1>4. m >= 1 => s[m].state \notin {"proposed", "asked"}
  BY <1>1
<1> HIDE DEF m
<1>2. ASSUME NEW k \in 1 .. m PROVE CallKept(e, n, t, k)
  <2>1. k \in Nat /\ k >= 1 /\ m >= 1 /\ \A i \in 1 .. k : i \in 1 .. m
    BY ONLY <1>1, <1>2
  <2>2. CallKept(e, n, s, k)
    BY DEF CallsKept, m
  <2>3. s[k].state \notin {"proposed", "asked"}
    BY <1>4, <2>1, <2>2 DEF CallKept, m
  <2>4. QED
    BY ONLY <1>1, <2>1, <2>2, <2>3, OverKept
<1>3. CallKept(e, n, t, m + 1)
  BY <1>1 DEF CallKept
<1>5. \A k \in 1 .. m + 1 : k = m + 1 \/ k \in 1 .. m
  BY <1>1
<1>6. QED
  BY <1>1, <1>2, <1>3, <1>5 DEF CallsKept

\* The evaluation of call m of the calls s of run n, by its own grants.
Grants(s, m) ==
    {s[j].scope : j \in {j \in 1 .. m :
        match_candidate(m, s[m], [k |-> j, answer |-> s[j].answer, scope |-> s[j].scope,
                                  tool |-> s[j].tool, input |-> s[j].input])}}

Verdict(e, n, s, m) ==
    evaluate(e, n.repository,
             [tool |-> s[m].tool, risk |-> s[m].risk, force |-> s[m].input.force,
              trusted |-> s[m].trusted, grants |-> Grants(s, m)])

StateAfter(v) == CASE v = Allow -> "ran" [] v = Ask -> "asked" [] v = Deny -> "denied"
AnswerAfter(v) == IF v = Ask THEN "pending" ELSE "none"
ScopeAfter(c, d) == IF d.verdict = Ask THEN requested_scope(c, d.once) ELSE "none"

Evaluated(c, d) ==
    [c EXCEPT !.state = StateAfter(d.verdict), !.verdict = d.verdict, !.once = d.once,
              !.answer = AnswerAfter(d.verdict), !.scope = ScopeAfter(c, d)]

\* A grant that answers a call not yet asked about opened its tool earlier.
LEMMA GrantsOpen ==
    ASSUME NEW e, NEW n, NEW s \in Seq(CallType), NEW m \in Nat, m >= 1, m = Len(s),
           s[m].state = "proposed", CallsKept(e, n, s), NEW g \in Grants(s, m)
    PROVE  g # "exact_call" /\ Opened(s, m)
<1>1. PICK j \in 1 .. m :
         /\ g = s[j].scope
         /\ match_candidate(m, s[m], [k |-> j, answer |-> s[j].answer, scope |-> s[j].scope,
                                      tool |-> s[j].tool, input |-> s[j].input])
  BY DEF Grants
<1>2. s[j] \in CallType /\ CallKept(e, n, s, j) /\ CallKept(e, n, s, m)
  BY DEF CallsKept
<1>3. s[j].answer = "granted"
  BY <1>1 DEF match_candidate
<1>4. j # m
  BY <1>2, <1>3 DEF CallKept
<1>5. s[j].scope \in {"exact_call", "tool_for_run"}
  BY <1>2, <1>3 DEF CallKept, CallType, Scope
<1>6. s[j].scope # "exact_call"
  BY <1>1, <1>4 DEF match_candidate
<1>7. s[j].scope = "tool_for_run" /\ s[j].tool = s[m].tool
  BY <1>1, <1>5, <1>6 DEF match_candidate
<1>8. j \in 1 .. m - 1
  BY <1>4
<1>9. QED
  BY <1>1, <1>3, <1>6, <1>7, <1>8 DEF Opened

\* A call that is evaluated runs cleared, and on an answer where one is due.
LEMMA EvaluatedKept ==
    ASSUME NEW e \in UserPolicy, NEW n \in RunType, NEW s \in Seq(CallType), NEW m \in Nat, NEW t,
           m >= 1, m = Len(s), s[m].state = "proposed", CallsKept(e, n, s),
           t = Changed(s, m, Evaluated(s[m], Verdict(e, n, s, m)))
    PROVE  t \in Seq(CallType) /\ CallsKept(e, n, t)
<1> DEFINE c == s[m]
           q == [tool |-> c.tool, risk |-> c.risk, force |-> c.input.force,
                 trusted |-> c.trusted, grants |-> Grants(s, m)]
           p == [tool |-> c.tool, risk |-> c.risk, force |-> c.input.force, trusted |-> c.trusted]
           v == Verdict(e, n, s, m)
           d == Evaluated(c, v)
           j == Judged(e, n.repository, p)
<1>0. c \in CallType /\ CallKept(e, n, s, m) /\ s # <<>>
  BY DEF CallsKept
<1>1. /\ q.tool = c.tool /\ q.risk = c.risk /\ q.force = c.input.force /\ q.trusted = c.trusted
      /\ p.tool = c.tool /\ p.risk = c.risk /\ p.force = c.input.force /\ p.trusted = c.trusted
      /\ c.tool \in Tools /\ c.risk \in Risks /\ c.trusted \in BOOLEAN /\ c.input.force \in BOOLEAN
      /\ q.grants = Grants(s, m)
  BY <1>0, GateConstants DEF CallType
<1>2. Judged(e, n.repository, q) = j
  BY <1>1 DEF Judged
<1>3. n.repository \in RepositoryPolicy
  BY DEF RunType
<1> DEFINE cleared == /\ ~DeniedBy(e, p) /\ ~DeniedBy(n.repository, p)
                      /\ ~p.force /\ Descriptor[p.tool].external = 0
                      /\ p.risk > Observe => p.trusted
<1>4. /\ j \in Verdicts /\ (j # Deny => cleared) /\ (j = Allow => ~exact_only(c.risk))
  <2> HIDE DEF p
  <2>1. /\ Judged(e, n.repository, p) \in Verdicts
        /\ Judged(e, n.repository, p) # Deny => cleared
        /\ Judged(e, n.repository, p) = Allow => ~exact_only(p.risk)
    BY <1>1, <1>3, JudgedSoundly
  <2>2. QED
    BY <1>1, <2>1
<1>5. cleared => Cleared(e, n, c)
  BY <1>1 DEF DeniedBy, Cleared
<1> DEFINE answered == \E g \in Grants(s, m) : exact_only(c.risk) => g = "exact_call"
<1>6. v = IF j = Ask /\ answered THEN [verdict |-> Allow, once |-> FALSE]
          ELSE [verdict |-> j, once |-> j = Ask /\ exact_only(c.risk)]
  <2> HIDE DEF q, p, j, c
  <2>1. evaluate(e, n.repository, q) = IF j = Ask /\ answered THEN [verdict |-> Allow, once |-> FALSE]
          ELSE [verdict |-> j, once |-> j = Ask /\ exact_only(c.risk)]
    BY <1>1, <1>2 DEF evaluate
  <2>2. v = evaluate(e, n.repository, q)
    BY DEF Verdict, q, c
  <2>3. QED
    BY <2>1, <2>2
<1>7. answered => ~exact_only(c.risk) /\ Opened(s, m)
  BY GrantsOpen
<1>8. j = Ask <=> AskedAbout(e, n, c)
  BY DEF AskedAbout
<1> HIDE DEF c, q, p, v, j, d, answered, cleared
<1>9. /\ v.verdict \in Verdicts /\ v.once \in BOOLEAN
      /\ v.verdict = Allow => j = Allow \/ (j = Ask /\ answered)
      /\ v.verdict = Ask => j = Ask /\ (exact_only(c.risk) => v.once)
  BY <1>4, <1>6 DEF Verdicts, Allow, Ask, Deny
<1>10. requested_scope(c, v.once) \in {"exact_call", "tool_for_run"}
       /\ (exact_only(c.risk) => requested_scope(c, v.once) = "exact_call")
  BY <1>9 DEF requested_scope, ceiling
<1>11. /\ d \in CallType /\ d.tool = c.tool /\ d.input = c.input /\ d.risk = c.risk
       /\ d.trusted = c.trusted /\ d.answer # "granted" /\ d.state \in {"ran", "asked", "denied"}
       /\ d.state = "ran" => v.verdict = Allow
       /\ d.state = "asked" => v.verdict = Ask /\ d.scope = requested_scope(c, v.once)
  <2> DEFINE st == StateAfter(v.verdict)
             ans == AnswerAfter(v.verdict)
             sc == ScopeAfter(c, v)
  <2>1. d = [c EXCEPT !.state = st, !.verdict = v.verdict, !.once = v.once, !.answer = ans, !.scope = sc]
    BY DEF d, Evaluated
  <2>2. /\ v.verdict = Allow => st = "ran"
        /\ v.verdict = Ask => st = "asked"
        /\ v.verdict = Deny => st = "denied"
    BY DEF StateAfter, Allow, Ask, Deny
  <2>3. ans \in {"pending", "none"}
    BY DEF AnswerAfter
  <2>4. sc \in Scope /\ (v.verdict = Ask => sc = requested_scope(c, v.once))
    BY <1>10 DEF ScopeAfter, Scope
  <2> HIDE DEF st, ans, sc
  <2>5. st \in {"ran", "asked", "denied"} /\ (st = "ran" => v.verdict = Allow)
        /\ (st = "asked" => v.verdict = Ask)
    BY <1>9, <2>2 DEF Verdicts
  <2>6. /\ d \in CallType /\ d.tool = c.tool /\ d.input = c.input /\ d.risk = c.risk
        /\ d.trusted = c.trusted /\ d.answer = ans /\ d.state = st /\ d.scope = sc
    BY ONLY <1>0, <1>9, <2>1, <2>3, <2>4, <2>5 DEF CallType, CallState, Answer
  <2>7. QED
    BY <2>3, <2>4, <2>5, <2>6
<1>12. Cleared(e, n, c) => Cleared(e, n, d)
  BY <1>11 DEF Cleared, DeniedBy
<1>13. /\ t[m] = d /\ Len(t) = m /\ \A i \in 1 .. m - 1 : t[i] = s[i]
       /\ t = Changed(s, m, d)
  BY <1>0, <1>11 DEF d, v, c, Changed
<1>14. Opened(s, m) => Opened(t, m)
  BY <1>11, <1>13 DEF Opened, c
<1>15. d.state \in {"asked", "ran"} => Cleared(e, n, d)
  BY <1>4, <1>5, <1>9, <1>11, <1>12 DEF Verdicts, Allow, Ask, Deny
<1>16. d.state = "ran" => /\ ~exact_only(d.risk)
                          /\ AskedAbout(e, n, d) => Opened(t, m)
  <2>1. AskedAbout(e, n, d) <=> AskedAbout(e, n, c)
    BY <1>11 DEF AskedAbout
  <2>2. QED
    BY <1>4, <1>7, <1>8, <1>9, <1>11, <1>14, <2>1 DEF Allow, Ask
<1>17. CallKept(e, n, t, m)
  BY <1>0, <1>10, <1>11, <1>13, <1>15, <1>16, <1>9 DEF CallKept, c
<1>18. QED
  BY <1>0, <1>11, <1>13, <1>17, NewestChanges DEF c

\* A call that was asked about runs on an answer as wide as the request at most.
Answered(c, given, scope) ==
    IF given = "granted" THEN [c EXCEPT !.state = "ran", !.answer = "granted", !.scope = scope]
    ELSE [c EXCEPT !.state = "denied", !.answer = given]

\* The grant is for that call alone when its risk asks for it.
LEMMA AnsweredKept ==
    ASSUME NEW e, NEW n, NEW s \in Seq(CallType), NEW m \in Nat, NEW t,
           NEW given \in {"granted", "denied", "cancelled"},
           NEW scope \in {"exact_call", "tool_for_run"},
           m >= 1, m = Len(s), s[m].state = "asked", CallsKept(e, n, s),
           given = "granted" => scope \in grantable_scopes(s[m]),
           t = Changed(s, m, Answered(s[m], given, scope))
    PROVE  t \in Seq(CallType) /\ CallsKept(e, n, t)
<1> DEFINE c == s[m]
           d == Answered(c, given, scope)
<1>0. c \in CallType /\ CallKept(e, n, s, m) /\ s # <<>>
  BY DEF CallsKept
<1> HIDE DEF c, d
<1>1. /\ d \in CallType /\ d.tool = c.tool /\ d.input = c.input /\ d.risk = c.risk
      /\ d.trusted = c.trusted /\ d.state \in {"ran", "denied"}
      /\ d.state = "ran" => d.answer = "granted" /\ d.scope = scope /\ scope \in grantable_scopes(c)
      /\ d.state = "denied" => d.answer # "granted"
  <2>1. CASE given = "granted"
    BY <1>0, <2>1 DEF Answered, CallType, CallState, Answer, Scope, c, d
  <2>2. CASE given # "granted"
    BY <1>0, <2>2 DEF Answered, CallType, CallState, Answer, Scope, c, d
  <2>3. QED
    BY <2>1, <2>2
<1>2. Cleared(e, n, c) => Cleared(e, n, d)
  BY <1>1 DEF Cleared, DeniedBy
<1>3. t[m] = d /\ Len(t) = m /\ t = Changed(s, m, d)
  BY <1>0, <1>1 DEF d, c, Changed
<1>4. exact_only(c.risk) => grantable_scopes(c) = {"exact_call"}
  BY <1>0 DEF CallKept, grantable_scopes, c
<1>5. CallKept(e, n, t, m)
  BY <1>0, <1>1, <1>2, <1>3, <1>4 DEF CallKept, c
<1>6. QED
  BY <1>0, <1>1, <1>3, <1>5, NewestChanges DEF c

\* A restart ends a run and interrupts its open call.
Interrupted(s) ==
    [s EXCEPT ![Len(s)].state = "interrupted", ![Len(s)].answer = "none"]

\* Neither says more of a call than was known before.
LEMMA RestartKept ==
    ASSUME NEW e, NEW f, NEW n, NEW l, NEW s \in Seq(CallType), NEW t, NEW busy \in BOOLEAN,
           busy <=> s # <<>> /\ s[Len(s)].state \in {"proposed", "asked"},
           CallsKept(e, n, s), l.repository = n.repository, l.phase # "running",
           t = IF busy THEN Interrupted(s) ELSE s
    PROVE  t \in Seq(CallType) /\ CallsKept(f, l, t) /\ (s = <<>> => t = <<>>)
<1>1. ASSUME NEW k, CallKept(e, n, s, k) PROVE CallKept(f, l, s, k)
  BY <1>1 DEF CallKept, Cleared
<1>2. CASE ~busy
  BY <1>1, <1>2 DEF CallsKept
<1>3. CASE busy
  <2> DEFINE m == Len(s)
             d == [s[m] EXCEPT !.state = "interrupted", !.answer = "none"]
  <2>1. m \in Nat /\ m >= 1 /\ s[m] \in CallType /\ s # <<>>
        /\ s[m].state \in {"proposed", "asked"} /\ CallKept(e, n, s, m)
    BY <1>3 DEF CallsKept
  <2>2. t = Changed(s, m, d)
    BY <1>3, <2>1 DEF Interrupted, Changed
  <2>3. d \in CallType /\ d.state = "interrupted" /\ d.answer = "none" /\ d.risk = s[m].risk
        /\ d.tool = s[m].tool
    BY <2>1 DEF CallType, CallState, Answer
  <2>4. t[m] = d /\ Len(t) = m
    BY <2>1, <2>2, <2>3 DEF Changed
  <2>5. CallKept(f, l, t, m)
    BY <2>1, <2>3, <2>4 DEF CallKept
  <2>6. CallsKept(f, l, s)
    BY <1>1 DEF CallsKept
  <2> HIDE DEF d
  <2>7. m = Len(s)
    OBVIOUS
  <2> HIDE DEF m
  <2>8. QED
    BY <2>1, <2>2, <2>3, <2>5, <2>6, <2>7, NewestChanges
<1>4. QED
  BY <1>2, <1>3

-----------------------------------------------------------------------------
\* Steps

\* The written decisions and the row they left, after one more is written.
LEMMA PutKeeps ==
    ASSUME GateTypeOK, Decided, TrustNewest, NEW f \in Fronts, put(f)
    PROVE  trust' \in TrustRow /\ trustWritten' \subseteq Hand /\ TrustNewest' /\ Decided'
<1> DEFINE d == hands[f]
<1>1. /\ d \in Hand /\ d.state # "none" /\ d # NoHand /\ HandOK(d)
      /\ trust \in TrustRow /\ trustWritten \subseteq Hand
  <2>1. HandOK(d) /\ d # NoHand /\ d \in Hand
    BY DEF put, GateTypeOK, Decided
  <2>2. QED
    BY <2>1 DEF GateTypeOK, HandOK
<1>2. /\ trust' = IF Replaces(trust, d) THEN [root |-> d.root, state |-> d.state, at |-> d.at] ELSE trust
      /\ trustWritten' = trustWritten \cup {d}
      /\ hands' = [hands EXCEPT ![f] = NoHand]
  BY DEF put
<1> HIDE DEF d
<1>3. trust' \in TrustRow /\ trustWritten' \subseteq Hand
  BY <1>1, <1>2 DEF TrustRow, Hand
<1>4. \A w \in trustWritten : w.at \in Nat
  BY <1>1 DEF Hand
<1>5. trust.at \in Nat /\ d.at \in Nat /\ d.state \in {"trusted", "untrusted"}
  BY <1>1 DEF TrustRow, Hand, TrustState
<1>6. NoRow.state = "none"
  BY DEF NoRow
<1>10. \A g \in Fronts : HandOK(hands[g])'
  <2>1. HandOK(NoHand)
    BY DEF HandOK, NoHand
  <2>2. hands' \in [Fronts -> Hand] /\ hands'[f] = NoHand
        /\ \A g \in Fronts \ {f} : hands'[g] = hands[g]
    BY <1>2 DEF GateTypeOK, NoHand, Hand, TrustState
  <2>3. ASSUME NEW g \in Fronts PROVE HandOK(hands[g])'
    <3>1. HandOK(hands[g])
      BY DEF Decided
    <3>2. hands'[g] = hands[g] \/ hands'[g] = NoHand
      BY <2>2
    <3>3. QED
      BY <2>1, <3>1, <3>2 DEF HandOK
  <2>4. QED
    BY <2>3
<1>7. CASE Replaces(trust, d)
  <2>1. trust'.state = d.state /\ trust'.at = d.at /\ trust' # NoRow
    BY <1>2, <1>5, <1>6, <1>7
  <2>2. ASSUME NEW w \in trustWritten
        PROVE  w.at <= d.at /\ (w.at = d.at /\ w.state = "untrusted" => d.state = "untrusted")
    BY <1>4, <1>5, <1>7 DEF TrustNewest, Replaces
  <2>3. d.at <= d.at
    BY <1>5
  <2>4. QED
    BY <1>1, <1>2, <1>3, <1>10, <2>1, <2>2, <2>3 DEF TrustNewest, Decided
<1>8. CASE ~Replaces(trust, d)
  <2>1. /\ trust' = trust /\ trust # NoRow /\ d.at <= trust.at
        /\ d.at = trust.at /\ d.state = "untrusted" => trust.state = "untrusted"
    BY <1>2, <1>5, <1>8 DEF Replaces
  <2>2. trustWritten # {}
    BY <2>1 DEF Decided
  <2>3. QED
    BY <1>1, <1>2, <1>3, <1>10, <2>1, <2>2 DEF TrustNewest, Decided
<1>9. QED
  BY <1>7, <1>8

\* The same when a revocation is written, or finds nothing to revoke.
LEMMA RevokeKeeps ==
    ASSUME GateTypeOK, Decided, TrustNewest, NEW f \in Fronts, revoke(f)
    PROVE  trust' \in TrustRow /\ trustWritten' \subseteq Hand /\ TrustNewest' /\ Decided'
<1> DEFINE d == hands[f]
           x == [trust EXCEPT !.state = "untrusted", !.at = d.at]
<1>1. /\ d \in Hand /\ d.state # "none" /\ d # NoHand /\ HandOK(d)
      /\ trust \in TrustRow /\ trustWritten \subseteq Hand
  <2>1. HandOK(d) /\ d # NoHand /\ d \in Hand
    BY DEF revoke, GateTypeOK, Decided
  <2>2. QED
    BY <2>1 DEF GateTypeOK, HandOK
<1>2. /\ trust' = IF Revokes(trust, d.at) THEN x ELSE trust
      /\ trustWritten' = IF trust = NoRow THEN trustWritten ELSE trustWritten \cup {d}
      /\ hands' = [hands EXCEPT ![f] = NoHand]
  BY DEF revoke
<1>3. x \in TrustRow /\ x.state = "untrusted" /\ x.at = d.at
  BY <1>1 DEF TrustRow, Hand, TrustState
<1> HIDE DEF d, x
<1>4. \A w \in trustWritten : w.at \in Nat
  BY <1>1 DEF Hand
<1>5. trust.at \in Nat /\ d.at \in Nat /\ d.state \in {"trusted", "untrusted"}
  BY <1>1 DEF TrustRow, Hand, TrustState
<1>6. NoRow.state = "none"
  BY DEF NoRow
<1>10. \A g \in Fronts : HandOK(hands[g])'
  <2>1. HandOK(NoHand)
    BY DEF HandOK, NoHand
  <2>2. hands' \in [Fronts -> Hand] /\ hands'[f] = NoHand
        /\ \A g \in Fronts \ {f} : hands'[g] = hands[g]
    BY <1>2 DEF GateTypeOK, NoHand, Hand, TrustState
  <2>3. ASSUME NEW g \in Fronts PROVE HandOK(hands[g])'
    <3>1. HandOK(hands[g])
      BY DEF Decided
    <3>2. hands'[g] = hands[g] \/ hands'[g] = NoHand
      BY <2>2
    <3>3. QED
      BY <2>1, <3>1, <3>2 DEF HandOK
  <2>4. QED
    BY <2>3
<1>7. CASE Revokes(trust, d.at)
  <2>1. trust' = x /\ trust # NoRow /\ trust.at <= d.at /\ x # NoRow /\ trustWritten' = trustWritten \cup {d}
    BY <1>2, <1>3, <1>6, <1>7 DEF Revokes
  <2>2. \A w \in trustWritten : w.at <= d.at
    BY <1>4, <1>5, <2>1 DEF TrustNewest
  <2>3. CASE d.state = "untrusted"
    BY <1>1, <1>3, <1>5, <1>10, <2>1, <2>2, <2>3 DEF TrustNewest, Decided
  <2>4. d.state = "untrusted"
    <3>1. d.kind = "revoke"
      BY DEF revoke, d
    <3>2. QED
      BY <1>1, <3>1 DEF HandOK
  <2>5. QED
    BY <2>3, <2>4
<1>8. CASE ~Revokes(trust, d.at) /\ trust # NoRow
  <2>1. trust' = trust /\ d.at < trust.at /\ trustWritten # {} /\ trustWritten' = trustWritten \cup {d}
    BY <1>2, <1>5, <1>8 DEF Revokes, Decided
  <2>2. QED
    BY <1>1, <1>4, <1>5, <1>10, <2>1 DEF TrustNewest, Decided
<1>9. CASE trust = NoRow
  <2>1. trust' = trust /\ trustWritten' = trustWritten
    BY <1>2, <1>9 DEF Revokes
  <2>2. QED
    BY <1>1, <1>10, <2>1 DEF TrustNewest, Decided
<1>11. QED
  BY <1>7, <1>8, <1>9

\* A step of one run that is under way only touches its own calls.
LEMMA OneRun ==
    ASSUME GateTypeOK, Gated, NEW r \in Runs, NEW t \in Seq(CallType),
           gateCalls' = [gateCalls EXCEPT ![r] = t], UNCHANGED <<engine, run>>,
           CallsKept(engine, run[r], t), run[r].phase \notin {"none", "vouched"}
    PROVE  gateCalls' \in [Runs -> Seq(CallType)] /\ Gated'
<1>1. /\ gateCalls' \in [Runs -> Seq(CallType)] /\ gateCalls'[r] = t
      /\ \A p \in Runs \ {r} : gateCalls'[p] = gateCalls[p]
  BY DEF GateTypeOK
<1>2. ASSUME NEW p \in Runs
      PROVE  RunKept(run'[p], gateCalls'[p]) /\ CallsKept(engine', run'[p], gateCalls'[p])
  <2>1. CASE p = r
    BY <1>1, <2>1 DEF RunKept
  <2>2. CASE p # r
    BY <1>1, <2>2 DEF Gated
  <2>3. QED
    BY <2>1, <2>2
<1>3. Gated'
  BY <1>2 DEF Gated
<1>4. QED
  BY <1>1, <1>3

\* Calls are proposed, evaluated and answered within what the layers leave open.
LEMMA CallSteps ==
    ASSUME GateTypeOK, Gated, NEW r \in Runs,
           \/ \E t \in Tools, i \in Inputs : prepare_json(r, t, i)
           \/ Evaluate(r)
           \/ \E v \in {"granted", "denied", "cancelled"}, s \in {"exact_call", "tool_for_run"} :
                decide_approval(r, v, s)
    PROVE  /\ gateCalls' \in [Runs -> Seq(CallType)] /\ Gated'
           /\ UNCHANGED <<trust, hands, trustWritten, clock, files, engine, run, meddles>>
<1> DEFINE s == gateCalls[r]
           m == Len(s)
           n == run[r]
<1>1. /\ s \in Seq(CallType) /\ n \in RunType /\ engine \in UserPolicy /\ m \in Nat
      /\ gateCalls \in [Runs -> Seq(CallType)]
      /\ RunKept(n, s) /\ CallsKept(engine, n, s)
  BY DEF GateTypeOK, Gated
<1>2. ASSUME NEW t \in Seq(CallType), gateCalls' = [gateCalls EXCEPT ![r] = t],
             UNCHANGED <<engine, run>>, CallsKept(engine, n, t), n.phase \notin {"none", "vouched"}
      PROVE  gateCalls' \in [Runs -> Seq(CallType)] /\ Gated'
  BY <1>2, OneRun
<1>3. ASSUME NEW t \in Tools, NEW i \in Inputs, prepare_json(r, t, i)
      PROVE  /\ gateCalls' \in [Runs -> Seq(CallType)] /\ Gated'
             /\ UNCHANGED <<trust, hands, trustWritten, clock, files, engine, run, meddles>>
  <2> DEFINE trusted == resolve_workspace_trust(run[r].root)
             d == [tool |-> t, input |-> i, risk |-> classify_request(t, i), trusted |-> trusted,
                   state |-> "proposed", verdict |-> Deny, once |-> FALSE, answer |-> "none",
                   scope |-> "none"]
  <2>1. /\ UNCHANGED <<trust, hands, trustWritten, clock, files, engine, run, meddles>>
        /\ gateCalls' = [gateCalls EXCEPT ![r] = Append(s, d)]
        /\ n.phase = "running" /\ ~Busy(r)
    BY <1>1, <1>3 DEF prepare_json
  <2>2. trusted \in BOOLEAN
    BY DEF resolve_workspace_trust, resolve
  <2>3. classify_request(t, i) \in Risks /\ classify_request(t, i) >= Descriptor[t].risk
    BY RiskOf
  <2> HIDE DEF trusted
  <2>4. /\ d \in CallType /\ d.state = "proposed" /\ d.answer = "none"
        /\ d.risk >= Descriptor[d.tool].risk
    BY <2>2, <2>3 DEF CallType, CallState, Verdicts, Answer, Scope
  <2> HIDE DEF d
  <2>5. s # <<>> => s[Len(s)].state \notin {"proposed", "asked"}
    BY <2>1 DEF Busy
  <2> DEFINE a == Append(s, d)
  <2>6. a \in Seq(CallType) /\ CallsKept(engine, n, a)
    BY <1>1, <2>4, <2>5, ProposedKept
  <2> HIDE DEF a
  <2>7. gateCalls' = [gateCalls EXCEPT ![r] = a]
    BY <2>1 DEF a
  <2>8. QED
    BY <1>2, <2>1, <2>6, <2>7
<1>4. ASSUME Busy(r)
      PROVE  /\ s # <<>> /\ m >= 1 /\ s[m] \in CallType /\ s[m].state \in {"proposed", "asked"}
             /\ n.phase \notin {"none", "vouched"}
  BY <1>1, <1>4 DEF Busy, RunKept
<1>5. CASE Evaluate(r)
  <2> DEFINE v == Verdict(engine, n, s, m)
             t == Changed(s, m, Evaluated(s[m], v))
  <2>1. matching_grants(r) = Grants(s, m)
    BY DEF matching_grants, Grants
  <2>2. /\ Busy(r) /\ s[m].state = "proposed"
        /\ UNCHANGED <<trust, hands, trustWritten, clock, files, engine, run, meddles>>
    BY <1>5 DEF Evaluate
  <2>3. v = evaluate(engine, run[r].repository,
              [tool |-> s[m].tool, risk |-> s[m].risk, force |-> s[m].input.force,
               trusted |-> s[m].trusted, grants |-> matching_grants(r)])
    BY <2>1 DEF Verdict
  <2>4. gateCalls' = [gateCalls EXCEPT ![r][m] = Evaluated(s[m], v)]
    BY <1>5, <2>3 DEF Evaluate, Evaluated, StateAfter, AnswerAfter, ScopeAfter
  <2> HIDE DEF v
  <2>5. gateCalls' = [gateCalls EXCEPT ![r] = t]
    BY <1>1, <2>4 DEF Changed
  <2>6. t \in Seq(CallType) /\ CallsKept(engine, n, t)
    BY <1>1, <1>4, <2>2, EvaluatedKept DEF v
  <2> HIDE DEF t
  <2>7. QED
    BY <1>2, <1>4, <2>2, <2>5, <2>6
<1>6. ASSUME NEW v \in {"granted", "denied", "cancelled"}, NEW scope \in {"exact_call", "tool_for_run"},
             decide_approval(r, v, scope)
      PROVE  /\ gateCalls' \in [Runs -> Seq(CallType)] /\ Gated'
             /\ UNCHANGED <<trust, hands, trustWritten, clock, files, engine, run, meddles>>
  <2> DEFINE t == Changed(s, m, Answered(s[m], v, scope))
  <2>1. /\ Busy(r) /\ s[m].state = "asked" /\ (v = "granted" => scope \in grantable_scopes(s[m]))
        /\ UNCHANGED <<trust, hands, trustWritten, clock, files, engine, run, meddles>>
    BY <1>6 DEF decide_approval
  <2>2. gateCalls' = [gateCalls EXCEPT ![r][m] = Answered(s[m], v, scope)]
    BY <1>6 DEF decide_approval, Answered
  <2>3. gateCalls' = [gateCalls EXCEPT ![r] = t]
    BY <1>1, <2>2 DEF Changed
  <2>4. t \in Seq(CallType) /\ CallsKept(engine, n, t)
    BY <1>1, <1>4, <2>1, AnsweredKept
  <2> HIDE DEF t
  <2>5. QED
    BY <1>2, <1>4, <2>1, <2>3, <2>4
<1>7. QED
  BY <1>3, <1>5, <1>6

\* Runs start with a policy that is read once, and end with the process.
LEMMA RunSteps ==
    ASSUME GateTypeOK, Gated,
           \/ \E r \in Runs, root \in GateRoots : apply_workspace_trust(r, root)
           \/ \E r \in Runs : for_workspace(r)
           \/ load
    PROVE  /\ engine' \in UserPolicy /\ run' \in [Runs -> RunType]
           /\ gateCalls' \in [Runs -> Seq(CallType)] /\ Gated'
           /\ UNCHANGED <<trust, hands, trustWritten, clock, files, meddles>>
<1> USE DEF GateTypeOK
<1>1. ASSUME NEW r \in Runs, NEW n \in RunType, run' = [run EXCEPT ![r] = n],
             UNCHANGED <<engine, gateCalls>>, gateCalls[r] = <<>>,
             n.phase = "vouched" => n.root \in GateRoots
      PROVE  run' \in [Runs -> RunType] /\ Gated'
  <2>1. /\ run' \in [Runs -> RunType] /\ run'[r] = n
        /\ \A p \in Runs \ {r} : run'[p] = run[p]
    BY <1>1
  <2>2. ASSUME NEW p \in Runs
        PROVE  RunKept(run'[p], gateCalls'[p]) /\ CallsKept(engine', run'[p], gateCalls'[p])
    <3>1. CASE p = r
      BY <1>1, <2>1, <3>1 DEF RunKept, CallsKept
    <3>2. CASE p # r
      BY <1>1, <2>1, <3>2 DEF Gated
    <3>3. QED
      BY <3>1, <3>2
  <2>3. QED
    BY <2>1, <2>2 DEF Gated
<1>2. ASSUME NEW r \in Runs, NEW root \in GateRoots, apply_workspace_trust(r, root)
      PROVE  run' \in [Runs -> RunType] /\ Gated'
  <2> DEFINE n == [NotStarted EXCEPT !.phase = "vouched", !.root = root]
  <2>1. n \in RunType /\ n.root \in GateRoots
    BY LoadedIsRuled DEF NotStarted, RunType, RunPhase
  <2>2. run[r].phase = "none" /\ run' = [run EXCEPT ![r] = n] /\ UNCHANGED <<engine, gateCalls>>
    BY <1>2 DEF apply_workspace_trust
  <2>3. gateCalls[r] = <<>>
    BY <2>2 DEF Gated, RunKept
  <2> HIDE DEF n
  <2>4. QED
    BY <1>1, <2>1, <2>2, <2>3
<1>3. ASSUME NEW r \in Runs, for_workspace(r)
      PROVE  run' \in [Runs -> RunType] /\ Gated'
  <2> DEFINE f == load_repository_policy(files[run[r].root])
             n == [run[r] EXCEPT !.phase = "running", !.repository = f]
  <2>1. run[r].phase = "vouched" /\ run' = [run EXCEPT ![r] = n] /\ UNCHANGED <<engine, gateCalls>>
    BY <1>3 DEF for_workspace
  <2>2. gateCalls[r] = <<>> /\ run[r].root \in GateRoots
    BY <2>1 DEF Gated, RunKept
  <2>3. f \in RepositoryPolicy
    BY <2>2 DEF RepositoryPolicy
  <2> HIDE DEF f
  <2>4. n \in RunType /\ n.phase = "running"
    BY <2>3 DEF RunType, RunPhase
  <2> HIDE DEF n
  <2>5. QED
    BY <1>1, <2>1, <2>2, <2>4
<1>4. CASE load
  <2>1. engine' \in UserPolicy
    BY <1>4 DEF load, UserPolicy
  <2>2. ASSUME NEW r \in Runs
        PROVE  /\ run'[r] \in RunType /\ gateCalls'[r] \in Seq(CallType)
               /\ RunKept(run'[r], gateCalls'[r]) /\ CallsKept(engine', run'[r], gateCalls'[r])
    <3> DEFINE s == gateCalls[r]
               n == run[r]
               l == run'[r]
               t == gateCalls'[r]
               busy == Busy(r)
    <3>1. n \in RunType /\ s \in Seq(CallType) /\ RunKept(n, s) /\ CallsKept(engine, n, s)
      BY DEF Gated
    <3>2. l = IF n.phase = "none" THEN n ELSE [n EXCEPT !.phase = "ended"]
      BY <1>4 DEF load
    <3>3. l \in RunType /\ l.repository = n.repository /\ l.phase \in {"none", "ended"}
          /\ (l.phase = "none" => n.phase = "none")
      BY <3>1, <3>2 DEF RunType, RunPhase
    <3>4. t = IF busy THEN Interrupted(s) ELSE s
      BY <1>4 DEF load, Interrupted
    <3>5. busy \in BOOLEAN /\ (busy <=> s # <<>> /\ s[Len(s)].state \in {"proposed", "asked"})
      BY DEF Busy
    <3> HIDE DEF s, n, l, t, busy
    <3>6. t \in Seq(CallType) /\ CallsKept(engine', l, t) /\ (s = <<>> => t = <<>>)
      BY <3>1, <3>3, <3>4, <3>5, RestartKept
    <3>7. RunKept(l, t)
      BY <3>1, <3>3, <3>6 DEF RunKept
    <3>8. QED
      BY <3>3, <3>6, <3>7 DEF l, t
  <2>3. /\ run' = [r \in Runs |-> run'[r]] /\ gateCalls' = [r \in Runs |-> gateCalls'[r]]
        /\ UNCHANGED <<trust, hands, trustWritten, clock, files, meddles>>
    BY <1>4 DEF load
  <2>4. run' \in [Runs -> RunType] /\ gateCalls' \in [Runs -> Seq(CallType)]
    BY <2>2, <2>3
  <2>5. QED
    BY <2>1, <2>2, <2>3, <2>4 DEF Gated
<1>5. QED
  BY <1>2, <1>3, <1>4 DEF apply_workspace_trust, for_workspace

\* Front ends decide and write, the clock ticks, files change; the calls stay.
LEMMA TrustSteps ==
    ASSUME GateTypeOK, Decided, TrustNewest,
           \/ \E f \in Fronts :
                \/ \E s \in {"trusted", "untrusted"}, root \in GateRoots \union {Elsewhere} :
                     decide(f, s, root)
                \/ decide_revoke(f) \/ put(f) \/ revoke(f)
           \/ GateTick
           \/ \E place \in GateRoots \union {User}, f \in PolicyFiles : EditFile(place, f)
    PROVE  GateTypeOK' /\ Decided' /\ TrustNewest' /\ UNCHANGED <<engine, run, gateCalls>>
<1>1. ASSUME NEW f \in Fronts, NEW h \in Hand, HandOK(h), hands' = [hands EXCEPT ![f] = h],
             UNCHANGED <<trust, trustWritten>>
      PROVE  hands' \in [Fronts -> Hand] /\ Decided'
  <2>1. /\ hands' \in [Fronts -> Hand] /\ hands'[f] = h
        /\ \A g \in Fronts \ {f} : hands'[g] = hands[g]
    BY <1>1 DEF GateTypeOK
  <2>2. ASSUME NEW g \in Fronts PROVE HandOK(hands'[g])
    BY <1>1, <2>1 DEF Decided
  <2>3. QED
    BY <1>1, <2>1, <2>2 DEF Decided
<1>2. ASSUME NEW f \in Fronts, NEW s \in {"trusted", "untrusted"},
             NEW root \in GateRoots \union {Elsewhere}, decide(f, s, root)
      PROVE  GateTypeOK' /\ Decided' /\ TrustNewest' /\ UNCHANGED <<engine, run, gateCalls>>
  <2> DEFINE h == [kind |-> "put", state |-> s, root |-> root, at |-> clock]
  <2>1. h \in Hand /\ HandOK(h)
    BY DEF Hand, HandOK, TrustState, GateTypeOK
  <2>2. /\ hands' = [hands EXCEPT ![f] = h] /\ meddles' = meddles + 1
        /\ UNCHANGED <<trust, trustWritten, clock, files, engine, run, gateCalls>>
    BY <1>2 DEF decide, MeddleOnce
  <2> HIDE DEF h
  <2>3. hands' \in [Fronts -> Hand] /\ Decided'
    BY <1>1, <2>1, <2>2
  <2>4. QED
    BY <2>2, <2>3 DEF GateTypeOK, TrustNewest
<1>3. ASSUME NEW f \in Fronts, decide_revoke(f)
      PROVE  GateTypeOK' /\ Decided' /\ TrustNewest' /\ UNCHANGED <<engine, run, gateCalls>>
  <2> DEFINE h == [kind |-> "revoke", state |-> "untrusted", root |-> Elsewhere, at |-> clock]
  <2>1. h \in Hand /\ HandOK(h)
    BY DEF Hand, HandOK, TrustState, GateTypeOK
  <2>2. /\ hands' = [hands EXCEPT ![f] = h] /\ meddles' = meddles + 1
        /\ UNCHANGED <<trust, trustWritten, clock, files, engine, run, gateCalls>>
    BY <1>3 DEF decide_revoke, MeddleOnce
  <2> HIDE DEF h
  <2>3. hands' \in [Fronts -> Hand] /\ Decided'
    BY <1>1, <2>1, <2>2
  <2>4. QED
    BY <2>2, <2>3 DEF GateTypeOK, TrustNewest
<1>4. ASSUME NEW f \in Fronts, put(f) \/ revoke(f)
      PROVE  GateTypeOK' /\ Decided' /\ TrustNewest' /\ UNCHANGED <<engine, run, gateCalls>>
  <2>1. trust' \in TrustRow /\ trustWritten' \subseteq Hand /\ TrustNewest' /\ Decided'
    BY <1>4, PutKeeps, RevokeKeeps
  <2>2. /\ hands' = [hands EXCEPT ![f] = NoHand]
        /\ UNCHANGED <<clock, files, engine, run, gateCalls, meddles>>
    BY <1>4 DEF put, revoke
  <2>3. NoHand \in Hand
    BY DEF NoHand, Hand, TrustState
  <2>4. QED
    BY <2>1, <2>2, <2>3 DEF GateTypeOK
<1>5. ASSUME GateTick
      PROVE  GateTypeOK' /\ Decided' /\ TrustNewest' /\ UNCHANGED <<engine, run, gateCalls>>
  BY <1>5 DEF GateTick, GateTypeOK, Decided, TrustNewest
<1>6. ASSUME NEW place \in GateRoots \union {User}, NEW f \in PolicyFiles, EditFile(place, f)
      PROVE  GateTypeOK' /\ Decided' /\ TrustNewest' /\ UNCHANGED <<engine, run, gateCalls>>
  BY <1>6 DEF EditFile, MeddleOnce, GateTypeOK, Decided, TrustNewest
<1>7. QED
  BY <1>2, <1>3, <1>4, <1>5, <1>6

-----------------------------------------------------------------------------
\* The invariant of the specification

\* Nothing is decided and nothing runs.
LEMMA GateStarts ==
    ASSUME GateInit
    PROVE  GateInv
<1>1. NoRow \in TrustRow /\ NoHand \in Hand /\ HandOK(NoHand)
  BY DEF NoRow, NoHand, TrustRow, Hand, TrustState, HandOK
<1>2. NotStarted \in RunType
  BY LoadedIsRuled DEF NotStarted, RunType, RunPhase
<1>3. engine \in UserPolicy
  BY DEF GateInit, UserPolicy
<1>4. GateTypeOK
  BY <1>1, <1>2, <1>3 DEF GateInit, GateTypeOK
<1>5. Decided /\ TrustNewest
  BY <1>1 DEF GateInit, Decided, TrustNewest
<1>6. Gated
  BY DEF GateInit, Gated, RunKept, CallsKept, NotStarted
<1>7. QED
  BY <1>4, <1>5, <1>6 DEF GateInv

\* No step of a front end, a run or a restart leaves the invariant.
LEMMA GateStep ==
    ASSUME GateInv, [GateNext]_gateVars
    PROVE  GateInv'
<1> USE DEF GateInv
<1> DEFINE TrustAction ==
             \/ \E f \in Fronts :
                  \/ \E s \in {"trusted", "untrusted"}, root \in GateRoots \union {Elsewhere} :
                       decide(f, s, root)
                  \/ decide_revoke(f) \/ put(f) \/ revoke(f)
             \/ GateTick
             \/ \E place \in GateRoots \union {User}, f \in PolicyFiles : EditFile(place, f)
           CallAction(r) ==
             \/ \E t \in Tools, i \in Inputs : prepare_json(r, t, i)
             \/ Evaluate(r)
             \/ \E v \in {"granted", "denied", "cancelled"}, s \in {"exact_call", "tool_for_run"} :
                  decide_approval(r, v, s)
           RunAction ==
             \/ \E r \in Runs, root \in GateRoots : apply_workspace_trust(r, root)
             \/ \E r \in Runs : for_workspace(r)
             \/ load
<1>1. CASE TrustAction
  <2>1. GateTypeOK' /\ Decided' /\ TrustNewest' /\ UNCHANGED <<engine, run, gateCalls>>
    BY <1>1, TrustSteps
  <2>2. QED
    BY <2>1 DEF Gated
<1>2. ASSUME NEW r \in Runs, CallAction(r) PROVE GateInv'
  <2>1. /\ gateCalls' \in [Runs -> Seq(CallType)] /\ Gated'
        /\ UNCHANGED <<trust, hands, trustWritten, clock, files, engine, run, meddles>>
    BY <1>2, CallSteps
  <2>2. QED
    BY <2>1 DEF GateTypeOK, Decided, TrustNewest
<1>3. CASE RunAction
  <2>1. /\ engine' \in UserPolicy /\ run' \in [Runs -> RunType]
        /\ gateCalls' \in [Runs -> Seq(CallType)] /\ Gated'
        /\ UNCHANGED <<trust, hands, trustWritten, clock, files, meddles>>
    BY <1>3, RunSteps
  <2>2. QED
    BY <2>1 DEF GateTypeOK, Decided, TrustNewest
<1>4. CASE UNCHANGED gateVars
  BY <1>4 DEF gateVars, GateTypeOK, Decided, TrustNewest, Gated
<1>5. GateNext => TrustAction \/ RunAction \/ \E r \in Runs : CallAction(r)
  BY DEF GateNext
<1>6. QED
  BY <1>1, <1>2, <1>3, <1>4, <1>5

\* What the property asks of the calls and of the row is in it.
LEMMA InvIsKept ==
    ASSUME GateInv
    PROVE  GateKept
<1>1. ASSUME NEW r \in Runs, NEW k \in 1 .. Len(gateCalls[r])
      PROVE  CallKept(engine, run[r], gateCalls[r], k)
  BY DEF GateInv, Gated, CallsKept
<1>2. ConsentCovers
  BY <1>1 DEF ConsentCovers, CallKept, Ran, AskedAbout, Opened
<1>3. DeniedNeverRuns
  BY <1>1 DEF DeniedNeverRuns, CallKept, Ran, Cleared, DeniedBy
<1>4. QED
  BY <1>2, <1>3 DEF GateInv, GateKept

\* No call runs that a layer denies, what policy asks about runs only on an
\* answer that covers it, and the trust it is judged by is the newest decision
\* (coordinator/mod.rs evaluation, policy.rs evaluate, matcher.rs, trust.rs).
THEOREM GateIsKept == GateSpec => []GateKept
<1>1. GateInit => GateInv
  BY GateStarts
<1>2. GateInv /\ [GateNext]_gateVars => GateInv'
  BY GateStep
<1>3. GateInv => GateKept
  BY InvIsKept
<1>4. QED
  BY <1>1, <1>2, <1>3, PTL DEF GateSpec

-----------------------------------------------------------------------------
\* IntegrationTrust: the inductive invariant

FactValue == UNION {Values[k][f] \cup {b[f] : b \in Subjects[k]} : k \in Kinds, f \in Facts}

Basis == [Facts -> FactValue]
Ground == Roots \cup {Nowhere}
State == {"trusted", "revoked", "invalidated"}
Reason == {NoReason, "workspace", "executable", "host", "resource", "fingerprint", "content",
           "authority", "version"}

Record ==
    [kind : Kinds, basis : Basis, scope : Ground, state : State, reason : Reason, granted : Nat]

Wire ==
    [kind : Kinds, identity : Basis, state : State, reason : Reason, granted : Nat,
     workspace : Ground, scope : {"global", "workspace"}]

RowType == [kind : Kinds, json : Wire, recorded : Nat]

Decision ==
    [what : {"none", "trust", "revoke", "forget"}, row : Nat,
     shown : {None} \cup {<<b>> : b \in Basis}, scope : Ground]

TrustTypeOK ==
    /\ kind \in Kinds /\ subject \in Basis /\ here \in Roots
    /\ grants \in Seq(RowType)
    /\ wall \in Nat /\ stepped \in BOOLEAN /\ uses \in Nat /\ drifts \in Nat /\ decisions \in Nat
    /\ last \in Decision

\* A version is ordered only as a triple of numbers.
Numbered(v) == Len(v) = 3 => \A i \in 1 .. 3 : v[i] \in Nat

\* A record of the subject that its own encoding does not lose.
Stored(k, w) ==
    /\ w.kind = k
    /\ require_evidence(k, w.identity, w.workspace)
    /\ w.state = "invalidated" <=> w.reason # NoReason
    /\ w.scope = "global" <=> w.workspace = Nowhere
    /\ Numbered(w.identity["version"])

Kept == /\ Numbered(subject["version"])
        /\ \A i \in DOMAIN grants : grants[i].kind = kind /\ Stored(kind, grants[i].json)

\* The row that latest_for_subject takes.
IsLatest(rows, i) ==
    /\ i \in DOMAIN rows
    /\ \A j \in DOMAIN rows : \/ rows[j].recorded < rows[i].recorded
                              \/ rows[j].recorded = rows[i].recorded /\ j <= i

\* There is one, and it is the last one written while the clock runs forward.
Dated ==
    /\ grants # <<>> => \E i \in DOMAIN grants : IsLatest(grants, i)
    /\ ~stepped => /\ \A i \in DOMAIN grants : grants[i].recorded <= wall
                   /\ grants # <<>> => IsLatest(grants, Len(grants))

\* The record a use looks at says what the user decided last.
Obeyed ==
    LET row == grants[latest_for_subject(grants)]
    IN  /\ last.what \in {"none", "forget"} => grants = <<>>
        /\ last.what = "revoke" => grants = <<>> \/ row.json.state = "revoked"
        /\ last.what = "trust" =>
             /\ grants # <<>> /\ last.shown # None
             /\ ~stepped => row.json.identity = last.shown[1] /\ row.json.workspace = last.scope

TrustInv == TrustTypeOK /\ Kept /\ Dated /\ Obeyed

-----------------------------------------------------------------------------
\* What the latest row says

\* The latest row is the one that no other comes after.
LEMMA LatestIs ==
    ASSUME NEW rows \in Seq(RowType), NEW i, IsLatest(rows, i)
    PROVE  latest_for_subject(rows) = i
<1> DEFINE Last(k) == \A j \in DOMAIN rows : \/ rows[j].recorded < rows[k].recorded
                                             \/ rows[j].recorded = rows[k].recorded /\ j <= k
           m == CHOOSE k \in DOMAIN rows : Last(k)
<1>1. /\ DOMAIN rows \subseteq Nat
      /\ \A j \in DOMAIN rows : rows[j].recorded \in Nat
  <2>1. DOMAIN rows \subseteq Nat /\ \A j \in DOMAIN rows : rows[j] \in RowType
    OBVIOUS
  <2>2. \A r \in RowType : r.recorded \in Nat
    BY DEF RowType
  <2>3. QED
    BY <2>1, <2>2
<1>2. i \in DOMAIN rows /\ Last(i)
  BY DEF IsLatest
<1>3. m \in DOMAIN rows /\ Last(m)
  <2> HIDE DEF Last
  <2>1. QED
    BY <1>2
<1>4. latest_for_subject(rows) = m
  BY DEF latest_for_subject
<1> HIDE DEF m
<1>5. m = i
  BY <1>1, <1>2, <1>3
<1>6. QED
  BY <1>4, <1>5

\* The record that a wire form stands for.
Meant(w) ==
    [kind |-> w.kind, basis |-> w.identity, scope |-> w.workspace, state |-> w.state,
     reason |-> w.reason, granted |-> w.granted]

\* Such a row loads, as the record that was stored.
LEMMA DecodedIs ==
    ASSUME NEW k, NEW row \in RowType, row.kind = k, Stored(k, row.json)
    PROVE  decode(row) = <<Meant(row.json)>> /\ decode(row) # None
<1> DEFINE w == row.json
<1>1. w \in Wire
  BY DEF RowType
<1>2. (w.scope = "global") = (w.workspace = Nowhere)
  <2>1. w.scope = "global" <=> w.workspace = Nowhere
    BY DEF Stored
  <2>2. QED
    BY <2>1
<1>3. (w.state = "invalidated") = (w.reason # NoReason)
  <2>1. w.state = "invalidated" <=> w.reason # NoReason
    BY DEF Stored
  <2>2. QED
    BY <2>1
<1>4. w.state # "untrusted"
  BY <1>1 DEF Wire, State
<1>5. require_evidence(w.kind, w.identity, w.workspace) /\ w.kind = k
  BY DEF Stored
<1>6. try_from_wire(w) = <<Meant(w)>>
  BY <1>2, <1>3, <1>4, <1>5 DEF try_from_wire, from_parts, Meant
<1>7. <<Meant(w)>> # None /\ <<Meant(w)>>[1] = Meant(w) /\ Meant(w).kind = k
  BY <1>5 DEF None, Meant
<1>8. QED
  BY <1>6, <1>7 DEF decode

\* While there are rows, one of them is the latest, and it loads.
LEMMA LatestLoads ==
    ASSUME TrustTypeOK, Kept, Dated, grants # <<>>
    PROVE  LET i == latest_for_subject(grants)
           IN  /\ i \in DOMAIN grants /\ IsLatest(grants, i)
               /\ grants[i] \in RowType /\ grants[i].kind = kind /\ Stored(kind, grants[i].json)
               /\ grants[i].json \in Wire
               /\ Latest = <<Meant(grants[i].json)>> /\ Latest # None
               /\ Latest[1] = Meant(grants[i].json)
<1> DEFINE i == latest_for_subject(grants)
<1>1. IsLatest(grants, i)
  BY LatestIs DEF TrustTypeOK, Dated
<1>2. i \in DOMAIN grants
  BY <1>1 DEF IsLatest
<1>3. grants[i] \in RowType /\ grants[i].kind = kind /\ Stored(kind, grants[i].json)
  BY <1>2 DEF TrustTypeOK, Kept
<1>4. grants[i].json \in Wire
  BY <1>3 DEF RowType
<1>5. decode(grants[i]) = <<Meant(grants[i].json)>> /\ decode(grants[i]) # None
  BY <1>3, DecodedIs
<1>6. Latest = decode(grants[i])
  BY DEF Latest
<1>7. QED
  BY <1>1, <1>2, <1>3, <1>4, <1>5, <1>6

-----------------------------------------------------------------------------
\* Recognising a subject

\* The first of the comparisons that fire is one of them.
LEMMA MinOf ==
    ASSUME NEW S \in SUBSET (1 .. 7), S # {}
    PROVE  Min(S) \in S
<1>1. ASSUME NEW m \in S, \A y \in S : m =< y
      PROVE  Min(S) \in S
  <2>1. \E x \in S : \A y \in S : x =< y
    BY <1>1
  <2>2. QED
    BY <2>1 DEF Min
<1>2. \E m \in S : \A y \in S : m =< y
  <2>1. CASE 1 \in S
    BY <2>1
  <2>2. CASE 1 \notin S /\ 2 \in S
    BY <2>2
  <2>3. CASE 1 \notin S /\ 2 \notin S /\ 3 \in S
    BY <2>3
  <2>4. CASE S \subseteq 4 .. 7 /\ 4 \in S
    BY <2>4
  <2>5. CASE S \subseteq 5 .. 7 /\ 5 \in S
    BY <2>5
  <2>6. CASE S \subseteq 6 .. 7 /\ 6 \in S
    BY <2>6
  <2>7. CASE S \subseteq {7}
    <3>1. \A y \in S : y = 7
      BY <2>7
    <3>2. PICK m \in S : TRUE
      OBVIOUS
    <3>3. \A y \in S : m =< y
      BY <3>1
    <3>4. QED
      BY <3>3
  <2>8. QED
    BY <2>1, <2>2, <2>3, <2>4, <2>5, <2>6, <2>7
<1>3. QED
  BY <1>1, <1>2

\* What a check may say, and that its consent means that the record is in
\* force here and nothing fires.
LEMMA Checked ==
    ASSUME NEW row, NEW seen, NEW root
    PROVE  LET ruling == check(row, seen, root)
           IN  /\ ruling \in Reason \cup {"valid", "not_trusted"} /\ ruling # NoReason
               /\ ruling # "not_trusted" => row.state = "trusted"
               /\ ruling = "valid" =>
                    /\ row.scope = Nowhere \/ row.scope = root
                    /\ \A x \in {"executable", "host", "resource", "fingerprint", "content",
                                 "authority", "version"} : ~Fires(x, row.basis, seen)
<1> DEFINE C == IDENTITY_CHECKS
           firing == {i \in DOMAIN C : Fires(C[i], row.basis, seen)}
<1>1. /\ DOMAIN C = 1 .. 7
      /\ C[1] = "executable" /\ C[2] = "host" /\ C[3] = "resource" /\ C[4] = "fingerprint"
      /\ C[5] = "content" /\ C[6] = "authority" /\ C[7] = "version"
  BY DEF IDENTITY_CHECKS
<1>2. \A i \in DOMAIN C : C[i] \in Reason /\ C[i] \notin {"valid", "not_trusted", NoReason}
  BY <1>1 DEF Reason, NoReason
<1>3. firing # {} => Min(firing) \in DOMAIN C
  <2>1. firing \in SUBSET (1 .. 7)
    BY <1>1
  <2> HIDE DEF firing, C
  <2>2. QED
    BY <1>1, <2>1, MinOf
<1>4. firing = {} =>
        \A x \in {"executable", "host", "resource", "fingerprint", "content",
                  "authority", "version"} : ~Fires(x, row.basis, seen)
  <2> HIDE DEF C
  <2>1. QED
    BY <1>1
<1>5. check(row, seen, root) =
        IF row.state # "trusted" THEN "not_trusted"
        ELSE IF row.scope # Nowhere /\ row.scope # root THEN "workspace"
        ELSE IF firing # {} THEN C[Min(firing)]
        ELSE "valid"
  BY DEF check
<1>6. "workspace" \in Reason /\ NoReason \notin {"workspace", "valid", "not_trusted"}
  BY DEF Reason, NoReason
<1> HIDE DEF firing, C
<1>7. QED
  BY ONLY <1>2, <1>3, <1>4, <1>5, <1>6

\* Versions are ordered as triples of numbers.
LEMMA CompatibleIsNotOlder ==
    ASSUME NEW a, NEW b, Numbered(a), Numbered(b), versions_are_compatible(a, b)
    PROVE  ~Older(b, a)
<1>1. SUFFICES ASSUME Older(b, a) PROVE FALSE
  OBVIOUS
<1>2. Len(a) = 3 /\ Len(b) = 3
  BY <1>1 DEF Older
<1>3. /\ a[1] \in Nat /\ a[2] \in Nat /\ a[3] \in Nat
      /\ b[1] \in Nat /\ b[2] \in Nat /\ b[3] \in Nat
  BY <1>2 DEF Numbered
<1>4. QED
  BY <1>1, <1>2, <1>3 DEF Older, versions_are_compatible

\* What a record in force lets through is what its basis was taken from.
LEMMA ValidIsShown ==
    ASSUME NEW row, kind \in Kinds, Numbered(subject["version"]), Numbered(row.basis["version"]),
           require_evidence(kind, row.basis, row.scope),
           check(row, subject, here) = "valid"
    PROVE  IsAsShown(row.basis, row.scope)
<1> DEFINE b == row.basis
           Compared == {"executable", "host", "resource", "fingerprint", "content",
                        "authority", "version"}
<1>1. row.scope \in {Nowhere, here} /\ \A x \in Compared : ~Fires(x, b, subject)
  BY Checked
<1>2. /\ subject["executable"] = b["executable"] /\ subject["host"] = b["host"]
      /\ subject["resource"] = b["resource"] /\ subject["fingerprint"] = b["fingerprint"]
      /\ subject["content"] = b["content"]
  BY <1>1 DEF Fires, Differs
<1>3. ~authority_surface_widened(b, subject)
  <2>1. ~Fires("authority", b, subject)
    BY <1>1
  <2>2. Fires("authority", b, subject) = authority_surface_widened(b, subject)
    BY DEF Fires
  <2>3. QED
    BY <2>1, <2>2
<1>4. ~version_is_incompatible(b, subject)
  <2>1. ~Fires("version", b, subject)
    BY <1>1
  <2>2. Fires("version", b, subject) = version_is_incompatible(b, subject)
    BY DEF Fires
  <2>3. QED
    BY <2>1, <2>2
<1>5. /\ subject["source"] = b["source"] /\ subject["capabilities"] \subseteq b["capabilities"]
      /\ subject["protocol"] = b["protocol"]
  BY <1>3, <1>4 DEF authority_surface_widened, version_is_incompatible
<1>6. ~Older(subject["version"], b["version"])
  <2>1. CASE b["version"] = None
    <3>1. Len(b["version"]) # 3
      BY <2>1 DEF None
    <3>2. QED
      BY <3>1 DEF Older
  <2>2. CASE b["version"] # None
    <3>1. versions_are_compatible(b["version"], subject["version"])
      BY <1>4, <2>2 DEF version_is_incompatible
    <3>2. QED
      BY <3>1, CompatibleIsNotOlder
  <2>3. QED
    BY <2>1, <2>2
<1>7. kind \in AllKinds
  BY TrustConstants
<1>8. /\ \A f \in KnownBy(kind) : subject[f] = b[f]
      /\ kind # "workspace" => \E f \in KnownBy(kind) : subject[f] # None
      /\ kind \in {"account", "repository"} => subject["resource"] # None
      /\ kind = "workspace" => row.scope = here
  <2>1. CASE kind = "agent"
    <3>1. KnownBy(kind) = {"executable"} /\ b["executable"] # None
      BY <2>1 DEF KnownBy, require_evidence
    <3>2. QED
      BY <1>2, <2>1, <3>1
  <2>2. CASE kind = "server"
    <3>1. /\ KnownBy(kind) = {"executable", "host"}
          /\ b["executable"] # None \/ b["host"] # None
      BY <2>2 DEF KnownBy, require_evidence
    <3>2. QED
      BY <1>2, <2>2, <3>1
  <2>3. CASE kind = "schema"
    <3>1. KnownBy(kind) = {"fingerprint"} /\ b["fingerprint"] # None
      BY <2>3 DEF KnownBy, require_evidence
    <3>2. QED
      BY <1>2, <2>3, <3>1
  <2>4. CASE kind = "recipe"
    <3>1. KnownBy(kind) = {"content"} /\ b["content"] # None
      BY <2>4 DEF KnownBy, require_evidence
    <3>2. QED
      BY <1>2, <2>4, <3>1
  <2>5. CASE kind \in {"account", "repository"}
    <3>1. KnownBy(kind) = {"host", "resource"} /\ b["resource"] # None
      BY <2>5 DEF KnownBy, require_evidence
    <3>2. QED
      BY <1>2, <2>5, <3>1
  <2>6. CASE kind = "workspace"
    <3>1. KnownBy(kind) = {} /\ row.scope # Nowhere
      BY <2>6 DEF KnownBy, require_evidence
    <3>2. QED
      BY <1>1, <2>6, <3>1
  <2>7. QED
    BY <1>7, <2>1, <2>2, <2>3, <2>4, <2>5, <2>6 DEF AllKinds
<1>9. QED
  BY <1>1, <1>5, <1>6, <1>8 DEF IsAsShown

-----------------------------------------------------------------------------
\* Writing rows

\* What an update or an insert leaves.
Rewritten(i, w) == [grants EXCEPT ![i].json = w]
NewRow(w) == [kind |-> kind, json |-> w, recorded |-> wall]

\* The latest row stays the latest when its record is replaced.
LEMMA UpdateKeeps ==
    ASSUME TrustTypeOK, Kept, Dated, grants # <<>>, NEW w \in Wire, Stored(kind, w),
           grants' = Rewritten(latest_for_subject(grants), w), UNCHANGED <<kind, subject, wall, stepped>>
    PROVE  /\ grants' \in Seq(RowType) /\ Kept' /\ Dated' /\ grants' # <<>>
           /\ latest_for_subject(grants') = latest_for_subject(grants)
           /\ grants'[latest_for_subject(grants')].json = w
<1> DEFINE i == latest_for_subject(grants)
           s == grants'
<1>1. i \in DOMAIN grants /\ IsLatest(grants, i) /\ grants[i] \in RowType
  BY LatestLoads
<1>2. grants \in Seq(RowType)
  BY DEF TrustTypeOK
<1> DEFINE g == [grants[i] EXCEPT !.json = w]
<1>3. g \in RowType /\ g.json = w /\ g.kind = grants[i].kind /\ g.recorded = grants[i].recorded
  BY <1>1 DEF RowType
<1>4. s = [grants EXCEPT ![i] = g]
  BY DEF Rewritten
<1> HIDE DEF g, i, s
<1>5. /\ s \in Seq(RowType) /\ DOMAIN s = DOMAIN grants /\ Len(s) = Len(grants) /\ s # <<>>
      /\ s[i].json = w
      /\ \A j \in DOMAIN grants : /\ s[j].recorded = grants[j].recorded
                                  /\ s[j].kind = grants[j].kind
                                  /\ s[j].json \in {w, grants[j].json}
  <2>1. s \in Seq(RowType) /\ DOMAIN s = DOMAIN grants /\ Len(s) = Len(grants)
    BY <1>1, <1>2, <1>3, <1>4
  <2>2. s[i] = g /\ \A j \in DOMAIN grants : j # i => s[j] = grants[j]
    BY <1>1, <1>2, <1>4
  <2>3. s # <<>>
    BY <1>1, <1>2, <2>1
  <2>4. QED
    BY <1>1, <1>3, <2>1, <2>2, <2>3
<1>6. \A j : IsLatest(grants, j) => IsLatest(s, j)
  BY <1>5 DEF IsLatest
<1>7. latest_for_subject(s) = i
  BY <1>1, <1>5, <1>6, LatestIs
<1>8. \A j \in DOMAIN s : s[j].kind = kind /\ Stored(kind, s[j].json)
  BY <1>5 DEF Kept
<1>9. Kept'
  BY <1>8 DEF Kept, s
<1>10. Dated'
  <2>1. \E j \in DOMAIN s : IsLatest(s, j)
    BY <1>1, <1>5, <1>6
  <2>2. ~stepped => /\ \A j \in DOMAIN s : s[j].recorded <= wall
                    /\ IsLatest(s, Len(s))
    BY <1>5, <1>6 DEF Dated
  <2>3. QED
    BY <2>1, <2>2 DEF Dated, s
<1>11. QED
  BY <1>5, <1>7, <1>9, <1>10 DEF i, s

\* A new row is the latest while the clock runs forward.
LEMMA InsertKeeps ==
    ASSUME TrustTypeOK, Kept, Dated, NEW w \in Wire, Stored(kind, w),
           grants' = Append(grants, NewRow(w)), UNCHANGED <<kind, subject, wall, stepped>>
    PROVE  /\ grants' \in Seq(RowType) /\ Kept' /\ Dated' /\ grants' # <<>>
           /\ ~stepped => grants'[latest_for_subject(grants')].json = w
<1> DEFINE s == grants'
           n == Len(grants) + 1
<1>1. NewRow(w) \in RowType /\ NewRow(w).kind = kind /\ NewRow(w).json = w
      /\ NewRow(w).recorded = wall /\ wall \in Nat
  BY DEF TrustTypeOK, RowType, NewRow
<1>2. grants \in Seq(RowType) /\ \A j \in DOMAIN grants : grants[j].recorded \in Nat
  <2>1. grants \in Seq(RowType)
    BY DEF TrustTypeOK
  <2>2. \A j \in DOMAIN grants : grants[j] \in RowType
    BY <2>1
  <2>3. QED
    BY <2>1, <2>2 DEF RowType
<1>3. /\ s \in Seq(RowType) /\ Len(s) = n /\ n \in DOMAIN s /\ s[n] = NewRow(w) /\ s # <<>>
      /\ n \in Nat /\ DOMAIN grants = 1 .. (n - 1) /\ DOMAIN s = 1 .. n
      /\ \A j \in DOMAIN grants : s[j] = grants[j]
  BY <1>1, <1>2
<1>4. grants = <<>> <=> n = 1
  BY <1>2
<1> HIDE DEF s, n
<1>5. (\A j \in DOMAIN grants : grants[j].recorded <= wall) => IsLatest(s, n)
  BY <1>1, <1>2, <1>3 DEF IsLatest
<1>6. \E j \in DOMAIN s : IsLatest(s, j)
  <2>1. CASE grants = <<>>
    BY <1>3, <1>4, <1>5, <2>1
  <2>2. CASE grants # <<>>
    <3>1. PICK i \in DOMAIN grants : IsLatest(grants, i)
      BY <2>2 DEF Dated
    <3>2. CASE grants[i].recorded <= wall
      <4>1. \A j \in DOMAIN grants : grants[j].recorded <= wall
        BY <1>1, <1>2, <3>1, <3>2 DEF IsLatest
      <4>2. QED
        BY <1>3, <1>5, <4>1
    <3>3. CASE grants[i].recorded > wall
      <4>1. IsLatest(s, i)
        BY <1>1, <1>2, <1>3, <3>1, <3>3 DEF IsLatest
      <4>2. QED
        BY <1>3, <3>1, <4>1
    <3>4. QED
      BY <1>1, <1>2, <3>1, <3>2, <3>3
  <2>3. QED
    BY <2>1, <2>2
<1>7. ~stepped => /\ \A j \in DOMAIN s : s[j].recorded <= wall
                  /\ IsLatest(s, n)
  BY <1>1, <1>3, <1>5 DEF Dated
<1>8. ~stepped => latest_for_subject(s) = n
  BY <1>3, <1>7, LatestIs
<1>9. \A j \in DOMAIN s : s[j].kind = kind /\ Stored(kind, s[j].json)
  BY <1>1, <1>3 DEF Kept
<1>10. Kept'
  BY <1>9 DEF Kept, s
<1>11. Dated'
  BY <1>3, <1>6, <1>7 DEF Dated, s
<1>12. QED
  BY <1>1, <1>3, <1>8, <1>10, <1>11 DEF s

\* A record of the subject loads from what it is stored as.
LEMMA WireIsStored ==
    ASSUME NEW r \in Record, r.kind = kind, require_evidence(kind, r.basis, r.scope),
           r.state = "invalidated" <=> r.reason # NoReason, Numbered(r.basis["version"])
    PROVE  /\ to_wire(r) \in Wire /\ Stored(kind, to_wire(r))
           /\ to_wire(r).identity = r.basis /\ to_wire(r).workspace = r.scope
           /\ to_wire(r).state = r.state
<1> DEFINE w == to_wire(r)
<1>1. /\ w \in Wire /\ w.kind = r.kind /\ w.identity = r.basis /\ w.state = r.state
      /\ w.reason = r.reason /\ w.workspace = r.scope
      /\ w.scope = "global" <=> w.workspace = Nowhere
  BY DEF to_wire, Record, Wire
<1> HIDE DEF w
<1>2. Stored(kind, w)
  BY <1>1 DEF Stored
<1>3. QED
  BY <1>1, <1>2 DEF w

\* The latest record is one of the subject.
LEMMA LatestIsRecord ==
    ASSUME TrustTypeOK, Kept, Dated, Latest # None
    PROVE  LET i == latest_for_subject(grants)
               r == Latest[1]
           IN  /\ grants # <<>> /\ r \in Record /\ r.kind = kind
               /\ require_evidence(kind, r.basis, r.scope) /\ Numbered(r.basis["version"])
               /\ r.basis = grants[i].json.identity /\ r.scope = grants[i].json.workspace
               /\ r.state = grants[i].json.state
<1> DEFINE i == latest_for_subject(grants)
           w == grants[i].json
<1>1. grants # <<>>
  BY DEF Latest
<1>2. w \in Wire /\ Stored(kind, w) /\ Latest[1] = Meant(w)
  BY <1>1, LatestLoads
<1> HIDE DEF w
<1>3. Meant(w) \in Record
  BY <1>2 DEF Meant, Record, Wire
<1>4. QED
  BY <1>1, <1>2, <1>3 DEF Meant, Stored, w

-----------------------------------------------------------------------------
\* Steps

\* What the user is granted or refused is what the latest row says.
LEMMA DecisionSteps ==
    ASSUME TrustInv,
           \/ \E scope \in {here, Nowhere} : trust_again(scope) \/ trust_anew(scope)
           \/ revoke_trust
           \/ delete_for_subject
    PROVE  TrustInv'
<1> USE DEF TrustInv
<1> DEFINE i == latest_for_subject(grants)
<1>0. here \in Ground /\ Nowhere \in Ground /\ subject \in Basis /\ wall \in Nat /\ here \in Roots
      /\ None \in {None} \cup {<<b>> : b \in Basis} /\ kind \in Kinds
      /\ <<subject>> \in {None} \cup {<<b>> : b \in Basis}
      /\ Numbered(subject["version"]) /\ grants \in Seq(RowType)
  BY DEF TrustTypeOK, Ground, Kept
<1>1. ASSUME NEW scope \in {here, Nowhere}, trust_again(scope)
      PROVE  TrustInv'
  <2> DEFINE r == regranted(Latest[1], subject, wall)
             w == to_wire(r)
             l == Latest[1]
  <2>1. /\ Latest # None /\ l.scope = scope /\ require_evidence(kind, subject, scope)
        /\ UNCHANGED <<kind, subject, here, wall, stepped, uses, drifts>>
        /\ decisions' = decisions + 1
        /\ last' = [what |-> "trust", row |-> i, shown |-> <<subject>>, scope |-> scope]
        /\ grants' = Rewritten(i, w)
    BY <1>1 DEF trust_again, Regrants, Decides, update, Rewritten
  <2>2. l \in Record /\ l.kind = kind /\ grants # <<>>
    BY <2>1, LatestIsRecord
  <2>3. r \in Record /\ r.kind = kind /\ r.basis = subject /\ r.scope = scope
        /\ r.state = "trusted" /\ r.reason = NoReason
    <3> HIDE DEF l
    <3>1. r = [l EXCEPT !.state = "trusted", !.basis = subject, !.reason = NoReason,
                        !.granted = wall]
      BY DEF regranted, l
    <3> HIDE DEF r
    <3>2. QED
      BY <1>0, <2>1, <2>2, <3>1 DEF Record, State, Reason
  <2> HIDE DEF r, l
  <2>4. w \in Wire /\ Stored(kind, w) /\ w.identity = subject /\ w.workspace = scope
    BY <1>0, <2>1, <2>3, WireIsStored
  <2> HIDE DEF w
  <2>5. /\ grants' \in Seq(RowType) /\ Kept' /\ Dated' /\ grants' # <<>>
        /\ latest_for_subject(grants') = i /\ grants'[latest_for_subject(grants')].json = w
    BY <2>1, <2>2, <2>4, UpdateKeeps
  <2>6. i \in Nat
    BY <1>0, <2>2, LatestLoads
  <2>7. TrustTypeOK'
    BY <1>0, <2>1, <2>5, <2>6 DEF TrustTypeOK, Decision
  <2>8. Obeyed'
    BY <2>1, <2>4, <2>5 DEF Obeyed, None
  <2>9. QED
    BY <2>5, <2>7, <2>8
<1>2. ASSUME NEW scope \in {here, Nowhere}, trust_anew(scope)
      PROVE  TrustInv'
  <2> DEFINE r == grant(subject, scope, wall)
             w == to_wire(r)
  <2>1. r \in Record /\ r.kind = kind /\ r.basis = subject /\ r.scope = scope
        /\ r.state = "trusted" /\ r.reason = NoReason
    BY <1>0 DEF grant, Record, State, Reason
  <2> HIDE DEF r
  <2>2. /\ require_evidence(kind, subject, scope)
        /\ UNCHANGED <<kind, subject, here, wall, stepped, uses, drifts>>
        /\ decisions' = decisions + 1
        /\ last' = [what |-> "trust", row |-> Len(grants) + 1, shown |-> <<subject>>,
                    scope |-> scope]
        /\ grants' = Append(grants, Row(r, wall))
    BY <1>2 DEF trust_anew, Decides, insert, r
  <2>3. Row(r, wall) = NewRow(w)
    BY <2>1 DEF Row, NewRow
  <2>4. w \in Wire /\ Stored(kind, w) /\ w.identity = subject /\ w.workspace = scope
    BY <1>0, <2>1, <2>2, WireIsStored
  <2> HIDE DEF w
  <2>5. /\ grants' \in Seq(RowType) /\ Kept' /\ Dated' /\ grants' # <<>>
        /\ ~stepped => grants'[latest_for_subject(grants')].json = w
    BY <2>2, <2>3, <2>4, InsertKeeps
  <2>6. Len(grants) + 1 \in Nat
    BY <1>0
  <2>7. TrustTypeOK'
    BY <1>0, <2>2, <2>5, <2>6 DEF TrustTypeOK, Decision
  <2>8. Obeyed'
    BY <2>2, <2>4, <2>5 DEF Obeyed, None
  <2>9. QED
    BY <2>5, <2>7, <2>8
<1>3. ASSUME revoke_trust
      PROVE  TrustInv'
  <2> DEFINE r == revoked(Latest[1])
             w == to_wire(r)
             l == Latest[1]
             Ends == Latest # None /\ can_become(Latest[1].state, "revoked")
  <2>1. /\ UNCHANGED <<kind, subject, here, wall, stepped, uses, drifts>>
        /\ decisions' = decisions + 1
        /\ last' = [what |-> "revoke", row |-> 0, shown |-> None, scope |-> Nowhere]
        /\ grants' = IF Ends THEN Rewritten(i, w) ELSE grants
        /\ grants # <<>> => Latest # None
    BY <1>3 DEF revoke_trust, Decides, update, Rewritten, Readable
  <2>2. /\ grants' \in Seq(RowType) /\ Kept' /\ Dated'
        /\ grants' = <<>> \/ grants'[latest_for_subject(grants')].json.state = "revoked"
    <3>1. CASE Ends
      <4>1. /\ l \in Record /\ l.kind = kind /\ grants # <<>>
            /\ require_evidence(kind, l.basis, l.scope) /\ Numbered(l.basis["version"])
        BY <3>1, LatestIsRecord
      <4>2. r \in Record /\ r.kind = kind /\ r.basis = l.basis /\ r.scope = l.scope
            /\ r.state = "revoked" /\ r.reason = NoReason
        <5> HIDE DEF l
        <5>1. r = [l EXCEPT !.state = "revoked", !.reason = NoReason]
          BY DEF revoked, l
        <5> HIDE DEF r
        <5>2. QED
          BY <4>1, <5>1 DEF Record, State, Reason
      <4> HIDE DEF r, l
      <4>3. w \in Wire /\ Stored(kind, w) /\ w.state = "revoked"
        BY <4>1, <4>2, WireIsStored
      <4> HIDE DEF w
      <4>4. /\ grants' \in Seq(RowType) /\ Kept' /\ Dated' /\ grants' # <<>>
            /\ grants'[latest_for_subject(grants')].json = w
        BY <2>1, <3>1, <4>1, <4>3, UpdateKeeps
      <4>5. QED
        BY <4>3, <4>4
    <3>2. CASE ~Ends
      <4>1. grants' = grants
        BY <2>1, <3>2
      <4>2. Kept' /\ Dated' /\ grants' \in Seq(RowType)
        BY <1>0, <2>1, <4>1 DEF Kept, Dated
      <4>3. CASE grants # <<>>
        <5>1. l \in Record /\ l.state = grants[i].json.state /\ Latest # None
          BY <2>1, <4>3, LatestIsRecord
        <5>2. l.state = "revoked"
          BY <3>2, <5>1 DEF can_become, TRUST_TRANSITIONS, Record, State
        <5>3. QED
          BY <4>1, <4>2, <5>1, <5>2
      <4>4. QED
        BY <4>1, <4>2, <4>3
    <3>3. QED
      BY <3>1, <3>2
  <2> HIDE DEF r, w, l, Ends
  <2>3. TrustTypeOK'
    BY <1>0, <2>1, <2>2 DEF TrustTypeOK, Decision
  <2>4. Obeyed'
    BY <2>1, <2>2 DEF Obeyed
  <2>5. QED
    BY <2>2, <2>3, <2>4
<1>4. ASSUME delete_for_subject
      PROVE  TrustInv'
  <2>1. /\ UNCHANGED <<kind, subject, here, wall, stepped, uses, drifts>>
        /\ decisions' = decisions + 1
        /\ last' = [what |-> "forget", row |-> 0, shown |-> None, scope |-> Nowhere]
        /\ grants' = <<>>
    BY <1>4 DEF delete_for_subject, Decides
  <2>2. grants' \in Seq(RowType) /\ DOMAIN grants' = {}
    BY <2>1
  <2>3. TrustTypeOK'
    BY <1>0, <2>1, <2>2 DEF TrustTypeOK, Decision
  <2>4. Kept' /\ Dated'
    BY <2>1, <2>2 DEF Kept, Dated
  <2>5. Obeyed'
    BY <2>1 DEF Obeyed
  <2>6. QED
    BY <2>3, <2>4, <2>5
<1>5. QED
  BY <1>1, <1>2, <1>3, <1>4

\* A record that is taken out of force is still the one the user affirmed, and
\* one that was withdrawn is not touched.
LEMMA InvalidateKeeps ==
    ASSUME TrustInv, invalidate
    PROVE  TrustInv'
<1> USE DEF TrustInv
<1> DEFINE i == latest_for_subject(grants)
           l == Latest[1]
           ruling == check(l, subject, here)
           r == invalidated(l, ruling)
           w == to_wire(r)
<1>1. /\ Latest # None /\ ruling \notin {"valid", "not_trusted"} /\ grants' = Rewritten(i, w)
      /\ UNCHANGED <<kind, subject, here, wall, stepped, last, uses, drifts, decisions>>
  BY DEF invalidate, update, Rewritten
<1>2. /\ l \in Record /\ l.kind = kind /\ grants # <<>>
      /\ require_evidence(kind, l.basis, l.scope) /\ Numbered(l.basis["version"])
      /\ l.basis = grants[i].json.identity /\ l.scope = grants[i].json.workspace
      /\ l.state = grants[i].json.state
  BY <1>1, LatestIsRecord
<1>3. ruling \in Reason /\ ruling # NoReason /\ l.state = "trusted"
  <2> HIDE DEF l
  <2>1. /\ ruling \in Reason \cup {"valid", "not_trusted"} /\ ruling # NoReason
        /\ ruling # "not_trusted" => l.state = "trusted"
    BY Checked
  <2> HIDE DEF ruling
  <2>2. QED
    BY <1>1, <2>1
<1> HIDE DEF ruling
<1>4. r \in Record /\ r.kind = kind /\ r.basis = l.basis /\ r.scope = l.scope
      /\ r.state = "invalidated" /\ r.reason # NoReason
  <2> HIDE DEF l
  <2>1. r = [l EXCEPT !.state = "invalidated", !.reason = ruling]
    BY DEF invalidated
  <2> HIDE DEF r
  <2>2. QED
    BY <1>2, <1>3, <2>1 DEF Record, State
<1> HIDE DEF r, l
<1>5. w \in Wire /\ Stored(kind, w) /\ w.identity = l.basis /\ w.workspace = l.scope
  BY <1>2, <1>4, WireIsStored
<1> HIDE DEF w
<1>6. /\ grants' \in Seq(RowType) /\ Kept' /\ Dated' /\ grants' # <<>>
      /\ latest_for_subject(grants') = i /\ grants'[latest_for_subject(grants')].json = w
  BY <1>1, <1>2, <1>5, UpdateKeeps
<1>7. TrustTypeOK'
  BY <1>1, <1>6 DEF TrustTypeOK
<1>8. Obeyed'
  <2>1. last.what # "revoke" /\ last.what \notin {"none", "forget"}
    BY <1>2, <1>3 DEF Obeyed
  <2>2. last.what = "trust" =>
          /\ last.shown # None
          /\ ~stepped => w.identity = last.shown[1] /\ w.workspace = last.scope
    BY <1>2, <1>5 DEF Obeyed
  <2>3. QED
    BY <1>1, <1>6, <2>1, <2>2 DEF Obeyed
<1>9. QED
  BY <1>6, <1>7, <1>8

\* Every observation is of known values.
LEMMA FactIsKnown ==
    ASSUME NEW k \in Kinds, NEW f \in Facts,
           NEW v \in Values[k][f] \cup {b[f] : b \in Subjects[k]}
    PROVE  v \in FactValue
<1> DEFINE S == Values[k][f] \cup {b[f] : b \in Subjects[k]}
           T == {Values[n][g] \cup {b[g] : b \in Subjects[n]} : n \in Kinds, g \in Facts}
<1>1. S \in T
  OBVIOUS
<1>2. FactValue = UNION T
  BY DEF FactValue
<1> HIDE DEF S, T
<1>3. v \in S
  BY DEF S
<1>4. QED
  BY <1>1, <1>2, <1>3

\* The world moves on and leaves the rows alone.
LEMMA WorldSteps ==
    ASSUME TrustInv,
           use \/ (\E f \in Facts : Drift(f)) \/ Move \/ Tick \/ StepBack \/ UNCHANGED trustVars
    PROVE  TrustInv'
<1> USE DEF TrustInv
<1>1. UNCHANGED <<kind, grants, last>>
  BY DEF use, Drift, Move, Tick, StepBack, trustVars
<1>2. /\ uses' \in Nat /\ drifts' \in Nat /\ decisions' \in Nat /\ wall' \in Nat /\ here' \in Roots
      /\ stepped' \in BOOLEAN
  <2>1. /\ uses \in Nat /\ drifts \in Nat /\ decisions \in Nat /\ wall \in Nat /\ here \in Roots
        /\ stepped \in BOOLEAN
    BY DEF TrustTypeOK
  <2>2. CASE use
    BY <2>1, <2>2 DEF use
  <2>3. CASE \E f \in Facts : Drift(f)
    BY <2>1, <2>3 DEF Drift
  <2>4. CASE Move
    BY <2>1, <2>4 DEF Move
  <2>5. CASE Tick
    BY <2>1, <2>5 DEF Tick
  <2>6. CASE StepBack
    BY <2>1, <2>6 DEF StepBack
  <2>7. CASE UNCHANGED trustVars
    BY <2>1, <2>7 DEF trustVars
  <2>8. QED
    BY <2>2, <2>3, <2>4, <2>5, <2>6, <2>7
<1>3. ~stepped' => ~stepped /\ wall' >= wall
  <2>1. wall \in Nat
    BY DEF TrustTypeOK
  <2>2. CASE StepBack
    <3>1. stepped' = TRUE
      BY <2>2 DEF StepBack
    <3>2. QED
      BY <3>1
  <2>3. CASE ~StepBack
    <3>1. UNCHANGED stepped /\ wall' \in {wall, wall + 1}
      BY <2>3 DEF use, Drift, Move, Tick, trustVars
    <3>2. QED
      BY <2>1, <3>1
  <2>4. QED
    BY <2>2, <2>3
<1>4. subject' \in Basis /\ Numbered(subject'["version"])
  <2>1. CASE UNCHANGED subject
    BY <2>1 DEF TrustTypeOK, Kept
  <2>2. ASSUME NEW f \in Facts, Drift(f)
        PROVE  subject' \in Basis /\ Numbered(subject'["version"])
    <3>1. PICK v \in Values[kind][f] : subject' = [subject EXCEPT ![f] = v]
      BY <2>2 DEF Drift
    <3>2. kind \in Kinds /\ subject \in [Facts -> FactValue]
      BY DEF TrustTypeOK, Basis
    <3>3. v \in FactValue
      BY <3>2, FactIsKnown
    <3>4. subject' \in Basis
      BY <3>1, <3>2, <3>3 DEF Basis
    <3>5. CASE f = "version"
      <4>1. subject'["version"] = v
        BY <3>1, <3>2, <3>5
      <4>2. Numbered(v)
        BY <3>2, <3>5, TrustConstants DEF Numbered
      <4>3. QED
        BY <3>4, <4>1, <4>2
    <3>6. CASE f # "version"
      <4>1. subject'["version"] = subject["version"]
        BY <3>1, <3>2, <3>6 DEF Facts
      <4>2. QED
        BY <3>4, <4>1 DEF Kept
    <3>7. QED
      BY <3>5, <3>6
  <2>3. QED
    BY <2>1, <2>2 DEF use, Move, Tick, StepBack, trustVars
<1>5. TrustTypeOK'
  BY <1>1, <1>2, <1>4 DEF TrustTypeOK
<1>6. Kept'
  BY <1>1, <1>4 DEF Kept
<1>7. Dated'
  <2>1. \A j \in DOMAIN grants : grants[j].recorded \in Nat
    <3>1. \A j \in DOMAIN grants : grants[j] \in RowType
      BY DEF TrustTypeOK
    <3>2. QED
      BY <3>1 DEF RowType
  <2>2. ~stepped' => \A j \in DOMAIN grants : grants[j].recorded <= wall'
    BY <1>2, <1>3, <2>1 DEF Dated, TrustTypeOK
  <2>3. QED
    BY <1>1, <1>3, <2>2 DEF Dated
<1>8. Obeyed'
  BY <1>1, <1>3 DEF Obeyed
<1>9. QED
  BY <1>5, <1>6, <1>7, <1>8

-----------------------------------------------------------------------------
\* The theorem

\* Nothing is known of the subject yet, and nothing has been decided.
LEMMA TrustStarts ==
    ASSUME TrustInit
    PROVE  TrustInv
<1>1. kind \in Kinds /\ subject \in Subjects[kind] /\ here \in Roots /\ grants = <<>>
      /\ last = NoDecision /\ wall = 0 /\ stepped = FALSE /\ uses = 0 /\ drifts = 0
      /\ decisions = 0
  BY DEF TrustInit
<1>2. subject \in Basis
  <2>1. subject = [f \in Facts |-> subject[f]]
    BY <1>1, TrustConstants
  <2>2. \A f \in Facts : subject[f] \in FactValue
    BY <1>1, FactIsKnown
  <2>3. QED
    BY <2>1, <2>2 DEF Basis
<1>3. Numbered(subject["version"])
  BY <1>1, TrustConstants DEF Numbered
<1>4. grants \in Seq(RowType) /\ DOMAIN grants = {}
  BY <1>1
<1>5. TrustTypeOK
  BY <1>1, <1>2, <1>4 DEF TrustTypeOK, NoDecision, Decision, Ground
<1>6. Kept /\ Dated /\ Obeyed
  BY <1>1, <1>3, <1>4 DEF Kept, Dated, Obeyed, NoDecision
<1>7. QED
  BY <1>5, <1>6 DEF TrustInv

\* The invariant holds after every step, and a use is what it allows.
LEMMA TrustStep ==
    ASSUME TrustInv, [TrustNext]_trustVars
    PROVE  /\ TrustInv'
           /\ uses' # uses /\ ~stepped => last.shown # None /\ IsAsShown(last.shown[1], last.scope)
           /\ uses' # uses => last.what = "trust"
<1> DEFINE UserAction ==
             \/ \E scope \in {here, Nowhere} : trust_again(scope) \/ trust_anew(scope)
             \/ revoke_trust
             \/ delete_for_subject
           WorldAction ==
             use \/ (\E f \in Facts : Drift(f)) \/ Move \/ Tick \/ StepBack
               \/ UNCHANGED trustVars
<1>1. UserAction \/ invalidate \/ WorldAction
  BY DEF TrustNext
<1>2. UserAction => TrustInv'
  BY DecisionSteps
<1>3. invalidate => TrustInv'
  BY InvalidateKeeps
<1>4. WorldAction => TrustInv'
  BY WorldSteps
<1>5. uses' # uses => use
  <2>1. UserAction => uses' = uses
    BY DEF trust_again, trust_anew, revoke_trust, delete_for_subject
  <2>2. invalidate => uses' = uses
    BY DEF invalidate
  <2>3. WorldAction => use \/ uses' = uses
    BY DEF Drift, Move, Tick, StepBack, trustVars
  <2> HIDE DEF UserAction, WorldAction
  <2>4. QED
    BY <1>1, <2>1, <2>2, <2>3
<1>6. ASSUME use
      PROVE  /\ ~stepped => last.shown # None /\ IsAsShown(last.shown[1], last.scope)
             /\ last.what = "trust"
  <2> DEFINE i == latest_for_subject(grants)
             l == Latest[1]
  <2>1. Latest # None /\ check(l, subject, here) = "valid"
    BY <1>6 DEF use
  <2>2. /\ grants # <<>> /\ require_evidence(kind, l.basis, l.scope)
        /\ Numbered(l.basis["version"]) /\ l.state = grants[i].json.state
        /\ l.basis = grants[i].json.identity /\ l.scope = grants[i].json.workspace
    BY <2>1, LatestIsRecord DEF TrustInv
  <2> HIDE DEF l
  <2>3. l.state = "trusted"
    BY <2>1, Checked
  <2>4. last.what = "trust"
    <3>1. last.what \in {"none", "trust", "revoke", "forget"}
      BY DEF TrustInv, TrustTypeOK, Decision
    <3>2. QED
      BY <2>2, <2>3, <3>1 DEF TrustInv, Obeyed
  <2>5. ~stepped => /\ l.basis = last.shown[1] /\ l.scope = last.scope /\ last.shown # None
    BY <2>2, <2>4 DEF TrustInv, Obeyed
  <2>6. IsAsShown(l.basis, l.scope)
    BY <2>1, <2>2, ValidIsShown DEF TrustInv, TrustTypeOK, Kept
  <2>7. QED
    BY <2>4, <2>5, <2>6
<1> HIDE DEF UserAction, WorldAction
<1>7. QED
  BY <1>1, <1>2, <1>3, <1>4, <1>5, <1>6

\* Every row loads, while the clock runs forward a use is of what the user was
\* shown when they last decided, and nothing is used after a refusal, for any
\* subjects, facts, workspaces, drifts and decisions (TrustRecord::check,
\* regrant, TrustRecordWire, latest_for_subject, trust and revoke_trust).
THEOREM TrustIsKept == TrustSpec => TrustKept
<1>1. TrustInit => TrustInv
  BY TrustStarts
<1>2. TrustInv /\ [TrustNext]_trustVars => TrustInv'
  BY TrustStep
<1>3. TrustInv => RowsLoad
  <2>1. SUFFICES ASSUME TrustInv, NEW j \in DOMAIN grants
                 PROVE  decode(grants[j]) # None
    BY DEF RowsLoad
  <2>2. grants[j] \in RowType /\ grants[j].kind = kind /\ Stored(kind, grants[j].json)
    BY <2>1 DEF TrustInv, TrustTypeOK, Kept
  <2>3. QED
    BY <2>2, DecodedIs
<1>4. TrustInv /\ [TrustNext]_trustVars =>
        [uses' # uses /\ ~stepped =>
           last.shown # None /\ IsAsShown(last.shown[1], last.scope)]_trustVars
  BY TrustStep
<1>5. TrustInv /\ [TrustNext]_trustVars => [uses' # uses => last.what = "trust"]_trustVars
  BY TrustStep
<1>6. QED
  BY <1>1, <1>2, <1>3, <1>4, <1>5, PTL DEF TrustSpec, TrustKept, UsedAsShown, RefusalStands

-----------------------------------------------------------------------------
\* ApplyPatch: the inductive invariant

Reading == {"start", "bases", "base"}
Before == Reading \cup {"validated", "opened"}
Holding == {"open", "first", "second", "replace"}
Writing == {"path", "temporary"} \cup Holding
Steps == {"diff", "done"} \cup Before \cup Writing
Reports == {"none", "failed", "cancelled", "timed_out", "succeeded"}

PatchTypeOK ==
    /\ own \in [TargetFile -> Content \cup {Patched}]
    /\ strange \in [TargetFile -> Content]
    /\ leads \in [TargetFile -> {"own", "strange"}]
    /\ meddled \in Nat /\ turn \in 1 .. Len(Files)
    /\ patchStep \in Steps /\ artifact \in {"none", "staged", "kept"}
    /\ read \subseteq TargetFile /\ temp \in {"none", "own", "strange"}
    /\ result \in Reports /\ recorded \in Reports
    /\ verdict \in {"none", "cancelled", "timed_out"}
    /\ phase \in {"open", "stop", "irreversible"}
    /\ wants \subseteq {"cancelled", "timed_out"}
    /\ written \subseteq TargetFile
    /\ late \in BOOLEAN /\ disturbed \in BOOLEAN

\* What has been replaced follows from where the body is.
Progress ==
    /\ patchStep \in Before => written = {} /\ phase # "irreversible" /\ temp = "none"
    /\ patchStep \in Writing \cup {"diff"} \/ written # {} => phase = "irreversible"
    /\ patchStep \in Writing => written = {Files[i] : i \in 1 .. turn - 1}
    /\ patchStep = "diff" => written = TargetFile
    /\ patchStep \in {"validated", "opened"} => turn = 1
    /\ patchStep \in {"validated", "opened"} \cup Writing => read = TargetFile

\* What the body says of itself, and what may be recorded on the strength of it.
Honest ==
    /\ patchStep = "done" => result # "none"
    /\ patchStep = "done" /\ result \in {"cancelled", "timed_out"} => written = {}
    /\ patchStep = "done" /\ result = "succeeded" => written = TargetFile /\ artifact = "kept"
    /\ verdict # "none" => phase # "open"
    /\ recorded \in {"cancelled", "timed_out"} =>
         written = {} /\ (phase = "stop" \/ patchStep = "done")
    /\ recorded = "succeeded" => patchStep = "done" /\ written = TargetFile /\ artifact = "kept"

\* As long as nothing disturbs the batch, what was read stays so, and the
\* temporary file lies where it will be renamed.
StillSound == ~disturbed =>
    /\ \A f \in read : leads[f] = "own" /\ (f \in written \/ own[f] = Approved)
    /\ patchStep = "base" => leads[Current] = "own"
    /\ temp = IF patchStep \in Holding THEN "own" ELSE "none"

\* The last check still holds when the rename comes, or somebody was quicker.
CheckHolds == patchStep = "replace" => late \/ own[Current] = Approved

PatchInv ==
    PatchTypeOK /\ Progress /\ Honest /\ StillSound /\ CheckHolds /\ HalfOnlyIfDisturbed

-----------------------------------------------------------------------------
\* The file whose turn it is is one of the patch, and has not been replaced;
\* replacing it moves the count on by one.
LEMMA TurnIsNew ==
    ASSUME NEW t \in 1 .. Len(Files)
    PROVE  /\ Files[t] \in TargetFile
           /\ Files[t] \notin {Files[i] : i \in 1 .. t - 1}
           /\ {Files[i] : i \in 1 .. t - 1} \cup {Files[t]} = {Files[i] : i \in 1 .. t}
           /\ t = Len(Files) => {Files[i] : i \in 1 .. t} = TargetFile
<1>1. Len(Files) \in Nat
  BY PatchConstants
<1>2. Files[t] \in TargetFile
  BY DEF TargetFile
<1>3. Files[t] \notin {Files[i] : i \in 1 .. t - 1}
  BY <1>1, PatchConstants
<1>4. 1 .. t = (1 .. t - 1) \cup {t}
  BY <1>1
<1>5. QED
  BY <1>2, <1>3, <1>4 DEF TargetFile

\* PatchInv holds at the start of a call and is kept by every step of the body,
\* of the executor and of the others.
LEMMA PatchInvHolds == PatchSpec => []PatchInv
<1> USE PatchConstants
<1>0. Len(Files) \in Nat /\ Len(Files) > 0 /\ 1 \in 1 .. Len(Files)
  OBVIOUS
<1>1. PatchInit => PatchInv
  <2> SUFFICES ASSUME PatchInit PROVE PatchInv
    OBVIOUS
  <2>1. (CHOOSE c \in Content : c # Approved) \in Content
    OBVIOUS
  <2>2. PatchTypeOK
    BY <1>0, <2>1 DEF PatchInit, PatchTypeOK, Steps, Reading, Before, Holding, Writing, Reports
  <2>3. QED
    BY <2>2 DEF PatchInit, PatchInv, Progress, Honest, StillSound, CheckHolds, HalfOnlyIfDisturbed,
       Reading, Before, Holding, Writing
<1>2. PatchInv /\ [PatchNext]_patchVars => PatchInv'
  <2> SUFFICES ASSUME PatchInv, [PatchNext]_patchVars PROVE PatchInv'
    OBVIOUS
  <2> USE DEF PatchInv, PatchTypeOK, Progress, Honest, StillSound, CheckHolds,
              HalfOnlyIfDisturbed, Reading, Before, Holding, Writing, Steps, Reports, Report,
              world2, bodyVars, execVars, Stopped, StopReason
  <2>a. Current \in TargetFile
    BY TurnIsNew DEF Current
  <2>1. CASE Meddle
    <3>0. /\ meddled' = meddled + 1 /\ late' = (late \/ patchStep = "replace")
          /\ UNCHANGED <<bodyVars, phase, execVars, written>>
      BY <2>1 DEF Meddle
    <3>1. PICK f \in TargetFile :
            \/ /\ \E c \in Content : IF leads[f] = "own"
                    THEN own' = [own EXCEPT ![f] = c] /\ UNCHANGED strange
                    ELSE strange' = [strange EXCEPT ![f] = c] /\ UNCHANGED own
               /\ disturbed' = (disturbed \/ f \in read)
               /\ UNCHANGED leads
            \/ /\ leads' = [leads EXCEPT ![f] = IF @ = "own" THEN "strange" ELSE "own"]
               /\ disturbed' = (disturbed \/ f \in read \/ (patchStep = "base" /\ f = Current))
               /\ UNCHANGED <<own, strange>>
      BY <2>1 DEF Meddle
    <3>2. disturbed => disturbed'
      BY <3>1
    <3>3. Progress' /\ Honest' /\ HalfOnlyIfDisturbed' /\ CheckHolds'
      BY <3>0, <3>2 DEF Current
    <3>4. CASE leads' = leads
      <4>1. \A g \in TargetFile : g # f => own'[g] = own[g]
        BY <3>1
      <4>2. PatchTypeOK'
        <5>1. CASE leads[f] = "own"
          <6>1. PICK c \in Content : own' = [own EXCEPT ![f] = c] /\ strange' = strange
            BY <3>1, <3>4, <5>1
          <6>2. disturbed' \in BOOLEAN
            BY <3>1
          <6>3. QED
            BY <3>0, <3>4, <6>1, <6>2
        <5>2. CASE leads[f] # "own"
          <6>1. PICK c \in Content : strange' = [strange EXCEPT ![f] = c] /\ own' = own
            BY <3>1, <3>4, <5>2
          <6>2. disturbed' \in BOOLEAN
            BY <3>1
          <6>3. QED
            BY <3>0, <3>4, <6>1, <6>2
        <5>3. QED
          BY <5>1, <5>2
      <4>3. StillSound'
        BY <3>0, <3>1, <3>4, <4>1 DEF Current
      <4>4. QED
        BY <3>3, <4>2, <4>3
    <3>5. CASE leads' # leads
      <4>1. /\ leads' = [leads EXCEPT ![f] = IF @ = "own" THEN "strange" ELSE "own"]
            /\ disturbed' = (disturbed \/ f \in read \/ (patchStep = "base" /\ f = Current))
            /\ UNCHANGED <<own, strange>>
        BY <3>1, <3>5
      <4>2. PatchTypeOK'
        BY <3>0, <4>1
      <4>3. \A g \in TargetFile : g # f => leads'[g] = leads[g]
        BY <4>1
      <4>4. StillSound'
        BY <3>0, <4>1, <4>3, <2>a DEF Current
      <4>5. QED
        BY <3>3, <4>2, <4>4
    <3>6. QED
      BY <3>4, <3>5
  <2>2. CASE validate_all
    BY <2>2, <1>0 DEF validate_all, Current
  <2>b. CASE execute_patch
    BY <2>b DEF execute_patch, Current
  <2>c. CASE resolve_base
    BY <2>c DEF resolve_base, Current
  <2>d. CASE read_base
    BY <2>d, <2>a DEF read_base, Current
  <2>3. CASE open_artifact
    BY <2>3 DEF open_artifact, Current
  <2>4. CASE begin_irreversible
    <3>1. {Files[i] : i \in 1 .. 1 - 1} = {}
      OBVIOUS
    <3>2. QED
      BY <2>4, <3>1 DEF begin_irreversible, Current
  <2>5. CASE revalidate
    BY <2>5, <2>a DEF revalidate, Current
  <2>6. CASE prepare_temporary
    BY <2>6, <2>a DEF prepare_temporary, Current
  <2>e. CASE open_anchored
    BY <2>e, <2>a DEF open_anchored, GiveUp, Current
  <2>7. CASE CheckFirst
    BY <2>7, <2>a, TurnIsNew DEF CheckFirst, GiveUp, Proved, Current
  <2>8. CASE CheckSecond
    BY <2>8, <2>a, TurnIsNew DEF CheckSecond, GiveUp, Proved, Current
  <2>9. CASE replace
    <3>1. written' = {Files[i] : i \in 1 .. turn}
      BY <2>9, TurnIsNew DEF replace, Current
    <3>2. own' \in [TargetFile -> Content \cup {Patched}] /\ written' \subseteq TargetFile
      BY <2>9, <2>a DEF replace
    <3>3. \A f \in TargetFile : f \notin written' => own'[f] = own[f] /\ f \notin written
      BY <2>9, <2>a DEF replace
    <3>4. CASE turn < Len(Files)
      <4>1. turn' = turn + 1 /\ turn' \in 1 .. Len(Files) /\ 1 .. turn' - 1 = 1 .. turn
        BY <2>9, <3>4, <1>0 DEF replace
      <4>2. QED
        BY <2>9, <3>1, <3>2, <3>3, <3>4, <4>1 DEF replace
    <3>5. CASE ~(turn < Len(Files))
      <4>1. turn = Len(Files)
        BY <3>5, <1>0
      <4>2. written' = TargetFile
        BY <3>1, <4>1, TurnIsNew
      <4>3. QED
        BY <2>9, <3>2, <3>5, <4>2 DEF replace
    <3>6. QED
      BY <3>4, <3>5
  <2>10. CASE resulting_diff
    BY <2>10 DEF resulting_diff, Current
  <2>11. CASE io_failure
    BY <2>11, <2>a DEF io_failure, GiveUp, Current
  <2>12. CASE Wants
    BY <2>12 DEF Wants, Current
  <2>13. CASE request_stop
    BY <2>13 DEF request_stop, Current
  <2>14. CASE grace_ends
    BY <2>14 DEF grace_ends, Current
  <2>15. CASE body_returned
    BY <2>15 DEF body_returned, Current
  <2>16. CASE UNCHANGED patchVars
    BY <2>16 DEF patchVars, Current
  <2>17. QED
    BY <2>1, <2>2, <2>3, <2>4, <2>5, <2>6, <2>7, <2>8, <2>9, <2>10, <2>11, <2>12,
       <2>13, <2>14, <2>15, <2>16, <2>b, <2>c, <2>d, <2>e DEF PatchNext
<1>3. QED
  BY <1>1, <1>2, PTL DEF PatchSpec

-----------------------------------------------------------------------------
\* The whole promise of fs.apply_patch (fs_apply_patch.rs under execute.rs), for
\* a patch of any number of files: the terminal state the executor records is
\* true of the workspace, a batch stops half way only if a write failed or a
\* file changed after its own base was read, and no edit somebody made is overwritten unless it came after the last
\* check before a rename.
THEOREM PatchIsTrue == PatchSpec => PatchTrue
<1>1. PatchInv => RecordMatchesWorkspace /\ HalfOnlyIfDisturbed
  BY DEF PatchInv, Honest, RecordMatchesWorkspace
<1>2. PatchInv /\ [PatchNext]_patchVars =>
        [/\ meddled' = meddled => strange' = strange
         /\ \A f \in TargetFile : own'[f] # own[f] /\ meddled' = meddled =>
              own[f] = Approved \/ late]_patchVars
  <2> SUFFICES ASSUME PatchInv, PatchNext
               PROVE  /\ meddled' = meddled => strange' = strange
                      /\ \A f \in TargetFile : own'[f] # own[f] /\ meddled' = meddled =>
                           own[f] = Approved \/ late
    OBVIOUS
  <2> USE DEF world2
  <2>1. CASE Meddle
    BY <2>1 DEF Meddle, PatchInv, PatchTypeOK
  <2>2. CASE replace
    <3>1. patchStep = "replace" /\ strange' = strange /\ own' = [own EXCEPT ![Current] = Patched]
      BY <2>2 DEF replace
    <3>2. late \/ own[Current] = Approved
      BY <3>1 DEF PatchInv, CheckHolds
    <3>3. \A f \in TargetFile : own'[f] # own[f] => f = Current
      BY <3>1 DEF PatchInv, PatchTypeOK
    <3>4. QED
      BY <3>1, <3>2, <3>3
  <2>3. CASE ~Meddle /\ ~replace
    BY <2>3 DEF PatchNext, execute_patch, resolve_base, read_base, validate_all,
       open_artifact, begin_irreversible, revalidate, prepare_temporary, open_anchored, CheckFirst, CheckSecond, resulting_diff, io_failure, Wants,
       request_stop, grace_ends, body_returned
  <2>4. QED
    BY <2>1, <2>2, <2>3
<1>3. QED
  BY PatchInvHolds, <1>1, <1>2, PTL DEF PatchSpec, PatchTrue, EditsSurvive

=============================================================================
