----------------------------- MODULE PolicyGate -----------------------------
(***************************************************************************)
(* Who may run what: workspace trust, the policy engine and the grants of  *)
(* a run, as the coordinator puts them together for every tool call        *)
(* (policy.rs, trust.rs, store/workspace_trust.rs, approval/record.rs,     *)
(* approval/matcher.rs and the evaluation part of coordinator/mod.rs).     *)
(*                                                                         *)
(* A front end vouches for the workspace and starts a run; the run loads   *)
(* its repository's policy once, beside the user policy the process loaded *)
(* when it started.  Its worker proposes calls one at a time: each is      *)
(* classified, matched against the grants of the run, judged, perhaps      *)
(* asked about, and runs or does not.  Meanwhile other front ends write    *)
(* trust decisions that carry the time they were made at, and the files    *)
(* change.  Integration identities and capability grants are reserved in   *)
(* this version (no production path attaches them) and are left out: a     *)
(* tool that declares an external capability is refused.                   *)
(***************************************************************************)
EXTENDS Integers, Sequences, FiniteSetsExt

CONSTANTS
    Tools,       \* registered tools
    Descriptor,  \* [Tools -> [risk : Risks, external : Nat]]
    Inputs,      \* [paths : SUBSET Access, flags : SUBSET Flags, force : BOOLEAN]
    PolicyFiles,       \* what a policy file may hold, NoFile included
    Runs,        \* runs of one project, in this process
    GateRoots,       \* checkouts of the project that runs work in
    Fronts,      \* front ends that write trust decisions
    MaxClock,    \* bound on the clock
    MaxGateCalls,    \* bound on the calls of a run
    MaxMeddles   \* bound on the trust decisions and file edits, together

VARIABLES
    trust,    \* the project's row of workspace_trust, or NoRow
    hands,    \* the decision each front end has made and not yet written
    trustWritten,  \* history: the decisions that were written while a row existed
    clock,
    files,    \* the policy file of the user and of each checkout
    engine,   \* the user policy this process loaded
    run,      \* each run: where it works and the policy it loaded
    gateCalls,    \* each run's calls, oldest first
    meddles   \* how many decisions and edits there were

gateVars == <<trust, hands, trustWritten, clock, files, engine, run, gateCalls, meddles>>

Observe == 0
WorkspaceWrite == 1
Execute == 2
Network == 3
RemoteWrite == 4
Destructive == 5
Risks == Observe .. Destructive

Allow == 0
Ask == 1
Deny == 2

NoRules == [x \in {} |-> Allow]
NoFile == [version |-> 0, tools |-> NoRules, risks |-> NoRules, external |-> NoRules, kind |-> "missing"]
Bad == [NoFile EXCEPT !.kind = "bad"]
User == "user"
Elsewhere == "elsewhere"
NoRow == [root |-> Elsewhere, state |-> "none", at |-> 0]
NoHand == [kind |-> "none", state |-> "none", root |-> Elsewhere, at |-> 0]

Access == {"read", "write", "destroy"}
Flags == {"execute", "network", "remote", "destroy"}

ASSUME GateConstants ==
    /\ \A t \in Tools : Descriptor[t].risk \in Risks /\ Descriptor[t].external \in Nat
    /\ \A i \in Inputs : i.paths \subseteq Access /\ i.flags \subseteq Flags /\ i.force \in BOOLEAN
    /\ NoFile \in PolicyFiles /\ User \notin GateRoots
    /\ \A f \in PolicyFiles :
         /\ f = [version |-> f.version, tools |-> f.tools, risks |-> f.risks,
                 external |-> f.external, kind |-> f.kind]
         /\ \A x \in DOMAIN f.tools : f.tools[x] \in {Allow, Ask, Deny}
         /\ \A x \in DOMAIN f.risks : f.risks[x] \in {Allow, Ask, Deny}
    /\ MaxClock \in Nat /\ MaxGateCalls \in Nat /\ MaxMeddles \in Nat

-----------------------------------------------------------------------------
(* Classification of one validated invocation (trust.rs). *)

access_risk(a) == CASE a = "read" -> Observe [] a = "write" -> WorkspaceWrite
                    [] a = "destroy" -> Destructive

\* A forced push is a remote write whatever else the input says of itself.
force_pushing(i) == IF i.force THEN i.flags \union {"remote"} ELSE i.flags

flags_risk(fl) ==
    CASE "destroy" \in fl -> Destructive
      [] "destroy" \notin fl /\ "remote" \in fl -> RemoteWrite
      [] fl \cap {"destroy", "remote"} = {} /\ "network" \in fl -> Network
      [] fl = {"execute"} -> Execute
      [] fl = {} -> Observe

classify_request(t, i) ==
    Max({access_risk(a) : a \in i.paths}
          \union {Descriptor[t].risk, flags_risk(force_pushing(i))})

-----------------------------------------------------------------------------
(* Policy files (policy.rs).  A file is NoFile, Bad (unreadable, not a     *)
(* regular file, malformed, too large) or a record of its rules, partial   *)
(* functions from tools, risks and external capabilities to verdicts.      *)

MinimumVersion == 1
SchemaVersion == 2

validate(f) == f.version >= MinimumVersion /\ (f.version = 1 => DOMAIN f.external = {})

\* What reading a file yields: an old version is read as the current one.
load_optional_file(f) ==
    CASE f = NoFile -> NoFile
      [] f = Bad -> Bad
      [] OTHER -> IF f.version <= SchemaVersion /\ validate(f)
                  THEN [f EXCEPT !.version = SchemaVersion] ELSE Bad

\* A repository may not allow an external capability.
validate_repository(f) ==
    IF f \in {NoFile, Bad} THEN f
    ELSE IF \E c \in DOMAIN f.external : f.external[c] = Allow THEN Bad ELSE f

load_repository_policy(f) == validate_repository(load_optional_file(f))

\* The verdicts of the rules of one file that match a request.
Matching(f, t, risk) ==
    IF f = NoFile THEN {}
    ELSE {f.tools[x] : x \in DOMAIN f.tools \cap {t}}
           \union {f.risks[x] : x \in DOMAIN f.risks \cap {risk}}

selected(f, t, risk) == Matching(f, t, risk)

built_in(trusted, risk) ==
    CASE trusted /\ risk = Observe -> Allow
      [] trusted /\ risk # Observe -> Ask
      [] ~trusted /\ risk = Observe -> Ask
      [] ~trusted /\ risk # Observe -> Deny

fold_layer(verdict, rules) == Max({verdict} \union rules)

exact_only(risk) == risk \in {RemoteWrite, Destructive}

\* What the engine says before any grant is looked at.
Judged(user, repository, q) ==
    IF Descriptor[q.tool].external > 0 \/ q.force \/ Bad \in {user, repository} THEN Deny
    ELSE fold_layer(fold_layer(built_in(q.trusted, q.risk), selected(user, q.tool, q.risk)),
                    selected(repository, q.tool, q.risk))

evaluate(user, repository, q) ==
    LET v == Judged(user, repository, q)
        answered == \E g \in q.grants : exact_only(q.risk) => g = "exact_call"
    IN  IF v = Ask /\ answered THEN [verdict |-> Allow, once |-> FALSE]
        ELSE [verdict |-> v, once |-> v = Ask /\ exact_only(q.risk)]

-----------------------------------------------------------------------------
(* Trust (trust.rs, store/workspace_trust.rs).  A decision is made at one  *)
(* time and written at a later one.                                        *)

MeddleOnce == meddles < MaxMeddles /\ meddles' = meddles + 1

decide(f, state, root) ==
    /\ hands[f] = NoHand
    /\ hands' = [hands EXCEPT ![f] = [kind |-> "put", state |-> state, root |-> root, at |-> clock]]
    /\ MeddleOnce
    /\ UNCHANGED <<trust, trustWritten, clock, files, engine, run, gateCalls>>

decide_revoke(f) ==
    /\ hands[f] = NoHand
    /\ hands' = [hands EXCEPT ![f] = [kind |-> "revoke", state |-> "untrusted", root |-> Elsewhere, at |-> clock]]
    /\ MeddleOnce
    /\ UNCHANGED <<trust, trustWritten, clock, files, engine, run, gateCalls>>

\* The WHERE of the upsert.
Replaces(row, d) ==
    \/ row = NoRow
    \/ d.at > row.at
    \/ d.at = row.at /\ d.state = "untrusted" /\ row.state # "untrusted"

put(f) ==
    /\ hands[f] # NoHand /\ hands[f].kind = "put"
    /\ trust' = IF Replaces(trust, hands[f])
                THEN [root |-> hands[f].root, state |-> hands[f].state, at |-> hands[f].at]
                ELSE trust
    /\ trustWritten' = trustWritten \union {hands[f]}
    /\ hands' = [hands EXCEPT ![f] = NoHand]
    /\ UNCHANGED <<clock, files, engine, run, gateCalls, meddles>>

Revokes(row, at) == row # NoRow /\ row.at <= at

\* An absent row is left absent, and the revocation leaves no trace.
revoke(f) ==
    /\ hands[f] # NoHand /\ hands[f].kind = "revoke"
    /\ trust' = IF Revokes(trust, hands[f].at)
                THEN [trust EXCEPT !.state = "untrusted", !.at = hands[f].at] ELSE trust
    /\ trustWritten' = IF trust = NoRow THEN trustWritten ELSE trustWritten \union {hands[f]}
    /\ hands' = [hands EXCEPT ![f] = NoHand]
    /\ UNCHANGED <<clock, files, engine, run, gateCalls, meddles>>

\* The decision must be about this very checkout.
resolve(row, root) == row.root = root /\ row.state = "trusted"

resolve_workspace_trust(root) == trust # NoRow /\ resolve(trust, root)

GateTick == /\ clock < MaxClock
        /\ clock' = clock + 1
        /\ UNCHANGED <<trust, hands, trustWritten, files, engine, run, gateCalls, meddles>>

\* External: somebody edits, replaces or removes a policy file.
EditFile(place, f) ==
    /\ files[place] # f
    /\ files' = [files EXCEPT ![place] = f]
    /\ MeddleOnce
    /\ UNCHANGED <<trust, hands, trustWritten, clock, engine, run, gateCalls>>

-----------------------------------------------------------------------------
(* Runs and their calls (coordinator/mod.rs). *)

NotStarted == [phase |-> "none", root |-> Elsewhere, repository |-> NoFile]

\* apply_workspace_trust: a front end refuses an untrusted workspace first.
apply_workspace_trust(r, root) ==
    /\ run[r].phase = "none" /\ resolve_workspace_trust(root)
    /\ run' = [run EXCEPT ![r] = [NotStarted EXCEPT !.phase = "vouched", !.root = root]]
    /\ UNCHANGED <<trust, hands, trustWritten, clock, files, engine, gateCalls, meddles>>

for_workspace(r) ==
    /\ run[r].phase = "vouched"
    /\ run' = [run EXCEPT ![r].phase = "running",
                          ![r].repository = load_repository_policy(files[run[r].root])]
    /\ UNCHANGED <<trust, hands, trustWritten, clock, files, engine, gateCalls, meddles>>

Busy(r) == gateCalls[r] # <<>> /\ gateCalls[r][Len(gateCalls[r])].state \in {"proposed", "asked"}

\* prepare_json: the input is validated and classified; then trust is read.
prepare_json(r, t, i) ==
    /\ run[r].phase = "running" /\ ~Busy(r) /\ Len(gateCalls[r]) < MaxGateCalls
    /\ gateCalls' = [gateCalls EXCEPT ![r] = Append(@,
                   [tool |-> t, input |-> i, risk |-> classify_request(t, i),
                    trusted |-> resolve_workspace_trust(run[r].root), state |-> "proposed", verdict |-> Deny,
                    once |-> FALSE, answer |-> "none", scope |-> "none"])]
    /\ UNCHANGED <<trust, hands, trustWritten, clock, files, engine, run, meddles>>

\* Faulty: a one-call grant is matched by its input and not by its call.
MatchesByInput(k, c, g) ==
    /\ g.answer = "granted"
    /\ CASE g.scope = "exact_call" -> g.tool = c.tool /\ g.input = c.input
         [] g.scope = "tool_for_run" -> g.tool = c.tool

\* Call k of a run against a grant of the same run, raised for call j.
match_candidate(k, c, g) ==
    /\ g.answer = "granted"
    /\ CASE g.scope = "exact_call" -> g.k = k /\ g.tool = c.tool /\ g.input = c.input
         [] g.scope = "tool_for_run" -> g.tool = c.tool

\* The scopes of the run's own grants that cover its newest call.
matching_grants(r) ==
    LET k == Len(gateCalls[r])
        Grant(j) == [k |-> j, answer |-> gateCalls[r][j].answer, scope |-> gateCalls[r][j].scope,
                     tool |-> gateCalls[r][j].tool, input |-> gateCalls[r][j].input]
    IN  {gateCalls[r][j].scope : j \in {j \in 1 .. k : match_candidate(k, gateCalls[r][k], Grant(j))}}

\* The scope a request is stored with: one call above the ceiling.
ceiling(scope, risk) == IF exact_only(risk) THEN "exact_call" ELSE scope

requested_scope(c, once) == ceiling(IF once THEN "exact_call" ELSE "tool_for_run", c.risk)

\* The evaluation of a call: denied, allowed and scheduled, or asked about.
Evaluate(r) ==
    LET k == Len(gateCalls[r])
        c == gateCalls[r][k]
        d == evaluate(engine, run[r].repository,
                      [tool |-> c.tool, risk |-> c.risk, force |-> c.input.force,
                       trusted |-> c.trusted, grants |-> matching_grants(r)])
        state == CASE d.verdict = Allow -> "ran" [] d.verdict = Ask -> "asked" [] d.verdict = Deny -> "denied"
    IN  /\ Busy(r) /\ c.state = "proposed"
        /\ gateCalls' = [gateCalls EXCEPT ![r][k] =
                       [c EXCEPT !.state = state, !.verdict = d.verdict, !.once = d.once,
                                 !.answer = IF d.verdict = Ask THEN "pending" ELSE "none",
                                 !.scope = IF d.verdict = Ask THEN requested_scope(c, d.once) ELSE "none"]]
        /\ UNCHANGED <<trust, hands, trustWritten, clock, files, engine, run, meddles>>

\* The scopes an answer may carry: never wider than the request.
grantable_scopes(c) == {"exact_call", c.scope}

\* decide_approval, and resume_approval running or refusing the call.
decide_approval(r, verdict, scope) ==
    LET k == Len(gateCalls[r])
        c == gateCalls[r][k]
    IN  /\ Busy(r) /\ c.state = "asked"
        /\ verdict = "granted" => scope \in grantable_scopes(c)
        /\ gateCalls' = [gateCalls EXCEPT ![r][k] =
                       IF verdict = "granted"
                       THEN [c EXCEPT !.state = "ran", !.answer = "granted", !.scope = scope]
                       ELSE [c EXCEPT !.state = "denied", !.answer = verdict]]
        /\ UNCHANGED <<trust, hands, trustWritten, clock, files, engine, run, meddles>>

\* The process restarts: its runs are over, and the user policy is read anew.
load ==
    /\ engine' = load_optional_file(files[User])
    /\ run' = [r \in Runs |-> IF run[r].phase = "none" THEN run[r] ELSE [run[r] EXCEPT !.phase = "ended"]]
    /\ gateCalls' = [r \in Runs |->
                   IF Busy(r) THEN [gateCalls[r] EXCEPT ![Len(gateCalls[r])].state = "interrupted",
                                                    ![Len(gateCalls[r])].answer = "none"]
                   ELSE gateCalls[r]]
    /\ \E r \in Runs : run[r].phase \in {"vouched", "running"}
    /\ UNCHANGED <<trust, hands, trustWritten, clock, files, meddles>>

GateInit ==
    /\ trust = NoRow /\ trustWritten = {} /\ clock = 0 /\ meddles = 0
    /\ hands = [f \in Fronts |-> NoHand]
    /\ files \in [GateRoots \union {User} -> PolicyFiles]
    /\ engine = load_optional_file(files[User])
    /\ run = [r \in Runs |-> NotStarted]
    /\ gateCalls = [r \in Runs |-> <<>>]

GateNext ==
    \/ \E f \in Fronts :
         \/ \E s \in {"trusted", "untrusted"}, root \in GateRoots \union {Elsewhere} : decide(f, s, root)
         \/ decide_revoke(f) \/ put(f) \/ revoke(f)
    \/ GateTick
    \/ \E place \in GateRoots \union {User}, f \in PolicyFiles : EditFile(place, f)
    \/ \E r \in Runs :
         \/ \E root \in GateRoots : apply_workspace_trust(r, root)
         \/ for_workspace(r)
         \/ \E t \in Tools, i \in Inputs : prepare_json(r, t, i)
         \/ Evaluate(r)
         \/ \E v \in {"granted", "denied", "cancelled"}, s \in {"exact_call", "tool_for_run"} :
              decide_approval(r, v, s)
    \/ load

GateSpec == GateInit /\ [][GateNext]_gateVars

-----------------------------------------------------------------------------
(* Properties. *)

Ran(c) == c.state = "ran"

\* A call whose consequences reach a remote or cannot be undone ran only on an
\* answer given for that very call, and any other call the policy asks about
\* only on an answer of its own run: its own, or one that opened its tool for
\* the run.  The grant that opened the tool may have been given for a milder
\* input of it (coordinator/mod.rs, matcher.rs, policy.rs).
ConsentCovers ==
    \A r \in Runs : \A k \in 1 .. Len(gateCalls[r]) :
      LET c == gateCalls[r][k]
          asks == Judged(engine, run[r].repository,
                         [tool |-> c.tool, risk |-> c.risk, force |-> c.input.force, trusted |-> c.trusted]) = Ask
      IN  Ran(c) =>
            /\ exact_only(c.risk) => c.answer = "granted" /\ c.scope = "exact_call"
            /\ (run[r].phase = "running" /\ asks /\ c.answer # "granted") =>
                 \E j \in 1 .. k - 1 : /\ gateCalls[r][j].tool = c.tool
                                       /\ gateCalls[r][j].answer = "granted"
                                       /\ gateCalls[r][j].scope = "tool_for_run"

\* No call ran that any layer denies: neither a rule for its tool nor one for
\* its risk, in the user's file or in the repository's, says deny, whatever the
\* other rules and the grants say; it forces no push; and above observing, the
\* workspace was trusted when the call was judged (policy.rs evaluate).
DeniedNeverRuns ==
    \A r \in Runs : \A k \in 1 .. Len(gateCalls[r]) :
      LET c == gateCalls[r][k]
          Denies(f) == \/ f = Bad
                       \/ /\ f # NoFile
                          /\ \/ c.tool \in DOMAIN f.tools /\ f.tools[c.tool] = Deny
                             \/ c.risk \in DOMAIN f.risks /\ f.risks[c.risk] = Deny
      IN  Ran(c) =>
            /\ ~Denies(run[r].repository) /\ (run[r].phase = "running" => ~Denies(engine))
            /\ ~c.input.force /\ Descriptor[c.tool].external = 0
            /\ c.risk >= Descriptor[c.tool].risk
            /\ c.risk > Observe => c.trusted

\* The stored trust is what the newest decision said, in whatever order the
\* front ends got to write theirs, and of the decisions of one instant the one
\* that withdraws trust stands (store/workspace_trust.rs put and revoke).
TrustNewest ==
    trustWritten # {} =>
      /\ trust # NoRow
      /\ \A d \in trustWritten :
           /\ d.at <= trust.at
           /\ d.at = trust.at /\ d.state = "untrusted" => trust.state = "untrusted"
      /\ \E d \in trustWritten : d.at = trust.at /\ d.state = trust.state

\* The whole promise of the gate: every call that ran was consented to, none ran
\* that a layer denies, and the trust it was judged by is the newest decision.
GateKept == ConsentCovers /\ DeniedNeverRuns /\ TrustNewest
=============================================================================
