-------------------------- MODULE IntegrationTrust --------------------------
(***************************************************************************)
(* Trust in an external subject (an agent's executable, an MCP server or   *)
(* one of its tool schemas, a recipe, a forge account or repository, a     *)
(* workspace), bound to the identity the user was shown: the records of    *)
(* integration/, their wire form, and the rows of store/trust_record.rs.   *)
(*                                                                         *)
(* One subject is followed.  The world changes it between one observation  *)
(* and the next; the user trusts it, withdraws that, or forgets it; every  *)
(* use observes it and asks the latest record about it.  Trusting and      *)
(* withdrawing are taken from agent_registry/service.rs, the one caller of *)
(* the records, which holds one lock across each of them (the hashing it   *)
(* does before it takes that lock is AgentRegistry's subject).  Rows carry *)
(* the time the wall clock showed when they were written, and a wall clock *)
(* may step back.  Display names and executable paths are recorded and     *)
(* never compared, and are left out, like the grammar of the text fields.  *)
(***************************************************************************)
EXTENDS Integers, Sequences, FiniteSets, FiniteSetsExt

CONSTANTS
    Kinds,         \* the kinds of subject to follow, of AllKinds
    Values,        \* [Kinds -> [Facts -> what each may be observed as]]
    Subjects,      \* [Kinds -> the observations it may start from]
    Roots,         \* workspaces the subject is observed in
    MaxDrifts,     \* bound on the changes of the subject
    MaxDecisions,  \* bound on what the user decides
    MaxUses,       \* bound on the uses
    MaxTime        \* bound on the wall clock

VARIABLES
    kind,      \* what the subject is
    subject,   \* the facts of it, as an observation would find them now
    here,      \* the workspace it is used in
    grants,    \* rows of integration_trust_records, by rowid
    wall,      \* the wall clock
    stepped,   \* history: the wall clock has stepped back
    last,      \* history: the user's last decision, its row and what they were shown
    uses,      \* how often the subject was used
    drifts, decisions

trustVars == <<kind, subject, here, grants, wall, stepped, last, uses, drifts, decisions>>

None == <<>>
Nowhere == "nowhere"

AllKinds == {"agent", "server", "schema", "recipe", "account", "repository", "workspace"}
Facts == {"executable", "host", "resource", "fingerprint", "content", "capabilities",
          "source", "protocol", "version"}

ASSUME TrustConstants ==
    /\ Kinds \subseteq AllKinds /\ Nowhere \notin Roots
    /\ \A k \in Kinds : DOMAIN Values[k] = Facts
    /\ \A k \in Kinds : \A b \in Subjects[k] :
          /\ b = [f \in Facts |-> b[f]]
          /\ b["resource"] # None => b["host"] # None
    /\ \A k \in Kinds : \A v \in Values[k]["version"] \cup {b["version"] : b \in Subjects[k]} :
          Len(v) = 3 => \A i \in 1 .. 3 : v[i] \in Nat
    /\ MaxDrifts \in Nat /\ MaxDecisions \in Nat /\ MaxUses \in Nat /\ MaxTime \in Nat

-----------------------------------------------------------------------------
(* Recognising a subject (integration/record.rs). *)

\* The evidence a record of each kind must hold.
require_evidence(k, basis, scope) ==
    CASE k = "agent" -> basis["executable"] # None
      [] k = "server" -> basis["executable"] # None \/ basis["host"] # None
      [] k = "schema" -> basis["fingerprint"] # None
      [] k = "recipe" -> basis["content"] # None
      [] k \in {"account", "repository"} -> basis["resource"] # None
      [] k = "workspace" -> scope # Nowhere

\* A version is a triple, or a name that cannot be ordered.  The caret rule
\* of semver, without pre-release tags: the first part that is not zero stays,
\* and what follows it may only grow.
versions_are_compatible(trusted, observed) ==
    \/ trusted = observed
    \/ /\ Len(trusted) = 3 /\ Len(observed) = 3
       /\ trusted[1] = observed[1]
       /\ IF trusted[1] > 0
          THEN \/ observed[2] > trusted[2]
               \/ observed[2] = trusted[2] /\ observed[3] >= trusted[3]
          ELSE /\ trusted[2] = observed[2]
               /\ IF trusted[2] > 0 THEN observed[3] >= trusted[3]
                  ELSE observed[3] = trusted[3]

version_is_incompatible(trusted, observed) ==
    \/ trusted["protocol"] # observed["protocol"]
    \/ CASE trusted["version"] = None -> observed["version"] # None
         [] trusted["version"] # None ->
              \/ observed["version"] = None
              \/ ~versions_are_compatible(trusted["version"], observed["version"])

authority_surface_widened(trusted, observed) ==
    \/ trusted["source"] # observed["source"]
    \/ ~(observed["capabilities"] \subseteq trusted["capabilities"])

Differs(fact, trusted, observed) == trusted[fact] # observed[fact]

\* The comparisons, in the order their reasons are reported in.
IDENTITY_CHECKS == <<"executable", "host", "resource", "fingerprint", "content",
                     "authority", "version">>

Fires(reason, trusted, observed) ==
    CASE reason \in {"executable", "host", "resource", "fingerprint", "content"} ->
             Differs(reason, trusted, observed)
      [] reason = "authority" -> authority_surface_widened(trusted, observed)
      [] reason = "version" -> version_is_incompatible(trusted, observed)

\* TrustRecord::check: what one record says of one observation.
check(row, observed, root) ==
    LET firing == {i \in DOMAIN IDENTITY_CHECKS : Fires(IDENTITY_CHECKS[i], row.basis, observed)}
    IN  IF row.state # "trusted" THEN "not_trusted"
        ELSE IF row.scope # Nowhere /\ row.scope # root THEN "workspace"
        ELSE IF firing # {} THEN IDENTITY_CHECKS[Min(firing)]
        ELSE "valid"

-----------------------------------------------------------------------------
(* Records and their states (integration/record.rs, state.rs). *)

NoReason == "none"

TRUST_TRANSITIONS ==
    {<<"untrusted", "trusted">>, <<"trusted", "revoked">>, <<"trusted", "invalidated">>,
     <<"invalidated", "trusted">>, <<"invalidated", "revoked">>}

can_become(from, to) == <<from, to>> \in TRUST_TRANSITIONS

grant(basis, scope, at) ==
    [kind |-> kind, basis |-> basis, scope |-> scope, state |-> "trusted",
     reason |-> NoReason, granted |-> at]

revoked(row) == [row EXCEPT !.state = "revoked", !.reason = NoReason]

invalidated(row, reason) == [row EXCEPT !.state = "invalidated", !.reason = reason]

regranted(row, basis, at) ==
    [row EXCEPT !.state = "trusted", !.basis = basis, !.reason = NoReason, !.granted = at]

\* The flat form a record is stored in, and what is rebuilt from it
\* (integration/wire.rs).  A record that does not load is None.
to_wire(row) ==
    [kind |-> row.kind, identity |-> row.basis, state |-> row.state, reason |-> row.reason,
     granted |-> row.granted, workspace |-> row.scope,
     scope |-> IF row.scope = Nowhere THEN "global" ELSE "workspace"]

from_parts(k, basis, scope, state, reason, at) ==
    IF /\ require_evidence(k, basis, scope)
       /\ state # "untrusted"
       /\ (state = "invalidated") = (reason # NoReason)
    THEN <<[kind |-> k, basis |-> basis, scope |-> scope, state |-> state,
            reason |-> reason, granted |-> at]>>
    ELSE None

try_from_wire(w) ==
    IF (w.scope = "global") = (w.workspace = Nowhere)
    THEN from_parts(w.kind, w.identity, w.workspace, w.state, w.reason, w.granted)
    ELSE None

-----------------------------------------------------------------------------
(* Rows (store/trust_record.rs). *)

Row(record, at) == [kind |-> record.kind, json |-> to_wire(record), recorded |-> at]

insert(record) == grants' = Append(grants, Row(record, wall))

update(i, record) == grants' = [grants EXCEPT ![i].json = to_wire(record)]

decode(row) ==
    LET record == try_from_wire(row.json)
    IN  IF record # None /\ record[1].kind = row.kind THEN record ELSE None

\* Faulty: of the rows of one instant, the first that was written.
FirstOfAnInstant(rows) ==
    CHOOSE i \in DOMAIN rows : \A j \in DOMAIN rows :
        \/ rows[j].recorded < rows[i].recorded
        \/ rows[j].recorded = rows[i].recorded /\ j >= i

\* The row that is latest by the time it was recorded at, then by rowid.
latest_for_subject(rows) ==
    CHOOSE i \in DOMAIN rows : \A j \in DOMAIN rows :
        \/ rows[j].recorded < rows[i].recorded
        \/ rows[j].recorded = rows[i].recorded /\ j <= i

\* The latest record; None when there is no row, or it does not load.
Latest == IF grants = <<>> THEN None ELSE decode(grants[latest_for_subject(grants)])

\* A row that does not load fails the call that reads it.
Readable == grants # <<>> => Latest # None

-----------------------------------------------------------------------------
(* What the user decides. *)

NoDecision == [what |-> "none", row |-> 0, shown |-> None, scope |-> Nowhere]

Decides(what, row, shown, scope) ==
    /\ decisions < MaxDecisions
    /\ decisions' = decisions + 1
    /\ last' = [what |-> what, row |-> row, shown |-> shown, scope |-> scope]

\* An invalidated record of the same reach is affirmed again; anything else
\* is a record of its own.
Regrants(scope) ==
    /\ Latest # None
    /\ Latest[1].state = "invalidated"
    /\ Latest[1].scope = scope

trust_again(scope) ==
    /\ Regrants(scope)
    /\ require_evidence(kind, subject, scope)
    /\ can_become(Latest[1].state, "trusted")
    /\ update(latest_for_subject(grants), regranted(Latest[1], subject, wall))
    /\ Decides("trust", latest_for_subject(grants), <<subject>>, scope)
    /\ UNCHANGED <<kind, subject, here, wall, stepped, uses, drifts>>

trust_anew(scope) ==
    /\ ~Regrants(scope)
    /\ Readable
    /\ require_evidence(kind, subject, scope)
    /\ insert(grant(subject, scope, wall))
    /\ Decides("trust", Len(grants) + 1, <<subject>>, scope)
    /\ UNCHANGED <<kind, subject, here, wall, stepped, uses, drifts>>

\* revoke_trust: idempotent, and a trusted or invalidated record ends.
revoke_trust ==
    /\ Readable
    /\ IF Latest # None /\ can_become(Latest[1].state, "revoked")
       THEN update(latest_for_subject(grants), revoked(Latest[1]))
       ELSE UNCHANGED grants
    /\ Decides("revoke", 0, None, Nowhere)
    /\ UNCHANGED <<kind, subject, here, wall, stepped, uses, drifts>>

delete_for_subject ==
    /\ grants # <<>>
    /\ grants' = <<>>
    /\ Decides("forget", 0, None, Nowhere)
    /\ UNCHANGED <<kind, subject, here, wall, stepped, uses, drifts>>

-----------------------------------------------------------------------------
(* A use observes the subject and asks the latest record about it; a       *)
(* record the subject drifted from goes out of force.                      *)

use ==
    /\ uses < MaxUses
    /\ Latest # None
    /\ check(Latest[1], subject, here) = "valid"
    /\ uses' = uses + 1
    /\ UNCHANGED <<kind, subject, here, grants, wall, stepped, last, drifts, decisions>>

invalidate ==
    /\ Latest # None
    /\ LET verdict == check(Latest[1], subject, here)
       IN  /\ verdict \notin {"valid", "not_trusted"}
           /\ can_become(Latest[1].state, "invalidated")
           /\ update(latest_for_subject(grants), invalidated(Latest[1], verdict))
    /\ UNCHANGED <<kind, subject, here, wall, stepped, last, uses, drifts, decisions>>

-----------------------------------------------------------------------------
(* The world. *)

\* A resource is on a host.
Observable(basis) == basis["resource"] # None => basis["host"] # None

Drift(fact) ==
    /\ drifts < MaxDrifts
    /\ \E v \in Values[kind][fact] :
          /\ v # subject[fact]
          /\ subject' = [subject EXCEPT ![fact] = v]
    /\ Observable(subject')
    /\ drifts' = drifts + 1
    /\ UNCHANGED <<kind, here, grants, wall, stepped, last, uses, decisions>>

Move ==
    /\ drifts < MaxDrifts
    /\ \E r \in Roots : r # here /\ here' = r
    /\ drifts' = drifts + 1
    /\ UNCHANGED <<kind, subject, grants, wall, stepped, last, uses, decisions>>

Tick ==
    /\ wall < MaxTime
    /\ wall' = wall + 1
    /\ UNCHANGED <<kind, subject, here, grants, stepped, last, uses, drifts, decisions>>

StepBack ==
    /\ wall > 0
    /\ ~stepped
    /\ wall' = wall - 1
    /\ stepped' = TRUE
    /\ UNCHANGED <<kind, subject, here, grants, last, uses, drifts, decisions>>

TrustInit ==
    /\ kind \in Kinds
    /\ subject \in Subjects[kind]
    /\ here \in Roots
    /\ grants = <<>> /\ wall = 0 /\ stepped = FALSE
    /\ last = NoDecision /\ uses = 0 /\ drifts = 0 /\ decisions = 0

TrustNext ==
    \/ \E scope \in Roots \union {Nowhere} :
          /\ scope \in {here, Nowhere}
          /\ trust_again(scope) \/ trust_anew(scope)
    \/ revoke_trust
    \/ delete_for_subject
    \/ use
    \/ invalidate
    \/ \E f \in Facts : Drift(f)
    \/ Move
    \/ Tick
    \/ StepBack

TrustSpec == TrustInit /\ [][TrustNext]_trustVars

-----------------------------------------------------------------------------
(* Properties. *)

\* What a subject of each kind is known by.
KnownBy(k) ==
    CASE k = "agent" -> {"executable"}
      [] k = "server" -> {"executable", "host"}
      [] k = "schema" -> {"fingerprint"}
      [] k = "recipe" -> {"content"}
      [] k \in {"account", "repository"} -> {"host", "resource"}
      [] k = "workspace" -> {}

Older(a, b) ==
    /\ Len(a) = 3 /\ Len(b) = 3
    /\ \/ a[1] < b[1]
       \/ a[1] = b[1] /\ a[2] < b[2]
       \/ a[1] = b[1] /\ a[2] = b[2] /\ a[3] < b[3]

\* The observation is of what the user was shown: the evidence its kind is
\* known by is there and is the same, one party configures it, it speaks the
\* same protocol, it is no older and can do no more, and it is where the user
\* said it may be.
IsAsShown(shown, scope) ==
    /\ \A f \in KnownBy(kind) \union {"source", "protocol"} : subject[f] = shown[f]
    /\ kind # "workspace" => \E f \in KnownBy(kind) : subject[f] # None
    /\ kind \in {"account", "repository"} => subject["resource"] # None
    /\ ~Older(subject["version"], shown["version"])
    /\ subject["capabilities"] \subseteq shown["capabilities"]
    /\ kind = "workspace" => scope = here
    /\ scope \in {Nowhere, here}

\* While the wall clock runs forward, every use is of what the user was shown
\* when they last decided, in the reach they decided on: however the subject
\* drifted and came back since, and however often its records were taken out
\* of force, affirmed or replaced (TrustRecord::check, require_evidence,
\* regrant, and the ORDER of trust_record.rs).
UsedAsShown ==
    [][uses' # uses /\ ~stepped =>
          last.shown # None /\ IsAsShown(last.shown[1], last.scope)]_trustVars

\* Nothing is used after the user withdrew the grant or forgot the subject,
\* until they trust it again: the clock's steps included, since a withdrawal
\* ends the very row that every use looks at (revoke_trust, latest_for_subject).
RefusalStands == [][uses' # uses => last.what = "trust"]_trustVars

\* Every row loads, as the record that was stored (TrustRecordWire, from_parts,
\* decode), so a grant is never lost to its own encoding.
RowsLoad == \A i \in DOMAIN grants : decode(grants[i]) # None

\* The whole promise of the records: they load, a use is of what was shown, and
\* a refusal stands.
TrustKept == []RowsLoad /\ UsedAsShown /\ RefusalStands
=============================================================================
