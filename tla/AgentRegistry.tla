---------------------------- MODULE AgentRegistry ----------------------------
(***************************************************************************)
(* The registry of external agents (harkness-runtime agent_registry/): what *)
(* a user configured lives in agents.json, the grants and the observations *)
(* Harkness made live in runtime.db, and no transaction spans the two.     *)
(* Every mutation holds the exclusive lock of the file; the gates of a     *)
(* launch and of a health check read both stores without it, hash the      *)
(* executable, and take the lock only to record what they found.           *)
(*                                                                         *)
(* One agent identifier, some callers (threads and processes alike).  The  *)
(* bytes of an executable are its digest.  A call whose write fails and a  *)
(* process that dies between its writes leave the same thing behind.       *)
(***************************************************************************)
EXTENDS Naturals, Sequences, FiniteSets

CONSTANTS
    AgentCaller,      \* threads and processes that use the registry
    Command,     \* executables somebody may register
    Digest,      \* what may be in them
    Scope,       \* TrustScope: "global" or a workspace
    MaxCalls,    \* bound: calls
    MaxSwaps     \* bound: executables replaced by others

ASSUME AgentConstants ==
    /\ AgentCaller # {} /\ "nobody" \notin AgentCaller
    /\ Command # {} /\ "none" \notin Command /\ Cardinality(Digest) > 1
    /\ "global" \in Scope /\ MaxCalls \in Nat /\ MaxSwaps \in Nat

VARIABLES
    file,     \* agents.json: the registration, or NoReg
    records,  \* integration_trust_records of the agent, in recorded_at order
    obs,      \* agent_runtime_state, or NoObs
    disk,     \* the executables
    lock,     \* agents.lock: its exclusive holder, or NoOne
    call,     \* each caller's call
    mintedRecords,   \* record identifiers in use so far
    calls, swaps,
    gen,      \* (history) registrations of the identifier so far
    seen,     \* (history) what stood while each call has been running
    steady    \* (history) since the last grant the registered bytes are the granted ones

agentVars == <<file, records, obs, disk, lock, call, mintedRecords, calls, swaps, gen, seen, steady>>

NoReg == [cmd |-> "none", enabled |-> FALSE]
NoObs == [auth |-> "none", compatibility |-> "none", of |-> 0]
NoOne == "nobody"
NoRecord == [id |-> 0, state |-> "untrusted", digest |-> "none", scope |-> "global"]
Idle == [op |-> "none", at |-> "none", reg |-> NoReg, rec |-> NoRecord, digest |-> "none",
         scope |-> "global", enable |-> FALSE, of |-> 0, probe |-> "none"]

Latest(r) == IF r = <<>> THEN NoRecord ELSE r[Len(r)]
Registered == file # NoReg
Free == lock = NoOne

\* What a call may rely on having stood at some moment since it began.
Witness == seen' = [c \in AgentCaller |->
    IF call'[c].op = "none" THEN [enabled |-> FALSE, trusted |-> {}]
    ELSE [enabled |-> seen[c].enabled \/ file'.enabled,
          trusted |-> seen[c].trusted \cup
              (IF Latest(records').state = "trusted" THEN {Latest(records').digest} ELSE {})]]

AgentInit ==
    /\ file = NoReg /\ records = <<>> /\ obs = NoObs /\ lock = NoOne
    /\ disk = [cmd \in Command |-> CHOOSE d \in Digest : TRUE] /\ call = [c \in AgentCaller |-> Idle]
    /\ mintedRecords = 0 /\ calls = 0 /\ swaps = 0 /\ gen = 0 /\ steady = FALSE
    /\ seen = [c \in AgentCaller |-> [enabled |-> FALSE, trusted |-> {}]]

Keeps(c, rec) == call' = [call EXCEPT ![c] = rec]
At(c, op, at) == call[c].op = op /\ call[c].at = at
GoesTo(c, at) == Keeps(c, [call[c] EXCEPT !.at = at])
Returns(c) == Keeps(c, Idle)
OneMoreCall == calls < MaxCalls /\ calls' = calls + 1

-----------------------------------------------------------------------------
(* Operations that are one step for everybody else: the lock is held from   *)
(* the read to the write, and only one of the two stores is written.        *)

Alone(c) == call[c] = Idle /\ Free /\ OneMoreCall /\ UNCHANGED <<lock, call, disk, mintedRecords, swaps>>

\* A new registration is stored disabled, whatever the value that arrived says.
register(c) == \E cmd \in Command :
    /\ Alone(c) /\ ~Registered
    /\ file' = [cmd |-> cmd, enabled |-> FALSE] /\ gen' = gen + 1
    /\ UNCHANGED <<records, obs, steady>> /\ Witness

\* The replacement is stored disabled and the grant is left alone.
update(c) == \E cmd \in Command :
    /\ Alone(c) /\ Registered /\ cmd # file.cmd
    /\ file' = [cmd |-> cmd, enabled |-> FALSE]
    /\ steady' = (steady /\ disk[cmd] = Latest(records).digest)
    /\ UNCHANGED <<records, obs, gen>> /\ Witness

set_enabled(c) == \E enabled \in BOOLEAN :
    /\ Alone(c) /\ Registered /\ file.enabled # enabled
    /\ enabled => Latest(records).state = "trusted"
    /\ file' = [file EXCEPT !.enabled = enabled]
    /\ UNCHANGED <<records, obs, gen, steady>> /\ Witness

\* A person signed in, or was refused, outside Harkness.
record_authentication(c) == \E status \in {"authenticated", "failed"} :
    /\ Alone(c) /\ Registered
    /\ obs' = IF obs = NoObs THEN [auth |-> status, compatibility |-> "unknown", of |-> 0]
              ELSE [obs EXCEPT !.auth = status]
    /\ UNCHANGED <<file, records, gen, steady>> /\ Witness

-----------------------------------------------------------------------------
(* Both stores, in the order that fails closed.                             *)

\* remove: the durable state goes first, then the file.
remove_agent(c) ==
    \/ /\ call[c] = Idle /\ Free /\ OneMoreCall /\ Registered
       /\ lock' = c /\ records' = <<>> /\ obs' = NoObs /\ steady' = FALSE
       /\ Keeps(c, [Idle EXCEPT !.op = "remove", !.at = "file"])
       /\ UNCHANGED file
    \/ /\ At(c, "remove", "file")
       /\ file' \in {NoReg, file} /\ lock' = NoOne /\ Returns(c)
       /\ UNCHANGED <<calls, records, obs, steady>>
RemoveAgent(c) == remove_agent(c) /\ UNCHANGED <<disk, mintedRecords, swaps, gen>> /\ Witness

\* The last record, in another state.
Restated(state) == [records EXCEPT ![Len(records)].state = state]

\* revoke_trust: the record, then the flag; a revoked record stays as it is.
revoke_trust(c) ==
    /\ call[c] = Idle /\ Free /\ OneMoreCall /\ Registered
    /\ records' = IF records = <<>> THEN records ELSE Restated("revoked")
    /\ lock' = c /\ Keeps(c, [Idle EXCEPT !.op = "revoke", !.at = "disable"])
    /\ UNCHANGED <<file, obs, disk, mintedRecords, swaps, gen, steady>> /\ Witness

\* set_enabled_locked(false), the end of a revocation and of an invalidation.
disable(c) ==
    /\ call[c].at = "disable" /\ lock = c
    /\ file' \in {[file EXCEPT !.enabled = FALSE], file}
    /\ lock' = NoOne /\ Returns(c)
    /\ UNCHANGED <<records, obs, disk, mintedRecords, calls, swaps, gen, steady>> /\ Witness

-----------------------------------------------------------------------------
(* trust: hash without the lock, then grant what is registered now.         *)

trust(c) == \E scope \in Scope, enable \in BOOLEAN :
    /\ call[c] = Idle /\ Free /\ OneMoreCall /\ Registered
    /\ Keeps(c, [Idle EXCEPT !.op = "trust", !.at = "hash", !.reg = file,
                             !.scope = scope, !.enable = enable])
    /\ UNCHANGED <<file, records, obs, disk, mintedRecords, lock, swaps, gen, steady>> /\ Witness

\* An executable that is missing or unfit ends the call; to a health check it
\* is something to record.
Unfit(c) == IF call[c].op = "health"
    THEN Keeps(c, [call[c] EXCEPT !.probe = "failed", !.at = "record"]) ELSE Returns(c)

\* verify_executable: what is there now.
verify_executable(c) ==
    /\ call[c].at = "hash"
    /\ \/ Keeps(c, [call[c] EXCEPT !.digest = disk[call[c].reg.cmd], !.at = "hashed"])
       \/ Unfit(c)
    /\ UNCHANGED <<file, records, obs, disk, mintedRecords, lock, calls, swaps, gen, steady>> /\ Witness

lock_exclusive(c) ==
    /\ At(c, "trust", "hashed") /\ Free /\ lock' = c /\ GoesTo(c, "grant")
    /\ UNCHANGED <<file, records, obs, disk, mintedRecords, calls, swaps, gen, steady>> /\ Witness

\* Faulty: takes the lock that the caller holds.
Relocks(c) == Free
\* Reads the file with the exclusive lock already held.
registration_locked(c) == lock = c

\* An invalidated grant of the same scope is re-affirmed on its own record; any
\* other decision is a record of its own.
granted(digest, scope) ==
    IF Latest(records).state = "invalidated" /\ Latest(records).scope = scope
    THEN [records EXCEPT ![Len(records)].state = "trusted", ![Len(records)].digest = digest]
    ELSE Append(records, [id |-> mintedRecords + 1, state |-> "trusted", digest |-> digest, scope |-> scope])

grant(c) ==
    /\ At(c, "trust", "grant") /\ registration_locked(c)
    /\ \/ ~Registered /\ lock' = NoOne /\ Returns(c) /\ UNCHANGED <<records, mintedRecords, steady>>
       \/ /\ Registered
          /\ LET digest == IF file = call[c].reg THEN call[c].digest ELSE disk[file.cmd]
             IN /\ records' = granted(digest, call[c].scope)
                /\ mintedRecords' = mintedRecords + 1
                /\ steady' = (disk[file.cmd] = digest)
          /\ IF call[c].enable THEN GoesTo(c, "enable") /\ UNCHANGED lock
                               ELSE lock' = NoOne /\ Returns(c)
    /\ UNCHANGED <<file, obs, disk, calls, swaps, gen>> /\ Witness

enable(c) ==
    /\ At(c, "trust", "enable")
    /\ file' \in {[file EXCEPT !.enabled = TRUE], file} /\ lock' = NoOne /\ Returns(c)
    /\ UNCHANGED <<records, obs, disk, mintedRecords, calls, swaps, gen, steady>> /\ Witness

-----------------------------------------------------------------------------
(* admit: the gates of a launch and of a health check.                      *)

admit(c) == \E op \in {"launch", "health"}, where \in {"none"} \cup (Scope \ {"global"}) :
    /\ call[c] = Idle /\ Free /\ OneMoreCall /\ file.enabled
    /\ Keeps(c, [Idle EXCEPT !.op = op, !.at = "trusted", !.reg = file, !.scope = where, !.of = gen])
    /\ UNCHANGED <<file, records, obs, disk, mintedRecords, lock, swaps, gen, steady>> /\ Witness

latest_trust_record(c) ==
    /\ call[c].at = "trusted"
    /\ IF Latest(records).state = "trusted"
       THEN Keeps(c, [call[c] EXCEPT !.rec = Latest(records), !.at = "hash"])
       ELSE Returns(c)
    /\ UNCHANGED <<file, records, obs, disk, mintedRecords, lock, calls, swaps, gen, steady>> /\ Witness

\* TrustRecord::check: a grant used outside its workspace is out of scope and
\* keeps standing; other bytes are drift.
check(rec, digest, where) ==
    IF rec.scope \notin {"global", where} THEN "out_of_scope"
    ELSE IF rec.digest # digest THEN "drift" ELSE "valid"

admitted(c) ==
    /\ call[c].op \in {"launch", "health"} /\ call[c].at = "hashed"
    /\ CASE check(call[c].rec, call[c].digest, call[c].scope) = "valid" ->
              GoesTo(c, IF call[c].op = "launch" THEN "observe" ELSE "probe")
         [] check(call[c].rec, call[c].digest, call[c].scope) = "drift" -> GoesTo(c, "invalidate")
         [] OTHER -> Returns(c)
    /\ UNCHANGED <<file, records, obs, disk, mintedRecords, lock, calls, swaps, gen, steady>> /\ Witness

\* The record is read again under the lock; a row that is another one, or that
\* does not stand any more, is somebody's newer decision.
\* Faulty: the clone that admit read is written back.
WritesStale(c) ==
    /\ call[c].at = "invalidate" /\ Free
    /\ IF records # <<>> /\ Latest(records).id = call[c].rec.id
       THEN records' = Restated("invalidated") /\ lock' = c /\ GoesTo(c, "disable")
       ELSE Returns(c) /\ UNCHANGED <<records, lock>>
    /\ UNCHANGED <<file, obs, disk, mintedRecords, calls, swaps, gen, steady>> /\ Witness
invalidate(c) ==
    /\ call[c].at = "invalidate" /\ Free
    /\ IF Latest(records).id = call[c].rec.id /\ Latest(records).state = "trusted"
       THEN records' = Restated("invalidated") /\ lock' = c /\ GoesTo(c, "disable")
       ELSE Returns(c) /\ UNCHANGED <<records, lock>>
    /\ UNCHANGED <<file, obs, disk, mintedRecords, calls, swaps, gen, steady>> /\ Witness

\* prepare_launch: what an earlier handshake found may still refuse.
prepare_launch(c) ==
    /\ At(c, "launch", "observe")
    /\ IF obs.auth \in {"required", "failed"} \/ obs.compatibility = "unsupported"
       THEN Returns(c) ELSE GoesTo(c, "launched")
    /\ UNCHANGED <<file, records, obs, disk, mintedRecords, lock, calls, swaps, gen, steady>> /\ Witness
launched(c) ==
    /\ At(c, "launch", "launched") /\ Returns(c)
    /\ UNCHANGED <<file, records, obs, disk, mintedRecords, lock, calls, swaps, gen, steady>> /\ Witness

-----------------------------------------------------------------------------
(* The health check: one handshake without the lock, and its record with it. *)

run_health_check(c) == \E answer \in {"healthy", "auth", "unsupported", "failed"} :
    /\ At(c, "health", "probe")
    /\ Keeps(c, [call[c] EXCEPT !.probe = answer, !.at = "record"])
    /\ UNCHANGED <<file, records, obs, disk, mintedRecords, lock, calls, swaps, gen, steady>> /\ Witness

\* record_initialize and record_compatibility.
observed(o, answer) == [o EXCEPT
    !.auth = CASE answer = "auth" -> (IF @ = "authenticated" THEN @ ELSE "required")
               [] answer = "healthy" -> "not_required" [] OTHER -> @,
    !.compatibility = CASE answer \in {"auth", "healthy"} -> "compatible"
                        [] answer = "unsupported" -> "unsupported" [] OTHER -> @]

record_health(c) ==
    /\ At(c, "health", "record") /\ Free
    /\ obs' = IF ~Registered THEN obs
              ELSE [observed(IF obs = NoObs THEN [auth |-> "unknown", compatibility |-> "unknown", of |-> 0]
                             ELSE obs, call[c].probe) EXCEPT !.of = call[c].of]
    /\ Returns(c)
    /\ UNCHANGED <<file, records, disk, mintedRecords, lock, calls, swaps, gen, steady>> /\ Witness

-----------------------------------------------------------------------------
\* Somebody installs another version of an executable.
Swap == \E cmd \in Command, d \in Digest :
    /\ swaps < MaxSwaps /\ swaps' = swaps + 1
    /\ disk[cmd] # d /\ disk' = [disk EXCEPT ![cmd] = d]
    /\ steady' = (steady /\ cmd # file.cmd)
    /\ UNCHANGED <<file, records, obs, lock, call, mintedRecords, calls, gen, seen>>

Mutates(c) == register(c) \/ update(c) \/ set_enabled(c) \/ record_authentication(c)
Begins(c) == revoke_trust(c) \/ trust(c) \/ admit(c)
Continues(c) ==
    \/ disable(c) \/ verify_executable(c) \/ lock_exclusive(c) \/ grant(c) \/ enable(c)
    \/ latest_trust_record(c) \/ admitted(c) \/ invalidate(c) \/ prepare_launch(c) \/ launched(c)
    \/ run_health_check(c) \/ record_health(c)

AgentNext == Swap \/ \E c \in AgentCaller : Mutates(c) \/ Begins(c) \/ RemoveAgent(c) \/ Continues(c)

AgentSpec == AgentInit /\ [][AgentNext]_agentVars

-----------------------------------------------------------------------------
(* Properties.                                                             *)

\* No grant and no observation waits for an identifier that nobody has
\* registered (service.rs remove: "the other order would leave a grant behind
\* for an identifier the user could re-register, and the new program would
\* arrive trusted"), whatever fails and whoever else is at work.
NothingLeftBehind == ~Registered => records = <<>> /\ obs = NoObs

\* A program is run only for a grant: when the gates have been passed, the
\* digest they found is one that a standing grant carried at some moment of the
\* call, and the agent was enabled at some moment of it.  A withdrawal that was
\* recorded before the call began is therefore never overlooked.
LaunchedWasGranted == \A c \in AgentCaller : call[c].at \in {"probe", "launched"} =>
    call[c].digest \in seen[c].trusted /\ seen[c].enabled

\* A refusal is never overwritten: a revoked record stays revoked until the
\* agent is removed, whichever stale read a racing call acts on (service.rs
\* revoke_trust: "the refusal stays in the audit trail").
RevokedIsFinal == [][
    \A i \in 1 .. Len(records) : records[i].state = "revoked" /\ records' # <<>> =>
        records'[i].state = "revoked"
    ]_agentVars

\* A health check that was running while somebody signed in does not put the
\* agent back out of reach (service.rs record_health: "read, kept, and then
\* written back stale").
SignInKept == [][obs.auth = "authenticated" => obs'.auth # "required"]_agentVars

\* No call waits for a lock it holds itself, and none is left behind a caller
\* that failed between its writes: while calls run, one of them can go on
\* (config.rs lock_exclusive blocks until it has the lock).
NoneStuck == (\E c \in AgentCaller : call[c].op # "none") =>
    \E c \in AgentCaller : ENABLED (call[c].op # "none" /\ (Continues(c) \/ RemoveAgent(c)))

\* The registry keeps what people decided, through every failure between its two
\* stores and every stale read of a racing call (service.rs: the four above).
RegistryKept ==
    [](NothingLeftBehind /\ LaunchedWasGranted) /\ RevokedIsFinal /\ SignInKept

\* What service.rs invalidate says of the re-read under the lock: "another
\* caller may have re-granted trust against the very bytes this call is about
\* to complain about; writing the stale clone would silently undo their
\* decision".  A grant about the bytes that are, and have been since, at the
\* registered path is not invalidated.
NewerGrantKept == [][
    Latest(records).state = "trusted" /\ Latest(records').state = "invalidated" => ~steady
    ]_agentVars

=============================================================================
