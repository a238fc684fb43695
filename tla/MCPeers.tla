------------------------------ MODULE MCPeers ------------------------------
(* The processes Harkness talks to: a JSON-RPC conversation and a supervised *)
(* child.  A behaviour is one of one of them, chosen at the start, so that    *)
(* the state space is the sum of theirs.                                      *)
EXTENDS PeerConnection, ChildProcess

VARIABLE part

\* The child writes one chunk of standard output and two of standard error.
SaidBound == [out |-> 1, err |-> 2]

peersVars == <<part, connVars, childVars>>

Init == /\ part \in {"connection", "child"}
        /\ ConnInit /\ (part = "connection" \/ "cancel" \in peer.mix)
        /\ ChildInit /\ (part = "child" \/ kind = "tool")

Next == \/ /\ part = "connection" /\ ConnNext
           /\ UNCHANGED <<part, childVars>>
        \/ /\ part = "child" /\ ChildNext
           /\ UNCHANGED <<part, connVars>>

\* The fairness of each component, in the behaviours that are its own.
P(A) == part = "connection" /\ A
C(A) == part = "child" /\ A
Fairness ==
    /\ \A t \in Thread : WF_connVars(P(CallStep(t)))
    /\ WF_connVars(P(CheckMessage)) /\ WF_connVars(P(next_peer_message))
    /\ WF_connVars(P(read_messages)) /\ WF_connVars(P(WriterTakes)) /\ WF_connVars(P(WriterWrites))
    /\ WF_connVars(P(PeerReads)) /\ WF_connVars(P(PeerAnswers))
    /\ WF_connVars(P(TearStep))
    /\ WF_childVars(C(Supervises)) /\ WF_childVars(C(Dies)) /\ WF_childVars(C(send_segment))
    /\ \A s \in Stream : WF_childVars(C(Reads(s)))

Spec == Init /\ [][Next]_peersVars /\ Fairness

\* Every call returns, of whatever thread to whatever process: a request over a
\* connection, its teardown, a supervised child (connection.rs, stdio.rs,
\* process.rs, runner.rs, backend.rs; the parts are stated in their modules).
AllReturn == CallsEnd /\ TearsEnd /\ CallReturns
=============================================================================
