------------------------------ MODULE MCStream ------------------------------
(* The path of a run's events to a reader: the coordinator's delivery and    *)
(* the timeline of the front end.  A behaviour is one of one component,      *)
(* chosen at the start, so that the state space is the sum of theirs.        *)
EXTENDS EventDelivery, RunTimeline

CONSTANT u1
VARIABLE part

\* The second and third events of a run are ticks of one call.
MCTick == [u \in Run |-> {2, 3}]

streamVars == <<part, deliveryVars, timelineVars>>

Init == /\ part \in {"delivery", "timeline"}
        /\ DeliveryInit /\ (part = "delivery" \/ origin = "own")
        /\ TimelineInit

Next == \/ /\ part = "delivery" /\ DeliveryNext
           /\ UNCHANGED <<part, timelineVars>>
        \/ /\ part = "timeline" /\ TimelineNext
           /\ UNCHANGED <<part, deliveryVars>>

\* The fairness of each component, in the behaviours that are its own.
D(A) == part = "delivery" /\ A
T(A) == part = "timeline" /\ A
Fairness ==
    /\ \A p \in Publisher :
         /\ SF_deliveryVars(D(PublishBegin(p)))
         /\ WF_deliveryVars(D(PublishEvent(p) \/ PublishDone(p)))
    /\ WF_deliveryVars(D(Deregister)) /\ SF_deliveryVars(D(CloseDelivery))
    /\ \A r \in Receiver :
         /\ SF_deliveryVars(D(SubscribeTip(r))) /\ WF_deliveryVars(D(SubscribeJoins(r)))
         /\ WF_deliveryVars(D(Recv(r)))
    /\ WF_timelineVars(T(QtRuns)) /\ WF_timelineVars(T(ReadSteps))
    /\ \A q \in 1..MaxSelect : WF_timelineVars(T(ThreadSteps(q)))

Spec == Init /\ [][Next]_streamVars /\ Fairness

\* Nobody waits for ever: a receiver of a run that is over is told so, and a
\* timeline that says it is loading is answered, whatever is selected meanwhile.
StreamSettles == ReceiversSettle /\ LoadingEnds
=============================================================================
