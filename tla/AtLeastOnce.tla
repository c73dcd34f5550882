----------------------------- MODULE AtLeastOnce -----------------------------
(* What the transactional outbox promises, without leases or instances: an     *)
(* event that was accepted is sent, possibly more than once, and is settled    *)
(* only after a send that the broker confirmed.                                *)
CONSTANT Event
VARIABLE state

Phase == { "none", "accepted", "sent", "settled" }

Init == state = [e \in Event |-> "none"]

Move(e, from, to) == /\ state[e] = from
                     /\ state' = [state EXCEPT ![e] = to]

Accept(e) == Move(e, "none", "accepted")
Send(e)   == Move(e, "accepted", "sent")
Settle(e) == Move(e, "sent", "settled")

Next == \E e \in Event : Accept(e) \/ Send(e) \/ Settle(e)

Spec == Init /\ [][Next]_state

\* Nothing accepted is lost.
Fairness == \A e \in Event : WF_state(Send(e)) /\ WF_state(Settle(e))
FairSpec == Spec /\ Fairness
=============================================================================
