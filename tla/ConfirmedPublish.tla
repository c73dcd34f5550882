--------------------------- MODULE ConfirmedPublish ---------------------------
(* What the callers of confirmPub.publish rely on (the dispatcher before it    *)
(* marks an event published, the worker before it acknowledges a delivery):    *)
(* every call ends; a call that succeeds has its message in a queue; a call    *)
(* that fails says nothing, the message may be there, or still arrive.         *)
EXTENDS FiniteSets

CONSTANT Message

VARIABLES call,     \* what the caller knows of each publish
          arrived   \* the messages that reached a queue

vars == <<call, arrived>>

Init == /\ call = [m \in Message |-> "idle"]
        /\ arrived = {}

Begin(m) == /\ call[m] = "idle"
            /\ call' = [call EXCEPT ![m] = "pending"]
            /\ UNCHANGED arrived

Arrive(m) == /\ call[m] # "idle"
             /\ arrived' = arrived \union {m}
             /\ UNCHANGED call

Succeed(m) == /\ call[m] = "pending"
              /\ m \in arrived
              /\ call' = [call EXCEPT ![m] = "ok"]
              /\ UNCHANGED arrived

\* A call may fail before its message is in the broker: it may arrive later.
Fail(m) == /\ call[m] = "pending"
           /\ call' = [call EXCEPT ![m] = "failed"]
           /\ UNCHANGED arrived

Next == \E m \in Message : Begin(m) \/ Arrive(m) \/ Succeed(m) \/ Fail(m)

Spec == /\ Init
        /\ [][Next]_vars
        /\ \A m \in Message : WF_vars(Succeed(m) \/ Fail(m))
=============================================================================
