--------------------------- MODULE ConfirmPublisher ---------------------------
(* confirmPub, the confirm-mode channel every publish goes through: a mutex     *)
(* that serialises the calls, the select of publish over the returned messages, *)
(* the confirmation, the timer and the context, and the goroutine of the        *)
(* library that reads the frames of the broker in their order.                  *)
(*                                                                              *)
(* The library hands a returned message over on the channel publish listens to, *)
(* whichever call the message belongs to, and blocks while the channel is full. *)
EXTENDS Naturals, Sequences, FiniteSets

CONSTANTS Message,    \* the calls of publish, each with a message of its own
          Capacity    \* of the channel given to NotifyReturn; 1 in the code

ASSUME CapacityAssumption == Capacity \in Nat

VARIABLES call,       \* where each call of publish is, or how it ended
          at,         \* what the broker did with each message
          answered,   \* the messages the broker has confirmed or refused
          inbox,      \* frames on their way to the client
          returns,    \* returned messages waiting in the channel
          confirm,    \* the deferred confirmation of each message
          blame,      \* which returned message made which call fail
          open        \* the AMQP channel is open

vars == <<call, at, answered, inbox, returns, confirm, blame, open>>
brokerVars == <<at, answered, inbox>>

Outcome == {"ok", "returned", "nacked", "abandoned", "refused"}
Holding == {"selecting", "draining"}
CallState == {"idle", "waiting"} \union Holding \union Outcome
Place == {"unsent", "sent", "routed", "unroutable", "lost"}
Frame == [kind : {"return", "ack", "nack"}, msg : Message]

TypeOK ==
    /\ call \in [Message -> CallState]
    /\ at \in [Message -> Place]
    /\ answered \subseteq Message
    /\ inbox \in Seq(Frame)
    /\ returns \in Seq(Message)
    /\ Len(returns) <= Capacity
    /\ confirm \in [Message -> {"none", "acked", "nacked"}]
    /\ blame \subseteq Message \X Message
    /\ open \in BOOLEAN

Init ==
    /\ call = [m \in Message |-> "idle"]
    /\ at = [m \in Message |-> "unsent"]
    /\ answered = {}
    /\ inbox = <<>>
    /\ returns = <<>>
    /\ confirm = [m \in Message |-> "none"]
    /\ blame = {}
    /\ open = TRUE
-----------------------------------------------------------------------------
\* confirmPub.publish.

In(m, state) == call[m] = state
Goto(m, state) == call' = [call EXCEPT ![m] = state]

\* Mutant of Locked: publish without the mutex.
Locked_Never == FALSE

Locked == \E m \in Message : call[m] \in Holding

\* The caller waits for the mutex.
Call(m) ==
    /\ In(m, "idle")
    /\ Goto(m, "waiting")
    /\ UNCHANGED <<brokerVars, returns, confirm, blame, open>>

\* The mutex is taken and the message written to the connection.
Send(m) ==
    /\ In(m, "waiting") /\ ~Locked
    /\ open
    /\ at' = [at EXCEPT ![m] = "sent"]
    /\ Goto(m, "selecting")
    /\ UNCHANGED <<answered, inbox, returns, confirm, blame, open>>

\* The channel is closed, or the write fails; the bytes may have left.
Refuse(m) ==
    /\ In(m, "waiting") /\ ~Locked
    /\ ~open
    /\ at' \in {at, [at EXCEPT ![m] = "sent"]}
    /\ Goto(m, "refused")
    /\ UNCHANGED <<answered, inbox, returns, confirm, blame, open>>

\* A message is received from returns; a closed channel yields a zero value once
\* it is empty.
TakeReturn(m) ==
    /\ call[m] \in Holding
    /\ \/ /\ returns # <<>>
          /\ returns' = Tail(returns)
          /\ blame' = blame \union {<<m, Head(returns)>>}
       \/ /\ returns = <<>> /\ ~open
          /\ UNCHANGED <<returns, blame>>
    /\ Goto(m, "returned")
    /\ UNCHANGED <<brokerVars, confirm, open>>

\* Mutant of Done: an acknowledged publish is a success at once.
Done_NoDrain(m) ==
    /\ In(m, "selecting")
    /\ \/ confirm[m] = "acked" /\ Goto(m, "ok")
       \/ confirm[m] = "nacked" /\ Goto(m, "nacked")
    /\ UNCHANGED <<brokerVars, returns, confirm, blame, open>>

\* The confirmation is resolved.
Done(m) ==
    /\ In(m, "selecting")
    /\ \/ confirm[m] = "acked" /\ Goto(m, "draining")
       \/ confirm[m] = "nacked" /\ Goto(m, "nacked")
    /\ UNCHANGED <<brokerVars, returns, confirm, blame, open>>

\* The second select finds no returned message.
Drained(m) ==
    /\ In(m, "draining")
    /\ returns = <<>> /\ open
    /\ Goto(m, "ok")
    /\ UNCHANGED <<brokerVars, returns, confirm, blame, open>>

\* Mutant of GiveUp: a confirm that does not come is not an error.
GiveUp_Success(m) ==
    /\ In(m, "selecting")
    /\ Goto(m, "ok")
    /\ UNCHANGED <<brokerVars, returns, confirm, blame, open>>

\* The timer fires or the context of the caller is done.
GiveUp(m) ==
    /\ In(m, "selecting")
    /\ Goto(m, "abandoned")
    /\ UNCHANGED <<brokerVars, returns, confirm, blame, open>>
-----------------------------------------------------------------------------
\* The broker.

Route(m) ==
    /\ at[m] = "sent"
    /\ at' = [at EXCEPT ![m] = "routed"]
    /\ UNCHANGED <<call, answered, inbox, returns, confirm, blame, open>>

Emit(kind, m) == inbox' = Append(inbox, [kind |-> kind, msg |-> m])

\* mandatory = true: a message no queue is bound for comes back.
Bounce(m) ==
    /\ at[m] = "sent"
    /\ open
    /\ at' = [at EXCEPT ![m] = "unroutable"]
    /\ Emit("return", m)
    /\ UNCHANGED <<call, answered, returns, confirm, blame, open>>

\* The confirm of a message that was routed or returned, in any order; a broker
\* that fails internally answers with a nack.
Answer(m) ==
    /\ m \notin answered
    /\ open
    /\ answered' = answered \union {m}
    /\ \/ at[m] \in {"routed", "unroutable"} /\ Emit("ack", m) /\ UNCHANGED at
       \/ at[m] \in {"routed", "unroutable"} /\ Emit("nack", m) /\ UNCHANGED at
       \/ at[m] = "sent" /\ Emit("nack", m) /\ at' = [at EXCEPT ![m] = "lost"]
    /\ UNCHANGED <<call, returns, confirm, blame, open>>
-----------------------------------------------------------------------------
\* The connection.

\* Mutants of HasRoom: one place too many; NotifyReturn(make(chan amqp.Return)), a
\* channel without a buffer: the reader waits for a call that listens.
HasRoom_OneMore == Len(returns) <= Capacity
HasRoom_Unbuffered == Locked /\ Len(returns) < Capacity

HasRoom == Len(returns) < Capacity

\* The reader of the connection handles the next frame.
Read ==
    /\ inbox # <<>>
    /\ inbox' = Tail(inbox)
    /\ LET f == Head(inbox) IN
       \/ /\ f.kind = "return" /\ HasRoom
          /\ returns' = Append(returns, f.msg)
          /\ UNCHANGED confirm
       \/ /\ f.kind = "ack"
          /\ confirm' = [confirm EXCEPT ![f.msg] = "acked"]
          /\ UNCHANGED returns
       \/ /\ f.kind = "nack"
          /\ confirm' = [confirm EXCEPT ![f.msg] = "nacked"]
          /\ UNCHANGED returns
    /\ UNCHANGED <<call, at, answered, blame, open>>

\* The reader waits for room in returns, and every frame behind it with it:
\* confirms, deliveries, the answer to a close.
Blocked ==
    /\ inbox # <<>> /\ Head(inbox).kind = "return"
    /\ ~HasRoom

\* The channel or its connection is closed by either side: confirmations that
\* are still open are resolved as refused.
Close ==
    /\ open /\ ~Blocked
    /\ open' = FALSE
    /\ inbox' = <<>>
    /\ confirm' = [m \in Message |-> IF at[m] # "unsent" /\ confirm[m] = "none"
                                     THEN "nacked" ELSE confirm[m]]
    /\ UNCHANGED <<call, at, answered, returns, blame>>
-----------------------------------------------------------------------------
Publishing(m) ==
    \/ Call(m) \/ Send(m) \/ Refuse(m)
    \/ TakeReturn(m) \/ Done(m) \/ Drained(m) \/ GiveUp(m)

Next ==
    \/ \E m \in Message : Publishing(m) \/ Route(m) \/ Bounce(m) \/ Answer(m)
    \/ Read
    \/ Close

Spec == Init /\ [][Next]_vars

\* The mutex serves its waiters in turn (sync.Mutex does not starve them), the
\* timer fires, a ready select goes on, and the reader reads when it can.  The
\* broker owes nothing.
Fairness ==
    /\ \A m \in Message : /\ SF_vars(Send(m) \/ Refuse(m))
                          /\ WF_vars(GiveUp(m))
                          /\ WF_vars(TakeReturn(m) \/ Drained(m))
    /\ WF_vars(Read)

FairSpec == Spec /\ Fairness
-----------------------------------------------------------------------------
\* Properties.

\* Sending is safe: publish returns nil only for a message that is in a queue,
\* although the message that was returned and the confirmation arrive on two
\* channels and the select may see them in either order.
SuccessMeansRouted == \A m \in Message : In(m, "ok") => at[m] = "routed"

\* The calls that ended without taking a message from returns.
Undrained == { m \in Message : call[m] \in {"abandoned", "nacked"} }
\* The calls that ended before the return of their own message was taken.
Outstanding(m) == \/ \E i \in DOMAIN returns : returns[i] = m
                  \/ \E i \in DOMAIN inbox : inbox[i] = [kind |-> "return", msg |-> m]
Stale == { m \in Message : call[m] \in Outcome /\ Outstanding(m) }
\* The calls that failed because of somebody else's return.
Victims == { m \in Message : at[m] # "unroutable" /\ \E r \in Message : <<m, r>> \in blame }

\* A return that comes late is taken for the answer to a later publish, but it
\* costs no more than that: each publish that timed out or was refused makes at
\* most one other publish fail, and no return is counted twice.
OneVictimEach ==
    /\ Cardinality(Stale) + Cardinality(Victims) <= Cardinality(Undrained)
    /\ \A m, n, r \in Message : <<m, r>> \in blame /\ <<n, r>> \in blame => m = n

\* The reader waits for a call to take a return, and none is past the mutex, only
\* when more publishes timed out or were refused than the channel has room for.
OnlyTimeoutsBlock == Blocked /\ ~Locked => Cardinality(Undrained) > Capacity

\* The reader of the connection, which also carries the deliveries of the worker,
\* stops only when more publishes timed out than the channel has room for.
ReaderGoesOn ==
    inbox # <<>> ~> inbox = <<>> \/ Cardinality(Undrained) > Capacity

\* What the callers rely on.
Known(state) == CASE state = "idle" -> "idle"
                  [] state \in {"waiting"} \union Holding -> "pending"
                  [] state = "ok" -> "ok"
                  [] OTHER -> "failed"
Abstract == INSTANCE ConfirmedPublish
                WITH call <- [m \in Message |-> Known(call[m])],
                     arrived <- { m \in Message : at[m] = "routed" }
ImplementsConfirmedPublish == Abstract!Spec
=============================================================================
