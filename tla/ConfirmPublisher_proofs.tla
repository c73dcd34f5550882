------------------------ MODULE ConfirmPublisher_proofs ------------------------
(* What publish promises for any number of calls and any capacity of the        *)
(* channel of returned messages.  The argument follows the message of the call  *)
(* that holds the mutex: its return precedes its ack in the inbox (AckComesLast),*)
(* so when the ack is read the return is in the channel (AckedHasReturn), where *)
(* only the holder of the mutex can take it away (OneHolder).                   *)
(* Late returns are counted: the calls that may still make another one fail, and *)
(* those that did, are at most the calls that ended without draining (Tally).   *)
EXTENDS ConfirmPublisher, FiniteSetTheorems, TLAPS

ReturnFrame(m) == [kind |-> "return", msg |-> m]
AckFrame(m) == [kind |-> "ack", msg |-> m]
Acked(m) == confirm[m] = "acked" \/ \E i \in 1..Len(inbox) : inbox[i] = AckFrame(m)

\* The mutex: at most one call is past it.
OneHolder == \A m, n \in Message : call[m] \in Holding /\ call[n] \in Holding => m = n

\* Nothing is written before the mutex is taken.
UnsentBefore == \A m \in Message : call[m] \in {"idle", "waiting"} => at[m] = "unsent"

\* Only what was routed or returned is acknowledged.
AckedWasHandled == \A m \in Message : Acked(m) => at[m] \in {"routed", "unroutable"}

\* The return of the message at hand is on its way, or in the channel.
ReturnIsKept ==
    \A m \in Message :
        /\ call[m] \in Holding
        /\ at[m] = "unroutable"
        /\ open
        => returns # <<>> \/ \E j \in 1..Len(inbox) : inbox[j] = ReturnFrame(m)

\* In the inbox it precedes the ack.
AckComesLast ==
    \A m \in Message : \A i \in 1..Len(inbox) :
        /\ call[m] \in Holding
        /\ at[m] = "unroutable"
        /\ inbox[i] = AckFrame(m)
        => returns # <<>> \/ \E j \in 1..(i - 1) : inbox[j] = ReturnFrame(m)

\* Once the ack is read, the return is in the channel.
AckedHasReturn ==
    \A m \in Message :
        /\ call[m] \in Holding
        /\ at[m] = "unroutable"
        /\ confirm[m] = "acked"
        => returns # <<>>

\* The second select sees the return, if there is one.
Settled(m) == at[m] = "routed" \/ (at[m] = "unroutable" /\ returns # <<>>)
DrainingIsSettled == \A m \in Message : In(m, "draining") => Settled(m)

Inv == /\ TypeOK
       /\ OneHolder
       /\ UnsentBefore
       /\ AckedWasHandled
       /\ ReturnIsKept
       /\ AckComesLast
       /\ AckedHasReturn
       /\ DrainingIsSettled
       /\ SuccessMeansRouted
-----------------------------------------------------------------------------
\* Sequences of frames.

\* A frame put at the end of a sequence leaves the earlier ones where they were.
LEMMA Appended ==
    ASSUME NEW S, NEW s \in Seq(S), NEW e \in S, NEW t, t = Append(s, e)
    PROVE  /\ t \in Seq(S)
           /\ Len(s) \in Nat
           /\ Len(t) = Len(s) + 1
           /\ \A i \in 1..Len(s) : t[i] = s[i]
           /\ t[Len(s) + 1] = e
  OBVIOUS

\* Taking the first frame of a sequence moves every other one place forward.
LEMMA Advanced ==
    ASSUME NEW S, NEW s \in Seq(S), s # <<>>, NEW t, t = Tail(s)
    PROVE  /\ t \in Seq(S)
           /\ Len(s) \in Nat \ {0}
           /\ Len(t) = Len(s) - 1
           /\ \A i \in 1..Len(t) : t[i] = s[i + 1]
           /\ Head(s) = s[1]
           /\ Head(s) \in S
  OBVIOUS

\* The places a published message can be in.
LEMMA Places == /\ "unsent" \in Place /\ "sent" \in Place /\ "routed" \in Place
                /\ "unroutable" \in Place /\ "lost" \in Place
  BY DEF Place
-----------------------------------------------------------------------------
\* The initial state.
LEMMA InitInv == Init => Inv
<1> SUFFICES ASSUME Init PROVE Inv
  OBVIOUS
<1>1. TypeOK
  BY CapacityAssumption DEF Init, TypeOK, CallState, Place
<1>2. \A m \in Message : call[m] = "idle" /\ at[m] = "unsent" /\ confirm[m] = "none"
  BY DEF Init
<1>3. Len(inbox) = 0
  BY DEF Init
<1> QED
  BY <1>1, <1>2, <1>3
  DEF Inv, OneHolder, UnsentBefore, AckedWasHandled, Acked, ReturnIsKept, AckComesLast,
      AckedHasReturn, DrainingIsSettled, SuccessMeansRouted, In, Holding

\* A step of a call that leaves broker, inbox and returned messages alone.
LEMMA CallStep ==
    ASSUME Inv, NEW m \in Message, NEW s \in CallState,
           Goto(m, s),
           s \in {"idle", "waiting"} => at[m] = "unsent",
           s \in Holding => call[m] \in Holding,
           s = "draining" => Settled(m),
           s = "ok" => at[m] = "routed",
           UNCHANGED <<at, answered, inbox, confirm, open>>,
           returns' \in Seq(Message), Len(returns') <= Capacity,
           blame' \subseteq Message \X Message,
           returns' = returns \/ (call[m] \in Holding /\ s \notin Holding)
    PROVE  Inv'
<1> USE DEF Inv
<1>1. TypeOK'
  BY DEF TypeOK, Goto
<1>2. \A n \in Message : n # m => call'[n] = call[n]
  BY DEF TypeOK, Goto
<1>3. call'[m] = s
  BY DEF TypeOK, Goto
<1>4. \A n \in Message : call'[n] \in Holding => call[n] \in Holding
  BY <1>2, <1>3
<1>5. \A n \in Message : call'[n] \in Holding => returns' = returns
  BY <1>2, <1>3 DEF OneHolder
<1>6. OneHolder'
  BY <1>4 DEF OneHolder
<1>7. UnsentBefore'
  BY <1>2, <1>3 DEF UnsentBefore
<1>8. AckedWasHandled'
  BY DEF AckedWasHandled, Acked, AckFrame
<1>9. ReturnIsKept'
  BY <1>4, <1>5 DEF ReturnIsKept, ReturnFrame
<1>10. AckComesLast'
  BY <1>4, <1>5 DEF AckComesLast, ReturnFrame, AckFrame
<1>11. AckedHasReturn'
  BY <1>4, <1>5 DEF AckedHasReturn
<1>12. DrainingIsSettled'
  BY <1>2, <1>3, <1>5 DEF DrainingIsSettled, Settled, In, Holding
<1>13. SuccessMeansRouted'
  BY <1>2, <1>3 DEF SuccessMeansRouted, In
<1> QED
  BY <1>1, <1>6, <1>7, <1>8, <1>9, <1>10, <1>11, <1>12, <1>13

\* The steps of publish.
LEMMA PublishingInv == ASSUME Inv, NEW m \in Message, Publishing(m) PROVE Inv'
<1> USE DEF Inv
<1>0. /\ returns \in Seq(Message) /\ Len(returns) <= Capacity
      /\ blame \subseteq Message \X Message
      /\ Len(returns) \in Nat /\ Capacity \in Nat
  BY CapacityAssumption DEF TypeOK
<1>1. CASE Call(m)
  <2>1. at[m] = "unsent"
    BY <1>1 DEF Call, In, UnsentBefore
  <2> QED
    BY <1>0, <1>1, <2>1, CallStep DEF Call, brokerVars, CallState, Holding
<1>2. CASE Send(m)
  <2>1. /\ at[m] = "unsent" /\ call[m] = "waiting"
        /\ \A n \in Message : call[n] \notin Holding
    BY <1>2 DEF Send, In, UnsentBefore, Locked
  <2>2. ~Acked(m)
    BY <2>1 DEF AckedWasHandled
  <2>3. TypeOK'
    BY <1>2, Places DEF Send, TypeOK, Goto, CallState, Holding
  <2>4. /\ call'[m] = "selecting" /\ at'[m] = "sent"
        /\ \A n \in Message : n # m => call'[n] = call[n] /\ at'[n] = at[n]
    BY <1>2 DEF Send, TypeOK, Goto
  <2>5. UNCHANGED <<inbox, returns, confirm, open>>
    BY <1>2 DEF Send
  <2>6. \A n \in Message : call'[n] \in Holding => n = m
    BY <2>1, <2>4
  <2>7. OneHolder' /\ ReturnIsKept' /\ AckComesLast' /\ AckedHasReturn'
    BY <2>4, <2>6 DEF OneHolder, ReturnIsKept, AckComesLast, AckedHasReturn
  <2>8. UnsentBefore'
    BY <2>4 DEF UnsentBefore
  <2>9. AckedWasHandled'
    BY <2>2, <2>4, <2>5 DEF AckedWasHandled, Acked, AckFrame
  <2>10. DrainingIsSettled' /\ SuccessMeansRouted'
    BY <2>4, <2>5 DEF DrainingIsSettled, Settled, SuccessMeansRouted, In
  <2> QED
    BY <2>3, <2>7, <2>8, <2>9, <2>10
<1>3. CASE Refuse(m)
  <2>1. /\ at[m] = "unsent" /\ call[m] = "waiting" /\ ~open
        /\ \A n \in Message : call[n] \notin Holding
    BY <1>3 DEF Refuse, In, UnsentBefore, Locked
  <2>2. ~Acked(m)
    BY <2>1 DEF AckedWasHandled
  <2>3. TypeOK'
    BY <1>3, Places DEF Refuse, TypeOK, Goto, CallState, Outcome
  <2>4. /\ call'[m] = "refused"
        /\ \A n \in Message : n # m => call'[n] = call[n] /\ at'[n] = at[n]
    BY <1>3 DEF Refuse, TypeOK, Goto
  <2>5. UNCHANGED <<inbox, returns, confirm, open>>
    BY <1>3 DEF Refuse
  <2>6. \A n \in Message : call'[n] \notin Holding
    BY <2>1, <2>4 DEF Holding
  <2>7. OneHolder' /\ ReturnIsKept' /\ AckComesLast' /\ AckedHasReturn'
    BY <2>6 DEF OneHolder, ReturnIsKept, AckComesLast, AckedHasReturn
  <2>8. UnsentBefore'
    BY <2>4 DEF UnsentBefore
  <2>9. AckedWasHandled'
    BY <2>2, <2>4, <2>5 DEF AckedWasHandled, Acked, AckFrame
  <2>10. DrainingIsSettled' /\ SuccessMeansRouted'
    BY <2>4, <2>5 DEF DrainingIsSettled, Settled, SuccessMeansRouted, In
  <2> QED
    BY <2>3, <2>7, <2>8, <2>9, <2>10
<1>4. CASE TakeReturn(m)
  <2>1. /\ returns' \in Seq(Message) /\ Len(returns') <= Capacity
        /\ blame' \subseteq Message \X Message
    <3>1. CASE UNCHANGED <<returns, blame>>
      BY <1>0, <3>1
    <3>2. CASE /\ returns # <<>> /\ returns' = Tail(returns)
               /\ blame' = blame \union {<<m, Head(returns)>>}
      BY <1>0, <3>2, Advanced
    <3> QED
      BY <1>4, <3>1, <3>2 DEF TakeReturn
  <2> QED
    BY <1>4, <2>1, CallStep DEF TakeReturn, brokerVars, CallState, Outcome, Holding
<1>5. CASE Done(m)
  <2>1. CASE confirm[m] = "acked" /\ Goto(m, "draining")
    <3>1. Settled(m)
      BY <1>5, <2>1 DEF Done, In, Holding, AckedWasHandled, Acked, AckedHasReturn, Settled
    <3> QED
      BY <1>0, <1>5, <2>1, <3>1, CallStep DEF Done, In, brokerVars, CallState, Holding
  <2>2. CASE Goto(m, "nacked")
    BY <1>0, <1>5, <2>2, CallStep DEF Done, In, brokerVars, CallState, Outcome, Holding
  <2> QED
    BY <1>5, <2>1, <2>2 DEF Done
<1>6. CASE Drained(m)
  <2>1. at[m] = "routed"
    BY <1>6 DEF Drained, In, DrainingIsSettled, Settled
  <2> QED
    BY <1>0, <1>6, <2>1, CallStep DEF Drained, brokerVars, CallState, Outcome, Holding
<1>7. CASE GiveUp(m)
  BY <1>0, <1>7, CallStep DEF GiveUp, brokerVars, CallState, Outcome, Holding
<1> QED
  BY <1>1, <1>2, <1>3, <1>4, <1>5, <1>6, <1>7 DEF Publishing
-----------------------------------------------------------------------------
\* The steps of the broker and of the connection.

\* The broker routes, bounces and answers a message in the order AMQP fixes.
LEMMA BrokerInv ==
    ASSUME Inv, NEW m \in Message, Route(m) \/ Bounce(m) \/ Answer(m)
    PROVE  Inv'
<1> USE DEF Inv
<1>1. CASE Route(m)
  <2>1. at[m] = "sent" /\ at' = [at EXCEPT ![m] = "routed"]
        /\ UNCHANGED <<call, answered, inbox, returns, confirm, blame, open>>
    BY <1>1 DEF Route
  <2>2. \A n \in Message : n # m => at'[n] = at[n]
    BY <2>1 DEF TypeOK
  <2>3. at'[m] = "routed"
    BY <2>1 DEF TypeOK
  <2>4. TypeOK'
    BY <2>1, Places DEF TypeOK
  <2>5. OneHolder' /\ UnsentBefore' /\ DrainingIsSettled' /\ SuccessMeansRouted'
    BY <2>1, <2>2, <2>3 DEF OneHolder, UnsentBefore, DrainingIsSettled, Settled, SuccessMeansRouted, In
  <2>6. AckedWasHandled'
    BY <2>1, <2>2, <2>3 DEF AckedWasHandled, Acked, AckFrame
  <2>7. \A n \in Message : at'[n] = "unroutable" => at[n] = "unroutable"
    BY <2>2, <2>3
  <2>8. ReturnIsKept' /\ AckComesLast' /\ AckedHasReturn'
    BY <2>1, <2>7 DEF ReturnIsKept, AckComesLast, AckedHasReturn, ReturnFrame, AckFrame
  <2> QED
    BY <2>4, <2>5, <2>6, <2>8
<1>2. CASE Bounce(m)
  <2>1. /\ at[m] = "sent" /\ at' = [at EXCEPT ![m] = "unroutable"]
        /\ inbox' = Append(inbox, ReturnFrame(m))
        /\ UNCHANGED <<call, answered, returns, confirm, blame, open>>
    BY <1>2 DEF Bounce, Emit, ReturnFrame
  <2>2. ReturnFrame(m) \in Frame /\ inbox \in Seq(Frame)
    BY DEF ReturnFrame, Frame, TypeOK
  <2>3. /\ inbox' \in Seq(Frame)
        /\ Len(inbox) \in Nat
        /\ Len(inbox') = Len(inbox) + 1
        /\ \A i \in 1..Len(inbox) : inbox'[i] = inbox[i]
        /\ inbox'[Len(inbox) + 1] = ReturnFrame(m)
    BY <2>1, <2>2, Appended
  <2>4. \A n \in Message : n # m => at'[n] = at[n]
    BY <2>1 DEF TypeOK
  <2>5. at'[m] = "unroutable"
    BY <2>1 DEF TypeOK
  <2>6. TypeOK'
    BY <2>1, <2>3, Places DEF TypeOK
  <2>7. OneHolder' /\ UnsentBefore' /\ DrainingIsSettled' /\ SuccessMeansRouted'
    BY <2>1, <2>4, <2>5 DEF OneHolder, UnsentBefore, DrainingIsSettled, Settled, SuccessMeansRouted, In
  <2>8. \A n \in Message : ReturnFrame(m) # AckFrame(n)
    BY DEF ReturnFrame, AckFrame
  <2>9. \A n \in Message, i \in 1..Len(inbox') :
            inbox'[i] = AckFrame(n) => i \in 1..Len(inbox) /\ inbox[i] = AckFrame(n)
    BY <2>3, <2>8
  <2>10. ~Acked(m)
    BY <2>1 DEF AckedWasHandled
  <2>11. \A n \in Message : Acked(n)' => Acked(n) /\ n # m
    BY <2>1, <2>9, <2>10 DEF Acked, AckFrame
  <2>12. AckedWasHandled'
    BY <2>4, <2>11 DEF AckedWasHandled
  <2>13. ReturnIsKept'
    <3> SUFFICES ASSUME NEW n \in Message, call'[n] \in Holding, at'[n] = "unroutable", open',
                        ~(returns' # <<>>)
                 PROVE  \E j \in 1..Len(inbox') : inbox'[j] = ReturnFrame(n)
      BY DEF ReturnIsKept, ReturnFrame
    <3>1. CASE n = m
      BY <2>3, <3>1
    <3>2. CASE n # m
      BY <2>1, <2>3, <2>4, <3>2 DEF ReturnIsKept
    <3> QED
      BY <3>1, <3>2
  <2>14. AckComesLast'
    <3> SUFFICES ASSUME NEW n \in Message, NEW i \in 1..Len(inbox'), call'[n] \in Holding,
                        at'[n] = "unroutable", inbox'[i] = AckFrame(n), ~(returns' # <<>>)
                 PROVE  \E j \in 1..(i - 1) : inbox'[j] = ReturnFrame(n)
      BY DEF AckComesLast, ReturnFrame, AckFrame
    <3>1. i \in 1..Len(inbox) /\ inbox[i] = AckFrame(n)
      BY <2>9
    <3>2. n # m
      BY <2>10, <3>1 DEF Acked
    <3>3. PICK j \in 1..(i - 1) : inbox[j] = ReturnFrame(n)
      BY <2>1, <2>4, <3>1, <3>2 DEF AckComesLast
    <3> QED
      BY <2>3, <3>1, <3>3
  <2>15. AckedHasReturn'
    BY <2>1, <2>4, <2>10 DEF AckedHasReturn, Acked
  <2> QED
    BY <2>6, <2>7, <2>12, <2>13, <2>14, <2>15
<1>3. CASE Answer(m)
  <2>1. PICK f \in {AckFrame(m), [kind |-> "nack", msg |-> m]} :
            /\ inbox' = Append(inbox, f)
            /\ f = AckFrame(m) => at[m] \in {"routed", "unroutable"} /\ at' = at
            /\ at' = at \/ (at[m] = "sent" /\ at' = [at EXCEPT ![m] = "lost"])
    BY <1>3 DEF Answer, Emit, AckFrame
  <2>2. /\ open /\ answered' = answered \union {m}
        /\ UNCHANGED <<call, returns, confirm, blame, open>>
    BY <1>3 DEF Answer
  <2>3. f \in Frame /\ inbox \in Seq(Frame)
    BY DEF AckFrame, Frame, TypeOK
  <2>4. /\ inbox' \in Seq(Frame)
        /\ Len(inbox) \in Nat
        /\ Len(inbox') = Len(inbox) + 1
        /\ \A i \in 1..Len(inbox) : inbox'[i] = inbox[i]
        /\ inbox'[Len(inbox) + 1] = f
    BY <2>1, <2>3, Appended
  <2>5. \A n \in Message : at'[n] # at[n] => at[n] = "sent" /\ at'[n] = "lost"
    BY <2>1 DEF TypeOK
  <2>6. TypeOK'
    BY <2>1, <2>2, <2>4, Places DEF TypeOK
  <2>7. OneHolder' /\ UnsentBefore' /\ DrainingIsSettled' /\ SuccessMeansRouted'
    BY <2>2, <2>5 DEF OneHolder, UnsentBefore, DrainingIsSettled, Settled, SuccessMeansRouted, In
  <2>8. \A n \in Message : f = AckFrame(n) => n = m /\ at'[n] = at[n]
                                               /\ at[n] \in {"routed", "unroutable"}
    BY <2>1 DEF AckFrame
  <2>9. \A n \in Message, i \in 1..Len(inbox') :
            inbox'[i] = AckFrame(n) => \/ i \in 1..Len(inbox) /\ inbox[i] = AckFrame(n)
                                       \/ i = Len(inbox) + 1 /\ f = AckFrame(n)
    BY <2>4
  <2>10. AckedWasHandled'
    <3> SUFFICES ASSUME NEW n \in Message, Acked(n)' PROVE at'[n] \in {"routed", "unroutable"}
      BY DEF AckedWasHandled
    <3>1. CASE confirm'[n] = "acked"
      BY <2>2, <2>5, <3>1 DEF AckedWasHandled, Acked
    <3>2. CASE \E i \in 1..Len(inbox') : inbox'[i] = AckFrame(n)
      <4>1. Acked(n) \/ f = AckFrame(n)
        BY <2>9, <3>2 DEF Acked
      <4> QED
        BY <2>5, <2>8, <4>1 DEF AckedWasHandled
    <3> QED
      BY <3>1, <3>2 DEF Acked, AckFrame
  <2>11. ReturnIsKept'
    BY <2>2, <2>4, <2>5 DEF ReturnIsKept, ReturnFrame
  <2>12. AckComesLast'
    <3> SUFFICES ASSUME NEW n \in Message, NEW i \in 1..Len(inbox'), call'[n] \in Holding,
                        at'[n] = "unroutable", inbox'[i] = AckFrame(n), ~(returns' # <<>>)
                 PROVE  \E j \in 1..(i - 1) : inbox'[j] = ReturnFrame(n)
      BY DEF AckComesLast, ReturnFrame, AckFrame
    <3>1. call[n] \in Holding /\ at[n] = "unroutable" /\ ~(returns # <<>>)
      BY <2>2, <2>5
    <3>2. CASE i \in 1..Len(inbox) /\ inbox[i] = AckFrame(n)
      <4>1. PICK j \in 1..(i - 1) : inbox[j] = ReturnFrame(n)
        BY <3>1, <3>2 DEF AckComesLast
      <4> QED
        BY <2>4, <3>2, <4>1
    <3>3. CASE i = Len(inbox) + 1
      <4>1. PICK j \in 1..Len(inbox) : inbox[j] = ReturnFrame(n)
        BY <2>2, <3>1 DEF ReturnIsKept
      <4> QED
        BY <2>4, <3>3, <4>1
    <3> QED
      BY <2>9, <3>2, <3>3
  <2>13. AckedHasReturn'
    BY <2>2, <2>5 DEF AckedHasReturn
  <2> QED
    BY <2>6, <2>7, <2>10, <2>11, <2>12, <2>13
<1> QED
  BY <1>1, <1>2, <1>3

\* The connection's reader hands on the next frame: a return to the channel of capacity
\* one, or a confirm to the caller that waits for it.
LEMMA ReadInv == ASSUME Inv, Read PROVE Inv'
<1> USE DEF Inv
<1>1. /\ inbox \in Seq(Frame) /\ inbox # <<>> /\ inbox' = Tail(inbox)
      /\ returns \in Seq(Message) /\ Len(returns) \in Nat /\ Capacity \in Nat
      /\ UNCHANGED <<call, at, answered, blame, open>>
  BY CapacityAssumption DEF Read, TypeOK
<1>2. /\ inbox' \in Seq(Frame)
      /\ Len(inbox) \in Nat \ {0}
      /\ Len(inbox') = Len(inbox) - 1
      /\ \A i \in 1..Len(inbox') : inbox'[i] = inbox[i + 1]
      /\ Head(inbox) = inbox[1]
      /\ Head(inbox) \in Frame
  BY <1>1, Advanced
<1>3. PICK f \in Frame : f = inbox[1] /\ f.msg \in Message
  BY <1>2 DEF Frame
<1>4. \/ f.kind = "return" /\ HasRoom /\ returns' = Append(returns, f.msg) /\ UNCHANGED confirm
      \/ f.kind = "ack" /\ confirm' = [confirm EXCEPT ![f.msg] = "acked"] /\ UNCHANGED returns
      \/ f.kind = "nack" /\ confirm' = [confirm EXCEPT ![f.msg] = "nacked"] /\ UNCHANGED returns
  BY <1>2, <1>3 DEF Read
<1>5. returns' \in Seq(Message) /\ Len(returns') <= Capacity
  <2>1. CASE HasRoom /\ returns' = Append(returns, f.msg)
    BY <1>1, <1>3, <2>1, Appended DEF HasRoom
  <2>2. CASE UNCHANGED returns
    BY <2>2 DEF TypeOK
  <2> QED
    BY <1>4, <2>1, <2>2
<1>6. confirm' \in [Message -> {"none", "acked", "nacked"}]
  BY <1>3, <1>4 DEF TypeOK
<1>7. TypeOK'
  BY <1>1, <1>2, <1>5, <1>6 DEF TypeOK
<1>8. f.kind = "return" \/ returns # <<>> => returns' # <<>>
  <2>1. CASE returns' = Append(returns, f.msg)
    <3>1. Len(returns') = Len(returns) + 1
      BY <1>1, <1>3, <2>1, Appended
    <3> QED
      BY <1>1, <3>1
  <2>2. CASE f.kind # "return" /\ UNCHANGED returns
    BY <2>2
  <2> QED
    BY <1>4, <2>1, <2>2
<1>9. \A m \in Message : confirm'[m] = "acked" => confirm[m] = "acked" \/ f = AckFrame(m)
  <2> SUFFICES ASSUME NEW m \in Message, confirm'[m] = "acked", confirm[m] # "acked"
               PROVE  f = AckFrame(m)
    OBVIOUS
  <2>1. f.kind = "ack" /\ m = f.msg
    BY <1>3, <1>4 DEF TypeOK
  <2> QED
    BY <2>1 DEF Frame, AckFrame
<1>10. \A m \in Message : Acked(m)' => Acked(m)
  <2> SUFFICES ASSUME NEW m \in Message, Acked(m)' PROVE Acked(m)
    OBVIOUS
  <2>1. CASE confirm'[m] = "acked"
    BY <1>2, <1>3, <1>9, <2>1 DEF Acked
  <2>2. CASE \E i \in 1..Len(inbox') : inbox'[i] = AckFrame(m)
    <3>1. PICK i \in 1..Len(inbox') : inbox'[i] = AckFrame(m)
      BY <2>2
    <3>2. i + 1 \in 1..Len(inbox) /\ inbox[i + 1] = AckFrame(m)
      BY <1>2, <3>1
    <3> QED
      BY <3>2 DEF Acked
  <2> QED
    BY <2>1, <2>2 DEF Acked, AckFrame
<1>11. OneHolder' /\ UnsentBefore' /\ SuccessMeansRouted'
  BY <1>1 DEF OneHolder, UnsentBefore, SuccessMeansRouted, In
<1>12. AckedWasHandled'
  BY <1>1, <1>10 DEF AckedWasHandled
<1>13. ReturnIsKept'
  <2> SUFFICES ASSUME NEW m \in Message, call[m] \in Holding, at[m] = "unroutable", open,
                      ~(returns' # <<>>)
               PROVE  \E j \in 1..Len(inbox') : inbox'[j] = ReturnFrame(m)
    BY <1>1 DEF ReturnIsKept, ReturnFrame
  <2>1. PICK j \in 1..Len(inbox) : inbox[j] = ReturnFrame(m)
    BY <1>8 DEF ReturnIsKept
  <2>2. j # 1
    BY <1>3, <1>8, <2>1 DEF ReturnFrame
  <2>3. j - 1 \in 1..Len(inbox') /\ inbox'[j - 1] = inbox[j]
    BY <1>2, <2>1, <2>2
  <2> QED
    BY <2>1, <2>3
<1>14. AckComesLast'
  <2> SUFFICES ASSUME NEW m \in Message, NEW i \in 1..Len(inbox'), call[m] \in Holding,
                      at[m] = "unroutable", inbox'[i] = AckFrame(m), ~(returns' # <<>>)
               PROVE  \E j \in 1..(i - 1) : inbox'[j] = ReturnFrame(m)
    BY <1>1 DEF AckComesLast, ReturnFrame, AckFrame
  <2>1. i + 1 \in 1..Len(inbox) /\ inbox[i + 1] = AckFrame(m)
    BY <1>2
  <2>2. PICK j \in 1..(i + 1 - 1) : inbox[j] = ReturnFrame(m)
    BY <1>8, <2>1 DEF AckComesLast
  <2>3. j # 1
    BY <1>3, <1>8, <2>2 DEF ReturnFrame
  <2>4. j - 1 \in 1..(i - 1) /\ inbox'[j - 1] = inbox[j]
    BY <1>2, <2>2, <2>3
  <2> QED
    BY <2>2, <2>4
<1>15. AckedHasReturn'
  <2> SUFFICES ASSUME NEW m \in Message, call[m] \in Holding, at[m] = "unroutable",
                      confirm'[m] = "acked"
               PROVE  returns' # <<>>
    BY <1>1 DEF AckedHasReturn
  <2>1. CASE confirm[m] = "acked"
    BY <1>8, <2>1 DEF AckedHasReturn
  <2>2. CASE f = AckFrame(m)
    <3>1. 1 \in 1..Len(inbox) /\ inbox[1] = AckFrame(m)
      BY <1>2, <1>3, <2>2
    <3>2. ~\E j \in 1..(1 - 1) : inbox[j] = ReturnFrame(m)
      OBVIOUS
    <3>3. returns # <<>>
      BY <3>1, <3>2 DEF AckComesLast
    <3> QED
      BY <1>8, <3>3
  <2> QED
    BY <1>9, <2>1, <2>2
<1>16. DrainingIsSettled'
  BY <1>1, <1>8 DEF DrainingIsSettled, Settled, In
<1> QED
  BY <1>7, <1>11, <1>12, <1>13, <1>14, <1>15, <1>16

\* A closed channel drops what was on the wire and refuses every confirm still open.
LEMMA CloseInv == ASSUME Inv, Close PROVE Inv'
<1> USE DEF Inv
<1>1. /\ inbox' = <<>> /\ ~open'
      /\ UNCHANGED <<call, at, answered, returns, blame>>
  BY DEF Close
<1>2. Len(inbox') = 0
  BY <1>1
<1>3. \A m \in Message : confirm'[m] = "acked" => confirm[m] = "acked"
  BY DEF Close, TypeOK
<1>4. TypeOK'
  <2>1. confirm' \in [Message -> {"none", "acked", "nacked"}]
    BY DEF Close, TypeOK
  <2>2. open' \in BOOLEAN
    BY DEF Close
  <2>3. inbox' \in Seq(Frame)
    BY <1>1
  <2> QED
    BY <1>1, <2>1, <2>2, <2>3 DEF TypeOK
<1>5. OneHolder' /\ UnsentBefore' /\ DrainingIsSettled' /\ SuccessMeansRouted'
  BY <1>1 DEF OneHolder, UnsentBefore, DrainingIsSettled, Settled, SuccessMeansRouted, In
<1>6. AckedWasHandled'
  BY <1>1, <1>2, <1>3 DEF AckedWasHandled, Acked
<1>7. ReturnIsKept' /\ AckComesLast'
  BY <1>1, <1>2 DEF ReturnIsKept, AckComesLast
<1>8. AckedHasReturn'
  BY <1>1, <1>3 DEF AckedHasReturn
<1> QED
  BY <1>4, <1>5, <1>6, <1>7, <1>8
-----------------------------------------------------------------------------
\* Stuttering keeps what mentions only the variables.
LEMMA StutterInv == ASSUME Inv, UNCHANGED vars PROVE Inv'
  BY DEF Inv, TypeOK, OneHolder, UnsentBefore, AckedWasHandled, Acked, AckFrame, ReturnIsKept,
         ReturnFrame, AckComesLast, AckedHasReturn, DrainingIsSettled, Settled,
         SuccessMeansRouted, In, vars

\* The invariant holds in every reachable state.
THEOREM Invariance == Spec => []Inv
<1>1. Inv /\ [Next]_vars => Inv'
  BY PublishingInv, BrokerInv, ReadInv, CloseInv, StutterInv DEF Next
<1> QED
  BY <1>1, InitInv, PTL DEF Spec

\* Type correctness for any number of calls: the channel of returned messages is
\* never over its capacity.
THEOREM TypeCorrect == Spec => []TypeOK
<1>1. Inv => TypeOK
  BY DEF Inv
<1> QED
  BY <1>1, Invariance, PTL

\* publish returns nil only for a message that is in a queue.
THEOREM RoutedCorrect == Spec => []SuccessMeansRouted
<1>1. Inv => SuccessMeansRouted
  BY DEF Inv
<1> QED
  BY <1>1, Invariance, PTL
-----------------------------------------------------------------------------
\* Late returns.  A returned message is in one place: on the wire, in the channel, or
\* taken by one call.
InReturns(m) == \E i \in 1..Len(returns) : returns[i] = m
InInbox(m) == \E i \in 1..Len(inbox) : inbox[i] = ReturnFrame(m)
Out(m) == InReturns(m) \/ InInbox(m)
Blamed(m) == \E n \in Message : <<n, m>> \in blame

Once ==
    /\ \A i, j \in 1..Len(returns) : returns[i] = returns[j] => i = j
    /\ \A m \in Message : \A i, j \in 1..Len(inbox) :
          inbox[i] = ReturnFrame(m) /\ inbox[j] = ReturnFrame(m) => i = j
    /\ \A m \in Message : InReturns(m) => ~InInbox(m)
    /\ \A m \in Message : Blamed(m) => ~InReturns(m) /\ ~InInbox(m)
    /\ \A m, n, r \in Message : <<m, r>> \in blame /\ <<n, r>> \in blame => m = n
    /\ \A m \in Message : InReturns(m) \/ InInbox(m) \/ Blamed(m) => at[m] = "unroutable"

\* Taking a return leaves every other one where it is.
LEMMA OnceTaken ==
    ASSUME Inv, Once, NEW m \in Message, TakeReturn(m), returns # <<>>
    PROVE  /\ Head(returns) \in Message
           /\ InReturns(Head(returns))
           /\ blame' = blame \union {<<m, Head(returns)>>}
           /\ \A n \in Message : InReturns(n)' => InReturns(n) /\ n # Head(returns)
           /\ Once'
<1>1. /\ returns \in Seq(Message) /\ returns' = Tail(returns)
      /\ blame' = blame \union {<<m, Head(returns)>>}
      /\ UNCHANGED <<inbox, at>>
  BY DEF TakeReturn, brokerVars, Inv, TypeOK
<1>2. /\ returns' \in Seq(Message)
      /\ Len(returns) \in Nat \ {0} /\ Len(returns') = Len(returns) - 1
      /\ \A i \in 1..Len(returns') : returns'[i] = returns[i + 1]
      /\ Head(returns) = returns[1] /\ Head(returns) \in Message
  BY <1>1, Advanced
<1>3. PICK r \in Message : r = Head(returns)
  BY <1>2
<1>4. InReturns(r) /\ at[r] = "unroutable"
  BY <1>2, <1>3 DEF InReturns, Once
<1>5. ASSUME NEW n \in Message, InReturns(n)' PROVE InReturns(n) /\ n # r
  <2>1. PICK i \in 1..Len(returns') : returns'[i] = n
    BY <1>5 DEF InReturns
  <2>2. i + 1 \in 1..Len(returns) /\ returns[i + 1] = n /\ i + 1 # 1 /\ 1 \in 1..Len(returns)
    BY <1>2, <2>1
  <2> QED
    BY <1>2, <1>3, <2>2 DEF Once, InReturns
<1>6. \A n \in Message : InInbox(n)' <=> InInbox(n)
  BY <1>1 DEF InInbox, ReturnFrame
<1>7. \A n \in Message : Blamed(n)' => Blamed(n) \/ n = r
  BY <1>1, <1>3 DEF Blamed
<1>8. \A i, j \in 1..Len(returns') : returns'[i] = returns'[j] => i = j
  <2> SUFFICES ASSUME NEW i \in 1..Len(returns'), NEW j \in 1..Len(returns'),
                      returns'[i] = returns'[j]
               PROVE  i = j
    OBVIOUS
  <2>1. i + 1 \in 1..Len(returns) /\ j + 1 \in 1..Len(returns) /\ returns[i + 1] = returns[j + 1]
    BY <1>2
  <2>2. i + 1 = j + 1
    BY <2>1 DEF Once
  <2> QED
    BY <1>2, <2>2
<1>9. ~Blamed(r) /\ ~InInbox(r)
  BY <1>4 DEF Once
<1>10. \A k, n, q \in Message : <<k, q>> \in blame' /\ <<n, q>> \in blame' => k = n
  BY <1>1, <1>3, <1>9 DEF Once, Blamed
<1>11. \A n \in Message : \A i, j \in 1..Len(inbox') :
          inbox'[i] = ReturnFrame(n) /\ inbox'[j] = ReturnFrame(n) => i = j
  BY <1>1 DEF Once
<1>12. Once'
  BY <1>1, <1>4, <1>5, <1>6, <1>7, <1>8, <1>9, <1>10, <1>11 DEF Once, ReturnFrame
<1> QED
  BY <1>1, <1>2, <1>3, <1>4, <1>5, <1>12

\* A frame that is read moves its return into the channel.
LEMMA OnceRead ==
    ASSUME Inv, Once, Read
    PROVE  /\ \A m \in Message : Out(m)' => Out(m)
           /\ Once'
<1>1. /\ inbox \in Seq(Frame) /\ inbox # <<>> /\ inbox' = Tail(inbox)
      /\ returns \in Seq(Message) /\ UNCHANGED <<at, blame>>
  BY DEF Read, Inv, TypeOK
<1>2. /\ inbox' \in Seq(Frame)
      /\ Len(inbox) \in Nat \ {0} /\ Len(inbox') = Len(inbox) - 1
      /\ \A i \in 1..Len(inbox') : inbox'[i] = inbox[i + 1]
      /\ Head(inbox) = inbox[1] /\ Head(inbox) \in Frame
  BY <1>1, Advanced
<1>3. PICK f \in Frame : f = inbox[1] /\ f.msg \in Message
  BY <1>2 DEF Frame
<1>4. \/ f.kind = "return" /\ returns' = Append(returns, f.msg)
      \/ f.kind # "return" /\ UNCHANGED returns
  BY <1>2, <1>3 DEF Read
<1>5. ASSUME NEW m \in Message, InInbox(m)' PROVE InInbox(m) /\ f # ReturnFrame(m)
  <2>1. PICK i \in 1..Len(inbox') : inbox'[i] = ReturnFrame(m)
    BY <1>5 DEF InInbox, ReturnFrame
  <2>2. /\ i + 1 \in 1..Len(inbox) /\ inbox[i + 1] = ReturnFrame(m)
        /\ i + 1 # 1 /\ 1 \in 1..Len(inbox)
    BY <1>2, <2>1
  <2> QED
    BY <1>3, <2>2 DEF Once, InInbox
<1>6. f.kind = "return" => f = ReturnFrame(f.msg) /\ InInbox(f.msg) /\ ~InReturns(f.msg)
  <2>1. f.kind = "return" => f = ReturnFrame(f.msg)
    BY DEF Frame, ReturnFrame
  <2> QED
    BY <1>2, <1>3, <2>1 DEF InInbox, Once
<1>7. /\ \A m \in Message : InReturns(m)' => InReturns(m) \/ (f = ReturnFrame(m) /\ InInbox(m))
      /\ \A i, j \in 1..Len(returns') : returns'[i] = returns'[j] => i = j
  <2>1. CASE UNCHANGED returns
    BY <2>1 DEF InReturns, Once
  <2>2. CASE f.kind = "return" /\ returns' = Append(returns, f.msg)
    <3>1. /\ Len(returns) \in Nat /\ Len(returns') = Len(returns) + 1
          /\ \A i \in 1..Len(returns) : returns'[i] = returns[i]
          /\ returns'[Len(returns) + 1] = f.msg
      BY <1>1, <1>3, <2>2, Appended
    <3>2. \A m \in Message : InReturns(m)' => InReturns(m) \/ m = f.msg
      BY <3>1 DEF InReturns
    <3>3. ASSUME NEW i \in 1..Len(returns'), NEW j \in 1..Len(returns'),
                 returns'[i] = returns'[j]
          PROVE  i = j
      <4>1. \A q \in 1..Len(returns) : returns[q] # f.msg
        BY <1>6, <2>2 DEF InReturns
      <4> QED
        BY <3>1, <3>3, <4>1 DEF Once
    <3> QED
      BY <1>6, <2>2, <3>2, <3>3
  <2> QED
    BY <1>4, <2>1, <2>2
<1>8. \A m \in Message : \A i, j \in 1..Len(inbox') :
          inbox'[i] = ReturnFrame(m) /\ inbox'[j] = ReturnFrame(m) => i = j
  <2> SUFFICES ASSUME NEW m \in Message, NEW i \in 1..Len(inbox'), NEW j \in 1..Len(inbox'),
                      inbox'[i] = ReturnFrame(m), inbox'[j] = ReturnFrame(m)
               PROVE  i = j
    OBVIOUS
  <2>1. /\ i + 1 \in 1..Len(inbox) /\ inbox[i + 1] = ReturnFrame(m)
        /\ j + 1 \in 1..Len(inbox) /\ inbox[j + 1] = ReturnFrame(m)
    BY <1>2
  <2>2. i + 1 = j + 1
    BY <2>1 DEF Once
  <2> QED
    BY <1>2, <2>2
<1>9. \A m \in Message : InReturns(m)' \/ InInbox(m)' => InReturns(m) \/ InInbox(m)
  BY <1>5, <1>7
<1>10. \A m \in Message : InReturns(m)' => ~InInbox(m)'
  BY <1>5, <1>7 DEF Once
<1>11. Once'
  <2>1. \A m \in Message : Blamed(m)' <=> Blamed(m)
    BY <1>1 DEF Blamed
  <2> QED
    BY <1>1, <1>7, <1>8, <1>9, <1>10, <2>1 DEF Once, ReturnFrame
<1> QED
  BY <1>9, <1>11 DEF Out

\* A step that touches no return leaves each of them where it is, or drops it with
\* the wire.
LEMMA OnceKept ==
    ASSUME Inv, Once, UNCHANGED <<returns, blame>>,
           \A n \in Message : at[n] = "unroutable" => at'[n] = "unroutable",
           NEW f \in Frame, f.kind # "return",
           inbox' \in {inbox, Append(inbox, f), <<>>}
    PROVE  /\ \A m \in Message : Out(m)' => Out(m)
           /\ Once'
<1>1. \A i \in 1..Len(inbox'), m \in Message :
          inbox'[i] = ReturnFrame(m) => i \in 1..Len(inbox) /\ inbox[i] = ReturnFrame(m)
  <2>1. CASE inbox' = inbox
    BY <2>1
  <2>2. CASE inbox' = Append(inbox, f)
    <3>1. inbox \in Seq(Frame)
      BY DEF Inv, TypeOK
    <3>2. /\ Len(inbox) \in Nat /\ Len(inbox') = Len(inbox) + 1
          /\ \A i \in 1..Len(inbox) : inbox'[i] = inbox[i]
          /\ inbox'[Len(inbox) + 1] = f
      BY <2>2, <3>1, Appended
    <3>3. \A m \in Message : f # ReturnFrame(m)
      BY DEF ReturnFrame
    <3> QED
      BY <3>2, <3>3
  <2>3. CASE inbox' = <<>>
    <3>1. Len(inbox') = 0
      BY <2>3
    <3> QED
      BY <3>1
  <2> QED
    BY <2>1, <2>2, <2>3
<1>2. \A m \in Message : /\ InInbox(m)' => InInbox(m)
                         /\ InReturns(m)' <=> InReturns(m)
                         /\ Blamed(m)' <=> Blamed(m)
  BY <1>1 DEF InInbox, InReturns, Blamed, ReturnFrame
<1>3. \A m \in Message : \A i, j \in 1..Len(inbox') :
          inbox'[i] = ReturnFrame(m) /\ inbox'[j] = ReturnFrame(m) => i = j
  BY <1>1 DEF Once
<1>4. Once'
  BY <1>2, <1>3 DEF Once, ReturnFrame
<1> QED
  BY <1>2, <1>4 DEF Out

\* A bounced message has one return, and it is on the wire.
LEMMA OnceBounced ==
    ASSUME Inv, Once, NEW m \in Message, Bounce(m)
    PROVE  /\ \A n \in Message : Out(n)' => Out(n) \/ n = m
           /\ Once'
<1>1. /\ at[m] = "sent" /\ at' = [at EXCEPT ![m] = "unroutable"] /\ inbox \in Seq(Frame)
      /\ at \in [Message -> Place]
      /\ inbox' = Append(inbox, ReturnFrame(m)) /\ ReturnFrame(m) \in Frame
      /\ UNCHANGED <<returns, blame>>
  BY DEF Bounce, Emit, ReturnFrame, Frame, Inv, TypeOK
<1>2. /\ Len(inbox) \in Nat /\ Len(inbox') = Len(inbox) + 1
      /\ \A i \in 1..Len(inbox) : inbox'[i] = inbox[i]
      /\ inbox'[Len(inbox) + 1] = ReturnFrame(m)
  BY <1>1, Appended
<1>3. ~InReturns(m) /\ ~InInbox(m) /\ ~Blamed(m)
  BY <1>1 DEF Once
<1>4. \A n \in Message : ReturnFrame(n) = ReturnFrame(m) => n = m
  BY DEF ReturnFrame
<1>5. \A i \in 1..Len(inbox'), n \in Message :
          inbox'[i] = ReturnFrame(n) => \/ i \in 1..Len(inbox) /\ inbox[i] = ReturnFrame(n)
                                        \/ i = Len(inbox) + 1 /\ n = m
  BY <1>2, <1>4
<1>6. \A n \in Message : /\ InInbox(n)' => InInbox(n) \/ n = m
                         /\ InReturns(n)' <=> InReturns(n)
                         /\ Blamed(n)' <=> Blamed(n)
  BY <1>1, <1>5 DEF InInbox, InReturns, Blamed, ReturnFrame
<1>7. \A n \in Message : \A i, j \in 1..Len(inbox') :
          inbox'[i] = ReturnFrame(n) /\ inbox'[j] = ReturnFrame(n) => i = j
  <2> SUFFICES ASSUME NEW n \in Message, NEW i \in 1..Len(inbox'), NEW j \in 1..Len(inbox'),
                      inbox'[i] = ReturnFrame(n), inbox'[j] = ReturnFrame(n)
               PROVE  i = j
    OBVIOUS
  <2>1. CASE n = m
    BY <1>3, <1>5, <2>1 DEF InInbox
  <2>2. CASE n # m
    BY <1>5, <2>2 DEF Once
  <2> QED
    BY <2>1, <2>2
<1>8. \A n \in Message : at[n] = "unroutable" \/ n = m => at'[n] = "unroutable"
  BY <1>1
<1>9. Once'
  BY <1>1, <1>3, <1>6, <1>7, <1>8 DEF Once, ReturnFrame
<1> QED
  BY <1>6, <1>9 DEF Out
-----------------------------------------------------------------------------
\* How the calls ended: only a call that took a message is blamed on it, and one
\* that is refused, or is told of a return it did not take, saw the channel closed.
BlamedReturned == \A m, r \in Message : <<m, r>> \in blame => In(m, "returned")
ClosedEmpty == ~open => inbox = <<>>
Endings ==
    \A m \in Message :
        /\ In(m, "refused") => ~open
        /\ In(m, "returned") => ~open \/ \E r \in Message : <<m, r>> \in blame

Late == Inv /\ Once /\ BlamedReturned /\ ClosedEmpty /\ Endings

\* A step of a call that takes no return.
LEMMA CallEnds ==
    ASSUME Late, NEW m \in Message, NEW s \in CallState, Goto(m, s),
           call[m] # "returned",
           s = "refused" => ~open,
           s = "returned" => ~open,
           UNCHANGED <<blame, inbox, open>>
    PROVE  BlamedReturned' /\ ClosedEmpty' /\ Endings'
<1>1. call'[m] = s /\ \A n \in Message : n # m => call'[n] = call[n]
  BY DEF Late, Inv, TypeOK, Goto
<1>2. BlamedReturned'
  BY <1>1 DEF Late, BlamedReturned, In
<1>3. ClosedEmpty'
  BY DEF Late, ClosedEmpty
<1>4. Endings'
  BY <1>1 DEF Late, Endings, In
<1> QED
  BY <1>2, <1>3, <1>4

\* A step of a call adds no outstanding return and keeps the endings apart.
LEMMA LatePublishing ==
    ASSUME Late, NEW m \in Message, Publishing(m)
    PROVE  /\ \A n \in Message : Out(n)' => Out(n)
           /\ Late'
<1>0. /\ Inv /\ Inv' /\ TypeOK /\ Once /\ BlamedReturned /\ ClosedEmpty /\ Endings
  BY PublishingInv DEF Late, Inv
<1>1. CASE TakeReturn(m)
  <2>1. /\ UNCHANGED <<inbox, open, at>> /\ Goto(m, "returned") /\ call[m] \in Holding
    BY <1>1 DEF TakeReturn, brokerVars
  <2>2. call'[m] = "returned" /\ \A n \in Message : n # m => call'[n] = call[n]
    BY <1>0, <2>1 DEF TypeOK, Goto
  <2>3. CASE returns # <<>>
    <3>1. PICK r \in Message : r = Head(returns)
      BY <1>0, <1>1, <2>3, OnceTaken
    <3>2. /\ blame' = blame \union {<<m, r>>}
          /\ \A n \in Message : InReturns(n)' => InReturns(n)
          /\ Once'
      BY <1>0, <1>1, <2>3, <3>1, OnceTaken
    <3>3. \A n \in Message : Out(n)' => Out(n)
      BY <2>1, <3>2 DEF Out, InInbox, ReturnFrame
    <3>4. BlamedReturned'
      BY <1>0, <2>2, <3>2 DEF BlamedReturned, In
    <3>5. Endings'
      BY <1>0, <2>1, <2>2, <3>2 DEF Endings, In
    <3> QED
      BY <1>0, <2>1, <3>2, <3>3, <3>4, <3>5 DEF Late, ClosedEmpty
  <2>4. CASE returns = <<>>
    <3>1. ~open /\ UNCHANGED <<returns, blame>>
      BY <1>1, <2>4 DEF TakeReturn
    <3>2. [kind |-> "ack", msg |-> m] \in Frame /\ [kind |-> "ack", msg |-> m].kind # "return"
      BY DEF Frame
    <3>3. Once' /\ \A n \in Message : Out(n)' => Out(n)
      BY <1>0, <2>1, <3>1, <3>2, OnceKept
    <3>4. BlamedReturned' /\ ClosedEmpty' /\ Endings'
      BY <2>1, <3>1, CallEnds DEF CallState, Outcome, Holding
    <3> QED
      BY <1>0, <3>3, <3>4 DEF Late
  <2> QED
    BY <2>3, <2>4
<1>2. CASE ~TakeReturn(m)
  <2>1. /\ UNCHANGED <<returns, blame, inbox, open>>
        /\ \A n \in Message : at[n] = "unroutable" => at'[n] = "unroutable"
    <3>1. CASE UNCHANGED at
      BY <1>2, <3>1
      DEF Publishing, Call, Send, Refuse, Done, Drained, GiveUp, brokerVars
    <3>2. CASE In(m, "waiting") /\ at' = [at EXCEPT ![m] = "sent"]
      BY <1>0, <1>2, <3>2
      DEF Publishing, Call, Send, Refuse, Done, Drained, GiveUp, brokerVars, In, Inv,
          UnsentBefore, TypeOK
    <3> QED
      BY <1>2, <3>1, <3>2
      DEF Publishing, Call, Send, Refuse, Done, Drained, GiveUp, brokerVars
  <2>2. [kind |-> "ack", msg |-> m] \in Frame /\ [kind |-> "ack", msg |-> m].kind # "return"
    BY DEF Frame
  <2>3. Once' /\ \A n \in Message : Out(n)' => Out(n)
    BY <1>0, <2>1, <2>2, OnceKept
  <2>4. PICK s \in CallState : /\ Goto(m, s) /\ call[m] # "returned"
                               /\ s = "refused" => ~open
                               /\ s # "returned"
    BY <1>2 DEF Publishing, Call, Send, Refuse, Done, Drained, GiveUp, In, CallState,
                Outcome, Holding
  <2>5. BlamedReturned' /\ ClosedEmpty' /\ Endings'
    BY <2>1, <2>4, CallEnds
  <2> QED
    BY <1>0, <2>3, <2>5 DEF Late
<1> QED
  BY <1>1, <1>2

\* The steps of the broker and of the connection bring a return only by Bounce.
LEMMA LateOther ==
    ASSUME Late, \/ \E m \in Message : Route(m) \/ Bounce(m) \/ Answer(m)
                 \/ Read \/ Close \/ UNCHANGED vars
    PROVE  /\ \A n \in Message : Out(n)' => Out(n) \/ Bounce(n)
           /\ Late'
<1>0. /\ Inv /\ Inv' /\ TypeOK /\ Once /\ BlamedReturned /\ ClosedEmpty /\ Endings
  BY BrokerInv, ReadInv, CloseInv, StutterInv DEF Late, Inv
<1>1. UNCHANGED <<call, blame>> /\ (UNCHANGED open \/ ~open')
  BY DEF Route, Bounce, Answer, Read, Close, vars
<1>2. BlamedReturned' /\ Endings'
  BY <1>0, <1>1 DEF BlamedReturned, Endings, In
<1>3. ClosedEmpty'
  BY <1>0 DEF Route, Bounce, Answer, Read, Close, vars, ClosedEmpty
<1>4. (\A n \in Message : Out(n)' => Out(n) \/ Bounce(n)) /\ Once'
  <2>1. CASE Read
    BY <1>0, <2>1, OnceRead
  <2>2. ASSUME NEW m \in Message, Bounce(m)
        PROVE  (\A n \in Message : Out(n)' => Out(n) \/ Bounce(n)) /\ Once'
    BY <1>0, <2>2, OnceBounced
  <2>3. ASSUME NEW m \in Message, NEW k \in {"ack", "nack"},
               UNCHANGED <<returns, blame>>,
               \A n \in Message : at[n] = "unroutable" => at'[n] = "unroutable",
               inbox' \in {inbox, Append(inbox, [kind |-> k, msg |-> m]), <<>>}
        PROVE  (\A n \in Message : Out(n)' => Out(n) \/ Bounce(n)) /\ Once'
    <3>1. [kind |-> k, msg |-> m] \in Frame /\ [kind |-> k, msg |-> m].kind # "return"
      BY DEF Frame
    <3> QED
      BY <1>0, <2>3, <3>1, OnceKept
  <2>4. ASSUME NEW m \in Message, Route(m)
        PROVE  (\A n \in Message : Out(n)' => Out(n) \/ Bounce(n)) /\ Once'
    BY <1>0, <2>3, <2>4 DEF Route, TypeOK
  <2>5. ASSUME NEW m \in Message, Answer(m)
        PROVE  (\A n \in Message : Out(n)' => Out(n) \/ Bounce(n)) /\ Once'
    <3>1. \A n \in Message : at[n] = "unroutable" => at'[n] = "unroutable"
      BY <1>0, <2>5 DEF Answer, TypeOK
    <3>2. PICK k \in {"ack", "nack"} : inbox' = Append(inbox, [kind |-> k, msg |-> m])
      BY <2>5 DEF Answer, Emit
    <3> QED
      BY <2>3, <2>5, <3>1, <3>2 DEF Answer
  <2>6. CASE Close \/ UNCHANGED vars
    <3>1. UNCHANGED <<returns, blame, at>> /\ inbox' \in {inbox, <<>>}
      BY <2>6 DEF Close, vars
    <3>2. CASE Message = {}
      BY <1>0, <3>1, <3>2 DEF Once, Out, ReturnFrame, TypeOK, InReturns, InInbox, Blamed
    <3>3. CASE Message # {}
      BY <2>3, <3>1, <3>3
    <3> QED
      BY <3>2, <3>3
  <2> QED
    BY <2>1, <2>2, <2>4, <2>5, <2>6
<1> QED
  BY <1>0, <1>2, <1>3, <1>4 DEF Late

-----------------------------------------------------------------------------
\* The count.  A call that ended without draining owes at most one victim: while its
\* own message may still come back, or its return is outstanding, the debt is open;
\* the return that is taken by another call closes it.
Owes(m) == \/ call[m] \in Outcome /\ Out(m)
           \/ m \in Undrained /\ at[m] = "sent" /\ open
Debt == { m \in Message : Owes(m) }
Begun == { m \in Message : call[m] # "idle" }

Tally == /\ IsFiniteSet(Begun)
         /\ Cardinality(Debt) + Cardinality(Victims) <= Cardinality(Undrained)

\* What a set with at most one new member, or at most the members left after one is
\* gone, counts.
LEMMA Counts ==
    ASSUME NEW S, IsFiniteSet(S), NEW T, NEW e
    PROVE  /\ Cardinality(S) \in Nat
           /\ T \subseteq S => IsFiniteSet(T) /\ Cardinality(T) \in Nat
                                              /\ Cardinality(T) <= Cardinality(S)
           /\ T \subseteq S \union {e} => IsFiniteSet(T) /\ Cardinality(T) \in Nat
                                              /\ Cardinality(T) <= Cardinality(S) + 1
           /\ T \subseteq S \ {e} /\ e \in S => IsFiniteSet(T) /\ Cardinality(T) \in Nat
                                              /\ Cardinality(T) <= Cardinality(S) - 1
           /\ T = S \union {e} /\ e \notin S => Cardinality(T) = Cardinality(S) + 1
<1>1. Cardinality(S) \in Nat
  BY FS_CardinalityType
<1>2. ASSUME T \subseteq S
      PROVE  IsFiniteSet(T) /\ Cardinality(T) \in Nat /\ Cardinality(T) <= Cardinality(S)
  <2>1. IsFiniteSet(T) /\ Cardinality(T) <= Cardinality(S)
    BY <1>2, FS_Subset
  <2> QED
    BY <2>1, FS_CardinalityType
<1>3. /\ IsFiniteSet(S \union {e})
      /\ Cardinality(S \union {e}) \in {Cardinality(S), Cardinality(S) + 1}
      /\ e \notin S => Cardinality(S \union {e}) = Cardinality(S) + 1
  BY FS_AddElement
<1>4. ASSUME T \subseteq S \union {e}
      PROVE  IsFiniteSet(T) /\ Cardinality(T) \in Nat /\ Cardinality(T) <= Cardinality(S) + 1
  <2>1. IsFiniteSet(T) /\ Cardinality(T) <= Cardinality(S \union {e})
    BY <1>3, <1>4, FS_Subset
  <2>2. Cardinality(T) \in Nat
    BY <2>1, FS_CardinalityType
  <2> QED
    BY <1>1, <1>3, <2>1, <2>2
<1>5. ASSUME T \subseteq S \ {e}, e \in S
      PROVE  IsFiniteSet(T) /\ Cardinality(T) \in Nat /\ Cardinality(T) <= Cardinality(S) - 1
  <2>1. IsFiniteSet(S \ {e}) /\ Cardinality(S \ {e}) = Cardinality(S) - 1
    BY <1>5, FS_RemoveElement
  <2>2. IsFiniteSet(T) /\ Cardinality(T) <= Cardinality(S \ {e})
    BY <1>5, <2>1, FS_Subset
  <2>3. Cardinality(T) \in Nat
    BY <2>2, FS_CardinalityType
  <2> QED
    BY <2>1, <2>2, <2>3
<1> QED
  BY <1>1, <1>2, <1>3, <1>4, <1>5

\* The begun calls are finitely many, and only they owe or suffer.
LEMMA BegunFinite ==
    ASSUME Late, IsFiniteSet(Begun)
    PROVE  /\ IsFiniteSet(Debt) /\ IsFiniteSet(Victims) /\ IsFiniteSet(Undrained)
           /\ [Next]_vars => IsFiniteSet(Begun')
<1>1. Debt \subseteq Begun /\ Undrained \subseteq Begun /\ Victims \subseteq Begun
  BY DEF Debt, Owes, Undrained, Victims, Begun, Outcome, Late, BlamedReturned, In
<1>2. ASSUME [Next]_vars PROVE IsFiniteSet(Begun')
  <2>1. ASSUME NEW m \in Message, Publishing(m) PROVE Begun' \subseteq Begun \union {m}
    <3>1. PICK s : Goto(m, s)
      BY <2>1 DEF Publishing, Call, Send, Refuse, TakeReturn, Done, Drained, GiveUp
    <3>2. \A n \in Message : n # m => call'[n] = call[n]
      BY <3>1 DEF Goto, Late, Inv, TypeOK
    <3> QED
      BY <3>2 DEF Begun
  <2>2. CASE UNCHANGED call
    BY <2>2 DEF Begun
  <2> QED
    BY <1>2, <2>1, <2>2, Counts DEF Next, Route, Bounce, Answer, Read, Close, vars
<1> QED
  BY <1>1, <1>2, FS_Subset

\* The ways a step can move the debts and the victims against the calls that did not
\* drain: it adds none, the undrained calls gain the debtor, a debt becomes a victim
\* or passes to another call, or a victim becomes a debtor.  Each keeps the count.
LEMMA TallyMoves ==
    ASSUME Late, Tally, [Next]_vars, NEW m, NEW r,
           \/ Debt' \subseteq Debt /\ Victims' \subseteq Victims /\ Undrained' = Undrained
           \/ /\ Debt' \subseteq Debt \union {m} /\ Victims' \subseteq Victims
              /\ Undrained' = Undrained \union {m} /\ m \notin Undrained
           \/ /\ Debt' \subseteq Debt \ {r} /\ r \in Debt /\ Victims' \subseteq Victims \union {m}
              /\ Undrained' = Undrained
           \/ /\ Debt' \subseteq (Debt \ {r}) \union {m} /\ r \in Debt /\ Victims' \subseteq Victims
              /\ Undrained' = Undrained
           \/ /\ Debt' \subseteq Debt \union {m} /\ Victims' \subseteq Victims \ {m}
              /\ m \in Victims /\ Undrained' = Undrained
    PROVE  Tally'
<1>1. /\ IsFiniteSet(Debt) /\ IsFiniteSet(Victims) /\ IsFiniteSet(Undrained)
      /\ IsFiniteSet(Begun') /\ Cardinality(Debt) + Cardinality(Victims) <= Cardinality(Undrained)
  BY BegunFinite DEF Tally
<1> DEFINE D == Debt  V == Victims  U == Undrained  D2 == Debt'  V2 == Victims'  U2 == Undrained'
<1>2. Cardinality(D2) + Cardinality(V2) <= Cardinality(U2)
  <2> HIDE DEF D, V, U, D2, V2, U2
  <2>1. /\ IsFiniteSet(D) /\ IsFiniteSet(V) /\ IsFiniteSet(U)
        /\ Cardinality(D) + Cardinality(V) <= Cardinality(U)
    BY <1>1 DEF D, V, U
  <2>2. \/ D2 \subseteq D /\ V2 \subseteq V /\ U2 = U
        \/ D2 \subseteq D \union {m} /\ V2 \subseteq V /\ U2 = U \union {m} /\ m \notin U
        \/ D2 \subseteq D \ {r} /\ r \in D /\ V2 \subseteq V \union {m} /\ U2 = U
        \/ D2 \subseteq (D \ {r}) \union {m} /\ r \in D /\ V2 \subseteq V /\ U2 = U
        \/ D2 \subseteq D \union {m} /\ V2 \subseteq V \ {m} /\ m \in V /\ U2 = U
    BY DEF D, V, U, D2, V2, U2
  <2>3. Cardinality(D) \in Nat /\ Cardinality(V) \in Nat /\ Cardinality(U) \in Nat
    BY <2>1, Counts
  <2>4. CASE D2 \subseteq D /\ V2 \subseteq V /\ U2 = U
    <3>1. Cardinality(D2) \in Nat /\ Cardinality(D2) <= Cardinality(D)
      BY <2>4, <2>1, Counts
    <3>2. Cardinality(V2) \in Nat /\ Cardinality(V2) <= Cardinality(V)
      BY <2>4, <2>1, Counts
    <3> QED
      BY <2>1, <2>3, <2>4, <3>1, <3>2
  <2>5. CASE D2 \subseteq D \union {m} /\ V2 \subseteq V /\ U2 = U \union {m} /\ m \notin U
    <3>1. Cardinality(D2) \in Nat /\ Cardinality(D2) <= Cardinality(D) + 1
      BY <2>5, <2>1, Counts
    <3>2. Cardinality(V2) \in Nat /\ Cardinality(V2) <= Cardinality(V)
      BY <2>5, <2>1, Counts
    <3>3. Cardinality(U2) = Cardinality(U) + 1
      BY <2>5, <2>1, Counts
    <3> QED
      BY <2>1, <2>3, <3>1, <3>2, <3>3
  <2>6. CASE D2 \subseteq D \ {r} /\ r \in D /\ V2 \subseteq V \union {m} /\ U2 = U
    <3>1. Cardinality(D2) \in Nat /\ Cardinality(D2) <= Cardinality(D) - 1
      BY <2>6, <2>1, Counts
    <3>2. Cardinality(V2) \in Nat /\ Cardinality(V2) <= Cardinality(V) + 1
      BY <2>6, <2>1, Counts
    <3> QED
      BY <2>1, <2>3, <2>6, <3>1, <3>2
  <2>7. CASE D2 \subseteq (D \ {r}) \union {m} /\ r \in D /\ V2 \subseteq V /\ U2 = U
    <3>1. /\ IsFiniteSet(D \ {r}) /\ Cardinality(D \ {r}) \in Nat
          /\ Cardinality(D \ {r}) <= Cardinality(D) - 1
      BY <2>7, <2>1, Counts
    <3>2. Cardinality(D2) \in Nat /\ Cardinality(D2) <= Cardinality(D \ {r}) + 1
      BY <2>7, <3>1, <2>1, Counts
    <3>3. Cardinality(V2) \in Nat /\ Cardinality(V2) <= Cardinality(V)
      BY <2>7, <2>1, Counts
    <3> QED
      BY <2>1, <2>3, <2>7, <3>1, <3>2, <3>3
  <2>8. CASE D2 \subseteq D \union {m} /\ V2 \subseteq V \ {m} /\ m \in V /\ U2 = U
    <3>1. Cardinality(D2) \in Nat /\ Cardinality(D2) <= Cardinality(D) + 1
      BY <2>8, <2>1, Counts
    <3>2. Cardinality(V2) \in Nat /\ Cardinality(V2) <= Cardinality(V) - 1
      BY <2>8, <2>1, Counts
    <3> QED
      BY <2>1, <2>3, <2>8, <3>1, <3>2
  <2> QED
    BY <2>2, <2>4, <2>5, <2>6, <2>7, <2>8
<1> QED
  BY <1>1, <1>2 DEF Tally

\* A return is outstanding when it is on the wire or in the channel.
LEMMA OutstandingIs ==
    ASSUME TypeOK, NEW m \in Message
    PROVE  Outstanding(m) <=> Out(m)
  BY DEF TypeOK, Outstanding, Out, InReturns, InInbox, ReturnFrame


\* A call that takes no return: the debtor, if any, is a new undrained call.
LEMMA TallyPublishing ==
    ASSUME Late, Tally, NEW m \in Message, Publishing(m), ~TakeReturn(m) \/ returns = <<>>
    PROVE  Tally'
<1>0. /\ Inv /\ TypeOK /\ Once /\ [Next]_vars /\ \A n \in Message : Out(n)' => Out(n)
  BY LatePublishing DEF Late, Inv, Next
<1>1. UNCHANGED <<blame, open>>
  BY DEF Publishing, Call, Send, Refuse, TakeReturn, Done, Drained, GiveUp
<1>2. PICK s \in CallState : Goto(m, s)
  BY DEF Publishing, Call, Send, Refuse, TakeReturn, Done, Drained, GiveUp, CallState,
         Outcome, Holding
<1>3. call'[m] = s /\ \A n \in Message : n # m => call'[n] = call[n]
  BY <1>0, <1>2 DEF TypeOK, Goto
<1>4. \A n \in Message : /\ n # m => at'[n] = at[n]
                         /\ at'[n] # "unroutable" <=> at[n] # "unroutable"
  <2>1. CASE UNCHANGED at
    BY <2>1
  <2>2. CASE In(m, "waiting") /\ at' = [at EXCEPT ![m] = "sent"]
    BY <1>0, <2>2 DEF In, Inv, UnsentBefore, TypeOK
  <2> QED
    BY <2>1, <2>2
    DEF Publishing, Call, Send, Refuse, TakeReturn, Done, Drained, GiveUp, brokerVars
<1>5. Victims' \subseteq Victims
  BY <1>1, <1>4 DEF Victims
<1>6. \A n \in Message : n # m /\ Owes(n)' => Owes(n)
  BY <1>0, <1>1, <1>3, <1>4 DEF Owes, Undrained
<1>7. CASE s \in {"abandoned", "nacked"}
  <2>1. call[m] \notin Outcome
    BY <1>3, <1>7 DEF Publishing, Call, Send, Refuse, TakeReturn, Done, Drained, GiveUp, In,
                      Outcome, Holding
  <2>2. Undrained' = Undrained \union {m} /\ m \notin Undrained
    BY <1>3, <1>7, <2>1 DEF Undrained, Outcome
  <2>3. Debt' \subseteq Debt \union {m}
    BY <1>6 DEF Debt
  <2> QED
    BY <1>0, <1>5, <2>2, <2>3, TallyMoves
<1>8. CASE s \notin {"abandoned", "nacked"}
  <2>1. call[m] \notin {"abandoned", "nacked"}
    BY DEF Publishing, Call, Send, Refuse, TakeReturn, Done, Drained, GiveUp, In, Holding
  <2>2. Undrained' = Undrained
    BY <1>3, <1>8, <2>1 DEF Undrained
  <2>3. s \in Outcome => ~Out(m)
    <3>1. /\ Refuse(m) \/ Drained(m) => at[m] # "unroutable"
          /\ TakeReturn(m) => ~open /\ returns = <<>>
      BY <1>0 DEF Refuse, Drained, TakeReturn, In, Inv, UnsentBefore, DrainingIsSettled, Settled
    <3>2. ~open /\ returns = <<>> => ~Out(m)
      BY DEF Late, ClosedEmpty, Out, InReturns, InInbox
    <3>3. Out(m) => at[m] = "unroutable"
      BY <1>0 DEF Once, Out
    <3>4. \A t : Goto(m, t) => t = s
      BY <1>0, <1>3 DEF Goto, TypeOK
    <3>5. s \in Outcome => Refuse(m) \/ Drained(m) \/ TakeReturn(m)
      BY <1>8, <3>4 DEF Publishing, Call, Send, Done, GiveUp, Outcome
    <3> QED
      BY <3>1, <3>2, <3>3, <3>5
  <2>4. ~Owes(m)'
    BY <1>0, <1>3, <1>8, <2>3 DEF Owes, Undrained
  <2>5. Debt' \subseteq Debt
    BY <1>6, <2>4 DEF Debt
  <2> QED
    BY <1>0, <1>5, <2>2, <2>5, TallyMoves
<1> QED
  BY <1>7, <1>8

\* A call that takes a return: its own, and nothing is owed for it; or that of a call
\* that has ended, whose debt it pays.
LEMMA TallyTaken ==
    ASSUME Late, Tally, NEW m \in Message, TakeReturn(m), returns # <<>>
    PROVE  Tally'
<1>0. /\ Inv /\ TypeOK /\ Once /\ [Next]_vars
      /\ \A n \in Message : Out(n)' => Out(n)
      /\ call[m] \in Holding /\ Goto(m, "returned") /\ UNCHANGED <<at, open, inbox>>
  BY LatePublishing DEF Late, Inv, Next, Publishing, TakeReturn, brokerVars
<1>1. call'[m] = "returned" /\ \A n \in Message : n # m => call'[n] = call[n]
  BY <1>0 DEF TypeOK, Goto
<1>2. PICK r \in Message : r = Head(returns)
  BY <1>0, OnceTaken
<1>3. /\ InReturns(r) /\ blame' = blame \union {<<m, r>>}
      /\ \A n \in Message : InReturns(n)' => n # r
  BY <1>0, <1>2, OnceTaken
<1>4. at[r] = "unroutable" /\ ~InInbox(r)
  BY <1>3 DEF Late, Once
<1>5. ~Out(r)'
  BY <1>0, <1>3, <1>4 DEF Out, InInbox, ReturnFrame
<1>6. Undrained' = Undrained
  BY <1>0, <1>1 DEF Undrained, Holding
<1>7. \A n \in Message : n # m /\ Owes(n)' => Owes(n) /\ n # r
  BY <1>0, <1>1, <1>4, <1>5 DEF Owes, Undrained
<1>8. Owes(m)' => Out(m)' /\ at[m] = "unroutable"
  BY <1>0, <1>1 DEF Owes, Undrained, Once, Out
<1>9. Victims' \subseteq Victims \union {m}
  BY <1>0, <1>3 DEF Victims
<1>10. at[m] = "unroutable" => Victims' \subseteq Victims
  BY <1>0, <1>3 DEF Victims
<1>11. CASE r = m
  <2>1. Debt' \subseteq Debt
    BY <1>5, <1>7, <1>8, <1>11 DEF Debt
  <2> QED
    BY <1>0, <1>4, <1>6, <1>10, <1>11, <2>1, TallyMoves
<1>12. CASE r # m
  <2>1. call[r] \in Outcome
    BY <1>0, <1>4, <1>12 DEF Inv, OneHolder, UnsentBefore, TypeOK, CallState
  <2>2. r \in Debt
    BY <1>3, <2>1 DEF Debt, Owes, Out
  <2>3. CASE at[m] = "unroutable"
    <3>1. Debt' \subseteq (Debt \ {r}) \union {m}
      BY <1>7 DEF Debt
    <3> QED
      BY <1>0, <1>6, <1>10, <2>2, <2>3, <3>1, TallyMoves
  <2>4. CASE at[m] # "unroutable"
    <3>1. Debt' \subseteq Debt \ {r}
      BY <1>7, <1>8, <2>4 DEF Debt
    <3> QED
      BY <1>0, <1>6, <1>9, <2>2, <3>1, TallyMoves
  <2> QED
    BY <2>3, <2>4
<1> QED
  BY <1>11, <1>12

\* A message that is bounced after its call ended was owed already, or the call is a
\* victim no longer: its own message came back as well.
LEMMA TallyBounced ==
    ASSUME Late, Tally, NEW m \in Message, Bounce(m)
    PROVE  Tally'
<1>0. /\ Inv /\ TypeOK /\ [Next]_vars
      /\ \A n \in Message : Out(n)' => Out(n) \/ n = m
      /\ at[m] = "sent" /\ open /\ UNCHANGED <<call, blame, open>>
  BY OnceBounced DEF Late, Inv, Next, Bounce
<1>1. at'[m] = "unroutable" /\ \A n \in Message : n # m => at'[n] = at[n]
  BY <1>0 DEF Bounce, TypeOK
<1>2. Undrained' = Undrained
  BY <1>0 DEF Undrained
<1>3. \A n \in Message : n # m /\ Owes(n)' => Owes(n)
  BY <1>0, <1>1 DEF Owes, Undrained
<1>4. Victims' \subseteq Victims \ {m}
  BY <1>0, <1>1 DEF Victims
<1>5. CASE call[m] = "returned"
  <2>1. m \in Victims
    BY <1>0, <1>5 DEF Late, Endings, Victims, In
  <2>2. Debt' \subseteq Debt \union {m}
    BY <1>3 DEF Debt
  <2> QED
    BY <1>0, <1>2, <1>4, <2>1, <2>2, TallyMoves
<1>6. CASE call[m] # "returned"
  <2>1. Owes(m)' => Owes(m)
    <3>1. call[m] # "ok" /\ call[m] # "refused"
      BY <1>0 DEF Inv, SuccessMeansRouted, Late, Endings, In
    <3> QED
      BY <1>0, <1>6, <3>1 DEF Owes, Undrained, Outcome
  <2>2. Debt' \subseteq Debt
    BY <1>3, <2>1 DEF Debt
  <2> QED
    BY <1>0, <1>2, <1>4, <2>2, TallyMoves
<1> QED
  BY <1>5, <1>6

\* The other steps of the broker and of the connection owe nothing new.
LEMMA TallyOther ==
    ASSUME Late, Tally, \A m \in Message : ~Bounce(m),
           \/ \E m \in Message : Route(m) \/ Answer(m)
           \/ Read \/ Close \/ UNCHANGED vars
    PROVE  Tally'
<1>0. TypeOK /\ [Next]_vars /\ \A n \in Message : Out(n)' => Out(n)
  BY LateOther DEF Late, Inv, Next
<1>1. UNCHANGED <<call, blame>> /\ (open' => open)
  BY DEF Route, Answer, Read, Close, vars
<1>2. \A n \in Message : \/ at'[n] = at[n]
                         \/ at[n] = "sent" /\ at'[n] \in {"routed", "lost"}
  BY <1>0 DEF Route, Answer, Read, Close, vars, TypeOK
<1>3. Undrained' = Undrained
  BY <1>1 DEF Undrained
<1>4. Victims' \subseteq Victims
  BY <1>1, <1>2 DEF Victims
<1>5. Debt' \subseteq Debt
  BY <1>0, <1>1, <1>2 DEF Debt, Owes, Undrained
<1> QED
  BY <1>0, <1>3, <1>4, <1>5, TallyMoves

\* Nothing is owed before the first call.
LEMMA LateInit == Init => Late /\ Tally
<1> SUFFICES ASSUME Init PROVE Late /\ Tally
  OBVIOUS
<1>1. Inv
  BY InitInv
<1>2. /\ \A m \in Message : call[m] = "idle" /\ at[m] = "unsent"
      /\ returns = <<>> /\ inbox = <<>> /\ blame = {} /\ open
  BY DEF Init
<1>3. Len(returns) = 0 /\ Len(inbox) = 0
  BY <1>2
<1>4. Once
  BY <1>2, <1>3 DEF Once, InReturns, InInbox, Blamed
<1>5. BlamedReturned /\ ClosedEmpty /\ Endings
  BY <1>2 DEF BlamedReturned, ClosedEmpty, Endings, In
<1>6. Begun = {} /\ Debt = {} /\ Victims = {} /\ Undrained = {}
  BY <1>2 DEF Begun, Debt, Owes, Victims, Undrained, Outcome
<1>7. Tally
  BY <1>6, FS_EmptySet DEF Tally
<1> QED
  BY <1>1, <1>4, <1>5, <1>7 DEF Late

\* What is owed and suffered is at most what was given up, in every reachable state.
THEOREM LateInvariance == Spec => [](Late /\ Tally)
<1>1. ASSUME Late, Tally, [Next]_vars PROVE Late' /\ Tally'
  <2>1. ASSUME NEW m \in Message, Publishing(m) PROVE Late' /\ Tally'
    BY <1>1, <2>1, LatePublishing, TallyPublishing, TallyTaken
  <2>2. ASSUME NEW m \in Message, Bounce(m) PROVE Late' /\ Tally'
    BY <1>1, <2>2, LateOther, TallyBounced
  <2>3. ASSUME \A m \in Message : ~Bounce(m),
               \/ \E m \in Message : Route(m) \/ Answer(m)
               \/ Read \/ Close \/ UNCHANGED vars
        PROVE  Late' /\ Tally'
    BY <1>1, <2>3, LateOther, TallyOther
  <2> QED
    BY <1>1, <2>1, <2>2, <2>3 DEF Next
<1> QED
  BY <1>1, LateInit, PTL DEF Spec

\* A publish that timed out or was refused by the broker makes at most one other
\* publish fail, and no return is taken twice, for any number of calls.
THEOREM VictimsCorrect == Spec => []OneVictimEach
<1>1. Late /\ Tally => OneVictimEach
  <2> SUFFICES ASSUME Late, Tally PROVE OneVictimEach
    OBVIOUS
  <2>1. /\ IsFiniteSet(Debt) /\ IsFiniteSet(Victims) /\ IsFiniteSet(Undrained)
        /\ Cardinality(Debt) + Cardinality(Victims) <= Cardinality(Undrained)
    BY BegunFinite DEF Tally
  <2>2. Stale \subseteq Debt
    BY OutstandingIs DEF Late, Inv, Stale, Debt, Owes
  <2>3. /\ Cardinality(Stale) \in Nat /\ Cardinality(Stale) <= Cardinality(Debt)
        /\ Cardinality(Debt) \in Nat /\ Cardinality(Victims) \in Nat
        /\ Cardinality(Undrained) \in Nat
    BY <2>1, <2>2, Counts
  <2> QED
    BY <2>1, <2>3 DEF OneVictimEach, Late, Once
<1> QED
  BY <1>1, LateInvariance, PTL

\* A full channel and one more return at the head of the inbox belong to more calls
\* than the channel has room for.
LEMMA FullChannel ==
    ASSUME Late, IsFiniteSet(Begun), Blocked, ~Locked
    PROVE  Cardinality(Stale) > Capacity
<1>0. /\ TypeOK /\ Once /\ UnsentBefore /\ Capacity \in Nat
      /\ returns \in Seq(Message) /\ inbox \in Seq(Frame)
  BY CapacityAssumption DEF Late, Inv, TypeOK
<1>1. Len(returns) = Capacity
  BY <1>0 DEF Blocked, HasRoom, TypeOK
<1>2. 1 \in 1..Len(inbox) /\ Head(inbox) = inbox[1] /\ Head(inbox) \in Frame
  BY <1>0 DEF Blocked
<1>3. PICK q \in Message : q = Head(inbox).msg
  BY <1>2 DEF Frame
<1>4. Head(inbox) = ReturnFrame(q)
  BY <1>2, <1>3 DEF Blocked, Frame, ReturnFrame
<1>5. ASSUME NEW m \in Message, Out(m) PROVE m \in Stale
  <2>1. at[m] = "unroutable"
    BY <1>0, <1>5 DEF Once, Out
  <2>2. call[m] \in Outcome
    BY <1>0, <2>1 DEF UnsentBefore, Locked, TypeOK, CallState
  <2> QED
    BY <1>0, <1>5, <2>2, OutstandingIs DEF Stale
<1>6. InInbox(q) /\ q \in Stale
  BY <1>2, <1>4, <1>5 DEF InInbox, Out
<1>7. ~InReturns(q)
  BY <1>0, <1>6 DEF Once
<1>8. IsFiniteSet(Stale)
  <2>1. Stale \subseteq Begun
    BY DEF Stale, Begun, Outcome
  <2> QED
    BY <2>1, FS_Subset
<1> DEFINE T == Stale \ {q}
           f == [i \in 1..Capacity |-> returns[i]]
<1>9. f \in Injection(1..Capacity, T)
  <2>1. \A i \in 1..Capacity : returns[i] \in Message /\ InReturns(returns[i])
    BY <1>0, <1>1 DEF InReturns
  <2>2. \A i \in 1..Capacity : returns[i] \in T
    BY <1>5, <1>7, <2>1 DEF Out
  <2>3. \A i, j \in 1..Capacity : f[i] = f[j] => i = j
    BY <1>0, <1>1 DEF Once
  <2> QED
    BY <2>2, <2>3 DEF Injection, IsInjective
<1>10. IsFiniteSet(T) /\ Cardinality(T) = Cardinality(Stale) - 1 /\ Cardinality(Stale) \in Nat
  BY <1>6, <1>8, FS_RemoveElement, FS_CardinalityType
<1>11. Cardinality(1..Capacity) <= Cardinality(T)
  <2> HIDE DEF T, f
  <2> QED
    BY <1>9, <1>10, FS_Injection
<1>12. Cardinality(1..Capacity) = Capacity
  BY <1>0, FS_Interval
<1> QED
  BY <1>0, <1>10, <1>11, <1>12

\* The reader of the connection is held up by a channel that nobody empties only when
\* more publishes timed out or were refused than the channel has room for.
THEOREM BlockingCorrect == Spec => []OnlyTimeoutsBlock
<1>1. Late /\ Tally => OnlyTimeoutsBlock
  <2> SUFFICES ASSUME Late, Tally, Blocked, ~Locked PROVE Cardinality(Undrained) > Capacity
    BY DEF OnlyTimeoutsBlock
  <2>1. Cardinality(Stale) > Capacity /\ Capacity \in Nat
    BY FullChannel, CapacityAssumption DEF Tally
  <2>2. /\ IsFiniteSet(Debt) /\ IsFiniteSet(Victims) /\ IsFiniteSet(Undrained)
        /\ Cardinality(Debt) + Cardinality(Victims) <= Cardinality(Undrained)
    BY BegunFinite DEF Tally
  <2>3. Stale \subseteq Debt
    BY OutstandingIs DEF Late, Inv, Stale, Debt, Owes
  <2>4. /\ Cardinality(Stale) \in Nat /\ Cardinality(Stale) <= Cardinality(Debt)
        /\ Cardinality(Debt) \in Nat /\ Cardinality(Victims) \in Nat
        /\ Cardinality(Undrained) \in Nat
    BY <2>2, <2>3, Counts
  <2> QED
    BY <2>1, <2>2, <2>4
<1> QED
  BY <1>1, LateInvariance, PTL
-----------------------------------------------------------------------------
\* The step of a call, seen by its caller.
LEMMA KnownStep ==
    ASSUME TypeOK, NEW m \in Message, NEW s, Goto(m, s)
    PROVE  [n \in Message |-> Known(call[n])]'
               = [[n \in Message |-> Known(call[n])] EXCEPT ![m] = Known(s)]
<1>1. \A n \in Message : call'[n] = IF n = m THEN s ELSE call[n]
  BY DEF TypeOK, Goto
<1> QED
  BY <1>1

\* What each state of a call amounts to for the caller.
LEMMA KnownValues ==
    /\ Known("idle") = "idle" /\ Known("waiting") = "pending"
    /\ Known("selecting") = "pending" /\ Known("draining") = "pending"
    /\ Known("ok") = "ok" /\ Known("returned") = "failed" /\ Known("nacked") = "failed"
    /\ Known("abandoned") = "failed" /\ Known("refused") = "failed"
  BY DEF Known, Holding

\* A step that routes nothing leaves the arrived messages alone.
LEMMA NothingRouted ==
    ASSUME \A n \in Message : at'[n] = "routed" <=> at[n] = "routed"
    PROVE  UNCHANGED { m \in Message : at[m] = "routed" }
  OBVIOUS

\* A call that goes on after the mutex, or ends, is a step of the abstract call.
LEMMA AbstractCallStep ==
    ASSUME Inv, NEW m \in Message, Publishing(m)
    PROVE  [Abstract!Next]_Abstract!vars
<1> DEFINE known == [n \in Message |-> Known(call[n])]
           arrived == { n \in Message : at[n] = "routed" }
<1>0. TypeOK /\ known[m] = Known(call[m])
  BY DEF Inv
<1>1. \A n \in Message : at'[n] = "routed" <=> at[n] = "routed"
  <2>1. CASE UNCHANGED at
    BY <2>1
  <2>2. CASE In(m, "waiting") /\ at' = [at EXCEPT ![m] = "sent"]
    BY <1>0, <2>2 DEF Inv, UnsentBefore, In, TypeOK
  <2> QED
    BY <2>1, <2>2
    DEF Publishing, Call, Send, Refuse, TakeReturn, Done, Drained, GiveUp, brokerVars
<1>2. UNCHANGED arrived
  BY <1>1
<1>3. ASSUME NEW s, Goto(m, s), Known(s) = "failed", Known(call[m]) = "pending"
      PROVE  Abstract!Fail(m)
  BY <1>0, <1>2, <1>3, KnownStep DEF Abstract!Fail
<1>4. ASSUME NEW s, Goto(m, s), Known(s) = Known(call[m]) PROVE UNCHANGED Abstract!vars
  <2>1. known' = [known EXCEPT ![m] = Known(s)]
    BY <1>0, <1>4, KnownStep
  <2>2. known' = known
    BY <1>0, <1>4, <2>1
  <2> QED
    BY <1>2, <2>2 DEF Abstract!vars
<1>5. CASE Call(m)
  <2>1. Abstract!Begin(m)
    BY <1>0, <1>2, <1>5, KnownStep, KnownValues DEF Call, In, Abstract!Begin
  <2> QED
    BY <2>1 DEF Abstract!Next
<1>6. CASE Send(m)
  BY <1>4, <1>6, KnownValues DEF Send, In
<1>7. CASE Refuse(m)
  <2>1. Abstract!Fail(m)
    BY <1>3, <1>7, KnownValues DEF Refuse, In
  <2> QED
    BY <2>1 DEF Abstract!Next
<1>8. CASE TakeReturn(m)
  <2>1. Known(call[m]) = "pending"
    BY <1>8, KnownValues DEF TakeReturn, Holding
  <2>2. Abstract!Fail(m)
    BY <1>3, <1>8, <2>1, KnownValues DEF TakeReturn
  <2> QED
    BY <2>2 DEF Abstract!Next
<1>9. CASE Done(m)
  <2>1. CASE Goto(m, "draining")
    BY <1>4, <1>9, <2>1, KnownValues DEF Done, In
  <2>2. CASE Goto(m, "nacked")
    <3>1. Abstract!Fail(m)
      BY <1>3, <1>9, <2>2, KnownValues DEF Done, In
    <3> QED
      BY <3>1 DEF Abstract!Next
  <2> QED
    BY <1>9, <2>1, <2>2 DEF Done
<1>10. CASE Drained(m)
  <2>1. m \in arrived
    BY <1>10 DEF Inv, DrainingIsSettled, Settled, Drained, In
  <2>2. Abstract!Succeed(m)
    BY <1>0, <1>2, <1>10, <2>1, KnownStep, KnownValues DEF Drained, In, Abstract!Succeed
  <2> QED
    BY <2>2 DEF Abstract!Next
<1>11. CASE GiveUp(m)
  <2>1. Abstract!Fail(m)
    BY <1>3, <1>11, KnownValues DEF GiveUp, In
  <2> QED
    BY <2>1 DEF Abstract!Next
<1> QED
  BY <1>5, <1>6, <1>7, <1>8, <1>9, <1>10, <1>11 DEF Publishing

\* Only routing a message is seen of the broker.
LEMMA AbstractBrokerStep ==
    ASSUME Inv, UNCHANGED call,
           UNCHANGED at \/ \E m \in Message : Route(m) \/ Bounce(m) \/ Answer(m)
    PROVE  [Abstract!Next]_Abstract!vars
<1> DEFINE arrived == { n \in Message : at[n] = "routed" }
<1>1. ASSUME NEW m \in Message, Route(m) PROVE Abstract!Arrive(m)
  <2>1. at[m] = "sent" /\ call[m] \in CallState
    BY <1>1 DEF Route, Inv, TypeOK
  <2>2. Known(call[m]) # "idle"
    BY <2>1, KnownValues DEF Inv, UnsentBefore, CallState, Holding, Outcome
  <2>3. arrived' = arrived \union {m}
    BY <1>1 DEF Route, Inv, TypeOK
  <2> QED
    BY <2>2, <2>3 DEF Abstract!Arrive
<1>2. ASSUME NEW m \in Message, Bounce(m) \/ Answer(m) PROVE UNCHANGED arrived
  <2>1. \A n \in Message : at'[n] = "routed" <=> at[n] = "routed"
    BY <1>2 DEF Bounce, Answer, Inv, TypeOK
  <2> QED
    BY <2>1
<1> QED
  BY <1>1, <1>2 DEF Abstract!Next, Abstract!vars

\* The channel with its late returns implements what the callers rely on: every
\* step is a step of the abstract publish or a stutter (its fairness is checked
\* by TLC).
THEOREM Implements == Spec => Abstract!Init /\ [][Abstract!Next]_Abstract!vars
<1>1. Init => Abstract!Init
  <2> SUFFICES ASSUME Init PROVE Abstract!Init
    OBVIOUS
  <2>1. \A m \in Message : call[m] = "idle" /\ at[m] = "unsent"
    BY DEF Init
  <2> QED
    BY <2>1, KnownValues DEF Abstract!Init
<1>2. Inv /\ [Next]_vars => [Abstract!Next]_Abstract!vars
  BY AbstractCallStep, AbstractBrokerStep
  DEF Next, Route, Bounce, Answer, Read, Close, vars
<1> QED
  BY <1>1, <1>2, Invariance, PTL DEF Spec
=============================================================================
