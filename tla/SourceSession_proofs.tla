------------------------ MODULE SourceSession_proofs ------------------------
(* Proofs about SourceSession, for any addresses, ranges, names, sessions and *)
(* bounds.                                                                    *)
(*                                                                            *)
(* A dialer is never replaced, so what a session finds under its name is what *)
(* it registered: the first address of the answer it validated.  The rows     *)
(* read and the rows still to come are together those asked for.              *)
EXTENDS SourceSession, ResultCells_proofs

\* What a session may rely on once it has validated its target and built its
\* connection.
Pinned(s) ==
    /\ At(s, "idle") => ses[s].dials = {} /\ ses[s].name = NoName
    /\ At(s, "validated") => /\ Acceptable(ses[s].ips)
                             /\ ses[s].dials = {}
                             /\ ses[s].name = NoName
    /\ Stage(s) => ses[s].name # NoName
    /\ At(s, "generate") => ses[s].name # NoName
    /\ ses[s].dials # {} => ses[s].name # NoName
    /\ ses[s].name # NoName => /\ Acceptable(ses[s].ips)
                               /\ dialer[ses[s].name] = ses[s].ips[1]
                               /\ ses[s].plain => AllInAllowlist(ses[s].ips)
    /\ \A d \in ses[s].dials : d.addr = ses[s].ips[1] /\ d.plain = ses[s].plain

Untouched == {"idle", "validated", "ping", "schema", "generate"}

Rows(s) ==
    /\ ses[s].got + ses[s].left = ses[s].want
    /\ ses[s].want <= MaxRows
    /\ ses[s].pc \in Untouched => ses[s].left = 0 /\ ses[s].got = 0
    /\ At(s, "ok") => ses[s].left = 0

IInv == /\ TypeOK
        /\ \A s \in Session : Pinned(s)
        /\ \A s \in Session : Rows(s)
-----------------------------------------------------------------------------
\* An accepted answer has a first address, and it is one the guard permits.
\* (netguard.Validate.)
LEMMA FirstAddress ==
    ASSUME NEW ips \in Seq(Addr), Acceptable(ips)
    PROVE  1 \in DOMAIN ips /\ ips[1] \in Addr /\ Permitted(ips[1])
  <1>1. Len(ips) \in Nat /\ Len(ips) > 0 /\ DOMAIN ips = 1..Len(ips)
    BY DEF Acceptable
  <1>2. 1 \in DOMAIN ips
    BY <1>1
  <1> QED
    BY <1>2 DEF Acceptable

\* Every answer of the resolver is a sequence of addresses.
LEMMA AnswerIsSeq == Answer \subseteq Seq(Addr)
  BY BoundsAssumption DEF Answer

\* The guard's rewriting keeps what the statement asks for, up to the maximum.
\* (rewriteLimit and verifyOutermostLimit.)
LEMMA RewriteKeeps ==
    ASSUME NEW l \in Limit, NEW size \in Nat, Rewritable(l), Verified(Rewritten(l))
    PROVE  /\ Yield(l, size) \in Nat
           /\ Yield(Rewritten(l), size) = AtMost(Yield(l, size), MaxRows)
           /\ AtMost(Yield(l, size), MaxRows) \in 0..MaxRows
  <1> DEFINE skipped == AtMost(IF l.offset = Missing THEN 0 ELSE l.offset, size)
             rest == size - skipped
  <1>1. l.count \in {Missing, NotALiteral} \union Literal
        /\ l.offset \in {Missing, NotALiteral} \union Literal
    BY DEF Limit
  <1>2. MaxRows \in Nat /\ MaxRows > 0
    BY BoundsAssumption
  <1>3. l.count # NotALiteral /\ l.offset # NotALiteral
    BY <1>1 DEF Rewritable, Limit, Missing, NotALiteral
  <1>4. rest \in 0..size
    BY <1>1, <1>2, <1>3 DEF AtMost, Missing, Literal, NotALiteral
  <1>5. Rewritten(l).offset = l.offset
        /\ Rewritten(l).count = IF l.count = Missing \/ l.count > MaxRows THEN MaxRows ELSE l.count
    BY DEF Rewritten, Limit
  <1>6. Yield(l, size) = IF l.count = Missing THEN rest ELSE AtMost(l.count, rest)
    BY DEF Yield
  <1>7. Yield(Rewritten(l), size) =
          AtMost(IF l.count = Missing \/ l.count > MaxRows THEN MaxRows ELSE l.count, rest)
    BY <1>1, <1>2, <1>5 DEF Yield, Missing
  <1> HIDE DEF rest
  <1> QED
    BY <1>1, <1>2, <1>3, <1>4, <1>6, <1>7 DEF AtMost, Missing, Literal, NotALiteral
-----------------------------------------------------------------------------
\* The invariant holds before any session starts.
LEMMA InitHolds == Init => IInv
  <1> SUFFICES ASSUME Init PROVE IInv
    OBVIOUS
  <1>1. TypeOK
    BY BoundsAssumption DEF Init, TypeOK, SessionState, PC
  <1>2. \A s \in Session : Pinned(s)
    BY DEF Init, Pinned, At, Stage
  <1>3. \A s \in Session : Rows(s)
    BY BoundsAssumption DEF Init, Rows, At
  <1> QED
    BY <1>1, <1>2, <1>3 DEF IInv

\* The dialer of a name a session has registered stays what it is.
StepOf(s) ==
    /\ \A t \in Session \ {s} : ses'[t] = ses[t]
    /\ \A n \in Name : dialer[n] # NoAddr => dialer'[n] = dialer[n]

\* A step of one session leaves the other sessions as they were.
LEMMA OthersUntouched ==
    ASSUME IInv, NEW s \in Session, StepOf(s), NEW t \in Session, t # s
    PROVE  Pinned(t)' /\ Rows(t)'
  <1>1. ses'[t] = ses[t] /\ Pinned(t) /\ Rows(t) /\ ses[t] \in SessionState
    BY DEF StepOf, IInv, TypeOK
  <1>2. Rows(t)'
    BY <1>1 DEF Rows, At
  <1>3. ASSUME ses[t].name # NoName PROVE dialer'[ses[t].name] = dialer[ses[t].name]
    <2>1. Acceptable(ses[t].ips) /\ dialer[ses[t].name] = ses[t].ips[1]
      BY <1>1, <1>3 DEF Pinned
    <2>2. ses[t].name \in Name /\ ses[t].ips \in Seq(Addr)
      BY <1>1, <1>3 DEF SessionState
    <2>3. dialer[ses[t].name] # NoAddr
      BY <2>1, <2>2, FirstAddress, NameAssumption
    <2> QED
      BY <2>2, <2>3 DEF StepOf
  <1>4. Pinned(t)'
    BY <1>1, <1>3 DEF Pinned, At, Stage
  <1> QED
    BY <1>2, <1>4
-----------------------------------------------------------------------------
\* What an action has to show of the session s that takes it.
Kept(s) == TypeOK' /\ StepOf(s) /\ Pinned(s)' /\ Rows(s)'

\* A step that gives session s the state r and replaces no dialer.
LEMMA Replaced ==
    ASSUME TypeOK, NEW s \in Session, NEW r \in SessionState,
           ses' = [ses EXCEPT ![s] = r],
           dialer' \in [Name -> Addr \union {NoAddr}],
           \A n \in Name : dialer[n] # NoAddr => dialer'[n] = dialer[n]
    PROVE  TypeOK' /\ StepOf(s) /\ ses'[s] = r
  BY DEF TypeOK, StepOf

\* The network guard's verdict keeps the invariant.
LEMMA ValidateKeeps ==
    ASSUME IInv, NEW s \in Session, NEW job \in BOOLEAN, NEW plain \in BOOLEAN,
           NEW answer \in Answer, Validate(s, job, plain, answer)
    PROVE  Kept(s)
  <1> DEFINE r == [ses[s] EXCEPT !.pc = "validated", !.job = job,
                                 !.plain = plain, !.ips = answer]
  <1>1. /\ ses[s] \in SessionState /\ ses[s].pc = "idle" /\ Pinned(s) /\ Rows(s)
        /\ Acceptable(answer)
        /\ ses' = [ses EXCEPT ![s] = r]
        /\ dialer' = dialer
    BY DEF IInv, TypeOK, Validate, At
  <1>2. r \in SessionState
    BY <1>1, AnswerIsSeq DEF SessionState, PC
  <1>3. TypeOK' /\ StepOf(s) /\ ses'[s] = r
    BY <1>1, <1>2, Replaced DEF IInv, TypeOK
  <1>4. Pinned(s)'
    BY <1>1, <1>3 DEF Pinned, Stage, SessionState, At
  <1>5. Rows(s)'
    BY <1>1, <1>3 DEF Rows, SessionState, Untouched, At
  <1> QED
    BY <1>3, <1>4, <1>5 DEF Kept

\* Registering the pinned dialer and building the handle keep the invariant.
LEMMA BuildDBKeeps ==
    ASSUME IInv, NEW s \in Session, NEW n \in Name, BuildDB(s, n)
    PROVE  Kept(s)
  <1> DEFINE next == IF ses[s].job THEN "schema" ELSE "ping"
             r == [ses[s] EXCEPT !.pc = next, !.name = n]
  <1>1. /\ ses[s] \in SessionState /\ ses[s].pc = "validated" /\ Pinned(s) /\ Rows(s)
        /\ dialer \in [Name -> Addr \union {NoAddr}]
        /\ dialer[n] = NoAddr
        /\ ses[s].plain => AllInAllowlist(ses[s].ips)
        /\ ses' = [ses EXCEPT ![s] = r]
        /\ dialer' = [dialer EXCEPT ![n] = ses[s].ips[1]]
    BY DEF IInv, TypeOK, BuildDB, At
  <1>2. Acceptable(ses[s].ips) /\ ses[s].ips[1] \in Addr
    BY <1>1, FirstAddress DEF Pinned, SessionState, At
  <1>3. next \in {"schema", "ping"}
    OBVIOUS
  <1> HIDE DEF next
  <1>4. r \in SessionState
    BY <1>1, <1>3 DEF SessionState, PC
  <1>5. TypeOK' /\ StepOf(s) /\ ses'[s] = r
    BY <1>1, <1>2, <1>4, Replaced DEF IInv, TypeOK
  <1>6. Pinned(s)'
    BY <1>1, <1>2, <1>3, <1>5, NameAssumption DEF Pinned, Stage, SessionState, At
  <1>7. Rows(s)'
    BY <1>1, <1>3, <1>5 DEF Rows, SessionState, Untouched, At
  <1> QED
    BY <1>5, <1>6, <1>7 DEF Kept

\* Dialling the registered address keeps the invariant.
LEMMA ConnectKeeps ==
    ASSUME IInv, NEW s \in Session, Connect(s)
    PROVE  Kept(s)
  <1> USE DEF IInv, TypeOK, At
  <1>1. Pinned(s) /\ Rows(s) /\ ses[s] \in SessionState
    OBVIOUS
  <1>2. /\ ses[s].name # NoName
        /\ Acceptable(ses[s].ips)
        /\ dialer[ses[s].name] = ses[s].ips[1]
    BY <1>1 DEF Connect, Pinned
  <1>3. ses[s].ips[1] \in Addr
    BY <1>1, <1>2, FirstAddress DEF SessionState
  <1> DEFINE d == [addr |-> ses[s].ips[1], plain |-> ses[s].plain, stage |-> ses[s].pc]
  <1>4. /\ ses' = [ses EXCEPT ![s].dials = @ \union {d}]
        /\ UNCHANGED dialer
        /\ Stage(s)
    BY <1>2 DEF Connect, Dialled
  <1>5. d \in [addr : Addr, plain : BOOLEAN, stage : PC]
    BY <1>1, <1>3 DEF SessionState
  <1>6. d.addr = ses[s].ips[1] /\ d.plain = ses[s].plain
    OBVIOUS
  <1> HIDE DEF d
  <1>7. TypeOK' /\ StepOf(s)
    BY <1>4, <1>5 DEF SessionState, StepOf
  <1>8. Pinned(s)'
    BY <1>1, <1>2, <1>4, <1>6 DEF Pinned, Stage, SessionState
  <1>9. Rows(s)'
    BY <1>1, <1>4 DEF Rows, SessionState
  <1> QED
    BY <1>7, <1>8, <1>9 DEF Kept

\* Ping, ReadSchema, Query, Finish: only the place of the session changes.
LEMMA MovesKeep ==
    ASSUME IInv, NEW s \in Session, Ping(s) \/ ReadSchema(s) \/ Query(s) \/ Finish(s)
    PROVE  Kept(s)
  <1>1. /\ ses[s] \in SessionState /\ Pinned(s) /\ Rows(s)
        /\ dialer \in [Name -> Addr \union {NoAddr}]
        /\ dialer' = dialer
        /\ MaxRows \in Nat
    BY BoundsAssumption DEF IInv, TypeOK, Ping, ReadSchema, Query, Finish
  <1>2. PICK next \in PC :
          /\ ses' = [ses EXCEPT ![s] = [ses[s] EXCEPT !.pc = next]]
          /\ \/ ses[s].pc = "ping" /\ next = "ok"
             \/ ses[s].pc = "schema" /\ next = "generate"
             \/ ses[s].pc = "query" /\ next = "fetch"
             \/ /\ ses[s].pc = "fetch" /\ next = "ok"
                /\ ses[s].left = 0 \/ ses[s].got = MaxRows
    BY DEF PC, At, Goto, Ping, ReadSchema, Query, Finish
  <1> DEFINE r == [ses[s] EXCEPT !.pc = next]
  <1>3. r \in SessionState
    BY <1>1 DEF SessionState
  <1>4. TypeOK' /\ StepOf(s) /\ ses'[s] = r
    BY <1>1, <1>2, <1>3, Replaced DEF IInv
  <1>5. Pinned(s)'
    BY <1>1, <1>2, <1>4 DEF Pinned, Stage, SessionState, At
  <1>6. Rows(s)'
    BY <1>1, <1>2, <1>4 DEF Rows, SessionState, Untouched, At
  <1> QED
    BY <1>4, <1>5, <1>6 DEF Kept

\* Checking the statement and rewriting its LIMIT keep the invariant.
LEMMA GenerateKeeps ==
    ASSUME IInv, NEW s \in Session, NEW l \in Limit, NEW size \in 0..MaxTable,
           Generate(s, l, size)
    PROVE  Kept(s)
  <1> DEFINE want == AtMost(Yield(l, size), MaxRows)
             r == [ses[s] EXCEPT !.pc = "query", !.want = want, !.left = want]
  <1>1. size \in Nat /\ MaxRows \in Nat
    BY BoundsAssumption
  <1>2. Yield(Rewritten(l), size) = want /\ want \in 0..MaxRows
    BY <1>1, RewriteKeeps DEF Generate
  <1>3. /\ ses[s] \in SessionState /\ ses[s].pc = "generate" /\ Pinned(s) /\ Rows(s)
        /\ ses' = [ses EXCEPT ![s] = r]
        /\ dialer' = dialer
    BY <1>2 DEF IInv, TypeOK, Generate, At
  <1> HIDE DEF want
  <1>4. r \in SessionState
    <2>1. want \in Nat
      BY <1>1, <1>2
    <2> QED
      BY <1>3, <2>1 DEF SessionState, PC
  <1>5. TypeOK' /\ StepOf(s) /\ ses'[s] = r
    BY <1>3, <1>4, Replaced DEF IInv, TypeOK
  <1>6. Pinned(s)'
    BY <1>3, <1>5 DEF Pinned, Stage, SessionState, At
  <1>7. Rows(s)'
    BY <1>1, <1>2, <1>3, <1>5 DEF Rows, SessionState, Untouched, At
  <1> QED
    BY <1>5, <1>6, <1>7 DEF Kept

\* Reading one more row keeps the invariant.
LEMMA FetchKeeps ==
    ASSUME IInv, NEW s \in Session, Fetch(s)
    PROVE  Kept(s)
  <1> DEFINE r == [ses[s] EXCEPT !.left = ses[s].left - 1, !.got = ses[s].got + 1]
  <1>1. /\ ses[s] \in SessionState /\ ses[s].pc = "fetch" /\ Pinned(s) /\ Rows(s)
        /\ ses[s].left > 0 /\ ses[s].got < MaxRows
        /\ ses' = [ses EXCEPT ![s] = r]
        /\ dialer' = dialer
        /\ MaxRows \in Nat
    BY BoundsAssumption DEF IInv, TypeOK, Fetch, At
  <1>2. r \in SessionState
    <2>1. ses[s].left - 1 \in Nat /\ ses[s].got + 1 \in 0..MaxRows
      BY <1>1 DEF SessionState
    <2> QED
      BY <1>1, <2>1 DEF SessionState
  <1>3. TypeOK' /\ StepOf(s) /\ ses'[s] = r
    BY <1>1, <1>2, Replaced DEF IInv, TypeOK
  <1>4. Pinned(s)'
    BY <1>1, <1>3 DEF Pinned, Stage, SessionState, At
  <1>5. Rows(s)'
    BY <1>1, <1>3 DEF Rows, SessionState, Untouched, At
  <1> QED
    BY <1>3, <1>4, <1>5 DEF Kept

\* A failing session keeps the invariant.
LEMMA FailKeeps ==
    ASSUME IInv, NEW s \in Session, Fail(s)
    PROVE  Kept(s)
  <1> DEFINE r == [ses[s] EXCEPT !.pc = "failed", !.want = 0, !.left = 0, !.got = 0]
  <1>1. /\ ses[s] \in SessionState /\ Pinned(s)
        /\ ses' = [ses EXCEPT ![s] = r]
        /\ dialer' = dialer
        /\ MaxRows \in Nat
    BY BoundsAssumption DEF IInv, TypeOK, Fail
  <1>2. r \in SessionState
    <2>1. 0 \in Nat /\ 0 \in 0..MaxRows
      BY <1>1
    <2> QED
      BY <1>1, <2>1 DEF SessionState, PC
  <1>3. TypeOK' /\ StepOf(s) /\ ses'[s] = r
    BY <1>1, <1>2, Replaced DEF IInv, TypeOK
  <1>4. Pinned(s)'
    BY <1>1, <1>3 DEF Pinned, Stage, SessionState, At
  <1>5. Rows(s)'
    <2>1. /\ ses'[s].want = 0 /\ ses'[s].left = 0 /\ ses'[s].got = 0
          /\ ses'[s].pc = "failed"
      BY <1>1, <1>3 DEF SessionState
    <2> QED
      BY <1>1, <2>1 DEF Rows, At
  <1> QED
    BY <1>3, <1>4, <1>5 DEF Kept

\* Every step of every session preserves the invariant.
LEMMA StepHolds == IInv /\ [Next]_vars => IInv'
  <1> SUFFICES ASSUME IInv, [Next]_vars PROVE IInv'
    OBVIOUS
  <1>1. CASE UNCHANGED vars
    BY <1>1 DEF vars, IInv, TypeOK, Pinned, Rows, At, Stage
  <1>2. CASE Next
    <2>1. PICK s \in Session : Kept(s)
      BY <1>2, ValidateKeeps, BuildDBKeeps, ConnectKeeps, MovesKeep, GenerateKeeps,
         FetchKeeps, FailKeeps DEF Next
    <2>2. \A t \in Session : Pinned(t)' /\ Rows(t)'
      BY <2>1, OthersUntouched DEF Kept
    <2> QED
      BY <2>1, <2>2 DEF IInv, Kept
  <1> QED
    BY <1>1, <1>2

\* In every reachable state: dialers stay what they were registered as, a session
\* is pinned to the first address of its own answer, and its rows add up.
THEOREM Invariance == Spec => []IInv
  BY InitHolds, StepHolds, PTL DEF Spec
-----------------------------------------------------------------------------
\* Variables keep their types; no more rows are read than MAX_QUERY_ROWS.
THEOREM TypeCorrect == Spec => []TypeOK
  <1>1. IInv => TypeOK
    BY DEF IInv
  <1> QED
    BY <1>1, Invariance, PTL

\* A session dials one address only, which it validated itself, for any number of
\* sessions, whatever the resolver answers.  (buildDB, Validate.)
THEOREM TargetCorrect == Spec => []OneTargetOfItsOwn
  <1>1. IInv => OneTargetOfItsOwn
    <2> SUFFICES ASSUME IInv, NEW s \in Session, NEW d \in ses[s].dials
                 PROVE  /\ Permitted(d.addr)
                        /\ \E i \in DOMAIN ses[s].ips : ses[s].ips[i] = d.addr
                        /\ \A e \in ses[s].dials : e.addr = d.addr
      BY DEF OneTargetOfItsOwn
    <2>1. Acceptable(ses[s].ips) /\ d.addr = ses[s].ips[1] /\ ses[s].ips \in Seq(Addr)
      BY DEF IInv, TypeOK, SessionState, Pinned
    <2>2. \A e \in ses[s].dials : e.addr = d.addr
      BY <2>1 DEF IInv, Pinned
    <2> QED
      BY <2>1, <2>2, FirstAddress
  <1> QED
    BY <1>1, Invariance, PTL

\* No plaintext connection leaves the allowlist.  (buildDB, AllInAllowlist.)
THEOREM PlaintextCorrect == Spec => []PlaintextOnlyToAllowlisted
  <1>1. IInv => PlaintextOnlyToAllowlisted
    <2> SUFFICES ASSUME IInv, NEW s \in Session, NEW d \in ses[s].dials, d.plain
                 PROVE  d.addr \in Allowlisted
      BY DEF PlaintextOnlyToAllowlisted
    <2>1. /\ Acceptable(ses[s].ips) /\ ses[s].ips \in Seq(Addr)
          /\ d.addr = ses[s].ips[1]
          /\ AllInAllowlist(ses[s].ips)
      BY DEF IInv, TypeOK, SessionState, Pinned
    <2> QED
      BY <2>1, FirstAddress DEF AllInAllowlist
  <1> QED
    BY <1>1, Invariance, PTL

\* A run that succeeds returns every row its statement asks for, up to the
\* maximum, for any MAX_QUERY_ROWS.  (rewriteLimit, Execute.)
THEOREM RowsCorrect == Spec => []ResultIsWhole
  <1>1. IInv => ResultIsWhole
    <2> SUFFICES ASSUME IInv, NEW s \in Session, At(s, "ok")
                 PROVE  ses[s].got = ses[s].want
      BY DEF ResultIsWhole
    <2>1. ses[s] \in SessionState /\ Rows(s)
      BY DEF IInv, TypeOK
    <2> QED
      BY <2>1, BoundsAssumption DEF Rows, SessionState
  <1> QED
    BY <1>1, Invariance, PTL

\* For any values, strings and widths: integers, NULLs and UTF-8 strings reach the
\* API as they are stored, floating-point numbers as numbers with the same float64.
\* (convertCell, Marshal, decodeCachedResult.)
THEOREM AnswersCorrect == Spec => []AnsweredAsStored
  <1>1. AnsweredAsStored
    BY CellsCorrect, ValueAssumption DEF AnsweredAsStored
  <1> QED
    BY <1>1, PTL
=============================================================================
