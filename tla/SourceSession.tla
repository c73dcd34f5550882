---------------------------- MODULE SourceSession ----------------------------
(* The sessions in which askdb talks to a user's database: the connection test *)
(* of the API, and the run of a job in a worker, which reads the schema, lets  *)
(* the guard rewrite the generated statement and fetches its rows.             *)
(*                                                                             *)
(* Every name lookup may give another answer.  The MySQL driver finds the      *)
(* dialer of a connection by name in a table all sessions of the process       *)
(* share, and dials again for every query, since no idle connection is kept.   *)
EXTENDS ResultCells, Sequences

CONSTANTS Addr,         \* addresses a host name may resolve to
          Blocked,      \* those in the blocked ranges
          Allowlisted,  \* those in PRIVATE_HOST_ALLOWLIST
          NoAddr,       \* what a name no dialer is registered under maps to
          Name,         \* the random names of dialers
          NoName,       \* the name of a session that has not registered one
          Session,      \* calls of TestConnection and of runPipeline
          Value,        \* values in the tables of a user
          MaxRows,      \* MAX_QUERY_ROWS, of the guard and of the executor
          MaxTable,     \* bound: rows that the tables of a user give
          MaxAnswer     \* bound: addresses in one answer of the resolver

ASSUME NameAssumption == NoAddr \notin Addr /\ NoName \notin Name
ASSUME ValueAssumption == Value \subseteq Int \union Text
ASSUME BoundsAssumption ==
    MaxRows \in Nat \ {0} /\ MaxTable \in Nat /\ MaxAnswer \in Nat

VARIABLES ses,       \* the sessions
          dialer     \* the driver's table of dialers: the address each one dials

vars == <<ses, dialer>>

PC == { "idle", "validated", "ping", "schema", "generate", "query", "fetch",
        "ok", "failed" }

\* want is kept for the properties: the rows the generated statement asks for.
SessionState == [ pc : PC, job : BOOLEAN, plain : BOOLEAN,
                  ips : Seq(Addr), name : Name \union {NoName},
                  dials : SUBSET [addr : Addr, plain : BOOLEAN, stage : PC],
                  want : Nat, left : Nat, got : 0..MaxRows ]

TypeOK ==
    /\ ses \in [Session -> SessionState]
    /\ dialer \in [Name -> Addr \union {NoAddr}]

Init ==
    /\ ses = [s \in Session |->
                [ pc |-> "idle", job |-> FALSE, plain |-> FALSE, ips |-> <<>>,
                  name |-> NoName, dials |-> {}, want |-> 0, left |-> 0, got |-> 0 ]]
    /\ dialer = [n \in Name |-> NoAddr]

At(s, pc) == ses[s].pc = pc
Goto(s, pc) == ses' = [ses EXCEPT ![s].pc = pc]
-----------------------------------------------------------------------------
\* netguard.

\* checkIP: the allowlist takes precedence over the blocked ranges.
Permitted(a) == a \in Allowlisted \/ a \notin Blocked

\* Validate: every address of the answer is checked, not only the first.
Acceptable(answer) == answer # <<>> /\ \A i \in DOMAIN answer : Permitted(answer[i])

\* Mutant of AllInAllowlist: one covered address is enough.
AllInAllowlist_Any(ips) == \E i \in DOMAIN ips : ips[i] \in Allowlisted

AllInAllowlist(ips) == ips # <<>> /\ \A i \in DOMAIN ips : ips[i] \in Allowlisted

Answer == UNION {[1..n -> Addr] : n \in 0..MaxAnswer}

\* The row is read and its password decrypted, the name is looked up.
Validate(s, job, plain, answer) ==
    /\ At(s, "idle")
    /\ Acceptable(answer)
    /\ ses' = [ses EXCEPT ![s].pc = "validated", ![s].job = job,
                          ![s].plain = plain, ![s].ips = answer]
    /\ UNCHANGED dialer
-----------------------------------------------------------------------------
\* buildDB and the connections the driver makes.

\* Mutant of BuildDB: the dialer is not registered.
BuildDB_Unregistered(s, n) ==
    /\ At(s, "validated")
    /\ ses[s].plain => AllInAllowlist(ses[s].ips)
    /\ ses' = [ses EXCEPT ![s].pc = IF ses[s].job THEN "schema" ELSE "ping",
                          ![s].name = n]
    /\ UNCHANGED dialer

\* Mutant of BuildDB: the name need not be a fresh one.
BuildDB_AnyName(s, n) ==
    /\ At(s, "validated")
    /\ ses[s].plain => AllInAllowlist(ses[s].ips)
    /\ dialer' = [dialer EXCEPT ![n] = ses[s].ips[1]]
    /\ ses' = [ses EXCEPT ![s].pc = IF ses[s].job THEN "schema" ELSE "ping",
                          ![s].name = n]

\* A random name is taken to be a fresh one.  Nothing ever removes an entry.
BuildDB(s, n) ==
    /\ At(s, "validated")
    /\ dialer[n] = NoAddr
    /\ ses[s].plain => AllInAllowlist(ses[s].ips)
    /\ dialer' = [dialer EXCEPT ![n] = ses[s].ips[1]]
    /\ ses' = [ses EXCEPT ![s].pc = IF ses[s].job THEN "schema" ELSE "ping",
                          ![s].name = n]

Stage(s) == ses[s].pc \in {"ping", "schema", "query"}

\* Whatever the host resolves to by now, the dialer has the address it dials.
Dialled(s) == {dialer[ses[s].name]}

\* The database is dialled for the next query.  An attempt that is not answered
\* counts too, and the driver may make several.
Connect(s) ==
    /\ Stage(s)
    /\ \E a \in Dialled(s) :
          ses' = [ses EXCEPT ![s].dials =
                     @ \union {[addr |-> a, plain |-> ses[s].plain, stage |-> ses[s].pc]}]
    /\ UNCHANGED dialer

Connected(s) == \E d \in ses[s].dials : d.stage = ses[s].pc

\* The ping is answered.
Ping(s) ==
    /\ At(s, "ping") /\ Connected(s)
    /\ Goto(s, "ok")
    /\ UNCHANGED dialer

ReadSchema(s) ==
    /\ At(s, "schema") /\ Connected(s)
    /\ Goto(s, "generate")
    /\ UNCHANGED dialer
-----------------------------------------------------------------------------
\* The guard: LIMIT <count> OFFSET <offset> of the outermost query.

Missing == -1
NotALiteral == -2    \* a parameter, an expression, a negative number
Literal == 0..(MaxRows + 1)
Limit == { l \in [count : {Missing, NotALiteral} \union Literal,
                  offset : {Missing, NotALiteral} \union Literal] :
           l.count = Missing => l.offset = Missing }

\* rewriteLimit: what it rejects.
Rewritable(l) ==
    \/ l.count = Missing
    \/ l.count # NotALiteral /\ l.offset # NotALiteral /\ l.offset <= MaxRows

Rewritten(l) ==
    IF l.count = Missing \/ l.count > MaxRows THEN [l EXCEPT !.count = MaxRows] ELSE l

\* verifyOutermostLimit, of the statement that was rewritten and parsed again.
Verified(l) == l.count \in 1..MaxRows

AtMost(a, b) == IF a <= b THEN a ELSE b

\* How many of the size rows of a query are left by its LIMIT.
Yield(l, size) ==
    LET skipped == AtMost(IF l.offset = Missing THEN 0 ELSE l.offset, size)
    IN  IF l.count = Missing THEN size - skipped ELSE AtMost(l.count, size - skipped)

\* The statement is generated for the schema and passes the guard.
Generate(s, l, size) ==
    /\ At(s, "generate")
    /\ Rewritable(l)
    /\ Verified(Rewritten(l))
    /\ ses' = [ses EXCEPT ![s].pc = "query",
                          ![s].want = AtMost(Yield(l, size), MaxRows),
                          ![s].left = Yield(Rewritten(l), size)]
    /\ UNCHANGED dialer
-----------------------------------------------------------------------------
\* Executor.Execute.  It dials again: a connection is not kept after the schema.

Query(s) ==
    /\ At(s, "query") /\ Connected(s)
    /\ Goto(s, "fetch")
    /\ UNCHANGED dialer

\* rows.Next and rows.Scan.
Fetch(s) ==
    /\ At(s, "fetch")
    /\ ses[s].left > 0
    /\ ses[s].got < MaxRows
    /\ ses' = [ses EXCEPT ![s].left = @ - 1, ![s].got = @ + 1]
    /\ UNCHANGED dialer

\* Mutant of Finish: rows.Err is not looked at after the loop.
Finish_Unchecked(s) ==
    /\ At(s, "fetch")
    /\ Goto(s, "ok")
    /\ UNCHANGED dialer

\* The loop ended at the last row or at the cap, and rows.Err is nil.
Finish(s) ==
    /\ At(s, "fetch")
    /\ ses[s].left = 0 \/ ses[s].got = MaxRows
    /\ Goto(s, "ok")
    /\ UNCHANGED dialer

\* A name, an address or a statement is refused, a query fails, the connection
\* breaks or the time is up.  Rows read so far are not returned.
Fail(s) ==
    /\ ses[s].pc \notin {"ok", "failed"}
    /\ ses' = [ses EXCEPT ![s].pc = "failed", ![s].want = 0, ![s].left = 0, ![s].got = 0]
    /\ UNCHANGED dialer
-----------------------------------------------------------------------------
Next ==
    \E s \in Session :
        \/ \E job, plain \in BOOLEAN, answer \in Answer : Validate(s, job, plain, answer)
        \/ \E n \in Name : BuildDB(s, n)
        \/ Connect(s)
        \/ Ping(s)
        \/ ReadSchema(s)
        \/ \E l \in Limit, size \in 0..MaxTable : Generate(s, l, size)
        \/ Query(s)
        \/ Fetch(s)
        \/ Finish(s)
        \/ Fail(s)

Spec == Init /\ [][Next]_vars
-----------------------------------------------------------------------------
\* All connections of a session go to one address, one that the answer to its own
\* lookup held and that the network guard permits, whichever other sessions
\* register their dialers in between and whatever the name resolves to by then; so
\* the schema a statement was generated from and the rows it returns are of one
\* server.  (buildDB pins the address and names the dialer.)
OneTargetOfItsOwn ==
    \A s \in Session : \A d \in ses[s].dials :
        /\ Permitted(d.addr)
        /\ \E i \in DOMAIN ses[s].ips : ses[s].ips[i] = d.addr
        /\ \A e \in ses[s].dials : e.addr = d.addr

\* A connection without TLS only goes to an address of the allowlist.  (buildDB
\* asks AllInAllowlist for tls_mode disabled.)
PlaintextOnlyToAllowlisted ==
    \A s \in Session : \A d \in ses[s].dials : d.plain => d.addr \in Allowlisted

\* The rows of a run that succeeds are all those the generated statement asks for,
\* up to the maximum: the rewritten LIMIT, the cap of the executor and a
\* connection that breaks half-way take none away unnoticed.  (rewriteLimit,
\* verifyOutermostLimit and Execute.)
ResultIsWhole ==
    \A s \in Session : At(s, "ok") => ses[s].got = ses[s].want

\* Whatever values the rows of a session hold, the API answers integers, NULLs and
\* UTF-8 strings as they are in the database, and floating-point numbers as numbers
\* with the same float64, after the executor, JSON and Redis.  Strings that are not
\* UTF-8 are altered.  (convertCell, Marshal, decodeCachedResult.)
AnsweredAsStored ==
    \A s \in Session : ses[s].got > 0 => \A v \in Value : Faithful(v)
=============================================================================
