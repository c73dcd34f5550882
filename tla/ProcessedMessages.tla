-------------------------- MODULE ProcessedMessages --------------------------
(* The processed_messages table: one row per message_id, the lease a worker    *)
(* holds on it while it processes the message, and the operations of           *)
(* GORMProcessedMessageRepository.  Each operation is one MySQL transaction,   *)
(* so it is one action.                                                        *)
(*                                                                             *)
(* pm[m]     the row of message_id m                                           *)
(* lease[w]  the lease token worker w received from Claim and still uses       *)
(*                                                                             *)
(* Time is abstracted to one bit per row: expired says that lease_expires_at   *)
(* is not after now.  Lease tokens are random UUIDs: a new one differs from    *)
(* every token that a row or a worker still remembers.                         *)
EXTENDS FiniteSets

CONSTANTS Worker,      \* the consumers that claim messages
          Message,     \* message ids
          Job,         \* job ids
          JobOf,       \* the job_id each message carries
          Token,       \* lease tokens
          NoToken      \* the empty token

ASSUME PMAssumption ==
    /\ JobOf \in [Message -> Job]
    /\ NoToken \notin Token

VARIABLES pm, lease
pmVars == <<pm, lease>>

PMStatus == { "absent", "processing", "retry_scheduled", "completed" }
Row == [status : PMStatus, token : Token \union {NoToken}, expired : BOOLEAN]
NoRow == [status |-> "absent", token |-> NoToken, expired |-> FALSE]

PMTypeOK ==
    /\ pm \in [Message -> Row]
    /\ lease \in [Worker -> Token \union {NoToken}]

PMInit ==
    /\ pm = [m \in Message |-> NoRow]
    /\ lease = [w \in Worker |-> NoToken]
-----------------------------------------------------------------------------
\* A row of another message_id with the same (message_type, job_id): the unique
\* key that makes the INSERT of m's row fail.
Conflicting(m) == { n \in Message \ {m} : /\ JobOf[n] = JobOf[m]
                                          /\ pm[n].status # "absent" }

Remembered == { pm[m].token : m \in Message } \union { lease[w] : w \in Worker }
FreshTokens == Token \ Remembered
NewToken == CHOOSE t \in Token : t \notin Remembered

\* The worker's token is the one in the row (every write is authenticated so).
Owns(w, m) == /\ lease[w] # NoToken
              /\ pm[m].token = lease[w]

\* ClaimAlreadyDone
AlreadyDone(m) ==
    \/ pm[m].status = "completed"
    \/ /\ pm[m].status = "absent"
       /\ \E n \in Conflicting(m) : pm[n].status = "completed"

\* ClaimLeaseHeld
LeaseHeld(m) == /\ pm[m].status = "processing"
                /\ ~pm[m].expired

\* ClaimConflict
ClaimConflict(m) ==
    /\ pm[m].status = "absent"
    /\ \E n \in Conflicting(m) : pm[n].status # "completed"

\* Mutants of Claimable: the lease of a live worker is not respected; a completed
\* row is claimed again; the unique key on the job is missing.
Claimable_IgnoreLease(m) ==
    \/ pm[m].status = "absent" /\ Conflicting(m) = {}
    \/ pm[m].status \in {"retry_scheduled", "processing"}
Claimable_Again(m) ==
    \/ pm[m].status = "absent" /\ Conflicting(m) = {}
    \/ pm[m].status \in {"retry_scheduled", "completed"}
    \/ pm[m].status = "processing" /\ pm[m].expired
Claimable_NoUniqueKey(m) ==
    \/ pm[m].status \in {"absent", "retry_scheduled"}
    \/ pm[m].status = "processing" /\ pm[m].expired

\* ClaimGranted, ClaimResumed, ClaimTakenOver
Claimable(m) ==
    \/ pm[m].status = "absent" /\ Conflicting(m) = {}
    \/ pm[m].status = "retry_scheduled"
    \/ pm[m].status = "processing" /\ pm[m].expired
-----------------------------------------------------------------------------
\* Mutant of Claim: a takeover keeps the token of the previous holder.
Claim_KeepToken(w, m) ==
    LET t == IF pm[m].status = "processing" THEN pm[m].token ELSE NewToken IN
    /\ Claimable(m)
    /\ FreshTokens # {}
    /\ pm' = [pm EXCEPT ![m] = [status |-> "processing", token |-> t,
                                expired |-> FALSE]]
    /\ lease' = [lease EXCEPT ![w] = t]

\* Claim that hands out a lease: the row is inserted, or becomes processing
\* again, or changes its token.  An id whose row names another job or type
\* (ClaimConflict, idempotency.go:165) does not occur: JobOf fixes the job of an id,
\* and there is one type.
Claim(w, m) ==
    /\ Claimable(m)
    /\ FreshTokens # {}
    /\ pm' = [pm EXCEPT ![m] = [status  |-> "processing",
                                token   |-> NewToken,
                                expired |-> FALSE]]
    /\ lease' = [lease EXCEPT ![w] = NewToken]

\* Renew succeeds: the token matches and the row is processing.  An expired
\* lease that nobody has taken over is extended like any other.
CanRenew(w, m) == Owns(w, m) /\ pm[m].status = "processing"
Renew(w, m) ==
    /\ CanRenew(w, m)
    /\ pm' = [pm EXCEPT ![m].expired = FALSE]
    /\ UNCHANGED lease

\* MarkRetryScheduled succeeds.
CanMarkRetryScheduled(w, m) == Owns(w, m) /\ pm[m].status = "processing"
MarkRetryScheduled(w, m) ==
    /\ CanMarkRetryScheduled(w, m)
    /\ pm' = [pm EXCEPT ![m].status = "retry_scheduled"]
    /\ UNCHANGED lease

\* MarkCompleted succeeds: authenticated by the token alone.
MarkCompleted(w, m) ==
    /\ Owns(w, m)
    /\ pm' = [pm EXCEPT ![m].status = "completed"]
    /\ UNCHANGED lease

\* The worker is done with the message, or it crashed: its copy of the token is
\* gone.  The row keeps the token.
Forget(w) ==
    /\ lease' = [lease EXCEPT ![w] = NoToken]
    /\ UNCHANGED pm

\* lease_expires_at passes.
LeaseExpires(m) ==
    /\ pm[m].status = "processing"
    /\ ~pm[m].expired
    /\ pm' = [pm EXCEPT ![m].expired = TRUE]
    /\ UNCHANGED lease
-----------------------------------------------------------------------------
\* Properties of the table, whoever uses it.

\* No two workers believe in the same, current lease: a takeover invalidates the
\* token of the previous holder.
OneOwner ==
    \A m \in Message : \A v, w \in Worker :
        Owns(v, m) /\ Owns(w, m) => v = w

\* A row that says completed stays completed, so a duplicate delivered later is
\* acknowledged without being executed.
CompletedIsFinal ==
    [][\A m \in Message : pm[m].status = "completed" =>
          pm'[m].status = "completed"]_pmVars
=============================================================================
