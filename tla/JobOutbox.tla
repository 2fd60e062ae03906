----------------------------- MODULE JobOutbox -----------------------------
(***************************************************************************)
(* The dispatchers that move job references from the outbox to the         *)
(* Graphile queue: Stand-in jobs, Intero requests, Stand-in questions,     *)
(* link unfurling, automation signals and portfolio summaries.  They share *)
(* one shape - claim for 30 seconds, addJob, complete or back off - and    *)
(* differ in the topic they serve, in whether too many attempts complete   *)
(* the row as a dead letter, and in whether a failure reopens the row.     *)
(***************************************************************************)
EXTENDS OutboxTables

CONSTANTS
  JobDispatchers,
  NoJob,
  JobLimit,
  MaxAttempts,   \* claims after which a failure is terminal
  DeadLetters    \* operations whose topic has a terminal failure

ASSUME JobAssumption ==
  /\ NoJob \notin Ops
  /\ JobLimit \in Nat \ {0}
  /\ MaxAttempts \in Nat \ {0}
  /\ DeadLetters \subseteq {op \in Ops : IsJob(op)}

VARIABLES
  attempts,   \* the row's attempts, saturating where only >= matters
  enqueued,   \* operations addJob has accepted
  buried,     \* rows completed as dead letters
  jpc,        \* "idle", "enqueue", "mark" or "fail"
  claims,     \* op -> attempts at the claim, for the rows still to handle
  job         \* the row at hand

jobVars == <<attempts, enqueued, buried, jpc, claims, job>>

JobInit ==
  /\ attempts = [op \in Ops |-> 0]
  /\ enqueued = {} /\ buried = {}
  /\ jpc = [d \in JobDispatchers |-> "idle"]
  /\ claims = [d \in JobDispatchers |-> <<>>]
  /\ job = [d \in JobDispatchers |-> NoJob]

Attempted(S) ==
  attempts' = [op \in Ops |->
    IF op \in S /\ attempts[op] < MaxAttempts THEN attempts[op] + 1 ELSE attempts[op]]

\* Fault variants: the claim returns the attempts from before its update, or
\* takes only rows that nobody has tried.
JobClaimOldAttempts(d, Serves) ==
  /\ jpc[d] = "idle"
  /\ \E op \in Serves :
       /\ IsJob(op) /\ <<op, NoChannel>> \in Claimable
       /\ Attempted({op})
       /\ ready' = ready \ {<<op, NoChannel>>}
       /\ claims' = [claims EXCEPT ![d] = [x \in {op} |-> attempts[x]]]
  /\ jpc' = [jpc EXCEPT ![d] = "enqueue"]
  /\ UNCHANGED <<committed, pubDone, rowDone, enqueued, buried, job>>

JobClaimOnce(d, Serves) ==
  /\ jpc[d] = "idle"
  /\ \E op \in Serves :
       /\ IsJob(op) /\ <<op, NoChannel>> \in Claimable /\ attempts[op] = 0
       /\ Attempted({op})
       /\ ready' = ready \ {<<op, NoChannel>>}
       /\ claims' = [claims EXCEPT ![d] = [x \in {op} |-> attempts'[x]]]
  /\ jpc' = [jpc EXCEPT ![d] = "enqueue"]
  /\ UNCHANGED <<committed, pubDone, rowDone, enqueued, buried, job>>

\* The topics a dispatcher serves: each claims its own topic only.
JobClaim(d, Serves) ==
  LET rows == {op \in Serves : IsJob(op) /\ <<op, NoChannel>> \in Claimable}
  IN  /\ jpc[d] = "idle"
      /\ \E S \in SUBSET rows :
           /\ Cardinality(S) = IF Cardinality(rows) < JobLimit
                               THEN Cardinality(rows) ELSE JobLimit
           /\ S # {}
           /\ Attempted(S)
           /\ ready' = ready \ {<<op, NoChannel>> : op \in S}
           /\ claims' = [claims EXCEPT ![d] = [op \in S |-> attempts'[op]]]
      /\ jpc' = [jpc EXCEPT ![d] = "enqueue"]
      /\ UNCHANGED <<committed, pubDone, rowDone, enqueued, buried, job>>

\* addJob under the row's job key; a second addJob of a waiting job changes
\* nothing.
EnqueueOk(d) ==
  /\ jpc[d] = "enqueue"
  /\ \E op \in DOMAIN claims[d] :
       /\ job' = [job EXCEPT ![d] = op]
       /\ enqueued' = enqueued \union {op}
  /\ jpc' = [jpc EXCEPT ![d] = "mark"]
  /\ UNCHANGED <<tableVars, attempts, buried, claims>>

\* Fault variant: the error is logged and the row completed.
EnqueueFailsUnnoticed(d) ==
  /\ jpc[d] = "enqueue"
  /\ \E op \in DOMAIN claims[d] : job' = [job EXCEPT ![d] = op]
  /\ jpc' = [jpc EXCEPT ![d] = "mark"]
  /\ UNCHANGED <<tableVars, attempts, enqueued, buried, claims>>

\* addJob throws, before or after the queue has the job.
EnqueueFails(d) ==
  /\ jpc[d] = "enqueue"
  /\ \E op \in DOMAIN claims[d] :
       /\ job' = [job EXCEPT ![d] = op]
       /\ enqueued' \in {enqueued, enqueued \union {op}}
  /\ jpc' = [jpc EXCEPT ![d] = "fail"]
  /\ UNCHANGED <<tableVars, attempts, buried, claims>>

EndJob(d) ==
  LET rest == DOMAIN claims[d] \ {job[d]}
  IN  /\ claims' = [claims EXCEPT ![d] = [op \in rest |-> claims[d][op]]]
      /\ job' = [job EXCEPT ![d] = NoJob]
      /\ jpc' = [jpc EXCEPT ![d] = IF rest = {} THEN "idle" ELSE "enqueue"]

JobMark(d) ==
  /\ jpc[d] = "mark"
  /\ rowDone' = rowDone \union {job[d]}
  /\ buried' = buried \ {job[d]}
  /\ EndJob(d)
  /\ UNCHANGED <<committed, pubDone, ready, attempts, enqueued>>

JobMarkFails(d) ==
  /\ jpc[d] = "mark"
  /\ jpc' = [jpc EXCEPT ![d] = "fail"]
  /\ UNCHANGED <<tableVars, attempts, enqueued, buried, claims, job>>

\* markFailed writes completed_at as well for the topics with a terminal
\* failure: set at the last attempt, and cleared (also when another dispatcher
\* has set it meanwhile) before that.
JobFail(d) ==
  LET op == job[d]
      terminal == claims[d][op] >= MaxAttempts
  IN  /\ jpc[d] = "fail"
      /\ ready' = ready \ {<<op, NoChannel>>}
      /\ IF op \notin DeadLetters THEN UNCHANGED <<rowDone, buried>>
         ELSE IF terminal
         THEN rowDone' = rowDone \union {op} /\ buried' = buried \union {op}
         ELSE rowDone' = rowDone \ {op} /\ buried' = buried \ {op}
      /\ EndJob(d)
      /\ UNCHANGED <<committed, pubDone, attempts, enqueued>>

\* The worker dies or markFailed throws: the claimed rows stay leased.
JobAbandon(d) ==
  /\ jpc[d] # "idle"
  /\ jpc' = [jpc EXCEPT ![d] = "idle"]
  /\ claims' = [claims EXCEPT ![d] = <<>>]
  /\ job' = [job EXCEPT ![d] = NoJob]
  /\ UNCHANGED <<tableVars, attempts, enqueued, buried>>

JobAdvance(d, Serves) ==
  JobClaim(d, Serves) \/ EnqueueOk(d) \/ JobMark(d) \/ JobFail(d)

JobMisfortune(d) == EnqueueFails(d) \/ JobMarkFails(d) \/ JobAbandon(d)

\* Every variable ranges over what the rows and the dispatchers can hold.
JobTypeOK ==
  /\ TablesTypeOK
  /\ attempts \in [Ops -> 0 .. MaxAttempts]
  /\ enqueued \subseteq Ops /\ buried \subseteq Ops
  /\ jpc \in [JobDispatchers -> {"idle", "enqueue", "mark", "fail"}]
  /\ \A d \in JobDispatchers :
       /\ DOMAIN claims[d] \subseteq Ops
       /\ \A op \in DOMAIN claims[d] : claims[d][op] \in 1 .. MaxAttempts
  /\ job \in [JobDispatchers -> Ops \union {NoJob}]
=============================================================================
