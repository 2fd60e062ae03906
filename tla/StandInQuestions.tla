-------------------------- MODULE StandInQuestions --------------------------
(***************************************************************************)
(* One question to a Stand-in (apps/server-worker/src/stand-in-questions   *)
(* .ts): the API has stored the question, a pending answer, the job row and *)
(* its outbox row in one transaction; Graphile Worker runs the handler at  *)
(* least once and at most MaxAttempts times, one execution at a time.      *)
(*                                                                         *)
(* A text is the number of the attempt whose model call produced it, 0 the *)
(* empty one.  Graphile Worker, PostgreSQL and the model are external: a   *)
(* transaction commits, fails, or commits and reports an error; a worker   *)
(* may die between any two steps, and its job runs again when the lock of  *)
(* four hours ends.                                                        *)
(***************************************************************************)
EXTENDS Naturals

CONSTANTS
  MaxAttempts,       \* Graphile: executions of one job
  EarlyAttempts,     \* the attempts that may start within 30 s of a claim
  RecordExchange,    \* the question belongs to a Project
  MayLeave,          \* the asker may lose access to the Project
  MayDelete,         \* the asker may delete the question
  MaxModelFailures, MaxFaults, MaxKills, MaxRedispatches   \* bounds

ASSUME StandInAssumption ==
  /\ MaxAttempts \in Nat \ {0} /\ EarlyAttempts \in Nat
  /\ {RecordExchange, MayLeave, MayDelete} \subseteq BOOLEAN
  /\ MaxModelFailures \in Nat /\ MaxFaults \in Nat /\ MaxKills \in Nat
  /\ MaxRedispatches \in Nat

VARIABLES
  status, fresh,     \* job row: status, and a claim younger than 30 s
  stream, text,      \* answer message: stream_state and body
  exchange,          \* the recorded answer, 0 without one
  member, asked,     \* the asker has access; the question has a body
  attempt, pc,       \* the job in Graphile and the handler's position
  started, kept, reply,  \* handler: streamStarted, lastPersistedAnswer, answer
  modelFailures, faults, kills, redispatches

row == <<status, fresh>>
answer == <<stream, text>>
handler == <<started, kept, reply>>
bounds == <<modelFailures, faults, kills, redispatches>>
vars == <<row, answer, exchange, member, asked, attempt, pc, handler, bounds>>

Init ==
  /\ status = "pending" /\ fresh = FALSE
  /\ stream = "pending" /\ text = 0
  /\ exchange = 0 /\ member = TRUE /\ asked = TRUE
  /\ attempt = 0 /\ pc = "queued"
  /\ started = FALSE /\ kept = 0 /\ reply = 0
  /\ modelFailures = 0 /\ faults = 0 /\ kills = 0 /\ redispatches = 0

-----------------------------------------------------------------------------
(* What a step of the handler is made of.                                  *)

Fault == faults < MaxFaults /\ faults' = faults + 1 /\ UNCHANGED <<modelFailures, kills, redispatches>>
NoFault == UNCHANGED bounds

\* A transaction does Effect and the handler goes to Then, or it reports an
\* error, with or without Effect, and the handler goes to Else.
Transaction(Effect, Nothing, Then, Else) ==
  \/ Effect /\ pc' = Then /\ NoFault
  \/ (Effect \/ Nothing) /\ pc' = Else /\ Fault

\* The handler throws: Graphile runs the job again unless this was the last
\* attempt.
Thrown == IF attempt < MaxAttempts THEN "queued" ELSE "dead"
Last == attempt = MaxAttempts

\* Fault variant: no stream state is final.
StreamAlwaysAllowed(state) == TRUE

\* updateMessageStream: a complete answer only accepts another complete body.
StreamAllowed(state) == stream = "complete" => state = "complete"

SetStream(state, body) == StreamAllowed(state) /\ stream' = state /\ text' = body

-----------------------------------------------------------------------------
(* The handler.                                                            *)

Start ==
  /\ pc = "queued" /\ attempt < MaxAttempts
  /\ attempt' = attempt + 1
  /\ pc' = "claim"
  /\ started' = FALSE /\ kept' = 0 /\ reply' = 0
  /\ UNCHANGED <<row, answer, exchange, member, asked, bounds>>

\* Thirty seconds pass since the claim.
ClaimAges ==
  /\ fresh /\ fresh' = FALSE
  /\ UNCHANGED <<status, answer, exchange, member, asked, attempt, pc, handler, bounds>>

\* Fault variant: a claim is never taken over.
ClaimableUnclaimed == status \in {"pending", "retrying"}

\* A claim is still young only when the retry came early.
Busy == status = "processing" /\ fresh /\ attempt <= EarlyAttempts
Claimable == status \in {"pending", "retrying", "processing"} /\ ~Busy

ClaimRow == status' = "processing" /\ fresh' = TRUE

\* A recovered job whose answer is complete only completes its row.
Claimed == IF stream = "complete" THEN "finish" ELSE "read"

Claim ==
  /\ pc = "claim"
  /\ \/ Claimable /\ asked /\ Transaction(ClaimRow, UNCHANGED row, Claimed, Thrown)
     \/ Claimable /\ ~asked /\ pc' = Thrown /\ NoFault /\ UNCHANGED row
     \/ status = "completed" /\ pc' = "done" /\ NoFault /\ UNCHANGED row
     \/ (Busy \/ status = "failed") /\ pc' = Thrown /\ NoFault /\ UNCHANGED row
  /\ UNCHANGED <<answer, exchange, member, asked, attempt, handler>>

\* completeJob, whatever the status is.
CompleteRow == status' = "completed" /\ fresh' = fresh

Finish ==
  /\ pc = "finish"
  /\ Transaction(CompleteRow, UNCHANGED row, "done", Thrown)
  /\ UNCHANGED <<answer, exchange, member, asked, attempt, handler>>

\* The Project, its pulse and its coordination.
Read ==
  /\ pc = "read"
  /\ \/ member /\ pc' = "open" /\ NoFault
     \/ RecordExchange /\ ~member /\ pc' = "failJob" /\ NoFault
     \/ pc' = "failJob" /\ Fault
  /\ UNCHANGED <<row, answer, exchange, member, asked, attempt, handler>>

Open ==
  /\ pc = "open"
  /\ IF StreamAllowed("streaming")
     THEN \/ SetStream("streaming", 0) /\ started' = TRUE /\ pc' = "model" /\ NoFault
          \/ (SetStream("streaming", 0) \/ UNCHANGED answer) /\ UNCHANGED started
             /\ pc' = "failJob" /\ Fault
     ELSE UNCHANGED <<answer, started>> /\ pc' = "failJob" /\ NoFault
  /\ UNCHANGED <<row, exchange, member, asked, attempt, kept, reply>>

\* A chunk of the answer is shown.
Partial ==
  /\ pc = "model"
  /\ \/ SetStream("streaming", attempt) /\ kept' = attempt /\ pc' = "model" /\ NoFault
     \/ (SetStream("streaming", attempt) \/ UNCHANGED answer) /\ UNCHANGED kept
        /\ pc' = "repair" /\ Fault
  /\ UNCHANGED <<row, exchange, member, asked, attempt, started, reply>>

ModelAnswers ==
  /\ pc = "model"
  /\ reply' = attempt
  /\ pc' = IF RecordExchange THEN "record" ELSE "publish"
  /\ UNCHANGED <<row, answer, exchange, member, asked, attempt, started, kept, bounds>>

\* The provider fails, or its answer cites a source it was not given.
ModelFails ==
  /\ pc = "model" /\ modelFailures < MaxModelFailures
  /\ modelFailures' = modelFailures + 1
  /\ pc' = "repair"
  /\ UNCHANGED <<row, answer, exchange, member, asked, attempt, handler, faults, kills, redispatches>>

\* recordStandInExchange keeps the exchange it already has under the job's id.
Recorded == IF exchange = 0 THEN reply ELSE exchange

\* Fault variant: the handler goes on with its own answer.
RecordUnread ==
  /\ pc = "record"
  /\ \/ member /\ exchange' = Recorded /\ UNCHANGED reply /\ pc' = "publish" /\ NoFault
     \/ member /\ exchange' \in {exchange, Recorded} /\ UNCHANGED reply /\ pc' = "repair" /\ Fault
     \/ ~member /\ pc' = "repair" /\ NoFault /\ UNCHANGED <<exchange, reply>>
  /\ UNCHANGED <<row, answer, member, asked, attempt, started, kept>>

\* The handler goes on with the answer of the exchange.
Record ==
  /\ pc = "record"
  /\ \/ member /\ exchange' = Recorded /\ reply' = Recorded /\ pc' = "publish" /\ NoFault
     \/ member /\ exchange' \in {exchange, Recorded} /\ UNCHANGED reply /\ pc' = "repair" /\ Fault
     \/ ~member /\ pc' = "repair" /\ NoFault /\ UNCHANGED <<exchange, reply>>
  /\ UNCHANGED <<row, answer, member, asked, attempt, started, kept>>

Publish ==
  /\ pc = "publish"
  /\ Transaction(SetStream("complete", reply), UNCHANGED answer, "complete", "repair")
  /\ UNCHANGED <<row, exchange, member, asked, attempt, handler>>

Complete ==
  /\ pc = "complete"
  /\ Transaction(CompleteRow, UNCHANGED row, "done", "repair")
  /\ UNCHANGED <<answer, exchange, member, asked, attempt, handler>>

\* The catch: the stream is repaired if it was started; an error of that is
\* swallowed.
Repaired ==
  IF Last THEN SetStream("failed", kept) ELSE SetStream("pending", 0)

Repair ==
  /\ pc = "repair" /\ started
  /\ pc' = "failJob"
  /\ \/ Repaired /\ NoFault
     \/ stream = "complete" /\ UNCHANGED answer /\ NoFault   \* the guard throws
     \/ (Repaired \/ UNCHANGED answer) /\ Fault
  /\ UNCHANGED <<row, exchange, member, asked, attempt, handler>>

\* failJob, whatever the status is.
FailRow == status' = (IF Last THEN "failed" ELSE "retrying") /\ fresh' = FALSE

FailJob ==
  /\ pc = "failJob"
  /\ Transaction(FailRow, UNCHANGED row, Thrown, Thrown)
  /\ UNCHANGED <<answer, exchange, member, asked, attempt, handler>>

-----------------------------------------------------------------------------
(* Around the handler.                                                     *)

Running == pc \notin {"queued", "done", "dead"}

\* The worker dies; four hours later the claim is not young any more.
Kill ==
  /\ Running /\ kills < MaxKills
  /\ kills' = kills + 1
  /\ pc' = Thrown /\ fresh' = FALSE
  /\ UNCHANGED <<status, answer, exchange, member, asked, attempt, handler,
                 modelFailures, faults, redispatches>>

\* The dispatcher adds the job again after it had finished: unsafe_dedupe
\* drops the addition while the former job exists, failed for good or not.
Redispatch ==
  /\ pc = "done" /\ redispatches < MaxRedispatches
  /\ redispatches' = redispatches + 1
  /\ pc' = "queued" /\ attempt' = 0
  /\ UNCHANGED <<row, answer, exchange, member, asked, handler, modelFailures, faults, kills>>

\* The asker leaves the Project of the question.
Leave ==
  /\ MayLeave /\ RecordExchange /\ member
  /\ member' = FALSE
  /\ UNCHANGED <<row, answer, exchange, asked, attempt, pc, handler, bounds>>

\* deleteThreadMessage empties the body of the question.
DeleteQuestion ==
  /\ MayDelete /\ asked
  /\ asked' = FALSE
  /\ UNCHANGED <<row, answer, exchange, member, attempt, pc, handler, bounds>>

-----------------------------------------------------------------------------
Handle ==
  \/ Start \/ Claim \/ Finish \/ Read \/ Open \/ ModelAnswers \/ Record
  \/ Publish \/ Complete \/ Repair \/ FailJob

Next ==
  \/ Handle \/ Partial \/ ModelFails \/ ClaimAges
  \/ Kill \/ Redispatch \/ Leave \/ DeleteQuestion

Spec == Init /\ [][Next]_vars

\* Graphile runs a job that is due, and every call of a running handler
\* returns.
FairSpec == Spec /\ WF_vars(Handle)

-----------------------------------------------------------------------------
Texts == 0 .. MaxAttempts

Flags == fresh \in BOOLEAN /\ member \in BOOLEAN /\ asked \in BOOLEAN /\ started \in BOOLEAN

Columns ==
  /\ status \in {"pending", "processing", "retrying", "completed", "failed"}
  /\ stream \in {"pending", "streaming", "complete", "failed"}
  /\ text \in Texts /\ exchange \in Texts /\ kept \in Texts /\ reply \in Texts
  /\ attempt \in 0 .. MaxAttempts
  /\ pc \in {"queued", "claim", "finish", "read", "open", "model", "record", "publish",
             "complete", "repair", "failJob", "done", "dead"}

\* Every variable ranges over what its column or variable can hold.
TypeOK == Flags /\ Columns

\* The answer people read is the one the exchange keeps, however many attempts
\* wrote to either and wherever they stopped.
AnswerIsTheExchange ==
  RecordExchange /\ stream = "complete" => exchange # 0 /\ text = exchange

\* A job is completed only with a complete answer.
CompletedHasAnswer == status = "completed" => stream = "complete"

\* A complete answer stays as it is through retries and recoveries.
CompleteIsFinal == [][stream = "complete" => stream' = "complete" /\ text' = text]_vars

\* A job that will not run again has settled its answer: nobody reads a
\* pending or streaming answer for ever.  It holds without deletions and kills.
DeadIsVisible == pc = "dead" => stream \in {"complete", "failed"}

\* A failed job has no complete answer.  The code does not keep it: the last
\* attempt may publish and then fail to complete its row.
FailedHasNoAnswer == status = "failed" => stream # "complete"

\* With fewer failures than attempts, the question is answered and its job
\* completed, unless it is deleted or its asker leaves: retries that come while
\* a former claim is young do not use the attempts up.
EventuallyAnswered == <>((status = "completed" /\ stream = "complete") \/ ~member \/ ~asked)
=============================================================================
