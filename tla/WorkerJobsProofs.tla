--------------------------- MODULE WorkerJobsProofs ---------------------------
(***************************************************************************)
(* Proofs about the worker's jobs, for any numbers of attempts, failures,  *)
(* revisions, messages, signals and moves: a question to a Stand-in and    *)
(* the notifications of a Thread; and what the proofs about Intero         *)
(* requests and automation say of them beside each other.                  *)
(***************************************************************************)
EXTENDS MCWorkerJobs, FiniteSetTheorems, TLAPS

-----------------------------------------------------------------------------
(* A question to a Stand-in.                                               *)

\* What the handler knows at each of its steps: an answer is complete when it
\* only has the row to complete, and not complete when it is about to write;
\* before it publishes, its answer is the exchange's.
HandlerOK ==
  /\ Running => attempt >= 1
  /\ pc \in {"read", "open", "model", "record", "publish"} => stream # "complete"
  /\ pc \in {"finish", "complete"} => stream = "complete"
  /\ pc = "record" => reply # 0
  /\ RecordExchange /\ pc = "publish" => exchange # 0 /\ reply = exchange

\* The inductive invariant.
IInv == Columns /\ HandlerOK /\ AnswerIsTheExchange /\ CompletedHasAnswer

\* Everything but the position of the handler and the row.
Written == <<answer, exchange, member, asked, attempt, handler>>

-----------------------------------------------------------------------------
LEMMA SomeAttempts == MaxAttempts \in Nat \ {0}
  BY StandInAssumption

\* The initial state has the inductive invariant.
LEMMA InitInvariant == Init => IInv
  BY SomeAttempts
  DEF Init, IInv, Columns, HandlerOK, AnswerIsTheExchange, CompletedHasAnswer, Texts, Running

\* Steps that leave the answer, the exchange and the handler's variables alone.
LEMMA RowSteps ==
  ASSUME IInv, Claim \/ Finish \/ Complete \/ FailJob \/ Read
  PROVE  IInv'
<1>1. UNCHANGED Written
  BY DEF Claim, Finish, Complete, FailJob, Read, Written
<1>2. CASE Claim
  BY <1>1, <1>2, SomeAttempts
  DEF Claim, Written, Transaction, ClaimRow, Claimable, Claimed, Thrown, NoFault, Fault, row,
      answer, handler, Running,
      IInv, Columns, HandlerOK, AnswerIsTheExchange, CompletedHasAnswer, Texts
<1>3. CASE Finish
  BY <1>1, <1>3, SomeAttempts
  DEF Finish, Written, Transaction, CompleteRow, Thrown, NoFault, Fault, row,
      answer, handler, Running,
      IInv, Columns, HandlerOK, AnswerIsTheExchange, CompletedHasAnswer, Texts
<1>4. CASE Complete
  BY <1>1, <1>4, SomeAttempts
  DEF Complete, Written, Transaction, CompleteRow, NoFault, Fault, row,
      answer, handler, Running,
      IInv, Columns, HandlerOK, AnswerIsTheExchange, CompletedHasAnswer, Texts
<1>5. CASE FailJob
  BY <1>1, <1>5, SomeAttempts
  DEF FailJob, Written, Transaction, FailRow, Thrown, NoFault, Fault, row,
      answer, handler, Running,
      IInv, Columns, HandlerOK, AnswerIsTheExchange, CompletedHasAnswer, Texts
<1>6. CASE Read
  BY <1>1, <1>6, SomeAttempts
  DEF Read, Written, NoFault, Fault, row, answer, handler, Running,
      IInv, Columns, HandlerOK, AnswerIsTheExchange, CompletedHasAnswer, Texts
<1> QED
  BY <1>2, <1>3, <1>4, <1>5, <1>6

\* Steps that write the answer.
LEMMA AnswerSteps ==
  ASSUME IInv, Open \/ Partial \/ Publish \/ Repair
  PROVE  IInv'
<1>1. UNCHANGED <<row, exchange, member, asked, attempt, reply>>
  BY DEF Open, Partial, Publish, Repair, handler
<1>2. CASE Open
  BY <1>1, <1>2, SomeAttempts
  DEF Open, SetStream, StreamAllowed, NoFault, Fault, row, answer, Running,
      IInv, Columns, HandlerOK, AnswerIsTheExchange, CompletedHasAnswer, Texts
<1>3. CASE Partial
  BY <1>1, <1>3, SomeAttempts
  DEF Partial, SetStream, StreamAllowed, NoFault, Fault, row, answer, Running,
      IInv, Columns, HandlerOK, AnswerIsTheExchange, CompletedHasAnswer, Texts
<1>4. CASE Publish
  BY <1>1, <1>4, SomeAttempts
  DEF Publish, Transaction, SetStream, StreamAllowed, NoFault, Fault, row, answer, handler,
      Running, IInv, Columns, HandlerOK, AnswerIsTheExchange, CompletedHasAnswer, Texts
<1>5. CASE Repair
  BY <1>1, <1>5, SomeAttempts
  DEF Repair, Repaired, SetStream, StreamAllowed, NoFault, Fault, row, answer, handler,
      Running, IInv, Columns, HandlerOK, AnswerIsTheExchange, CompletedHasAnswer, Texts
<1> QED
  BY <1>2, <1>3, <1>4, <1>5

\* Steps that change what the handler holds, and the exchange.
LEMMA HandlerSteps ==
  ASSUME IInv, Start \/ ModelAnswers \/ ModelFails \/ Record
  PROVE  IInv'
<1>1. UNCHANGED <<row, answer, member, asked>>
  BY DEF Start, ModelAnswers, ModelFails, Record
<1>2. CASE Start
  BY <1>1, <1>2, SomeAttempts
  DEF Start, row, answer, Running,
      IInv, Columns, HandlerOK, AnswerIsTheExchange, CompletedHasAnswer, Texts
<1>3. CASE ModelAnswers
  BY <1>1, <1>3, SomeAttempts
  DEF ModelAnswers, row, answer, Running,
      IInv, Columns, HandlerOK, AnswerIsTheExchange, CompletedHasAnswer, Texts
<1>4. CASE ModelFails
  BY <1>1, <1>4, SomeAttempts
  DEF ModelFails, row, answer, handler, Running,
      IInv, Columns, HandlerOK, AnswerIsTheExchange, CompletedHasAnswer, Texts
<1>5. CASE Record
  BY <1>1, <1>5, SomeAttempts
  DEF Record, Recorded, NoFault, Fault, row, answer, Running,
      IInv, Columns, HandlerOK, AnswerIsTheExchange, CompletedHasAnswer, Texts
<1> QED
  BY <1>2, <1>3, <1>4, <1>5

\* What happens around the handler.
LEMMA OutsideSteps ==
  ASSUME IInv, ClaimAges \/ Kill \/ Redispatch \/ Leave \/ DeleteQuestion
  PROVE  IInv'
<1>1. UNCHANGED <<status, answer, exchange, handler>>
  BY DEF ClaimAges, Kill, Redispatch, Leave, DeleteQuestion, row
<1>2. CASE ClaimAges
  BY <1>1, <1>2 DEF ClaimAges, answer, handler, Running,
      IInv, Columns, HandlerOK, AnswerIsTheExchange, CompletedHasAnswer, Texts
<1>3. CASE Kill
  BY <1>1, <1>3 DEF Kill, Thrown, answer, handler, Running,
      IInv, Columns, HandlerOK, AnswerIsTheExchange, CompletedHasAnswer, Texts
<1>4. CASE Redispatch
  BY <1>1, <1>4, SomeAttempts DEF Redispatch, row, answer, handler, Running,
      IInv, Columns, HandlerOK, AnswerIsTheExchange, CompletedHasAnswer, Texts
<1>5. CASE Leave \/ DeleteQuestion
  BY <1>1, <1>5 DEF Leave, DeleteQuestion, row, answer, handler, Running,
      IInv, Columns, HandlerOK, AnswerIsTheExchange, CompletedHasAnswer, Texts
<1> QED
  BY <1>2, <1>3, <1>4, <1>5

\* Every step keeps the inductive invariant.
LEMMA NextInvariant == IInv /\ [Next]_vars => IInv'
<1> SUFFICES ASSUME IInv, [Next]_vars
             PROVE  IInv'
  OBVIOUS
<1>1. CASE UNCHANGED vars
  BY <1>1
  DEF vars, row, answer, handler, Running,
      IInv, Columns, HandlerOK, AnswerIsTheExchange, CompletedHasAnswer, Texts
<1> QED
  BY <1>1, RowSteps, AnswerSteps, HandlerSteps, OutsideSteps DEF Next, Handle

LEMMA InductiveInvariant == Spec => []IInv
  BY InitInvariant, NextInvariant, PTL DEF Spec

-----------------------------------------------------------------------------
\* Every step keeps the flags.
LEMMA NextFlags == Flags /\ [Next]_vars => Flags'
<1> SUFFICES ASSUME Flags, [Next]_vars
             PROVE  Flags'
  OBVIOUS
<1>1. fresh' \in BOOLEAN
  BY Zenon
  DEF Flags, vars, row, Next, Handle, Start, Claim, Finish, Read, Open, ModelAnswers, Record,
      Publish, Complete, Repair, FailJob, Partial, ModelFails, ClaimAges, Kill, Redispatch,
      Leave, DeleteQuestion, Transaction, ClaimRow, CompleteRow, FailRow
<1>2. member' \in BOOLEAN /\ asked' \in BOOLEAN
  BY Zenon
  DEF Flags, vars, Next, Handle, Start, Claim, Finish, Read, Open, ModelAnswers, Record,
      Publish, Complete, Repair, FailJob, Partial, ModelFails, ClaimAges, Kill, Redispatch,
      Leave, DeleteQuestion
<1>3. started' \in BOOLEAN
  BY Zenon
  DEF Flags, vars, handler, Next, Handle, Start, Claim, Finish, Read, Open, ModelAnswers, Record,
      Publish, Complete, Repair, FailJob, Partial, ModelFails, ClaimAges, Kill, Redispatch,
      Leave, DeleteQuestion
<1> QED
  BY <1>1, <1>2, <1>3 DEF Flags

\* Every reachable state is well typed.
THEOREM TypeCorrect == Spec => []TypeOK
<1>1. Init => Flags
  BY Zenon DEF Init, Flags
<1>2. IInv /\ Flags => TypeOK
  BY DEF IInv, TypeOK
<1> QED
  BY <1>1, <1>2, NextFlags, InductiveInvariant, PTL DEF Spec

\* A complete answer of a Project's question is the recorded exchange's,
\* whatever attempts wrote to either.
THEOREM AnswerIsRecorded == Spec => []AnswerIsTheExchange
<1>1. IInv => AnswerIsTheExchange
  BY DEF IInv
<1> QED
  BY <1>1, InductiveInvariant, PTL

\* A completed job has a complete answer.
THEOREM CompletedIsAnswered == Spec => []CompletedHasAnswer
<1>1. IInv => CompletedHasAnswer
  BY DEF IInv
<1> QED
  BY <1>1, InductiveInvariant, PTL

\* No retry, recovery or repair changes a complete answer.
THEOREM CompleteStays == Spec => CompleteIsFinal
<1>1. IInv /\ [Next]_vars => [stream = "complete" => stream' = "complete" /\ text' = text]_vars
  <2> SUFFICES ASSUME IInv, Next, stream = "complete"
               PROVE  stream' = "complete" /\ text' = text
    OBVIOUS
  <2>1. CASE Open \/ Partial \/ Publish
    BY <2>1 DEF Open, Partial, Publish, IInv, HandlerOK
  <2>2. CASE Repair
    BY <2>2 DEF Repair, Repaired, SetStream, StreamAllowed, answer
  <2>3. CASE Claim \/ Finish \/ Complete \/ FailJob \/ Read
    BY <2>3 DEF Claim, Finish, Complete, FailJob, Read, answer
  <2>4. CASE Start \/ ModelAnswers \/ ModelFails \/ Record
    BY <2>4 DEF Start, ModelAnswers, ModelFails, Record, answer
  <2>5. CASE ClaimAges \/ Kill \/ Redispatch \/ Leave \/ DeleteQuestion
    BY <2>5 DEF ClaimAges, Kill, Redispatch, Leave, DeleteQuestion, answer
  <2> QED
    BY <2>1, <2>2, <2>3, <2>4, <2>5 DEF Next, Handle
<1> QED
  BY <1>1, InductiveInvariant, PTL DEF Spec, CompleteIsFinal

-----------------------------------------------------------------------------
(* The notifications of a Thread.                                          *)

PushJob == [id : Nat, head : 1 .. Push!head, tries : 0 .. MaxPushAttempts - 1]
PushRun == [job : [id : Nat, head : 0 .. Push!head, tries : 0 .. MaxPushAttempts], todo : SUBSET Endpoints]

\* The Thread's sequences have no gap.
Gapless == \E n \in Nat : DOMAIN sequence = 1 .. n /\ Push!head = n

\* A job that still sends to somebody is about a message there is, and was started.
PushInv ==
  /\ Gapless
  /\ \A q \in DOMAIN sequence : sequence[q] \in {"message", "pending", "complete"}
  /\ updates \in 0 .. MaxMessages /\ failures \in 0 .. MaxFailures
  /\ nextId \in Nat /\ pushJobs \subseteq PushJob
  /\ running \in PushRun
  /\ running.todo # {} => running.job.head \in 1 .. Push!head
  /\ subscribed \subseteq Endpoints /\ dead \subseteq Endpoints
  /\ pushed \subseteq Endpoints \X (1 .. Push!head)

LEMMA CountingTo == ASSUME NEW n \in Nat PROVE Push!Cardinality(1 .. n) = n
<1>1. Push!Cardinality(1 .. n) = Cardinality(1 .. n)
  BY Zenon DEF Push!Cardinality, Cardinality, Push!IsFiniteSet, IsFiniteSet
<1>2. Cardinality(1 .. n) = IF 1 > n THEN 0 ELSE n - 1 + 1 BY FS_Interval
<1> QED BY <1>1, <1>2

LEMMA PushInit == ASSUME Push!Init PROVE PushInv
<1>1. DOMAIN sequence = 1 .. 0 BY DEF Push!Init
<1>2. Push!head = 0 BY <1>1, CountingTo DEF Push!head
<1>3. running \in PushRun /\ running.todo = {}
  BY <1>2, PushConstants DEF Push!Init, Push!Free, PushRun, Push!PushAssumption
<1> QED BY <1>1, <1>2, <1>3, PushConstants DEF Push!Init, PushInv, Gapless, Push!PushAssumption

\* An event is queued for a message there is.
LEMMA EventKeeps ==
  ASSUME NEW h, nextId \in Nat, Push!Event(h), h \in 1 .. Push!head', Push!head <= Push!head',
         Push!head \in Nat, Push!head' \in Nat, pushJobs \subseteq PushJob, running \in PushRun
  PROVE  nextId' \in Nat /\ pushJobs' \subseteq PushJob' /\ running' \in PushRun' /\ running' = running
<1>1. PushJob \subseteq PushJob' /\ PushRun \subseteq PushRun' BY DEF PushJob, PushRun
<1>2. [id |-> nextId, head |-> h, tries |-> 0] \in PushJob'
  BY PushConstants DEF PushJob, Push!PushAssumption
<1> QED BY <1>1, <1>2 DEF Push!Event

LEMMA AppendStep == ASSUME PushInv, Push!Append PROVE PushInv'
<1>1. PICK n \in Nat : DOMAIN sequence = 1 .. n /\ Push!head = n BY DEF PushInv, Gapless
<1>2. PICK s \in {"message", "pending"} :
        sequence' = [q \in 1 .. n + 1 |-> IF q = n + 1 THEN s ELSE sequence[q]]
  BY <1>1 DEF Push!Append
<1>3. DOMAIN sequence' = 1 .. n + 1 /\ \A q \in 1 .. n + 1 : sequence'[q] = IF q = n + 1 THEN s ELSE sequence[q]
  BY <1>2
<1>4. Push!head' = n + 1 BY <1>3, CountingTo, n + 1 \in Nat DEF Push!head
<1>5. /\ Push!Event(n + 1) /\ UNCHANGED <<updates, subscribed, dead, pushed, failures>>
  BY <1>1 DEF Push!Append
<1>6. nextId' \in Nat /\ pushJobs' \subseteq PushJob' /\ running' \in PushRun' /\ running' = running
  BY <1>1, <1>4, <1>5, EventKeeps DEF PushInv
<1>7. pushed' \subseteq Endpoints \X (1 .. Push!head') BY <1>1, <1>4, <1>5 DEF PushInv
<1>8. running'.todo # {} => running'.job.head \in 1 .. Push!head' BY <1>1, <1>4, <1>6 DEF PushInv
<1>9. \A q \in DOMAIN sequence' : sequence'[q] \in {"message", "pending", "complete"}
  BY <1>1, <1>3 DEF PushInv
<1>10. Gapless' BY <1>3, <1>4 DEF Gapless
<1> QED BY <1>5, <1>6, <1>7, <1>8, <1>9, <1>10 DEF PushInv

LEMMA HeadStays ==
  ASSUME PushInv, DOMAIN sequence' = DOMAIN sequence
  PROVE  Push!head' = Push!head /\ Gapless' /\ PushJob' = PushJob /\ PushRun' = PushRun
<1>1. Push!head' = Push!head BY Zenon DEF Push!head
<1> QED BY <1>1 DEF PushInv, Gapless, PushJob, PushRun

LEMMA MessageSteps ==
  ASSUME PushInv, Push!Edit \/ \E q \in DOMAIN sequence : Push!CompleteAnswer(q)
  PROVE  PushInv'
<1>0. PICK n \in Nat : DOMAIN sequence = 1 .. n /\ Push!head = n BY DEF PushInv, Gapless
<1>1. /\ DOMAIN sequence' = DOMAIN sequence /\ Push!Event(n) /\ n > 0
      /\ \A q \in DOMAIN sequence : sequence'[q] \in {sequence[q], "complete"}
      /\ UNCHANGED <<subscribed, dead, pushed, failures>>
  <2>1. CASE Push!Edit BY <1>0, <2>1 DEF Push!Edit
  <2>2. CASE \E q \in DOMAIN sequence : Push!CompleteAnswer(q)
    BY <1>0, <2>2 DEF Push!CompleteAnswer
  <2> QED BY <2>1, <2>2
<1>2. updates' \in 0 .. MaxMessages
  BY <1>0, PushConstants DEF Push!Edit, Push!CompleteAnswer, PushInv, Push!PushAssumption
<1>3. Push!head' = Push!head /\ Gapless' /\ PushJob' = PushJob /\ PushRun' = PushRun BY <1>1, HeadStays
<1>4. nextId' \in Nat /\ pushJobs' \subseteq PushJob' /\ running' \in PushRun' /\ running' = running
  BY <1>0, <1>1, <1>3, EventKeeps DEF PushInv
<1> QED BY <1>1, <1>2, <1>3, <1>4 DEF PushInv

\* What the worker holds when it goes on, or is free.
LEMMA WorkingIsTyped ==
  ASSUME NEW j, j \in [id : Nat, head : 0 .. Push!head, tries : 0 .. MaxPushAttempts],
         NEW todo \in SUBSET Endpoints, Push!head \in Nat, todo # {} => j.head \in 1 .. Push!head
  PROVE  /\ Push!Working(j, todo) \in PushRun /\ Push!Free \in PushRun /\ Push!Free.todo = {}
         /\ Push!Working(j, todo).todo # {} => Push!Working(j, todo).job.head \in 1 .. Push!head
<1>1. Push!Free \in PushRun /\ Push!Free.todo = {}
  BY PushConstants DEF Push!Free, PushRun, Push!PushAssumption
<1> QED BY <1>1 DEF Push!Working, PushRun

LEMMA DeliverSteps == ASSUME PushInv, Push!Deliver PROVE PushInv'
<1>1. UNCHANGED <<sequence, updates, nextId, dead>>
  BY DEF Push!Deliver, Push!Start, Push!Send, Push!thread
<1>2. Push!head' = Push!head /\ Gapless' /\ PushJob' = PushJob /\ PushRun' = PushRun /\ Push!head \in Nat
  BY <1>1, HeadStays DEF PushInv, Gapless
<1>3. /\ pushJobs' \subseteq PushJob /\ running' \in PushRun
      /\ running'.todo # {} => running'.job.head \in 1 .. Push!head
      /\ subscribed' \subseteq Endpoints /\ pushed' \subseteq Endpoints \X (1 .. Push!head)
      /\ failures' \in 0 .. MaxFailures
  <2>1. CASE \E j \in pushJobs : Push!Start(j)
    <3>0. PICK j \in pushJobs : Push!Start(j) BY <2>1
    <3> DEFINE k == [j EXCEPT !.tries = @ + 1]
               todo == IF Push!Notifiable(sequence[j.head]) THEN subscribed ELSE {}
    <3>1. j \in PushJob BY DEF PushInv
    <3>2. /\ k \in [id : Nat, head : 0 .. Push!head, tries : 0 .. MaxPushAttempts]
          /\ k.head \in 1 .. Push!head
      BY <1>2, <3>1, PushConstants DEF PushJob, Push!PushAssumption
    <3>3. todo \in SUBSET Endpoints BY DEF PushInv
    <3>4. running' = Push!Working(k, todo) BY <3>0 DEF Push!Start
    <3> HIDE DEF k, todo
    <3>5. running' \in PushRun /\ (running'.todo # {} => running'.job.head \in 1 .. Push!head)
      BY <1>2, <3>2, <3>3, <3>4, WorkingIsTyped
    <3> QED BY <3>0, <3>5 DEF Push!Start, PushInv
  <2>2. CASE \E e \in Endpoints : Push!Send(e)
    <3>0. PICK e \in Endpoints : Push!Send(e) BY <2>2
    <3> DEFINE j == running.job
               todo == running.todo \ {e}
    <3>1. /\ e \in running.todo /\ j.head \in 1 .. Push!head /\ todo \in SUBSET Endpoints
          /\ j \in [id : Nat, head : 0 .. Push!head, tries : 0 .. MaxPushAttempts]
      BY <3>0 DEF Push!Send, PushInv, PushRun
    <3>2. running' = Push!Working(j, todo) \/ running' = Push!Free
      BY <3>0 DEF Push!Send, Push!Sent
    <3>3. pushJobs' \subseteq PushJob
      <4>1. j.tries < MaxPushAttempts => j \in PushJob
        BY <3>1, PushConstants DEF PushJob, Push!PushAssumption
      <4>2. pushJobs' = pushJobs \/ (pushJobs' = pushJobs \union {j} /\ j.tries < MaxPushAttempts)
        BY <3>0 DEF Push!Send, Push!Retried
      <4> QED BY <4>1, <4>2 DEF PushInv
    <3>4. /\ subscribed' \subseteq Endpoints /\ pushed' \subseteq Endpoints \X (1 .. Push!head)
          /\ failures' \in 0 .. MaxFailures
      BY <3>0, <3>1, PushConstants DEF Push!Send, PushInv, Push!PushAssumption
    <3> HIDE DEF j, todo
    <3>5. running' \in PushRun /\ (running'.todo # {} => running'.job.head \in 1 .. Push!head)
      BY <1>2, <3>1, <3>2, WorkingIsTyped
    <3> QED BY <3>3, <3>4, <3>5
  <2> QED BY <2>1, <2>2 DEF Push!Deliver
<1> QED BY <1>1, <1>2, <1>3 DEF PushInv

LEMMA PushNext == ASSUME PushInv, [Push!Next]_(Push!vars) PROVE PushInv'
<1>1. ASSUME \/ UNCHANGED Push!vars
             \/ \E e \in Endpoints : Push!Expire(e)
      PROVE  PushInv'
  <2>1. /\ UNCHANGED <<sequence, updates, pushJobs, nextId, running, subscribed, pushed, failures>>
        /\ dead' \subseteq Endpoints
    BY <1>1 DEF Push!Expire, Push!vars, Push!thread, Push!queue, PushInv
  <2> QED BY <2>1, HeadStays DEF PushInv
<1> QED BY <1>1, AppendStep, MessageSteps, DeliverSteps DEF Push!Next

LEMMA PushInvariant == Push!Spec => []PushInv
  BY PushInit, PushNext, PTL DEF Push!Spec

LEMMA PushIsTyped == ASSUME PushInv PROVE Push!PushTypeOK
<1>1. DOMAIN sequence = 1 .. Push!head BY DEF PushInv, Gapless
<1>2. Push!Range(sequence) \subseteq {"message", "pending", "complete"} BY DEF PushInv, Push!Range
<1>3. running.job.tries \in 0 .. MaxPushAttempts /\ running.todo \subseteq Endpoints BY DEF PushInv, PushRun
<1> QED BY <1>1, <1>2, <1>3 DEF PushInv, PushJob, Push!PushTypeOK

-----------------------------------------------------------------------------
(* Intero requests, of which InteroRequestsProofs are, and the automation  *)
(* of a Project, of which AutomationSignalsProofs are.                     *)

Requests == INSTANCE InteroRequestsProofs WITH
  MaxAttempts <- MaxRequestAttempts,
  status <- requestStatus, row <- requestRow, queue <- requestQueue,
  attempt <- requestAttempt, pc <- requestPc

\* Expanded, the two instances' steps are the same formulas.
LEMMA SameRequests == Requests!Init = Request!Init /\ Requests!Next = Request!Next
<1>1. Requests!Init = Request!Init
  BY Zenon
     DEF Requests!Init, Request!Init, Requests!NoEntry, Request!NoEntry, Requests!Revisions,
         Request!Revisions
<1>2. Requests!Next = Request!Next
  BY Zenon
     DEF Requests!Revisions, Request!Revisions, Requests!request, Request!request, Requests!room,
         Request!room, Requests!graphile, Request!graphile, Requests!outside, Request!outside,
         Requests!history, Request!history, Requests!OtherOpens, Request!OtherOpens,
         Requests!Discussed, Request!Discussed, Requests!DiscussElsewhere,
         Request!DiscussElsewhere, Requests!Trouble, Request!Trouble,
         Requests!NoTrouble, Request!NoTrouble, Requests!Persisted, Request!Persisted,
         Requests!UpdateIfCurrent, Request!UpdateIfCurrent, Requests!Refused, Request!Refused,
         Requests!Touch, Request!Touch, Requests!Correctable, Request!Correctable, Requests!Correct,
         Request!Correct, Requests!EvidenceChanges, Request!EvidenceChanges, Requests!Withdraw,
         Request!Withdraw, Requests!Dispatch, Request!Dispatch, Requests!Start, Request!Start,
         Requests!Goes, Request!Goes, Requests!Ends, Request!Ends, Requests!Returns,
         Request!Returns, Requests!Throws, Request!Throws, Requests!Lost, Request!Lost,
         Requests!Kill, Request!Kill, Requests!Unmoved, Request!Unmoved, Requests!Caught,
         Request!Caught, Requests!Call, Request!Call, Requests!Begin, Request!Begin, Requests!Read,
         Request!Read, Requests!Ask, Request!Ask, Requests!Question, Request!Question, Requests!Put,
         Request!Put, Requests!PutQuestion, Request!PutQuestion, Requests!Own, Request!Own,
         Requests!Answer, Request!Answer, Requests!Case, Request!Case, Requests!OpenCase,
         Request!OpenCase, Requests!Discuss, Request!Discuss, Requests!PutCase, Request!PutCase,
         Requests!Link, Request!Link, Requests!Close, Request!Close, Requests!Failable,
         Request!Failable, Requests!Catch, Request!Catch, Requests!Handle, Request!Handle,
         Requests!Next, Request!Next
<1> QED BY <1>1, <1>2

\* The composition behaves as Intero requests do.
LEMMA WorkerIsRequest == WorkerFairSpec => Requests!Spec
<1>1. WorkerInit => Requests!Init BY SameRequests DEF WorkerInit
<1>2. [WorkerNext]_workerVars => [Requests!Next]_(Requests!vars)
  BY SameRequests
     DEF WorkerNext, workerVars, requestVars, Requests!vars, Requests!request, Requests!room, Requests!graphile,
         Requests!outside, Requests!history
<1> QED BY <1>1, <1>2, PTL DEF WorkerFairSpec, Requests!Spec

LEMMA RequestsAreLimited == Requests!RequestAssumption
  BY RequestConstants DEF Requests!RequestAssumption, Request!RequestAssumption

\* However corrections, retries and the kernel's steps are interleaved, every case of
\* a request is one of the scope people settled on (reviseInteroRequestScope).
THEOREM CasesOfTheScope == WorkerFairSpec => []CasesAreCurrent
<1>1. Requests!Spec => []Requests!CasesAreCurrent BY RequestsAreLimited, Requests!CasesAreOfTheScope
<1>2. Requests!CasesAreCurrent => CasesAreCurrent
  BY DEF CasesAreCurrent, Requests!CasesAreCurrent, Request!CasesAreCurrent
<1> QED BY <1>1, <1>2, WorkerIsRequest, PTL

\* An answered request shows its answer or its linked case, whichever attempt of
\* which revision wrote last (writeBoundedAnswer), unless the coordination kernel had
\* just discussed its conflict where its Room does not show it.
THEOREM AnswerShows == WorkerFairSpec => []AnsweredIsShown
<1>1. Requests!Spec => []Requests!AnsweredIsShown BY RequestsAreLimited, Requests!AnsweredShows
<1>2. Requests!AnsweredIsShown => AnsweredIsShown
  BY DEF AnsweredIsShown, Requests!AnsweredIsShown, Request!AnsweredIsShown
<1> QED BY <1>1, <1>2, WorkerIsRequest, PTL

Automations == INSTANCE AutomationSignalsProofs WITH
  MaxAttempts <- MaxRequestAttempts,
  status <- signalStatus, row <- signalRow, queue <- signalQueue,
  attempt <- signalAttempt, troubles <- signalTroubles

LEMMA SameAutomation == Automations!Init = Automation!Init /\ Automations!Next = Automation!Next
<1>1. Automations!Init = Automation!Init
  BY Zenon
     DEF Automations!Init, Automation!Init, Automations!NoCase, Automation!NoCase,
         Automations!Signals, Automation!Signals, Automations!Threads, Automation!Threads,
         Automations!Detected, Automation!Detected
<1>2. Automations!Next = Automation!Next
  BY Zenon
     DEF Automations!Signals, Automation!Signals, Automations!Threads, Automation!Threads,
         Automations!Detected, Automation!Detected, Automations!Standing, Automation!Standing,
         Automations!Read, Automation!Read, Automations!OpenConflict, Automation!OpenConflict,
         Automations!Unresolved, Automation!Unresolved, Automations!TurnConflict,
         Automation!TurnConflict, Automations!ClearConflict, Automation!ClearConflict,
         Automations!ThreadOf, Automation!ThreadOf, Automations!source, Automation!source,
         Automations!job, Automation!job, Automations!people, Automation!people, Automations!Move,
         Automation!Move, Automations!Trouble, Automation!Trouble, Automations!NoTrouble,
         Automation!NoTrouble, Automations!ChangePolicy, Automation!ChangePolicy,
         Automations!RiskChanges, Automation!RiskChanges, Automations!Submit, Automation!Submit,
         Automations!Candidates, Automation!Candidates, Automations!Found, Automation!Found,
         Automations!Detect, Automation!Detect, Automations!Added, Automation!Added,
         Automations!Handled, Automation!Handled, Automations!MarkFailed, Automation!MarkFailed,
         Automations!Claims, Automation!Claims, Automations!Dispatch, Automation!Dispatch,
         Automations!DispatchFails, Automation!DispatchFails, Automations!Opens, Automation!Opens,
         Automations!Effect, Automation!Effect, Automations!Runs, Automation!Runs, Automations!Open,
         Automation!Open, Automations!OpenFails, Automation!OpenFails, Automations!Resolves,
         Automation!Resolves, Automations!Revert, Automation!Revert, Automations!Reads,
         Automation!Reads, Automations!Persist, Automation!Persist, Automations!Publish,
         Automation!Publish, Automations!Refuse, Automation!Refuse, Automations!Propose,
         Automation!Propose, Automations!Mutate, Automation!Mutate, Automations!Confirm,
         Automation!Confirm, Automations!ConfirmAgain, Automation!ConfirmAgain,
         Automations!MarkConfirmed, Automation!MarkConfirmed, Automations!EndConfirm,
         Automation!EndConfirm, Automations!Next, Automation!Next
<1> QED BY <1>1, <1>2

\* The composition behaves as the automation of a Project does.
LEMMA WorkerIsAutomation == WorkerFairSpec => Automations!Spec
<1>1. WorkerInit => Automations!Init BY SameAutomation DEF WorkerInit
<1>2. [WorkerNext]_workerVars => [Automations!Next]_(Automations!vars)
  BY SameAutomation
     DEF WorkerNext, AutomationNext, workerVars, automationVars, Automations!vars, Automations!source, Automations!job,
         Automations!people
<1> QED BY <1>1, <1>2, PTL DEF WorkerFairSpec, Automations!Spec

LEMMA AutomationIsLimited == Automations!AutomationAssumption
  BY AutomationConstants, Zenon DEF Automations!AutomationAssumption, Automation!AutomationAssumption

\* What people or the policy settled about a detected signal stays settled, whatever
\* late job, retry, dead letter or write-back comes (markOutboxFailed, openCoordination,
\* persistSnapshot); only a write-back changes a conflict's without looking.
THEOREM SignalsStaySettled == WorkerFairSpec => SettledStays
<1>1. Automations!Spec => Automations!SettledStays BY AutomationIsLimited, Automations!SettledIsSettled
<1>2. Automations!SettledStays => SettledStays
  BY Zenon
     DEF SettledStays, Automations!SettledStays, Automation!SettledStays, Automations!Settled,
         Automation!Settled, Automations!WrittenBack, Automation!WrittenBack, Automations!Signals,
         Automation!Signals, Automations!Detected, Automation!Detected,
         Automations!vars, Automation!vars, Automations!source, Automation!source, Automations!job,
         Automation!job, Automations!people, Automation!people
<1> QED BY <1>1, <1>2, WorkerIsAutomation, PTL

-----------------------------------------------------------------------------
(* The publication of checkpoints, of which StandInJobsProofs are, and the *)
(* parts beside each other.                                                *)

Checks == INSTANCE StandInJobsProofs WITH
  MaxAttempts <- MaxJobAttempts, MaxTroubles <- MaxJobTroubles,
  status <- jobStatus, member <- participates, row <- jobRow, queue <- jobQueue,
  attempt <- jobAttempt, troubles <- jobTroubles

LEMMA SameJobs == Checks!Init = Jobs!Init /\ Checks!Next = Jobs!Next
<1>1. Checks!Init = Jobs!Init
  BY Zenon DEF Checks!Init, Jobs!Init, Checks!Nothing, Jobs!Nothing, Checks!Idle, Jobs!Idle
<1>2. Checks!Next = Jobs!Next
  BY Zenon
     DEF Checks!job, Jobs!job, Checks!public, Jobs!public, Checks!project, Jobs!project,
         Checks!graphile, Jobs!graphile, Checks!Nothing, Jobs!Nothing, Checks!Idle, Jobs!Idle,
         Checks!Published, Jobs!Published, Checks!Final, Jobs!Final, Checks!Open, Jobs!Open,
         Checks!Trouble, Jobs!Trouble, Checks!NoTrouble, Jobs!NoTrouble, Checks!SetStatus,
         Jobs!SetStatus, Checks!Submit, Jobs!Submit, Checks!Pending, Jobs!Pending, Checks!Reconcile,
         Jobs!Reconcile, Checks!Add, Jobs!Add, Checks!Dispatch, Jobs!Dispatch, Checks!Start,
         Jobs!Start, Checks!Again, Jobs!Again, Checks!Returns, Jobs!Returns, Checks!Throws,
         Jobs!Throws, Checks!Goes, Jobs!Goes, Checks!Busy, Jobs!Busy, Checks!Lapse, Jobs!Lapse,
         Checks!Kill, Jobs!Kill, Checks!Claim, Jobs!Claim, Checks!Read, Jobs!Read, Checks!Model,
         Jobs!Model, Checks!Claimed, Jobs!Claimed, Checks!Refused, Jobs!Refused, Checks!Boundary,
         Jobs!Boundary, Checks!Holds, Jobs!Holds, Checks!Apply, Jobs!Apply, Checks!Complete,
         Jobs!Complete, Checks!MayFail, Jobs!MayFail, Checks!Fail, Jobs!Fail, Checks!TurnPosture,
         Jobs!TurnPosture, Checks!Leave, Jobs!Leave, Checks!Withdraw, Jobs!Withdraw, Checks!Handle,
         Jobs!Handle, Checks!Next, Jobs!Next
<1> QED BY <1>1, <1>2

\* The composition behaves as the publication of checkpoints does.
LEMMA WorkerIsJobs == WorkerFairSpec => Checks!Spec
<1>1. WorkerInit => Checks!Init BY SameJobs DEF WorkerInit
<1>2. [WorkerNext]_workerVars => [Checks!Next]_(Checks!vars)
  BY SameJobs
     DEF WorkerNext, workerVars, jobsVars, Checks!vars, Checks!job, Checks!public, Checks!project,
         Checks!graphile
<1> QED BY <1>1, <1>2, PTL DEF WorkerFairSpec, Checks!Spec

\* The composition behaves as a question does, and as the notifications do.
LEMMA WorkerIsQuestion == WorkerFairSpec => Spec
<1>1. WorkerInit => Init BY DEF WorkerInit
<1>2. [WorkerNext]_workerVars => [Next]_vars BY DEF WorkerNext, workerVars
<1> QED BY <1>1, <1>2, PTL DEF WorkerFairSpec, Spec

LEMMA WorkerIsPush == WorkerFairSpec => Push!Spec
<1>1. WorkerInit => Push!Init BY DEF WorkerInit
<1>2. [WorkerNext]_workerVars => [Push!Next]_(Push!vars)
  BY DEF WorkerNext, workerVars, pushVars, Push!vars, Push!thread, Push!queue
<1> QED BY <1>1, <1>2, PTL DEF WorkerFairSpec, Push!Spec

\* Whatever job moves, the tables and the workers hold what they can hold.
THEOREM WorkerIsTyped == WorkerFairSpec => []WorkerTypeOK
<1>1. Checks!Spec => []Checks!JobsTypeOK
  <2>1. Checks!JobsAssumption BY JobsConstants, Zenon DEF Checks!JobsAssumption, Jobs!JobsAssumption
  <2> QED BY <2>1, Checks!TypeCorrect
<1>2. Checks!JobsTypeOK => Jobs!JobsTypeOK
  BY Zenon
     DEF Checks!JobsTypeOK, Jobs!JobsTypeOK, Checks!Statuses, Jobs!Statuses, Checks!Open, Jobs!Open,
         Checks!Final, Jobs!Final, Checks!Published, Jobs!Published, Checks!Outputs, Jobs!Outputs, Checks!Steps, Jobs!Steps
<1>3. Requests!Spec => []Requests!RequestTypeOK BY RequestsAreLimited, Requests!TypeCorrect
<1>4. Requests!RequestTypeOK => Request!RequestTypeOK
  BY Zenon
     DEF Requests!RequestTypeOK, Request!RequestTypeOK, Requests!Statuses, Request!Statuses,
         Requests!Revisions, Request!Revisions, Requests!Cases, Request!Cases, Requests!Steps, Request!Steps
<1>5. Automations!Spec => []Automations!AutomationTypeOK BY AutomationIsLimited, Automations!TypeCorrect
<1>6. Automations!AutomationTypeOK => Automation!AutomationTypeOK
  BY Zenon
     DEF Automations!AutomationTypeOK, Automation!AutomationTypeOK, Automations!States, Automation!States,
         Automations!Signals, Automation!Signals, Automations!Threads, Automation!Threads,
         Automations!Handled, Automation!Handled, Automations!Cases, Automation!Cases,
         Automations!Statuses, Automation!Statuses, Automations!Detected, Automation!Detected
<1>7. PushInv => Push!PushTypeOK BY PushIsTyped
<1>8. TypeOK /\ Jobs!JobsTypeOK /\ Request!RequestTypeOK /\ Push!PushTypeOK /\ Automation!AutomationTypeOK
        => WorkerTypeOK
  BY DEF WorkerTypeOK
<1> QED BY <1>1, <1>2, <1>3, <1>4, <1>5, <1>6, <1>7, <1>8, TypeCorrect, PushInvariant,
           WorkerIsQuestion, WorkerIsJobs, WorkerIsRequest, WorkerIsPush, WorkerIsAutomation, PTL
=============================================================================
